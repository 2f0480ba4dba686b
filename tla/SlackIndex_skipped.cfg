SPECIFICATION Spec
CONSTANTS
    Jobs = {j1}
    PageSize = 2
    MaxTS = 3
    MaxFailures = 1
INVARIANTS IndexedSinceLastFetch
