SPECIFICATION Spec
CONSTANTS
    Jobs = {j1, j2}
    PageSize = 2
    MaxTS = 3
    MaxFailures = 1
INVARIANTS NothingSkipped
PROPERTIES EveryMessageIndexed KeepsIndexPromise
