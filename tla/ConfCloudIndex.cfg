SPECIFICATION Spec
CONSTANTS
    Docs = {d1, d2}
    Jobs = {index, full}
    FullJobs = {full}
    PageSize = 1
    Day = 3
    Skew = 1
    MaxSpan = 1
    MaxTime = 4
    MaxFailures = 1
    MaxEdits = 2
INVARIANTS NothingMissed
PROPERTIES EventuallyIndexed KeepsIndexPromise
