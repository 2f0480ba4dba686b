SPECIFICATION Spec
CONSTANTS
    Jobs = {index, fullIndex}
    Tokens = {t1, t2, t3, t4}
    None = None
    MaxRetries = 1
    MaxFailures = 1
    Reconnects = 1
INVARIANTS RotationKeepsToken FlagHonest
PROPERTIES CallReturns DeadIsFlagged FalseAlarmHeals KeepsRowPromise
