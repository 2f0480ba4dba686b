SPECIFICATION Spec
CONSTANTS
    Vals = {v1, v2}
    IVs = {i1, i2, i3}
    None = None
    Garbage = Garbage
    Providers = {slack}
    Users = {u1}
    Workers = {w1, w2}
    Requests = {r1, r2}
SYMMETRY Symmetry
INVARIANTS SavedCredentialsReadBack SharedReadsBackUnderOneIV
PROPERTIES SharedLostOnlyByRekey InvalidUntilShared KeepsRowPromise
CHECK_DEADLOCK FALSE
