SPECIFICATION MCSpec
CONSTANTS
    Callbacks = {c1, c2}
    Users = {u1, u2}
    Secrets = {1, 2}
    None = None
INVARIANTS ConnectedIsStored CardShowsOwn
PROPERTIES EveryCallbackEnds
CHECK_DEADLOCK FALSE
