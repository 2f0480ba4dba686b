SPECIFICATION Spec
CONSTANTS
    Calls = {c1, c2, c3}
    Instances = {n1, n2, n3, n4}
    Null = Null
SYMMETRY Symmetry
INVARIANTS AppNeverStopped AppRuns OneAppRuns
CHECK_DEADLOCK FALSE
