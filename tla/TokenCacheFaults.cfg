SPECIFICATION Spec
CONSTANTS
    p1 = p1
    p2 = p2
    Procs = {p1, p2}
    Grants = {"user", "robot"}
    Interactive = {"user"}
    Ops = {"token", "send", "login", "logout"}
    StoreFails = TRUE
    Free = Free
    MaxIssued = 2
    MaxStarts = 2
SYMMETRY Symmetry
\* The processes are command-line invocations: they end.
CHECK_DEADLOCK FALSE
INVARIANTS NobodyIsStranded RetryIsFresh
PROPERTIES SiblingsSurvive
