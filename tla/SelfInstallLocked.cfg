SPECIFICATION Spec
CONSTANTS
    p1 = p1
    p2 = p2
    Procs = {p1, p2}
    Free = Free
    MaxVersion = 2
    Prereleases = {}
    Policies <- NoPolicy
    Ops = {"update", "updateFrom", "rollback"}
    Windows = FALSE
    Ageing = "none"
    Faults = FALSE
    MaxCrashes = 0
SYMMETRY Symmetry
\* Without an installed binary there is nothing to start.
CHECK_DEADLOCK FALSE
INVARIANTS OneUpdateAtATime NeverHalfWritten
PROPERTIES Reversible NeverTakenAway
