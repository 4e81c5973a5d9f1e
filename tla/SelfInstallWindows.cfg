SPECIFICATION FairSpec
CONSTANTS
    p1 = p1
    p2 = p2
    Procs = {p1}
    Free = Free
    MaxVersion = 2
    Prereleases = {}
    Policies <- NoPolicy
    Ops = {"update", "installFrom", "unmanaged", "uninstall"}
    Windows = TRUE
    Ageing = "dead"
    Faults = TRUE
    MaxCrashes = 2
\* Without an installed binary there is nothing to start.
CHECK_DEADLOCK FALSE
PROPERTIES WholeCopySurvives DeadLockIsBroken
