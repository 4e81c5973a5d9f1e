SPECIFICATION Spec
CONSTANTS
    p1 = p1
    p2 = p2
    Procs = {p1}
    Free = Free
    MaxVersion = 3
    Prereleases = {2}
    Policies <- AnyPolicy
    Ops = {"update", "updateFrom", "rollback", "install", "installFrom", "uninstall"}
    Windows = FALSE
    Ageing = "none"
    Faults = FALSE
    MaxCrashes = 0
INVARIANTS ReceiptDescribesBinaries
PROPERTIES VersionsAreAdmitted
