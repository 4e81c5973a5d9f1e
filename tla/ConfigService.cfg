SPECIFICATION Spec
CONSTANTS
    a1 = a1
    a2 = a2
    Admins = {a1, a2}
    Callers = {"c"}
    Profiles = {"base", "leaf"}
    Fields = {"x", "y"}
    Values = {1, 2}
    Null = Null
    NoProfile = NoProfile
    Free = Free
    Manifests <- MCManifests
    Parents = {NoProfile, "base"}
    Documents <- MCDocuments
    RuleLists <- MCRules
    Bundles <- MCBundles
    Ops = {"manifest", "policy", "patch", "restore", "rules", "import"}
    MaxRequests = 3
SYMMETRY Symmetry
INVARIANTS StoreIsSound NoLockCycle VersionsIdentify
PROPERTIES NoLostUpdate
