SPECIFICATION Spec
CONSTANTS
    a1 = a1
    a2 = a2
    Admins = {a1, a2}
    Callers = {"c"}
    Profiles = {"base", "leaf"}
    Fields = {"x", "y"}
    Values = {1, 2}
    Null = Null
    NoProfile = NoProfile
    Free = Free
    Manifests <- MCManifests
    Parents = {NoProfile}
    Documents <- MCDocuments
    RuleLists <- MCRules
    Bundles <- MCFlat
    Ops = {"rules"}
    MaxRequests = 1
SYMMETRY Symmetry
PROPERTIES FreshIsCurrent
