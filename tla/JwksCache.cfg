SPECIFICATION AnsweringSpec
CONSTANTS
    r1 = r1
    r2 = r2
    Requests = {r1, r2}
    NoKid = NoKid
    Free = Free
    Tokens <- MCSomeTokens
    KeySets <- MCRotation
    TTL = 3
    MinRefetch = 2
    MaxTime = 3
INVARIANTS FetchesAreShared
PROPERTIES StoresAreSpaced UnavailableOnlyBeforeFirstFetch EveryRequestAnswered
