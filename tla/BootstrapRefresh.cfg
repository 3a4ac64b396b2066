\* Three callers; registry stale after three ticks, a pause of one.
CONSTANTS
    k1 = k1
    k2 = k2
    k3 = k3
    None = None
    Clients = {k1, k2, k3}
    TTL = 3
    Pause = 1
    MaxEdition = 2
SPECIFICATION FairSpec
INVARIANTS
    LockIsReturned
PROPERTIES
    FetchesAreSpaced
    EditionsNeverRegress
    OthersDoNotWait
