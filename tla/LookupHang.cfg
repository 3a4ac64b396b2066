\* Does the timeout bound every lookup?
CONSTANTS
    l1 = l1
    l2 = l2
    Lookups = {l1}
    MaxConcurrency = 1
    Primary <- MCChain
    Corroborating = {}
SPECIFICATION FairSpec
PROPERTIES
    EveryLookupEnds
