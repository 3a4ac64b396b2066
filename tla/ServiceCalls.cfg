\* Two calls of Check and one of Info that compete for one slot.
CONSTANTS
    c1 = c1
    c2 = c2
    r1 = r1
    plain = plain
    nonsense = nonsense
    ascii = ascii
    None = None
    Callers = {c1, c2}
    Readers = {r1}
    Inputs = {plain}
    Names = {ascii}
    NameOf <- MCNameOf
    Wishes = {FALSE}
    TTL <- MCTTL
    MaxTime = 0
    MaxConcurrency = 1
    Primary <- MCChain
    Corroborating = {}
SPECIFICATION ServiceFairSpec
INVARIANTS
    AvailableIsGrounded
PROPERTIES
    OnlyDiscoveryHangs
    GivingUpEnds
