\* Two callers, one of which gives up: what is the other told?
CONSTANTS
    c1 = c1
    c2 = c2
    plain = plain
    other = other
    nonsense = nonsense
    ascii = ascii
    None = None
    Callers = {c1, c2}
    Inputs = {plain}
    Names = {ascii}
    NameOf <- MCNameOf
    Wishes = {FALSE}
    TTL <- MCTTL
    MaxTime = 1
SPECIFICATION Spec
INVARIANTS
    UnknownIsAboutSources
