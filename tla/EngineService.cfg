\* Two callers, two spellings of one name, an input that is no name, with and
\* without payloads, over a clock on which entries are stored, expire and are
\* replaced while a purge is under way: does Check keep its promise?
CONSTANTS
    c1 = c1
    c2 = c2
    plain = plain
    other = other
    nonsense = nonsense
    ascii = ascii
    None = None
    Callers = {c1, c2}
    Inputs = {plain, other, nonsense}
    Names = {ascii}
    NameOf <- MCNameOf
    Wishes = {TRUE, FALSE}
    TTL <- MCTTL
    MaxTime = 1
SPECIFICATION FairSpec
INVARIANTS
    TypeOK
    SingleLeader
    MonotoneReads
PROPERTIES
    CacheNeverRegresses
    OnlyExpiredLeave
    ImplementsService
    ExpiredLeave
