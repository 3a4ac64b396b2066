\* Two lookups, a TLD with a server and one without, entries of two ticks.
CONSTANTS
    c1 = c1
    c2 = c2
    Clients = {c1, c2}
    Tlds = {"ru", "it"}
    Record <- MCRecord
    Texts <- MCTexts
    TTL = 2
SPECIFICATION Spec
INVARIANTS
    TypeOK
    OnlyCutRepliesMislead
    TruncationNeverFrees
    PartialInfoAgrees
PROPERTIES
    MistakesExpire
