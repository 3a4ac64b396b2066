\* As WhoisDiscovery: is a server that is remembered the one IANA names?
CONSTANTS
    c1 = c1
    c2 = c2
    Clients = {c1, c2}
    Tlds = {"ru", "it"}
    Record <- MCRecord
    Texts <- MCTexts
    TTL = 2
SPECIFICATION Spec
INVARIANTS
    ServerIsIANAs
