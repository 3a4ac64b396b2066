\* Two clients of two hosts, one of which is the fallback of the other.
CONSTANTS
    k1 = k1
    k2 = k2
    primary = primary
    backup = backup
    Clients = {k1, k2}
    Hosts = {primary, backup}
    Plans <- MCTwoBases
    Burst = 1
    FailureThreshold = 2
    OpenDuration = 2
    MaxRetries = 1
SPECIFICATION Spec
SYMMETRY MCSymmetry
INVARIANTS
    TypeOK
    OpenAfterFailures
    OneStragglerEach
PROPERTIES
    OpenAdmitsNobody
