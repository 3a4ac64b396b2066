\* Two clients of one host that may throttle, fail or answer.
CONSTANTS
    k1 = k1
    k2 = k2
    host = host
    Clients = {k1, k2}
    Hosts = {host}
    Plans <- MCPlans
    Burst = 1
    FailureThreshold = 2
    OpenDuration = 2
    MaxRetries = 1
    Bodies <- MCBodies
SPECIFICATION RdapSpec
INVARIANTS
    KeepsToReplies
    OnlyAnswersSettle
    AnswersAreWhatIsListed
PROPERTIES
    CircuitRecovers
    CallsEnd
