\* Two lookups of two tasks each that compete for one slot: every source,
\* every finding, every order of arrival.
CONSTANTS
    l1 = l1
    l2 = l2
    Lookups = {l1, l2}
    MaxConcurrency = 1
    Primary <- MCChain
    Corroborating = {"dns"}
SPECIFICATION Spec
SYMMETRY MCSymmetry
INVARIANTS
    SlotsAccounted
    ChainStopsWhenConclusive
    AvailableIsAuthoritative
    ConflictIffContradiction
    VerdictIgnoresArrival
    InfoAgreesWithVerdict
