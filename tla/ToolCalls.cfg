\* Every tool, with batches up to the bound and requests beyond it.
CONSTANTS
    Pieces <- MCPieces
    Typed <- MCTyped
    Lower <- MCLower
    Ascii <- MCAscii
    Alphabet <- MCAlphabet
    PublicSuffixes <- MCPublicSuffixes
    MaxLabel = 4
    Pastes <- MCPastes
    Batches <- MCBatches
    Requests <- MCRequests
    MaxBatchSize = 3
    MaxSuggestCandidates = 3
    DefaultCandidates = 2
    DefaultLimit = 2
SPECIFICATION Spec
INVARIANTS
    TypeOK
    SummaryAddsUp
    EveryCandidateOnce
    SuggestionsAreTheBest
    NamesAreCanonical
    URLsStandForTheirHost
