\* As ToolCalls: does whatever is pasted around a host leave it alone?
CONSTANTS
    Pieces <- MCPieces
    Typed <- MCTyped
    Lower <- MCLower
    Ascii <- MCAscii
    Alphabet <- MCAlphabet
    PublicSuffixes <- MCPublicSuffixes
    MaxLabel = 4
    Pastes <- MCPastes
    Batches <- MCBatches
    Requests <- MCRequests
    MaxBatchSize = 3
    MaxSuggestCandidates = 3
    DefaultCandidates = 2
    DefaultLimit = 2
SPECIFICATION Spec
INVARIANTS
    PastesStandForTheirHost
