SPECIFICATION ParsedSpec
CONSTANTS
    p1 = p1
    n3 = n3
    n1 = n1
    n2 = n2
    w1 = w1
    w2 = w2
    v1 = v1
    v2 = v2
    None = None
    Parses = {p1}
    Industries = {n1, n2, n3}
    Active0 = {n1, n2}
    Workers = {w1, w2}
    Outcomes = {"direct", "unrelated"}
    MaxVerdicts = 2
    MaxAttempts = 2
    MaxRevisions = 2
    Versions = {v1, v2}
    MaxDeliveries = 2
    Ordinals <- MCOrdinals
    ChunkTexts <- MCChunkTexts
    Documents <- MCDocuments
    TARGET_TOKENS = 8
    MAX_TOKENS = 12
    OVERLAP_TOKENS = 2
    TOKEN_CHARS = 2
    BlockTexts <- MCBlockTexts
    MaxBlocks = 3
    Words = {1, 2, 3, 9}
    Numbers = {9}
    Blocks <- MCBlocks
    Proposals <- MCProposals
    MIN_QUOTE = 2
SYMMETRY MCSymmetry
CHECK_DEADLOCK FALSE
INVARIANTS
    TextAccountedFor
    EvidenceIsQuoted
PROPERTIES
    RoutedWhole
    IndexIsWhole
