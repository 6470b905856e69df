CONSTANTS
    Base = 4
    Caps = {6, 12}
    BUCKET = 4
    MAX_BUCKETS = 4
    MAX_WIRE = 12
    SEM_MAX_WIRE = 6
    LINE_WIRE = 7
    LEN_SYMBOLS = 4
    MaxSeq = 3
    TEXT_BYTES = 8
    Unit = 64
    LogitUnit = 2500
    Bytes = {1, 2, 3, 4, 5}
    SPACE = 1
    MARK = 9
    BOS = 0
    BufBytes = 3
    OutBytes = 5
    CodeLength <- MCCodeLength
    Vocabs <- MCVocabs
    Heads <- MCHeads
    Acts <- MCActs
    Hidden <- MCHidden
    HostTexts <- MCHostTexts
    BoardLines <- MCBoardLines
    Stray <- MCStray
    Tables <- MCTables
    Triples <- MCTriples
    MaxSyms = 8
SPECIFICATION SemSpec
INVARIANTS
    TextArrives
    MergedOut
    
    IntactWireAccepted
    AnyWireIsHarmless
PROPERTIES
    TokensByCourier
    CommandsReturn
