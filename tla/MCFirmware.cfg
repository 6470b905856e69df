CONSTANTS
    small = small
    big = big
    bad = bad
    NoFile = NoFile
    Files <- MCFiles
    Size <- MCSize
    KvRow <- MCKvRow
    VocabSize <- MCVocabSize
    SeqLen <- MCSeqLen
    Broken = {bad}
    HasTok = {small, bad}
    PsramSizes = {0, 8, 12}
    Window = 2
    Align = 4
    FastSeq = 2
    Contexts = {0, 1}
    MaxAddr = 23
SPECIFICATION Spec
INVARIANTS
    TypeOK
    Coherent
    WeightsIntact
    LayoutSound
