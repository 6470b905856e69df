SPECIFICATION Spec
CONSTANTS
    FileBytes = 13
    TileBytes = 5
    STAGE_BYTES = 2
    OffsetWords = 32
    Calls <- MCCalls
INVARIANTS
    RowsFromTheirWeights
    RefusedForCause
PROPERTY CallReturns
