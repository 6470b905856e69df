SPECIFICATION OpenSpec
CONSTANTS
    Globals <- MCGlobals
    Required <- MCRequired
    Parts = {"wq"}
    NLayers = 1
    Layers = {0, 1}
    DIR_CHUNK = 2
    Counts = {0, 2, 3}
    Align = 2
    FileBytes = 8
    WORD64 = 16
    Offsets <- MCOffsets
    Lengths = {2, 6, 13}
INVARIANTS
    OpensAsWritten
    MissingIsReal
