CONSTANTS
    Base = 4
    Caps = {4, 6}
    MaxSyms = 4
    Tables <- MCTables
    Triples <- MCTriples
SPECIFICATION Spec
INVARIANTS
    TypeOK
    CarryAbsorbed
    RangesWide
    RoundTrip
    CodeInsideRange
    SingleByteTail
PROPERTY SymbolsByCourier
