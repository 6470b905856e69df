SPECIFICATION SweepSpec
CONSTANTS
    Count = 4
    HzTables <- MCHzTables
    Marginals = {0, 100}
    Answers = {"none", "apmemory", "issi16"}
    MaxIndexes <- MCMaxIndexes
    WordBits = 8
    Lines = 4
    AddrBits = 3
    Seed = {0, 2, 5, 7}
INVARIANTS
    SettlesOnFastest
    FaultsFound
