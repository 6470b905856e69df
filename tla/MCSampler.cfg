SPECIFICATION Spec
CONSTANTS
    vocab_size = 5
    Unit = 8
    ToppUnit = 10
    Logits <- MCLogits
    Settings <- MCSettings
INVARIANTS
    ScratchInStep
    DrawsTheNucleus
