SPECIFICATION Spec
CONSTANTS
    n_layers = 2
    max_seq = 3
    vocab_size = 3
    BOS = 1
    EOS = 2
    HASH_STEPS = 4
    HashToken <- MCHashToken
    Prompts <- MCPrompts
    Steps <- MCSteps
INVARIANTS
    LogitsFromContext
    
    PromptVerbatim
