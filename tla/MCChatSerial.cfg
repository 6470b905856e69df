CONSTANTS
    MaxCmds = 3
    MaxText = 1
    MaxMimics = 1
    MaxSessions = 2
SPECIFICATION Spec
INVARIANTS
    Pairing
    CleanMeansQuiet
    VerdictIsTheBoards
    DirtIsRecoverable
PROPERTY ReplReturns
