CONSTANTS
    MaxCmds = 2
    MaxText = 1
    MaxMimics = 0
    MaxSessions = 1
SPECIFICATION Spec
INVARIANT CancelIsRecoverable
