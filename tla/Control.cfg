SPECIFICATION CtlFairSpec
CONSTANTS
    Lines <- MCLines
    Size = 16
    MAX_CMD_ARGS = 4
    MaxLines = 3
    MaxClients = 2
    EmptyLines = FALSE
    Bursts = FALSE
CHECK_DEADLOCK FALSE
INVARIANTS LinesInOrder WordsMeant
PROPERTY Answered
