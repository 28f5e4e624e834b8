CONSTANTS
    SeqSpace = 32
    TCP_MSS = 2
    TCP_WND = 3
    TCP_SND_BUF = 4
    TCP_SND_QUEUELEN = 3
    TCP_MAXRTX = 3
    TCP_SYNMAXRTX = 2
    DupThresh = 1
    MboxSize = 1
    Scenarios <- MCScenarios
SPECIFICATION Spec
INVARIANT EndIsKept
CHECK_DEADLOCK FALSE
