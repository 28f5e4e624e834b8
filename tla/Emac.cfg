SPECIFICATION FairSpec
CONSTANTS
    LPC_NUM_BUFF_TXDESCS = 3
    LPC_NUM_BUFF_RXDESCS = 3
    Clens = {1, 2}
    TokenMax = 3
    MaxCleans = 1
    RxBufs = {1, 2, 3, 4}
    Scenarios <- MCScenarios
INVARIANTS
    RingIsFifo
    BuffersOwned
PROPERTY
    DriverGoesOn
