SPECIFICATION Spec
CONSTANTS
    LPC_NUM_BUFF_TXDESCS = 5
    LPC_NUM_BUFF_RXDESCS = 3
    Clens = {1, 2}
    TokenMax = 5
    MaxCleans = 1
    RxBufs = {1, 2, 3, 4}
    Scenarios <- OneSender
INVARIANT
    BlocksUntilRoom
