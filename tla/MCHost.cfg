SPECIFICATION Spec
CONSTANTS
    Server = Server
    Unbound = Unbound
    PortOf <- MCPortOf
    OutSize <- MCOutSize
    Texts <- MCTexts
    PwmData <- MCPwm
    OledData <- MCOled
    Programs = {"decode", "st", "ep"}
    InSize = 1
    MaxOled = 2
    MaxPwm = 2
    FrameSize = 1
    Rows = 2
    MaxLoad = 3
    MaxAhead = 1
INVARIANTS TypeOK InStep DecodedWasSent CommandsOnce CommandsInOrder
PROPERTIES HeadersFound RelaysInOrder CommandsReachBoard 
CHECK_DEADLOCK FALSE
