SPECIFICATION StationSpec
CONSTANTS
    Topics = {"lamp", "lamp1", "air"}
    Files <- AllFiles
    Prefixes <- Alike
    RunsOn <- AlikeWithPayload
    UserEnds = {FALSE}
    Payloads <- TextsAndDevices
    MaxPacketId = 3
    MaxPubs = 1
    Window = 2
    EarlyPublish = TRUE
    LongTopics = {}
    MaxHandlers = 2
    MaxCalls = 3
    MaxLinks = 1
    CutCalls = 0
    IdleCalls = 0
    NoTopic = NoTopic
INVARIANT
    OutputNeedsCommand
