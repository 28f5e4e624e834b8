SPECIFICATION StationFairSpec
CONSTANTS
    Topics = {"lamp"}
    Files <- OneOutput
    Prefixes = {}
    RunsOn = {}
    UserEnds = {TRUE}
    Payloads <- Texts
    MaxPacketId = 3
    MaxPubs = 0
    Window = 1
    EarlyPublish = FALSE
    LongTopics = {}
    MaxHandlers = 2
    MaxCalls = 2
    MaxLinks = 1
    CutCalls = 0
    IdleCalls = 0
    NoTopic = NoTopic
PROPERTY
    ReadsEnd
