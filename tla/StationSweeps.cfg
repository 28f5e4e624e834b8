SPECIFICATION StationServedSpec
CONSTANTS
    Topics = {"lamp"}
    Files <- OneOutput
    Prefixes = {}
    RunsOn = {}
    UserEnds = {TRUE}
    Payloads <- Texts
    MaxPacketId = 3
    MaxPubs = 0
    Window = 1
    EarlyPublish = FALSE
    LongTopics = {}
    MaxHandlers = 2
    MaxCalls = 2
    MaxLinks = 1
    CutCalls = 2
    IdleCalls = 2
    NoTopic = NoTopic
PROPERTY
    SweepsForEver
