SPECIFICATION Spec
CONSTANTS
    Topics = {"t1", "t2", "t3"}
    Payloads = {0}
    MaxPacketId = 2
    MaxPubs = 1
    Window = 1
    EarlyPublish = TRUE
    LongTopics = {"t3"}
    MaxHandlers = 1
    MaxCalls = 4
    MaxLinks = 2
    CutCalls = 1
    IdleCalls = 1
    NoTopic = NoTopic
INVARIANTS
    IndInv
    AnswerMatchesRequest
    SubscriptionsHaveHandlers
    NothingUnackedWhenConnected
PROPERTIES
    ConnectedMeansAccepted
