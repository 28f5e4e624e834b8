SPECIFICATION FairSpec
CONSTANTS
    high = high
    mid = mid
    low = low
    sem = sem
    mutex = mutex
    queue = queue
    timer = timer
    flag = flag
    note = note
    other = other
    beat = beat
    Idle = idle
    NoTask = none
    Forever = 99
    RobinTime = 2
    Tasks = {high, mid, low}
    Sems = {sem}
    Mutexes = {mutex}
    Queue = queue
    Timers = {timer, beat}
    Periodic = {timer}
    Flags = {flag}
    Msgs = {note, other}
    Isrs = isrs
    Programs <- MCPrograms
    Base <- MCBase
    Mortal = {high}
    Prios = {1, 2}
    Timeouts = {0, 2, 99}
    TokenMax = 1
    MaxLevel = 2
    MbxSize = 2
    FifoSize = 2
INVARIANTS
    HighestRuns
    QueuedOnce
    DelaysExact
    TimersExact
    NoLostWakeup
PROPERTY
    MailboxIsFifo
    TimedWaitsEnd
    RobinShares
