SPECIFICATION Spec
CONSTANTS
    Wrap = 11
    IgnoreTime = 3
    RefreshPeriod = 7
    MaxEdges = 5
INVARIANTS
    IndInv
    EdgesHonoured
    NoTipReportedTwice
