CONSTANTS
    Client = {c1, c2, c3}
    NULL = NULL
    MaxClients = 2
    Interval = 3
    TimeModulus = 10
    MaxLag = 2
SPECIFICATION FairSpec
INVARIANTS PointsToListed PanicNeedsDisconnect
PROPERTY Pushed
