CONSTANTS
    c1 = c1
    c2 = c2
    c3 = c3
    Clients = {c1, c2, c3}
    None = None
    MaxConnections = 2
    FsyncMode = "EverySec"
SPECIFICATION FairSpec
INVARIANT TypeOK
INVARIANT PermitAccounting
INVARIANT CleanExitIsSynced
PROPERTY DrainEnds
PROPERTY SignalStopsUnlessLost
