CONSTANTS
    a = a
    b = b
    x = x
    y = y
    c1 = c1
    c2 = c2
    main = main
    None = None
    Torn = Torn
    Startup = main
    Keys = {a}
    Strings = {x, y}
    Clients = {c1, c2, main}
    Digests = {1, 2}
    Commands <- DurabilityCommands
    Requests <- DurabilityRequests
    Digest <- MCDigest
    ByteLen <- MCByteLen
    LazyFlush = FALSE
    Ms = 2
    Sec = 2
    U64Max = 4
    MaxInstant = 14
    MaxCapacity = 4
    SampleSize = 0
    MaxTime = 3
    MaxLen = 2
    FsyncModes = {"Always", "EverySec"}
    BufferSize = 1
    TornWrites = TRUE
    CrashAfterTorn = FALSE
    DiskErrors = TRUE
    MaxCrashes = 1
    MaxLog = 2
SPECIFICATION AofSpec
SYMMETRY ConnectionSymmetry
INVARIANT AofTypeOK
INVARIANT NoOrphanTtl
INVARIANT AckedSurvives
INVARIANT EverySecWindow
INVARIANT NoHoles
PROPERTY Restored
PROPERTY KeepsLog
