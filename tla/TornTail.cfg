CONSTANTS
    a = a
    b = b
    x = x
    y = y
    c1 = c1
    c2 = c2
    main = main
    None = None
    Torn = Torn
    Startup = main
    Keys = {a}
    Strings = {x, y}
    Clients = {c1, main}
    Digests = {1, 2}
    Commands <- TornTailCommands
    Requests <- TornTailRequests
    Digest <- MCDigest
    ByteLen <- MCByteLen
    LazyFlush = FALSE
    Ms = 1
    Sec = 2
    U64Max = 9
    MaxInstant = 14
    MaxCapacity = 4
    SampleSize = 1
    MaxTime = 1
    MaxLen = 3
    FsyncModes = {"Always"}
    BufferSize = 1
    TornWrites = TRUE
    CrashAfterTorn = TRUE
    DiskErrors = FALSE
    MaxCrashes = 2
    MaxLog = 3
SPECIFICATION AofSpec
PROPERTY ZeroDataLoss
