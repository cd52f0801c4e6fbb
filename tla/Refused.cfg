CONSTANTS
    a = a
    b = b
    x = x
    y = y
    c1 = c1
    c2 = c2
    main = main
    None = None
    Torn = Torn
    Startup = main
    Keys = {a}
    Strings = {x, y}
    Clients = {c1, main}
    Digests = {1, 2}
    Commands <- RefusedCommands
    Requests <- RefusedRequests
    Digest <- MCDigest
    ByteLen <- MCByteLen
    LazyFlush = FALSE
    Ms = 1
    Sec = 2
    U64Max = 9
    MaxInstant = 14
    MaxCapacity = 4
    SampleSize = 1
    MaxTime = 2
    MaxLen = 3
    FsyncModes = {"Always"}
    BufferSize = 1
    TornWrites = FALSE
    CrashAfterTorn = FALSE
    DiskErrors = FALSE
    MaxCrashes = 1
    MaxLog = 3
SPECIFICATION AofSpec
PROPERTY OnlyOldValuesReturn
