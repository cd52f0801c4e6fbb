CONSTANTS
    a = a
    b = b
    x = x
    y = y
    c1 = c1
    c2 = c2
    None = None
    Keys = {a, b}
    Strings = {x, y}
    Clients = {c1}
    Digests = {1, 2}
    Commands <- ManyCommands
    Digest <- MCDigest
    ByteLen <- MCByteLen
    LazyFlush = TRUE
    Ms = 2
    Sec = 4
    U64Max = 9
    MaxInstant = 24
    MaxCapacity = 4
    SampleSize = 1
    MaxTime = 4
    MaxLen = 1
SPECIFICATION FairSpec
INVARIANT ReadPathsAgree
PROPERTY DeadlineHonoured
INVARIANT ExpireTimeFaithful
INVARIANT ListWindow
PROPERTY ExpiredIsReclaimed
