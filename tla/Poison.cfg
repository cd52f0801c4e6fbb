CONSTANTS
    a = a
    b = b
    x = x
    y = y
    c1 = c1
    c2 = c2
    None = None
    Keys = {a, b}
    Strings = {x, y}
    Clients = {c1}
    Digests = {1, 2}
    Commands <- PoisonCommands
    Digest <- MCDigest
    ByteLen <- MCByteLen
    LazyFlush = FALSE
    Ms = 1
    Sec = 2
    U64Max = 9
    MaxInstant = 12
    MaxCapacity = 4
    SampleSize = 1
    MaxTime = 2
    MaxLen = 1
SPECIFICATION Spec
INVARIANT NeverPoisoned
