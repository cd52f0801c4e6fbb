CONSTANTS
    None = None
    Keys <- Words
    Strings <- Words
    Digests = {1, 255, 768}
    U64Max = 300
    U64Of <- MCU64Of
    I64Of <- MCI64Of
    U8Of <- MCU8Of
    HexOf <- MCHexOf
    Accepts <- MCAccepts
    NumberOf <- MCNumberOf
    Names <- MCNames
    Arguments <- MCArguments
    Options <- MCOptions
    MaxArguments = 4
    MaxOptions = 4
    SettingTexts <- MCSettingTexts
    MaxDepth = 2
    FrameBytes <- MCFrameBytes
    MaxFrame = 5
    MAX_DEPTH = 2
    PatternBytes <- MCPatternBytes
    PlainBytes <- MCPlainBytes
    MaxMixed = 4
    MaxPattern = 6
    Subjects <- MCSubjects
SPECIFICATION Spec
INVARIANT RequestsAreAnswered
INVARIANT SetOptionsGrammar
INVARIANT SettingsTakePrecedence
INVARIANT RoundTrip
INVARIANT TornEntryIsNoEntry
INVARIANT GlobFindsMatches
