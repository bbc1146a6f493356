SPECIFICATION MCSpec
CONSTANTS
    AddrLimit = 16
    NoObject = "0"
    Users = {u1, u2}
    ByteLimit = 4
    ExeBase = 2
    Space = 3
    MaxCalls = 3
    Numbers = {"0", "1", "2", "3", "6", "16", "27"}
    NumberOf <- MCNumberOf
    BytesOf <- MCBytesOf
    Width <- MCWidth
    TypeOf <- MCTypeOf
    PointerOf <- MCPointerOf
    Maps <- MCMaps
    InitialMem <- MCInitialMem
    Lines <- MCLines
    Commands <- MCCommands
    Styles <- MCStyles
    Lexical <- Lexicon
INVARIANTS
    RoundTrip
    InstancesAdjoin
    PatternIsWritten
    FlagsAgree
    RequiredGivenTyped
    MapsLookedUp
CHECK_DEADLOCK FALSE
