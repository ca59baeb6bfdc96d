SPECIFICATION CodeSpec
CONSTANTS
    Short = 3
    Long = 4
    Methods <- MethodsToRewrite
    JumpLimit = 8
    SwitchBody = 4
    EntryLen = 4
    CallLen = 5
    NewarrayLen = 4
    ReturnLen = 5
    LARGEST_INJECTION = 10
    SameLimit = 6
    U2Max = 32
INVARIANTS
    CodeTypeOK
    MapMatchesOutput
    JumpsLand
    SwitchesAligned
    NeverFatal
    ExceptionsCovered
    DebugTablesMatch
    FramesLand
PROPERTIES
    Terminates
