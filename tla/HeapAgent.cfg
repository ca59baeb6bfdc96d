SPECIFICATION FairSpec
CONSTANTS
    main = main
    w1 = w1
    Thread = {main, w1}
    VmThread = main
    NoThread = NoThread
    MaxClasses = 3
INVARIANTS
    TypeOK
    MonitorBalanced
    FreshClassNumber
    HookReadsStillValid
    AgentStateConsistent
    NativesLinked
    FatalOnlyAfterDeath
PROPERTIES
    CallsReturn
