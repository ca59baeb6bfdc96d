SPECIFICATION Spec
CONSTANTS
    main = main
    w1 = w1
    Thread = {main, w1}
    VmThread = main
    NoThread = NoThread
    MaxClasses = 1
INVARIANTS
    VmDeathHeldBack
