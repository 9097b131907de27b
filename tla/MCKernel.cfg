\* Kernel: three processes with a code page and a data page, a page outside
\* the areas, and just the slots and frames they need.
\* Ring: five processes and a timer that fires every third instruction: forks
\* in the middle of a ring, and traps that hide a tick.
\* Cores: the four of test_mesi.c and three values, two of them the ones main
\* starts from.
CONSTANTS
    p1 = p1
    p2 = p2
    p3 = p3
    p4 = p4
    p5 = p5
    a = a
    b = b
    v0 = v0
    v1 = v1
    v10 = v10
    NULL = NULL
    NoValue = NoValue
    Proc = {p1, p2, p3}
    FirstProc = p1
    NPage = 3
    NArea = 2
    Writable = {1}
    NFrame = 4
    MaxMap = 3
    Value = {a, b}
    Period = 2
    RingProc = {p1, p2, p3, p4, p5}
    RingPeriod = 3
    CORE_NUM = 4
    LineValue = {v0, v1, v10}
    InitMem = v10
    InitCache = v0
SPECIFICATION PartsSpec
INVARIANTS LinksSound FaultFixed NoResourceFailure CheckState
PROPERTIES RestartedStoreDone StoreCompletes EveryoneRuns ImplementsRoundRobin CachesCoherent
\* a failed assertion ends the emulator
CHECK_DEADLOCK FALSE
