CONSTANTS
    k1 = k1
    k2 = k2
    u1 = u1
    u2 = u2
    Kernel = Kernel
    ProcA = ProcA
    ProcB = ProcB
    NoThread = NoThread
    NoProc = NoProc
    Boot = Boot
    Consumed = Consumed
    Threads <- MCThreads
    Prio <- MCPrio
    Procs <- MCProcs
    Parent <- MCParent
    KernelProc = Kernel
    UserProcs <- MCUserProcs
    LowStarveThreshold = 4
    NormStarveThreshold = 2
    SleepArgs <- MCSleepArgs
    SleepBits = 2
    WordBits = 16
    Headrooms <- MCHeadrooms
    MaxSleepEntries = 1
SPECIFICATION Spec
INVARIANT ThreadAccountedFor
