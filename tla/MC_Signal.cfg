CONSTANTS
    a = a
    b = b
    c = c
    P1 = P1
    P2 = P2
    hA = hA
    SIG_DFL = SIG_DFL
    SIG_IGN = SIG_IGN
    DefaultAction = DefaultAction
    Body = Body
    HandlerRet = HandlerRet
    SigTramp = SigTramp
    Arg = Arg
    Garbage = Garbage
    Threads <- MCThreads
    Procs <- MCProcs
    Parent <- MCParent
    TID <- MCTID
    FirstThread <- MCFirst
    SigCount = 3
    SIGKILL = 1
    SIGSTOP = 2
    UserHandlers = {hA}
    DefaultHandler <- MCDefault
    StackSize = 3
SPECIFICATION Spec
INVARIANT TypeOK
INVARIANT ReturnsToInterruptedCode
