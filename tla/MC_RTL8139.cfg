CONSTANTS
    f1 = f1
    f2 = f2
    Senders = {}
    Payloads = {}
    NoData = NoData
    NoSender = NoSender
    RxFrames <- MCRxFrames
    RxLen <- MCRxLen
    RingSize = 16
    BufferSize = 24
    Garbage = Garbage
    MaxJobs = 1
    MaxRx = 8
SPECIFICATION NicSpec
INVARIANT RxInOrder
CHECK_DEADLOCK FALSE
