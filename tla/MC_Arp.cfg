CONSTANTS
    q = q
    a1 = a1
    a2 = a2
    m1 = m1
    r1 = r1
    Senders <- MCSenders
    Querier = q
    Payloads <- MCAddrs
    Addrs <- MCAddrs
    Hosts = {a1}
    MacOf <- MCMacOf
    Zero = Zero
    ReplyOf <- MCReplyOf
    ArpIP <- MCArpIP
    ArpMac <- MCArpMac
    NoData = NoData
    NoSender = NoSender
    RxFrames = {r1}
    RxLen <- MCRxLen
    RingSize = 16
    BufferSize = 24
    Garbage = Garbage
    MaxJobs = 1
    MaxRx = 2
    RtcUp = TRUE
    MsPerTick = 250
    Timeout = 500
    MaxQueries = 2
    EpochYear = 2000
    TickRate = 4
    StartTimes <- MCStartTimes
    UTCOffsets <- MCUTCOffsets
    OOBRows <- MCOOBRows
SPECIFICATION FairSpecAC
INVARIANT TypeOK
INVARIANT ClockTypeOK
INVARIANT ClockTracksEpoch
PROPERTIES
    QueryReturns
    ReplyReachesTable
\* The querier makes MaxQueries calls and stops; the system itself does not.
CHECK_DEADLOCK FALSE
