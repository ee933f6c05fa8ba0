------------------------------ MODULE RTL8139 ------------------------------
(***************************************************************************)
(* The RTL8139 driver of                                                   *)
(* src/source/Kernel/HardwareAbstraction/Devices/NIC/RTL8139.cpp and the   *)
(* card it programs.                                                       *)
(*                                                                         *)
(* Transmit: SendData picks a slot from CurrentTxBuffer (read, ++ and %= 4 *)
(* are three statements a preempted thread may be stopped between), locks *)
(* that slot's mutex, copies the frame and writes TxStatus, which hands   *)
(* the slot to the card.  Receive: the card writes each frame (a header,  *)
(* then its data) at its write offset CBR in a ring of RingSize and raises *)
(* RxOk; the interrupt handler queues a HandlePacket job, which walks the *)
(* ring from SeenOfs to CBR, wrapping at the driver's RxBufferSize, hands *)
(* every header it reads to Ethernet::HandlePacket and writes the new     *)
(* read pointer back to RxBufPtr.                                          *)
(*                                                                         *)
(* Offsets are in units of U bytes (U a multiple of the 4-byte alignment): *)
(* RingSize and BufferSize are 8K and 12K divided by U.                    *)
(***************************************************************************)
EXTENDS Naturals, Sequences, SequencesExt

CONSTANTS
    Senders,       \* threads that call SendData
    Payloads,      \* frames they transmit
    NoData, NoSender,
    RxFrames,      \* frames that may arrive from the wire
    RxLen,         \* their length (header included) in units
    RingSize,      \* the card's receive ring (RxConfig 0x8F: 8K + 16, WRAP = 1)
    BufferSize,    \* RxBufferSize, the ring the driver walks (0x1000 * 3)
    Garbage,       \* what a read of a header nobody wrote hands on
    MaxJobs,       \* model bound: queued HandlePacket jobs
    MaxRx          \* model bound: frames the card receives

ASSUME /\ RxLen \in [RxFrames -> 1..RingSize]
       /\ BufferSize >= RingSize /\ MaxJobs \in Nat \ {0}

TxSlots == 0..3
Headers == RxFrames \cup {Garbage}

VARIABLES
    curTx,     \* CurrentTxBuffer
    txpc,        \* where each sender is in SendData
    usebuf,    \* its local usebuf
    data,      \* the frame it sends
    mtx,       \* transmitbuffermtx[i]: the holder of slot i's mutex
    txbuf,     \* TransmitBuffers[i]: the frame in slot i
    txown,     \* the card owns slot i (TxStatus written, not yet sent)
    handedTx,  \* ghost: the frame slot i held when it was handed over
    wire,      \* ghost: the frames the card has transmitted
    rxbuf,     \* ReceiveBuffer: the header at each unit, or Garbage
    cbr,       \* the card's write offset (RxBufAddr)
    capr,      \* the card's read pointer (RxBufPtr + 0x10, modulo the ring)
    seenOfs,   \* SeenOfs
    intr,      \* IntrStatus bits raised and not yet acknowledged
    jobs,      \* HandlePacket jobs queued by HandleRxOk
    written,   \* ghost: the frames the card wrote into the ring
    delivered  \* ghost: the headers handed to Ethernet::HandlePacket

nicVars == <<curTx, txpc, usebuf, data, mtx, txbuf, txown, handedTx, wire,
             rxbuf, cbr, capr, seenOfs, intr, jobs, written, delivered>>
txVars == <<curTx, txpc, usebuf, data, mtx, txbuf, txown, handedTx>>
rxVars == <<rxbuf, cbr, capr, seenOfs, jobs, written, delivered>>

NicTypeOK ==
    /\ curTx \in 0..4
    /\ txpc \in [Senders -> {"idle", "inc", "mod", "lock", "copy", "status", "fault"}]
    /\ usebuf \in [Senders -> 0..4]
    /\ data \in [Senders -> Payloads \cup {NoData}]
    /\ mtx \in [TxSlots -> Senders \cup {NoSender}]
    /\ txbuf \in [TxSlots -> Payloads \cup {NoData}]
    /\ txown \in [TxSlots -> BOOLEAN]
    /\ handedTx \in [TxSlots -> Payloads \cup {NoData}]
    /\ rxbuf \in [0..(BufferSize - 1) -> Headers]
    /\ cbr \in 0..(RingSize - 1) /\ capr \in 0..(RingSize - 1)
    /\ seenOfs \in Nat
    /\ intr \subseteq {"RxOk", "TxOk"}
    /\ jobs \in 0..MaxJobs

\* The constructor: CurrentTxBuffer 0, four free slots, an empty ring.
NicInit ==
    /\ curTx = 0
    /\ txpc = [s \in Senders |-> "idle"]
    /\ usebuf = [s \in Senders |-> 0]
    /\ data = [s \in Senders |-> NoData]
    /\ mtx = [i \in TxSlots |-> NoSender]
    /\ txbuf = [i \in TxSlots |-> NoData]
    /\ txown = [i \in TxSlots |-> FALSE]
    /\ handedTx = [i \in TxSlots |-> NoData]
    /\ wire = <<>>
    /\ rxbuf = [o \in 0..(BufferSize - 1) |-> Garbage]
    /\ cbr = 0 /\ capr = 0 /\ seenOfs = 0
    /\ intr = {}
    /\ jobs = 0
    /\ written = <<>> /\ delivered = <<>>


-----------------------------------------------------------------------------
(***************************************************************************)
(* SendData(data, bytes) by sender s.  A frame over 1500 bytes returns    *)
(* at once; the frames here fit the MTU.                                   *)
(***************************************************************************)
SendRead(s, d) ==
    /\ txpc[s] = "idle"
    /\ usebuf' = [usebuf EXCEPT ![s] = curTx]
    /\ data' = [data EXCEPT ![s] = d]
    /\ txpc' = [txpc EXCEPT ![s] = "inc"]
    /\ UNCHANGED <<curTx, mtx, txbuf, txown, handedTx>>

\* this->CurrentTxBuffer++
SendInc(s) ==
    /\ txpc[s] = "inc"
    /\ curTx' = curTx + 1
    /\ txpc' = [txpc EXCEPT ![s] = "mod"]
    /\ UNCHANGED <<usebuf, data, mtx, txbuf, txown, handedTx>>

\* this->CurrentTxBuffer %= 4
SendMod(s) ==
    /\ txpc[s] = "mod"
    /\ curTx' = curTx % 4
    /\ txpc' = [txpc EXCEPT ![s] = "lock"]
    /\ UNCHANGED <<usebuf, data, mtx, txbuf, txown, handedTx>>

\* AutoMutex mtx(*transmitbuffermtx[usebuf]): blocks while another holds it.
\* A usebuf of 4 reads a mutex pointer past the array: the thread is lost.
SendLock(s) ==
    /\ txpc[s] = "lock"
    /\ IF usebuf[s] \in TxSlots
       THEN /\ mtx[usebuf[s]] = NoSender
            /\ mtx' = [mtx EXCEPT ![usebuf[s]] = s]
            /\ txpc' = [txpc EXCEPT ![s] = "copy"]
       ELSE /\ txpc' = [txpc EXCEPT ![s] = "fault"]
            /\ UNCHANGED mtx
    /\ UNCHANGED <<curTx, usebuf, data, txbuf, txown, handedTx>>

\* Memory::Copy into TransmitBuffers[usebuf].
SendCopy(s) ==
    /\ txpc[s] = "copy"
    /\ txbuf' = [txbuf EXCEPT ![usebuf[s]] = data[s]]
    /\ txpc' = [txpc EXCEPT ![s] = "status"]
    /\ UNCHANGED <<curTx, usebuf, data, mtx, txown, handedTx>>

\* The TxStatus write (OWN = 0) hands the slot to the card; the AutoMutex
\* is released as SendData returns.
SendStatus(s) ==
    LET i == usebuf[s] IN
    /\ txpc[s] = "status"
    /\ txown' = [txown EXCEPT ![i] = TRUE]
    /\ handedTx' = [handedTx EXCEPT ![i] = data[s]]
    /\ mtx' = [mtx EXCEPT ![i] = NoSender]
    /\ txpc' = [txpc EXCEPT ![s] = "idle"]
    /\ data' = [data EXCEPT ![s] = NoData]
    /\ UNCHANGED <<curTx, usebuf, txbuf>>

SendData(s) ==
    /\ \/ \E d \in Payloads : SendRead(s, d)
       \/ SendInc(s) \/ SendMod(s) \/ SendLock(s) \/ SendCopy(s) \/ SendStatus(s)
    /\ UNCHANGED <<wire, intr>> /\ UNCHANGED rxVars

-----------------------------------------------------------------------------
(***************************************************************************)
(* The card (hardware, configured by the constructor).                    *)
(***************************************************************************)

\* Transmit slot i: the frame in the buffer at this moment goes out.
CardTransmit(i) ==
    /\ txown[i]
    /\ wire' = Append(wire, txbuf[i])
    /\ txown' = [txown EXCEPT ![i] = FALSE]
    /\ intr' = intr \cup {"TxOk"}
    /\ UNCHANGED <<curTx, txpc, usebuf, data, mtx, txbuf, handedTx>>
    /\ UNCHANGED rxVars

\* Free bytes between the write offset and the read pointer.
RxFree == IF cbr >= capr THEN RingSize - cbr + capr ELSE capr - cbr

\* Receive frame f: header at CBR, data after it (past the end of the ring
\* with WRAP = 1), the next frame at the following offset modulo the ring.
CardReceive(f) ==
    /\ Len(written) < MaxRx
    /\ RxLen[f] < RxFree
    /\ rxbuf' = [o \in DOMAIN rxbuf |->
                    IF o = cbr THEN f
                    ELSE IF cbr < o /\ o < cbr + RxLen[f] THEN Garbage
                    ELSE rxbuf[o]]
    /\ cbr' = (cbr + RxLen[f]) % RingSize
    /\ intr' = intr \cup {"RxOk"}
    /\ written' = Append(written, f)
    /\ UNCHANGED <<capr, seenOfs, jobs, delivered>>
    /\ UNCHANGED txVars /\ UNCHANGED wire

-----------------------------------------------------------------------------
(***************************************************************************)
(* HandleInterrupt: HandleRxOk acknowledges and queues a HandlePacket     *)
(* job; HandleTxOk acknowledges.  (HandleTxOk's loop writes only           *)
(* TxBufferInUse, which nothing reads.)                                    *)
(***************************************************************************)
\* Mutant: RxOk acknowledged without queueing the job.
HandleInterruptNoJob ==
    /\ intr # {}
    /\ "RxOk" \in intr => jobs < MaxJobs
    /\ jobs' = jobs
    /\ intr' = {}
    /\ UNCHANGED <<rxbuf, cbr, capr, seenOfs, written, delivered>>
    /\ UNCHANGED txVars /\ UNCHANGED wire

HandleInterrupt ==
    /\ intr # {}
    /\ "RxOk" \in intr => jobs < MaxJobs
    /\ jobs' = IF "RxOk" \in intr THEN jobs + 1 ELSE jobs
    /\ intr' = {}
    /\ UNCHANGED <<rxbuf, cbr, capr, seenOfs, written, delivered>>
    /\ UNCHANGED txVars /\ UNCHANGED wire

\* The ring step of one header: its length, or one unit for a header
\* nobody wrote (a zero length still moves the offset by 4 bytes).
RxStep(h) == IF h \in RxFrames THEN RxLen[h] ELSE 1

\* while(ReadOffset < limit) { hand rxbuf[ReadOffset] on; step }
RECURSIVE RxWalk(_, _, _)
RxWalk(ro, limit, acc) ==
    IF ro < limit
    THEN RxWalk(ro + RxStep(rxbuf[ro]), limit, Append(acc, rxbuf[ro]))
    ELSE [ro |-> ro, acc |-> acc]

\* HandlePacket(), run by the job thread.
HandlePacket ==
    LET endOfs == cbr
        first  == IF seenOfs > endOfs
                  THEN LET w == RxWalk(seenOfs, BufferSize, <<>>)
                       IN  [ro |-> w.ro - BufferSize, acc |-> w.acc]
                  ELSE [ro |-> seenOfs, acc |-> <<>>]
        last   == RxWalk(first.ro, endOfs, first.acc)
    IN  /\ jobs > 0
        /\ jobs' = jobs - 1
        /\ delivered' = delivered \o last.acc
        /\ seenOfs' = last.ro
        /\ capr' = last.ro % RingSize
        /\ UNCHANGED <<rxbuf, cbr, intr, written>>
        /\ UNCHANGED txVars /\ UNCHANGED wire


NicNext ==
    \/ \E s \in Senders : SendData(s)
    \/ \E i \in TxSlots : CardTransmit(i)
    \/ \E f \in RxFrames : CardReceive(f)
    \/ HandleInterrupt
    \/ HandlePacket

NicSpec == NicInit /\ [][NicNext]_nicVars

-----------------------------------------------------------------------------
(***************************************************************************)
(* Properties.                                                             *)
(***************************************************************************)

(***************************************************************************)
(* HandlePacket hands Ethernet::HandlePacket the frames the card wrote,   *)
(* each once and in order, also after the card's write offset wraps      *)
(* around its ring and the driver's walk wraps around RxBufferSize.        *)
(***************************************************************************)
RxInOrder == IsPrefix(delivered, written)

=============================================================================
