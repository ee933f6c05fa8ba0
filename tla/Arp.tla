-------------------------------- MODULE Arp --------------------------------
(***************************************************************************)
(* ARP address resolution of                                               *)
(* src/source/Kernel/HardwareAbstraction/Network/ARP.cpp over the RTL8139 *)
(* driver, with Time::Now() from the RTC interrupt.                        *)
(*                                                                         *)
(* A querier thread calls SendQuery(addr): a cached entry is returned at  *)
(* once; otherwise it sends a request through SendData and spins until    *)
(* Now() passes Now() + 500, reading the table each time round.  Hosts    *)
(* answer the requests the card puts on the wire, or the answer is lost. *)
(* An answer the card receives reaches ARP::HandlePacket through the      *)
(* interrupt, the job and the receive walk of RTL8139.                     *)
(***************************************************************************)
EXTENDS RTL8139, Naturals

CONSTANTS
    Querier,      \* the thread calling SendQuery (one of Senders)
    Addrs,        \* local IPv4 addresses queried (not the broadcast address)
    Hosts,        \* the addresses a host answers for
    MacOf,        \* the EUI-48 address each host announces
    Zero,         \* EUI48Address(): all zero
    ReplyOf,      \* the frame the host for an address answers with
    ArpIP, ArpMac,\* SenderIPv4 and SenderMacAddress of a received ARP frame
    RtcUp,        \* RTC::DidInitialise()
    MsPerTick,    \* GlobalMilliseconds / GlobalTickRate
    Timeout,      \* the 500 ms of SendQuery
    MaxQueries    \* model bound: SendQuery calls

ASSUME /\ Querier \in Senders /\ Payloads = Addrs /\ Hosts \subseteq Addrs
       /\ ReplyOf \in [Hosts -> RxFrames]
       /\ ArpIP \in [RxFrames -> Addrs] /\ ArpMac \in [RxFrames -> Range(MacOf)]
       /\ Zero \notin Range(MacOf)

\* The model bound on the clock: every query that waits can see its deadline.
MaxMs == 100 + MaxQueries * (Timeout + MsPerTick)

VARIABLES
    table,     \* ARPTable: IPv4 -> EUI-48; a missing key reads as Zero
    ms,        \* SystemTime->MillisecondsSinceEpoch
    apc,       \* where the querier is in SendQuery
    qaddr,     \* its addr
    timeout,   \* its volatile timeout
    result,    \* what its last SendQuery returned
    replied,   \* how many frames on the wire the hosts have seen
    queries    \* SendQuery calls so far

arpVars == <<table, ms, apc, qaddr, timeout, result, replied, queries>>
vars == <<nicVars, arpVars>>

TypeOK ==
    /\ NicTypeOK
    /\ table \in [Addrs -> Range(MacOf) \cup {Zero}]
    /\ ms \in 100..MaxMs
    /\ apc \in {"idle", "send", "sending", "test", "check"}
    /\ qaddr \in Addrs
    /\ result \in Range(MacOf) \cup {Zero}
    /\ replied \in 0..Len(wire)
    /\ queries \in 0..MaxQueries

Init ==
    /\ NicInit
    /\ table = [a \in Addrs |-> Zero]
    /\ ms = 100
    /\ apc = "idle"
    /\ qaddr \in Addrs
    /\ timeout = 0
    /\ result = Zero
    /\ replied = 0
    /\ queries = 0

\* Mutant: Now() with the RTC never initialised.
NowStuck == 100

\* Time::Now()
Now == IF RtcUp THEN ms ELSE 100

-----------------------------------------------------------------------------
(***************************************************************************)
(* SendQuery(interface, addr), by the querier.                             *)
(***************************************************************************)

\* ARPTable[addr].isZero(): a cached answer is returned at once.
QueryLookup(a) ==
    /\ apc = "idle" /\ queries < MaxQueries
    /\ queries' = queries + 1
    /\ qaddr' = a
    /\ IF table[a] # Zero
       THEN result' = table[a] /\ UNCHANGED apc
       ELSE apc' = "send" /\ UNCHANGED result
    /\ UNCHANGED <<table, ms, timeout, replied>> /\ UNCHANGED nicVars

\* ARP::SendPacket: a request for addr through Ethernet to SendData.
QuerySend ==
    /\ apc = "send"
    /\ SendRead(Querier, qaddr)
    /\ apc' = "sending"
    /\ UNCHANGED <<table, ms, qaddr, timeout, result, replied, queries>>
    /\ UNCHANGED <<wire, intr>> /\ UNCHANGED rxVars

\* The rest of SendData, run by the querier.
QuerySendData ==
    /\ apc = "sending"
    /\ \/ SendInc(Querier) \/ SendMod(Querier) \/ SendLock(Querier)
       \/ SendCopy(Querier) \/ SendStatus(Querier)
    /\ UNCHANGED <<wire, intr>> /\ UNCHANGED rxVars /\ UNCHANGED arpVars

\* SendData has returned: timeout = Now() + 500.
QueryArm ==
    /\ apc = "sending" /\ txpc[Querier] = "idle"
    /\ timeout' = Now + Timeout
    /\ apc' = "test"
    /\ UNCHANGED <<table, ms, qaddr, result, replied, queries>>
    /\ UNCHANGED nicVars

\* while(timeout > Now()): past the deadline it returns EUI48Address().
QueryTest ==
    /\ apc = "test"
    /\ IF timeout > Now
       THEN apc' = "check" /\ UNCHANGED result
       ELSE apc' = "idle" /\ result' = Zero
    /\ UNCHANGED <<table, ms, qaddr, timeout, replied, queries>>
    /\ UNCHANGED nicVars

\* if(!(ret = ARPTable[addr]).isZero()) return ret;
QueryCheck ==
    /\ apc = "check"
    /\ IF table[qaddr] # Zero
       THEN apc' = "idle" /\ result' = table[qaddr]
       ELSE apc' = "test" /\ UNCHANGED result
    /\ UNCHANGED <<table, ms, qaddr, timeout, replied, queries>>
    /\ UNCHANGED nicVars

-----------------------------------------------------------------------------
(***************************************************************************)
(* The RTC interrupt (UpdateTime) and the hosts on the wire.               *)
(***************************************************************************)

(***************************************************************************)
(* MillisecondsSinceEpoch += GlobalMilliseconds / GlobalTickRate.  Only   *)
(* Now() - timeout matters to the model, so the ticks while no query      *)
(* waits, and those after its deadline has passed, are left out.          *)
(***************************************************************************)
Tick ==
    /\ apc \in {"test", "check"} /\ ms < timeout
    /\ ms + MsPerTick <= MaxMs
    /\ ms' = ms + MsPerTick
    /\ UNCHANGED <<table, apc, qaddr, timeout, result, replied, queries>>
    /\ UNCHANGED nicVars

\* The next request on the wire reaches the hosts: the one that owns the
\* address answers and the card receives the answer, or it is lost.
HostAnswer ==
    LET a == wire[replied + 1] IN
    /\ replied < Len(wire)
    /\ replied' = replied + 1
    /\ IF a \in Hosts THEN CardReceive(ReplyOf[a]) ELSE UNCHANGED nicVars
    /\ UNCHANGED <<table, ms, apc, qaddr, timeout, result, queries>>

AnswerLost ==
    /\ replied < Len(wire)
    /\ replied' = replied + 1
    /\ UNCHANGED <<table, ms, apc, qaddr, timeout, result, queries>>
    /\ UNCHANGED nicVars

-----------------------------------------------------------------------------
(***************************************************************************)
(* ARP::HandlePacket: ARPTable[arp->SenderIPv4] = SenderMacAddress,       *)
(* for every ARP frame the receive walk hands to Ethernet::HandlePacket.  *)
(***************************************************************************)
\* Mutant: the sender's IPv4 address stored as its MAC address.
ArpStoreSwapped(t, f) ==
    IF f \in RxFrames THEN [t EXCEPT ![ArpIP[f]] = ArpIP[f]] ELSE t

ArpStore(t, f) == IF f \in RxFrames THEN [t EXCEPT ![ArpIP[f]] = ArpMac[f]] ELSE t

\* The job thread: RTL8139 HandlePacket, then ARP for each frame it handed on.
ReceiveJob ==
    /\ HandlePacket
    /\ table' = FoldLeft(ArpStore, table,
                         SubSeq(delivered', Len(delivered) + 1, Len(delivered')))
    /\ UNCHANGED <<ms, apc, qaddr, timeout, result, replied, queries>>

Next ==
    \/ \E a \in Addrs : QueryLookup(a)
    \/ QuerySend \/ QueryArm \/ QueryTest \/ QueryCheck
    \/ QuerySendData
    \/ \E i \in TxSlots : CardTransmit(i) /\ UNCHANGED arpVars
    \/ HandleInterrupt /\ UNCHANGED arpVars
    \/ ReceiveJob
    \/ Tick
    \/ HostAnswer \/ AnswerLost

Spec == Init /\ [][Next]_vars

(***************************************************************************)
(* Fairness: the querier and the job thread are scheduled (the scheduler  *)
(* serves every queued thread), the RTC interrupt keeps firing, and the   *)
(* card transmits what it owns and raises its interrupts.  Nothing is     *)
(* assumed of the hosts: an answer may be lost.                            *)
(***************************************************************************)
FairSpec ==
    /\ Spec
    /\ WF_vars(QuerySend \/ QuerySendData \/ QueryArm \/ QueryTest \/ QueryCheck)
    /\ WF_vars(Tick)
    /\ WF_vars(\E i \in TxSlots : CardTransmit(i) /\ UNCHANGED arpVars)
    /\ WF_vars(HandleInterrupt /\ UNCHANGED arpVars)
    /\ WF_vars(ReceiveJob)

-----------------------------------------------------------------------------
(***************************************************************************)
(* Properties.                                                             *)
(***************************************************************************)

(***************************************************************************)
(* Every SendQuery returns: the 500 ms spin ends, whether the answer      *)
(* arrives, arrives late or is lost, because the RTC interrupt moves       *)
(* Now() past the deadline.                                                *)
(***************************************************************************)
QueryReturns == apc # "idle" ~> apc = "idle"

(***************************************************************************)
(* An answer the card received reaches the ARP table: the RxOk interrupt  *)
(* queues a job, and the job's walk from SeenOfs to the write offset hands *)
(* it to ARP::HandlePacket, also when it arrived after its query gave up. *)
(***************************************************************************)
Received(f) == \E k \in DOMAIN written : written[k] = f

ReplyReachesTable ==
    \A f \in RxFrames : Received(f) ~> table[ArpIP[f]] = ArpMac[f]

=============================================================================
