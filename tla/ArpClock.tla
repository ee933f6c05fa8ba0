------------------------------ MODULE ArpClock ------------------------------
(***************************************************************************)
(* ARP over the RTL8139 driver, and the wall clock, driven by one RTC     *)
(* interrupt.  Time::UpdateTime (src/source/Kernel/Utility/Time.cpp)      *)
(* advances MillisecondsSinceEpoch, which Time::Now() returns and         *)
(* SendQuery spins on, and every GlobalTickRate-th call rolls SystemTime  *)
(* and SecondsSinceEpoch on by a second.  Arp's Tick and Clock's          *)
(* UpdateTime are the two halves of that one handler: here they are one   *)
(* step.  Clock's ms counts from the RTC read, Arp's from Now() = 100.     *)
(***************************************************************************)
EXTENDS Arp

CONSTANTS EpochYear, TickRate, StartTimes, UTCOffsets, OOBRows

VARIABLES st, sse, counter, offset

clockVars == <<st, sse, counter, offset>>
allVars == <<vars, clockVars>>

\* The RTC ticks Arp can take: Clock's own bound never cuts them short.
C == INSTANCE Clock WITH ms <- ms - 100, MaxTicks <- (MaxMs - 100) \div MsPerTick

InitAC == Init /\ C!Init

\* Every step of Arp but the RTC interrupt leaves the clock alone.
ArpStep == Next /\ ms' = ms /\ UNCHANGED clockVars

\* RTCTimerHandler -> UpdateTime: Now() and the calendar move together.
UpdateTime == Tick /\ C!UpdateTime

NextAC == ArpStep \/ UpdateTime

(***************************************************************************)
(* Fairness as in Arp!FairSpec, with the RTC interrupt now the whole of    *)
(* UpdateTime; Arp's steps keep Arp's variables as their subscript.       *)
(***************************************************************************)
FairSpecAC ==
    /\ InitAC /\ [][NextAC]_allVars
    /\ WF_vars(QuerySend \/ QuerySendData \/ QueryArm \/ QueryTest \/ QueryCheck)
    /\ WF_allVars(UpdateTime)
    /\ WF_vars(\E i \in TxSlots : CardTransmit(i) /\ UNCHANGED arpVars)
    /\ WF_vars(HandleInterrupt /\ UNCHANGED arpVars)
    /\ WF_vars(ReceiveJob)

-----------------------------------------------------------------------------
(***************************************************************************)
(* The clock's type invariant: each field in its range after every        *)
(* IncrementAndRollover (Second, Minute and Hour roll over at 59/23).      *)
(***************************************************************************)
ClockTypeOK == C!TypeOK

(***************************************************************************)
(* The calendar fields stay the local time of SecondsSinceEpoch while ARP *)
(* queries run on the same interrupt (Clock!ClockTracksEpoch).            *)
(***************************************************************************)
ClockTracksEpoch == C!ClockTracksEpoch

=============================================================================
