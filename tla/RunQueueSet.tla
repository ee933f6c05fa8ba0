----------------------------- MODULE RunQueueSet -----------------------------
(***************************************************************************)
(* The Run Queue Set of the scheduler: three priority-class queues and    *)
(* the anti-starvation selection policy of GetNextThread                  *)
(* (src/source/Kernel/HardwareAbstraction/Multitasking/Scheduler.cpp),    *)
(* as pure operators shared by RunQueue and Scheduler.                     *)
(***************************************************************************)
EXTENDS Naturals, Sequences

CONSTANTS
    Threads,              \* the threads of the system
    Prio,                 \* Thread::Priority, a class per thread
    NoThread,             \* the null Thread* (CurrentThread before the first switch)
    LowStarveThreshold,   \* #define LowStarveThreshold 1024
    NormStarveThreshold   \* #define NormStarveThreshold 128

Classes == {"low", "norm", "high"}

ASSUME /\ Prio \in [Threads -> Classes]
       /\ NoThread \notin Threads
       \* as for 1024 and 128: the normal period divides the low one
       /\ NormStarveThreshold \in Nat \ {0, 1}
       /\ LowStarveThreshold > NormStarveThreshold
       /\ LowStarveThreshold % NormStarveThreshold = 0

ClassThreads(k) == {t \in Threads : Prio[t] = k}

(***************************************************************************)
(* ScheduleCount is a uint64_t that only GetNextThread reads, and only    *)
(* through its residues modulo the two thresholds.  2^64 is a multiple of *)
(* LowStarveThreshold, so keeping it modulo LowStarveThreshold is exact,  *)
(* wrap-around included.                                                   *)
(***************************************************************************)
CountIncrement(cnt) == (cnt + 1) % LowStarveThreshold

\* Mutant: the served thread is put back at the front of its queue.
RotateFront(q) == q

\* RemoveFront followed by InsertBack of the same thread.
Rotate(q) == Append(Tail(q), Head(q))

\* Mutant: the low-class starvation test placed after the normal one.
ServedClassNormFirst(rq, c) ==
    IF rq["norm"] # <<>> /\ c % NormStarveThreshold = 0 THEN "norm"
    ELSE IF rq["low"] # <<>> /\ c % LowStarveThreshold = 0 THEN "low"
    ELSE IF rq["high"] # <<>> THEN "high"
    ELSE "none"

\* The class GetNextThread serves at (incremented) count c, in the order
\* of its if / else if chain; "none" falls back to CurrentThread.
ServedClass(rq, c) ==
    IF rq["low"] # <<>> /\ c % LowStarveThreshold = 0 THEN "low"
    ELSE IF rq["norm"] # <<>> /\ c % NormStarveThreshold = 0 THEN "norm"
    ELSE IF rq["high"] # <<>> THEN "high"
    ELSE "none"

\* Mutant: the selected thread is put back with ThreadList_HighPrio's
\* InsertBack whatever queue it was taken from.
GetNextThreadInsertHigh(rq, cnt, cur) ==
    LET c == CountIncrement(cnt)
        k == ServedClass(rq, c)
    IN  IF k = "none"
        THEN [thread |-> cur, runq |-> rq, count |-> c]
        ELSE [thread |-> Head(rq[k]),
              runq   |-> [rq EXCEPT ![k] = Tail(@),
                                    !["high"] = Append(@, Head(rq[k]))],
              count  |-> c]

(***************************************************************************)
(* GetNextThread(), given the queues, ScheduleCount and CurrentThread:    *)
(* the thread returned and the new queues and count.  A result of         *)
(* NoThread is the HALT("wtfs") of the code; callers treat it as a halt.  *)
(***************************************************************************)
GetNextThread(rq, cnt, cur) ==
    LET c == CountIncrement(cnt)
        k == ServedClass(rq, c)
    IN  IF k = "none"
        THEN [thread |-> cur, runq |-> rq, count |-> c]
        ELSE [thread |-> Head(rq[k]),
              runq   |-> [rq EXCEPT ![k] = Rotate(@)],
              count  |-> c]

=============================================================================
