------------------------------ MODULE Scheduler ------------------------------
(***************************************************************************)
(* The Context Switch Engine and Sleep Manager of                          *)
(* src/source/Kernel/HardwareAbstraction/Multitasking/Scheduler.cpp on one *)
(* logical processor.                                                      *)
(*                                                                         *)
(* Saved register blocks are abstracted to the identity of the context    *)
(* they hold: sp[t] (Thread::StackPointer) names the context t's saved    *)
(* stack pointer points at, and running names the context live on the     *)
(* CPU, the one the trampoline resumed from the value SwitchProcess       *)
(* returned.  Once resumed, a snapshot is popped and its memory reused:   *)
(* sp[t] is then Consumed until t is switched out again.  Thread steps    *)
(* (Sleep, YieldCPU, the scheduler toggle) are taken by the running       *)
(* context and act on CurrentThread, as the code does.                     *)
(***************************************************************************)
EXTENDS RunQueueSet, Integers, FiniteSets, SequencesExt

CONSTANTS
    Procs,          \* processes; a process is identified with its CR3 value
    Parent,         \* Thread::Parent
    KernelProc,     \* the kernel process: GetKernelCR3()
    UserProcs,      \* processes with (Flags & 0x1): return to user mode
    NoProc,         \* the value 0 written to 0x2600 (no CR3 reload)
    Boot,           \* the boot context interrupted by the first switch
    Consumed,       \* a saved StackPointer whose snapshot was resumed
    SleepArgs,      \* arguments of Sleep(int64_t time)
    SleepBits,      \* width of Thread::Sleep (uint32_t)
    WordBits,       \* width of the uint64_t headroom computation
    Headrooms,      \* context - StackBottom at a switch, as signed values
    MaxSleepEntries \* model bound: entries of PendingSleepList and SleepList

ASSUME /\ Parent \in [Threads -> Procs]
       /\ KernelProc \in Procs /\ UserProcs \subseteq Procs
       /\ NoProc \notin Procs
       /\ {Boot, Consumed} \cap Threads = {}
       /\ SleepArgs \subseteq Int /\ Headrooms \subseteq Int
       /\ SleepBits \in Nat \ {0} /\ WordBits \in Nat \ {0}
       /\ MaxSleepEntries \in Nat

Contexts == Threads \cup {Boot}

VARIABLES
    runq,          \* ThreadList_LowPrio / _NormPrio / _HighPrio
    count,         \* ScheduleCount (mod LowStarveThreshold, see RunQueueSet)
    current,       \* CurrentThread
    isFirst,       \* IsFirst
    pendingSleep,  \* PendingSleepList
    sleepList,     \* SleepList
    sleep,         \* Thread::Sleep
    sp,            \* Thread::StackPointer, as the context it points at
    running,       \* the context live on the CPU
    cr3,           \* CurrentCR3
    hwCR3,         \* the CR3 register (SwitchPML4T)
    handoff,       \* 0x2600 CR3 request, 0x2608 user flag, 0x2504 TSS stack, TLS_ADDR
    enabled,       \* SchedulerEnabled
    pc,            \* where each thread is inside Sleep / a critical section
    stackCheck,    \* the last stack headroom test of SwitchProcess
    halted         \* HALT / UHALT reached

vars == <<runq, count, current, isFirst, pendingSleep, sleepList, sleep, sp,
          running, cr3, hwCR3, handoff, enabled, pc, stackCheck, halted>>

InRunQueue(t) == Contains(runq[Prio[t]], t)
Asleep(t) == Contains(sleepList, t)

PCs == {"body", "insert", "insert_yield", "yield", "critical"}

TypeOK ==
    /\ runq \in [Classes -> Seq(Threads)]
    /\ \A k \in Classes : \A i \in 1..Len(runq[k]) : Prio[runq[k][i]] = k
    /\ count \in 0..(LowStarveThreshold - 1)
    /\ current \in Threads \cup {NoThread}
    /\ isFirst \in BOOLEAN
    /\ pendingSleep \in Seq(Threads) /\ sleepList \in Seq(Threads)
    /\ sleep \in [Threads -> 0..(2^SleepBits - 1)]
    /\ sp \in [Threads -> Contexts \cup {Consumed}]
    /\ running \in Contexts \cup {Consumed}
    /\ cr3 \in Procs /\ hwCR3 \in Procs
    /\ handoff \in [cr3Req : Procs \cup {NoProc}, userMode : BOOLEAN,
                    stackTop : Threads \cup {NoThread}, tls : Threads \cup {NoThread}]
    /\ enabled \in BOOLEAN
    /\ pc \in [Threads -> PCs]
    /\ stackCheck \in [headroom : Int, verdict : {"unchecked", "none", "warn", "halt"}]
    /\ halted \in BOOLEAN

\* Initialise(), and every thread put in its queue by AddToQueue.
Init ==
    /\ runq = [k \in Classes |-> SetToSeq(ClassThreads(k))]
    /\ count = 0
    /\ current = NoThread
    /\ isFirst = TRUE
    /\ pendingSleep = <<>> /\ sleepList = <<>>
    /\ sleep = [t \in Threads |-> 0]
    /\ sp = [t \in Threads |-> t]
    /\ running = Boot
    /\ cr3 = KernelProc /\ hwCR3 = KernelProc
    /\ handoff = [cr3Req |-> NoProc, userMode |-> FALSE,
                  stackTop |-> NoThread, tls |-> NoThread]
    /\ enabled = TRUE
    /\ pc = [t \in Threads |-> "body"]
    /\ stackCheck = [headroom |-> 0, verdict |-> "unchecked"]
    /\ halted = FALSE

-----------------------------------------------------------------------------
(***************************************************************************)
(* SwitchProcess(context), the timer and int 0xF7 handler.                *)
(***************************************************************************)

\* Mutant: the pending sleepers are moved but not stamped with the context.
SavedContextsNoStamp(ctx) ==
    IF isFirst THEN sp
    ELSE IF pendingSleep # <<>> THEN sp
    ELSE [sp EXCEPT ![current] = ctx]

\* Step 1: every pending sleeper is stamped with the interrupted context;
\* otherwise CurrentThread is.  Nothing is saved on the first switch.
SavedContexts(ctx) ==
    IF isFirst THEN sp
    ELSE IF pendingSleep # <<>>
         THEN [t \in Threads |-> IF Contains(pendingSleep, t) THEN ctx ELSE sp[t]]
         ELSE [sp EXCEPT ![current] = ctx]

\* Step 2: context - StackBottom is a uint64_t; the 0x100 test comes first.
StackVerdict(h) ==
    LET gap == h % (2^WordBits)
    IN  IF gap <= 256 THEN "warn"
        ELSE IF gap <= 16 THEN "halt"
        ELSE "none"

\* Mutant: CurrentCR3 is not updated after a reload.
AddressSpaceNoCache(proc) ==
    IF proc # cr3 THEN [cache |-> cr3, hw |-> proc, req |-> proc]
    ELSE [cache |-> cr3, hw |-> hwCR3, req |-> NoProc]

\* Step 6: reload CR3 only when the target's differs from CurrentCR3.
AddressSpace(proc) ==
    IF proc # cr3 THEN [cache |-> proc, hw |-> proc, req |-> proc]
    ELSE [cache |-> cr3, hw |-> hwCR3, req |-> NoProc]

(***************************************************************************)
(* The whole of SwitchProcess with the interrupted context running and    *)
(* the headroom h of its stack.  On the first call CurrentThread is null  *)
(* and the stack test reads through it; that read is not modelled.        *)
(***************************************************************************)
SwitchProcess(h) ==
    LET sp1     == SavedContexts(running)
        verdict == StackVerdict(h)
        n       == GetNextThread(runq, count, current)
        next    == n.thread
        as      == AddressSpace(Parent[next])
    IN  /\ ~halted
        /\ isFirst' = FALSE
        /\ pendingSleep' = IF isFirst THEN pendingSleep ELSE <<>>
        /\ sleepList' = IF isFirst THEN sleepList ELSE sleepList \o pendingSleep
        /\ stackCheck' = IF isFirst THEN stackCheck
                         ELSE [headroom |-> h, verdict |-> verdict]
        /\ IF (~isFirst /\ verdict = "halt") \/ next = NoThread
           THEN /\ halted' = TRUE
                /\ sp' = sp1
                /\ UNCHANGED <<runq, count, current, running, cr3, hwCR3, handoff>>
           ELSE /\ halted' = FALSE
                /\ runq' = n.runq
                /\ count' = n.count
                /\ current' = next
                /\ cr3' = as.cache
                /\ hwCR3' = as.hw
                /\ handoff' = [cr3Req   |-> as.req,
                               userMode |-> handoff.userMode \/ Parent[next] \in UserProcs,
                               stackTop |-> next,
                               tls      |-> next]
                /\ running' = sp1[next]
                /\ sp' = [sp1 EXCEPT ![next] = Consumed]
        /\ UNCHANGED <<sleep, enabled>>

\* The timer interrupt, taken while the scheduler is enabled.
Timer(h) ==
    /\ enabled
    /\ SwitchProcess(h)
    /\ UNCHANGED pc

\* YieldCPU(): int $0xF7, whether or not the scheduler is enabled.
Yield(h) ==
    /\ running \in Threads
    /\ pc[running] \in {"body", "yield"}
    /\ pc' = [pc EXCEPT ![running] = "body"]
    /\ SwitchProcess(h)

-----------------------------------------------------------------------------
(***************************************************************************)
(* Sleep(time), called by CurrentThread.  It is two steps because nothing *)
(* masks the timer between FetchAndRemoveThread and InsertBack.           *)
(***************************************************************************)

\* (uint32_t) __abs(time)
SleepField(time) == (IF time < 0 THEN -time ELSE time) % (2^SleepBits)

\* FetchAndRemoveThread(CurrentThread) (not under src/) and p->Sleep = ...
\* The lists are unbounded in the code (a thread may call Sleep again
\* before it was committed); the model stops at MaxSleepEntries.
SleepFetch(time) ==
    /\ ~halted
    /\ Len(pendingSleep) + Len(sleepList) < MaxSleepEntries
    /\ running \in Threads /\ current \in Threads
    /\ pc[running] = "body"
    /\ runq' = [runq EXCEPT ![Prio[current]] = RemoveFirst(@, current)]
    /\ sleep' = [sleep EXCEPT ![current] = SleepField(time)]
    /\ pc' = [pc EXCEPT ![running] = IF time > 0 THEN "insert_yield" ELSE "insert"]
    /\ UNCHANGED <<count, current, isFirst, pendingSleep, sleepList, sp, running,
                   cr3, hwCR3, handoff, enabled, stackCheck, halted>>

\* PendingSleepList->InsertBack(p); p is the thread that called Sleep.
SleepInsert ==
    /\ ~halted
    /\ running \in Threads
    /\ pc[running] \in {"insert", "insert_yield"}
    /\ pendingSleep' = Append(pendingSleep, running)
    /\ pc' = [pc EXCEPT ![running] = IF @ = "insert_yield" THEN "yield" ELSE "body"]
    /\ UNCHANGED <<runq, count, current, isFirst, sleepList, sleep, sp, running,
                   cr3, hwCR3, handoff, enabled, stackCheck, halted>>

\* DisableScheduler() ... EnableScheduler() bracket a short critical
\* section at their call site (Time.cpp, PrintTime).
DisableScheduler ==
    /\ ~halted
    /\ running \in Threads /\ pc[running] = "body"
    /\ enabled' = FALSE
    /\ pc' = [pc EXCEPT ![running] = "critical"]
    /\ UNCHANGED <<runq, count, current, isFirst, pendingSleep, sleepList, sleep,
                   sp, running, cr3, hwCR3, handoff, stackCheck, halted>>

EnableScheduler ==
    /\ ~halted
    /\ running \in Threads /\ pc[running] = "critical"
    /\ enabled' = TRUE
    /\ pc' = [pc EXCEPT ![running] = "body"]
    /\ UNCHANGED <<runq, count, current, isFirst, pendingSleep, sleepList, sleep,
                   sp, running, cr3, hwCR3, handoff, stackCheck, halted>>

(***************************************************************************)
(* The periodic wake step (not under src/, section 4.2 of the spec): every *)
(* sleeper's remaining time is decremented and the entries that reach      *)
(* zero leave SleepList, in order, for the back of their class queue.      *)
(***************************************************************************)
Tick ==
    LET left  == [t \in Threads |-> IF Asleep(t) /\ sleep[t] > 0
                                    THEN sleep[t] - 1 ELSE sleep[t]]
        woken == SelectSeq(sleepList, LAMBDA t : left[t] = 0)
    IN  /\ ~halted
        /\ sleepList # <<>>
        /\ sleep' = left
        /\ sleepList' = SelectSeq(sleepList, LAMBDA t : left[t] # 0)
        /\ runq' = [k \in Classes |->
                      runq[k] \o SelectSeq(woken, LAMBDA t : Prio[t] = k)]
        /\ UNCHANGED <<count, current, isFirst, pendingSleep, sp, running,
                       cr3, hwCR3, handoff, enabled, pc, stackCheck, halted>>

Next ==
    \/ \E h \in Headrooms : Timer(h) \/ Yield(h)
    \/ \E time \in SleepArgs : SleepFetch(time)
    \/ SleepInsert
    \/ DisableScheduler
    \/ EnableScheduler
    \/ Tick

Spec == Init /\ [][Next]_vars

(***************************************************************************)
(* Fairness.  The timer keeps interrupting, and hits an enabled scheduler *)
(* whenever it is enabled infinitely often (critical sections are short): *)
(* strong fairness.  A thread that is mid-Sleep or in a critical section  *)
(* continues when it runs; the periodic wake step keeps running.          *)
(***************************************************************************)
FairSpec ==
    /\ Spec
    /\ SF_vars(\E h \in Headrooms : Timer(h))
    /\ WF_vars(SleepInsert)
    /\ WF_vars(\E h \in Headrooms : Yield(h) /\ pc[running] = "yield")
    /\ WF_vars(EnableScheduler)
    /\ WF_vars(Tick)

-----------------------------------------------------------------------------
(***************************************************************************)
(* Properties.                                                             *)
(***************************************************************************)

(***************************************************************************)
(* The CPU resumes the thread the scheduler made current: the context     *)
(* live on the CPU is CurrentThread's own.  It relies on SwitchProcess    *)
(* stamping the right threads with the interrupted context, pending       *)
(* sleepers included, and on GetNextThread returning a thread whose       *)
(* saved StackPointer is fresh.                                            *)
(***************************************************************************)
ResumesCurrentContext ==
    ~isFirst => running = current

(***************************************************************************)
(* The CR3 register holds the address space of CurrentThread's process,   *)
(* although SwitchProcess reloads it only when the cached CurrentCR3      *)
(* differs from the target's.                                              *)
(***************************************************************************)
AddressSpaceMatches ==
    ~isFirst => hwCR3 = Parent[current]

(***************************************************************************)
(* Every thread in a run queue eventually runs: GetNextThread serves the  *)
(* low and normal classes every LowStarveThreshold / NormStarveThreshold  *)
(* selections and otherwise the high class, and rotates the queue it      *)
(* served, so threads of one class take turns (with the timer firing).    *)
(***************************************************************************)
QueuedThreadRuns ==
    \A t \in Threads : InRunQueue(t) ~> current = t

(***************************************************************************)
(* No thread is lost: each is current, queued, pending or asleep.  A      *)
(* thread in no list and not current is never selected again.             *)
(***************************************************************************)
ThreadAccountedFor ==
    \A t \in Threads :
        t = current \/ InRunQueue(t) \/ Contains(pendingSleep, t) \/ Asleep(t)

(***************************************************************************)
(* Spec section 3: the current thread is never at the same time in the    *)
(* sleep list (once scheduling has started).                               *)
(***************************************************************************)
CurrentNotAsleep ==
    ~isFirst => ~Asleep(current)

=============================================================================
