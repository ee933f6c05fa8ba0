------------------------------- MODULE Signal -------------------------------
(***************************************************************************)
(* The Signal Delivery Engine of src/source/Kernel/IPC/IPC.cpp: the       *)
(* handler tables, Syscall_InstallSigHandler, IPC_SignalThread and        *)
(* IPC_SignalProcess, and what the redirected threads do when they next   *)
(* return to user mode.                                                    *)
(*                                                                         *)
(* One CPU: a syscall is made by the thread that runs, and every other    *)
(* thread is suspended with its user frame saved (case A patches it).     *)
(* A frame is the three slots the engine touches: the return RIP, RDI     *)
(* (the first argument) and the user RSP.  User memory is mem[p][a] for   *)
(* the address space of process p; the address <<t, i>> is word i of the  *)
(* user stack of thread t, and means the same virtual address in every    *)
(* address space.  The stack grows down from StackSize + 1.               *)
(***************************************************************************)
EXTENDS Naturals, FiniteSets

CONSTANTS
    Threads, Procs,
    Parent,        \* Thread::Parent
    TID,           \* Thread::ThreadID
    FirstThread,   \* Process::Threads->get(0)
    SigCount,      \* __SIGCOUNT
    SIGKILL, SIGSTOP,
    SIG_DFL, SIG_IGN,   \* (sighandler_t) 0 and (sighandler_t) 1
    UserHandlers,  \* handler entry points a process may install
    DefaultHandler,\* GetHandler(sig), not under src/: a disposition per signal
    DefaultAction, \* the kernel's default action entry
    Body,          \* a location in a thread's own code
    HandlerRet,    \* the ret at the end of a handler
    SigTramp,      \* _sighandler: pop %rdi; ret
    Arg,           \* the value of RDI in a thread's own code
    Garbage,       \* memory nobody wrote: a jump there is a crash
    StackSize      \* model bound: words of each user stack

Sigs == 0..(SigCount - 1)
Top == StackSize + 1
Addr == Threads \X (1..StackSize)
Entries == (UserHandlers \cup {DefaultHandler[s] : s \in Sigs}) \ {SIG_IGN}
Words == Entries \cup Sigs \cup {Body, HandlerRet, SigTramp, Arg, Garbage}

ASSUME /\ Parent \in [Threads -> Procs] /\ TID \in [Threads -> Nat]
       /\ FirstThread \in [Procs -> Threads]
       /\ \A p \in Procs : Parent[FirstThread[p]] = p
       /\ {SIGKILL, SIGSTOP} \subseteq Sigs
       /\ DefaultHandler \in [Sigs -> UserHandlers \cup {SIG_IGN, DefaultAction}]
       /\ StackSize \in Nat \ {0}

VARIABLES
    handlers,   \* Process::SignalHandlers
    frame,      \* the saved (or, for the caller, live) user frame of each thread
    mem,        \* user memory of each address space
    delivered   \* ghost: the <<handler, signal>> redirections made so far

vars == <<handlers, frame, mem, delivered>>

Frames == [rip : Words, rdi : Words, usp : 1..Top]

\* Type invariant.  A frame's RIP is a word the engine can put there: a
\* delivery never redirects a thread to the null handler SIG_DFL, which
\* IPC_SignalThread replaces by GetHandler(sig).
TypeOK ==
    /\ handlers \in [Procs -> [Sigs -> UserHandlers \cup {SIG_DFL, SIG_IGN}]]
    /\ frame \in [Threads -> Frames]
    /\ mem \in [Procs -> [Addr -> Words]]
    /\ delivered \in [Threads -> SUBSET (Entries \X Sigs)]

Init ==
    /\ handlers = [p \in Procs |-> [s \in Sigs |-> SIG_DFL]]
    /\ frame = [t \in Threads |-> [rip |-> Body, rdi |-> Arg, usp |-> Top]]
    /\ mem = [p \in Procs |-> [a \in Addr |-> Garbage]]
    /\ delivered = [t \in Threads |-> {}]

\* A thread is executing its own code or a handler body: it can make a syscall.
InUserCode(t) == frame[t].rip \in {Body, HandlerRet}

-----------------------------------------------------------------------------
(***************************************************************************)
(* Syscall_InstallSigHandler(signum, handler), by the running thread.     *)
(***************************************************************************)

\* Mutant: only SIGKILL is protected.
OverridableKillOnly(s, h) == ~(s = SIGKILL /\ h # SIG_DFL)

\* The SIGKILL / SIGSTOP test; an invalid number returns SIG_ERR first.
Overridable(s, h) == ~(s \in {SIGKILL, SIGSTOP} /\ h # SIG_DFL)

InstallSigHandler(caller, s, h) ==
    /\ InUserCode(caller)
    /\ Overridable(s, h)
    /\ handlers' = [handlers EXCEPT ![Parent[caller]][s] = h]
    /\ UNCHANGED <<frame, mem, delivered>>

-----------------------------------------------------------------------------
(***************************************************************************)
(* IPC_SignalThread(tid, signum), called by the running thread caller.    *)
(* An out-of-range number, tid < 2 and an ignored signal return without a *)
(* change: those calls are stuttering steps and appear as guards.         *)
(***************************************************************************)

\* Mutant: the table entry is used as it is, 0 included.
EffectiveNoFallback(p, s) == handlers[p][s]

\* The handler after the fallback: a table entry of 0 means GetHandler(sig).
Effective(p, s) ==
    IF handlers[p][s] = SIG_DFL THEN DefaultHandler[s] ELSE handlers[p][s]

Delivered(t, s) ==
    /\ TID[t] >= 2
    /\ handlers[Parent[t]][s] # SIG_IGN
    /\ DefaultHandler[s] # SIG_IGN

\* Case A (thread != current): patch the saved frame, then push the old RIP
\* through the saved user RSP.  The store dereferences that RSP in the
\* caller's address space: the ustack mapping made for a target of another
\* process is never used.
RedirectSaved(caller, t, h, s) ==
    LET f   == frame[t]
        usp == f.usp - 1
    IN  /\ frame' = [frame EXCEPT ![t] = [rip |-> h, rdi |-> s, usp |-> usp]]
        /\ mem' = [mem EXCEPT ![Parent[caller]][<<t, usp>>] = f.rip]

\* Mutant: the saved RDI is not pushed before the _sighandler return.
RedirectLiveNoRdi(t, h, s) ==
    LET f == frame[t]
    IN  /\ frame' = [frame EXCEPT ![t] = [rip |-> h, rdi |-> s, usp |-> f.usp - 2]]
        /\ mem' = [mem EXCEPT ![Parent[t]][<<t, f.usp - 1>>] = f.rip,
                              ![Parent[t]][<<t, f.usp - 2>>] = SigTramp]

\* Case B (thread == current): the live syscall frame found below the -1
\* sentinel gets old RIP, old RDI and _sighandler pushed on the user stack.
RedirectLive(t, h, s) ==
    LET f == frame[t]
    IN  /\ frame' = [frame EXCEPT ![t] = [rip |-> h, rdi |-> s, usp |-> f.usp - 3]]
        /\ mem' = [mem EXCEPT ![Parent[t]][<<t, f.usp - 1>>] = f.rip,
                              ![Parent[t]][<<t, f.usp - 2>>] = f.rdi,
                              ![Parent[t]][<<t, f.usp - 3>>] = SigTramp]

\* The words a delivery pushes.  The code never checks the user stack; the
\* model explores a delivery only while its pushes fit the StackSize words
\* (a model bound, not a test of the code).
Pushes(caller, t) == IF t = caller THEN 3 ELSE 1

SignalThread(caller, t, s) ==
    LET h == Effective(Parent[t], s)
    IN  /\ InUserCode(caller)
        /\ Delivered(t, s)
        /\ frame[t].usp > Pushes(caller, t)
        /\ IF t # caller THEN RedirectSaved(caller, t, h, s)
                         ELSE RedirectLive(t, h, s)
        /\ delivered' = [delivered EXCEPT ![t] = @ \cup {<<h, s>>}]
        /\ UNCHANGED handlers

\* IPC_SignalProcess(pid, signum): the process's first thread.
SignalProcess(caller, p, s) == SignalThread(caller, FirstThread[p], s)

-----------------------------------------------------------------------------
(***************************************************************************)
(* The target back in user mode.  These are the redirected code paths:    *)
(* the handler (its body leaves RDI alone), its ret, and _sighandler      *)
(* (not under src/: the restore step of spec section 4.4).                *)
(***************************************************************************)

\* The word at the top of t's stack, in t's own address space.
Top1(t, k) ==
    IF frame[t].usp + k <= StackSize
    THEN mem[Parent[t]][<<t, frame[t].usp + k>>] ELSE Garbage

HandlerEntry(t) ==
    /\ frame[t].rip \in Entries
    /\ frame' = [frame EXCEPT ![t].rip = HandlerRet]
    /\ UNCHANGED <<handlers, mem, delivered>>

HandlerReturn(t) ==
    /\ frame[t].rip = HandlerRet
    /\ frame' = [frame EXCEPT ![t].rip = Top1(t, 0),
                               ![t].usp = IF @ < Top THEN @ + 1 ELSE Top]
    /\ UNCHANGED <<handlers, mem, delivered>>

Sighandler(t) ==
    /\ frame[t].rip = SigTramp
    /\ frame' = [frame EXCEPT ![t] = [rip |-> Top1(t, 1), rdi |-> Top1(t, 0),
                                      usp |-> IF @.usp + 2 <= Top THEN @.usp + 2 ELSE Top]]
    /\ UNCHANGED <<handlers, mem, delivered>>

Next ==
    \/ \E c \in Threads :
          \/ \E s \in Sigs, h \in UserHandlers \cup {SIG_DFL, SIG_IGN} :
                InstallSigHandler(c, s, h)
          \/ \E t \in Threads, s \in Sigs : SignalThread(c, t, s)
          \/ \E p \in Procs, s \in Sigs : SignalProcess(c, p, s)
    \/ \E t \in Threads : HandlerEntry(t) \/ HandlerReturn(t) \/ Sighandler(t)

Spec == Init /\ [][Next]_vars

-----------------------------------------------------------------------------
(***************************************************************************)
(* Properties.                                                             *)
(***************************************************************************)

(***************************************************************************)
(* Transparent return: whatever deliveries, handler runs and trampoline   *)
(* returns interleave, a thread never jumps to a word nobody wrote, and   *)
(* whenever it is back in its own code its user stack is balanced.  This  *)
(* is the round trip of case A (old RIP pushed through the saved RSP) and *)
(* of case B (old RIP, RDI and _sighandler pushed on the live stack).     *)
(***************************************************************************)
ReturnsToInterruptedCode ==
    \A t \in Threads :
        /\ frame[t].rip # Garbage
        /\ frame[t].rip = Body => frame[t].usp = Top

=============================================================================
