---------------------------- MODULE MC_Signal -----------------------------
(* Signals 0..2 with SIGKILL = 1 and SIGSTOP = 2; one installable handler; *)
(* a four-word user stack holds a case B frame and a nested case A push.  *)
(* MC_Signal.cfg: two threads of one process; the _cross configurations   *)
(* add a thread of a second process.                                     *)
EXTENDS Signal, TLC

CONSTANTS a, b, c, P1, P2, hA

ParentOf == (a :> P1) @@ (b :> P1) @@ (c :> P2)
TIDOf == (a :> 2) @@ (b :> 3) @@ (c :> 4)
FirstOf == (P1 :> a) @@ (P2 :> c)

MCThreads == {a, b}
MCProcs == {P1}
MCParent == [t \in MCThreads |-> ParentOf[t]]
MCTID == [t \in MCThreads |-> TIDOf[t]]
MCFirst == [p \in MCProcs |-> FirstOf[p]]

MCCrossThreads == {a, c}
MCCrossProcs == {P1, P2}
MCCrossParent == [t \in MCCrossThreads |-> ParentOf[t]]
MCCrossTID == [t \in MCCrossThreads |-> TIDOf[t]]
MCCrossFirst == [p \in MCCrossProcs |-> FirstOf[p]]

MCDefault == (0 :> DefaultAction) @@ (1 :> DefaultAction) @@ (2 :> SIG_IGN)
=============================================================================
