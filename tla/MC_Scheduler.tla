--------------------------- MODULE MC_Scheduler ----------------------------
(* Two kernel threads of the high class, so that its queue rotates, and  *)
(* a normal and a low user thread of two processes; thresholds 4 and 2   *)
(* keep the divisibility of 1024 and 128.  Thread::Sleep is narrowed to  *)
(* 2 bits and the headroom arithmetic to 16 bits, enough for the 0x10 /  *)
(* 0x100 watermarks.                                                      *)
EXTENDS Scheduler

CONSTANTS k1, k2, u1, u2, Kernel, ProcA, ProcB

MCThreads == {k1, k2, u1, u2}
MCPrio == (k1 :> "high") @@ (k2 :> "high") @@ (u1 :> "norm") @@ (u2 :> "low")
MCProcs == {Kernel, ProcA, ProcB}
MCUserProcs == {ProcA, ProcB}
MCSleepArgs == {-1, 1}
MCHeadrooms == {4096}
MCCriticalHeadrooms == {-8, 8, 4096}
MCParent == (k1 :> Kernel) @@ (k2 :> Kernel) @@ (u1 :> ProcA) @@ (u2 :> ProcB)
=============================================================================
