----------------------------- MODULE MC_RTL8139 -----------------------------
(***************************************************************************)
(* The receive ring alone, in units of 512 bytes: the card's ring of 8K    *)
(* is 16 units and RxBufferSize (12K) is 24.  Full-size frames (1500      *)
(* bytes and the 4-byte header) take 3 units.                              *)
(***************************************************************************)
EXTENDS RTL8139

CONSTANTS f1, f2

MCRxFrames == {f1, f2}
MCRxLen == [f \in MCRxFrames |-> 3]
=============================================================================
