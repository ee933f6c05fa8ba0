------------------------------- MODULE MC_Dns -------------------------------
(***************************************************************************)
(* The DNS resolver with two hosts: "a.b", whose question carries a label *)
(* length in place of the dot, and "a1", whose digit HandleDNSPacket      *)
(* decodes as a dot.  One address each, ttls of 0 and 1 s, a 500 ms tick  *)
(* and the code's 4000 ms timeout.                                         *)
(***************************************************************************)
EXTENDS Dns

\* 'a' = 97, 'b' = 98, '.' = 46, '1' = 49
MCHosts == {<<97, 46, 98>>, <<97, 49>>}
MCIpOf == [h \in MCHosts |-> IF Len(h) = 2 THEN 1 ELSE 2]
====
