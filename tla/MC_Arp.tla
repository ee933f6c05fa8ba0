------------------------------- MODULE MC_Arp -------------------------------
(***************************************************************************)
(* One querier asking twice for two local addresses, one of which has a  *)
(* host that answers; the answer frame takes one 512-byte unit of the     *)
(* receive ring.  One RTC tick is half the 500 ms timeout, so two ticks   *)
(* reach the deadline.  The RTC read gives a time one second before a     *)
(* rollover, so the first UpdateTime (Counter = 0) rolls the calendar:    *)
(* the end of February in a leap year (2000, 2004) and a common year      *)
(* (2001), the end of a leap and of a common year, an hour change; in     *)
(* UTC, west and east of it.  Four ticks make one second                  *)
(* (GlobalTickRate = 4, 250 ms each).                                      *)
(***************************************************************************)
EXTENDS ArpClock, TLC

CONSTANTS q, a1, a2, m1, r1

MCSenders == {q}
MCAddrs == {a1, a2}
MCMacOf == a1 :> m1
MCReplyOf == a1 :> r1
MCArpIP == r1 :> a1
MCArpMac == r1 :> m1
MCRxLen == r1 :> 1

MCStartTimes ==
    { 5097599,     \* 2000-02-28 23:59:59
      31622399,    \* 2000-12-31 23:59:59
      36719999,    \* 2001-02-28 23:59:59
      126230399,   \* 2003-12-31 23:59:59
      131414399,   \* 2004-02-29 23:59:59
      5223599 }    \* 2000-03-01 10:59:59

MCUTCOffsets == {-5, 0, 3}

\* GetTime is not called by the running clock: one row is enough.
MCOOBRows == {<<0, 0>>}
=============================================================================
