-------------------------------- MODULE Dns --------------------------------
(***************************************************************************)
(* The DNS resolver of                                                     *)
(* src/source/Kernel/HardwareAbstraction/Network/DNS.cpp.                 *)
(*                                                                         *)
(* A querier thread calls QueryDNSv4(host): it looks the host up in       *)
(* dnsmapv4, returns the mappings it judges usable, and otherwise sends a *)
(* query to the DNS server and spins on Time::Now() for up to 4000 ms     *)
(* until dnsmapv4[host] fills, then calls itself again.  The server        *)
(* answers each query, with an error or an A or CNAME record, or the       *)
(* answer is lost.  MonitorThread reads the socket's whole buffer and     *)
(* hands it to HandleDNSPacket, which stores each A record under the name *)
(* it decodes from the packet, with expiry Now() / 1000 + ttl.             *)
(*                                                                         *)
(* Names are sequences of character codes.  The state after Initialise()   *)
(* (server known, port bound, monitor thread queued) is the initial state. *)
(***************************************************************************)
EXTENDS Naturals, Sequences, SequencesExt

CONSTANTS
    Hosts,        \* the host names queried
    IPs,          \* the addresses the server can answer with (none is 0)
    IpOf,         \* the address of each host
    TTLs,         \* the ttl values of the server's answers, in seconds
    MsPerTick,    \* milliseconds per RTC interrupt
    Timeout,      \* the 4000 of QueryDNSv4
    StartMs,      \* Time::Now() when the querier starts
    MaxMs,        \* model bound: the clock
    MaxQueries    \* model bound: QueryDNSv4 calls from outside

ASSUME IpOf \in [Hosts -> IPs] /\ 0 \notin IPs

VARIABLES
    cache,    \* dnsmapv4: name -> vector<DNSMappingv4>
    flag,     \* the static flag of QueryDNSv4
    ms,       \* Time::Now()
    qpc,      \* where the querier is: "idle", "call" (entering QueryDNSv4), "wait"
    qhost,    \* its host
    future,   \* its volatile future
    result,   \* the mappings its last call returned (the code keeps the ips)
    queries,  \* QueryDNSv4 calls from outside so far
    sent,     \* the questions SendDNSPacket put on the wire
    served,   \* how many of them the server has seen
    sock      \* the DNS socket's buffer: the answers not yet read

vars == <<cache, flag, ms, qpc, qhost, future, result, queries, sent, served, sock>>

\* Character codes.
Dot == 46
IsAlpha(c) == (65 <= c /\ c <= 90) \/ (97 <= c /\ c <= 122)

\* The length of the label of h that starts at position i.
LabelLen(h, i) == Min({j \in i..(Len(h) + 1) : j = Len(h) + 1 \/ h[j] = Dot}) - i

(***************************************************************************)
(* SendDNSPacket's question: each '.' of the host replaced by the length  *)
(* of the label after it, the length of the first label in front, a 0     *)
(* after.                                                                   *)
(***************************************************************************)
Question(h) ==
    <<LabelLen(h, 1)>>
    \o [i \in DOMAIN h |-> IF h[i] = Dot THEN LabelLen(h, i + 1) ELSE h[i]]
    \o <<0>>

(***************************************************************************)
(* The name HandleDNSPacket reads through the answer's pointer: up to the *)
(* first 0, a byte below 'A' after the first becomes '.', a letter is      *)
(* kept, anything else is dropped.                                         *)
(***************************************************************************)
AnswerName(q) ==
    LET body == SubSeq(q, 1, Min({k \in DOMAIN q : q[k] = 0}) - 1)
    IN  FoldLeftDomain(LAMBDA acc, k :
                          IF body[k] < 65 /\ k > 1 THEN Append(acc, Dot)
                          ELSE IF IsAlpha(body[k]) THEN Append(acc, body[k])
                          ELSE acc,
                       <<>>, body)

Names == Hosts \cup {AnswerName(Question(h)) : h \in Hosts}

Mapping == [ip : IPs, expiry : Nat]

\* A server answer: the question echoed, responsecode, record type, ttl, address.
Answers == [q : {Question(h) : h \in Hosts}, rcode : {0, 2}, type : {"A", "CNAME"},
            ttl : TTLs, ip : IPs]

TypeOK ==
    /\ cache \in [Names -> Seq(Mapping)]
    /\ flag \in BOOLEAN
    /\ ms \in StartMs..MaxMs
    /\ qpc \in {"idle", "call", "wait"}
    /\ qhost \in Hosts
    /\ result \in Seq(Mapping)
    /\ queries \in 0..MaxQueries
    /\ sent \in Seq({Question(h) : h \in Hosts}) /\ served \in 0..Len(sent)
    /\ sock \in Seq(Answers)

Init ==
    /\ cache = [n \in Names |-> <<>>]
    /\ flag = FALSE
    /\ ms = StartMs
    /\ qpc = "idle"
    /\ qhost = CHOOSE h \in Hosts : TRUE
    /\ future = 0
    /\ result = <<>>
    /\ queries = 0
    /\ sent = <<>> /\ served = 0
    /\ sock = <<>>

-----------------------------------------------------------------------------
(***************************************************************************)
(* QueryDNSv4(host), by the querier.                                       *)
(***************************************************************************)

\* A caller enters QueryDNSv4.
Query(h) ==
    /\ qpc = "idle" /\ queries < MaxQueries
    /\ queries' = queries + 1
    /\ qhost' = h /\ qpc' = "call"
    /\ UNCHANGED <<cache, flag, ms, future, result, sent, served, sock>>

\* The test of line 263 on a mapping.
Returned(m) == m.expiry = 0 \/ ms \div 1000 > m.expiry

\* dnsmapv4[host].remove(map), for each returned map with expiry 0; remove
\* erases the first element == map, and == compares the ip only.
RemoveOneShots(v, maps) ==
    FoldLeft(LAMBDA acc, m :
                IF m.expiry = 0 THEN RemoveFirstMatch(acc, LAMBDA x : x.ip = m.ip) ELSE acc,
             v, maps)

(***************************************************************************)
(* One execution of the body of QueryDNSv4, on a copy of dnsmapv4[host]:  *)
(* return the mappings that pass the test; with none passing, recurse     *)
(* with flag set; with none at all, fail at once if flag is set, else     *)
(* send a query (SendDNSPacket) and arm future = Now() + 4000.             *)
(***************************************************************************)
Call ==
    LET maps == cache[qhost]
        ret  == SelectSeq(maps, Returned)
    IN
    /\ qpc = "call"
    /\ \/ /\ maps # <<>>
          /\ cache' = [cache EXCEPT ![qhost] = RemoveOneShots(@, ret)]
          /\ IF ret # <<>>
             THEN qpc' = "idle" /\ result' = ret /\ UNCHANGED flag
             ELSE flag' = TRUE /\ UNCHANGED <<qpc, result>>
          /\ UNCHANGED <<future, sent>>
       \/ /\ maps = <<>> /\ flag
          /\ flag' = FALSE /\ qpc' = "idle" /\ result' = <<>>
          /\ UNCHANGED <<cache, future, sent>>
       \/ /\ maps = <<>> /\ ~flag
          /\ sent' = Append(sent, Question(qhost))
          /\ future' = ms + Timeout
          /\ qpc' = "wait"
          /\ UNCHANGED <<cache, flag, result>>
    /\ UNCHANGED <<ms, qhost, queries, served, sock>>

(***************************************************************************)
(* while(dnsmapv4[host].size() == 0) { if(Now() > future) fail; }, then   *)
(* flag = true and the recursive call.                                     *)
(***************************************************************************)
Wait ==
    /\ qpc = "wait"
    /\ \/ cache[qhost] # <<>> /\ flag' = TRUE /\ qpc' = "call" /\ UNCHANGED result
       \/ cache[qhost] = <<>> /\ ms > future /\ qpc' = "idle" /\ result' = <<>>
          /\ UNCHANGED flag
    /\ UNCHANGED <<cache, ms, qhost, future, queries, sent, served, sock>>

-----------------------------------------------------------------------------
(***************************************************************************)
(* The server and the RTC.                                                 *)
(***************************************************************************)

\* The next question on the wire reaches the server, which answers it.
ServerAnswer ==
    /\ served < Len(sent)
    /\ served' = served + 1
    /\ \E a \in Answers :
          /\ a.q = sent[served + 1]
          /\ a.ip = IpOf[CHOOSE h \in Hosts : Question(h) = a.q]
          /\ sock' = Append(sock, a)
    /\ UNCHANGED <<cache, flag, ms, qpc, qhost, future, result, queries, sent>>

AnswerLost ==
    /\ served < Len(sent)
    /\ served' = served + 1
    /\ UNCHANGED <<cache, flag, ms, qpc, qhost, future, result, queries, sent, sock>>

\* The RTC interrupt: MillisecondsSinceEpoch += MsPerTick.
Tick ==
    /\ ms + MsPerTick <= MaxMs
    /\ ms' = ms + MsPerTick
    /\ UNCHANGED <<cache, flag, qpc, qhost, future, result, queries, sent, served, sock>>

-----------------------------------------------------------------------------
(***************************************************************************)
(* MonitorThread: read the whole buffer and hand it to HandleDNSPacket,   *)
(* which parses the first packet in it.  A packet with a responsecode is  *)
(* dropped; an A record is appended to dnsmapv4[name] with expiry         *)
(* (uint32_t)(Now() / 1000) + ttl (the ttls modelled are far below the    *)
(* wrap); other record types are ignored.                                   *)
(***************************************************************************)
HandleDNSPacket(c, a) ==
    IF a.rcode # 0 \/ a.type # "A" THEN c
    ELSE LET n == AnswerName(a.q) IN
         [c EXCEPT ![n] = Append(@, [ip |-> a.ip,
                                     expiry |-> ms \div 1000 + a.ttl])]

Monitor ==
    /\ sock # <<>>
    /\ cache' = HandleDNSPacket(cache, Head(sock))
    /\ sock' = <<>>
    /\ UNCHANGED <<flag, ms, qpc, qhost, future, result, queries, sent, served>>

Next ==
    \/ \E h \in Hosts : Query(h)
    \/ Call \/ Wait
    \/ ServerAnswer \/ AnswerLost
    \/ Monitor \/ Tick

Spec == Init /\ [][Next]_vars

-----------------------------------------------------------------------------

=============================================================================
