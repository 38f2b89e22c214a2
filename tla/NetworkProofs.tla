---------------------------- MODULE NetworkProofs ----------------------------
(***************************************************************************)
(* Proofs about the network.                                               *)
(*                                                                         *)
(* The network stack sends to the address learned last and gives a caller  *)
(* only answers to its own question, whatever arrives in whatever order.   *)
(*                                                                         *)
(* Loopback connections are pairs, and a socket is in one queue or has one *)
(* descriptor, for any number of processes, descriptors and sockets.       *)
(***************************************************************************)
EXTENDS NetStack, Sockets, FiniteSetTheorems, WellFoundedInduction, TLAPS

-------------------------------------------------------------------------------
(* The network stack *)

\* Every entry of the cache is what its host announced last, and a host has at
\* most one (insert replaces it).
CacheTruthful ==
    \A i \in 1 .. CacheSize : cache[i] # None =>
        /\ cache[i].mac = latest[cache[i].ip]
        /\ \A j \in 1 .. CacheSize : cache[j] # None /\ cache[j].ip = cache[i].ip => j = i

ArpInv ==
    /\ cache \in [1 .. CacheSize -> Entry \cup {None}]
    /\ slot \in 1 .. CacheSize
    /\ latest \in [Hosts -> Macs \cup {None}]
    /\ CacheTruthful

\* A query for name, or the answer to one.
About(m, name) == IF m.kind = "query" THEN m.name = name ELSE m.ip \in {Refused, name}

\* During resolve, whatever is on its way under the identifier of the call
\* belongs to it: identifiers of earlier ticks are smaller, and within one tick
\* only one copy is sent, which is gone once the call is through.
CallTruthful ==
    /\ query # None
    /\ query.id = call.since /\ call.since \in 1 .. tick
    /\ query.done /\ ~query.failed => query.ip = call.name
    /\ \A m \in wire : m.id <= call.since /\ (m.id = call.since => About(m, call.name))
    /\ call.since = tick =>
         /\ call.copies = 1
         /\ \A m, n \in wire : m.id = tick /\ n.id = tick => m = n /\ ~query.done

ResolveInv ==
    /\ query \in Pending \cup {None}
    /\ call \in Call \cup {None}
    /\ answer \in Answer \cup {None}
    /\ tick \in Nat \ {0}
    /\ wire \subseteq Message
    /\ query # None => query.id # BootId
    /\ IF Resolving THEN CallTruthful ELSE \A m \in wire : m.id < tick
    /\ AnswerIsMine

-------------------------------------------------------------------------------
(* The ARP cache *)

\* The entry insert and lookup find first is the only one of its address.
LEMMA OnlyEntry ==
    ASSUME ArpInv, NEW ip \in Hosts, Cached(ip)
    PROVE  LET k == CHOOSE k \in Holding(ip) : \A l \in Holding(ip) : k <= l
           IN  k \in Holding(ip) /\ \A l \in Holding(ip) : l = k
<1>1. Holding(ip) \subseteq 1 .. CacheSize
  BY ZenonT(30) DEF Holding, ArpInv
<1>2. \A k, l \in Holding(ip) : k = l
  BY DEF Holding, ArpInv, CacheTruthful
<1>3. \E k \in Holding(ip) : \A l \in Holding(ip) : k <= l
  BY <1>1, <1>2, NetAssumption DEF Cached
<1> QED
  BY ZenonT(30), <1>2, <1>3

\* handle_arp: the announced address replaces the entry of its host, or takes
\* the next slot when there is none.
LEMMA HandleArpKeeps ==
    ASSUME ArpInv, NEW ip \in Hosts, NEW mac \in Macs, HandleArp(ip, mac)
    PROVE  ArpInv'
<1> DEFINE e == [ip |-> ip, mac |-> mac]
<1>1. e \in Entry /\ e # None /\ e.ip = ip /\ e.mac = mac
  BY NetAssumption DEF Entry
<1>2. /\ latest' \in [Hosts -> Macs \cup {None}] /\ latest'[ip] = mac
      /\ \A h \in Hosts \ {ip} : latest'[h] = latest[h]
  BY ZenonT(30) DEF HandleArp, ArpInv
<1>3. \A i \in 1 .. CacheSize : cache[i] # None => cache[i].ip \in Hosts
  BY ZenonT(30) DEF ArpInv, Entry
<1>4. PICK k \in 1 .. CacheSize :
         /\ cache' = [cache EXCEPT ![k] = e]
         /\ \A l \in Holding(ip) : l = k
         /\ slot' \in 1 .. CacheSize
  <2>1. CASE Cached(ip)
    <3> DEFINE k == CHOOSE k \in Holding(ip) : \A l \in Holding(ip) : k <= l
    <3>1. k \in Holding(ip) /\ \A l \in Holding(ip) : l = k
      BY ZenonT(30), <2>1, OnlyEntry
    <3>2. cache' = [i \in DOMAIN cache |-> IF i = k THEN e ELSE cache[i]] /\ UNCHANGED slot
      BY ZenonT(30), <2>1 DEF HandleArp, ArpInsert
    <3> HIDE DEF k, e
    <3>3. k \in 1 .. CacheSize
      BY ZenonT(30), <3>1 DEF Holding, ArpInv
    <3>4. cache' = [cache EXCEPT ![k] = e]
      BY ZenonT(30), <3>2, <3>3 DEF ArpInv
    <3> QED
      BY ZenonT(30), <3>1, <3>2, <3>3, <3>4 DEF ArpInv
  <2>2. CASE ~Cached(ip)
    <3>1. cache' = [cache EXCEPT ![slot] = e] /\ slot' = (slot % CacheSize) + 1
      BY ZenonT(30), <2>2 DEF HandleArp, ArpInsert
    <3>2. slot' \in 1 .. CacheSize
      BY <3>1, NetAssumption DEF ArpInv
    <3> QED
      BY ZenonT(30), <2>2, <3>1, <3>2 DEF ArpInv, Cached
  <2> QED
    BY ZenonT(30), <2>1, <2>2
<1> HIDE DEF e
<1>5. cache'[k] = e /\ \A i \in (1 .. CacheSize) \ {k} : cache'[i] = cache[i]
  BY ZenonT(30), <1>4 DEF ArpInv
<1>6. \A i \in (1 .. CacheSize) \ {k} : cache[i] # None => cache[i].ip # ip
  BY ZenonT(30), <1>4 DEF Holding, ArpInv
<1>7. CacheTruthful'
  <2> SUFFICES ASSUME NEW i \in 1 .. CacheSize, cache'[i] # None
               PROVE  /\ cache'[i].mac = latest'[cache'[i].ip]
                      /\ \A j \in 1 .. CacheSize : cache'[j] # None /\ cache'[j].ip = cache'[i].ip => j = i
    BY ZenonT(30) DEF CacheTruthful
  <2>1. CASE i = k
    BY <1>1, <1>2, <1>5, <1>6, <2>1
  <2>2. CASE i # k
    BY <1>1, <1>2, <1>3, <1>5, <1>6, <2>2 DEF ArpInv, CacheTruthful
  <2> QED
    BY ZenonT(30), <2>1, <2>2
<1>8. cache' \in [1 .. CacheSize -> Entry \cup {None}]
  BY ZenonT(30), <1>1, <1>4 DEF ArpInv
<1> QED
  BY ZenonT(30), <1>2, <1>4, <1>7, <1>8 DEF ArpInv

\* A frame goes to the address its host announced last.
LEMMA LookupTruthful == ArpInv => ArpLatest
<1> SUFFICES ASSUME ArpInv, NEW h \in Hosts
             PROVE  ArpLookup(h) \in {None, latest[h]}
  BY ZenonT(30) DEF ArpLatest
<1>1. CASE ~Cached(h)
  BY ZenonT(30), <1>1 DEF ArpLookup
<1>2. CASE Cached(h)
  <2> DEFINE k == CHOOSE k \in Holding(h) : \A l \in Holding(h) : k <= l
  <2>1. k \in Holding(h)
    BY ZenonT(30), <1>2, OnlyEntry
  <2>2. ArpLookup(h) = cache[k].mac
    BY ZenonT(30), <1>2 DEF ArpLookup
  <2> HIDE DEF k
  <2> QED
    BY ZenonT(30), <2>1, <2>2 DEF Holding, ArpInv, CacheTruthful
<1> QED
  BY ZenonT(30), <1>1, <1>2

-------------------------------------------------------------------------------
(* The resolver *)

\* What the steps below use of the types.
LEMMA TalkTypes ==
    ASSUME ResolveInv
    PROVE  /\ tick \in Nat /\ tick >= 1
           /\ \A m \in wire : m.id \in Nat /\ m.kind \in {"query", "reply"}
           /\ Resolving => /\ call \in [op : {"resolve"}, name : Names, since : Nat, copies : {1, 2}]
                           /\ query \in Pending /\ CallTruthful
           /\ ~Resolving => \A m \in wire : m.id < tick
<1>1. tick \in Nat /\ tick >= 1
  BY DEF ResolveInv
<1>2. \A m \in wire : m.id \in Nat /\ m.kind \in {"query", "reply"}
  BY ZenonT(30) DEF ResolveInv, Message
<1>3. Resolving => CallTruthful
  BY ZenonT(30) DEF ResolveInv
<1>4. ~Resolving => \A m \in wire : m.id < tick
  BY ZenonT(30) DEF ResolveInv
<1>5. Resolving => call \in [op : {"resolve"}, name : Names, since : Nat, copies : {1, 2}]
  BY ZenonT(30) DEF ResolveInv, Resolving, Call
<1>6. Resolving => query \in Pending
  BY ZenonT(30), <1>3 DEF ResolveInv, CallTruthful
<1> QED
  BY ZenonT(30), <1>1, <1>2, <1>3, <1>4, <1>5, <1>6

\* A step of the network that changes only what is on its way.  Each message is
\* an old one, or the boot sequence's, or takes the place of one with the same
\* identifier and about the same name.
LEMMA WireStep ==
    ASSUME ResolveInv, UNCHANGED <<query, call, answer, tick>>, wire' \subseteq Message,
           NEW from,
           \A m \in wire' :
              \/ m.id = BootId
              \/ /\ from[m] \in wire /\ from[m].id = m.id
                 /\ \A name : About(from[m], name) => About(m, name),
           \A m, n \in wire' : from[m] = from[n] => m = n
    PROVE  ResolveInv'
<1>1. /\ tick \in Nat /\ tick >= 1
      /\ Resolving => CallTruthful /\ call.since \in Nat
      /\ ~Resolving => \A m \in wire : m.id < tick
  BY ZenonT(30), TalkTypes
<1>2. Resolving' = Resolving
  BY ZenonT(30) DEF Resolving
<1>3. CASE Resolving
  <2>1. CallTruthful'
    <3>1. \A m \in wire' : m.id <= call.since /\ (m.id = call.since => About(m, call.name))
      BY SMTT(60), <1>1, <1>3 DEF CallTruthful, BootId
    <3>2. \A m, n \in wire' : call.since = tick /\ m.id = tick /\ n.id = tick => m = n /\ ~query.done
      BY <1>1, <1>3 DEF CallTruthful, BootId
    <3> QED
      BY ZenonT(30), <1>1, <1>3, <3>1, <3>2 DEF CallTruthful
  <2> QED
    BY ZenonT(30), <1>2, <1>3, <2>1 DEF ResolveInv, AnswerIsMine
<1>4. CASE ~Resolving
  <2>1. \A m \in wire' : m.id < tick
    BY SMTT(60), <1>1, <1>4 DEF BootId
  <2> QED
    BY ZenonT(30), <1>2, <1>4, <2>1 DEF ResolveInv, AnswerIsMine
<1> QED
  BY ZenonT(30), <1>3, <1>4

\* A message is lost.
LEMMA LostStep ==
    ASSUME ResolveInv, NEW m \in wire, Lost(m)
    PROVE  ResolveInv'
<1> DEFINE from == [n \in wire' |-> n]
<1>1. wire' \subseteq wire /\ UNCHANGED <<query, call, answer, tick>>
  BY ZenonT(30) DEF Lost
<1>2. \A n \in wire' : from[n] \in wire /\ from[n] = n
  BY ZenonT(30), <1>1
<1>3. wire' \subseteq Message
  BY ZenonT(30), <1>1 DEF ResolveInv
<1> HIDE DEF from
<1> QED
  BY <1>1, <1>2, <1>3, WireStep

\* handle_arp may send the query of the boot sequence, which has an identifier
\* of its own.
LEMMA ArpStep ==
    ASSUME ResolveInv, NEW ip \in Hosts, NEW mac \in Macs, HandleArp(ip, mac)
    PROVE  ResolveInv'
<1> DEFINE from == [n \in wire' |-> n]
           b == Query(BootId, BootName, 1)
<1>1. wire' \subseteq wire \cup {b} /\ UNCHANGED <<query, call, answer, tick>>
  BY ZenonT(30) DEF HandleArp
<1>2. b \in Message /\ b.id = BootId
  BY ZenonT(30) DEF Query, Message, BootId
<1>3. wire' \subseteq Message
  BY ZenonT(30), <1>1, <1>2 DEF ResolveInv
<1>4. \A n \in wire' : n.id = BootId \/ from[n] \in wire
  BY ZenonT(30), <1>1, <1>2
<1>5. \A n \in wire' : from[n] = n
  OBVIOUS
<1> HIDE DEF from
<1> QED
  BY <1>1, <1>3, <1>4, <1>5, WireStep

\* The server answers one query under its identifier.
LEMMA ServerStep ==
    ASSUME ResolveInv, NEW m \in wire, NEW refuses \in BOOLEAN, ServerAnswers(m, refuses)
    PROVE  ResolveInv'
<1> DEFINE r == Reply(m, IF refuses THEN Refused ELSE m.name)
           from == [n \in wire' |-> IF n \in wire THEN n ELSE m]
<1>1. /\ m.kind = "query" /\ wire' = (wire \ {m}) \cup {r}
      /\ UNCHANGED <<query, call, answer, tick>>
  BY ZenonT(30) DEF ServerAnswers
<1>2. /\ m \in [kind : {"query"}, id : Nat, name : Names \cup {BootName}, copy : {1, 2}]
  BY ZenonT(30), <1>1 DEF ResolveInv, Message
<1>3. r \in Message /\ r.id = m.id /\ \A name : About(m, name) => About(r, name)
  BY ZenonT(30), <1>1, <1>2 DEF Reply, Message, About
<1>4. wire' \subseteq Message
  BY ZenonT(30), <1>1, <1>3 DEF ResolveInv
<1> HIDE DEF r
<1>5. \A n \in wire' : IF n \in wire THEN from[n] = n ELSE n = r /\ from[n] = m
  BY ZenonT(30), <1>1
<1>6. \A n \in wire' : from[n] \in wire /\ from[n].id = n.id /\ \A name : About(from[n], name) => About(n, name)
  BY ZenonT(30), <1>3, <1>5
<1>7. \A n, o \in wire' : from[n] = from[o] => n = o
  <2>1. m.kind = "query" /\ r.kind = "reply"
    BY ZenonT(30), <1>1 DEF r, Reply
  <2>2. r # m /\ m \notin wire'
    BY ZenonT(30), <1>1, <2>1
  <2> QED
    BY ZenonT(30), <1>5, <2>2
<1> HIDE DEF from
<1> QED
  BY ZenonT(30), <1>1, <1>4, <1>6, <1>7, WireStep

\* handle_udp: the reply is taken off the wire, and fills query_pending when it
\* has its identifier.
LEMMA UdpStep ==
    ASSUME ResolveInv, NEW m \in wire, NEW ok \in BOOLEAN, HandleUdp(m, ok)
    PROVE  ResolveInv'
<1>1. m.kind = "reply" /\ wire' = wire \ {m} /\ UNCHANGED <<call, answer, tick>>
  BY ZenonT(30) DEF HandleUdp
<1>2. CASE ~ForProgram(m)
  <2> DEFINE from == [n \in wire' |-> n]
  <2>1. UNCHANGED query
    BY ZenonT(30), <1>2 DEF HandleUdp
  <2>2. \A n \in wire' : from[n] \in wire /\ from[n] = n
    BY ZenonT(30), <1>1
  <2>3. wire' \subseteq Message
    BY ZenonT(30), <1>1 DEF ResolveInv
  <2> HIDE DEF from
  <2> QED
    BY <1>1, <2>1, <2>2, <2>3, WireStep
<1>3. CASE ForProgram(m)
  <2> DEFINE q == [query EXCEPT !.done = TRUE, !.failed = m.ip = Refused, !.ip = m.ip]
  <2>1. query # None /\ m.id = query.id /\ query' = q
    BY ZenonT(30), <1>3 DEF HandleUdp, ForProgram
  <2>2. m \in [kind : {"reply"}, id : Nat, ip : Names \cup {BootName, Refused}, copy : {1, 2}]
    BY ZenonT(30), <1>1 DEF ResolveInv, Message
  <2>3. query \in Pending /\ query.id # BootId
    BY ZenonT(30), <2>1 DEF ResolveInv
  <2>4. /\ q \in Pending /\ q # None /\ q.id = query.id /\ q.done
        /\ q.failed = (m.ip = Refused) /\ q.ip = m.ip
    BY ZenonT(30), <2>2, <2>3, NetAssumption DEF Pending
  <2> HIDE DEF q
  <2>5. /\ tick \in Nat
        /\ Resolving => CallTruthful /\ call.since \in Nat
        /\ ~Resolving => \A n \in wire : n.id < tick
    BY ZenonT(30), TalkTypes
  <2>6. Resolving' = Resolving
    BY ZenonT(30), <1>1 DEF Resolving
  <2>7. CASE Resolving
    <3>1. query.id = call.since /\ call.since \in 1 .. tick
      BY ZenonT(30), <2>5, <2>7 DEF CallTruthful
    <3>2. About(m, call.name)
      BY ZenonT(30), <2>1, <2>5, <2>7, <3>1 DEF CallTruthful
    <3>3. q.done /\ ~q.failed => q.ip = call.name
      BY ZenonT(30), <1>1, <2>4, <3>2 DEF About
    <3>4. call.since = tick => call.copies = 1 /\ \A n \in wire' : n.id # tick
      BY ZenonT(30), <1>1, <2>1, <2>5, <2>7, <3>1 DEF CallTruthful
    <3>5. \A n \in wire' : n.id <= call.since /\ (n.id = call.since => About(n, call.name))
      BY ZenonT(30), <1>1, <2>5, <2>7 DEF CallTruthful
    <3>6. CallTruthful'
      BY ZenonT(30), <1>1, <2>1, <2>4, <3>1, <3>3, <3>4, <3>5 DEF CallTruthful
    <3> QED
      BY ZenonT(30), <1>1, <2>1, <2>3, <2>4, <2>6, <2>7, <3>6 DEF ResolveInv, AnswerIsMine
  <2>8. CASE ~Resolving
    BY ZenonT(30), <1>1, <2>1, <2>3, <2>4, <2>5, <2>6, <2>8 DEF ResolveInv, AnswerIsMine
  <2> QED
    BY ZenonT(30), <2>7, <2>8
<1> QED
  BY ZenonT(30), <1>2, <1>3

\* resolve begins: nothing is on its way under the identifier of this tick.
LEMMA ResolveStep ==
    ASSUME ResolveInv, NEW name \in Names, Resolve(name)
    PROVE  ResolveInv'
<1> DEFINE q == [id |-> tick, done |-> FALSE, failed |-> FALSE, ip |-> None]
           c == [op |-> "resolve", name |-> name, since |-> tick, copies |-> 1]
           m == Query(tick, name, 1)
<1>1. /\ call = None /\ query' = q /\ call' = c /\ wire' = wire \cup {m}
      /\ UNCHANGED <<answer, tick>>
  BY ZenonT(30) DEF Resolve
<1>2. tick \in Nat /\ tick >= 1 /\ \A n \in wire : n.id \in Nat /\ n.id < tick
  BY ZenonT(30), <1>1, TalkTypes DEF Resolving
<1>3. q \in Pending /\ q # None /\ q.id = tick /\ ~q.done
  <2>1. q \in Pending /\ q.id = tick /\ q.done = FALSE
    BY ZenonT(30), <1>2 DEF Pending
  <2> HIDE DEF q
  <2> QED
    BY ZenonT(30), <2>1, NetAssumption
<1>4. c \in Call /\ c # None /\ c.op = "resolve" /\ c.since = tick /\ c.copies = 1 /\ c.name = name
  BY SMTT(60), <1>2, NetAssumption DEF Call
<1>5. m \in Message /\ m.id = tick /\ About(m, name)
  BY ZenonT(30), <1>2 DEF Query, Message, About
<1> HIDE DEF q, c, m
<1>6. Resolving'
  BY ZenonT(30), <1>1, <1>4 DEF Resolving
<1>7. \A n \in wire' : n.id <= tick /\ (n.id = tick => n = m)
  BY <1>1, <1>2, <1>5
<1>8. CallTruthful'
  BY SMTT(60), <1>1, <1>2, <1>3, <1>4, <1>5, <1>7 DEF CallTruthful
<1>9. wire' \subseteq Message
  BY ZenonT(30), <1>1, <1>5 DEF ResolveInv
<1> QED
  BY ZenonT(30), <1>1, <1>2, <1>3, <1>4, <1>6, <1>8, <1>9 DEF ResolveInv, AnswerIsMine, BootId

\* The second copy leaves in a later tick than the first.
LEMMA RepeatStep ==
    ASSUME ResolveInv, ResolveRepeats
    PROVE  ResolveInv'
<1> DEFINE c == [call EXCEPT !.copies = 2]
           m == Query(query.id, call.name, 2)
<1>1. /\ Resolving /\ call' = c /\ wire' = wire \cup {m} /\ tick - call.since > RetryAfter
      /\ UNCHANGED <<query, answer, tick>>
  BY ZenonT(30) DEF ResolveRepeats
<1>2. /\ tick \in Nat /\ CallTruthful /\ query \in Pending
      /\ call \in [op : {"resolve"}, name : Names, since : Nat, copies : {1, 2}]
  BY ZenonT(30), <1>1, TalkTypes
<1>3. call.since < tick
  BY <1>1, <1>2, NetAssumption
<1>4. /\ c \in Call /\ c # None /\ c.op = "resolve" /\ c.since = call.since /\ c.name = call.name
  BY <1>2, NetAssumption DEF Call
<1>5. m \in Message /\ m.id = call.since /\ About(m, call.name)
  <2>1. query.id = call.since /\ query.id \in Nat /\ call.name \in Names
    BY ZenonT(30), <1>2 DEF Pending, CallTruthful
  <2> QED
    BY ZenonT(30), <2>1 DEF Query, Message, About
<1> HIDE DEF c, m
<1>6. Resolving'
  BY ZenonT(30), <1>1, <1>4 DEF Resolving
<1>7. \A n \in wire' : n.id <= call.since /\ (n.id = call.since => About(n, call.name))
  BY <1>1, <1>2, <1>5 DEF CallTruthful
<1>8. CallTruthful'
  BY SMTT(60), <1>1, <1>2, <1>3, <1>4, <1>7 DEF CallTruthful
<1>9. wire' \subseteq Message
  BY ZenonT(30), <1>1, <1>5 DEF ResolveInv
<1> QED
  BY ZenonT(30), <1>1, <1>4, <1>6, <1>8, <1>9 DEF ResolveInv, AnswerIsMine

\* resolve returns what query_pending holds: the answer to its own query, which
\* is off the wire when the call ends in the tick in which it began.
LEMMA ReturnStep ==
    ASSUME ResolveInv, ResolveReturns
    PROVE  ResolveInv'
<1> DEFINE ip == IF query.done /\ ~query.failed THEN query.ip ELSE None
           a == [name |-> call.name, ip |-> ip]
<1>1. /\ Resolving /\ call' = None /\ answer' = a /\ query' \in {query, None}
      /\ query.done \/ tick - call.since > GiveUpAfter
      /\ UNCHANGED <<tick, wire>>
  BY ZenonT(30) DEF ResolveReturns
<1>2. /\ tick \in Nat /\ CallTruthful /\ query \in Pending
      /\ call \in [op : {"resolve"}, name : Names, since : Nat, copies : {1, 2}]
      /\ \A m \in wire : m.id \in Nat
  BY ZenonT(30), <1>1, TalkTypes
<1>3. ip \in {None, call.name} /\ ip \in Names \cup {BootName, Refused, None}
  BY ZenonT(30), <1>2 DEF CallTruthful, Pending
<1> HIDE DEF ip
<1>4. a \in Answer /\ a.ip \in {None, a.name}
  BY ZenonT(30), <1>2, <1>3 DEF Answer
<1> HIDE DEF a
<1>5. \A m \in wire : m.id < tick
  <2> SUFFICES ASSUME NEW m \in wire
               PROVE  m.id < tick
    OBVIOUS
  <2>1. m.id <= call.since /\ call.since <= tick /\ call.since \in Nat /\ m.id \in Nat
    BY <1>2 DEF CallTruthful
  <2>2. CASE call.since = tick
    <3>1. query.done
      BY <1>1, <1>2, <2>2, NetAssumption
    <3>2. m.id # tick
      BY ZenonT(30), <1>2, <2>2, <3>1 DEF CallTruthful
    <3> QED
      BY <1>2, <2>1, <2>2, <3>2
  <2>3. CASE call.since # tick
    BY <1>2, <2>1, <2>3
  <2> QED
    BY ZenonT(30), <2>2, <2>3
<1>6. ~Resolving'
  BY ZenonT(30), <1>1 DEF Resolving
<1> QED
  BY ZenonT(30), <1>1, <1>4, <1>5, <1>6 DEF ResolveInv, AnswerIsMine

\* ping_once begins or returns.
LEMMA PingStep ==
    ASSUME ResolveInv, ~Resolving, ~Resolving', call' \in Call \cup {None},
           UNCHANGED <<query, answer, tick, wire>>
    PROVE  ResolveInv'
<1>1. \A m \in wire : m.id < tick
  BY ZenonT(30), TalkTypes
<1> QED
  BY ZenonT(30), <1>1 DEF ResolveInv, AnswerIsMine

\* The next tick: identifiers from now on are larger.
LEMMA TickStep ==
    ASSUME ResolveInv, Tick
    PROVE  ResolveInv'
<1>1. tick' = tick + 1 /\ UNCHANGED <<query, call, answer, wire>>
  BY ZenonT(30) DEF Tick
<1>2. /\ tick \in Nat /\ tick >= 1 /\ \A m \in wire : m.id \in Nat
      /\ Resolving => CallTruthful /\ call.since \in Nat
      /\ ~Resolving => \A m \in wire : m.id < tick
  BY ZenonT(30), TalkTypes
<1>3. Resolving' = Resolving
  BY ZenonT(30), <1>1 DEF Resolving
<1>4. CASE Resolving
  <2>1. call.since # tick + 1 /\ call.since \in 1 .. tick + 1
    BY SMTT(60), <1>2, <1>4 DEF CallTruthful
  <2>2. CallTruthful'
    BY ZenonT(30), <1>1, <1>2, <1>4, <2>1 DEF CallTruthful
  <2> QED
    BY <1>1, <1>2, <1>3, <1>4, <2>2 DEF ResolveInv, AnswerIsMine
<1>5. CASE ~Resolving
  <2>1. \A m \in wire : m.id < tick + 1
    BY <1>2, <1>5
  <2> QED
    BY SMTT(60), <1>1, <1>2, <1>3, <1>5, <2>1 DEF ResolveInv, AnswerIsMine
<1> QED
  BY ZenonT(30), <1>4, <1>5

-------------------------------------------------------------------------------
(* Both together *)

NetInv ==
    /\ ArpInv /\ ResolveInv
    /\ stage \in Stages /\ http \in BOOLEAN /\ echoes \in Nat

\* Nothing is cached, nobody calls and nothing is on its way at first.
LEMMA NetInitial == NetInit => NetInv
<1> SUFFICES ASSUME NetInit
             PROVE  NetInv
  OBVIOUS
<1>1. ArpInv
  BY NetAssumption DEF NetInit, ArpInv, CacheTruthful
<1>2. ResolveInv
  BY DEF NetInit, ResolveInv, Resolving, AnswerIsMine
<1> QED
  BY ZenonT(30), <1>1, <1>2 DEF NetInit, NetInv, Stages

\* Every action of the stack keeps the invariant.
LEMMA NetStep ==
    ASSUME NetInv, [NetNext]_netVars
    PROVE  NetInv'
<1>1. ASSUME UNCHANGED arpVars
      PROVE  ArpInv'
  BY ZenonT(30), <1>1 DEF NetInv, ArpInv, CacheTruthful, arpVars
<1>2. ASSUME UNCHANGED <<query, call, answer, tick, wire>>
      PROVE  ResolveInv'
  BY ZenonT(30), <1>2 DEF NetInv, ResolveInv, Resolving, CallTruthful, AnswerIsMine
<1>3. ASSUME NEW ip \in Hosts, NEW mac \in Macs, HandleArp(ip, mac)
      PROVE  NetInv'
  <2>1. ArpInv' /\ ResolveInv'
    BY ZenonT(30), <1>3, HandleArpKeeps, ArpStep DEF NetInv
  <2>2. stage' \in Stages /\ UNCHANGED <<http, echoes>>
    BY ZenonT(30), <1>3 DEF HandleArp, NetInv, Stages
  <2> QED
    BY ZenonT(30), <2>1, <2>2 DEF NetInv
<1>4. ASSUME HandleEcho
      PROVE  NetInv'
  <2>1. UNCHANGED <<arpVars, http, query, call, answer, tick, wire>> /\ echoes' = echoes + 1 /\ stage' \in Stages
    BY ZenonT(30), <1>4 DEF HandleEcho, NetInv, Stages
  <2> QED
    BY <1>1, <1>2, <2>1 DEF NetInv
<1>5. ASSUME NEW ok \in BOOLEAN, OnTcpEstablished(ok) \/ OnTcpData \/ OnTcpClosed
      PROVE  NetInv'
  <2>1. /\ UNCHANGED <<arpVars, query, call, answer, echoes, tick, wire>>
        /\ stage' \in Stages /\ http' \in BOOLEAN
    BY ZenonT(30), <1>5 DEF OnTcpEstablished, OnTcpData, OnTcpClosed, NetInv, Stages
  <2> QED
    BY ZenonT(30), <1>1, <1>2, <2>1 DEF NetInv
<1>6. ASSUME UNCHANGED <<arpVars, bootVars, echoes>>, ResolveInv'
      PROVE  NetInv'
  BY ZenonT(30), <1>1, <1>6 DEF NetInv, bootVars
<1>7. ASSUME NEW name \in Names, Resolve(name)
      PROVE  NetInv'
  BY ZenonT(30), <1>6, <1>7, ResolveStep DEF NetInv, Resolve
<1>8. ASSUME ResolveRepeats
      PROVE  NetInv'
  BY ZenonT(30), <1>6, <1>8, RepeatStep DEF NetInv, ResolveRepeats
<1>9. ASSUME ResolveReturns
      PROVE  NetInv'
  BY ZenonT(30), <1>6, <1>9, ReturnStep DEF NetInv, ResolveReturns
<1>10. ASSUME NEW h \in Hosts, Ping(h)
       PROVE  NetInv'
  <2> DEFINE c == [op |-> "ping", before |-> echoes]
  <2>1. /\ call = None /\ call' = c
        /\ UNCHANGED <<arpVars, bootVars, echoes, query, answer, tick, wire>>
    BY ZenonT(30), <1>10 DEF Ping
  <2>2. c \in Call /\ c.op = "ping"
    BY ZenonT(30) DEF Call, NetInv
  <2>3. ~Resolving /\ ~Resolving'
    BY ZenonT(30), <2>1, <2>2 DEF Resolving
  <2> QED
    BY ZenonT(30), <1>6, <2>1, <2>2, <2>3, PingStep DEF NetInv
<1>11. ASSUME PingReturns
       PROVE  NetInv'
  <2>1. /\ call # None /\ call.op = "ping" /\ call' = None
        /\ UNCHANGED <<arpVars, bootVars, echoes, query, answer, tick, wire>>
    BY ZenonT(30), <1>11 DEF PingReturns
  <2>2. ~Resolving /\ ~Resolving'
    BY ZenonT(30), <2>1 DEF Resolving
  <2> QED
    BY ZenonT(30), <1>6, <2>1, <2>2, PingStep DEF NetInv
<1>12. ASSUME Tick
       PROVE  NetInv'
  BY ZenonT(30), <1>6, <1>12, TickStep DEF NetInv, Tick
<1>13. ASSUME NEW m \in wire, NEW b \in BOOLEAN, Lost(m) \/ ServerAnswers(m, b)
       PROVE  NetInv'
  BY ZenonT(30), <1>6, <1>13, LostStep, ServerStep DEF NetInv, Lost, ServerAnswers
<1>14. ASSUME NEW m \in wire, NEW b \in BOOLEAN, HandleUdp(m, b)
       PROVE  NetInv'
  <2>1. UNCHANGED <<arpVars, echoes>> /\ stage' \in Stages /\ http' \in BOOLEAN
    BY ZenonT(30), <1>14 DEF HandleUdp, NetInv, Stages, bootVars
  <2> QED
    BY ZenonT(30), <1>1, <1>14, <2>1, UdpStep DEF NetInv
<1>15. ASSUME UNCHANGED netVars
       PROVE  NetInv'
  BY ZenonT(30), <1>2, <1>6, <1>15 DEF netVars
<1> QED
  BY ZenonT(30), <1>3, <1>4, <1>5, <1>7, <1>8, <1>9, <1>10, <1>11, <1>12, <1>13, <1>14, <1>15 DEF NetNext

\* The invariant holds always.
LEMMA NetInvariant == NetSpec => []NetInv
BY NetInitial, NetStep, PTL DEF NetSpec

\* Every variable of the stack keeps its type.
THEOREM NetTypes == NetSpec => []NetTypeOK
<1>1. NetInv => NetTypeOK
  BY ZenonT(30) DEF NetInv, ArpInv, ResolveInv, NetTypeOK
<1> QED
  BY <1>1, NetInvariant, PTL

\* A frame goes to the hardware address its host announced last, or is not
\* sent: the round-robin replacement of ArpCache::insert never leaves an older
\* entry of a host behind (arp.rs insert, lookup).
THEOREM FramesGoToLatest == NetSpec => []ArpLatest
<1>1. NetInv => ArpLatest
  BY ZenonT(30), LookupTruthful DEF NetInv
<1> QED
  BY <1>1, NetInvariant, PTL

\* resolve returns the address of the name it was asked for or none, for any
\* timeouts, although identifiers are tick counts, query_pending outlives its
\* call and late replies arrive (stack.rs resolve, handle_udp).
THEOREM AnswersAreMine == NetSpec => []AnswerIsMine
<1>1. NetInv => AnswerIsMine
  BY ZenonT(30) DEF NetInv, ResolveInv
<1> QED
  BY <1>1, NetInvariant, PTL

-------------------------------------------------------------------------------
(* Loopback sockets *)

\* a slot of NetState::sockets
Sock == [port : Ports \cup {0, -1}, peer : Nat, listening : BOOLEAN, backlog : Nat,
         pending : Seq(Nat), buf : Seq(Nat \ {0}), noRead : BOOLEAN, noWrite : BOOLEAN,
         peerDone : BOOLEAN]

SockTypes == sockets \in Seq(Sock) /\ bound \in [Procs -> [Fds -> Nat]]

\* A socket that has a peer is its peer's peer.
PeersPaired ==
    \A s \in Sids : sockets[s].peer # 0 =>
        /\ sockets[s].peer \in Sids /\ sockets[s].peer # s
        /\ sockets[sockets[s].peer].peer = s

\* What waits at a socket was sent by its peer, and it is told of the end only
\* when the peer can send no more.
BytesPeers ==
    \A s \in Sids :
        /\ \A i \in DOMAIN sockets[s].buf : sockets[s].buf[i] = sockets[s].peer
        /\ sockets[s].peerDone => sockets[s].peer # 0 /\ sockets[sockets[s].peer].noWrite

\* No socket is twice in the queues.
QueuedOnce ==
    \A l \in Sids : \A i \in DOMAIN sockets[l].pending :
        /\ sockets[l].pending[i] \in Sids
        /\ \A m \in Sids : \A j \in DOMAIN sockets[m].pending :
              sockets[l].pending[i] = sockets[m].pending[j] => l = m /\ i = j

\* No socket has two descriptors.
HeldOnce ==
    \A p \in Procs, f \in Fds : bound[p][f] # 0 =>
        /\ bound[p][f] \in Sids
        /\ \A q \in Procs, g \in Fds : bound[p][f] = bound[q][g] => p = q /\ f = g

\* What is queued has no descriptor.
QueuedNotHeld ==
    \A l \in Sids : \A i \in DOMAIN sockets[l].pending :
        \A p \in Procs, f \in Fds : bound[p][f] # sockets[l].pending[i]

\* The inductive invariant of the loopback sockets.
SockInv == SockTypes /\ PeersPaired /\ BytesPeers /\ QueuedOnce /\ HeldOnce /\ QueuedNotHeld

\* A set of natural numbers that is not empty has a least element
\* (the first socket that listens, the first descriptor that is free).
LEMMA Least ==
    ASSUME NEW T, T \subseteq Nat, T # {}
    PROVE  \E x \in T : \A y \in T : x <= y
<1> DEFINE R == OpToRel(<, Nat)
<1>1. IsWellFoundedOn(R, Nat)
  BY ZenonT(30), NatLessThanWellFounded
<1>2. \A x, y \in Nat : <<y, x>> \in R <=> y < x
  BY ZenonT(30) DEF OpToRel
<1> HIDE DEF R
<1>3. PICK x \in T : \A y \in T : ~(<<y, x>> \in R)
  BY ZenonT(30), <1>1, WFMin
<1>4. x \in Nat /\ \A y \in T : y \in Nat
  OBVIOUS
<1>5. \A y \in T : ~(y < x)
  BY ZenonT(30), <1>2, <1>3, <1>4
<1>6. \A y \in T : x <= y
  BY <1>4, <1>5
<1> QED
  BY ZenonT(30), <1>6

\* What a search from the front finds is one of those it looks for.
LEMMA MinOf ==
    ASSUME NEW T, T \subseteq Nat, T # {}
    PROVE  Min(T) \in T
BY ZenonT(30), Least DEF Min

\* The backlog that listen stores is a number.
LEMMA MaxOf ==
    ASSUME NEW b \in Nat
    PROVE  Max({b, 1}) \in Nat
<1>1. \E x \in {b, 1} : \A y \in {b, 1} : x >= y
  OBVIOUS
<1> QED
  BY <1>1 DEF Max

\* A table filled slot by slot is a sequence.
LEMMA Table ==
    ASSUME NEW S, NEW k \in Nat, NEW F \in [1 .. k -> S]
    PROVE  F \in Seq(S) /\ Len(F) = k /\ DOMAIN F = 1 .. k
OBVIOUS

\* The socket table and its slots.
LEMMA Slots ==
    ASSUME SockInv
    PROVE  /\ sockets \in Seq(Sock) /\ Len(sockets) \in Nat /\ Sids = 1 .. Len(sockets)
           /\ \A t \in Sids : sockets[t] \in Sock /\ t \in Nat \ {0}
           /\ bound \in [Procs -> [Fds -> Nat]]
<1>1. sockets \in Seq(Sock) /\ bound \in [Procs -> [Fds -> Nat]]
  BY ZenonT(30) DEF SockInv, SockTypes
<1>2. Len(sockets) \in Nat /\ Sids = 1 .. Len(sockets)
  BY <1>1 DEF Sids
<1>3. \A t \in Sids : sockets[t] \in Sock /\ t \in Nat \ {0}
  BY <1>1, <1>2
<1> QED
  BY ZenonT(30), <1>1, <1>2, <1>3

\* A call that writes one slot.
LEMMA Replaced ==
    ASSUME SockInv, NEW c \in Sids, NEW new \in Sock, sockets' = [sockets EXCEPT ![c] = new]
    PROVE  /\ sockets' \in Seq(Sock) /\ Sids' = Sids
           /\ \A t \in Sids : sockets'[t] = IF t = c THEN new ELSE sockets[t]
<1>1. sockets \in Seq(Sock) /\ Len(sockets) \in Nat /\ Sids = 1 .. Len(sockets)
  BY ZenonT(30), Slots
<1>2. sockets' \in Seq(Sock)
  BY <1>1
<1>3. Sids' = Sids /\ \A t \in Sids : sockets'[t] = IF t = c THEN new ELSE sockets[t]
  BY ZenonT(30), <1>1 DEF Sids
<1> QED
  BY ZenonT(30), <1>2, <1>3

\* alloc_fd_for_socket changes at most one descriptor, which was free.
LEMMA WithFdDoes ==
    ASSUME SockTypes, NEW p \in Procs, NEW s \in Nat
    PROVE  \/ WithFd(p, s) = bound
           \/ \E f \in Fds : bound[p][f] = 0 /\ WithFd(p, s) = [bound EXCEPT ![p][f] = s]
<1>1. Free(p) # {} => Min(Free(p)) \in Free(p)
  <2>1. Free(p) \subseteq Nat
    BY ZenonT(30), SocketAssumption DEF Free
  <2> QED
    BY ZenonT(30), <2>1, MinOf
<1> QED
  BY ZenonT(30), <1>1 DEF WithFd, Free

\* A socket without a descriptor gets one: still nobody has two.
LEMMA HandedOut ==
    ASSUME SockTypes, HeldOnce, NEW p \in Procs, NEW s \in Nat \ {0},
           bound' = WithFd(p, s), Sids \subseteq Sids', s \in Sids',
           \A q \in Procs, g \in Fds : bound[q][g] # s
    PROVE  /\ bound' \in [Procs -> [Fds -> Nat]]
           /\ HeldOnce'
           /\ \A q \in Procs, g \in Fds : bound'[q][g] \in {bound[q][g], s}
<1>1. CASE bound' = bound
  BY <1>1 DEF SockTypes, HeldOnce
<1>2. ASSUME NEW f \in Fds, bound[p][f] = 0, bound' = [bound EXCEPT ![p][f] = s]
      PROVE  /\ bound' \in [Procs -> [Fds -> Nat]]
             /\ HeldOnce'
             /\ \A q \in Procs, g \in Fds : bound'[q][g] \in {bound[q][g], s}
  <2>1. bound' \in [Procs -> [Fds -> Nat]]
    BY <1>2 DEF SockTypes
  <2>2. \A q \in Procs, g \in Fds : bound'[q][g] = IF q = p /\ g = f THEN s ELSE bound[q][g]
    BY <1>2 DEF SockTypes
  <2>3. HeldOnce'
    <3> SUFFICES ASSUME NEW q \in Procs, NEW g \in Fds, bound'[q][g] # 0
                 PROVE  /\ bound'[q][g] \in Sids'
                        /\ \A r \in Procs, h \in Fds : bound'[q][g] = bound'[r][h] => q = r /\ g = h
      BY ZenonT(30) DEF HeldOnce
    <3>1. CASE q = p /\ g = f
      <4>1. bound'[q][g] = s
        BY ZenonT(30), <3>1, <2>2
      <4> QED
        BY SMTT(60), <3>1, <4>1, <2>2
    <3>2. CASE ~(q = p /\ g = f)
      <4>1. bound'[q][g] = bound[q][g] /\ bound[q][g] # s
        BY ZenonT(30), <3>2, <2>2
      <4>2. /\ bound[q][g] \in Sids
            /\ \A r \in Procs, h \in Fds : bound[q][g] = bound[r][h] => q = r /\ g = h
        BY <4>1 DEF HeldOnce
      <4>3. ASSUME NEW r \in Procs, NEW h \in Fds, bound'[q][g] = bound'[r][h]
            PROVE  bound[q][g] = bound[r][h]
        BY ZenonT(30), <4>1, <4>3, <2>2
      <4> QED
        BY ZenonT(30), <4>1, <4>2, <4>3
    <3> QED
      BY ZenonT(30), <3>1, <3>2
  <2> QED
    BY <2>1, <2>2, <2>3
<1> QED
  BY ZenonT(30), <1>1, <1>2, WithFdDoes

\* A step that leaves queues and descriptors alone, or only adds sockets with
\* an empty queue, keeps every socket in its place.
LEMMA PlacesKept ==
    ASSUME QueuedOnce, HeldOnce, QueuedNotHeld, bound' = bound, Sids \subseteq Sids',
           \A l \in Sids' : \/ l \in Sids /\ sockets'[l].pending = sockets[l].pending
                            \/ sockets'[l].pending = <<>>
    PROVE  QueuedOnce' /\ HeldOnce' /\ QueuedNotHeld'
<1>1. \A l \in Sids' : \A i \in DOMAIN sockets'[l].pending :
         l \in Sids /\ sockets'[l].pending = sockets[l].pending
  OBVIOUS
<1>2. QueuedOnce'
  BY SMTT(60), <1>1 DEF QueuedOnce
<1>3. HeldOnce'
  BY DEF HeldOnce
<1>4. QueuedNotHeld'
  BY <1>1 DEF QueuedNotHeld
<1> QED
  BY ZenonT(30), <1>2, <1>3, <1>4

\* A step that changes nobody's peer keeps the pairs.
LEMMA PairsKept ==
    ASSUME PeersPaired, Sids' = Sids, \A s \in Sids : sockets'[s].peer = sockets[s].peer
    PROVE  PeersPaired'
BY SMTT(60) DEF PeersPaired

\* bind and listen change nothing the invariant is about.
LEMMA SettingsKept ==
    ASSUME SockInv, UNCHANGED bound, sockets' \in Seq(Sock), Sids' = Sids,
           \A s \in Sids : /\ sockets'[s].peer = sockets[s].peer
                           /\ sockets'[s].pending = sockets[s].pending
                           /\ sockets'[s].buf = sockets[s].buf
                           /\ sockets'[s].noWrite = sockets[s].noWrite
                           /\ sockets'[s].peerDone = sockets[s].peerDone
    PROVE  SockInv'
<1>1. SockTypes'
  BY ZenonT(30) DEF SockInv, SockTypes
<1>2. PeersPaired'
  BY ZenonT(30), PairsKept DEF SockInv
<1>3. BytesPeers'
  BY SMTT(60) DEF SockInv, BytesPeers, PeersPaired
<1>4. QueuedOnce' /\ HeldOnce' /\ QueuedNotHeld'
  BY ZenonT(30), PlacesKept DEF SockInv
<1> QED
  BY ZenonT(30), <1>1, <1>2, <1>3, <1>4 DEF SockInv

\* socket(): a new slot without peer, and a descriptor for it.
LEMMA SocketStep ==
    ASSUME SockInv, NEW p \in Procs, Socket(p)
    PROVE  SockInv'
<1> DEFINE n == Len(sockets) + 1
<1>1. n \in Nat \ {0} /\ Sids = 1 .. Len(sockets) /\ Len(sockets) \in Nat /\ sockets \in Seq(Sock)
  BY Slots
<1>2. NewSocket \in Sock
  BY SMTT(60) DEF NewSocket, Sock
<1>3. sockets' \in Seq(Sock) /\ Sids' = 1 .. n
  BY <1>1, <1>2 DEF Socket, Sids
<1>4. (\A t \in Sids : sockets'[t] = sockets[t]) /\ sockets'[n] = NewSocket
  BY <1>1 DEF Socket
<1>5. \A t \in Sids' : t \in Sids \/ t = n
  BY <1>1, <1>3
<1>6. Sids \subseteq Sids' /\ n \in Sids' /\ n \notin Sids
  BY <1>1, <1>3
<1>7. NewSocket.peer = 0 /\ NewSocket.pending = <<>> /\ NewSocket.buf = <<>> /\ NewSocket.peerDone = FALSE
  BY ZenonT(30) DEF NewSocket
<1> HIDE DEF n
<1>8. \A q \in Procs, g \in Fds : bound[q][g] # n
  BY <1>1, <1>6 DEF SockInv, HeldOnce
<1>9. /\ bound' \in [Procs -> [Fds -> Nat]]
      /\ HeldOnce'
      /\ \A q \in Procs, g \in Fds : bound'[q][g] \in {bound[q][g], n}
  BY ZenonT(30), <1>1, <1>6, <1>8, HandedOut DEF SockInv, Socket, n
<1>10. PeersPaired'
  BY SMTT(60), <1>4, <1>5, <1>6, <1>7 DEF SockInv, PeersPaired
<1>11. BytesPeers'
  BY SMTT(60), <1>4, <1>5, <1>6, <1>7 DEF SockInv, PeersPaired, BytesPeers
<1>12. \A l \in Sids' : \A i \in DOMAIN sockets'[l].pending : l \in Sids /\ sockets'[l] = sockets[l]
  BY <1>4, <1>5, <1>7
<1>13. QueuedOnce'
  BY SMTT(60), <1>6, <1>12 DEF SockInv, QueuedOnce
<1>14. QueuedNotHeld'
  BY SMTT(60), <1>6, <1>9, <1>12 DEF SockInv, QueuedOnce, QueuedNotHeld
<1> QED
  BY ZenonT(30), <1>3, <1>9, <1>10, <1>11, <1>13, <1>14 DEF SockInv, SockTypes

\* What a call's descriptor names: a slot of the table.
LEMMA Named ==
    ASSUME SockInv, NEW p \in Procs, NEW f \in Fds, bound[p][f] # 0
    PROVE  /\ bound[p][f] \in Sids
           /\ Sids = 1 .. Len(sockets) /\ Len(sockets) \in Nat
           /\ \A t \in Sids : sockets[t] \in Sock
<1>1. bound[p][f] \in Sids
  BY ZenonT(30) DEF SockInv, HeldOnce
<1> QED
  BY ZenonT(30), <1>1, Slots

\* bind() and listen()
LEMMA SettingsStep ==
    ASSUME SockInv, NEW p \in Procs, NEW f \in Fds,
           \/ \E port \in Ports : Bind(p, f, port)
           \/ \E b \in Backlogs : Listen(p, f, b)
    PROVE  SockInv'
<1> DEFINE c == bound[p][f]
<1>1. c \in Sids /\ \A t \in Sids : sockets[t] \in Sock
  BY ZenonT(30), Named DEF Bind, Listen, Calls
<1>2. sockets \in Seq(Sock)
  BY ZenonT(30) DEF SockInv, SockTypes
<1> HIDE DEF c
<1>3. ASSUME NEW port \in Ports, Bind(p, f, port)
      PROVE  SockInv'
  <2>1. sockets' = [sockets EXCEPT ![c] = [sockets[c] EXCEPT !.port = port]] /\ UNCHANGED bound
    BY ZenonT(30), <1>3 DEF Bind, c
  <2>2. [sockets[c] EXCEPT !.port = port] \in Sock
    BY ZenonT(30), <1>1 DEF Sock
  <2> DEFINE new == [sockets[c] EXCEPT !.port = port]
  <2>3. /\ sockets' \in Seq(Sock) /\ Sids' = Sids
        /\ \A t \in Sids : sockets'[t] = IF t = c THEN new ELSE sockets[t]
    BY ZenonT(30), <1>1, <2>1, <2>2, Replaced
  <2>4. /\ new.peer = sockets[c].peer /\ new.pending = sockets[c].pending /\ new.buf = sockets[c].buf
        /\ new.noWrite = sockets[c].noWrite /\ new.peerDone = sockets[c].peerDone
    BY ZenonT(30), <1>1 DEF Sock
  <2> HIDE DEF new
  <2> QED
    BY <2>1, <2>3, <2>4, SettingsKept
<1>4. ASSUME NEW b \in Backlogs, Listen(p, f, b)
      PROVE  SockInv'
  <2> DEFINE new == [sockets[c] EXCEPT !.listening = TRUE, !.backlog = Max({b, 1})]
  <2>1. sockets' = [sockets EXCEPT ![c] = new] /\ UNCHANGED bound
    BY ZenonT(30), <1>4, <1>2, <1>1 DEF Listen, c
  <2>2. new \in Sock
    BY ZenonT(30), <1>1, MaxOf, SocketAssumption DEF Sock
  <2>3. /\ sockets' \in Seq(Sock) /\ Sids' = Sids
        /\ \A t \in Sids : sockets'[t] = IF t = c THEN new ELSE sockets[t]
    BY ZenonT(30), <1>1, <2>1, <2>2, Replaced
  <2>5. /\ new.peer = sockets[c].peer /\ new.pending = sockets[c].pending /\ new.buf = sockets[c].buf
        /\ new.noWrite = sockets[c].noWrite /\ new.peerDone = sockets[c].peerDone
    BY ZenonT(30), <1>1 DEF Sock
  <2> HIDE DEF new
  <2> QED
    BY <2>1, <2>3, <2>5, SettingsKept
<1> QED
  BY ZenonT(30), <1>3, <1>4

\* connect(): what the table holds afterwards.
LEMMA LinkedDoes ==
    ASSUME SockInv, NEW c \in Sids, NEW l \in Sids, c # l,
           NEW n, n = Len(sockets) + 1, NEW T, T = Linked(c, l, n)
    PROVE  /\ T \in Seq(Sock) /\ DOMAIN T = 1 .. n
           /\ \A t \in Sids :
                /\ T[t].peer = IF t = c THEN n ELSE sockets[t].peer
                /\ t # l => T[t].pending = sockets[t].pending
                /\ T[t].buf = sockets[t].buf
                /\ T[t].noWrite = sockets[t].noWrite
                /\ T[t].peerDone = sockets[t].peerDone
           /\ T[l].pending \in {sockets[l].pending, Append(sockets[l].pending, n)}
           /\ T[n].peer = c /\ T[n].pending = <<>> /\ T[n].buf = <<>> /\ ~T[n].peerDone
<1> DEFINE C == [sockets[c] EXCEPT !.peer = n, !.port = IF @ = 0 THEN -1 ELSE @]
           P == IF Len(sockets[l].pending) >= sockets[l].backlog
                THEN sockets[l].pending ELSE Append(sockets[l].pending, n)
           L == [sockets[l] EXCEPT !.pending = P]
           N == [NewSocket EXCEPT !.port = sockets[l].port, !.peer = c]
           E == [sockets EXCEPT ![c] = C, ![l] = L]
<1>1. sockets \in Seq(Sock) /\ Sids = 1 .. Len(sockets) /\ Len(sockets) \in Nat
  BY ZenonT(30), Slots
<1>2. sockets[c] \in Sock /\ sockets[l] \in Sock /\ n \in Nat \ {0} /\ c \in Nat
  BY <1>1
<1>3. C \in Sock /\ C.peer = n /\ C.pending = sockets[c].pending /\ C.buf = sockets[c].buf
      /\ C.noWrite = sockets[c].noWrite /\ C.peerDone = sockets[c].peerDone
  BY ZenonT(30), <1>2 DEF Sock
<1>4. L \in Sock /\ L.peer = sockets[l].peer /\ L.buf = sockets[l].buf
      /\ L.noWrite = sockets[l].noWrite /\ L.peerDone = sockets[l].peerDone
      /\ L.pending \in {sockets[l].pending, Append(sockets[l].pending, n)}
  <2>1. sockets[l].pending \in Seq(Nat)
    BY ZenonT(30), <1>2 DEF Sock
  <2>2. P \in Seq(Nat) /\ P \in {sockets[l].pending, Append(sockets[l].pending, n)}
    BY <1>2, <2>1
  <2> HIDE DEF P
  <2> QED
    BY ZenonT(30), <1>2, <2>2 DEF Sock
<1>5. N \in Sock /\ N.peer = c /\ N.pending = <<>> /\ N.buf = <<>> /\ ~N.peerDone
  <2>1. sockets[l].port \in Ports \cup {0, -1}
    BY ZenonT(30), <1>2 DEF Sock
  <2>2. NewSocket \in Sock /\ NewSocket.pending = <<>> /\ NewSocket.buf = <<>> /\ NewSocket.peerDone = FALSE
    BY SMTT(60) DEF NewSocket, Sock
  <2> QED
    BY ZenonT(30), <1>2, <2>1, <2>2 DEF Sock
<1>6. T = E \o <<N>>
  BY ZenonT(30), <1>1, <1>2 DEF Linked
<1> HIDE DEF C, L, N
<1>7. E \in Seq(Sock) /\ Len(E) = Len(sockets)
  BY <1>1, <1>3, <1>4
<1>8. \A t \in Sids : E[t] = IF t = c THEN C ELSE IF t = l THEN L ELSE sockets[t]
  BY <1>1
<1> HIDE DEF E
<1>9. E \o <<N>> \in Seq(Sock) /\ DOMAIN (E \o <<N>>) = 1 .. n
  BY <1>1, <1>5, <1>7
<1>10. (\A t \in Sids : (E \o <<N>>)[t] = E[t]) /\ (E \o <<N>>)[n] = N
  BY SMTT(60), <1>1, <1>5, <1>7
<1> QED
  BY ZenonT(30), <1>3, <1>4, <1>5, <1>6, <1>8, <1>9, <1>10

\* connect(): the client and the new socket name each other; the new socket is
\* in one queue, or in none when the backlog is full.
LEMMA ConnectStep ==
    ASSUME SockInv, NEW p \in Procs, NEW f \in Fds, NEW port \in Ports, Connect(p, f, port)
    PROVE  SockInv'
<1> DEFINE c == bound[p][f]
           l == Min(Listening(port))
           n == Len(sockets) + 1
<1>1. c \in Sids /\ Sids = 1 .. Len(sockets) /\ Len(sockets) \in Nat
  BY ZenonT(30), Named DEF Connect, Calls
<1>2. l \in Sids /\ sockets[l].listening
  <2>1. Listening(port) \subseteq Nat /\ Listening(port) # {}
    BY SMTT(60), <1>1 DEF Listening, Connect
  <2> QED
    BY ZenonT(30), <2>1, MinOf DEF Listening
<1>3. c # l /\ sockets[c].peer = 0 /\ sockets' = Linked(c, l, n) /\ UNCHANGED bound
  BY ZenonT(30), <1>2 DEF Connect
<1>4. n \in Nat \ {0} /\ n \notin Sids
  BY <1>1
<1> HIDE DEF c, l
<1>5. /\ sockets' \in Seq(Sock) /\ Sids' = 1 .. n
      /\ \A t \in Sids :
            /\ sockets'[t].peer = IF t = c THEN n ELSE sockets[t].peer
            /\ t # l => sockets'[t].pending = sockets[t].pending
            /\ sockets'[t].buf = sockets[t].buf
            /\ sockets'[t].noWrite = sockets[t].noWrite
            /\ sockets'[t].peerDone = sockets[t].peerDone
      /\ sockets'[l].pending \in {sockets[l].pending, Append(sockets[l].pending, n)}
      /\ sockets'[n].peer = c /\ sockets'[n].pending = <<>> /\ sockets'[n].buf = <<>>
      /\ ~sockets'[n].peerDone
  <2> DEFINE T == sockets'
  <2>1. T = Linked(c, l, n)
    BY ZenonT(30), <1>3
  <2>2. /\ T \in Seq(Sock) /\ DOMAIN T = 1 .. n
        /\ \A t \in Sids :
              /\ T[t].peer = IF t = c THEN n ELSE sockets[t].peer
              /\ t # l => T[t].pending = sockets[t].pending
              /\ T[t].buf = sockets[t].buf
              /\ T[t].noWrite = sockets[t].noWrite
              /\ T[t].peerDone = sockets[t].peerDone
        /\ T[l].pending \in {sockets[l].pending, Append(sockets[l].pending, n)}
        /\ T[n].peer = c /\ T[n].pending = <<>> /\ T[n].buf = <<>> /\ ~T[n].peerDone
    BY SMTT(60), <1>1, <1>2, <1>3, <2>1, LinkedDoes
  <2> QED
    BY ZenonT(30), <2>2 DEF Sids
<1>6. \A t \in Sids' : t \in Sids \/ t = n
  <2>1. Sids' = 1 .. n
    BY ZenonT(30), <1>5
  <2> QED
    BY <2>1, <1>1
<1>7. Sids \subseteq Sids' /\ n \in Sids' /\ c # n /\ c # 0
  BY SMTT(60), <1>1, <1>4, <1>5
<1>8. SockTypes'
  BY ZenonT(30), <1>3, <1>5 DEF SockInv, SockTypes
<1>8a. \A t \in Sids : t # 0
  BY <1>1
<1>9. PeersPaired'
  <2> SUFFICES ASSUME NEW s \in Sids', sockets'[s].peer # 0
               PROVE  /\ sockets'[s].peer \in Sids' /\ sockets'[s].peer # s
                      /\ sockets'[sockets'[s].peer].peer = s
    BY ZenonT(30) DEF PeersPaired
  <2>1. CASE s = n
    BY ZenonT(30), <2>1, <1>1, <1>5, <1>7
  <2>2. CASE s = c
    BY ZenonT(30), <2>2, <1>1, <1>5, <1>7
  <2>3. CASE s \in Sids /\ s # c
    <3>1. sockets[s].peer # 0 /\ sockets'[s].peer = sockets[s].peer
      BY ZenonT(30), <2>3, <1>5
    <3>2. /\ sockets[s].peer \in Sids /\ sockets[s].peer # s
          /\ sockets[sockets[s].peer].peer = s
      BY ZenonT(30), <2>3, <3>1 DEF SockInv, PeersPaired
    <3>3. sockets[s].peer # c
      BY ZenonT(30), <3>2, <2>3, <1>3, <1>8a
    <3> QED
      BY ZenonT(30), <3>1, <3>2, <3>3, <1>5, <1>7
  <2> QED
    BY ZenonT(30), <2>1, <2>2, <2>3, <1>6
<1>10. sockets[c].buf = <<>> /\ ~sockets[c].peerDone
  <2>1. sockets[c].buf \in Seq(Nat \ {0})
    <3>1. sockets[c] \in Sock
      BY ZenonT(30), <1>1, Slots
    <3> QED
      BY ZenonT(30), <3>1 DEF Sock
  <2>2. \A i \in DOMAIN sockets[c].buf : sockets[c].buf[i] = 0
    BY ZenonT(30), <1>1, <1>3 DEF SockInv, BytesPeers
  <2>3. DOMAIN sockets[c].buf = {}
    BY <2>1, <2>2
  <2> QED
    BY SMTT(60), <1>1, <1>3, <2>1, <2>3 DEF SockInv, BytesPeers
<1>11. BytesPeers'
  <2> SUFFICES ASSUME NEW s \in Sids'
               PROVE  /\ \A i \in DOMAIN sockets'[s].buf : sockets'[s].buf[i] = sockets'[s].peer
                      /\ sockets'[s].peerDone => sockets'[s].peer # 0 /\ sockets'[sockets'[s].peer].noWrite
    BY ZenonT(30) DEF BytesPeers
  <2>1. CASE s = n
    BY SMTT(60), <2>1, <1>5
  <2>2. CASE s = c
    BY SMTT(60), <2>2, <1>1, <1>5, <1>10
  <2>3. CASE s \in Sids /\ s # c
    <3>1. /\ sockets'[s].peer = sockets[s].peer /\ sockets'[s].buf = sockets[s].buf
          /\ sockets'[s].peerDone = sockets[s].peerDone
      BY ZenonT(30), <2>3, <1>5
    <3>2. /\ \A i \in DOMAIN sockets[s].buf : sockets[s].buf[i] = sockets[s].peer
          /\ sockets[s].peerDone => sockets[s].peer # 0 /\ sockets[sockets[s].peer].noWrite
      BY ZenonT(30), <2>3 DEF SockInv, BytesPeers
    <3>3. sockets[s].peer # 0 => sockets[s].peer \in Sids
      BY ZenonT(30), <2>3 DEF SockInv, PeersPaired
    <3> QED
      BY SMTT(60), <3>1, <3>2, <3>3, <1>5
  <2> QED
    BY ZenonT(30), <2>1, <2>2, <2>3, <1>6
<1> DEFINE Was(m, j) == m \in Sids /\ j \in DOMAIN sockets[m].pending
                        /\ sockets'[m].pending[j] = sockets[m].pending[j]
           Last == Len(sockets[l].pending) + 1
<1>12. \A m \in Sids' : \A j \in DOMAIN sockets'[m].pending :
          Was(m, j) \/ (m = l /\ j = Last /\ sockets'[m].pending[j] = n)
  <2>1. sockets[l].pending \in Seq(Nat)
    <3>1. sockets[l] \in Sock
      BY ZenonT(30), <1>2, Slots
    <3> QED
      BY ZenonT(30), <3>1 DEF Sock
  <2>2. \A j \in DOMAIN Append(sockets[l].pending, n) :
           \/ j \in DOMAIN sockets[l].pending /\ Append(sockets[l].pending, n)[j] = sockets[l].pending[j]
           \/ j = Last /\ Append(sockets[l].pending, n)[j] = n
    BY SMTT(60), <2>1, <1>4
  <2> SUFFICES ASSUME NEW m \in Sids', NEW j \in DOMAIN sockets'[m].pending
               PROVE  Was(m, j) \/ (m = l /\ j = Last /\ sockets'[m].pending[j] = n)
    BY ZenonT(30)
  <2>3. m \in Sids
    BY SMTT(60), <1>5, <1>6
  <2>4. CASE m = l
    BY ZenonT(30), <2>2, <2>3, <2>4, <1>5
  <2>5. CASE m # l
    BY ZenonT(30), <2>3, <2>5, <1>5
  <2> QED
    BY ZenonT(30), <2>4, <2>5
<1>13. \A m \in Sids : \A j \in DOMAIN sockets[m].pending : sockets[m].pending[j] # n
  BY ZenonT(30), <1>4 DEF SockInv, QueuedOnce
<1> HIDE DEF n
<1>14. QueuedOnce'
  BY SMTT(60), <1>7, <1>12, <1>13 DEF SockInv, QueuedOnce
<1>15. HeldOnce'
  BY SMTT(60), <1>3, <1>7 DEF SockInv, HeldOnce
<1>16. \A q \in Procs, g \in Fds : bound[q][g] # n
  BY SMTT(60), <1>4 DEF SockInv, HeldOnce
<1>17. QueuedNotHeld'
  <2> SUFFICES ASSUME NEW m \in Sids', NEW j \in DOMAIN sockets'[m].pending,
                      NEW q \in Procs, NEW g \in Fds
               PROVE  bound[q][g] # sockets'[m].pending[j]
    BY ZenonT(30), <1>3 DEF QueuedNotHeld
  <2>1. CASE Was(m, j)
    BY ZenonT(30), <2>1 DEF SockInv, QueuedNotHeld
  <2>2. CASE sockets'[m].pending[j] = n
    BY ZenonT(30), <2>2, <1>16
  <2> QED
    BY ZenonT(30), <2>1, <2>2, <1>12
<1> QED
  BY ZenonT(30), <1>8, <1>9, <1>11, <1>14, <1>15, <1>17 DEF SockInv

\* The head of a queue, and what is left when it is taken (accept's pop_front).
LEMMA HeadAndTail ==
    ASSUME NEW q \in Seq(Nat), q # <<>>
    PROVE  /\ Head(q) = q[1] /\ 1 \in DOMAIN q /\ Tail(q) \in Seq(Nat)
           /\ \A i \in DOMAIN Tail(q) : i + 1 \in DOMAIN q /\ Tail(q)[i] = q[i + 1] /\ i \in Nat \ {0}
  OBVIOUS

\* accept(): the head of the queue moves from the queue to a descriptor.
LEMMA AcceptStep ==
    ASSUME SockInv, NEW p \in Procs, NEW f \in Fds, Accept(p, f)
    PROVE  SockInv'
<1> DEFINE l == bound[p][f]
           q0 == sockets[l].pending
           s == Head(q0)
           new == [sockets[l] EXCEPT !.pending = Tail(q0)]
<1>1. l \in Sids /\ \A t \in Sids : sockets[t] \in Sock
  BY ZenonT(30), Named DEF Accept, Calls
<1>2. sockets \in Seq(Sock) /\ q0 \in Seq(Nat) /\ q0 # <<>>
  BY ZenonT(30), <1>1 DEF SockInv, SockTypes, Sock, Accept
<1>3. /\ s = q0[1] /\ 1 \in DOMAIN q0 /\ Tail(q0) \in Seq(Nat)
      /\ \A i \in DOMAIN Tail(q0) : i + 1 \in DOMAIN q0 /\ Tail(q0)[i] = q0[i + 1] /\ i \in Nat \ {0}
  BY ZenonT(30), <1>2, HeadAndTail
<1>4. new \in Sock /\ new.pending = Tail(q0) /\ new.peer = sockets[l].peer /\ new.buf = sockets[l].buf
      /\ new.noWrite = sockets[l].noWrite /\ new.peerDone = sockets[l].peerDone
  BY ZenonT(30), <1>1, <1>3 DEF Sock
<1>5. sockets' = [sockets EXCEPT ![l] = new] /\ bound' = WithFd(p, s)
  BY ZenonT(30) DEF Accept
<1> HIDE DEF new, l, q0, s
<1>6. sockets' \in Seq(Sock) /\ Sids' = Sids /\ \A t \in Sids : sockets'[t] = IF t = l THEN new ELSE sockets[t]
  BY ZenonT(30), <1>1, <1>4, <1>5, Replaced
<1>7. s \in Sids /\ s \in Nat \ {0}
  <2>1. s \in Sids
    BY ZenonT(30), <1>1, <1>3 DEF SockInv, QueuedOnce, q0
  <2> QED
    BY ZenonT(30), <2>1, Slots
<1>8. \A q \in Procs, g \in Fds : bound[q][g] # s
  BY SMTT(60), <1>1, <1>3 DEF SockInv, QueuedNotHeld, q0
<1>9. /\ bound' \in [Procs -> [Fds -> Nat]]
      /\ HeldOnce'
      /\ \A q \in Procs, g \in Fds : bound'[q][g] \in {bound[q][g], s}
  BY ZenonT(30), <1>5, <1>6, <1>7, <1>8, HandedOut DEF SockInv
<1>10. PeersPaired'
  BY ZenonT(30), <1>4, <1>6, PairsKept DEF SockInv
<1>11. BytesPeers'
  <2>1. \A t \in Sids : /\ sockets'[t].peer = sockets[t].peer /\ sockets'[t].buf = sockets[t].buf
                        /\ sockets'[t].noWrite = sockets[t].noWrite
                        /\ sockets'[t].peerDone = sockets[t].peerDone
    BY ZenonT(30), <1>4, <1>6
  <2>2. \A t \in Sids : sockets[t].peer # 0 => sockets[t].peer \in Sids
    BY ZenonT(30) DEF SockInv, PeersPaired
  <2> QED
    <3> SUFFICES ASSUME NEW t \in Sids
                 PROVE  /\ \A i \in DOMAIN sockets'[t].buf : sockets'[t].buf[i] = sockets'[t].peer
                        /\ sockets'[t].peerDone =>
                             sockets'[t].peer # 0 /\ sockets'[sockets'[t].peer].noWrite
      BY ZenonT(30), <1>6 DEF BytesPeers
    <3>1. /\ \A i \in DOMAIN sockets[t].buf : sockets[t].buf[i] = sockets[t].peer
          /\ sockets[t].peerDone => sockets[t].peer # 0 /\ sockets[sockets[t].peer].noWrite
      BY ZenonT(30) DEF SockInv, BytesPeers
    <3>2. \A i \in DOMAIN sockets'[t].buf : sockets'[t].buf[i] = sockets'[t].peer
      BY ZenonT(30), <2>1, <3>1
    <3>3. ASSUME sockets'[t].peerDone
          PROVE  sockets'[t].peer # 0 /\ sockets'[sockets'[t].peer].noWrite
      <4>1. sockets'[t].peer = sockets[t].peer /\ sockets[t].peer # 0 /\ sockets[sockets[t].peer].noWrite
        BY ZenonT(30), <2>1, <3>1, <3>3
      <4>2. sockets[t].peer \in Sids
        BY ZenonT(30), <2>2, <4>1
      <4>3. sockets'[sockets[t].peer].noWrite = sockets[sockets[t].peer].noWrite
        BY ZenonT(30), <2>1, <4>2
      <4> QED
        BY ZenonT(30), <4>1, <4>3
    <3> QED
      BY ZenonT(30), <3>2, <3>3
<1> DEFINE Old(m, i) == IF m = l THEN i + 1 ELSE i
<1>12. \A m \in Sids : \A i \in DOMAIN sockets'[m].pending :
          /\ Old(m, i) \in DOMAIN sockets[m].pending
          /\ sockets'[m].pending[i] = sockets[m].pending[Old(m, i)]
          /\ m = l => i \in Nat \ {0}
  BY ZenonT(30), <1>3, <1>4, <1>6 DEF q0
<1>13. QueuedOnce'
  <2> SUFFICES ASSUME NEW a \in Sids, NEW i \in DOMAIN sockets'[a].pending
               PROVE  /\ sockets'[a].pending[i] \in Sids
                      /\ \A m \in Sids : \A j \in DOMAIN sockets'[m].pending :
                           sockets'[a].pending[i] = sockets'[m].pending[j] => a = m /\ i = j
    BY SMTT(60), <1>6 DEF QueuedOnce
  <2>1. sockets'[a].pending[i] \in Sids
    BY SMTT(60), <1>12 DEF SockInv, QueuedOnce
  <2>2. ASSUME NEW m \in Sids, NEW j \in DOMAIN sockets'[m].pending,
               sockets'[a].pending[i] = sockets'[m].pending[j]
        PROVE  a = m /\ i = j
    <3>1. a = m /\ Old(a, i) = Old(m, j)
      BY SMTT(60), <1>12, <2>2 DEF SockInv, QueuedOnce
    <3> QED
      BY SMTT(60), <3>1, <1>12
  <2> QED
    BY ZenonT(30), <2>1, <2>2
<1>14. \A m \in Sids : \A i \in DOMAIN sockets'[m].pending : sockets'[m].pending[i] # s
  <2> SUFFICES ASSUME NEW m \in Sids, NEW i \in DOMAIN sockets'[m].pending, sockets'[m].pending[i] = s
               PROVE  FALSE
    OBVIOUS
  <2>1. m = l /\ Old(m, i) = 1
    BY SMTT(60), <1>1, <1>3, <1>12 DEF SockInv, QueuedOnce, q0
  <2> QED
    BY SMTT(60), <2>1, <1>12
<1>15. \A m \in Sids : \A i \in DOMAIN sockets'[m].pending :
          \A q \in Procs, g \in Fds : bound[q][g] # sockets'[m].pending[i]
  <2> HIDE DEF Old
  <2> SUFFICES ASSUME NEW m \in Sids, NEW i \in DOMAIN sockets'[m].pending,
                      NEW q \in Procs, NEW g \in Fds
               PROVE  bound[q][g] # sockets'[m].pending[i]
    OBVIOUS
  <2>1. /\ Old(m, i) \in DOMAIN sockets[m].pending
        /\ sockets'[m].pending[i] = sockets[m].pending[Old(m, i)]
    BY ZenonT(30), <1>12
  <2>2. bound[q][g] # sockets[m].pending[Old(m, i)]
    BY ZenonT(30), <2>1 DEF SockInv, QueuedNotHeld
  <2> QED
    BY ZenonT(30), <2>1, <2>2
<1>16. QueuedNotHeld'
  <2> SUFFICES ASSUME NEW m \in Sids, NEW i \in DOMAIN sockets'[m].pending,
                      NEW q \in Procs, NEW g \in Fds
               PROVE  bound'[q][g] # sockets'[m].pending[i]
    BY ZenonT(30), <1>6 DEF QueuedNotHeld
  <2> QED
    <3>1. bound'[q][g] = bound[q][g] \/ bound'[q][g] = s
      BY ZenonT(30), <1>9
    <3>2. bound[q][g] # sockets'[m].pending[i] /\ sockets'[m].pending[i] # s
      BY ZenonT(30), <1>14, <1>15
    <3> QED
      BY ZenonT(30), <3>1, <3>2
<1> QED
  BY ZenonT(30), <1>6, <1>9, <1>10, <1>11, <1>13, <1>16 DEF SockInv, SockTypes

\* send() and recv() move bytes: what is appended comes from the peer.
LEMMA BytesStep ==
    ASSUME SockInv, NEW p \in Procs, NEW f \in Fds, Send(p, f) \/ Recv(p, f)
    PROVE  SockInv'
<1> DEFINE c == bound[p][f]
<1>1. c \in Sids /\ c \in Nat \ {0} /\ \A t \in Sids : sockets[t] \in Sock
  BY ZenonT(30), Named, Slots DEF Send, Recv, Calls
<1>2. sockets \in Seq(Sock) /\ UNCHANGED bound
  BY ZenonT(30) DEF SockInv, SockTypes, Send, Recv
<1>3. ASSUME NEW t \in Sids, NEW B \in Seq(Nat \ {0}),
             \A i \in DOMAIN B : B[i] = sockets[t].peer,
             sockets' = [sockets EXCEPT ![t] = [sockets[t] EXCEPT !.buf = B]]
      PROVE  SockInv'
  <2> DEFINE new == [sockets[t] EXCEPT !.buf = B]
  <2>1. /\ new \in Sock /\ new.buf = B /\ new.pending = sockets[t].pending /\ new.peer = sockets[t].peer
        /\ new.noWrite = sockets[t].noWrite /\ new.peerDone = sockets[t].peerDone
    BY ZenonT(30), <1>1 DEF Sock
  <2>2. sockets' = [sockets EXCEPT ![t] = new]
    BY ZenonT(30), <1>3
  <2> HIDE DEF new
  <2>3. sockets' \in Seq(Sock) /\ Sids' = Sids /\ \A u \in Sids : sockets'[u] = IF u = t THEN new ELSE sockets[u]
    BY ZenonT(30), <2>1, <2>2, Replaced
  <2>4. PeersPaired'
    BY ZenonT(30), <2>1, <2>3, PairsKept DEF SockInv
  <2>5. BytesPeers'
    BY <1>3, <2>1, <2>3 DEF SockInv, BytesPeers, PeersPaired
  <2>6. QueuedOnce' /\ HeldOnce' /\ QueuedNotHeld'
    BY ZenonT(30), <1>2, <2>1, <2>3, PlacesKept DEF SockInv
  <2> QED
    BY ZenonT(30), <1>2, <2>3, <2>4, <2>5, <2>6 DEF SockInv, SockTypes
<1> HIDE DEF c
<1>4. CASE Send(p, f)
  <2> DEFINE t == sockets[c].peer
             B == Append(sockets[t].buf, c)
  <2>1. t # 0 /\ sockets' = [sockets EXCEPT ![t] = [sockets[t] EXCEPT !.buf = B]]
    BY ZenonT(30), <1>4 DEF Send, c
  <2>2. t \in Sids /\ sockets[t].peer = c
    BY ZenonT(30), <1>1, <2>1 DEF SockInv, PeersPaired
  <2>3. sockets[t].buf \in Seq(Nat \ {0}) /\ \A i \in DOMAIN sockets[t].buf : sockets[t].buf[i] = c
    BY ZenonT(30), <1>1, <2>2 DEF SockInv, BytesPeers, Sock
  <2>4. B \in Seq(Nat \ {0}) /\ \A i \in DOMAIN B : B[i] = c
    BY SMTT(60), <1>1, <2>3
  <2> HIDE DEF t, B
  <2> QED
    BY ZenonT(30), <2>1, <2>2, <2>4, <1>3
<1>5. CASE Recv(p, f)
  <2> DEFINE B == Tail(sockets[c].buf)
  <2>1. sockets[c].buf # <<>> /\ sockets' = [sockets EXCEPT ![c] = [sockets[c] EXCEPT !.buf = B]]
    BY ZenonT(30), <1>5 DEF Recv, c
  <2>2. sockets[c].buf \in Seq(Nat \ {0}) /\ \A i \in DOMAIN sockets[c].buf : sockets[c].buf[i] = sockets[c].peer
    BY ZenonT(30), <1>1 DEF SockInv, BytesPeers, Sock
  <2>3. B \in Seq(Nat \ {0}) /\ \A i \in DOMAIN B : B[i] = sockets[c].peer
    BY SMTT(60), <2>1, <2>2
  <2> HIDE DEF B
  <2> QED
    BY ZenonT(30), <1>1, <2>1, <2>3, <1>3
<1> QED
  BY ZenonT(30), <1>4, <1>5

\* shutdown_sid: the peer is told exactly when it is shut for writing.
LEMMA ShutDownDoes ==
    ASSUME SockInv, NEW s \in Sids, NEW rd \in BOOLEAN, NEW wr \in BOOLEAN,
           sockets' = ShutDown(s, rd, wr)
    PROVE  /\ sockets' \in Seq(Sock) /\ Sids' = Sids
           /\ PeersPaired' /\ BytesPeers'
           /\ \A t \in Sids : sockets'[t].pending = sockets[t].pending
<1>1. sockets \in Seq(Sock) /\ Sids = 1 .. Len(sockets) /\ Len(sockets) \in Nat
  BY ZenonT(30), Slots
<1> DEFINE New(t) == [sockets[t] EXCEPT !.noRead = @ \/ (t = s /\ rd), !.noWrite = @ \/ (t = s /\ wr),
                                        !.peerDone = @ \/ (wr /\ t = sockets[s].peer)]
<1>2. \A t \in Sids :
         /\ New(t) \in Sock
         /\ New(t).peer = sockets[t].peer /\ New(t).buf = sockets[t].buf /\ New(t).pending = sockets[t].pending
         /\ New(t).noWrite <=> sockets[t].noWrite \/ (t = s /\ wr)
         /\ New(t).peerDone <=> sockets[t].peerDone \/ (wr /\ t = sockets[s].peer)
  <2> SUFFICES ASSUME NEW t \in Sids
               PROVE  /\ New(t) \in Sock
                      /\ New(t).peer = sockets[t].peer /\ New(t).buf = sockets[t].buf
                      /\ New(t).pending = sockets[t].pending
                      /\ New(t).noWrite <=> sockets[t].noWrite \/ (t = s /\ wr)
                      /\ New(t).peerDone <=> sockets[t].peerDone \/ (wr /\ t = sockets[s].peer)
    BY ZenonT(30)
  <2>1. sockets[t] \in Sock
    BY <1>1
  <2> QED
    BY ZenonT(30), <2>1 DEF Sock
<1>3. sockets' = [t \in 1 .. Len(sockets) |-> New(t)]
  BY ZenonT(30), <1>1 DEF ShutDown
<1> HIDE DEF New
<1>4. sockets' \in [1 .. Len(sockets) -> Sock]
  BY ZenonT(30), <1>1, <1>2, <1>3
<1>5. sockets' \in Seq(Sock) /\ Sids' = Sids
  BY ZenonT(30), <1>1, <1>4, Table DEF Sids
<1>6. \A t \in Sids : sockets'[t] = New(t)
  BY ZenonT(30), <1>1, <1>3
<1>7. PeersPaired'
  BY ZenonT(30), <1>2, <1>5, <1>6, PairsKept DEF SockInv
<1>8. BytesPeers'
  <2> SUFFICES ASSUME NEW t \in Sids
               PROVE  /\ \A i \in DOMAIN sockets'[t].buf : sockets'[t].buf[i] = sockets'[t].peer
                      /\ sockets'[t].peerDone => sockets'[t].peer # 0 /\ sockets'[sockets'[t].peer].noWrite
    BY ZenonT(30), <1>5 DEF BytesPeers
  <2> DEFINE u == sockets[t].peer
  <2>1. /\ sockets'[t].buf = sockets[t].buf /\ sockets'[t].peer = u
        /\ sockets'[t].peerDone <=> sockets[t].peerDone \/ (wr /\ t = sockets[s].peer)
    BY ZenonT(30), <1>2, <1>6
  <2>2. /\ \A i \in DOMAIN sockets[t].buf : sockets[t].buf[i] = u
        /\ sockets[t].peerDone => u # 0 /\ sockets[u].noWrite
        /\ u # 0 => u \in Sids
    BY ZenonT(30) DEF SockInv, BytesPeers, PeersPaired
  <2>3. ASSUME wr, t = sockets[s].peer
        PROVE  u = s /\ u # 0
    <3>1. t # 0 /\ s # 0
      BY ZenonT(30), Slots
    <3> QED
      BY ZenonT(30), <2>3, <3>1 DEF SockInv, PeersPaired
  <2>4. u \in Sids => (sockets'[u].noWrite <=> sockets[u].noWrite \/ (u = s /\ wr))
    BY ZenonT(30), <1>2, <1>6
  <2> HIDE DEF u
  <2>5. sockets'[t].peerDone => u # 0 /\ sockets'[u].noWrite
    BY ZenonT(30), <2>1, <2>2, <2>3, <2>4
  <2> QED
    BY ZenonT(30), <2>1, <2>2, <2>5
<1> QED
  BY ZenonT(30), <1>2, <1>5, <1>6, <1>7, <1>8

\* shutdown() and close(): close also takes the descriptor away.
LEMMA ShutStep ==
    ASSUME SockInv, NEW p \in Procs, NEW f \in Fds,
           (\E rd, wr \in BOOLEAN : Shutdown(p, f, rd, wr)) \/ Close(p, f)
    PROVE  SockInv'
<1>1. bound[p][f] # 0 /\ \E rd, wr \in BOOLEAN : sockets' = ShutDown(bound[p][f], rd, wr)
  BY ZenonT(30) DEF Shutdown, Close, Calls
<1>2. bound[p][f] \in Sids
  BY ZenonT(30), <1>1, Named
<1>3. /\ sockets' \in Seq(Sock) /\ Sids' = Sids /\ PeersPaired' /\ BytesPeers'
      /\ \A t \in Sids : sockets'[t].pending = sockets[t].pending
  BY ZenonT(30), <1>1, <1>2, ShutDownDoes
<1>4. bound' = bound \/ bound' = [bound EXCEPT ![p][f] = 0]
  BY ZenonT(30) DEF Shutdown, Close
<1>5. bound' \in [Procs -> [Fds -> Nat]] /\ \A q \in Procs, g \in Fds : bound'[q][g] \in {bound[q][g], 0}
  <2>1. bound \in [Procs -> [Fds -> Nat]]
    BY ZenonT(30), Slots
  <2>2. CASE bound' = bound
    BY ZenonT(30), <2>1, <2>2
  <2>3. CASE bound' = [bound EXCEPT ![p][f] = 0]
    BY ZenonT(30), <2>1, <2>3
  <2> QED
    BY ZenonT(30), <2>2, <2>3, <1>4
<1>6. HeldOnce'
  <2> SUFFICES ASSUME NEW q \in Procs, NEW g \in Fds, bound'[q][g] # 0
               PROVE  /\ bound'[q][g] \in Sids'
                      /\ \A r \in Procs, h \in Fds : bound'[q][g] = bound'[r][h] => q = r /\ g = h
    BY ZenonT(30) DEF HeldOnce
  <2>1. bound'[q][g] = bound[q][g]
    BY ZenonT(30), <1>5
  <2>2. \A r \in Procs, h \in Fds : bound'[r][h] # 0 => bound'[r][h] = bound[r][h]
    BY ZenonT(30), <1>5
  <2> QED
    BY SMTT(60), <2>1, <2>2, <1>3 DEF SockInv, HeldOnce
<1>7. QueuedOnce'
  BY SMTT(60), <1>3 DEF SockInv, QueuedOnce
<1>8. 0 \notin Sids
  BY ZenonT(30), Slots
<1>9. QueuedNotHeld'
  <2> SUFFICES ASSUME NEW l \in Sids, NEW i \in DOMAIN sockets[l].pending, NEW q \in Procs, NEW g \in Fds
               PROVE  bound'[q][g] # sockets[l].pending[i]
    BY SMTT(60), <1>3 DEF QueuedNotHeld
  <2>1. sockets[l].pending[i] \in Sids /\ bound[q][g] # sockets[l].pending[i]
    BY ZenonT(30) DEF SockInv, QueuedOnce, QueuedNotHeld
  <2>2. bound'[q][g] = bound[q][g] \/ bound'[q][g] = 0
    BY ZenonT(30), <1>5
  <2> QED
    BY ZenonT(30), <2>1, <2>2, <1>8
<1> QED
  BY ZenonT(30), <1>3, <1>5, <1>6, <1>7, <1>9 DEF SockInv, SockTypes

\* The empty table.
LEMMA SocketsInitially == SocketsInit => SockInv
<1> SUFFICES ASSUME SocketsInit
             PROVE  SockInv
  OBVIOUS
<1>1. sockets \in Seq(Sock) /\ Sids = {}
  BY DEF SocketsInit, Sids
<1>2. bound \in [Procs -> [Fds -> Nat]] /\ \A p \in Procs, f \in Fds : bound[p][f] = 0
  BY ZenonT(30) DEF SocketsInit
<1> QED
  BY ZenonT(30), <1>1, <1>2 DEF SockInv, SockTypes, PeersPaired, BytesPeers, QueuedOnce, HeldOnce, QueuedNotHeld

\* A step of the network or the timer leaves the loopback sockets alone.
LEMMA SocketsUntouched ==
    ASSUME SockInv, UNCHANGED sockVars
    PROVE  SockInv'
BY SMTT(60) DEF SockInv, SockTypes, Sock, Sids, PeersPaired, BytesPeers, QueuedOnce, HeldOnce, QueuedNotHeld, sockVars

\* The inductive invariant of the loopback sockets, for any number of
\* processes, descriptors, ports and sockets.
THEOREM SocketInvariant == SocketsSpec => []SockInv
<1>1. SocketsInit => SockInv
  BY ZenonT(30), SocketsInitially
<1>2. SockInv /\ [SocketsNext]_socketVars => SockInv'
  <2> SUFFICES ASSUME SockInv, [SocketsNext]_socketVars
               PROVE  SockInv'
    OBVIOUS
  <2>1. ASSUME NEW p \in Procs, Socket(p)
        PROVE  SockInv'
    BY ZenonT(30), <2>1, SocketStep
  <2>2. ASSUME NEW p \in Procs, NEW f \in Fds, NEW port \in Ports, Bind(p, f, port) \/ Connect(p, f, port)
        PROVE  SockInv'
    BY ZenonT(30), <2>2, SettingsStep, ConnectStep
  <2>3. ASSUME NEW p \in Procs, NEW f \in Fds, NEW b \in Backlogs, Listen(p, f, b)
        PROVE  SockInv'
    BY ZenonT(30), <2>3, SettingsStep
  <2>4. ASSUME NEW p \in Procs, NEW f \in Fds, Accept(p, f) \/ Send(p, f) \/ Recv(p, f) \/ Close(p, f)
        PROVE  SockInv'
    BY ZenonT(30), <2>4, AcceptStep, BytesStep, ShutStep
  <2>5. ASSUME NEW p \in Procs, NEW f \in Fds, NEW rd \in BOOLEAN, NEW wr \in BOOLEAN, Shutdown(p, f, rd, wr)
        PROVE  SockInv'
    BY ZenonT(30), <2>5, ShutStep
  <2>6. ASSUME NEW p \in Procs, NEW f \in Fds, ConnectRemote(p, f)
        PROVE  SockInv'
    BY ZenonT(30), <2>6, SocketsUntouched DEF ConnectRemote
  <2>7. CASE ConnectReturns
    BY ZenonT(30), <2>7, SocketsUntouched DEF ConnectReturns
  <2>8. ASSUME NEW c \in Conns, ConnDropped(c) \/ \E st \in {"Established", "CloseWait", "Closed"} : ConnMoves(c, st)
        PROVE  SockInv'
    BY ZenonT(30), <2>8, SocketsUntouched DEF ConnDropped, ConnMoves
  <2>9. CASE UNCHANGED socketVars
    BY ZenonT(30), <2>9, SocketsUntouched DEF socketVars
  <2> QED
    BY ZenonT(30), <2>1, <2>2, <2>3, <2>4, <2>5, <2>6, <2>7, <2>8, <2>9 DEF SocketsNext
<1> QED
  BY <1>1, <1>2, PTL DEF SocketsSpec

\* Loopback connections are pairs, and every end has one place (connect, accept,
\* send, shutdown_sid, close).
THEOREM ConnectionsArePairs == SocketsSpec => []SocketPairs
<1>1. SockInv => SocketPairs
  <2> SUFFICES ASSUME SockInv, NEW s \in Sids
               PROVE  LET t == sockets[s].peer IN
                      /\ t # 0 => sockets[t].peer = s /\ t # s
                      /\ Cardinality(Queued(s)) + Cardinality(Holders(s)) <= 1
                      /\ \A i \in DOMAIN sockets[s].buf : sockets[s].buf[i] = t
                      /\ sockets[s].peerDone => t # 0 /\ sockets[t].noWrite
    BY ZenonT(30) DEF SocketPairs
  <2>1. s # 0
    BY ZenonT(30), Slots
  <2>2. Cardinality(Queued(s)) + Cardinality(Holders(s)) <= 1
    <3>1. CASE Queued(s) = {} /\ Holders(s) = {}
      BY <3>1, FS_EmptySet
    <3>2. ASSUME NEW l \in Queued(s)
          PROVE  Queued(s) = {l} /\ Holders(s) = {}
      BY SMTT(60), <3>2 DEF Queued, Holders, SockInv, QueuedOnce, QueuedNotHeld
    <3>3. ASSUME NEW h \in Holders(s)
          PROVE  Holders(s) = {h} /\ Queued(s) = {}
      <4>1. h \in Procs \X Fds /\ bound[h[1]][h[2]] = s
        BY ZenonT(30), <3>3 DEF Holders
      <4>2. ASSUME NEW k \in Holders(s)
            PROVE  k = h
        <5>1. k \in Procs \X Fds /\ bound[k[1]][k[2]] = s
          BY ZenonT(30), <4>2 DEF Holders
        <5>2. k[1] = h[1] /\ k[2] = h[2]
          BY SMTT(60), <4>1, <5>1, <2>1 DEF SockInv, HeldOnce
        <5> QED
          BY SMTT(60), <4>1, <5>1, <5>2
      <4>3. Queued(s) = {}
        BY ZenonT(30), <3>2, <3>3
      <4> QED
        BY ZenonT(30), <3>3, <4>2, <4>3
    <3>4. \A x : Cardinality({x}) = 1
      BY ZenonT(30), FS_Singleton
    <3>7. Cardinality({}) = 0
      BY ZenonT(30), FS_EmptySet
    <3>5. CASE \E l : l \in Queued(s)
      <4>1. PICK l : Queued(s) = {l} /\ Holders(s) = {}
        BY ZenonT(30), <3>2, <3>5
      <4>2. Cardinality(Queued(s)) = 1 /\ Cardinality(Holders(s)) = 0
        BY ZenonT(30), <4>1, <3>4, <3>7
      <4> QED
        BY <4>2
    <3>6. CASE \E h : h \in Holders(s)
      <4>1. PICK h : Holders(s) = {h} /\ Queued(s) = {}
        BY ZenonT(30), <3>3, <3>6
      <4>2. Cardinality(Queued(s)) = 0 /\ Cardinality(Holders(s)) = 1
        BY ZenonT(30), <4>1, <3>4, <3>7
      <4> QED
        BY <4>2
    <3> QED
      BY ZenonT(30), <3>1, <3>5, <3>6
  <2> QED
    BY ZenonT(30), <2>2 DEF SockInv, PeersPaired, BytesPeers
<1> QED
  BY <1>1, SocketInvariant, PTL

===============================================================================
