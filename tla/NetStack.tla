------------------------------- MODULE NetStack --------------------------------
(***************************************************************************)
(* The part of the network stack above Ethernet and below TCP              *)
(* (kernel/src/net/stack.rs, arp.rs and dns.rs): the ARP cache, the boot   *)
(* sequence that resolves a name and fetches a page, and the resolver and  *)
(* the echo of the system calls.                                           *)
(*                                                                         *)
(* The address of a host is the host, the address of a name is the name.   *)
(* Identifier and source port of a query both come from the tick counter,  *)
(* which stands still while a program runs: a query is known by the tick   *)
(* at which it was made, the query of the boot sequence by BootId.  The    *)
(* name server answers every query it gets once; what it is sent and what  *)
(* it sends may be lost or late but is not repeated.                       *)
(***************************************************************************)
EXTENDS Integers, Sequences, FiniteSets

CONSTANTS
    Gateway, Dns,   \* the two hosts the stack talks to
    Others,         \* other hosts of the subnet
    Macs,           \* hardware addresses
    CacheSize,      \* CACHE_SIZE
    Names,          \* names programs resolve
    BootName,       \* DEMO_HOSTNAME
    RetryAfter,     \* ticks after which resolve repeats its query (1000)
    GiveUpAfter,    \* ticks after which it gives up (3000)
    MaxTick,        \* bound on the tick counter
    MaxEcho,        \* bound on the echo replies counted
    MaxWire,        \* bound on the queries and replies on their way
    None, Refused   \* no value; a reply without an address

Hosts == {Gateway, Dns} \cup Others
BootId == 0

\* What is known of a hardware address, of a resolve and of an echo.
Entry == [ip : Hosts, mac : Macs]
Pending == [id : Nat, done : BOOLEAN, failed : BOOLEAN, ip : Names \cup {BootName, Refused, None}]
Call == [op : {"resolve"}, name : Names, since : Nat, copies : {1, 2}] \cup [op : {"ping"}, before : Nat]
Answer == [name : Names, ip : Names \cup {BootName, Refused, None}]

ASSUME NetAssumption ==
    /\ CacheSize \in Nat \ {0}
    /\ RetryAfter \in Nat /\ GiveUpAfter \in Nat /\ MaxTick \in Nat
    /\ None \notin Entry \cup Pending \cup Call \cup Answer

VARIABLES
    cache,      \* ArpCache::entries: [ip, mac] or None
    slot,       \* ArpCache::next_slot
    latest,     \* the last hardware address each host has announced, or None
    stage,      \* DemoStage
    http,       \* http_conn: opened, or not
    query,      \* query_pending
    call,       \* the system call polling the network, or None
    answer,     \* what the last resolve returned: [name, ip], or None
    echoes,     \* icmp_echo_replies
    tick,       \* the tick counter
    wire        \* queries and replies on their way

arpVars == <<cache, slot, latest>>
bootVars == <<stage, http>>
netVars == <<arpVars, bootVars, query, call, answer, echoes, tick, wire>>

Query(id, name, copy) == [kind |-> "query", id |-> id, name |-> name, copy |-> copy]
Reply(m, ip) == [kind |-> "reply", id |-> m.id, ip |-> ip, copy |-> m.copy]

Message ==
    [kind : {"query"}, id : Nat, name : Names \cup {BootName}, copy : {1, 2}]
        \cup [kind : {"reply"}, id : Nat, ip : Names \cup {BootName, Refused}, copy : {1, 2}]

\* start_demo has sent its ARP request.
NetInit ==
    /\ cache = [i \in 1 .. CacheSize |-> None]
    /\ slot = 1
    /\ latest = [h \in Hosts |-> None]
    /\ stage = "AwaitGatewayArp"
    /\ http = FALSE
    /\ query = None
    /\ call = None
    /\ answer = None
    /\ echoes = 0
    /\ tick = 1
    /\ wire = {}

-------------------------------------------------------------------------------
(* The ARP cache *)

Holding(ip) == {i \in DOMAIN cache : cache[i] # None /\ cache[i].ip = ip}
Cached(ip) == Holding(ip) # {}

MutArpInsert(ip, mac) ==
    /\ cache' = [cache EXCEPT ![slot] = [ip |-> ip, mac |-> mac]]
    /\ slot' = (slot % CacheSize) + 1

\* insert: the entry of the same address, or the next slot in turn.
ArpInsert(ip, mac) ==
    IF Cached(ip)
    THEN /\ cache' = [i \in DOMAIN cache |-> IF i = CHOOSE k \in Holding(ip) : \A l \in Holding(ip) : k <= l
                                             THEN [ip |-> ip, mac |-> mac] ELSE cache[i]]
         /\ UNCHANGED slot
    ELSE /\ cache' = [cache EXCEPT ![slot] = [ip |-> ip, mac |-> mac]]
         /\ slot' = (slot % CacheSize) + 1

\* lookup: the first entry of the address.
ArpLookup(ip) ==
    IF ~Cached(ip) THEN None
    ELSE cache[CHOOSE k \in Holding(ip) : \A l \in Holding(ip) : k <= l].mac

-------------------------------------------------------------------------------
(* Frames: poll calls the handler of one frame *)

\* handle_arp: any ARP packet is learned from, and moves the boot sequence on;
\* a request for this host is answered.  The echo request for the gateway, and
\* the ARP request for the name server, change nothing here.
HandleArp(ip, mac) ==
    /\ latest' = [latest EXCEPT ![ip] = mac]
    /\ ArpInsert(ip, mac)
    /\ stage' = IF stage = "AwaitGatewayArp" /\ ip = Gateway THEN "AwaitIcmpReply"
                ELSE IF stage = "AwaitDnsArp" /\ ip = Dns THEN "AwaitDnsReply" ELSE stage
    /\ wire' = IF stage = "AwaitDnsArp" /\ ip = Dns THEN wire \cup {Query(BootId, BootName, 1)} ELSE wire
    /\ UNCHANGED <<http, query, call, answer, echoes, tick>>

\* handle_icmp of an echo reply, whoever it answers.
HandleEcho ==
    /\ stage # "AwaitGatewayArp"
    /\ echoes < MaxEcho
    /\ echoes' = echoes + 1
    /\ stage' = IF stage = "AwaitIcmpReply" THEN "AwaitDnsArp" ELSE stage
    /\ UNCHANGED <<arpVars, http, query, call, answer, tick, wire>>

MutForProgram(m) == query # None /\ m.id # BootId

\* The reply is for query_pending: same port and same identifier.
ForProgram(m) == query # None /\ m.id = query.id

\* handle_udp of a reply from the name server.  The address the boot sequence
\* gets leads to connect, if the gateway is still in the cache and there is a
\* free connection (ok).
HandleUdp(m, ok) ==
    /\ m \in wire /\ m.kind = "reply"
    /\ wire' = wire \ {m}
    /\ IF ForProgram(m)
       THEN /\ query' = [query EXCEPT !.done = TRUE, !.failed = m.ip = Refused, !.ip = m.ip]
            /\ UNCHANGED bootVars
       ELSE /\ UNCHANGED query
            /\ IF stage = "AwaitDnsReply" /\ m.id = BootId /\ m.ip # Refused
               THEN LET connects == ok /\ ArpLookup(Gateway) # None
                    IN /\ http' = connects
                       /\ stage' = IF connects THEN "AwaitTcpEstablished" ELSE "Done"
               ELSE UNCHANGED bootVars
    /\ UNCHANGED <<arpVars, call, answer, echoes, tick>>

\* on_tcp_established, on_tcp_data and on_tcp_closed of the boot connection:
\* the request is sent (or fails), the response read and the connection closed.
OnTcpEstablished(ok) ==
    /\ http /\ stage = "AwaitTcpEstablished"
    /\ stage' = IF ok THEN "AwaitHttpResponse" ELSE "Done"
    /\ UNCHANGED <<arpVars, http, query, call, answer, echoes, tick, wire>>

OnTcpData ==
    /\ http /\ stage = "AwaitHttpResponse"
    /\ stage' = "Done"
    /\ UNCHANGED <<arpVars, http, query, call, answer, echoes, tick, wire>>

OnTcpClosed ==
    /\ http
    /\ http' = FALSE
    /\ UNCHANGED <<arpVars, stage, query, call, answer, echoes, tick, wire>>

-------------------------------------------------------------------------------
(* The system calls: each polls until it has what it waits for *)

\* resolve fails at once while the name server is not in the cache.
Resolve(name) ==
    /\ call = None
    /\ ArpLookup(Dns) # None
    /\ Cardinality(wire) < MaxWire
    /\ query' = [id |-> tick, done |-> FALSE, failed |-> FALSE, ip |-> None]
    /\ call' = [op |-> "resolve", name |-> name, since |-> tick, copies |-> 1]
    /\ wire' = wire \cup {Query(tick, name, 1)}
    /\ UNCHANGED <<arpVars, bootVars, answer, echoes, tick>>

Resolving == call # None /\ call.op = "resolve"

ResolveRepeats ==
    /\ Resolving
    /\ ~query.done
    /\ call.copies = 1 /\ tick - call.since > RetryAfter
    /\ Cardinality(wire) < MaxWire
    /\ call' = [call EXCEPT !.copies = 2]
    /\ wire' = wire \cup {Query(query.id, call.name, 2)}
    /\ UNCHANGED <<arpVars, bootVars, query, answer, echoes, tick>>

\* The end of the loop; only a resolve that fails clears query_pending.
ResolveReturns ==
    LET ip == IF query.done /\ ~query.failed THEN query.ip ELSE None IN
    /\ Resolving
    /\ query.done \/ tick - call.since > GiveUpAfter
    /\ answer' = [name |-> call.name, ip |-> ip]
    /\ query' = IF ip = None THEN None ELSE query
    /\ call' = None
    /\ UNCHANGED <<arpVars, bootVars, echoes, tick, wire>>

\* ping_once: any echo reply that is counted ends it.
Ping(h) ==
    /\ call = None
    /\ ArpLookup(h) # None
    /\ call' = [op |-> "ping", before |-> echoes]
    /\ UNCHANGED <<arpVars, bootVars, query, answer, echoes, tick, wire>>

PingReturns ==
    /\ call # None /\ call.op = "ping"
    /\ call' = None
    /\ UNCHANGED <<arpVars, bootVars, query, answer, echoes, tick, wire>>

-------------------------------------------------------------------------------
(* Time, the name server and the network *)

Tick ==
    /\ tick < MaxTick
    /\ tick' = tick + 1
    /\ UNCHANGED <<arpVars, bootVars, query, call, answer, echoes, wire>>

ServerAnswers(m, refuses) ==
    /\ m \in wire /\ m.kind = "query"
    /\ wire' = (wire \ {m}) \cup {Reply(m, IF refuses THEN Refused ELSE m.name)}
    /\ UNCHANGED <<arpVars, bootVars, query, call, answer, echoes, tick>>

Lost(m) ==
    /\ m \in wire
    /\ wire' = wire \ {m}
    /\ UNCHANGED <<arpVars, bootVars, query, call, answer, echoes, tick>>

NetNext ==
    \/ \E ip \in Hosts, mac \in Macs : HandleArp(ip, mac)
    \/ HandleEcho
    \/ \E ok \in BOOLEAN : OnTcpEstablished(ok)
    \/ OnTcpData \/ OnTcpClosed
    \/ \E name \in Names : Resolve(name)
    \/ ResolveRepeats \/ ResolveReturns
    \/ \E h \in Hosts : Ping(h)
    \/ PingReturns
    \/ Tick
    \/ \E m \in wire : \/ Lost(m)
                       \/ \E b \in BOOLEAN : HandleUdp(m, b) \/ ServerAnswers(m, b)

NetSpec == NetInit /\ [][NetNext]_netVars

-------------------------------------------------------------------------------
(* Properties *)

Stages == {"AwaitGatewayArp", "AwaitIcmpReply", "AwaitDnsArp", "AwaitDnsReply",
           "AwaitTcpEstablished", "AwaitHttpResponse", "Done"}

NetTypeOK ==
    /\ cache \in [1 .. CacheSize -> Entry \cup {None}]
    /\ slot \in 1 .. CacheSize
    /\ latest \in [Hosts -> Macs \cup {None}]
    /\ stage \in Stages /\ http \in BOOLEAN
    /\ query \in Pending \cup {None}
    /\ call \in Call \cup {None}
    /\ answer \in Answer \cup {None}
    /\ echoes \in Nat /\ tick \in Nat \ {0}
    /\ wire \subseteq Message

\* A frame goes to the address its host announced last (ArpCache::insert and
\* lookup), and never, because another host took the slot, to that other host.
ArpLatest == \A h \in Hosts : ArpLookup(h) \in {None, latest[h]}

\* resolve returns the address of the name it was asked for or none, although
\* query_pending stays set after a call, late replies to earlier queries and to
\* the boot query arrive meanwhile, and a call made within one tick of another
\* uses the same identifier and port.
AnswerIsMine == answer # None => answer.ip \in {None, answer.name}

===============================================================================
