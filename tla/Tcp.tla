--------------------------------- MODULE Tcp ----------------------------------
(***************************************************************************)
(* One connection of the TCP client (kernel/src/net/tcp.rs), against a     *)
(* peer that follows RFC 793, over a network that loses, repeats and       *)
(* reorders segments.                                                      *)
(*                                                                         *)
(* The n-th byte of a stream is n.  Every segment ever sent may arrive at  *)
(* any later time, any number of times or never: towards the peer they     *)
(* are kept in out; towards this host they are what the peer may have sent *)
(* so far.  Sequence numbers wrap at SeqSpace (2^32 in the code).          *)
(***************************************************************************)
EXTENDS Integers, Sequences, FiniteSets, SequencesExt

CONSTANTS
    SeqSpace,       \* size of the sequence space, even
    Iss, Irs,       \* the two initial sequence numbers
    Mss,            \* bytes per segment
    RecvLimit,      \* RECV_BUF_LIMIT
    MaxRetransmits, \* MAX_RETRANSMITS
    MaxSend,        \* bound on the bytes of one send
    MaxOut, MaxIn,  \* bounds on the bytes of each stream
    Nil             \* an empty slot of the table

VARIABLES
    conn,       \* Table::conns[id]
    opened,     \* connect was called
    out,        \* segments transmitted
    read,       \* bytes the program has received
    peer        \* the other end

tcpVars == <<conn, opened, out, read, peer>>

Add(a, n) == (a + n) % SeqSpace
\* seq_lt, seq_le: the difference as a signed number.
SeqLt(a, b) == (a - b + SeqSpace) % SeqSpace >= SeqSpace \div 2
SeqLe(a, b) == a = b \/ SeqLt(a, b)

Numbers(from, n) == [i \in 1 .. n |-> from + i - 1]
States == {"SynSent", "Established", "FinWait1", "FinWait2", "CloseWait", "LastAck", "TimeWait", "Closed"}

TcpTypeOK ==
    /\ conn # Nil =>
        /\ conn.state \in States
        /\ {conn.una, conn.nxt, conn.rcv} \subseteq 0 .. SeqSpace - 1
        /\ Len(conn.buf) <= RecvLimit
        /\ \A i \in DOMAIN conn.pending : conn.pending[i].retries \in 0 .. MaxRetransmits
    /\ peer.state \in {"listen", "synrcvd", "open"}
    /\ peer.wrote \in 0 .. MaxIn

TcpInit ==
    /\ conn = Nil
    /\ opened = FALSE
    /\ out = {}
    /\ read = <<>>
    /\ peer = [state |-> "listen", rcv |-> Iss, got |-> <<>>, finGot |-> FALSE,
               wrote |-> 0, fin |-> FALSE, rst |-> FALSE]

-------------------------------------------------------------------------------
(* The calls of a program *)

Segment(seq, flags, data) == [seq |-> seq, flags |-> flags, data |-> data]
Pending(seq, flags, data) == [seq |-> seq, flags |-> flags, data |-> data, retries |-> 0]
\* seq_len
SeqLen(p) == Len(p.data) + (IF p.flags \cap {"SYN", "FIN"} # {} THEN 1 ELSE 0)
Sent(p) == Segment(p.seq, p.flags, p.data)

Connect ==
    LET syn == Pending(Iss, {"SYN"}, <<>>) IN
    /\ ~opened
    /\ opened' = TRUE
    /\ conn' = [state |-> "SynSent", una |-> Iss, nxt |-> Add(Iss, 1), rcv |-> 0,
                pending |-> <<syn>>, buf |-> <<>>]
    /\ out' = out \cup {Sent(syn)}
    /\ UNCHANGED <<read, peer>>

\* The bytes the program has handed to send.
Handed == (conn.nxt - Iss - 1 + SeqSpace) % SeqSpace

\* send: chunks of Mss bytes; the peer's window is not consulted.
Send(n) ==
    LET chunk(k) == LET at == Handed + k * Mss IN
                    Pending(Add(conn.nxt, k * Mss), {"PSH", "ACK"},
                            Numbers(at, IF (k + 1) * Mss <= n THEN Mss ELSE n - k * Mss))
        new == [k \in 1 .. (n + Mss - 1) \div Mss |-> chunk(k - 1)]
    IN
    /\ conn # Nil
    /\ conn.state = "Established"
    /\ Handed + n <= MaxOut
    /\ conn' = [conn EXCEPT !.pending = @ \o new, !.nxt = Add(@, n)]
    /\ out' = out \cup {Sent(new[k]) : k \in DOMAIN new}
    /\ UNCHANGED <<opened, read, peer>>

\* close; from any other state it reports an error and does nothing.
Close ==
    LET fin == Pending(conn.nxt, {"FIN", "ACK"}, <<>>) IN
    /\ conn # Nil
    /\ conn.state \in {"Established", "CloseWait"}
    /\ conn' = [conn EXCEPT !.pending = Append(@, fin), !.nxt = Add(@, 1),
                            !.state = IF @ = "Established" THEN "FinWait1" ELSE "LastAck"]
    /\ out' = out \cup {Sent(fin)}
    /\ UNCHANGED <<opened, read, peer>>

\* read of up to n bytes.
Read(n) ==
    LET k == IF n < Len(conn.buf) THEN n ELSE Len(conn.buf) IN
    /\ conn # Nil
    /\ conn.buf # <<>>
    /\ read' = read \o SubSeq(conn.buf, 1, k)
    /\ conn' = [conn EXCEPT !.buf = SubSeq(@, k + 1, Len(@))]
    /\ UNCHANGED <<opened, out, peer>>

-------------------------------------------------------------------------------
(* handle_segment: the segment s = [seq, ack, flags, data] arrives *)

\* Every reply this host makes is an ACK with its current numbers.
AckFor(c) == {Segment(c.nxt, {"ACK"}, <<>>)}

HandshakeStep(c, s) ==
    IF ~({"SYN", "ACK"} \subseteq s.flags) THEN [c |-> c, tx |-> {}]
    ELSE IF s.ack # Add(Iss, 1) THEN [c |-> c, tx |-> {Segment(s.ack, {"RST", "ACK"}, <<>>)}]
    ELSE LET e == [c EXCEPT !.rcv = Add(s.seq, 1), !.una = s.ack, !.state = "Established",
                            !.pending = SelectSeq(@, LAMBDA p : "SYN" \notin p.flags)]
         IN [c |-> e, tx |-> AckFor(e)]

\* A mutant: an acknowledgement inside a segment drops the segment.
MutAckPartial(c, s) ==
    LET left == SelectSeq(c.pending, LAMBDA p : SeqLt(s.ack, p.seq)) IN
    IF "ACK" \in s.flags /\ SeqLt(c.una, s.ack) /\ SeqLe(s.ack, c.nxt)
    THEN [c EXCEPT !.una = s.ack, !.pending = left,
                   !.state = IF @ = "FinWait1" /\ \A i \in DOMAIN left : "FIN" \notin left[i].flags
                             THEN "FinWait2" ELSE @]
    ELSE c

\* The ACK field: what it covers leaves the retransmission queue.
Acknowledge(c, s) ==
    LET left == SelectSeq(c.pending, LAMBDA p : SeqLt(s.ack, Add(p.seq, SeqLen(p)))) IN
    IF "ACK" \in s.flags /\ SeqLt(c.una, s.ack) /\ SeqLe(s.ack, c.nxt)
    THEN [c EXCEPT !.una = s.ack, !.pending = left,
                   !.state = IF @ = "FinWait1" /\ \A i \in DOMAIN left : "FIN" \notin left[i].flags
                             THEN "FinWait2" ELSE @]
    ELSE c

\* The payload, in order only and as far as it fits.
Taken(c, s) ==
    IF s.data = <<>> \/ s.seq # c.rcv THEN 0
    ELSE LET room == RecvLimit - Len(c.buf) IN IF Len(s.data) < room THEN Len(s.data) ELSE room

DataStep(c, s) ==
    LET a == Acknowledge(c, s)
        n == Taken(a, s)
        d == [a EXCEPT !.buf = @ \o SubSeq(s.data, 1, n), !.rcv = Add(@, n)]
        ends == "FIN" \in s.flags /\ Add(s.seq, Len(s.data)) = d.rcv
        f == IF ~ends THEN d
             ELSE [d EXCEPT !.rcv = Add(@, 1),
                            !.state = IF @ = "Established" THEN "CloseWait"
                                      ELSE IF @ = "CloseWait" THEN @ ELSE "TimeWait"]
    IN [c |-> f, tx |-> IF n > 0 \/ ends \/ "SYN" \in s.flags THEN AckFor(f) ELSE {}]

ProcessSegment(c, s) ==
    IF "RST" \in s.flags THEN [c |-> [c EXCEPT !.state = "Closed"], tx |-> {}]
    ELSE IF c.state = "SynSent" THEN HandshakeStep(c, s)
    ELSE IF c.state \in {"Established", "FinWait1", "FinWait2", "CloseWait"} THEN DataStep(c, s)
    ELSE IF c.state = "LastAck" /\ "ACK" \in s.flags /\ s.ack = c.nxt
    THEN [c |-> [c EXCEPT !.state = "Closed"], tx |-> {}]
    ELSE [c |-> c, tx |-> {}]

\* A segment for no connection is dropped.
HandleSegment(s) ==
    LET r == ProcessSegment(conn, s) IN
    /\ conn # Nil
    /\ conn' = r.c
    /\ out' = out \cup r.tx
    /\ UNCHANGED <<opened, read, peer>>

-------------------------------------------------------------------------------
(* tick *)

\* A mutant: the connection is never given up.
MutGiveUpLate(due) ==
    LET p == conn.pending
        resent == {i \in due : p[i].retries < MaxRetransmits}
    IN [conn EXCEPT !.pending = [i \in DOMAIN p |-> IF i \in resent THEN [p[i] EXCEPT !.retries = @ + 1] ELSE p[i]]]

\* The segments of due have waited for their timeout: each is sent again with
\* the ACK bit set, or the connection is given up.
Retransmitted(due) ==
    LET p == conn.pending
        resent == {i \in due : p[i].retries < MaxRetransmits}
    IN [conn EXCEPT !.pending = [i \in DOMAIN p |-> IF i \in resent THEN [p[i] EXCEPT !.retries = @ + 1] ELSE p[i]],
                    !.state = IF due # resent THEN "Closed" ELSE @]

Tick(due) ==
    /\ conn # Nil
    /\ conn.state # "Closed"
    /\ due # {}
    /\ conn' = Retransmitted(due)
    /\ out' = out \cup {Segment(conn.pending[i].seq, conn.pending[i].flags \cup {"ACK"}, conn.pending[i].data) :
                          i \in {j \in due : conn.pending[j].retries < MaxRetransmits}}
    /\ UNCHANGED <<opened, read, peer>>

\* A closed connection leaves the table, with what its program has not read.
TickDrop ==
    /\ conn # Nil
    /\ conn.state = "Closed"
    /\ conn' = Nil
    /\ UNCHANGED <<opened, out, read, peer>>

-------------------------------------------------------------------------------
(* The peer *)

PeerKeeps == UNCHANGED <<conn, opened, out, read>>

\* A listening peer answers SYN, and resets what carries an ACK.
PeerSyn ==
    /\ peer.state = "listen"
    /\ Segment(Iss, {"SYN"}, <<>>) \in out
    /\ peer' = [peer EXCEPT !.state = "synrcvd", !.rcv = Add(Iss, 1)]
    /\ PeerKeeps

PeerRefuses ==
    /\ peer.state = "listen"
    /\ \E s \in out : "ACK" \in s.flags /\ "RST" \notin s.flags
    /\ peer' = [peer EXCEPT !.rst = TRUE]
    /\ PeerKeeps

PeerOpens ==
    /\ peer.state = "synrcvd"
    /\ Segment(Add(Iss, 1), {"ACK"}, <<>>) \in out
    /\ peer' = [peer EXCEPT !.state = "open"]
    /\ PeerKeeps

PeerAborts ==
    /\ out # {}
    /\ peer' = [peer EXCEPT !.rst = TRUE]
    /\ PeerKeeps

\* The next segment in sequence.
PeerTakes(s) ==
    /\ peer.state = "open"
    /\ s.seq = peer.rcv
    /\ "RST" \notin s.flags
    /\ s.data # <<>> \/ "FIN" \in s.flags
    /\ peer' = [peer EXCEPT !.rcv = Add(@, SeqLen(s)), !.got = @ \o s.data,
                            !.finGot = @ \/ "FIN" \in s.flags]
    /\ PeerKeeps

PeerWrites ==
    /\ peer.state = "open" /\ ~peer.fin
    /\ peer.wrote < MaxIn
    /\ peer' = [peer EXCEPT !.wrote = @ + 1]
    /\ PeerKeeps

PeerCloses ==
    /\ peer.state = "open" /\ ~peer.fin
    /\ peer' = [peer EXCEPT !.fin = TRUE]
    /\ PeerKeeps

\* The values the peer's ACK field has had.
Acked == {Add(Iss, 1 + n) : n \in 0 .. Len(peer.got) + (IF peer.finGot THEN 1 ELSE 0)}

\* What the peer may have sent so far, and a SYN|ACK of an older connection.
FromPeer ==
    LET to(f, a, b) == {[seq |-> Add(Irs, 1 + a), ack |-> k, flags |-> f, data |-> Numbers(a, b - a)] : k \in Acked} IN
    {[seq |-> Irs, ack |-> Iss, flags |-> {"SYN", "ACK"}, data |-> <<>>]}
    \cup (IF peer.state = "listen" THEN {}
          ELSE {[seq |-> Irs, ack |-> Add(Iss, 1), flags |-> {"SYN", "ACK"}, data |-> <<>>]})
    \cup (IF peer.rst THEN {[seq |-> Irs, ack |-> 0, flags |-> {"RST"}, data |-> <<>>]} ELSE {})
    \cup (IF peer.state # "open" THEN {}
          ELSE UNION {to({"ACK"}, a, b) : a \in 0 .. peer.wrote, b \in 0 .. peer.wrote})
    \cup (IF ~peer.fin THEN {} ELSE UNION {to({"FIN", "ACK"}, a, peer.wrote) : a \in 0 .. peer.wrote})

TcpNext ==
    \/ Connect
    \/ Close
    \/ \E n \in 1 .. MaxSend : Send(n) \/ Read(n)
    \/ \E s \in FromPeer : HandleSegment(s)
    \/ conn # Nil /\ \E due \in SUBSET DOMAIN conn.pending : Tick(due)
    \/ TickDrop
    \/ PeerSyn \/ PeerRefuses \/ PeerOpens \/ PeerAborts \/ PeerWrites \/ PeerCloses
    \/ \E s \in out : PeerTakes(s)

TcpSpec == TcpInit /\ [][TcpNext]_tcpVars

\* The timer interrupt keeps coming (while idle gets the CPU), so the oldest
\* segment's timeout passes.
Times == conn # Nil /\ \E due \in SUBSET DOMAIN conn.pending : 1 \in due /\ Tick(due)
TcpFair == WF_tcpVars(Times) /\ WF_tcpVars(TickDrop)

-------------------------------------------------------------------------------
(* Properties *)

Received == read \o conn.buf
PeerEnded == conn.state \in {"CloseWait", "LastAck", "TimeWait"}

\* What the program reads is the peer's stream (process_segment): each byte
\* once and in order whatever the network repeats, delays or reorders; what has
\* been acknowledged is in the buffer or was read; and the end of the stream is
\* reported only when all of it has been taken, a full buffer included.
RecvStream ==
    conn # Nil /\ conn.state \notin {"SynSent", "Closed"} =>
        /\ Received = Numbers(0, Len(Received))
        /\ Len(Received) <= peer.wrote
        /\ conn.rcv = Add(Irs, 1 + Len(Received) + (IF PeerEnded THEN 1 ELSE 0))
        /\ PeerEnded => peer.fin /\ Len(Received) = peer.wrote

\* What the peer receives is the program's stream, and nothing of it is
\* forgotten (send, the ACK field, tick): until the connection is over, every
\* sequence number the peer has not seen is in a segment that will be sent
\* again, and the connection counts as acknowledged only what arrived.
SendStream ==
    /\ peer.got = Numbers(0, Len(peer.got))
    /\ conn # Nil /\ conn.state # "Closed" =>
        /\ peer.state # "listen" => SeqLe(conn.una, peer.rcv) /\ SeqLe(peer.rcv, conn.nxt)
        /\ LET ahead == (conn.nxt - peer.rcv + SeqSpace) % SeqSpace IN
           \A k \in 0 .. ahead - 1 : \E i \in DOMAIN conn.pending :
              LET p == conn.pending[i] IN
              (peer.rcv + k - p.seq + SeqSpace) % SeqSpace < SeqLen(p)

\* A handshake, and a close waiting for its FIN to be acknowledged, come to an
\* end even if the peer never answers (tick gives up after MAX_RETRANSMITS).
AttemptsEnd ==
    \A st \in {"SynSent", "FinWait1", "LastAck"} :
        (conn # Nil /\ conn.state = st) ~> (conn = Nil \/ conn.state # st)

\* What the comment on tick says: a connection in TimeWait is cleaned up.  One
\* whose FIN was acknowledged has nothing to retransmit and stays for ever.
TimeWaitReaped == (conn # Nil /\ conn.state = "TimeWait") ~> conn = Nil

===============================================================================
