-------------------------------- MODULE Sockets --------------------------------
(***************************************************************************)
(* Descriptors, loopback sockets and the bindings of descriptors to TCP    *)
(* connections (kernel/src/net/mod.rs and the socket calls of              *)
(* kernel/src/syscall/handlers.rs).                                        *)
(*                                                                         *)
(* A byte is named by the socket whose owner sent it.  Of a TCP connection *)
(* only its slot, its owner and whether it is open matter here; module Tcp *)
(* has the rest.  A call is one step, except that connect to another host  *)
(* polls the network while nobody else runs.                               *)
(***************************************************************************)
EXTENDS Integers, Sequences, FiniteSets, FiniteSetsExt

CONSTANTS
    Procs, Fds,     \* processes, descriptors of each
    Ports,          \* ports bind and connect name
    Backlogs,       \* arguments of listen
    MaxSockets,     \* bound on the sockets ever made
    MaxBuf,         \* bound on the bytes waiting at a socket
    MaxConns        \* MAX_CONNS

ASSUME SocketAssumption ==
    /\ Fds \subseteq Nat /\ Ports \subseteq Nat /\ Backlogs \subseteq Nat

VARIABLES
    sockets,    \* NetState::sockets; no slot is ever emptied
    bound,      \* bound[p][f]: the socket of the FdBinding, or 0
    tcp,        \* tcp[p][f]: the connection of the TcpFdBinding, or 0
    conns,      \* conns[c]: the state and the opener of the slot, or NoConn
    waiting     \* the call polling in sys_connect, or Nobody

sockVars == <<sockets, bound>>
socketVars == <<sockVars, tcp, conns, waiting>>

NoConn == [state |-> "None", by |-> <<>>]
Nobody == <<>>
Sids == DOMAIN sockets
Conns == 1 .. MaxConns

NewSocket == [port |-> 0, peer |-> 0, listening |-> FALSE, backlog |-> 0, pending |-> <<>>,
              buf |-> <<>>, noRead |-> FALSE, noWrite |-> FALSE, peerDone |-> FALSE]

SocketsTypeOK ==
    /\ \A s \in Sids : sockets[s].port \in Ports \cup {0, -1} /\ sockets[s].peer \in Sids \cup {0}
    /\ bound \in [Procs -> [Fds -> Sids \cup {0}]]
    /\ tcp \in [Procs -> [Fds -> Conns \cup {0}]]
    /\ \A c \in Conns : conns[c].state \in {"None", "SynSent", "Established", "CloseWait", "Closing", "Closed"}

SocketsInit ==
    /\ sockets = <<>>
    /\ bound = [p \in Procs |-> [f \in Fds |-> 0]]
    /\ tcp = [p \in Procs |-> [f \in Fds |-> 0]]
    /\ conns = [c \in Conns |-> NoConn]
    /\ waiting = Nobody

-------------------------------------------------------------------------------
(* Loopback sockets *)

Free(p) == {f \in Fds : bound[p][f] = 0}
\* alloc_fd_for_socket: the lowest free descriptor, or the socket is left
\* without one.
WithFd(p, s) == IF Free(p) = {} THEN bound ELSE [bound EXCEPT ![p][Min(Free(p))] = s]

\* A call of p on the loopback socket of f.
Calls(p, f) == waiting = Nobody /\ bound[p][f] # 0 /\ UNCHANGED <<tcp, conns, waiting>>

Socket(p) ==
    /\ waiting = Nobody
    /\ Len(sockets) < MaxSockets
    /\ sockets' = Append(sockets, NewSocket)
    /\ bound' = WithFd(p, Len(sockets) + 1)
    /\ UNCHANGED <<tcp, conns, waiting>>

Listening(port) == {s \in Sids : sockets[s].listening /\ sockets[s].port = port}

\* Only a listening socket makes a port busy (is_port_in_use).
Bind(p, f, port) ==
    /\ Calls(p, f)
    /\ Listening(port) = {}
    /\ sockets' = [sockets EXCEPT ![bound[p][f]].port = port]
    /\ UNCHANGED bound

Listen(p, f, backlog) ==
    /\ Calls(p, f)
    /\ sockets[bound[p][f]].port # 0
    /\ sockets' = [sockets EXCEPT ![bound[p][f]].listening = TRUE,
                                  ![bound[p][f]].backlog = Max({backlog, 1})]
    /\ UNCHANGED bound

MutLinkOneWay(c, l, s) ==
    [sockets EXCEPT ![c].peer = s, ![c].port = IF @ = 0 THEN -1 ELSE @,
                    ![l].pending = IF Len(@) >= sockets[l].backlog THEN @ ELSE Append(@, s)]
    \o <<[NewSocket EXCEPT !.port = sockets[l].port, !.peer = IF sockets[c].port = 0 THEN c ELSE l]>>

\* connect: an ephemeral port (-1) for the client, a new socket at the other
\* end, the two linked, and only then the test of the backlog.
Linked(c, l, s) ==
    [sockets EXCEPT ![c].peer = s, ![c].port = IF @ = 0 THEN -1 ELSE @,
                    ![l].pending = IF Len(@) >= sockets[l].backlog THEN @ ELSE Append(@, s)]
    \o <<[NewSocket EXCEPT !.port = sockets[l].port, !.peer = c]>>

Connect(p, f, port) ==
    LET c == bound[p][f] IN
    /\ Calls(p, f)
    /\ Listening(port) # {}
    /\ sockets[c].peer = 0 /\ ~sockets[c].listening
    /\ Len(sockets) < MaxSockets
    /\ sockets' = Linked(c, Min(Listening(port)), Len(sockets) + 1)
    /\ UNCHANGED bound

\* sys_accept: the connection leaves the queue before a descriptor is sought.
Accept(p, f) ==
    LET l == bound[p][f] IN
    /\ Calls(p, f)
    /\ sockets[l].listening
    /\ sockets[l].pending # <<>>
    /\ sockets' = [sockets EXCEPT ![l].pending = Tail(@)]
    /\ bound' = WithFd(p, Head(sockets[l].pending))

Send(p, f) ==
    LET s == bound[p][f]
        t == sockets[s].peer
    IN
    /\ Calls(p, f)
    /\ tcp[p][f] = 0
    /\ ~sockets[s].noWrite
    /\ t # 0
    /\ ~sockets[t].noRead
    /\ Len(sockets[t].buf) < MaxBuf
    /\ sockets' = [sockets EXCEPT ![t].buf = Append(@, s)]
    /\ UNCHANGED bound

Recv(p, f) ==
    LET s == bound[p][f] IN
    /\ Calls(p, f)
    /\ tcp[p][f] = 0
    /\ ~sockets[s].noRead
    /\ sockets[s].buf # <<>>
    /\ sockets' = [sockets EXCEPT ![s].buf = Tail(@)]
    /\ UNCHANGED bound

\* shutdown_sid
ShutDown(s, rd, wr) ==
    [t \in Sids |->
        [sockets[t] EXCEPT !.noRead = @ \/ (t = s /\ rd), !.noWrite = @ \/ (t = s /\ wr),
                           !.peerDone = @ \/ (wr /\ t = sockets[s].peer)]]

Shutdown(p, f, rd, wr) ==
    /\ Calls(p, f)
    /\ rd \/ wr
    /\ sockets' = ShutDown(bound[p][f], rd, wr)
    /\ UNCHANGED bound

-------------------------------------------------------------------------------
(* Connections to other hosts *)

\* tcp::connect, then the handshake is waited for.
ConnectRemote(p, f) ==
    LET free == {c \in Conns : conns[c] = NoConn} IN
    /\ waiting = Nobody
    /\ bound[p][f] # 0
    /\ free # {}
    /\ conns' = [conns EXCEPT ![Min(free)] = [state |-> "SynSent", by |-> <<p, f>>]]
    /\ waiting' = <<p, f, Min(free)>>
    /\ UNCHANGED <<sockVars, tcp>>

\* The loop in sys_connect ends: established, refused or timed out.  What is
\* left of a connection that failed stays in the table.
ConnectReturns ==
    LET p == waiting[1]
        f == waiting[2]
        c == waiting[3]
    IN
    /\ waiting # Nobody
    /\ tcp' = IF conns[c].state = "Established" THEN [tcp EXCEPT ![p][f] = c] ELSE tcp
    /\ waiting' = Nobody
    /\ UNCHANGED <<sockVars, conns>>

\* What the network and the timer do to a connection; see Tcp.
Moves == [None |-> {}, SynSent |-> {"Established", "Closed"}, Established |-> {"CloseWait", "Closed"},
          CloseWait |-> {"Closed"}, Closing |-> {"Closed"}, Closed |-> {}]

ConnMoves(c, st) ==
    /\ st \in Moves[conns[c].state]
    /\ conns' = [conns EXCEPT ![c].state = st]
    /\ UNCHANGED <<sockVars, tcp, waiting>>

\* tick empties the slot of a closed connection.
ConnDropped(c) ==
    /\ conns[c].state = "Closed"
    /\ conns' = [conns EXCEPT ![c] = NoConn]
    /\ UNCHANGED <<sockVars, tcp, waiting>>

\* sys_close: close_fd, then close_fd_tcp and tcp::close.
Close(p, f) ==
    LET c == tcp[p][f] IN
    /\ waiting = Nobody
    /\ bound[p][f] # 0
    /\ sockets' = ShutDown(bound[p][f], TRUE, TRUE)
    /\ bound' = [bound EXCEPT ![p][f] = 0]
    /\ tcp' = [tcp EXCEPT ![p][f] = 0]
    /\ conns' = IF c # 0 /\ conns[c].state \in {"Established", "CloseWait"}
                THEN [conns EXCEPT ![c].state = "Closing"] ELSE conns
    /\ UNCHANGED waiting

SocketsNext ==
    \/ \E p \in Procs :
        \/ Socket(p)
        \/ \E f \in Fds :
            \/ \E port \in Ports : Bind(p, f, port) \/ Connect(p, f, port)
            \/ \E b \in Backlogs : Listen(p, f, b)
            \/ Accept(p, f) \/ Send(p, f) \/ Recv(p, f) \/ Close(p, f)
            \/ \E rd, wr \in BOOLEAN : Shutdown(p, f, rd, wr)
            \/ ConnectRemote(p, f)
    \/ ConnectReturns
    \/ \E c \in Conns : ConnDropped(c) \/ \E st \in {"Established", "CloseWait", "Closed"} : ConnMoves(c, st)

SocketsSpec == SocketsInit /\ [][SocketsNext]_socketVars

-------------------------------------------------------------------------------
(* Properties *)

Queued(s) == {l \in Sids : \E i \in DOMAIN sockets[l].pending : sockets[l].pending[i] = s}
Holders(s) == {h \in Procs \X Fds : bound[h[1]][h[2]] = s}

\* Loopback connections are pairs (connect, accept, shutdown_sid): the two ends
\* name each other, an end waits in at most one queue or has at most one
\* descriptor, it holds only its peer's bytes, and it is told that no more
\* will come only after the peer shut down or was closed.
SocketPairs ==
    \A s \in Sids :
        LET t == sockets[s].peer IN
        /\ t # 0 => sockets[t].peer = s /\ t # s
        /\ Cardinality(Queued(s)) + Cardinality(Holders(s)) <= 1
        /\ \A i \in DOMAIN sockets[s].buf : sockets[s].buf[i] = t
        /\ sockets[s].peerDone => t # 0 /\ sockets[t].noWrite

\* What the comment on close_fd_tcp takes for granted: a descriptor is bound to
\* the connection it opened.  The identifier is a slot number: when the peer
\* resets, tick empties the slot, the next connect takes it, and two
\* descriptors name one connection.
FdKeepsConnection ==
    \A p \in Procs, f \in Fds :
        tcp[p][f] # 0 => conns[tcp[p][f]] = NoConn \/ conns[tcp[p][f]].by = <<p, f>>

===============================================================================
