------------------------------ MODULE MCNetwork --------------------------------
(***************************************************************************)
(* The network: a TCP connection, the sockets, the network card's queues   *)
(* and the stack between them.  Each behaviour exercises the one Init      *)
(* chooses and the others keep their initial state.                        *)
(***************************************************************************)
EXTENDS NetStack, Sockets, VirtQueue

VARIABLES
    focus,
    conn, opened, out, read, peer

\* Sequence numbers wrap during the handshake, the receive buffer holds one
\* byte, and every segment is sent at most twice.
Tcp == INSTANCE Tcp WITH
    SeqSpace <- 16, Iss <- 14, Irs <- 15, Mss <- 1, RecvLimit <- 1, MaxRetransmits <- 1,
    MaxSend <- 2, MaxOut <- 2, MaxIn <- 0, Nil <- None

\* The peer writes more: segments of two bytes, of which the buffer takes one.
TcpIn == INSTANCE Tcp WITH
    SeqSpace <- 16, Iss <- 14, Irs <- 15, Mss <- 1, RecvLimit <- 1, MaxRetransmits <- 1,
    MaxSend <- 1, MaxOut <- 1, MaxIn <- 2, Nil <- None

\* A server and a client on this machine.
Local == INSTANCE Sockets WITH MaxConns <- 0

\* Two clients and a queue of one.
Queue == INSTANCE Sockets WITH Procs <- {1}, MaxSockets <- 5, MaxBuf <- 0, MaxConns <- 0

\* A process with connections to other hosts.
Remote == INSTANCE Sockets WITH Procs <- {1}, Ports <- {}, Backlogs <- {}, MaxSockets <- 2

\* More hosts than the ARP cache has entries, and no program.
Arp == INSTANCE NetStack WITH Names <- {}, MaxTick <- 1, MaxWire <- 1

\* Two names resolved again and again, with repeated and late queries.
Resolver == INSTANCE NetStack WITH Others <- {}, Macs <- {"m1"}

tcpVars == <<conn, opened, out, read, peer>>

Init ==
    /\ focus \in {"tcp", "recv", "local", "queue", "remote", "nic", "arp", "resolver"}
    /\ Tcp!TcpInit
    /\ SocketsInit
    /\ NicInit
    /\ NetInit

Next ==
    \/ focus = "tcp" /\ Tcp!TcpNext /\ UNCHANGED <<focus, socketVars, nicVars, netVars>>
    \/ focus = "recv" /\ TcpIn!TcpNext /\ UNCHANGED <<focus, socketVars, nicVars, netVars>>
    \/ focus = "local" /\ Local!SocketsNext /\ UNCHANGED <<focus, tcpVars, nicVars, netVars>>
    \/ focus = "queue" /\ Queue!SocketsNext /\ UNCHANGED <<focus, tcpVars, nicVars, netVars>>
    \/ focus = "remote" /\ Remote!SocketsNext /\ UNCHANGED <<focus, tcpVars, nicVars, netVars>>
    \/ focus = "nic" /\ NicNext /\ UNCHANGED <<focus, tcpVars, socketVars, netVars>>
    \/ focus = "arp" /\ Arp!NetNext /\ UNCHANGED <<focus, tcpVars, socketVars, nicVars>>
    \/ focus = "resolver" /\ Resolver!NetNext /\ UNCHANGED <<focus, tcpVars, socketVars, nicVars>>

Spec ==
    /\ Init
    /\ [][Next]_<<focus, tcpVars, socketVars, nicVars, netVars>>
    /\ Tcp!TcpFair

\* Tcp!RecvStream, SendStream: a program reads the peer's stream, whatever the
\* network does, and what the peer has not got yet will be sent again.
TcpStreams ==
    /\ focus \in {"local", "queue", "remote"} => SocketsTypeOK
    /\ focus \in {"arp", "resolver"} => NetTypeOK
    /\ focus = "nic" => NicTypeOK
    /\ focus = "tcp" => Tcp!TcpTypeOK /\ Tcp!RecvStream /\ Tcp!SendStream
    /\ focus = "recv" => TcpIn!TcpTypeOK /\ TcpIn!RecvStream /\ TcpIn!SendStream

\* Tcp!AttemptsEnd: a handshake or a close the peer ignores is given up.
AttemptsEnd == Tcp!AttemptsEnd

===============================================================================
