------------------------------ MODULE ByteChannel ------------------------------
(***************************************************************************)
(* What a pipe and a connection promise: the bytes written come out once,  *)
(* in order, and the end of the file is seen only after the last of them.  *)
(* The n-th byte written is n modulo NBytes, so a byte lost, repeated or   *)
(* out of place shows.                                                     *)
(***************************************************************************)
EXTENDS Integers, Sequences

CONSTANTS NBytes, Cap

VARIABLES
    queue,      \* accepted and not yet delivered
    sent,       \* the byte that is written next
    eof         \* a reader was told that nothing will follow

chanVars == <<queue, sent, eof>>

ChanInit == queue = <<>> /\ sent = 0 /\ eof = FALSE

Accept ==
    /\ ~eof
    /\ \E k \in 1 .. Cap - Len(queue) :
          /\ queue' = queue \o [i \in 1 .. k |-> (sent + i - 1) % NBytes]
          /\ sent' = (sent + k) % NBytes
    /\ UNCHANGED eof

Yield ==
    /\ \E k \in 1 .. Len(queue) : queue' = SubSeq(queue, k + 1, Len(queue))
    /\ UNCHANGED <<sent, eof>>

EndOfFile ==
    /\ queue = <<>>
    /\ eof' = TRUE
    /\ UNCHANGED <<queue, sent>>

ChanNext == Accept \/ Yield \/ EndOfFile

ChanSpec == ChanInit /\ [][ChanNext]_chanVars

===============================================================================
