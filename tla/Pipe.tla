--------------------------------- MODULE Pipe ---------------------------------
(***************************************************************************)
(* Descriptor tables and an anonymous pipe shared through dup, dup2 and    *)
(* fork (kernel/src/vfs/file.rs, kernel/src/vfs/pipe.rs and the calls of   *)
(* kernel/src/syscall/handlers.rs on them).                                *)
(*                                                                         *)
(* An Arc<OpenFile> is named by the end of the pipe it opens; the          *)
(* references to it are the descriptor slots and the reads in progress.    *)
(* A call is one step, except that a read of an empty pipe gives up the    *)
(* CPU between two looks at the buffer.                                    *)
(***************************************************************************)
EXTENDS Integers, Sequences

CONSTANTS
    Procs,      \* process slots
    InitProc,   \* the process that exists at first
    MaxFds,     \* MAX_FDS
    PipeCap,    \* PIPE_CAPACITY
    NBytes,     \* the n-th byte written is n modulo this
    MaxWrite,   \* bound on the bytes of one write and the buffer of one read
    Nil         \* an empty slot

VARIABLES
    fds,        \* fds[p]: FdTable::entries
    alive,      \* processes that have not exited
    reading,    \* reading[p]: the file p's blocked read holds, or Nil
    want,       \* want[p]: the length of the buffer of that read
    ring,       \* PipeBuffer::buf, or Nil before create_pipe
    rpos, wpos, len,
    rclosed, wclosed,
    sent,       \* the byte that is written next
    eof         \* a read returned 0

ASSUME PipeAssumption ==
    /\ InitProc \in Procs
    /\ MaxFds \in Nat /\ MaxWrite \in Nat
    /\ PipeCap \in Nat \ {0} /\ NBytes \in Nat \ {0}
    /\ Nil \notin {"r", "w", "c"}
    /\ Nil \notin [0 .. PipeCap - 1 -> 0 .. NBytes - 1]

fdVars == <<fds, alive>>
readVars == <<reading, want>>
bufVars == <<ring, rpos, wpos, len, sent>>
closedVars == <<rclosed, wclosed>>
pipeVars == <<fdVars, readVars, bufVars, closedVars, eof>>

Slots == 0 .. MaxFds - 1
\* The two ends of the pipe, and the console every process inherits.
Files == {"r", "w", "c"}
Created == ring # Nil

PipeTypeOK ==
    /\ fds \in [Procs -> [Slots -> Files \cup {Nil}]]
    /\ alive \subseteq Procs
    /\ reading \in [Procs -> {"r", Nil}]
    /\ want \in [Procs -> 0 .. MaxWrite]
    /\ ring = Nil \/ ring \in [0 .. PipeCap - 1 -> 0 .. NBytes - 1]
    /\ sent \in 0 .. NBytes - 1
    /\ rpos \in 0 .. PipeCap - 1 /\ wpos \in 0 .. PipeCap - 1 /\ len \in 0 .. PipeCap
    /\ rclosed \in BOOLEAN /\ wclosed \in BOOLEAN /\ eof \in BOOLEAN

PipeInit ==
    /\ \E k \in 0 .. MaxFds :
          fds = [p \in Procs |-> [i \in Slots |-> IF p = InitProc /\ i < k THEN "c" ELSE Nil]]
    /\ alive = {InitProc}
    /\ reading = [p \in Procs |-> Nil]
    /\ want = [p \in Procs |-> 0]
    /\ ring = Nil
    /\ rpos = 0 /\ wpos = 0 /\ len = 0 /\ sent = 0
    /\ rclosed = FALSE /\ wclosed = FALSE
    /\ eof = FALSE

\* p is in user code and may make a call.
InUser(p) == p \in alive /\ reading[p] = Nil

-------------------------------------------------------------------------------
(* FdTable *)

Free(t) == {i \in Slots : t[i] = Nil}
Lowest(t) == CHOOSE i \in Free(t) : \A j \in Free(t) : i <= j

\* alloc: the table with f in its lowest free slot; unchanged when it is full.
Alloced(t, f) == IF Free(t) = {} THEN t ELSE [t EXCEPT ![Lowest(t)] = f]

\* The references to end e once the tables are t and the reads in progress are h.
Refs(t, h, e) ==
    {s \in Procs \X Slots : t[s[1]][s[2]] = e} \cup {<<p, -1>> : p \in {q \in Procs : h[q] = e}}

MutDropped(t, h) ==
    LET gone(e) == \E p \in Procs, i \in Slots : fds[p][i] = e /\ t[p][i] # e IN
    /\ rclosed' = (rclosed \/ (Created /\ gone("r")))
    /\ wclosed' = (wclosed \/ (Created /\ gone("w")))

\* Dropping the last Arc of an end runs its Drop.
Dropped(t, h) ==
    /\ rclosed' = (rclosed \/ (Created /\ Refs(t, h, "r") = {}))
    /\ wclosed' = (wclosed \/ (Created /\ Refs(t, h, "w") = {}))

SetTable(p, t) ==
    /\ fds' = [fds EXCEPT ![p] = t]
    /\ Dropped([fds EXCEPT ![p] = t], reading)
    /\ UNCHANGED <<alive, readVars, bufVars, eof>>

-------------------------------------------------------------------------------
(* The calls on descriptors *)

\* sys_pipe: create_pipe, then two allocs; the end that finds no slot is dropped.
SysPipe(p) ==
    LET t1 == Alloced(fds[p], "r")
        t2 == IF t1 = fds[p] THEN t1 ELSE Alloced(t1, "w")
    IN
    /\ InUser(p)
    /\ ~Created
    /\ fds' = [fds EXCEPT ![p] = t2]
    /\ ring' = [i \in 0 .. PipeCap - 1 |-> 0]
    /\ rclosed' = (t1 = fds[p])
    /\ wclosed' = (t2 = t1)
    /\ UNCHANGED <<alive, readVars, rpos, wpos, len, sent, eof>>

Dup(p, o) ==
    /\ InUser(p)
    /\ fds[p][o] # Nil
    /\ Free(fds[p]) # {}
    /\ SetTable(p, Alloced(fds[p], fds[p][o]))

\* dup2 clones the Arc before it closes newfd, so dup2(f, f) keeps f open.
Dup2(p, o, n) ==
    /\ InUser(p)
    /\ fds[p][o] # Nil
    /\ SetTable(p, [fds[p] EXCEPT ![n] = fds[p][o]])

Close(p, i) ==
    /\ InUser(p)
    /\ fds[p][i] # Nil
    /\ SetTable(p, [fds[p] EXCEPT ![i] = Nil])

\* sys_fork: clone_fds.
ForkFds(p, c) ==
    /\ InUser(p)
    /\ c \notin alive
    /\ alive' = alive \cup {c}
    /\ fds' = [fds EXCEPT ![c] = fds[p]]
    /\ UNCHANGED <<readVars, bufVars, closedVars, eof>>

\* sys_exit: close_all before the task becomes a zombie.
ExitFds(p) ==
    /\ InUser(p)
    /\ alive' = alive \ {p}
    /\ fds' = [fds EXCEPT ![p] = [i \in Slots |-> Nil]]
    /\ Dropped(fds', reading)
    /\ UNCHANGED <<readVars, bufVars, eof>>

-------------------------------------------------------------------------------
(* PipeBuffer *)

MutWrittenNoWrap(k) ==
    [i \in 0 .. PipeCap - 1 |->
        IF i - wpos \in 0 .. k - 1 THEN (sent + i - wpos) % NBytes ELSE ring[i]]

\* write_bytes: k bytes from wpos on, around the end of the array.
Written(k) ==
    [i \in 0 .. PipeCap - 1 |->
        LET off == (i - wpos + PipeCap) % PipeCap IN
        IF off < k THEN (sent + off) % NBytes ELSE ring[i]]

Smaller(a, b) == IF a < b THEN a ELSE b

\* PipeWriteEnd::write of a non-empty buffer: what fits is taken.  A pipe with
\* no reader (BrokenPipe), a full one (WouldBlock) and a read end
\* (PermissionDenied) change nothing.
SysWrite(p, i, n) ==
    LET k == Smaller(n, PipeCap - len) IN
    /\ InUser(p)
    /\ fds[p][i] = "w"
    /\ ~rclosed
    /\ len < PipeCap
    /\ ring' = Written(k)
    /\ wpos' = (wpos + k) % PipeCap
    /\ len' = len + k
    /\ sent' = (sent + k) % NBytes
    /\ UNCHANGED <<fdVars, readVars, rpos, closedVars, eof>>

\* sys_read clones the Arc and looks at the buffer until read_bytes or the end
\* of the file answers.
SysRead(p, i, k) ==
    /\ InUser(p)
    /\ fds[p][i] = "r"
    /\ reading' = [reading EXCEPT ![p] = "r"]
    /\ want' = [want EXCEPT ![p] = k]
    /\ UNCHANGED <<fdVars, bufVars, closedVars, eof>>

ReadReturns(p) ==
    /\ reading' = [reading EXCEPT ![p] = Nil]
    /\ want' = [want EXCEPT ![p] = 0]
    /\ Dropped(fds, reading')

MutReadFull(p) ==
    /\ reading[p] = "r"
    /\ len >= want[p]
    /\ rpos' = (rpos + want[p]) % PipeCap
    /\ len' = len - want[p]
    /\ ReadReturns(p)
    /\ UNCHANGED <<fdVars, ring, wpos, sent, eof>>

ReadBytes(p) ==
    LET k == Smaller(want[p], len) IN
    /\ reading[p] = "r"
    /\ len > 0
    /\ rpos' = (rpos + k) % PipeCap
    /\ len' = len - k
    /\ ReadReturns(p)
    /\ UNCHANGED <<fdVars, ring, wpos, sent, eof>>

ReadEof(p) ==
    /\ reading[p] = "r"
    /\ len = 0
    /\ wclosed
    /\ eof' = TRUE
    /\ ReadReturns(p)
    /\ UNCHANGED <<fdVars, bufVars>>

PipeNext ==
    \E p \in Procs :
        \/ SysPipe(p)
        \/ ExitFds(p)
        \/ ReadBytes(p)
        \/ ReadEof(p)
        \/ \E c \in Procs : ForkFds(p, c)
        \/ \E i \in Slots :
             \/ Dup(p, i)
             \/ Close(p, i)
             \/ \E n \in Slots : Dup2(p, i, n)
             \/ \E k \in 1 .. MaxWrite : SysWrite(p, i, k) \/ SysRead(p, i, k)

PipeSpec == PipeInit /\ [][PipeNext]_pipeVars

\* The scheduler comes back to a reader that yields (Scheduler!NoStarvation).
PipeFair == \A p \in Procs : WF_pipeVars(ReadBytes(p) \/ ReadEof(p))

-------------------------------------------------------------------------------
(* Properties *)

\* The bytes between the two positions, oldest first.
Contents == [i \in 1 .. len |-> ring[(rpos + i - 1) % PipeCap]]

Chan == INSTANCE ByteChannel WITH queue <- Contents, Cap <- PipeCap

\* The ring buffer is a queue of bytes (write_bytes, read_bytes, the Drop of an
\* end): nothing is lost, repeated or reordered around the end of the array,
\* and once a read has returned 0 nothing more can ever be written, whoever
\* shares the two ends through dup and fork.
PipeIsChannel == Chan!ChanSpec

\* The closed flags are exactly the absence of references (Drop of
\* PipeReadEnd and PipeWriteEnd): no descriptor or blocked read holds a closed
\* end, and no end stays open that nobody can reach.
ClosedIsUnreferenced ==
    Created =>
        /\ rclosed <=> Refs(fds, reading, "r") = {}
        /\ wclosed <=> Refs(fds, reading, "w") = {}

\* Once no descriptor of any process refers to the write end, every read in
\* progress returns (PipeReadEnd::read): the end of the file is never missed,
\* in whatever order the holders closed, duplicated over or exited.
ReadersReturn ==
    \A p \in Procs :
        (reading[p] = "r" /\ Refs(fds, reading, "w") = {}) ~> reading[p] = Nil

\* What the comment in sys_pipe says: the two descriptors appear together.
\* The call that finds one free slot reports an error and leaves the read end
\* open in the table, where the caller does not know of it.
BothOrNeither ==
    [][~Created /\ Created' =>
         \A p \in Procs : (\E i \in Slots : fds'[p][i] = "r") <=> (\E i \in Slots : fds'[p][i] = "w")]_pipeVars

===============================================================================
