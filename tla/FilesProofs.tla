----------------------------- MODULE FilesProofs -----------------------------
(***************************************************************************)
(* The pipe, for any capacity, any number of processes and descriptors:    *)
(* the ring buffer implements a queue of bytes, and an end is closed       *)
(* exactly when nothing refers to it.  The permission checks, for any      *)
(* tasks, users, groups, names, modes and tree: they guard what they are   *)
(* there to guard.                                                         *)
(***************************************************************************)
EXTENDS Pipe, Access, SequenceTheorems, WellFoundedInduction, TLAPS

-------------------------------------------------------------------------------
(* References *)

\* Nobody holds end e, when the tables are t and the reads in progress are h.
Unheld(t, h, e) ==
    /\ \A p \in Procs, i \in Slots : t[p][i] # e
    /\ \A p \in Procs : h[p] # e

\* Processes that do not run hold nothing, and before create_pipe nobody does.
FdInv ==
    /\ \A p \in Procs \ alive : reading[p] = Nil /\ \A i \in Slots : fds[p][i] = Nil
    /\ Created => /\ rclosed <=> Unheld(fds, reading, "r")
                  /\ wclosed <=> Unheld(fds, reading, "w")
    /\ ~Created => /\ Unheld(fds, reading, "r") /\ Unheld(fds, reading, "w")
                   /\ ~rclosed /\ ~wclosed

\* Holding nothing is having no references.
LEMMA UnheldIsUnreferenced ==
    ASSUME NEW t, NEW h, NEW e
    PROVE  Refs(t, h, e) = {} <=> Unheld(t, h, e)
<1>1. ASSUME NEW p \in Procs, NEW i \in Slots, t[p][i] = e
      PROVE  Refs(t, h, e) # {}
  <2>1. <<p, i>> \in {s \in Procs \X Slots : t[s[1]][s[2]] = e}
    BY ZenonT(30), <1>1
  <2> QED
    BY ZenonT(30), <2>1 DEF Refs
<1>2. ASSUME NEW p \in Procs, h[p] = e
      PROVE  Refs(t, h, e) # {}
  BY ZenonT(30), <1>2 DEF Refs
<1>3. ASSUME NEW s \in Refs(t, h, e)
      PROVE  ~Unheld(t, h, e)
  <2>1. CASE s \in Procs \X Slots /\ t[s[1]][s[2]] = e
    <3>1. s[1] \in Procs /\ s[2] \in Slots
      BY ZenonT(30), <2>1
    <3> QED
      BY ZenonT(30), <2>1, <3>1 DEF Unheld
  <2>2. CASE \E p \in Procs : h[p] = e
    BY ZenonT(30), <2>2 DEF Unheld
  <2> QED
    BY ZenonT(30), <2>1, <2>2 DEF Refs
<1> QED
  BY <1>1, <1>2, <1>3, Zenon DEF Unheld

\* Tables and reads in progress may change as long as an end nobody held is
\* held by nobody: then Drop sets the flags right.
LEMMA DropExact ==
    ASSUME NEW t, NEW h, FdInv, Dropped(t, h), rclosed \in BOOLEAN, wclosed \in BOOLEAN,
           Unheld(fds, reading, "r") => Unheld(t, h, "r"),
           Unheld(fds, reading, "w") => Unheld(t, h, "w")
    PROVE  /\ Created => /\ rclosed' <=> Unheld(t, h, "r")
                         /\ wclosed' <=> Unheld(t, h, "w")
           /\ ~Created => /\ Unheld(t, h, "r") /\ Unheld(t, h, "w")
                          /\ ~rclosed' /\ ~wclosed'
           /\ rclosed' \in BOOLEAN /\ wclosed' \in BOOLEAN
<1>1. Refs(t, h, "r") = {} <=> Unheld(t, h, "r")
  BY ZenonT(30), UnheldIsUnreferenced
<1>2. Refs(t, h, "w") = {} <=> Unheld(t, h, "w")
  BY ZenonT(30), UnheldIsUnreferenced
<1> QED
  BY <1>1, <1>2, Zenon DEF Dropped, FdInv

\* A table that holds only what it held, and Nil, in any slots.
Reshuffled(t, old) == \A i \in Slots : t[i] = Nil \/ \E j \in Slots : t[i] = old[j]

\* alloc of a descriptor that is open.
LEMMA AllocReshuffles ==
    ASSUME NEW p \in Procs, NEW o \in Slots, fds[p] \in [Slots -> Files \cup {Nil}]
    PROVE  /\ Alloced(fds[p], fds[p][o]) \in [Slots -> Files \cup {Nil}]
           /\ Reshuffled(Alloced(fds[p], fds[p][o]), fds[p])
  BY ZenonT(30) DEF Alloced, Reshuffled

\* The calls that change the table of one process.
LEMMA TableStep ==
    ASSUME PipeTypeOK, FdInv, NEW p \in alive, NEW t \in [Slots -> Files \cup {Nil}],
           Reshuffled(t, fds[p]), SetTable(p, t)
    PROVE  FdInv' /\ fds' \in [Procs -> [Slots -> Files \cup {Nil}]]
                  /\ rclosed' \in BOOLEAN /\ wclosed' \in BOOLEAN
<1> DEFINE T == [fds EXCEPT ![p] = t]
<1>1. /\ fds' = T /\ Dropped(T, reading) /\ UNCHANGED <<alive, reading, ring>>
  BY ZenonT(30) DEF SetTable, readVars, bufVars
<1>2. p \in Procs /\ fds \in [Procs -> [Slots -> Files \cup {Nil}]]
  BY ZenonT(30) DEF PipeTypeOK
<1>3. T[p] = t /\ \A q \in Procs : q # p => T[q] = fds[q]
  BY ZenonT(30), <1>2
<1>4. T \in [Procs -> [Slots -> Files \cup {Nil}]]
  BY ZenonT(30), <1>2
<1> HIDE DEF T
<1>5. \A e \in {"r", "w"} : Unheld(fds, reading, e) => Unheld(T, reading, e)
  BY <1>2, <1>3, PipeAssumption DEF Unheld, Reshuffled
<1>6. rclosed \in BOOLEAN /\ wclosed \in BOOLEAN
  BY ZenonT(30) DEF PipeTypeOK
<1>7. /\ Created => /\ rclosed' <=> Unheld(T, reading, "r")
                    /\ wclosed' <=> Unheld(T, reading, "w")
      /\ ~Created => /\ Unheld(T, reading, "r") /\ Unheld(T, reading, "w")
                     /\ ~rclosed' /\ ~wclosed'
      /\ rclosed' \in BOOLEAN /\ wclosed' \in BOOLEAN
  BY ZenonT(30), <1>1, <1>5, <1>6, DropExact
<1>8. \A q \in Procs \ alive : reading[q] = Nil /\ \A i \in Slots : T[q][i] = Nil
  BY ZenonT(30), <1>3 DEF FdInv
<1>9. FdInv'
  BY ZenonT(30), <1>1, <1>7, <1>8 DEF FdInv, Created
<1> QED
  BY ZenonT(30), <1>1, <1>4, <1>7, <1>9

\* A set of natural numbers that is not empty has a least element.
LEMMA Least ==
    ASSUME NEW T, T \subseteq Nat, T # {}
    PROVE  \E x \in T : \A y \in T : x <= y
<1> DEFINE R == OpToRel(<, Nat)
<1>1. IsWellFoundedOn(R, Nat)
  BY ZenonT(30), NatLessThanWellFounded
<1>2. \A x, y \in Nat : <<y, x>> \in R <=> y < x
  BY ZenonT(30) DEF OpToRel
<1> HIDE DEF R
<1>3. PICK x \in T : \A y \in T : ~(<<y, x>> \in R)
  BY ZenonT(30), <1>1, WFMin
<1>4. x \in Nat /\ \A y \in T : y \in Nat
  OBVIOUS
<1>5. \A y \in T : ~(y < x)
  BY ZenonT(30), <1>2, <1>3, <1>4
<1>6. \A y \in T : x <= y
  BY <1>4, <1>5
<1> QED
  BY ZenonT(30), <1>6

\* A table with a free slot has a lowest one, and alloc fills it.
LEMMA AllocFills ==
    ASSUME NEW t \in [Slots -> Files \cup {Nil}], NEW f \in Files
    PROVE  /\ Alloced(t, f) \in [Slots -> Files \cup {Nil}]
           /\ Alloced(t, f) = t <=> Free(t) = {}
           /\ Free(t) # {} => \E l \in Slots : /\ t[l] = Nil /\ Alloced(t, f)[l] = f
                                              /\ \A i \in Slots : i # l => Alloced(t, f)[i] = t[i]
<1>1. CASE Free(t) = {}
  BY ZenonT(30), <1>1 DEF Alloced
<1>2. CASE Free(t) # {}
  <2>1. Free(t) \subseteq Nat
    BY PipeAssumption DEF Free, Slots
  <2>2. \E x \in Free(t) : \A y \in Free(t) : x <= y
    BY ZenonT(30), <1>2, <2>1, Least
  <2>3. Lowest(t) \in Free(t)
    BY ZenonT(30), <2>2 DEF Lowest
  <2> DEFINE l == Lowest(t)
  <2>4. l \in Slots /\ t[l] = Nil
    BY ZenonT(30), <2>3 DEF Free
  <2>5. Alloced(t, f) = [t EXCEPT ![l] = f]
    BY ZenonT(30), <1>2 DEF Alloced
  <2> HIDE DEF l
  <2>6. f # Nil
    BY ZenonT(30), PipeAssumption DEF Files
  <2>7. [t EXCEPT ![l] = f][l] = f /\ [t EXCEPT ![l] = f] # t
    BY ZenonT(30), <2>4, <2>6
  <2> QED
    BY ZenonT(30), <1>2, <2>4, <2>5, <2>7
<1> QED
  BY ZenonT(30), <1>1, <1>2

\* create_pipe and the two descriptors, or what the table has room for.
LEMMA SysPipeFds ==
    ASSUME PipeTypeOK, FdInv, NEW p \in Procs, SysPipe(p)
    PROVE  FdInv' /\ fds' \in [Procs -> [Slots -> Files \cup {Nil}]]
                  /\ rclosed' \in BOOLEAN /\ wclosed' \in BOOLEAN
<1> DEFINE t == fds[p]
           t1 == Alloced(t, "r")
           t2 == IF t1 = t THEN t1 ELSE Alloced(t1, "w")
<1>1. /\ p \in alive /\ ~Created /\ fds' = [fds EXCEPT ![p] = t2]
      /\ ring' = [i \in 0 .. PipeCap - 1 |-> 0]
      /\ rclosed' = (t1 = t) /\ wclosed' = (t2 = t1)
      /\ UNCHANGED <<alive, reading>>
  BY ZenonT(30) DEF SysPipe, InUser, readVars
<1>2. fds \in [Procs -> [Slots -> Files \cup {Nil}]] /\ t \in [Slots -> Files \cup {Nil}]
  BY ZenonT(30) DEF PipeTypeOK
<1>3. /\ t1 \in [Slots -> Files \cup {Nil}]
      /\ t1 = t <=> Free(t) = {}
      /\ Free(t) # {} => \E l \in Slots : /\ t[l] = Nil /\ t1[l] = "r"
                                          /\ \A i \in Slots : i # l => t1[i] = t[i]
  BY ZenonT(30), <1>2, AllocFills DEF Files
<1>4. Created'
  <2>1. ring' \in [0 .. PipeCap - 1 -> 0 .. NBytes - 1]
    BY <1>1, PipeAssumption
  <2> QED
    BY ZenonT(30), <2>1, PipeAssumption DEF Created
<1>5. /\ \A q \in Procs, i \in Slots : fds[q][i] # "r" /\ fds[q][i] # "w"
      /\ \A q \in Procs : reading[q] # "r" /\ reading[q] # "w"
  BY ZenonT(30), <1>1 DEF FdInv, Unheld
<1> HIDE DEF t1
<1>6. /\ t2 \in [Slots -> Files \cup {Nil}]
      /\ (t1 # t) <=> \E i \in Slots : t2[i] = "r"
      /\ (t2 # t1) <=> \E i \in Slots : t2[i] = "w"
  <2>1. CASE t1 = t
    BY ZenonT(30), <1>2, <1>5, <2>1
  <2>2. CASE t1 # t
    <3> DEFINE u == Alloced(t1, "w")
    <3>1. /\ u \in [Slots -> Files \cup {Nil}]
          /\ u = t1 <=> Free(t1) = {}
          /\ Free(t1) # {} => \E l \in Slots : /\ t1[l] = Nil /\ u[l] = "w"
                                               /\ \A i \in Slots : i # l => u[i] = t1[i]
      BY ZenonT(30), <1>3, AllocFills DEF Files
    <3>2. t2 = u
      BY ZenonT(30), <2>2
    <3> HIDE DEF u, t2
    <3>3. PICK l \in Slots : t1[l] = "r" /\ \A i \in Slots : i # l => t1[i] = t[i]
      BY ZenonT(30), <1>3, <2>2
    <3>4. \A i \in Slots : t1[i] # "w"
      BY ZenonT(30), <1>5, <3>3
    <3>5. CASE Free(t1) = {}
      <4>1. u = t1
        BY ZenonT(30), <3>1, <3>5
      <4> QED
        BY ZenonT(30), <1>3, <2>2, <3>2, <3>3, <3>4, <4>1
    <3>6. CASE Free(t1) # {}
      <4>1. PICK m \in Slots : t1[m] = Nil /\ u[m] = "w" /\ \A i \in Slots : i # m => u[i] = t1[i]
        BY ZenonT(30), <3>1, <3>6
      <4>2. u # t1 /\ u[l] = "r"
        BY ZenonT(30), <3>1, <3>3, <3>6, <4>1, PipeAssumption
      <4> QED
        BY ZenonT(30), <2>2, <3>1, <3>2, <3>3, <4>1, <4>2
    <3> QED
      BY ZenonT(30), <3>5, <3>6
  <2> QED
    BY ZenonT(30), <2>1, <2>2
<1> HIDE DEF t2, t
<1>7. fds'[p] = t2 /\ \A q \in Procs : q # p => fds'[q] = fds[q]
  BY ZenonT(30), <1>1, <1>2
<1>8. /\ (\E i \in Slots : t2[i] = "r") <=> ~Unheld(fds', reading, "r")
      /\ (\E i \in Slots : t2[i] = "w") <=> ~Unheld(fds', reading, "w")
  BY ZenonT(30), <1>5, <1>7 DEF Unheld
<1>9. /\ rclosed' <=> Unheld(fds', reading, "r")
      /\ wclosed' <=> Unheld(fds', reading, "w")
  <2>1. rclosed' <=> (t1 = t)
    BY ZenonT(30), <1>1
  <2>2. wclosed' <=> (t2 = t1)
    BY ZenonT(30), <1>1
  <2> QED
    BY ZenonT(30), <1>6, <1>8, <2>1, <2>2
<1>10. \A q \in Procs \ alive : reading[q] = Nil /\ \A i \in Slots : fds'[q][i] = Nil
  BY <1>1, <1>7 DEF FdInv
<1>11. FdInv'
  BY ZenonT(30), <1>1, <1>4, <1>9, <1>10 DEF FdInv
<1>12. rclosed' \in BOOLEAN /\ wclosed' \in BOOLEAN
  BY ZenonT(30), <1>1
<1>13. fds' \in [Procs -> [Slots -> Files \cup {Nil}]]
  BY ZenonT(30), <1>1, <1>2, <1>6
<1> QED
  BY ZenonT(30), <1>11, <1>12, <1>13

\* fork: the child's slot, which held nothing, gets a copy.
LEMMA ForkFdsKeeps ==
    ASSUME PipeTypeOK, FdInv, NEW p \in Procs, NEW c \in Procs, ForkFds(p, c)
    PROVE  FdInv' /\ fds' \in [Procs -> [Slots -> Files \cup {Nil}]] /\ alive' \subseteq Procs
<1>1. /\ p \in alive /\ c \notin alive /\ alive' = alive \cup {c} /\ fds' = [fds EXCEPT ![c] = fds[p]]
      /\ UNCHANGED <<reading, ring, rclosed, wclosed>>
  BY ZenonT(30) DEF ForkFds, InUser, readVars, bufVars, closedVars
<1>2. fds \in [Procs -> [Slots -> Files \cup {Nil}]] /\ alive \subseteq Procs
  BY ZenonT(30) DEF PipeTypeOK
<1>3. fds'[c] = fds[p] /\ \A q \in Procs : q # c => fds'[q] = fds[q]
  BY ZenonT(30), <1>1, <1>2
<1>4. \A i \in Slots : fds[c][i] = Nil
  BY ZenonT(30), <1>1 DEF FdInv
<1>5. \A e \in {"r", "w"} : Unheld(fds', reading, e) <=> Unheld(fds, reading, e)
  BY <1>3, <1>4, PipeAssumption DEF Unheld
<1>6. \A q \in Procs \ alive' : reading[q] = Nil /\ \A i \in Slots : fds'[q][i] = Nil
  BY <1>1, <1>3 DEF FdInv
<1>7. FdInv'
  BY ZenonT(30), <1>1, <1>5, <1>6 DEF FdInv, Created
<1> QED
  BY ZenonT(30), <1>1, <1>2, <1>7

\* exit: close_all.
LEMMA ExitFdsKeeps ==
    ASSUME PipeTypeOK, FdInv, NEW p \in Procs, ExitFds(p)
    PROVE  FdInv' /\ fds' \in [Procs -> [Slots -> Files \cup {Nil}]] /\ alive' \subseteq Procs
                  /\ rclosed' \in BOOLEAN /\ wclosed' \in BOOLEAN
<1> DEFINE T == fds'
<1>1. /\ reading[p] = Nil /\ alive' = alive \ {p} /\ fds' = [fds EXCEPT ![p] = [i \in Slots |-> Nil]]
      /\ Dropped(T, reading) /\ UNCHANGED <<reading, ring>>
  BY ZenonT(30) DEF ExitFds, InUser, readVars, bufVars
<1>2. fds \in [Procs -> [Slots -> Files \cup {Nil}]] /\ alive \subseteq Procs
      /\ rclosed \in BOOLEAN /\ wclosed \in BOOLEAN
  BY ZenonT(30) DEF PipeTypeOK
<1>3. /\ \A i \in Slots : T[p][i] = Nil
      /\ \A q \in Procs : q # p => T[q] = fds[q]
      /\ T \in [Procs -> [Slots -> Files \cup {Nil}]]
  BY ZenonT(30), <1>1, <1>2
<1> HIDE DEF T
<1>4. \A e \in {"r", "w"} : Unheld(fds, reading, e) => Unheld(T, reading, e)
  BY ZenonT(30), <1>3, PipeAssumption DEF Unheld
<1>5. /\ Created => /\ rclosed' <=> Unheld(T, reading, "r")
                    /\ wclosed' <=> Unheld(T, reading, "w")
      /\ ~Created => /\ Unheld(T, reading, "r") /\ Unheld(T, reading, "w")
                     /\ ~rclosed' /\ ~wclosed'
      /\ rclosed' \in BOOLEAN /\ wclosed' \in BOOLEAN
  BY ZenonT(30), <1>1, <1>2, <1>4, DropExact
<1>6. \A q \in Procs \ alive' : reading[q] = Nil /\ \A i \in Slots : T[q][i] = Nil
  BY <1>1, <1>3 DEF FdInv
<1>7. FdInv'
  BY ZenonT(30), <1>1, <1>5, <1>6 DEF FdInv, Created, T
<1> QED
  BY ZenonT(30), <1>1, <1>2, <1>3, <1>5, <1>7 DEF T

\* read takes a reference of its own.
LEMMA SysReadFds ==
    ASSUME PipeTypeOK, FdInv, NEW p \in Procs, NEW i \in Slots, NEW k \in 1 .. MaxWrite, SysRead(p, i, k)
    PROVE  FdInv' /\ reading' \in [Procs -> {"r", Nil}] /\ want' \in [Procs -> 0 .. MaxWrite]
<1>1. /\ p \in alive /\ fds[p][i] = "r" /\ reading' = [reading EXCEPT ![p] = "r"]
      /\ want' = [want EXCEPT ![p] = k] /\ UNCHANGED <<fds, alive, ring, rclosed, wclosed>>
  BY ZenonT(30) DEF SysRead, InUser, fdVars, bufVars, closedVars
<1>2. reading \in [Procs -> {"r", Nil}] /\ want \in [Procs -> 0 .. MaxWrite]
  BY ZenonT(30) DEF PipeTypeOK
<1>3. reading' \in [Procs -> {"r", Nil}] /\ want' \in [Procs -> 0 .. MaxWrite]
  BY <1>1, <1>2, PipeAssumption
<1>4. \A q \in Procs : q # p => reading'[q] = reading[q]
  BY ZenonT(30), <1>1, <1>2
<1>5. reading'[p] = "r"
  BY ZenonT(30), <1>1, <1>2
<1>6. ~Unheld(fds, reading, "r") /\ ~Unheld(fds, reading', "r")
  BY ZenonT(30), <1>1 DEF Unheld
<1>7. Unheld(fds, reading', "w") <=> Unheld(fds, reading, "w")
  BY ZenonT(30), <1>2, <1>4, <1>5, PipeAssumption DEF Unheld
<1>8. \A q \in Procs \ alive : reading'[q] = Nil /\ \A j \in Slots : fds[q][j] = Nil
  BY ZenonT(30), <1>1, <1>4 DEF FdInv
<1>9. FdInv'
  BY ZenonT(30), <1>1, <1>6, <1>7, <1>8 DEF FdInv, Created
<1> QED
  BY ZenonT(30), <1>3, <1>9

\* and gives it back.
LEMMA ReadReturnsFds ==
    ASSUME PipeTypeOK, FdInv, NEW p \in Procs, ReadReturns(p), UNCHANGED <<fds, alive, ring>>
    PROVE  FdInv' /\ reading' \in [Procs -> {"r", Nil}] /\ want' \in [Procs -> 0 .. MaxWrite]
                  /\ rclosed' \in BOOLEAN /\ wclosed' \in BOOLEAN
<1> DEFINE h == reading'
<1>1. /\ reading' = [reading EXCEPT ![p] = Nil] /\ want' = [want EXCEPT ![p] = 0] /\ Dropped(fds, h)
  BY ZenonT(30) DEF ReadReturns
<1>2. /\ reading \in [Procs -> {"r", Nil}] /\ want \in [Procs -> 0 .. MaxWrite]
      /\ rclosed \in BOOLEAN /\ wclosed \in BOOLEAN
  BY ZenonT(30) DEF PipeTypeOK
<1>3. reading' \in [Procs -> {"r", Nil}] /\ want' \in [Procs -> 0 .. MaxWrite]
  BY <1>1, <1>2, PipeAssumption
<1>4. h[p] = Nil /\ \A q \in Procs : q # p => h[q] = reading[q]
  BY ZenonT(30), <1>1, <1>2
<1> HIDE DEF h
<1>5. \A e \in {"r", "w"} : Unheld(fds, reading, e) => Unheld(fds, h, e)
  BY ZenonT(30), <1>4, PipeAssumption DEF Unheld
<1>6. /\ Created => /\ rclosed' <=> Unheld(fds, h, "r")
                    /\ wclosed' <=> Unheld(fds, h, "w")
      /\ ~Created => /\ Unheld(fds, h, "r") /\ Unheld(fds, h, "w")
                     /\ ~rclosed' /\ ~wclosed'
      /\ rclosed' \in BOOLEAN /\ wclosed' \in BOOLEAN
  BY ZenonT(30), <1>1, <1>2, <1>5, DropExact
<1>7. \A q \in Procs \ alive : h[q] = Nil /\ \A i \in Slots : fds[q][i] = Nil
  BY ZenonT(30), <1>4 DEF FdInv
<1>8. FdInv'
  BY ZenonT(30), <1>6, <1>7 DEF FdInv, Created, h
<1> QED
  BY ZenonT(30), <1>3, <1>6, <1>8

-------------------------------------------------------------------------------
(* The ring buffer *)

\* The write position is len bytes after the read position; a reader told the
\* end of the file found the pipe empty and its write end closed.
RingInv ==
    /\ wpos = (rpos + len) % PipeCap
    /\ ~Created => len = 0 /\ ~eof
    /\ eof => wclosed /\ len = 0

PipeInv == PipeTypeOK /\ FdInv /\ RingInv

\* A position inside the ring is its own reduction (`% PIPE_BUF_SIZE`).
LEMMA ModSmall ==
    ASSUME NEW C \in Nat \ {0}, NEW a \in 0 .. C - 1
    PROVE  a % C = a
  OBVIOUS

\* A position one lap on, as read_pos + len can be, loses the capacity once.
LEMMA ModTwice ==
    ASSUME NEW C \in Nat \ {0}, NEW a \in C .. C + C - 1
    PROVE  a % C = a - C
  OBVIOUS

\* Every position is inside the ring once it is reduced.
LEMMA ModRange ==
    ASSUME NEW C \in Nat \ {0}, NEW a \in Int
    PROVE  a % C \in 0 .. C - 1
  OBVIOUS

\* A function on 1 .. n is a sequence of length n.
LEMMA FunctionIsSeq ==
    ASSUME NEW S, NEW n \in Nat, NEW f \in [1 .. n -> S]
    PROVE  f \in Seq(S) /\ Len(f) = n
<1>1. f \in Seq(S)
  BY ZenonT(30), SeqDef
<1>2. DOMAIN f = 1 .. n /\ DOMAIN f = 1 .. Len(f) /\ Len(f) \in Nat
  BY ZenonT(30), <1>1, LenProperties
<1> QED
  BY <1>1, <1>2

\* The position of the byte j places after r.
LEMMA Place ==
    ASSUME NEW C \in Nat \ {0}, NEW r \in 0 .. C - 1, NEW j \in 0 .. C
    PROVE  (r + j) % C = IF r + j < C THEN r + j ELSE r + j - C
<1>1. CASE r + j < C
  <2>1. r + j \in 0 .. C - 1
    BY <1>1
  <2> QED
    BY ZenonT(30), <1>1, <2>1, ModSmall
<1>2. CASE ~(r + j < C)
  <2>1. r + j \in C .. C + C - 1
    BY <1>2
  <2> QED
    BY <1>2, <2>1, ModTwice
<1> QED
  BY ZenonT(30), <1>1, <1>2

\* How far behind the write position the byte j places after r is.
LEMMA Offset ==
    ASSUME NEW C \in Nat \ {0}, NEW r \in 0 .. C - 1, NEW l \in 0 .. C, NEW j \in 0 .. C - 1
    PROVE  (((r + j) % C) - ((r + l) % C) + C) % C = IF j < l THEN C - l + j ELSE j - l
<1> DEFINE x == (r + j) % C
           y == (r + l) % C
<1>1. x = IF r + j < C THEN r + j ELSE r + j - C
  <2>1. j \in 0 .. C
    OBVIOUS
  <2> QED
    BY ZenonT(30), <2>1, Place
<1>2. y = IF r + l < C THEN r + l ELSE r + l - C
  BY ZenonT(30), Place
<1> HIDE DEF x, y
<1> DEFINE d == x - y + C
           e == IF j < l THEN C - l + j ELSE j - l
<1>3. e \in 0 .. C - 1 /\ (d = e \/ d = e + C)
  BY <1>1, <1>2
<1>4. d % C = e
  <2> HIDE DEF d, e
  <2>1. CASE d = e
    BY ZenonT(30), <1>3, <2>1, ModSmall
  <2>2. CASE d = e + C
    <3>1. d \in C .. C + C - 1 /\ d - C = e
      BY <1>3, <2>2
    <3> QED
      BY ZenonT(30), <3>1, ModTwice
  <2> QED
    BY ZenonT(30), <1>3, <2>1, <2>2
<1> QED
  BY ZenonT(30), <1>4 DEF x, y

\* What the pipe holds.
LEMMA ContentsSeq ==
    ASSUME PipeTypeOK, RingInv
    PROVE  /\ Contents \in Seq(0 .. NBytes - 1) /\ Len(Contents) = len /\ DOMAIN Contents = 1 .. len
           /\ \A i \in 1 .. len : Contents[i] = ring[(rpos + i - 1) % PipeCap]
<1>1. len \in Nat /\ rpos \in Nat /\ PipeCap \in Nat \ {0} /\ len <= PipeCap
  BY PipeAssumption DEF PipeTypeOK
<1>2. \A i \in 1 .. len : ring[(rpos + i - 1) % PipeCap] \in 0 .. NBytes - 1
  <2> SUFFICES ASSUME NEW i \in 1 .. len
               PROVE  ring[(rpos + i - 1) % PipeCap] \in 0 .. NBytes - 1
    OBVIOUS
  <2>1. ring \in [0 .. PipeCap - 1 -> 0 .. NBytes - 1]
    BY <1>1 DEF PipeTypeOK, RingInv, Created
  <2>2. rpos + i - 1 \in Int
    BY <1>1
  <2>3. (rpos + i - 1) % PipeCap \in 0 .. PipeCap - 1
    BY ZenonT(30), <1>1, <2>2, ModRange
  <2> QED
    BY ZenonT(30), <2>1, <2>3
<1>3. Contents \in [1 .. len -> 0 .. NBytes - 1]
  BY ZenonT(30), <1>2 DEF Contents
<1>4. Contents \in Seq(0 .. NBytes - 1) /\ Len(Contents) = len
  BY ZenonT(30), <1>1, <1>3, FunctionIsSeq
<1> QED
  BY ZenonT(30), <1>3, <1>4 DEF Contents

\* write appends.
LEMMA WriteAppends ==
    ASSUME PipeInv, NEW p \in Procs, NEW i \in Slots, NEW n \in 1 .. MaxWrite, SysWrite(p, i, n)
    PROVE  /\ Chan!Accept
           /\ ring' \in [0 .. PipeCap - 1 -> 0 .. NBytes - 1] /\ wpos' \in 0 .. PipeCap - 1
           /\ len' \in 0 .. PipeCap /\ sent' \in 0 .. NBytes - 1
           /\ wpos' = (rpos' + len') % PipeCap
<1> DEFINE C == PipeCap
           k == Smaller(n, C - len)
<1>1. /\ fds[p][i] = "w" /\ len < C
      /\ ring' = Written(k) /\ wpos' = (wpos + k) % C /\ len' = len + k /\ sent' = (sent + k) % NBytes
      /\ UNCHANGED <<rpos, eof>>
  BY ZenonT(30) DEF SysWrite
<1>2. PipeTypeOK /\ FdInv /\ RingInv
  BY ZenonT(30) DEF PipeInv
<1>3. /\ C \in Nat \ {0} /\ NBytes \in Nat \ {0} /\ len \in 0 .. C /\ rpos \in 0 .. C - 1
      /\ wpos \in 0 .. C - 1 /\ sent \in 0 .. NBytes - 1 /\ wpos = (rpos + len) % C
  BY ZenonT(30), <1>2, PipeAssumption DEF PipeTypeOK, RingInv
<1>4. k \in 1 .. C - len /\ len + k \in 0 .. C /\ k \in Nat
  BY <1>1, <1>3, PipeAssumption DEF Smaller
<1>5. ~eof /\ Created
  <2>1. ~Unheld(fds, reading, "w")
    BY ZenonT(30), <1>1 DEF Unheld
  <2> QED
    BY ZenonT(30), <1>2, <2>1 DEF FdInv, RingInv
<1>6. ring \in [0 .. C - 1 -> 0 .. NBytes - 1]
  BY ZenonT(30), <1>2, <1>5 DEF PipeTypeOK, Created
<1> HIDE DEF k
<1> DEFINE off(a) == (a - wpos + C) % C
<1>7. \A a \in 0 .. C - 1 : ring'[a] = IF off(a) < k THEN (sent + off(a)) % NBytes ELSE ring[a]
  BY ZenonT(30), <1>1 DEF Written
<1>8. \A a \in 0 .. C - 1 : off(a) \in 0 .. C - 1
  <2> SUFFICES ASSUME NEW a \in 0 .. C - 1
               PROVE  off(a) \in 0 .. C - 1
    OBVIOUS
  <2>1. a - wpos + C \in Int
    BY <1>3
  <2> QED
    BY ZenonT(30), <1>3, <2>1, ModRange
<1>9. \A x \in Nat : (sent + x) % NBytes \in 0 .. NBytes - 1
  <2> SUFFICES ASSUME NEW x \in Nat
               PROVE  (sent + x) % NBytes \in 0 .. NBytes - 1
    OBVIOUS
  <2>1. sent + x \in Int
    BY <1>3
  <2> QED
    BY ZenonT(30), <1>3, <2>1, ModRange
<1>10. ring' \in [0 .. C - 1 -> 0 .. NBytes - 1]
  <2>1. \A a \in 0 .. C - 1 : ring'[a] \in 0 .. NBytes - 1
    <3> SUFFICES ASSUME NEW a \in 0 .. C - 1
                 PROVE  ring'[a] \in 0 .. NBytes - 1
      OBVIOUS
    <3>1. off(a) \in Nat
      BY <1>3, <1>8
    <3>2. (sent + off(a)) % NBytes \in 0 .. NBytes - 1
      BY ZenonT(30), <1>9, <3>1
    <3> HIDE DEF off
    <3> QED
      BY ZenonT(30), <1>6, <1>7, <3>2
  <2>2. ring' = [a \in 0 .. C - 1 |-> ring'[a]]
    BY ZenonT(30), <1>1 DEF Written
  <2> QED
    BY ZenonT(30), <2>1, <2>2
\* The byte in place j after the change, and where it is in the array.
<1> DEFINE at(j) == (rpos + j - 1) % C
<1>11. \A j \in 1 .. len + k :
          /\ at(j) \in 0 .. C - 1
          /\ off(at(j)) = IF j - 1 < len THEN C - len + (j - 1) ELSE (j - 1) - len
  <2> SUFFICES ASSUME NEW j \in 1 .. len + k
               PROVE  /\ at(j) \in 0 .. C - 1
                      /\ off(at(j)) = IF j - 1 < len THEN C - len + (j - 1) ELSE (j - 1) - len
    OBVIOUS
  <2> DEFINE m == j - 1
  <2>1. m \in 0 .. C - 1 /\ rpos + j - 1 = rpos + m /\ rpos + m \in Int
    BY <1>3, <1>4
  <2>2. at(j) = (rpos + m) % C
    BY ZenonT(30), <2>1
  <2> HIDE DEF m
  <2>3. (rpos + m) % C \in 0 .. C - 1
    BY ZenonT(30), <1>3, <2>1, ModRange
  <2>4. (((rpos + m) % C) - ((rpos + len) % C) + C) % C = IF m < len THEN C - len + m ELSE m - len
    BY <1>3, <2>1, Offset
  <2> QED
    BY ZenonT(30), <1>3, <2>2, <2>3, <2>4 DEF m
<1> HIDE DEF off
<1>12. \A j \in 1 .. len : ring'[at(j)] = ring[at(j)]
  <2> SUFFICES ASSUME NEW j \in 1 .. len
               PROVE  ring'[at(j)] = ring[at(j)]
    OBVIOUS
  <2>1. j \in 1 .. len + k /\ j - 1 < len /\ C - len + (j - 1) >= k
    BY <1>3, <1>4
  <2>2. at(j) \in 0 .. C - 1 /\ off(at(j)) = C - len + (j - 1)
    BY ZenonT(30), <1>11, <2>1
  <2> HIDE DEF at
  <2>3. ~(off(at(j)) < k)
    BY <1>3, <1>4, <2>1, <2>2
  <2> QED
    BY ZenonT(30), <1>7, <2>2, <2>3
<1>13. \A m \in 1 .. k : ring'[at(len + m)] = (sent + m - 1) % NBytes
  <2> SUFFICES ASSUME NEW m \in 1 .. k
               PROVE  ring'[at(len + m)] = (sent + m - 1) % NBytes
    OBVIOUS
  <2> DEFINE j == len + m
  <2>1. j \in 1 .. len + k /\ ~(j - 1 < len) /\ (j - 1) - len = m - 1 /\ m - 1 < k /\ sent + (m - 1) = sent + m - 1
    BY <1>3, <1>4
  <2> HIDE DEF j
  <2>2. at(j) \in 0 .. C - 1 /\ off(at(j)) = m - 1
    BY ZenonT(30), <1>11, <2>1
  <2> HIDE DEF at
  <2>3. ring'[at(j)] = (sent + (m - 1)) % NBytes
    BY ZenonT(30), <1>7, <2>1, <2>2
  <2> QED
    BY ZenonT(30), <2>1, <2>3 DEF j
<1> DEFINE new == [m \in 1 .. k |-> (sent + m - 1) % NBytes]
<1>14. new \in Seq(0 .. NBytes - 1) /\ Len(new) = k
  <2>1. \A m \in 1 .. k : (sent + m - 1) % NBytes \in 0 .. NBytes - 1
    <3> SUFFICES ASSUME NEW m \in 1 .. k
                 PROVE  (sent + m - 1) % NBytes \in 0 .. NBytes - 1
      OBVIOUS
    <3>1. sent + m - 1 \in Int
      BY <1>3, <1>4
    <3> QED
      BY ZenonT(30), <1>3, <3>1, ModRange
  <2>2. new \in [1 .. k -> 0 .. NBytes - 1]
    BY ZenonT(30), <2>1
  <2> HIDE DEF new
  <2> QED
    BY ZenonT(30), <1>4, <2>2, FunctionIsSeq
<1>15. Contents' = [j \in 1 .. len + k |-> ring'[at(j)]]
  BY ZenonT(30), <1>1 DEF Contents
<1>16. /\ Contents \in Seq(0 .. NBytes - 1) /\ Len(Contents) = len
       /\ \A j \in 1 .. len : Contents[j] = ring[at(j)]
  BY ZenonT(30), <1>2, ContentsSeq
<1>17. \A m \in 1 .. k : new[m] = ring'[at(len + m)]
  BY ZenonT(30), <1>13
<1> HIDE DEF at, new
<1>18. Contents' = Contents \o new
  <2> DEFINE q == Contents \o new
  <2>1. /\ q \in Seq(0 .. NBytes - 1) /\ Len(q) = len + k
        /\ \A j \in 1 .. len + k : q[j] = IF j <= len THEN Contents[j] ELSE new[j - len]
    BY ZenonT(30), <1>14, <1>16, ConcatProperties
  <2> HIDE DEF q
  <2>2. q = [j \in 1 .. len + k |-> q[j]]
    BY <2>1
  <2>3. \A j \in 1 .. len + k : q[j] = ring'[at(j)]
    <3> SUFFICES ASSUME NEW j \in 1 .. len + k
                 PROVE  q[j] = ring'[at(j)]
      OBVIOUS
    <3>1. CASE j <= len
      <4>1. j \in 1 .. len
        BY <1>3, <3>1
      <4> QED
        BY ZenonT(30), <1>12, <1>16, <2>1, <3>1, <4>1
    <3>2. CASE ~(j <= len)
      <4> DEFINE m == j - len
      <4>1. m \in 1 .. k /\ len + m = j
        BY <1>3, <1>4, <3>2
      <4> HIDE DEF m
      <4>2. new[m] = ring'[at(j)]
        BY ZenonT(30), <1>17, <4>1
      <4> QED
        BY ZenonT(30), <2>1, <3>2, <4>2 DEF m
    <3> QED
      BY ZenonT(30), <3>1, <3>2
  <2>4. q = Contents'
    BY ZenonT(30), <1>15, <2>2, <2>3
  <2> QED
    BY ZenonT(30), <2>4 DEF q
<1>19. Chan!Accept
  <2>1. k \in 1 .. PipeCap - Len(Contents)
    BY ZenonT(30), <1>4, <1>16
  <2> QED
    BY ZenonT(30), <1>1, <1>5, <1>18, <2>1 DEF Chan!Accept, new
<1>20. wpos' \in 0 .. C - 1 /\ wpos' = (rpos' + len') % C /\ sent' \in 0 .. NBytes - 1
  <2>1. sent' \in 0 .. NBytes - 1
    BY ZenonT(30), <1>1, <1>4, <1>9
  <2>2. wpos = IF rpos + len < C THEN rpos + len ELSE rpos + len - C
    BY ZenonT(30), <1>3, Place
  <2>3. k \in 0 .. C
    BY <1>3, <1>4
  <2>4. (wpos + k) % C = IF wpos + k < C THEN wpos + k ELSE wpos + k - C
    BY ZenonT(30), <1>3, <2>3, Place
  <2> DEFINE b == (rpos + (len + k)) % C
  <2>5. b = IF rpos + (len + k) < C THEN rpos + (len + k) ELSE rpos + (len + k) - C
    BY ZenonT(30), <1>3, <1>4, Place
  <2> HIDE DEF b
  <2> DEFINE w == (wpos + k) % C
  <2>6. w = IF wpos + k < C THEN wpos + k ELSE wpos + k - C
    BY ZenonT(30), <2>4
  <2> HIDE DEF w
  <2>7. w = b /\ w \in 0 .. C - 1
    BY <1>3, <1>4, <2>2, <2>5, <2>6
  <2> QED
    BY ZenonT(30), <1>1, <2>1, <2>7 DEF w, b
<1> QED
  BY ZenonT(30), <1>1, <1>4, <1>10, <1>19, <1>20

\* read takes from the front.
LEMMA ReadYields ==
    ASSUME PipeInv, NEW p \in Procs, ReadBytes(p)
    PROVE  /\ Chan!Yield \/ UNCHANGED <<Contents, sent, eof>>
           /\ rpos' \in 0 .. PipeCap - 1 /\ len' \in 0 .. PipeCap
           /\ wpos' = (rpos' + len') % PipeCap
<1> DEFINE C == PipeCap
           k == Smaller(want[p], len)
<1>1. /\ len > 0 /\ rpos' = (rpos + k) % C /\ len' = len - k
      /\ UNCHANGED <<ring, wpos, sent, eof>>
  BY ZenonT(30) DEF ReadBytes
<1>2. PipeTypeOK /\ RingInv
  BY ZenonT(30) DEF PipeInv
<1>3. /\ C \in Nat \ {0} /\ len \in 0 .. C /\ rpos \in 0 .. C - 1
      /\ wpos \in 0 .. C - 1 /\ wpos = (rpos + len) % C /\ want[p] \in Nat
  BY <1>2, PipeAssumption DEF PipeTypeOK, RingInv
<1>4. k \in 0 .. len /\ len - k \in 0 .. C /\ k \in 0 .. C /\ (k = 0 \/ k \in 1 .. len)
  BY <1>1, <1>3 DEF Smaller
<1> HIDE DEF k
<1> DEFINE r == (rpos + k) % C
<1>5. r = IF rpos + k < C THEN rpos + k ELSE rpos + k - C
  BY ZenonT(30), <1>3, <1>4, Place
<1> HIDE DEF r
<1>6. r \in 0 .. C - 1
  BY <1>3, <1>4, <1>5
<1>7. \A j \in 0 .. len - k : (r + j) % C = (rpos + (k + j)) % C
  <2> SUFFICES ASSUME NEW j \in 0 .. len - k
               PROVE  (r + j) % C = (rpos + (k + j)) % C
    OBVIOUS
  <2> DEFINE x == (r + j) % C
             y == (rpos + (k + j)) % C
  <2>1. j \in 0 .. C /\ k + j \in 0 .. C
    BY <1>3, <1>4
  <2>2. x = IF r + j < C THEN r + j ELSE r + j - C
    BY ZenonT(30), <1>3, <1>6, <2>1, Place
  <2>3. y = IF rpos + (k + j) < C THEN rpos + (k + j) ELSE rpos + (k + j) - C
    BY ZenonT(30), <1>3, <2>1, Place
  <2> HIDE DEF x, y
  <2>4. x = y
    BY <1>3, <1>4, <1>5, <2>1, <2>2, <2>3
  <2> QED
    BY ZenonT(30), <2>4 DEF x, y
<1>8. rpos' = r
  BY ZenonT(30), <1>1 DEF r
<1>9. wpos' = (rpos' + len') % C
  <2>1. (r + (len - k)) % C = (rpos + (k + (len - k))) % C
    BY <1>3, <1>4, <1>7
  <2>2. k + (len - k) = len
    BY <1>3, <1>4
  <2> QED
    BY ZenonT(30), <1>1, <1>3, <1>8, <2>1, <2>2
<1>10. ASSUME k \in 1 .. len
       PROVE  Chan!Yield
  <2>1. /\ Contents \in Seq(0 .. NBytes - 1) /\ Len(Contents) = len
        /\ \A j \in 1 .. len : Contents[j] = ring[(rpos + j - 1) % C]
    BY ZenonT(30), <1>2, ContentsSeq
  <2> DEFINE q == SubSeq(Contents, k + 1, len)
  <2>2. k + 1 \in 1 .. len + 1 /\ len \in k .. len /\ k \in Nat /\ len \in Nat
    BY <1>3, <1>4
  <2>3. q = [j \in 1 .. len - k |-> Contents[k + j]]
    <3>1. q = [j \in 1 .. (len - (k + 1) + 1) |-> Contents[j + (k + 1) - 1]]
      BY <2>1, <2>2
    <3>2. (len - (k + 1) + 1) = len - k /\ \A j \in 1 .. len - k : j + (k + 1) - 1 = k + j
      BY <2>2
    <3> QED
      BY ZenonT(30), <3>1, <3>2
  <2>4. Contents' = [j \in 1 .. len - k |-> ring[(r + j - 1) % C]]
    BY ZenonT(30), <1>1, <1>8 DEF Contents
  <2>5. \A j \in 1 .. len - k : Contents[k + j] = ring[(r + j - 1) % C]
    <3> SUFFICES ASSUME NEW j \in 1 .. len - k
                 PROVE  Contents[k + j] = ring[(r + j - 1) % C]
      OBVIOUS
    <3>1. /\ k + j \in 1 .. len /\ j - 1 \in 0 .. len - k /\ r + j - 1 = r + (j - 1)
          /\ rpos + (k + j) - 1 = rpos + (k + (j - 1))
      BY <1>3, <1>4, <1>6
    <3>2. (r + (j - 1)) % C = (rpos + (k + (j - 1))) % C
      BY ZenonT(30), <1>7, <3>1
    <3>3. Contents[k + j] = ring[(rpos + (k + j) - 1) % C]
      BY ZenonT(30), <2>1, <3>1
    <3> QED
      BY ZenonT(30), <3>1, <3>2, <3>3
  <2> HIDE DEF q
  <2>6. Contents' = q
    BY ZenonT(30), <2>3, <2>4, <2>5
  <2>7. k \in 1 .. Len(Contents) /\ Contents' = SubSeq(Contents, k + 1, Len(Contents))
    BY ZenonT(30), <1>4, <1>10, <2>1, <2>6 DEF q
  <2> QED
    BY ZenonT(30), <1>1, <2>7 DEF Chan!Yield
<1>11. ASSUME k = 0
       PROVE  UNCHANGED <<Contents, sent, eof>>
  <2>1. r = rpos /\ len' = len
    BY <1>1, <1>3, <1>5, <1>11
  <2>2. Contents' = Contents
    BY ZenonT(30), <1>1, <1>8, <2>1 DEF Contents
  <2> QED
    BY ZenonT(30), <1>1, <2>2
<1> QED
  BY ZenonT(30), <1>1, <1>4, <1>6, <1>8, <1>9, <1>10, <1>11

\* A descriptor call leaves the bytes alone.
LEMMA BytesKept ==
    ASSUME RingInv, UNCHANGED <<ring, rpos, wpos, len, sent, eof>>, eof => (wclosed => wclosed')
    PROVE  RingInv' /\ UNCHANGED <<Contents, sent, eof>>
  BY ZenonT(30) DEF RingInv, Contents, Created

\* Once the write end is closed, it stays closed.
LEMMA StaysClosed ==
    ASSUME NEW t, NEW h, Dropped(t, h)
    PROVE  wclosed => wclosed'
  BY ZenonT(30) DEF Dropped

\* At first.
LEMMA PipeInitial ==
    ASSUME PipeInit
    PROVE  PipeInv /\ Chan!ChanInit
<1>1. PICK n \in 0 .. MaxFds :
        fds = [p \in Procs |-> [i \in Slots |-> IF p = InitProc /\ i < n THEN "c" ELSE Nil]]
  BY ZenonT(30) DEF PipeInit
<1>2. /\ alive = {InitProc} /\ reading = [p \in Procs |-> Nil] /\ want = [p \in Procs |-> 0] /\ ring = Nil
      /\ rpos = 0 /\ wpos = 0 /\ len = 0 /\ sent = 0 /\ rclosed = FALSE /\ wclosed = FALSE /\ eof = FALSE
  BY ZenonT(30) DEF PipeInit
<1>3. fds \in [Procs -> [Slots -> Files \cup {Nil}]]
  BY ZenonT(30), <1>1 DEF Files
<1>4. PipeTypeOK
  <2>1. 0 \in 0 .. MaxWrite /\ 0 \in 0 .. NBytes - 1 /\ 0 \in 0 .. PipeCap - 1 /\ 0 \in 0 .. PipeCap
    BY PipeAssumption
  <2>2. InitProc \in Procs
    BY ZenonT(30), PipeAssumption
  <2> QED
    BY ZenonT(30), <1>2, <1>3, <2>1, <2>2 DEF PipeTypeOK
<1>5. \A p \in Procs, i \in Slots : fds[p][i] \in {"c", Nil} /\ (p # InitProc => fds[p][i] = Nil)
  BY ZenonT(30), <1>1
<1>6. FdInv
  BY ZenonT(30), <1>2, <1>5, PipeAssumption DEF FdInv, Unheld, Created
<1>7. (0 + 0) % PipeCap = 0
  <2>1. PipeCap \in Nat \ {0} /\ 0 \in 0 .. PipeCap - 1 /\ 0 + 0 = 0
    BY PipeAssumption
  <2> QED
    BY ZenonT(30), <2>1, ModSmall
<1>8. RingInv
  BY ZenonT(30), <1>2, <1>7 DEF RingInv, Created
<1>9. Contents = <<>>
  BY <1>2 DEF Contents
<1> QED
  BY ZenonT(30), <1>2, <1>4, <1>6, <1>8, <1>9 DEF PipeInv, Chan!ChanInit

\* The calls on a descriptor of one table.
LEMMA TableCall ==
    ASSUME PipeInv, NEW p \in alive, NEW t \in [Slots -> Files \cup {Nil}], Reshuffled(t, fds[p]),
           SetTable(p, t)
    PROVE  PipeInv' /\ UNCHANGED <<Contents, sent, eof>>
<1>1. PipeTypeOK /\ FdInv /\ RingInv
  BY ZenonT(30) DEF PipeInv
<1>2. FdInv' /\ fds' \in [Procs -> [Slots -> Files \cup {Nil}]] /\ rclosed' \in BOOLEAN /\ wclosed' \in BOOLEAN
  BY ZenonT(30), <1>1, TableStep
<1>3. UNCHANGED <<alive, reading, want, ring, rpos, wpos, len, sent, eof>> /\ (wclosed => wclosed')
  BY ZenonT(30), StaysClosed DEF SetTable, readVars, bufVars
<1>4. RingInv' /\ UNCHANGED <<Contents, sent, eof>>
  BY ZenonT(30), <1>1, <1>3, BytesKept
<1>5. PipeTypeOK'
  BY ZenonT(30), <1>1, <1>2, <1>3 DEF PipeTypeOK
<1> QED
  BY ZenonT(30), <1>2, <1>4, <1>5 DEF PipeInv

\* Every step of the pipe keeps the invariant and is a step of the queue.
LEMMA PipeStep ==
    ASSUME PipeInv, [PipeNext]_pipeVars
    PROVE  PipeInv' /\ [Chan!ChanNext]_<<Contents, sent, eof>>
<1>1. PipeTypeOK /\ FdInv /\ RingInv
  BY ZenonT(30) DEF PipeInv
<1>2. ASSUME NEW p \in Procs, SysPipe(p)
      PROVE  PipeInv' /\ UNCHANGED <<Contents, sent, eof>>
  <2>1. FdInv' /\ fds' \in [Procs -> [Slots -> Files \cup {Nil}]] /\ rclosed' \in BOOLEAN /\ wclosed' \in BOOLEAN
    BY ZenonT(30), <1>1, <1>2, SysPipeFds
  <2>2. /\ ~Created /\ ring' = [i \in 0 .. PipeCap - 1 |-> 0]
        /\ UNCHANGED <<alive, reading, want, rpos, wpos, len, sent, eof>>
    BY ZenonT(30), <1>2 DEF SysPipe, readVars
  <2>3. ring' \in [0 .. PipeCap - 1 -> 0 .. NBytes - 1]
    BY <2>2, PipeAssumption
  <2>4. len = 0 /\ ~eof
    BY ZenonT(30), <1>1, <2>2 DEF RingInv
  <2>5. PipeTypeOK'
    BY ZenonT(30), <1>1, <2>1, <2>2, <2>3 DEF PipeTypeOK
  <2>6. RingInv'
    BY ZenonT(30), <1>1, <2>2, <2>4 DEF RingInv
  <2>7. Contents = <<>> /\ Contents' = <<>>
    BY <2>2, <2>4 DEF Contents
  <2> QED
    BY ZenonT(30), <2>1, <2>2, <2>5, <2>6, <2>7 DEF PipeInv
<1>3. ASSUME NEW p \in Procs, ExitFds(p)
      PROVE  PipeInv' /\ UNCHANGED <<Contents, sent, eof>>
  <2>1. /\ FdInv' /\ fds' \in [Procs -> [Slots -> Files \cup {Nil}]] /\ alive' \subseteq Procs
        /\ rclosed' \in BOOLEAN /\ wclosed' \in BOOLEAN
    BY ZenonT(30), <1>1, <1>3, ExitFdsKeeps
  <2>2. UNCHANGED <<reading, want, ring, rpos, wpos, len, sent, eof>> /\ (wclosed => wclosed')
    BY ZenonT(30), <1>3, StaysClosed DEF ExitFds, readVars, bufVars
  <2>3. RingInv' /\ UNCHANGED <<Contents, sent, eof>>
    BY ZenonT(30), <1>1, <2>2, BytesKept
  <2>4. PipeTypeOK'
    BY ZenonT(30), <1>1, <2>1, <2>2 DEF PipeTypeOK
  <2> QED
    BY ZenonT(30), <2>1, <2>3, <2>4 DEF PipeInv
<1>4. ASSUME NEW p \in Procs, NEW c \in Procs, ForkFds(p, c)
      PROVE  PipeInv' /\ UNCHANGED <<Contents, sent, eof>>
  <2>1. FdInv' /\ fds' \in [Procs -> [Slots -> Files \cup {Nil}]] /\ alive' \subseteq Procs
    BY ZenonT(30), <1>1, <1>4, ForkFdsKeeps
  <2>2. UNCHANGED <<reading, want, ring, rpos, wpos, len, sent, eof, rclosed, wclosed>>
    BY ZenonT(30), <1>4 DEF ForkFds, readVars, bufVars, closedVars
  <2>3. RingInv' /\ UNCHANGED <<Contents, sent, eof>>
    BY ZenonT(30), <1>1, <2>2, BytesKept
  <2>4. PipeTypeOK'
    BY ZenonT(30), <1>1, <2>1, <2>2 DEF PipeTypeOK
  <2> QED
    BY ZenonT(30), <2>1, <2>3, <2>4 DEF PipeInv
<1>5. ASSUME NEW p \in Procs, NEW i \in Slots, Dup(p, i) \/ Close(p, i) \/ \E n \in Slots : Dup2(p, i, n)
      PROVE  PipeInv' /\ UNCHANGED <<Contents, sent, eof>>
  <2>1. fds[p] \in [Slots -> Files \cup {Nil}] /\ fds[p][i] \in Files \cup {Nil}
    BY <1>1 DEF PipeTypeOK
  <2>2. p \in alive
    BY ZenonT(30), <1>5 DEF Dup, Close, Dup2, InUser
  <2>3. CASE Dup(p, i)
    <3> DEFINE t == Alloced(fds[p], fds[p][i])
    <3>1. t \in [Slots -> Files \cup {Nil}] /\ Reshuffled(t, fds[p]) /\ SetTable(p, t)
      BY ZenonT(30), <2>1, <2>3, AllocReshuffles DEF Dup
    <3> HIDE DEF t
    <3> QED
      BY ZenonT(30), <2>2, <3>1, TableCall
  <2>4. CASE Close(p, i)
    <3> DEFINE t == [fds[p] EXCEPT ![i] = Nil]
    <3>1. SetTable(p, t)
      BY ZenonT(30), <2>4 DEF Close
    <3>2. t \in [Slots -> Files \cup {Nil}] /\ Reshuffled(t, fds[p])
      BY ZenonT(30), <2>1 DEF Reshuffled
    <3> HIDE DEF t
    <3> QED
      BY ZenonT(30), <2>2, <3>1, <3>2, TableCall
  <2>5. ASSUME NEW n \in Slots, Dup2(p, i, n)
        PROVE  PipeInv' /\ UNCHANGED <<Contents, sent, eof>>
    <3> DEFINE t == [fds[p] EXCEPT ![n] = fds[p][i]]
    <3>1. SetTable(p, t)
      BY ZenonT(30), <2>5 DEF Dup2
    <3>2. t \in [Slots -> Files \cup {Nil}] /\ Reshuffled(t, fds[p])
      BY ZenonT(30), <2>1 DEF Reshuffled
    <3> HIDE DEF t
    <3> QED
      BY ZenonT(30), <2>2, <3>1, <3>2, TableCall
  <2> QED
    BY ZenonT(30), <1>5, <2>3, <2>4, <2>5
<1>6. ASSUME NEW p \in Procs, NEW i \in Slots, NEW k \in 1 .. MaxWrite, SysRead(p, i, k)
      PROVE  PipeInv' /\ UNCHANGED <<Contents, sent, eof>>
  <2>1. FdInv' /\ reading' \in [Procs -> {"r", Nil}] /\ want' \in [Procs -> 0 .. MaxWrite]
    BY ZenonT(30), <1>1, <1>6, SysReadFds
  <2>2. UNCHANGED <<fds, alive, ring, rpos, wpos, len, sent, eof, rclosed, wclosed>>
    BY ZenonT(30), <1>6 DEF SysRead, fdVars, bufVars, closedVars
  <2>3. RingInv' /\ UNCHANGED <<Contents, sent, eof>>
    BY ZenonT(30), <1>1, <2>2, BytesKept
  <2>4. PipeTypeOK'
    BY ZenonT(30), <1>1, <2>1, <2>2 DEF PipeTypeOK
  <2> QED
    BY ZenonT(30), <2>1, <2>3, <2>4 DEF PipeInv
<1>7. ASSUME NEW p \in Procs, NEW i \in Slots, NEW k \in 1 .. MaxWrite, SysWrite(p, i, k)
      PROVE  PipeInv' /\ Chan!Accept
  <2>1. /\ Chan!Accept
        /\ ring' \in [0 .. PipeCap - 1 -> 0 .. NBytes - 1] /\ wpos' \in 0 .. PipeCap - 1
        /\ len' \in 0 .. PipeCap /\ sent' \in 0 .. NBytes - 1
        /\ wpos' = (rpos' + len') % PipeCap
    BY ZenonT(30), <1>7, WriteAppends
  <2>2. /\ fds[p][i] = "w" /\ UNCHANGED <<fds, alive, reading, want, rpos, rclosed, wclosed, eof>>
    BY ZenonT(30), <1>7 DEF SysWrite, fdVars, readVars, closedVars
  <2>3. PipeTypeOK'
    BY ZenonT(30), <1>1, <2>1, <2>2 DEF PipeTypeOK
  <2>4. Created /\ ~wclosed
    <3>1. ~Unheld(fds, reading, "w")
      BY ZenonT(30), <2>2 DEF Unheld
    <3> QED
      BY ZenonT(30), <1>1, <3>1 DEF FdInv
  <2>5. Created'
    BY ZenonT(30), <2>1, PipeAssumption DEF Created
  <2>6. FdInv'
    BY ZenonT(30), <1>1, <2>2, <2>4, <2>5 DEF FdInv
  <2>7. RingInv'
    BY ZenonT(30), <1>1, <2>1, <2>2, <2>4, <2>5 DEF RingInv
  <2> QED
    BY ZenonT(30), <2>1, <2>3, <2>6, <2>7 DEF PipeInv
<1>8. ASSUME NEW p \in Procs, ReadBytes(p)
      PROVE  PipeInv' /\ (Chan!Yield \/ UNCHANGED <<Contents, sent, eof>>)
  <2>1. /\ Chan!Yield \/ UNCHANGED <<Contents, sent, eof>>
        /\ rpos' \in 0 .. PipeCap - 1 /\ len' \in 0 .. PipeCap
        /\ wpos' = (rpos' + len') % PipeCap
    BY ZenonT(30), <1>8, ReadYields
  <2>2. len > 0 /\ ReadReturns(p) /\ UNCHANGED <<fds, alive, ring, wpos, sent, eof>>
    BY ZenonT(30), <1>8 DEF ReadBytes, fdVars
  <2>3. /\ FdInv' /\ reading' \in [Procs -> {"r", Nil}] /\ want' \in [Procs -> 0 .. MaxWrite]
        /\ rclosed' \in BOOLEAN /\ wclosed' \in BOOLEAN
    BY ZenonT(30), <1>1, <2>2, ReadReturnsFds
  <2>4. PipeTypeOK'
    BY ZenonT(30), <1>1, <2>1, <2>2, <2>3 DEF PipeTypeOK
  <2>5. Created /\ ~eof
    BY <1>1, <2>2 DEF RingInv, PipeTypeOK
  <2>6. RingInv'
    BY ZenonT(30), <2>1, <2>2, <2>5 DEF RingInv, Created
  <2> QED
    BY ZenonT(30), <2>1, <2>3, <2>4, <2>6 DEF PipeInv
<1>9. ASSUME NEW p \in Procs, ReadEof(p)
      PROVE  PipeInv' /\ Chan!EndOfFile
  <2>1. /\ len = 0 /\ wclosed /\ eof' = TRUE /\ ReadReturns(p)
        /\ UNCHANGED <<fds, alive, ring, rpos, wpos, len, sent>>
    BY ZenonT(30), <1>9 DEF ReadEof, fdVars, bufVars
  <2>2. /\ FdInv' /\ reading' \in [Procs -> {"r", Nil}] /\ want' \in [Procs -> 0 .. MaxWrite]
        /\ rclosed' \in BOOLEAN /\ wclosed' \in BOOLEAN
    BY ZenonT(30), <1>1, <2>1, ReadReturnsFds
  <2>3. wclosed'
    BY ZenonT(30), <2>1, StaysClosed DEF ReadReturns
  <2>4. Created
    BY ZenonT(30), <1>1, <2>1 DEF FdInv
  <2>5. PipeTypeOK'
    BY ZenonT(30), <1>1, <2>1, <2>2 DEF PipeTypeOK
  <2>6. RingInv'
    BY ZenonT(30), <1>1, <2>1, <2>3, <2>4 DEF RingInv, Created
  <2>7. Contents = <<>> /\ Contents' = Contents
    BY <2>1 DEF Contents
  <2> QED
    BY ZenonT(30), <2>1, <2>2, <2>5, <2>6, <2>7 DEF PipeInv, Chan!EndOfFile
<1>10. CASE UNCHANGED pipeVars
  <2>1. UNCHANGED <<fds, alive, reading, want, ring, rpos, wpos, len, sent, rclosed, wclosed, eof>>
    BY ZenonT(30), <1>10 DEF pipeVars, fdVars, readVars, bufVars, closedVars
  <2> QED
    BY ZenonT(30), <1>1, <2>1 DEF PipeInv, PipeTypeOK, FdInv, RingInv, Created, Contents, Unheld
<1>11. CASE PipeNext
  BY ZenonT(30), <1>2, <1>3, <1>4, <1>5, <1>6, <1>7, <1>8, <1>9, <1>11 DEF PipeNext, Chan!ChanNext
<1> QED
  BY ZenonT(30), <1>10, <1>11

\* The invariant of the pipe.
THEOREM PipeInvariant == PipeSpec => []PipeInv
  BY PipeInitial, PipeStep, PTL DEF PipeSpec

\* The ring buffer implements a queue of bytes: nothing is lost, repeated or
\* reordered, for any capacity and any number of holders of the two ends.
THEOREM PipeRefinesChannel == PipeSpec => PipeIsChannel
<1>1. PipeInit => Chan!ChanInit
  BY ZenonT(30), PipeInitial
<1>2. PipeInv /\ [PipeNext]_pipeVars => [Chan!ChanNext]_(Chan!chanVars)
  BY ZenonT(30), PipeStep DEF Chan!chanVars
<1> QED
  BY <1>1, <1>2, PipeInvariant, PTL DEF PipeSpec, PipeIsChannel, Chan!ChanSpec

\* An end is closed exactly when no descriptor and no read in progress refers
\* to it.
THEOREM ClosedExactly == PipeSpec => []ClosedIsUnreferenced
<1>1. PipeInv => ClosedIsUnreferenced
  BY ZenonT(30), UnheldIsUnreferenced DEF PipeInv, FdInv, ClosedIsUnreferenced
<1> QED
  BY <1>1, PipeInvariant, PTL

-------------------------------------------------------------------------------
(* Permissions: the invariant *)

\* What security/ keeps of a process, and what a file system keeps of a file.
Credential == [uid : Uids, euid : Uids, gid : Gids, egid : Gids, perm : BOOLEAN, eff : BOOLEAN]
Metadata == [t : {"none", "file", "dir", "gone"}, mode : Modes \cup {AllBits, Unused.mode}, uid : Uids,
             gid : Gids, full : BOOLEAN, up : Inodes \cup {0}, name : Names \cup {""}]
Descriptor == [ino : Inodes, acc : {"r", "w"}]

\* The real and the effective user are the same, as no call sets one alone, and
\* whoever has a capability is root.
NoSplit(c) == c.uid = c.euid /\ (c.eff => c.uid = 0)

\* The invariant: the types, and NoSplit for every process that lives.
AccInv ==
    /\ cred \in [Tasks -> Credential \cup {Dead}]
    /\ inode \in [Inodes -> Metadata]
    /\ files \in [Tasks -> Seq(Descriptor)]
    /\ \A p \in Tasks : Live(p) => NoSplit(cred[p])

\* No user is -1, so no process that lives has the credentials of a dead one.
LEMMA DeadIsNobody == Dead \notin Credential
  BY AccessAssumption DEF Dead, Credential

\* What sys_setuid and sys_setgid make of the credentials c, and sys_rename of
\* the metadata m.
AfterSetUid(c, u) ==
    DropForUidChange(c, IF HasCap(c) THEN [c EXCEPT !.uid = u, !.euid = u] ELSE [c EXCEPT !.euid = u])
AfterSetGid(c, g) == IF HasCap(c) THEN [c EXCEPT !.gid = g, !.egid = g] ELSE [c EXCEPT !.egid = g]
MovedTo(m, d, n) == [m EXCEPT !.up = d, !.name = n]

\* drop_for_uid_change after setuid: the identities stay together, and nobody
\* but root comes out with capabilities.
LEMMA SetUidDrops ==
    ASSUME NEW c \in Credential, NoSplit(c), NEW u \in Uids, HasCap(c) \/ u \in {c.uid, c.euid},
           NEW e, e = AfterSetUid(c, u)
    PROVE  /\ e \in Credential /\ NoSplit(e)
           /\ HasCap(e) => HasCap(c) /\ c.uid = 0
  <1>0. e = DropForUidChange(c, IF HasCap(c) THEN [c EXCEPT !.uid = u, !.euid = u] ELSE [c EXCEPT !.euid = u])
    BY ZenonT(30) DEF AfterSetUid
  <1>1. CASE HasCap(c)
    <2>1. c.uid = 0 /\ c.euid = 0
      BY ZenonT(30), <1>1 DEF HasCap, NoSplit
    <2> DEFINE b == [c EXCEPT !.uid = u, !.euid = u]
    <2>2. /\ b \in Credential /\ b.uid = u /\ b.euid = u /\ b.eff = c.eff /\ b.perm = c.perm
          /\ e = DropForUidChange(c, b)
      BY <1>0, <1>1, ZenonT(30) DEF Credential
    <2> HIDE DEF b
    <2>3. CASE u = 0
      <3>1. e = b
        BY ZenonT(30), <2>1, <2>2, <2>3 DEF DropForUidChange
      <3> QED  BY ZenonT(30), <1>1, <2>1, <2>2, <2>3, <3>1 DEF NoSplit
    <2>4. CASE u # 0
      <3>1. e = [b EXCEPT !.perm = FALSE, !.eff = FALSE]
        BY ZenonT(30), <2>1, <2>2, <2>4 DEF DropForUidChange
      <3>2. e \in Credential /\ e.uid = u /\ e.euid = u /\ e.eff = FALSE
        BY ZenonT(30), <2>2, <3>1 DEF Credential
      <3> QED  BY ZenonT(30), <2>4, <3>2 DEF NoSplit, HasCap
    <2> QED  BY ZenonT(30), <2>3, <2>4
  <1>2. CASE ~HasCap(c)
    <2>1. c.euid # 0 /\ c.uid = c.euid /\ c.eff = FALSE /\ u = c.euid
      BY ZenonT(30), <1>2 DEF HasCap, NoSplit, Credential
    <2> DEFINE b == [c EXCEPT !.euid = u]
    <2>2. b = c /\ e = DropForUidChange(c, b)
      BY <1>0, <1>2, <2>1 DEF Credential
    <2> HIDE DEF b
    <2>3. e = c
      BY ZenonT(30), <2>1, <2>2 DEF DropForUidChange
    <2> QED  BY ZenonT(30), <1>2, <2>3
  <1> QED  BY ZenonT(30), <1>1, <1>2

\* What is above a file and is not the file is above its directory.
LEMMA AboveParent ==
    ASSUME NEW i \in Inodes \ {Root}, NEW d \in Inodes, inode[i].up = d, NEW x \in Above(i), x # i
    PROVE  x \in Above(d)
  <1>1. x \in Inodes
    BY ZenonT(30) DEF Above
  <1>2. ASSUME NEW S \in SUBSET Inodes, d \in S, \A j \in S \ {Root} : inode[j].up \in S
        PROVE  x \in S
    <2>1. S \cup {i} \in SUBSET Inodes /\ i \in S \cup {i}
      OBVIOUS
    <2>2. \A j \in (S \cup {i}) \ {Root} : inode[j].up \in S \cup {i}
      BY ZenonT(30), <1>2
    <2>3. x \in S \cup {i}
      BY <2>1, <2>2, ZenonT(30) DEF Above
    <2> QED  BY ZenonT(30), <2>3
  <1> QED  BY <1>1, <1>2, ZenonT(30) DEF Above

\* Whoever walked to d without capabilities may search all that is above an entry of d.
LEMMA Walked ==
    ASSUME NEW c, ~HasCap(c), NEW d \in Dirs, NEW n, NEW i \in At(d, n), Search(c, d)
    PROVE  \A x \in Above(i) \ {i} : CanAccess(c, inode[x], "x")
  <1>1. i \in Inodes \ {Root} /\ inode[i].up = d /\ d \in Inodes
    BY ZenonT(30) DEF At, Dirs
  <1>2. \A x \in Above(d) : CanAccess(c, inode[x], "x")
    BY ZenonT(30) DEF Search
  <1> QED  BY <1>1, <1>2, AboveParent, ZenonT(30)

\* lookup_path finds an entry that is there.
LEMMA FileIs ==
    ASSUME NEW d, NEW n, Holds(d, n)
    PROVE  /\ File(d, n) \in At(d, n) /\ File(d, n) \in Inodes /\ File(d, n) # Root /\ Named(File(d, n))
  BY ZenonT(30) DEF Holds, File, At

\* The first free inode is free.
LEMMA FreeIs ==
    ASSUME FreeSlot # {}
    PROVE  FirstFree \in Inodes /\ inode[FirstFree].t = "none"
  <1>1. FreeSlot \subseteq Inodes /\ FreeSlot \subseteq Nat
    BY AccessAssumption DEF FreeSlot, Inodes
  <1>2. PICK i \in FreeSlot : \A j \in FreeSlot : i <= j
    BY ZenonT(30), <1>1, Least
  <1>3. FirstFree \in FreeSlot
    BY <1>2, ZenonT(30) DEF FirstFree
  <1> QED  BY ZenonT(30), <1>3 DEF FreeSlot

-------------------------------------------------------------------------------
(* Calls through a path *)

\* The inodes of the descriptors a step gives to p.
NewFiles(p) == {files'[p][k].ino : k \in DOMAIN files'[p] \ DOMAIN files[p]}

\* What SearchGuards and DataGuards ask of a call of p.
Guarded(p) ==
    /\ \A i \in Inodes \ {Root} :
         Named(i) /\ (inode'[i] # inode[i] \/ i \in NewFiles(p)) =>
             \A x \in Above(i) \ {i} : CanAccess(cred[p], inode[x], "x")
    /\ \A i \in Inodes :
         Named(i) /\ inode'[i].t = inode[i].t /\ inode'[i].full # inode[i].full =>
             CanAccess(cred[p], inode[i], "w")

\* Every call through a path: it asks who is calling, leaves the credentials
\* alone and keeps the types, and without capabilities its caller is guarded.
PathCall(p) ==
    /\ ByPath(p) /\ UNCHANGED cred
    /\ inode' \in [Inodes -> Metadata] /\ files' \in [Tasks -> Seq(Descriptor)]
    /\ ~HasCap(cred[p]) => Guarded(p)

\* A call that touches only entries of directories it has walked to, and
\* empties only what it may write, is guarded.
LEMMA TouchesWalked ==
    ASSUME NEW p, NEW T, ~HasCap(cred[p]),
           \A i \in Inodes \ T : inode'[i] = inode[i],
           NewFiles(p) \subseteq T,
           \A i \in T : Named(i) => \E d \in Dirs, n \in Names : i \in At(d, n) /\ Search(cred[p], d),
           \A i \in T : Named(i) => \/ inode'[i].t # inode[i].t
                                    \/ inode'[i].full = inode[i].full
                                    \/ CanAccess(cred[p], inode[i], "w")
    PROVE  Guarded(p)
  <1>1. ASSUME NEW i \in Inodes \ {Root}, Named(i), inode'[i] # inode[i] \/ i \in NewFiles(p)
        PROVE  \A x \in Above(i) \ {i} : CanAccess(cred[p], inode[x], "x")
    <2>1. i \in T
      BY <1>1, ZenonT(30)
    <2>2. PICK d \in Dirs, n \in Names : i \in At(d, n) /\ Search(cred[p], d)
      BY <1>1, <2>1, ZenonT(30)
    <2> QED  BY <2>2, Walked, ZenonT(30)
  <1>2. ASSUME NEW i \in Inodes, Named(i), inode'[i].t = inode[i].t, inode'[i].full # inode[i].full
        PROVE  CanAccess(cred[p], inode[i], "w")
    <2>1. i \in T
      BY <1>2, ZenonT(30)
    <2> QED  BY <1>2, <2>1, ZenonT(30)
  <1> QED  BY <1>1, <1>2, ZenonT(30) DEF Guarded

\* FdTable::alloc adds at most the file just opened.
LEMMA OpenedIs ==
    ASSUME AccInv, NEW p \in Tasks, NEW i \in Inodes, NEW acc \in {"r", "w"}, files' = Opened(p, i, acc)
    PROVE  files' \in [Tasks -> Seq(Descriptor)] /\ NewFiles(p) \subseteq {i}
  <1>1. files \in [Tasks -> Seq(Descriptor)] /\ files[p] \in Seq(Descriptor)
    BY ZenonT(30) DEF AccInv
  <1> DEFINE f == [ino |-> i, acc |-> acc]
  <1>2. f \in Descriptor /\ f.ino = i
    BY ZenonT(30) DEF Descriptor
  <1> HIDE DEF f
  <1>3. CASE Len(files[p]) < MaxFiles
    <2>1. files' = [files EXCEPT ![p] = Append(files[p], f)]
      BY ZenonT(30), <1>3 DEF Opened, f
    <2>2. Append(files[p], f) \in Seq(Descriptor)
      BY <1>1, <1>2
    <2>3. files' \in [Tasks -> Seq(Descriptor)] /\ files'[p] = Append(files[p], f)
      BY ZenonT(30), <1>1, <2>1, <2>2
    <2>4. \A k \in DOMAIN files'[p] \ DOMAIN files[p] : files'[p][k] = f
      BY <1>1, <1>2, <2>3
    <2> QED  BY <1>2, <2>3, <2>4, ZenonT(30) DEF NewFiles
  <1>4. CASE ~(Len(files[p]) < MaxFiles)
    <2>1. files' = files
      BY ZenonT(30), <1>4 DEF Opened
    <2> QED  BY <1>1, <2>1, ZenonT(30) DEF NewFiles
  <1> QED  BY ZenonT(30), <1>3, <1>4

\* A call that opens nothing.
LEMMA NothingOpened ==
    ASSUME NEW p, files' = files
    PROVE  NewFiles(p) = {}
  BY ZenonT(30) DEF NewFiles

\* Changing one inode.
LEMMA OneChanged ==
    ASSUME inode \in [Inodes -> Metadata], NEW i \in Inodes, NEW m \in Metadata, inode' = [inode EXCEPT ![i] = m]
    PROVE  /\ inode' \in [Inodes -> Metadata] /\ inode'[i] = m
           /\ \A j \in Inodes \ {i} : inode'[j] = inode[j]
  OBVIOUS

\* Setting one field of an inode keeps the others.
LEMMA FieldSet ==
    ASSUME NEW m \in Metadata
    PROVE  /\ \A b \in BOOLEAN : [m EXCEPT !.full = b] \in Metadata /\ [m EXCEPT !.full = b].t = m.t
           /\ \A a \in Modes : /\ [m EXCEPT !.mode = a] \in Metadata /\ [m EXCEPT !.mode = a].full = m.full
           /\ \A d \in Inodes, n \in Names : [m EXCEPT !.up = d, !.name = n] \in Metadata
                                             /\ [m EXCEPT !.up = d, !.name = n].full = m.full
           /\ \A u \in Uids, g \in Gids : [m EXCEPT !.uid = u, !.gid = g] \in Metadata
           /\ [m EXCEPT !.t = "gone", !.up = 0, !.name = ""] \in Metadata
           /\ [m EXCEPT !.t = "gone", !.up = 0, !.name = ""].t = "gone"
  <1>1. \A b \in BOOLEAN : [m EXCEPT !.full = b] \in Metadata /\ [m EXCEPT !.full = b].t = m.t
    BY ZenonT(30) DEF Metadata
  <1>2. \A a \in Modes : /\ [m EXCEPT !.mode = a] \in Metadata /\ [m EXCEPT !.mode = a].full = m.full
    BY ZenonT(30) DEF Metadata
  <1>3. \A d \in Inodes, n \in Names : [m EXCEPT !.up = d, !.name = n] \in Metadata
                                       /\ [m EXCEPT !.up = d, !.name = n].full = m.full
    BY ZenonT(30) DEF Metadata
  <1>4. \A u \in Uids, g \in Gids : [m EXCEPT !.uid = u, !.gid = g] \in Metadata
    BY ZenonT(30) DEF Metadata
  <1>5. [m EXCEPT !.t = "gone", !.up = 0, !.name = ""] \in Metadata
    BY ZenonT(30) DEF Metadata
  <1>6. [m EXCEPT !.t = "gone", !.up = 0, !.name = ""].t = "gone"
    BY ZenonT(30) DEF Metadata
  <1> QED  BY <1>1, <1>2, <1>3, <1>4, <1>5, <1>6, ZenonT(30)

\* A removed name leaves no file or directory behind.
LEMMA GoneIs ==
    ASSUME AccInv, NEW i \in Inodes
    PROVE  Gone(i) \in Metadata /\ Gone(i).t \in {"none", "gone"}
  <1>1. inode[i] \in Metadata
    BY ZenonT(30) DEF AccInv
  <1>2. Unused \in Metadata /\ Unused.t = "none"
    BY ZenonT(30), AccessAssumption DEF Unused, Metadata
  <1>3. Gone(i) \in {Unused, [inode[i] EXCEPT !.t = "gone", !.up = 0, !.name = ""]}
    BY ZenonT(30) DEF Gone
  <1> QED  BY <1>1, <1>2, <1>3, FieldSet, ZenonT(30)

\* A new file or directory is its maker's.
LEMMA NewIs ==
    ASSUME AccInv, NEW p \in Tasks, Live(p), NEW t \in {"file", "dir"}, NEW m \in Modes, NEW d \in Dirs, NEW n \in Names
    PROVE  New(p, t, m, d, n) \in Metadata
  <1>1. cred[p] \in Credential
    BY ZenonT(30) DEF AccInv, Live
  <1>2. d \in Inodes
    BY ZenonT(30) DEF Dirs
  <1>3. cred[p].euid \in Uids /\ cred[p].egid \in Gids
    BY ZenonT(30), <1>1 DEF Credential
  <1> QED  BY ZenonT(30), <1>2, <1>3 DEF New, Metadata

\* sys_open of a file that is there.
LEMMA OpenStep ==
    ASSUME AccInv, NEW p \in Tasks, NEW d \in Dirs, NEW n \in Names, NEW acc \in {"r", "w"}, NEW trunc \in BOOLEAN,
           OpenFile(p, d, n, acc, trunc)
    PROVE  PathCall(p)
  <1> DEFINE i == File(d, n)
  <1>1. /\ ByPath(p) /\ UNCHANGED cred /\ Holds(d, n) /\ Search(cred[p], d)
        /\ trunc => CanAccess(cred[p], inode[i], "w")
        /\ files' = Opened(p, i, acc)
        /\ inode' = inode \/ (trunc /\ inode' = [inode EXCEPT ![i].full = FALSE])
    BY ZenonT(30) DEF OpenFile
  <1>2. i \in At(d, n) /\ i \in Inodes
    BY <1>1, FileIs, ZenonT(30)
  <1> HIDE DEF i
  <1>3. inode \in [Inodes -> Metadata] /\ inode[i] \in Metadata
    BY <1>2, ZenonT(30) DEF AccInv
  <1>4. files' \in [Tasks -> Seq(Descriptor)] /\ NewFiles(p) \subseteq {i}
    BY <1>1, <1>2, OpenedIs, ZenonT(30)
  <1> DEFINE m == [inode[i] EXCEPT !.full = FALSE]
  <1>5. m \in Metadata
    BY <1>3, FieldSet, ZenonT(30)
  <1>6. inode' = inode \/ (trunc /\ inode' = [inode EXCEPT ![i] = m])
    BY <1>1, ZenonT(30)
  <1> HIDE DEF m
  <1>7. inode' \in [Inodes -> Metadata] /\ \A j \in Inodes \ {i} : inode'[j] = inode[j]
    BY <1>2, <1>3, <1>5, <1>6, OneChanged, ZenonT(30)
  <1>8. ASSUME ~HasCap(cred[p]) PROVE Guarded(p)
    <2>1. \A j \in {i} : Named(j) => \E e \in Dirs, k \in Names : j \in At(e, k) /\ Search(cred[p], e)
      BY <1>1, <1>2, ZenonT(30)
    <2>2. inode'[i].full = inode[i].full \/ CanAccess(cred[p], inode[i], "w")
      BY <1>1, <1>6, ZenonT(30)
    <2> QED  BY <1>4, <1>7, <1>8, <2>1, <2>2, TouchesWalked, ZenonT(90)
  <1> QED  BY <1>1, <1>4, <1>7, <1>8, ZenonT(30) DEF PathCall

\* sys_open that creates the file, and sys_mkdir.
LEMMA CreateStep ==
    ASSUME AccInv, NEW p \in Tasks, NEW d \in Dirs, NEW n \in Names, NEW m \in Modes,
           CreateFile(p, d, n, m, "w") \/ Mkdir(p, d, n, m)
    PROVE  PathCall(p)
  <1> DEFINE i == FirstFree
             t == IF CreateFile(p, d, n, m, "w") THEN "file" ELSE "dir"
             f == New(p, t, m, d, n)
  <1>1. /\ ByPath(p) /\ UNCHANGED cred /\ FreeSlot # {} /\ inode' = [inode EXCEPT ![i] = f]
        /\ files' = Opened(p, i, "w") \/ files' = files
    BY ZenonT(30) DEF CreateFile, Mkdir
  <1>2. i \in Inodes /\ inode[i].t = "none"
    BY <1>1, FreeIs, ZenonT(30)
  <1>3. t \in {"file", "dir"}
    BY ZenonT(30)
  <1> HIDE DEF i, t
  <1>4. inode \in [Inodes -> Metadata] /\ files \in [Tasks -> Seq(Descriptor)]
    BY ZenonT(30) DEF AccInv
  <1>5. f \in Metadata
    BY <1>1, <1>3, NewIs, ZenonT(30) DEF ByPath
  <1> HIDE DEF f
  <1>6. inode' \in [Inodes -> Metadata] /\ \A j \in Inodes \ {i} : inode'[j] = inode[j]
    BY <1>1, <1>2, <1>4, <1>5, OneChanged, ZenonT(30)
  <1>7. files' \in [Tasks -> Seq(Descriptor)] /\ NewFiles(p) \subseteq {i}
    <2>1. CASE files' = Opened(p, i, "w")
      BY <1>2, <2>1, OpenedIs, ZenonT(30)
    <2>2. CASE files' = files
      BY <1>4, <2>2, NothingOpened, ZenonT(30)
    <2> QED  BY ZenonT(30), <1>1, <2>1, <2>2
  <1>8. ~Named(i)
    BY ZenonT(30), <1>2 DEF Named
  <1>9. ASSUME ~HasCap(cred[p]) PROVE Guarded(p)
    <2>1. \A j \in {i} : ~Named(j)
      BY <1>8, ZenonT(30)
    <2>2. /\ \A j \in {i} : Named(j) => \E e \in Dirs, k \in Names : j \in At(e, k) /\ Search(cred[p], e)
          /\ \A j \in {i} : Named(j) => \/ inode'[j].t # inode[j].t
                                        \/ inode'[j].full = inode[j].full
                                        \/ CanAccess(cred[p], inode[j], "w")
      BY <2>1, ZenonT(30)
    <2> QED  BY <1>6, <1>7, <1>9, <2>2, TouchesWalked, ZenonT(90)
  <1> QED  BY <1>1, <1>6, <1>7, <1>9, ZenonT(30) DEF PathCall

\* sys_truncate and sys_chmod: one field of one entry.
LEMMA FieldStep ==
    ASSUME AccInv, NEW p \in Tasks, NEW d \in Dirs, NEW n \in Names,
           Truncate(p, d, n) \/ \E m \in Modes : Chmod(p, d, n, m)
    PROVE  PathCall(p)
  <1> DEFINE i == File(d, n)
  <1>1. /\ ByPath(p) /\ UNCHANGED cred /\ files' = files /\ Holds(d, n) /\ Search(cred[p], d)
        /\ \/ CanAccess(cred[p], inode[i], "w") /\ inode' = [inode EXCEPT ![i].full = FALSE]
           \/ \E m \in Modes : inode' = [inode EXCEPT ![i].mode = m]
    BY ZenonT(30) DEF Truncate, Chmod
  <1>2. i \in At(d, n) /\ i \in Inodes
    BY <1>1, FileIs, ZenonT(30)
  <1> HIDE DEF i
  <1>3. inode \in [Inodes -> Metadata] /\ inode[i] \in Metadata /\ files \in [Tasks -> Seq(Descriptor)]
    BY <1>2, ZenonT(30) DEF AccInv
  <1>4. PICK f : /\ f \in Metadata /\ inode' = [inode EXCEPT ![i] = f]
                 /\ CanAccess(cred[p], inode[i], "w") \/ f.full = inode[i].full
    <2>1. CASE CanAccess(cred[p], inode[i], "w") /\ inode' = [inode EXCEPT ![i].full = FALSE]
      <3> DEFINE f == [inode[i] EXCEPT !.full = FALSE]
      <3>1. f \in Metadata
        BY <1>3, FieldSet, ZenonT(30)
      <3>2. inode' = [inode EXCEPT ![i] = f]
        BY <2>1, ZenonT(30)
      <3> HIDE DEF f
      <3> QED  BY <2>1, <3>1, <3>2, ZenonT(30)
    <2>2. CASE \E m \in Modes : inode' = [inode EXCEPT ![i].mode = m]
      <3>1. PICK m \in Modes : inode' = [inode EXCEPT ![i].mode = m]
        BY <2>2, ZenonT(30)
      <3> DEFINE f == [inode[i] EXCEPT !.mode = m]
      <3>2. f \in Metadata /\ f.full = inode[i].full
        BY <1>3, FieldSet, ZenonT(30)
      <3>3. inode' = [inode EXCEPT ![i] = f]
        BY <3>1, ZenonT(30)
      <3> HIDE DEF f
      <3> QED  BY <3>2, <3>3, ZenonT(30)
    <2> QED  BY <1>1, <2>1, <2>2, ZenonT(30)
  <1>5. inode' \in [Inodes -> Metadata] /\ inode'[i] = f /\ \A j \in Inodes \ {i} : inode'[j] = inode[j]
    BY <1>2, <1>3, <1>4, OneChanged, ZenonT(30)
  <1>6. ASSUME ~HasCap(cred[p]) PROVE Guarded(p)
    <2>1. \A j \in {i} : Named(j) => \E e \in Dirs, k \in Names : j \in At(e, k) /\ Search(cred[p], e)
      BY <1>1, <1>2, ZenonT(30)
    <2>2. inode'[i].full = inode[i].full \/ CanAccess(cred[p], inode[i], "w")
      BY <1>4, <1>5, ZenonT(30)
    <2>3. NewFiles(p) \subseteq {i}
      BY <1>1, NothingOpened, ZenonT(30)
    <2> QED  BY <1>5, <1>6, <2>1, <2>2, <2>3, TouchesWalked, ZenonT(90)
  <1> QED  BY <1>1, <1>3, <1>5, <1>6, ZenonT(30) DEF PathCall

\* sys_chown needs a capability.
LEMMA ChownStep ==
    ASSUME AccInv, NEW p \in Tasks, NEW d \in Dirs, NEW n \in Names, NEW u \in Uids, NEW g \in Gids, Chown(p, d, n, u, g)
    PROVE  PathCall(p)
  <1> DEFINE i == File(d, n)
             f == [inode[i] EXCEPT !.uid = u, !.gid = g]
  <1>1. /\ ByPath(p) /\ UNCHANGED cred /\ files' = files /\ Holds(d, n) /\ HasCap(cred[p])
        /\ inode' = [inode EXCEPT ![i] = f]
    BY ZenonT(30) DEF Chown
  <1>2. i \in Inodes
    BY <1>1, FileIs, ZenonT(30)
  <1> HIDE DEF i
  <1>3. inode \in [Inodes -> Metadata] /\ inode[i] \in Metadata /\ files \in [Tasks -> Seq(Descriptor)]
    BY <1>2, ZenonT(30) DEF AccInv
  <1>4. f \in Metadata
    BY <1>3, FieldSet, ZenonT(30)
  <1> HIDE DEF f
  <1>5. inode' \in [Inodes -> Metadata]
    BY <1>1, <1>2, <1>3, <1>4, OneChanged, ZenonT(30)
  <1> QED  BY <1>1, <1>3, <1>5, ZenonT(30) DEF PathCall

\* sys_unlink: the name goes.
LEMMA UnlinkStep ==
    ASSUME AccInv, NEW p \in Tasks, NEW d \in Dirs, NEW n \in Names, Unlink(p, d, n)
    PROVE  PathCall(p)
  <1> DEFINE i == File(d, n)
             f == Gone(i)
  <1>1. /\ ByPath(p) /\ UNCHANGED cred /\ files' = files /\ Holds(d, n) /\ Search(cred[p], d)
        /\ inode' = [inode EXCEPT ![i] = f]
    BY ZenonT(30) DEF Unlink, MayChange
  <1>2. i \in At(d, n) /\ i \in Inodes /\ Named(i)
    BY <1>1, FileIs, ZenonT(30)
  <1> HIDE DEF i
  <1>3. inode \in [Inodes -> Metadata] /\ files \in [Tasks -> Seq(Descriptor)]
    BY ZenonT(30) DEF AccInv
  <1>4. f \in Metadata /\ f.t \in {"none", "gone"}
    BY <1>2, GoneIs, ZenonT(30)
  <1> HIDE DEF f
  <1>5. inode' \in [Inodes -> Metadata] /\ inode'[i] = f /\ \A j \in Inodes \ {i} : inode'[j] = inode[j]
    BY <1>1, <1>2, <1>3, <1>4, OneChanged, ZenonT(30)
  <1>6. ASSUME ~HasCap(cred[p]) PROVE Guarded(p)
    <2>1. \A j \in {i} : Named(j) => \E e \in Dirs, k \in Names : j \in At(e, k) /\ Search(cred[p], e)
      BY <1>1, <1>2, ZenonT(30)
    <2>2. inode'[i].t # inode[i].t
      BY ZenonT(30), <1>2, <1>4, <1>5 DEF Named
    <2>3. NewFiles(p) \subseteq {i}
      BY <1>1, NothingOpened, ZenonT(30)
    <2> QED  BY <1>5, <1>6, <2>1, <2>2, <2>3, TouchesWalked, ZenonT(90)
  <1> QED  BY <1>1, <1>3, <1>5, <1>6, ZenonT(30) DEF PathCall

\* A file that moves keeps its contents.
LEMMA Moved ==
    ASSUME NEW m \in Metadata, NEW d \in Inodes, NEW n \in Names
    PROVE  MovedTo(m, d, n) \in Metadata /\ MovedTo(m, d, n).full = m.full
  BY FieldSet, ZenonT(30) DEF MovedTo

\* sys_rename: one name moves and may replace another; the caller has walked to both.
LEMMA RenameStep ==
    ASSUME AccInv, NEW p \in Tasks, NEW d \in Dirs, NEW n \in Names, NEW d2 \in Dirs, NEW n2 \in Names,
           Rename(p, d, n, d2, n2)
    PROVE  PathCall(p)
  <1>0. PICK i, f : i = File(d, n) /\ f = MovedTo(inode[i], d2, n2)
    BY ZenonT(30)
  <1> DEFINE old == At(d2, n2)
             T == {i} \cup old
  <1>1. /\ ByPath(p) /\ UNCHANGED cred /\ files' = files /\ Holds(d, n)
        /\ Search(cred[p], d) /\ Search(cred[p], d2) /\ i \notin old
        /\ inode' = [j \in Inodes |-> IF j = i THEN f ELSE IF j \in old THEN Gone(j) ELSE inode[j]]
    BY <1>0, ZenonT(30) DEF Rename, MayChange, MovedTo
  <1>2. i \in At(d, n) /\ i \in Inodes
    BY <1>0, <1>1, FileIs, ZenonT(30)
  <1>3. inode \in [Inodes -> Metadata] /\ inode[i] \in Metadata /\ files \in [Tasks -> Seq(Descriptor)] /\ d2 \in Inodes
    BY <1>2, ZenonT(30) DEF AccInv, Dirs
  <1>4. f \in Metadata /\ f.full = inode[i].full
    <2>1. inode[i] \in Metadata /\ d2 \in Inodes /\ n2 \in Names
      BY <1>3, ZenonT(30)
    <2>2. MovedTo(inode[i], d2, n2) \in Metadata /\ MovedTo(inode[i], d2, n2).full = inode[i].full
      BY <2>1, Moved, ZenonT(30)
    <2> QED  BY <1>0, <2>2, ZenonT(30)
  <1>5. \A j \in old : j \in Inodes /\ Named(j) /\ Gone(j) \in Metadata /\ Gone(j).t \in {"none", "gone"}
    BY GoneIs, ZenonT(30) DEF At
  <1>6. /\ inode'[i] = f /\ \A j \in old : inode'[j] = Gone(j)
        /\ \A j \in Inodes \ T : inode'[j] = inode[j]
    <2>1. inode'[i] = f
      BY <1>1, <1>2, ZenonT(30)
    <2>2. \A j \in old : inode'[j] = Gone(j)
      BY <1>1, <1>5, ZenonT(30)
    <2>3. \A j \in Inodes \ T : inode'[j] = inode[j]
      BY <1>1, ZenonT(30)
    <2> QED  BY ZenonT(30), <2>1, <2>2, <2>3
  <1>7. inode' \in [Inodes -> Metadata]
    <2>1. \A j \in Inodes : (IF j = i THEN f ELSE IF j \in old THEN Gone(j) ELSE inode[j]) \in Metadata
      BY <1>3, <1>4, <1>5, ZenonT(30)
    <2> QED  BY <1>1, <2>1, ZenonT(30)
  <1>8. ASSUME ~HasCap(cred[p]) PROVE Guarded(p)
    <2>1. \A j \in T : Named(j) => \E e \in Dirs, k \in Names : j \in At(e, k) /\ Search(cred[p], e)
      BY <1>1, <1>2, ZenonT(30)
    <2>2. \A j \in T : Named(j) => inode'[j].t # inode[j].t \/ inode'[j].full = inode[j].full
      <3>1. \A j \in old : inode'[j].t # inode[j].t
        BY ZenonT(30), <1>5, <1>6 DEF Named
      <3>2. inode'[i].full = inode[i].full
        BY <1>4, <1>6, ZenonT(30)
      <3> QED  BY <3>1, <3>2, ZenonT(30)
    <2>3. NewFiles(p) \subseteq T
      BY <1>1, NothingOpened, ZenonT(30)
    <2> HIDE DEF T
    <2> QED  BY <1>6, <1>8, <2>1, <2>2, <2>3, TouchesWalked, ZenonT(90)
  <1> QED  BY <1>1, <1>3, <1>7, <1>8, ZenonT(30) DEF PathCall

-------------------------------------------------------------------------------
(* Calls through a descriptor, and on the process itself *)

\* Every such call: nothing to guard, and capabilities come from nowhere.
OtherCall ==
    /\ by' = 0
    /\ cred' \in [Tasks -> Credential \cup {Dead}]
    /\ inode' \in [Inodes -> Metadata] /\ files' \in [Tasks -> Seq(Descriptor)]
    /\ \A p \in Tasks : cred'[p] # Dead =>
         /\ NoSplit(cred'[p])
         /\ IF Live(p) THEN HasCap(cred'[p]) => HasCap(cred[p]) /\ cred[p].uid = 0
                       ELSE \E q \in Tasks : cred[q] = cred'[p]

\* Who is alive has credentials, with one identity, and capabilities only as root.
LEMMA LiveCred ==
    ASSUME AccInv, NEW p \in Tasks, Live(p)
    PROVE  /\ cred[p] \in Credential /\ NoSplit(cred[p])
           /\ HasCap(cred[p]) => cred[p].uid = 0
  <1>1. cred[p] \in Credential /\ NoSplit(cred[p])
    BY ZenonT(30) DEF AccInv, Live
  <1> QED  BY ZenonT(30), <1>1 DEF NoSplit, HasCap

\* Credentials that no call touches stay what they are.
LEMMA CredKept ==
    ASSUME AccInv, cred' = cred
    PROVE  /\ cred' \in [Tasks -> Credential \cup {Dead}]
           /\ \A p \in Tasks : cred'[p] # Dead =>
                /\ NoSplit(cred'[p])
                /\ IF Live(p) THEN HasCap(cred'[p]) => HasCap(cred[p]) /\ cred[p].uid = 0
                              ELSE \E q \in Tasks : cred[q] = cred'[p]
  <1>1. \A p \in Tasks : cred'[p] # Dead => Live(p) /\ cred'[p] = cred[p]
    BY ZenonT(30) DEF Live
  <1>2. cred' \in [Tasks -> Credential \cup {Dead}]
    BY ZenonT(30) DEF AccInv
  <1> QED  BY <1>1, <1>2, LiveCred, ZenonT(30)

\* What the last descriptor lets go of is unused.
LEMMA ReleasedIs ==
    ASSUME AccInv, NEW t
    PROVE  Released(t) \in [Inodes -> Metadata]
  <1>1. Unused \in Metadata
    BY ZenonT(30), AccessAssumption DEF Unused, Metadata
  <1>2. \A i \in Inodes : inode[i] \in Metadata
    BY ZenonT(30) DEF AccInv
  <1>3. \A i \in Inodes : (IF inode[i].t = "gone" /\ \A q \in Tasks : \A k \in DOMAIN t[q] : t[q][k].ino # i
                           THEN Unused ELSE inode[i]) \in Metadata
    BY <1>1, <1>2, ZenonT(30)
  <1> QED  BY <1>3, ZenonT(30) DEF Released

\* OpenFile::write and sys_ftruncate.
LEMMA WriteStep ==
    ASSUME AccInv, NEW p \in Tasks, NEW k \in 1 .. MaxFiles, NEW full \in BOOLEAN, Write(p, k, full)
    PROVE  OtherCall
  <1> DEFINE i == files[p][k].ino
             f == [inode[i] EXCEPT !.full = full]
  <1>1. by' = 0 /\ cred' = cred /\ files' = files /\ k \in DOMAIN files[p]
    BY ZenonT(30) DEF Write, ByFd
  <1>2. files \in [Tasks -> Seq(Descriptor)] /\ inode \in [Inodes -> Metadata] /\ files[p] \in Seq(Descriptor)
    BY ZenonT(30) DEF AccInv
  <1>3. i \in Inodes
    <2>1. files[p][k] \in Descriptor
      BY <1>1, <1>2
    <2> QED  BY ZenonT(30), <2>1 DEF Descriptor
  <1>4. inode' = [inode EXCEPT ![i] = f]
    BY ZenonT(30) DEF Write
  <1> HIDE DEF i
  <1>5. f \in Metadata
    BY <1>2, <1>3, FieldSet, ZenonT(30)
  <1> HIDE DEF f
  <1>6. inode' \in [Inodes -> Metadata]
    BY <1>2, <1>3, <1>4, <1>5, OneChanged, ZenonT(30)
  <1> QED  BY <1>1, <1>2, <1>6, CredKept, ZenonT(30) DEF OtherCall

\* sys_close.
LEMMA CloseStep ==
    ASSUME AccInv, NEW p \in Tasks, CloseFile(p)
    PROVE  OtherCall
  <1>1. /\ by' = 0 /\ cred' = cred /\ files[p] # <<>> /\ inode' = Released(files')
        /\ files' = [files EXCEPT ![p] = SubSeq(files[p], 1, Len(files[p]) - 1)]
    BY ZenonT(30) DEF CloseFile, ByFd
  <1>2. files \in [Tasks -> Seq(Descriptor)] /\ files[p] \in Seq(Descriptor)
    BY ZenonT(30) DEF AccInv
  <1>3. SubSeq(files[p], 1, Len(files[p]) - 1) \in Seq(Descriptor)
    BY <1>1, <1>2
  <1>4. files' \in [Tasks -> Seq(Descriptor)]
    BY <1>1, <1>2, <1>3, ZenonT(30)
  <1>5. inode' \in [Inodes -> Metadata]
    BY <1>1, ReleasedIs, ZenonT(30)
  <1> QED  BY <1>1, <1>4, <1>5, CredKept, ZenonT(30) DEF OtherCall

\* A call that changes the credentials of its caller p to e, and nothing else's.
LEMMA OneCred ==
    ASSUME AccInv, NEW p \in Tasks, Live(p), NEW e \in Credential, NoSplit(e),
           HasCap(e) => HasCap(cred[p]) /\ cred[p].uid = 0,
           by' = 0, cred' = [cred EXCEPT ![p] = e], UNCHANGED <<inode, files>>
    PROVE  OtherCall
  <1>1. cred \in [Tasks -> Credential \cup {Dead}]
    BY ZenonT(30) DEF AccInv
  <1>2. cred' \in [Tasks -> Credential \cup {Dead}]
    BY <1>1, ZenonT(30)
  <1>3. cred'[p] = e /\ \A q \in Tasks \ {p} : cred'[q] = cred[q]
    BY <1>1, ZenonT(30)
  <1>4. ASSUME NEW q \in Tasks, cred'[q] # Dead
        PROVE  /\ NoSplit(cred'[q])
               /\ IF Live(q) THEN HasCap(cred'[q]) => HasCap(cred[q]) /\ cred[q].uid = 0
                             ELSE \E r \in Tasks : cred[r] = cred'[q]
    <2>1. CASE q = p
      BY <1>3, <2>1, ZenonT(30)
    <2>2. CASE q # p
      <3>1. cred'[q] = cred[q] /\ Live(q)
        BY <1>3, <1>4, <2>2, ZenonT(30) DEF Live
      <3> QED  BY <3>1, LiveCred, ZenonT(30)
    <2> QED  BY ZenonT(30), <2>1, <2>2
  <1>5. inode' \in [Inodes -> Metadata] /\ files' \in [Tasks -> Seq(Descriptor)]
    BY ZenonT(30) DEF AccInv
  <1> QED  BY <1>2, <1>4, <1>5, ZenonT(30) DEF OtherCall

\* sys_setuid drops capabilities as drop_for_uid_change says.
LEMMA SetUidStep ==
    ASSUME AccInv, NEW p \in Tasks, NEW u \in Uids, SetUid(p, u)
    PROVE  OtherCall
  <1> DEFINE c == cred[p]
             e == AfterSetUid(c, u)
  <1>1. /\ Live(p) /\ by' = 0 /\ UNCHANGED <<inode, files>>
        /\ HasCap(c) \/ u \in {c.uid, c.euid}
    BY ZenonT(30) DEF SetUid, ByFd
  <1>2. cred' = [cred EXCEPT ![p] = e]
    BY ZenonT(30) DEF SetUid, AfterSetUid
  <1>3. c \in Credential /\ NoSplit(c)
    BY <1>1, LiveCred, ZenonT(30)
  <1>4. e \in Credential /\ NoSplit(e) /\ (HasCap(e) => HasCap(c) /\ c.uid = 0)
    <2>1. e = AfterSetUid(c, u)
      OBVIOUS
    <2> HIDE DEF c, e
    <2> QED  BY <1>1, <1>3, <2>1, SetUidDrops, ZenonT(30)
  <1> HIDE DEF e
  <1> QED  BY <1>1, <1>2, <1>4, OneCred, ZenonT(30)

\* What sys_setgid writes has the identity and the capabilities it found.
LEMMA GroupSet ==
    ASSUME NEW c \in Credential, NEW g \in Gids,
           NEW e, e = AfterSetGid(c, g)
    PROVE  e \in Credential /\ e.uid = c.uid /\ e.euid = c.euid /\ e.eff = c.eff
  <1>1. CASE HasCap(c)
    <2>1. e = [c EXCEPT !.gid = g, !.egid = g]
      BY <1>1, ZenonT(30) DEF AfterSetGid
    <2> QED  BY ZenonT(30), <2>1 DEF Credential
  <1>2. CASE ~HasCap(c)
    <2>1. e = [c EXCEPT !.egid = g]
      BY <1>2, ZenonT(30) DEF AfterSetGid
    <2> QED  BY ZenonT(30), <2>1 DEF Credential
  <1> QED  BY ZenonT(30), <1>1, <1>2

\* sys_setgid leaves the user alone.
LEMMA SetGidStep ==
    ASSUME AccInv, NEW p \in Tasks, NEW g \in Gids, SetGid(p, g)
    PROVE  OtherCall
  <1> DEFINE c == cred[p]
             e == AfterSetGid(c, g)
  <1>1. Live(p) /\ by' = 0 /\ UNCHANGED <<inode, files>>
    BY ZenonT(30) DEF SetGid, ByFd
  <1>2. cred' = [cred EXCEPT ![p] = e]
    BY ZenonT(30) DEF SetGid, AfterSetGid
  <1>3. c \in Credential /\ NoSplit(c) /\ (HasCap(c) => c.uid = 0)
    BY <1>1, LiveCred, ZenonT(30)
  <1>4. e \in Credential /\ e.uid = c.uid /\ e.euid = c.euid /\ e.eff = c.eff
    <2>1. c \in Credential
      BY ZenonT(30), <1>3
    <2>2. e = AfterSetGid(c, g)
      OBVIOUS
    <2> HIDE DEF c, e
    <2> QED  BY <2>1, <2>2, GroupSet, ZenonT(30)
  <1> HIDE DEF e
  <1>5. NoSplit(e) /\ (HasCap(e) => HasCap(c) /\ c.uid = 0)
    BY <1>3, <1>4, ZenonT(30) DEF NoSplit, HasCap
  <1> QED  BY <1>1, <1>2, <1>4, <1>5, OneCred, ZenonT(30)

\* sys_fork and sys_spawn: the child is what its parent is.
LEMMA ForkStep ==
    ASSUME AccInv, NEW p \in Tasks, NEW q \in Tasks, Fork(p, q)
    PROVE  OtherCall
  <1>1. /\ Live(p) /\ by' = 0 /\ ~Live(q) /\ inode' = inode
        /\ cred' = [cred EXCEPT ![q] = cred[p]] /\ files' = [files EXCEPT ![q] = files[p]]
    BY ZenonT(30) DEF Fork, ByFd
  <1>2. /\ cred \in [Tasks -> Credential \cup {Dead}] /\ inode \in [Inodes -> Metadata]
        /\ files \in [Tasks -> Seq(Descriptor)] /\ files[p] \in Seq(Descriptor)
    BY ZenonT(30) DEF AccInv
  <1>3. cred[p] \in Credential /\ NoSplit(cred[p])
    BY <1>1, LiveCred, ZenonT(30)
  <1>4. /\ cred' \in [Tasks -> Credential \cup {Dead}] /\ files' \in [Tasks -> Seq(Descriptor)]
    BY <1>1, <1>2, <1>3, ZenonT(30)
  <1>5. cred'[q] = cred[p] /\ \A r \in Tasks \ {q} : cred'[r] = cred[r]
    BY <1>1, <1>2, ZenonT(30)
  <1>6. ASSUME NEW r \in Tasks, cred'[r] # Dead
        PROVE  /\ NoSplit(cred'[r])
               /\ IF Live(r) THEN HasCap(cred'[r]) => HasCap(cred[r]) /\ cred[r].uid = 0
                             ELSE \E s \in Tasks : cred[s] = cred'[r]
    <2>1. CASE r = q
      BY <1>1, <1>3, <1>5, <2>1, ZenonT(30)
    <2>2. CASE r # q
      <3>1. cred'[r] = cred[r] /\ Live(r)
        BY <1>5, <1>6, <2>2, ZenonT(30) DEF Live
      <3> QED  BY <3>1, LiveCred, ZenonT(30)
    <2> QED  BY ZenonT(30), <2>1, <2>2
  <1> QED  BY <1>1, <1>2, <1>4, <1>6, ZenonT(30) DEF OtherCall

\* sys_exit.
LEMMA ExitStep ==
    ASSUME AccInv, NEW p \in Tasks, Exit(p)
    PROVE  OtherCall
  <1>1. /\ by' = 0 /\ cred' = [cred EXCEPT ![p] = Dead]
        /\ files' = [files EXCEPT ![p] = <<>>] /\ inode' = Released(files')
    BY ZenonT(30) DEF Exit, ByFd
  <1>2. cred \in [Tasks -> Credential \cup {Dead}] /\ files \in [Tasks -> Seq(Descriptor)]
    BY ZenonT(30) DEF AccInv
  <1>3. <<>> \in Seq(Descriptor)
    OBVIOUS
  <1>4. cred' \in [Tasks -> Credential \cup {Dead}] /\ files' \in [Tasks -> Seq(Descriptor)]
    BY <1>1, <1>2, <1>3, ZenonT(30)
  <1>5. inode' \in [Inodes -> Metadata]
    BY <1>1, ReleasedIs, ZenonT(30)
  <1>6. cred'[p] = Dead /\ \A r \in Tasks \ {p} : cred'[r] = cred[r]
    BY <1>1, <1>2, ZenonT(30)
  <1>7. ASSUME NEW r \in Tasks, cred'[r] # Dead
        PROVE  /\ NoSplit(cred'[r])
               /\ IF Live(r) THEN HasCap(cred'[r]) => HasCap(cred[r]) /\ cred[r].uid = 0
                             ELSE \E s \in Tasks : cred[s] = cred'[r]
    <2>1. r # p /\ cred'[r] = cred[r] /\ Live(r)
      BY <1>6, <1>7, ZenonT(30) DEF Live
    <2> QED  BY <2>1, LiveCred, ZenonT(30)
  <1> QED  BY <1>1, <1>4, <1>5, <1>7, ZenonT(30) DEF OtherCall

-------------------------------------------------------------------------------
(* The result *)

\* Every step is a call of one kind or the other.
LEMMA CallsAre ==
    ASSUME AccInv, AccNext
    PROVE  OtherCall \/ \E p \in Tasks : PathCall(p)
  <1>1. PICK p \in Tasks :
        \/ \E d \in Dirs, n \in Names :
             \/ \E acc \in {"r", "w"}, trunc \in BOOLEAN : OpenFile(p, d, n, acc, trunc)
             \/ \E m \in Modes : CreateFile(p, d, n, m, "w")
             \/ \E m \in Modes : Mkdir(p, d, n, m)
             \/ \E m \in Modes : Chmod(p, d, n, m)
             \/ Unlink(p, d, n)
             \/ Truncate(p, d, n)
             \/ \E d2 \in Dirs, n2 \in Names : Rename(p, d, n, d2, n2)
             \/ \E u \in Uids, g \in Gids : Chown(p, d, n, u, g)
        \/ \E k \in 1 .. MaxFiles, full \in BOOLEAN : Write(p, k, full)
        \/ CloseFile(p)
        \/ \E u \in Uids : SetUid(p, u)
        \/ \E g \in Gids : SetGid(p, g)
        \/ \E q \in Tasks : Fork(p, q)
        \/ Exit(p)
    BY ZenonT(30) DEF AccNext
  <1>2. ASSUME NEW d \in Dirs, NEW n \in Names,
               \/ \E acc \in {"r", "w"}, trunc \in BOOLEAN : OpenFile(p, d, n, acc, trunc)
               \/ \E m \in Modes : CreateFile(p, d, n, m, "w")
               \/ \E m \in Modes : Mkdir(p, d, n, m)
               \/ \E m \in Modes : Chmod(p, d, n, m)
               \/ Unlink(p, d, n)
               \/ Truncate(p, d, n)
               \/ \E d2 \in Dirs, n2 \in Names : Rename(p, d, n, d2, n2)
               \/ \E u \in Uids, g \in Gids : Chown(p, d, n, u, g)
        PROVE  PathCall(p)
    BY <1>2, OpenStep, CreateStep, FieldStep, ChownStep, UnlinkStep, RenameStep, ZenonT(30)
  <1>3. ASSUME \/ \E k \in 1 .. MaxFiles, full \in BOOLEAN : Write(p, k, full)
               \/ CloseFile(p)
               \/ \E u \in Uids : SetUid(p, u)
               \/ \E g \in Gids : SetGid(p, g)
               \/ \E q \in Tasks : Fork(p, q)
               \/ Exit(p)
        PROVE  OtherCall
    BY <1>3, WriteStep, CloseStep, SetUidStep, SetGidStep, ForkStep, ExitStep, ZenonT(30)
  <1> QED  BY <1>1, <1>2, <1>3, ZenonT(30)

\* The types and NoSplit hold in every state.
THEOREM NobodyHalfRoot == AccSpec => []AccInv
  <1>1. AccInit => AccInv
    <2> SUFFICES ASSUME AccInit PROVE AccInv
      OBVIOUS
    <2> DEFINE r == [uid |-> 0, euid |-> 0, gid |-> 0, egid |-> 0, perm |-> TRUE, eff |-> TRUE]
               m == [Unused EXCEPT !.t = "dir", !.mode = AllBits]
    <2>1. r \in Credential /\ NoSplit(r)
      BY ZenonT(30), AccessAssumption DEF Credential, NoSplit
    <2>2. m \in Metadata /\ Unused \in Metadata
      BY ZenonT(30), AccessAssumption DEF Metadata, Unused, AllBits
    <2>3. /\ cred = [p \in Tasks |-> IF p = InitTask THEN r ELSE Dead]
          /\ inode = [i \in Inodes |-> IF i = Root THEN m ELSE Unused]
          /\ files = [p \in Tasks |-> <<>>]
      BY ZenonT(30) DEF AccInit
    <2> HIDE DEF r, m
    <2>4. <<>> \in Seq(Descriptor)
      OBVIOUS
    <2>5. \A p \in Tasks : cred[p] = r \/ cred[p] = Dead
      BY <2>3, ZenonT(30)
    <2>6. cred \in [Tasks -> Credential \cup {Dead}] /\ \A p \in Tasks : Live(p) => NoSplit(cred[p])
      BY <2>1, <2>3, <2>5, ZenonT(30) DEF Live
    <2>7. inode \in [Inodes -> Metadata] /\ files \in [Tasks -> Seq(Descriptor)]
      BY <2>2, <2>3, <2>4, ZenonT(30)
    <2> QED  BY <2>6, <2>7, ZenonT(30) DEF AccInv
  <1>2. AccInv /\ [AccNext]_accVars => AccInv'
    <2> SUFFICES ASSUME AccInv, [AccNext]_accVars PROVE AccInv'
      OBVIOUS
    <2>1. CASE OtherCall
      BY <2>1, ZenonT(30) DEF OtherCall, AccInv, Live, Dead
    <2>2. ASSUME NEW p \in Tasks, PathCall(p) PROVE AccInv'
      <3>1. cred' = cred /\ inode' \in [Inodes -> Metadata] /\ files' \in [Tasks -> Seq(Descriptor)]
        BY <2>2, ZenonT(30) DEF PathCall
      <3> QED  BY <3>1, ZenonT(30) DEF AccInv, Live, Dead, Inodes, Metadata
    <2>3. CASE UNCHANGED accVars
      BY <2>3, ZenonT(30) DEF AccInv, Live, accVars, Inodes, Metadata
    <2> QED  BY <2>1, <2>2, <2>3, CallsAre, ZenonT(30)
  <1> QED  BY <1>1, <1>2, PTL DEF AccSpec

\* The permission checks of security/ and vfs/mount.rs do what they are for.
THEOREM ChecksGuard == AccSpec => AccessGuards
  <1> DEFINE Drop == \A p \in Tasks : cred'[p] # Dead /\ HasCap(cred'[p]) =>
                        IF Live(p) THEN HasCap(cred[p]) /\ cred[p].uid = 0 ELSE \E q \in Tasks : cred[q] = cred'[p]
             SearchG == by' # 0 =>
               LET newFiles == {files'[by'][k].ino : k \in DOMAIN files'[by'] \ DOMAIN files[by']} IN
               \A i \in Inodes \ {Root} :
                  Named(i) /\ (inode'[i] # inode[i] \/ i \in newFiles) =>
                      \A x \in Above(i) \ {i} : CanAccess(cred[by'], inode[x], "x")
             Data == by' # 0 => \A i \in Inodes :
               Named(i) /\ inode'[i].t = inode[i].t /\ inode'[i].full # inode[i].full =>
                   CanAccess(cred[by'], inode[i], "w")
  <1>1. AccInv /\ [AccNext]_accVars => [Drop]_accVars /\ [SearchG]_accVars /\ [Data]_accVars
    <2> SUFFICES ASSUME AccInv, AccNext PROVE Drop /\ SearchG /\ Data
      BY ZenonT(30)
    <2>1. CASE OtherCall
      BY <2>1, ZenonT(30) DEF OtherCall
    <2>2. ASSUME NEW p \in Tasks, PathCall(p) PROVE Drop /\ SearchG /\ Data
      <3>1. cred' = cred /\ (by' # 0 => by' = p /\ Guarded(p))
        BY <2>2, ZenonT(30) DEF PathCall, ByPath
      <3>2. Drop
        BY <3>1, CredKept, ZenonT(30)
      <3>3. ASSUME by' # 0 PROVE SearchG /\ Data
        <4>1. by' = p /\ Guarded(p)
          BY ZenonT(30), <3>1, <3>3
        <4> QED  BY <4>1, ZenonT(30) DEF Guarded, NewFiles
      <3> QED  BY <3>2, <3>3, ZenonT(30)
    <2> QED  BY <2>1, <2>2, CallsAre, ZenonT(30)
  <1> HIDE DEF Drop, SearchG, Data
  <1>2. AccSpec => [][Drop]_accVars /\ [][SearchG]_accVars /\ [][Data]_accVars
    BY <1>1, NobodyHalfRoot, PTL DEF AccSpec
  <1> QED  BY <1>2, PTL DEF AccessGuards, DropIsForever, SearchGuards, DataGuards, Drop, SearchG, Data

===============================================================================
