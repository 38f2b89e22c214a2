---------------------------- MODULE FrameBitmap ----------------------------
(***************************************************************************)
(* The physical frame allocator (mm/phys.rs): one bit per frame, read and  *)
(* set with single atomic operations and without a lock, by callers that   *)
(* preempt each other between any two of them.                             *)
(***************************************************************************)
EXTENDS Integers, FiniteSets, FiniteSetsExt

CONSTANTS
    Callers,
    Total,          \* total_frames
    WordBits,       \* frames of one bitmap word (64 in the code)
    Reserved,       \* frames reserve_range has marked
    MaxCount        \* frames of one contiguous allocation

ASSUME FrameAssumption ==
    /\ Total \in Nat /\ WordBits \in Nat \ {0} /\ MaxCount \in Nat
    /\ Reserved \subseteq 0 .. Total - 1

Frames == 0 .. Total - 1
WordCount == (Total + WordBits - 1) \div WordBits
FramesOf(idx) == (idx * WordBits .. (idx + 1) * WordBits - 1)

\* Bits past the last frame are never cleared.
Bits == 0 .. WordCount * WordBits - 1

VARIABLES
    bitmap,     \* the frames whose bit is set
    held,       \* caller -> frames it was given and has not freed
    op          \* caller -> where it is in its call

frameVars == <<bitmap, held, op>>

\* at: the word (alloc) or frame looked at; bit: the frame chosen by alloc;
\* run: the first frame of the run being counted; start: the run to claim
Locals == [pc : {"done", "word", "take", "scan", "claim", "undo"}, at : Nat, start : Nat, count : Nat]
Done == [pc |-> "done", at |-> 0, start |-> 0, count |-> 0]

FrameTypeOK ==
    /\ bitmap \subseteq Bits
    /\ held \in [Callers -> SUBSET Frames]
    /\ op \in [Callers -> Locals]

FrameInit ==
    /\ bitmap = Reserved \cup (Bits \ Frames)
    /\ held = [c \in Callers |-> {}]
    /\ op = [c \in Callers |-> Done]

Goto(c, pc, at, start) ==
    op' = [op EXCEPT ![c] = [pc |-> pc, at |-> at, start |-> start, count |-> @.count]]

Return(c, frames) ==
    /\ op' = [op EXCEPT ![c] = Done]
    /\ held' = [held EXCEPT ![c] = @ \cup frames]

(***************************************************************************)
(* alloc                                                                   *)
(***************************************************************************)
\* alloc_contiguous(1) is alloc(); 0 and more than there are fail at once
AllocFrames(c, count) ==
    /\ op[c] = Done
    /\ op' = [op EXCEPT ![c] = [pc |-> IF count = 1 THEN "word" ELSE "scan",
                                at |-> 0, start |-> 0, count |-> count]]
    /\ UNCHANGED <<bitmap, held>>

\* load one word: on to the next when it is full, out of memory after the
\* last, else the first zero bit
LoadWord(c) ==
    /\ op[c].pc = "word"
    /\ LET idx == op[c].at
           zero == FramesOf(idx) \ bitmap
       IN  IF idx = WordCount \/ (zero # {} /\ Min(zero) >= Total)
           THEN Return(c, {})
           ELSE /\ IF zero = {} THEN Goto(c, "word", idx + 1, 0)
                   ELSE Goto(c, "take", idx, Min(zero))
                /\ UNCHANGED held
    /\ UNCHANGED bitmap

\* fetch_or on that bit; another caller may have been faster
TakeBit(c) ==
    /\ op[c].pc = "take"
    /\ bitmap' = bitmap \cup {op[c].start}
    /\ IF op[c].start \notin bitmap
       THEN Return(c, {op[c].start})
       ELSE Goto(c, "word", op[c].at + 1, 0) /\ UNCHANGED held

(***************************************************************************)
(* alloc_contiguous                                                        *)
(***************************************************************************)
\* phase 1: one frame of the scan; start is run_start
ScanFrame(c) ==
    /\ op[c].pc = "scan"
    /\ LET f == op[c].at
       IN  IF f >= Total
           THEN Return(c, {})
           ELSE /\ IF f \in bitmap THEN Goto(c, "scan", f + 1, f + 1)
                   ELSE IF f + 1 - op[c].start = op[c].count
                        THEN Goto(c, "claim", op[c].start, op[c].start)
                   ELSE Goto(c, "scan", f + 1, op[c].start)
                /\ UNCHANGED held
    /\ UNCHANGED bitmap

\* phase 2: fetch_or on one frame of the run
Claim(c) ==
    /\ op[c].pc = "claim"
    /\ LET f == op[c].at
       IN  /\ bitmap' = bitmap \cup {f}
           /\ IF f \in bitmap
              THEN Goto(c, "undo", f, op[c].start) /\ UNCHANGED held
              ELSE IF f + 1 = op[c].start + op[c].count
              THEN Return(c, op[c].start .. f)
              ELSE Goto(c, "claim", f + 1, op[c].start) /\ UNCHANGED held

\* the back-out clears the frames claimed before the conflict, one by one, and
\* scans on past it (at stays the conflict, start counts up)
MutUndoConflict(c) ==
    /\ op[c].pc = "undo"
    /\ LET f == op[c].start
       IN  IF f <= op[c].at
           THEN /\ bitmap' = bitmap \ {f}
                /\ Goto(c, "undo", op[c].at, f + 1)
                /\ UNCHANGED held
           ELSE /\ Goto(c, "scan", op[c].at + 1, op[c].at + 1)
                /\ UNCHANGED <<bitmap, held>>

Undo(c) ==
    /\ op[c].pc = "undo"
    /\ LET f == op[c].start
       IN  IF f < op[c].at
           THEN /\ bitmap' = bitmap \ {f}
                /\ Goto(c, "undo", op[c].at, f + 1)
                /\ UNCHANGED held
           ELSE /\ IF op[c].at + 1 + op[c].count > Total
                   THEN Return(c, {})
                   ELSE Goto(c, "scan", op[c].at + 1, op[c].at + 1) /\ UNCHANGED held
                /\ UNCHANGED bitmap

\* fetch_and on a frame the caller owns
FreeFrame(c, f) ==
    /\ op[c] = Done
    /\ f \in held[c]
    /\ bitmap' = bitmap \ {f}
    /\ held' = [held EXCEPT ![c] = @ \ {f}]
    /\ UNCHANGED op

FrameNext ==
    \E c \in Callers :
      \/ \E n \in 1 .. MaxCount : AllocFrames(c, n)
      \/ LoadWord(c) \/ TakeBit(c) \/ ScanFrame(c) \/ Claim(c) \/ Undo(c)
      \/ \E f \in Frames : FreeFrame(c, f)

FrameSpec == FrameInit /\ [][FrameNext]_frameVars

(***************************************************************************)
(* Properties                                                              *)
(***************************************************************************)
\* the frames a caller has set in the bitmap and not yet returned
Claimed(c) ==
    IF op[c].pc \in {"claim", "undo"} THEN op[c].start .. op[c].at - 1 ELSE {}

Owned(c) == held[c] \cup Claimed(c)

\* A frame is never given to two callers, and a set bit always has an owner:
\* no back-out frees a frame somebody else took, or forgets one of its own
\* (phys.rs: "A frame cannot be double-allocated", "Undo only the bits *we* set
\* this round").
FramesExclusive ==
    /\ FrameTypeOK
    /\ \A c, d \in Callers : c # d => Owned(c) \cap Owned(d) = {}
    /\ \A c \in Callers : held[c] \cap Claimed(c) = {}
    /\ bitmap = Reserved \cup (Bits \ Frames) \cup UNION {Owned(c) : c \in Callers}
    /\ \A c \in Callers : Owned(c) \cap Reserved = {}
=============================================================================
