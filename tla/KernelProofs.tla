---------------------------- MODULE KernelProofs ----------------------------
(***************************************************************************)
(* Memory.                                                                 *)
(*                                                                         *)
(* The frame allocator never gives a frame to two callers and never loses  *)
(* one, for any number of callers, frames and bits per word.  What a       *)
(* caller in the middle of alloc_contiguous has set counts as its own;     *)
(* the bitmap is then exactly what is reserved or owned, which is          *)
(* inductive together with the ranges of the caller's local variables.     *)
(*                                                                         *)
(* The kernel heap never hands out memory twice, keeps its free list       *)
(* sorted and merged, and aligns what it hands out, for every size of the  *)
(* heap and every sequence of requests.  The list is reasoned about as the *)
(* set of cells it covers, which insertion and merging do not change.      *)
(***************************************************************************)
EXTENDS FrameBitmap, KernelHeap, FiniteSetTheorems, WellFoundedInduction, TLAPS

\* The locals of a call of alloc or alloc_contiguous: the frame to take exists,
\* the run being counted or claimed is shorter than asked for and in memory.
CallInRange(c) ==
    /\ op[c].pc = "take" => op[c].start \in Frames
    /\ op[c].pc \in {"scan", "claim"} => op[c].start <= op[c].at /\ op[c].at < op[c].start + op[c].count
    /\ op[c].pc = "claim" => op[c].start + op[c].count <= Total
    /\ op[c].pc = "undo" => op[c].start <= op[c].at /\ op[c].at < Total /\ op[c].count >= 1

\* The inductive invariant.
FrameInv == FramesExclusive /\ \A c \in Callers : CallInRange(c)

\* A set of natural numbers that is not empty has a least element
\* (trailing_zeros of a word that is not full).
LEMMA Least ==
    ASSUME NEW T, T \subseteq Nat, T # {}
    PROVE  \E x \in T : \A y \in T : x <= y
<1> DEFINE R == OpToRel(<, Nat)
<1>1. IsWellFoundedOn(R, Nat)
  BY ZenonT(30), NatLessThanWellFounded
<1>2. \A x, y \in Nat : <<y, x>> \in R <=> y < x
  BY ZenonT(30) DEF OpToRel
<1> HIDE DEF R
<1>3. PICK x \in T : \A y \in T : ~(<<y, x>> \in R)
  BY ZenonT(30), <1>1, WFMin
<1>4. x \in Nat /\ \A y \in T : y \in Nat
  OBVIOUS
<1>5. \A y \in T : ~(y < x)
  BY ZenonT(30), <1>2, <1>3, <1>4
<1>6. \A y \in T : x <= y
  BY <1>4, <1>5
<1> QED
  BY ZenonT(30), <1>6

\* The bit load and trailing_zeros choose is one of the word's zero bits.
LEMMA MinOf ==
    ASSUME NEW T, T \subseteq Nat, T # {}
    PROVE  Min(T) \in T
BY ZenonT(30), Least DEF Min

\* A step that leaves the bitmap, what is held and what is claimed alone keeps
\* every frame with its owner: loading, scanning and giving up.
LEMMA QuietStep ==
    ASSUME FramesExclusive, FrameTypeOK',
           UNCHANGED <<bitmap, held>>,
           \A d \in Callers : Claimed(d)' = Claimed(d)
    PROVE  FramesExclusive'
<1>1. \A d \in Callers : Owned(d)' = Owned(d)
  BY ZenonT(30) DEF Owned
<1>2. {Owned(d) : d \in Callers}' = {Owned(d) : d \in Callers}
  BY ZenonT(30), <1>1
<1> QED
  BY ZenonT(30), <1>1, <1>2 DEF FramesExclusive

\* What one caller's atomic operation may do: set bits that were clear, which
\* become its own, or clear bits of its own.
LEMMA OwnerStep ==
    ASSUME FramesExclusive, FrameTypeOK',
           NEW c \in Callers, NEW gain, NEW loss,
           gain \subseteq Frames, gain \cap bitmap = {},
           loss \subseteq Frames, loss \subseteq Owned(c), gain \cap loss = {},
           bitmap' = (bitmap \cup gain) \ loss,
           Owned(c)' = (Owned(c) \cup gain) \ loss,
           \A d \in Callers \ {c} : Owned(d)' = Owned(d),
           \A d \in Callers : (held[d] \cap Claimed(d) = {})'
    PROVE  FramesExclusive'
<1> DEFINE Fixed == Reserved \cup (Bits \ Frames)
           All == UNION {Owned(d) : d \in Callers}
<1>1. bitmap = Fixed \cup All
  BY ZenonT(30) DEF FramesExclusive
<1>2. \A d, e \in Callers : d # e => Owned(d) \cap Owned(e) = {}
  BY ZenonT(30) DEF FramesExclusive
<1>3. \A d \in Callers : Owned(d) \cap Reserved = {}
  BY ZenonT(30) DEF FramesExclusive
<1>4. \A d \in Callers : Owned(d) \subseteq bitmap
  BY ZenonT(30), <1>1
<1>5. \A d, e \in Callers : d # e => (Owned(d) \cap Owned(e) = {})'
  <2> SUFFICES ASSUME NEW d \in Callers, NEW e \in Callers, d # e
               PROVE  (Owned(d))' \cap (Owned(e))' = {}
    OBVIOUS
  <2>1. CASE d = c
    BY <1>2, <1>4, <2>1
  <2>2. CASE e = c
    BY <1>2, <1>4, <2>2
  <2>3. CASE d # c /\ e # c
    BY ZenonT(30), <1>2, <2>3
  <2> QED
    BY ZenonT(30), <2>1, <2>2, <2>3
<1>6. \A d \in Callers : (Owned(d) \cap Reserved = {})'
  <2> SUFFICES ASSUME NEW d \in Callers
               PROVE  (Owned(d))' \cap Reserved = {}
    OBVIOUS
  <2>1. Reserved \subseteq bitmap
    BY ZenonT(30), <1>1
  <2> QED
    BY ZenonT(30), <1>3, <2>1
<1>7. All' = (All \cup gain) \ loss
  <2>1. ASSUME NEW f, f \in All'
        PROVE  f \in (All \cup gain) \ loss
    <3>1. PICK d \in Callers : f \in (Owned(d))'
      BY ZenonT(30), <2>1
    <3>2. CASE d = c
      BY ZenonT(30), <3>1, <3>2
    <3>3. CASE d # c
      BY <1>2, <3>1, <3>3
    <3> QED
      BY ZenonT(30), <3>2, <3>3
  <2>2. ASSUME NEW f, f \in (All \cup gain) \ loss
        PROVE  f \in All'
    <3>1. CASE f \in gain
      BY ZenonT(30), <2>2, <3>1
    <3>2. CASE f \notin gain
      <4>1. PICK d \in Callers : f \in Owned(d)
        BY ZenonT(30), <2>2, <3>2
      <4>2. f \in (Owned(d))'
        BY ZenonT(30), <2>2, <4>1
      <4> QED
        BY ZenonT(30), <4>2
    <3> QED
      BY ZenonT(30), <3>1, <3>2
  <2> HIDE DEF All
  <2> QED
    BY ZenonT(30), <2>1, <2>2
<1>8. loss \cap Fixed = {}
  BY ZenonT(30), <1>3
<1>9. bitmap' = Fixed \cup All'
  BY ZenonT(30), <1>1, <1>7, <1>8
<1> QED
  BY ZenonT(30), <1>5, <1>6, <1>9 DEF FramesExclusive

\* Every frame has a bit: the bitmap is rounded up to whole words.
LEMMA FramesHaveBits == Frames \subseteq Bits
<1> DEFINE q == WordCount
<1>1. q \in Int /\ Total <= q * WordBits
  BY FrameAssumption DEF WordCount
<1> QED
  BY <1>1, FrameAssumption DEF Frames, Bits

\* The locals of a call of c become r and what is held becomes h; nobody else's
\* do, and only c's own ranges have to be looked at.
LEMMA CallStep ==
    ASSUME FrameInv,
           NEW c \in Callers,
           NEW r \in Locals,
           op' = [op EXCEPT ![c] = r],
           NEW h \in SUBSET Frames,
           held' = [held EXCEPT ![c] = h],
           bitmap' \subseteq Bits
    PROVE  /\ FrameTypeOK'
           /\ op'[c] = r /\ held'[c] = h
           /\ \A d \in Callers \ {c} : op'[d] = op[d] /\ held'[d] = held[d]
           /\ \A d \in Callers \ {c} : (CallInRange(d))' /\ (Claimed(d))' = Claimed(d) /\ (Owned(d))' = Owned(d)
<1>1. FrameTypeOK
  BY ZenonT(30) DEF FrameInv, FramesExclusive
<1>2. op'[c] = r /\ held'[c] = h
  BY ZenonT(30), <1>1 DEF FrameTypeOK
<1>3. \A d \in Callers \ {c} : op'[d] = op[d] /\ held'[d] = held[d]
  BY ZenonT(30), <1>1 DEF FrameTypeOK
<1>4. FrameTypeOK'
  BY ZenonT(30), <1>1, <1>2 DEF FrameTypeOK
<1>5. ASSUME NEW d \in Callers \ {c}
      PROVE  (CallInRange(d))' /\ (Claimed(d))' = Claimed(d) /\ (Owned(d))' = Owned(d)
  BY ZenonT(30), <1>3 DEF FrameInv, CallInRange, Claimed, Owned
<1> QED
  BY ZenonT(30), <1>2, <1>3, <1>4, <1>5

\* A call begins, a word or a frame of the scan is looked at, a call gives up:
\* the locals change and no frame changes hands.
LEMMA LocalStep ==
    ASSUME FrameInv,
           NEW c \in Callers,
           NEW r \in Locals,
           op' = [op EXCEPT ![c] = r],
           UNCHANGED <<bitmap, held>>,
           (Claimed(c))' = Claimed(c),
           (CallInRange(c))'
    PROVE  FrameInv'
<1>1. FrameTypeOK
  BY ZenonT(30) DEF FrameInv, FramesExclusive
<1>2. held[c] \in SUBSET Frames /\ held' = [held EXCEPT ![c] = held[c]] /\ bitmap' \subseteq Bits
  BY ZenonT(30), <1>1 DEF FrameTypeOK
<1>3. /\ FrameTypeOK'
      /\ \A d \in Callers \ {c} : (CallInRange(d))' /\ (Claimed(d))' = Claimed(d)
  BY ZenonT(30), <1>2, CallStep
<1>4. FramesExclusive'
  BY ZenonT(30), <1>3, QuietStep DEF FrameInv
<1> QED
  BY ZenonT(30), <1>3, <1>4 DEF FrameInv

\* alloc and alloc_contiguous begin.
LEMMA AllocStep ==
    ASSUME FrameInv, NEW c \in Callers, NEW n \in 1 .. MaxCount, AllocFrames(c, n)
    PROVE  FrameInv'
<1> DEFINE r == [pc |-> IF n = 1 THEN "word" ELSE "scan", at |-> 0, start |-> 0, count |-> n]
<1>1. op' = [op EXCEPT ![c] = r] /\ UNCHANGED <<bitmap, held>> /\ op[c].pc = "done"
  BY DEF AllocFrames, Done
<1>2. r \in Locals
  BY FrameAssumption DEF Locals
<1>3. op'[c] = r
  BY ZenonT(30), <1>1 DEF FrameInv, FramesExclusive, FrameTypeOK
<1>4. (Claimed(c))' = Claimed(c)
  BY <1>1, <1>3 DEF Claimed
<1>5. (CallInRange(c))'
  BY <1>3, FrameAssumption DEF CallInRange
<1> HIDE DEF r
<1> QED
  BY ZenonT(30), <1>1, <1>2, <1>4, <1>5, LocalStep

\* load and trailing_zeros of one word.
LEMMA LoadStep ==
    ASSUME FrameInv, NEW c \in Callers, LoadWord(c)
    PROVE  FrameInv'
<1> DEFINE idx == op[c].at
           zero == FramesOf(idx) \ bitmap
<1>1. FrameTypeOK /\ op[c].pc = "word" /\ idx \in Nat /\ op[c].count \in Nat
  BY ZenonT(30) DEF FrameInv, FramesExclusive, FrameTypeOK, LoadWord, Locals
<1>2. zero \subseteq Nat
  BY <1>1, FrameAssumption DEF FramesOf
<1>3. PICK r \in Locals :
        /\ op' = [op EXCEPT ![c] = r]
        /\ r.pc \in {"done", "word", "take"}
        /\ r.pc = "take" => r.start \in Frames
        /\ UNCHANGED <<bitmap, held>>
  <2>1. CASE idx = WordCount \/ (zero # {} /\ Min(zero) >= Total)
    <3>1. op' = [op EXCEPT ![c] = Done] /\ UNCHANGED bitmap /\ held' = [held EXCEPT ![c] = @ \cup {}]
      BY ZenonT(30), <2>1 DEF LoadWord, Return
    <3>2. UNCHANGED held
      BY ZenonT(30), <1>1, <3>1 DEF FrameTypeOK
    <3> QED
      BY ZenonT(30), <3>1, <3>2 DEF Done, Locals
  <2>2. CASE ~(idx = WordCount \/ (zero # {} /\ Min(zero) >= Total)) /\ zero = {}
    <3> DEFINE r == [pc |-> "word", at |-> idx + 1, start |-> 0, count |-> op[c].count]
    <3>1. op' = [op EXCEPT ![c] = r] /\ UNCHANGED <<bitmap, held>>
      BY ZenonT(30), <1>1, <2>2 DEF LoadWord, Goto, FrameTypeOK
    <3>2. r \in Locals /\ r.pc = "word"
      BY <1>1 DEF Locals
    <3> HIDE DEF r
    <3> QED
      BY ZenonT(30), <3>1, <3>2
  <2>3. CASE ~(idx = WordCount \/ (zero # {} /\ Min(zero) >= Total)) /\ zero # {}
    <3> DEFINE r == [pc |-> "take", at |-> idx, start |-> Min(zero), count |-> op[c].count]
    <3>1. op' = [op EXCEPT ![c] = r] /\ UNCHANGED <<bitmap, held>>
      BY ZenonT(30), <1>1, <2>3 DEF LoadWord, Goto, FrameTypeOK
    <3>2. Min(zero) \in Nat /\ Min(zero) < Total
      BY <1>2, <2>3, MinOf, FrameAssumption
    <3>3. r \in Locals /\ r.pc = "take" /\ r.start \in Frames
      BY <1>1, <3>2, FrameAssumption DEF Frames, Locals
    <3> HIDE DEF r
    <3> QED
      BY ZenonT(30), <3>1, <3>3
  <2> QED
    BY ZenonT(30), <2>1, <2>2, <2>3
<1>4. op'[c] = r
  BY ZenonT(30), <1>1, <1>3 DEF FrameTypeOK
<1>5. (Claimed(c))' = Claimed(c)
  BY ZenonT(30), <1>1, <1>3, <1>4 DEF Claimed
<1>6. (CallInRange(c))'
  BY ZenonT(30), <1>3, <1>4 DEF CallInRange
<1> QED
  BY ZenonT(30), <1>3, <1>5, <1>6, LocalStep

\* fetch_or on the chosen bit: the frame is the caller's if the bit was clear.
LEMMA TakeStep ==
    ASSUME FrameInv, NEW c \in Callers, TakeBit(c)
    PROVE  FrameInv'
<1> DEFINE f == op[c].start
<1>1. /\ FrameTypeOK /\ op[c].pc = "take" /\ f \in Frames /\ op[c] \in Locals
      /\ bitmap' = bitmap \cup {f} /\ held[c] \in SUBSET Frames
  BY ZenonT(30) DEF FrameInv, FramesExclusive, FrameTypeOK, TakeBit, CallInRange
<1>2. Claimed(c) = {}
  BY ZenonT(30), <1>1 DEF Claimed
<1>3. bitmap' \subseteq Bits
  BY ZenonT(30), <1>1, FramesHaveBits DEF FrameTypeOK
<1>4. CASE f \notin bitmap
  <2> DEFINE h == held[c] \cup {f}
             gain == {f}
             loss == {}
  <2>1. op' = [op EXCEPT ![c] = Done] /\ held' = [held EXCEPT ![c] = h]
    BY ZenonT(30), <1>4, <1>1 DEF TakeBit, Return, FrameTypeOK
  <2>2. Done \in Locals /\ h \in SUBSET Frames
    BY ZenonT(30), <1>1 DEF Done, Locals
  <2> HIDE DEF h
  <2>3. /\ FrameTypeOK'
        /\ op'[c] = Done /\ held'[c] = h
        /\ \A d \in Callers \ {c} : (CallInRange(d))' /\ (Claimed(d))' = Claimed(d) /\ (Owned(d))' = Owned(d)
        /\ \A d \in Callers \ {c} : held'[d] = held[d]
    BY ZenonT(30), <1>3, <2>1, <2>2, CallStep
  <2>4. (Claimed(c))' = {} /\ (CallInRange(c))'
    BY <2>3 DEF Claimed, CallInRange, Done
  <2>5. (Owned(c))' = (Owned(c) \cup gain) \ loss
    BY ZenonT(30), <1>2, <2>3, <2>4 DEF Owned, h
  <2>6. \A d \in Callers : (held[d] \cap Claimed(d) = {})'
    BY ZenonT(30), <2>3, <2>4 DEF FrameInv, FramesExclusive
  <2>7. /\ gain \subseteq Frames /\ gain \cap bitmap = {}
        /\ loss \subseteq Frames /\ loss \subseteq Owned(c) /\ gain \cap loss = {}
        /\ bitmap' = (bitmap \cup gain) \ loss
    BY ZenonT(30), <1>1, <1>4
  <2> HIDE DEF gain, loss
  <2>8. FramesExclusive'
    BY ZenonT(30), <2>3, <2>5, <2>6, <2>7, OwnerStep DEF FrameInv
  <2> QED
    BY ZenonT(30), <2>3, <2>4, <2>8 DEF FrameInv
<1>5. CASE f \in bitmap
  <2> DEFINE r == [pc |-> "word", at |-> op[c].at + 1, start |-> 0, count |-> op[c].count]
  <2>1. op' = [op EXCEPT ![c] = r] /\ UNCHANGED <<bitmap, held>>
    BY ZenonT(30), <1>5, <1>1 DEF TakeBit, Goto, FrameTypeOK
  <2>2. r \in Locals /\ r.pc = "word"
    BY <1>1 DEF Locals
  <2> HIDE DEF r
  <2>3. op'[c] = r
    BY ZenonT(30), <1>1, <2>1 DEF FrameTypeOK
  <2>4. (Claimed(c))' = Claimed(c) /\ (CallInRange(c))'
    BY ZenonT(30), <1>2, <2>2, <2>3 DEF Claimed, CallInRange
  <2> QED
    BY ZenonT(30), <2>1, <2>2, <2>4, LocalStep
<1> QED
  BY ZenonT(30), <1>4, <1>5

\* One frame of the scan for a run.
LEMMA ScanStep ==
    ASSUME FrameInv, NEW c \in Callers, ScanFrame(c)
    PROVE  FrameInv'
<1> DEFINE f == op[c].at
<1>1. /\ FrameTypeOK /\ op[c].pc = "scan" /\ op[c] \in Locals /\ UNCHANGED bitmap
      /\ op[c].start <= f /\ f < op[c].start + op[c].count
  BY ZenonT(30) DEF FrameInv, FramesExclusive, FrameTypeOK, ScanFrame, CallInRange
<1>2. op[c].at \in Nat /\ op[c].start \in Nat /\ op[c].count \in Nat /\ Total \in Nat
  BY ZenonT(30), <1>1, FrameAssumption DEF Locals
<1>3. Claimed(c) = {}
  BY ZenonT(30), <1>1 DEF Claimed
<1>4. CASE f >= Total
  <2>1. op' = [op EXCEPT ![c] = Done] /\ held' = [held EXCEPT ![c] = held[c] \cup {}]
    BY ZenonT(30), <1>1, <1>4 DEF ScanFrame, Return, FrameTypeOK
  <2>2. UNCHANGED <<bitmap, held>>
    BY ZenonT(30), <1>1, <2>1 DEF FrameTypeOK
  <2>3. op'[c] = Done /\ Done \in Locals
    BY ZenonT(30), <1>1, <2>1 DEF FrameTypeOK, Done, Locals
  <2>4. (Claimed(c))' = Claimed(c) /\ (CallInRange(c))'
    BY <1>3, <2>3 DEF Claimed, CallInRange, Done
  <2> QED
    BY ZenonT(30), <2>1, <2>2, <2>3, <2>4, LocalStep
<1>5. CASE f < Total
  <2> DEFINE r == IF f \in bitmap THEN [pc |-> "scan", at |-> f + 1, start |-> f + 1, count |-> op[c].count]
                  ELSE IF f + 1 - op[c].start = op[c].count
                  THEN [pc |-> "claim", at |-> op[c].start, start |-> op[c].start, count |-> op[c].count]
                  ELSE [pc |-> "scan", at |-> f + 1, start |-> op[c].start, count |-> op[c].count]
  <2>1. op' = [op EXCEPT ![c] = r] /\ UNCHANGED <<bitmap, held>>
    BY <1>1, <1>2, <1>5 DEF ScanFrame, Goto, FrameTypeOK
  <2>2. /\ r \in Locals
        /\ r.pc \in {"scan", "claim"}
        /\ r.start <= r.at /\ r.at < r.start + r.count
        /\ r.pc = "claim" => r.at = r.start /\ r.start + r.count <= Total
    BY <1>1, <1>2, <1>5, SMTT(60) DEF Locals
  <2> HIDE DEF r
  <2>3. op'[c] = r
    BY ZenonT(30), <1>1, <2>1 DEF FrameTypeOK
  <2>4. (CallInRange(c))'
    BY ZenonT(30), <2>2, <2>3 DEF CallInRange
  <2>5. (Claimed(c))' = Claimed(c)
    <3>1. CASE r.pc = "claim"
      <4>1. r.start .. r.at - 1 = {}
        BY <2>2, <3>1 DEF Locals
      <4> QED
        BY ZenonT(30), <1>3, <2>3, <3>1, <4>1 DEF Claimed
    <3>2. CASE r.pc = "scan"
      BY ZenonT(30), <1>3, <2>3, <3>2 DEF Claimed
    <3> QED
      BY ZenonT(30), <2>2, <3>1, <3>2
  <2> QED
    BY ZenonT(30), <2>1, <2>2, <2>4, <2>5, LocalStep
<1> QED
  BY <1>2, <1>4, <1>5

\* A caller sets or clears one bit, its locals become r and what it holds h.
LEMMA BitStep ==
    ASSUME FrameInv,
           NEW c \in Callers, NEW r \in Locals, NEW h \in SUBSET Frames,
           op' = [op EXCEPT ![c] = r],
           held' = [held EXCEPT ![c] = h],
           NEW gain, NEW loss,
           gain \subseteq Frames, gain \cap bitmap = {},
           loss \subseteq Frames, loss \subseteq Owned(c), gain \cap loss = {},
           bitmap' = (bitmap \cup gain) \ loss,
           (Owned(c))' = (Owned(c) \cup gain) \ loss,
           h \cap (Claimed(c))' = {},
           (CallInRange(c))'
    PROVE  FrameInv'
<1>1. bitmap' \subseteq Bits
  BY ZenonT(30), FramesHaveBits DEF FrameInv, FramesExclusive, FrameTypeOK
<1>2. /\ FrameTypeOK'
      /\ held'[c] = h
      /\ \A d \in Callers \ {c} : held'[d] = held[d]
      /\ \A d \in Callers \ {c} : (CallInRange(d))' /\ (Claimed(d))' = Claimed(d) /\ (Owned(d))' = Owned(d)
  BY ZenonT(30), <1>1, CallStep
<1>3. \A d \in Callers : (held[d] \cap Claimed(d) = {})'
  BY ZenonT(30), <1>2 DEF FrameInv, FramesExclusive
<1>4. FramesExclusive'
  BY <1>2, <1>3, OwnerStep DEF FrameInv
<1> QED
  BY ZenonT(30), <1>2, <1>4 DEF FrameInv

\* fetch_or on one frame of the run.
LEMMA ClaimStep ==
    ASSUME FrameInv, NEW c \in Callers, Claim(c)
    PROVE  FrameInv'
<1> DEFINE f == op[c].at
           s == op[c].start
           n == op[c].count
<1>1. /\ FrameTypeOK /\ op[c].pc = "claim" /\ op[c] \in Locals /\ bitmap' = bitmap \cup {f}
      /\ s <= f /\ f < s + n /\ s + n <= Total /\ held[c] \in SUBSET Frames
  BY ZenonT(30) DEF FrameInv, FramesExclusive, FrameTypeOK, Claim, CallInRange
<1>2. f \in Nat /\ s \in Nat /\ n \in Nat /\ Total \in Nat /\ f \in Frames
  BY <1>1, FrameAssumption DEF Locals, Frames
<1>3. Claimed(c) = s .. f - 1 /\ Owned(c) = held[c] \cup (s .. f - 1) /\ held[c] \cap (s .. f - 1) = {}
  BY ZenonT(30), <1>1 DEF Claimed, Owned, FrameInv, FramesExclusive
<1>4. held[c] \subseteq bitmap
  BY ZenonT(30) DEF FrameInv, FramesExclusive, Owned
<1>5. CASE f \in bitmap
  <2> DEFINE r == [pc |-> "undo", at |-> f, start |-> s, count |-> n]
  <2>1. op' = [op EXCEPT ![c] = r] /\ UNCHANGED <<bitmap, held>>
    BY ZenonT(30), <1>1, <1>5 DEF Claim, Goto, FrameTypeOK
  <2>2. r \in Locals /\ r.pc = "undo" /\ r.at = f /\ r.start = s /\ r.count >= 1
    BY <1>1, <1>2 DEF Locals
  <2> HIDE DEF r
  <2>3. op'[c] = r
    BY ZenonT(30), <1>1, <2>1 DEF FrameTypeOK
  <2>4. (Claimed(c))' = Claimed(c)
    BY ZenonT(30), <1>3, <2>2, <2>3 DEF Claimed
  <2>5. (CallInRange(c))'
    BY <1>1, <1>2, <2>2, <2>3 DEF CallInRange
  <2> QED
    BY ZenonT(30), <2>1, <2>2, <2>4, <2>5, LocalStep
<1>6. CASE f \notin bitmap
  <2> DEFINE last == f + 1 = s + n
             r == IF last THEN Done ELSE [pc |-> "claim", at |-> f + 1, start |-> s, count |-> n]
             h == IF last THEN held[c] \cup (s .. f) ELSE held[c]
             gain == {f}
             loss == {}
  <2>1. op' = [op EXCEPT ![c] = r] /\ held' = [held EXCEPT ![c] = h]
    BY ZenonT(30), <1>1, <1>6 DEF Claim, Goto, Return, FrameTypeOK
  <2>2. r \in Locals /\ h \in SUBSET Frames
    BY SMTT(60), <1>1, <1>2, FrameAssumption DEF Locals, Done, Frames
  <2>3. op'[c] = r /\ held'[c] = h
    BY ZenonT(30), <1>1, <2>1 DEF FrameTypeOK
  <2>4. s .. f = (s .. f - 1) \cup {f}
    BY <1>1, <1>2
  <2>5. (Claimed(c))' = IF last THEN {} ELSE s .. f
    <3>1. CASE last
      BY <2>3, <3>1 DEF Claimed, Done
    <3>2. CASE ~last
      BY <1>2, <2>3, <3>2 DEF Claimed
    <3> QED
      BY ZenonT(30), <3>1, <3>2
  <2>6. (Owned(c))' = (Owned(c) \cup gain) \ loss
    BY ZenonT(30), <1>3, <2>3, <2>4, <2>5 DEF Owned
  <2>7. h \cap (Claimed(c))' = {}
    BY ZenonT(30), <1>3, <1>4, <1>6, <2>4, <2>5
  <2>8. (CallInRange(c))'
    <3>1. CASE last
      BY <2>3, <3>1 DEF CallInRange, Done
    <3>2. CASE ~last
      BY SMTT(60), <1>1, <1>2, <2>3, <3>2 DEF CallInRange
    <3> QED
      BY ZenonT(30), <3>1, <3>2
  <2>9. /\ gain \subseteq Frames /\ gain \cap bitmap = {}
        /\ loss \subseteq Frames /\ loss \subseteq Owned(c) /\ gain \cap loss = {}
        /\ bitmap' = (bitmap \cup gain) \ loss
    BY ZenonT(30), <1>1, <1>2, <1>6
  <2> HIDE DEF gain, loss, r, h
  <2> QED
    BY ZenonT(30), <2>1, <2>2, <2>6, <2>7, <2>8, <2>9, BitStep
<1> QED
  BY ZenonT(30), <1>5, <1>6

\* fetch_and on one frame claimed before the conflict, or the end of the back-out.
LEMMA UndoStep ==
    ASSUME FrameInv, NEW c \in Callers, Undo(c)
    PROVE  FrameInv'
<1> DEFINE f == op[c].start
           a == op[c].at
           n == op[c].count
<1>1. /\ FrameTypeOK /\ op[c].pc = "undo" /\ op[c] \in Locals /\ held[c] \in SUBSET Frames
      /\ f <= a /\ a < Total /\ n >= 1
  BY ZenonT(30) DEF FrameInv, FramesExclusive, FrameTypeOK, Undo, CallInRange
<1>2. f \in Nat /\ a \in Nat /\ n \in Nat /\ Total \in Nat /\ f \in Frames
  BY <1>1, FrameAssumption DEF Locals, Frames
<1>3. Claimed(c) = f .. a - 1 /\ Owned(c) = held[c] \cup (f .. a - 1) /\ held[c] \cap (f .. a - 1) = {}
  BY ZenonT(30), <1>1 DEF Claimed, Owned, FrameInv, FramesExclusive
<1>4. CASE f < a
  <2> DEFINE r == [pc |-> "undo", at |-> a, start |-> f + 1, count |-> n]
             h == held[c]
             gain == {}
             loss == {f}
  <2>1. op' = [op EXCEPT ![c] = r] /\ held' = [held EXCEPT ![c] = h] /\ bitmap' = bitmap \ {f}
    BY ZenonT(30), <1>1, <1>4 DEF Undo, Goto, FrameTypeOK
  <2>2. r \in Locals /\ h \in SUBSET Frames
    BY SMTT(60), <1>1, <1>2 DEF Locals
  <2>3. op'[c] = r /\ held'[c] = h
    BY ZenonT(30), <1>1, <2>1 DEF FrameTypeOK
  <2>4. f .. a - 1 = {f} \cup (f + 1 .. a - 1) /\ f \notin f + 1 .. a - 1 /\ f \in f .. a - 1
    BY <1>2, <1>4
  <2>5. (Claimed(c))' = f + 1 .. a - 1
    BY <2>3 DEF Claimed
  <2>6. (Owned(c))' = (Owned(c) \cup gain) \ loss
    BY ZenonT(30), <1>3, <2>3, <2>4, <2>5 DEF Owned
  <2>7. h \cap (Claimed(c))' = {}
    BY ZenonT(30), <1>3, <2>4, <2>5
  <2>8. (CallInRange(c))'
    BY SMTT(60), <1>1, <1>2, <1>4, <2>3 DEF CallInRange
  <2>9. /\ gain \subseteq Frames /\ gain \cap bitmap = {}
        /\ loss \subseteq Frames /\ loss \subseteq Owned(c) /\ gain \cap loss = {}
        /\ bitmap' = (bitmap \cup gain) \ loss
    BY ZenonT(30), <1>2, <1>3, <2>1, <2>4
  <2> HIDE DEF gain, loss, r, h
  <2> QED
    BY ZenonT(30), <2>1, <2>2, <2>6, <2>7, <2>8, <2>9, BitStep
<1>5. CASE ~(f < a)
  <2> DEFINE over == a + 1 + n > Total
             r == IF over THEN Done ELSE [pc |-> "scan", at |-> a + 1, start |-> a + 1, count |-> n]
  <2>1. op' = [op EXCEPT ![c] = r] /\ UNCHANGED <<bitmap, held>>
    <3>1. CASE over
      <4>1. op' = [op EXCEPT ![c] = r] /\ UNCHANGED bitmap /\ held' = [held EXCEPT ![c] = @ \cup {}]
        BY ZenonT(30), <1>5, <3>1 DEF Undo, Return
      <4> QED
        BY ZenonT(30), <1>1, <4>1 DEF FrameTypeOK
    <3>2. CASE ~over
      BY ZenonT(30), <1>1, <1>5, <3>2 DEF Undo, Goto, FrameTypeOK
    <3> QED
      BY ZenonT(30), <3>1, <3>2
  <2>2. /\ r \in Locals /\ r.pc \in {"done", "scan"}
        /\ r.pc = "scan" => r.start <= r.at /\ r.at < r.start + r.count
    BY <1>1, <1>2, SMTT(60) DEF Locals, Done
  <2> HIDE DEF r
  <2>3. op'[c] = r
    BY ZenonT(30), <1>1, <2>1 DEF FrameTypeOK
  <2>4. f .. a - 1 = {}
    BY <1>2, <1>5
  <2>5. (Claimed(c))' = Claimed(c)
    BY ZenonT(30), <1>3, <2>2, <2>3, <2>4 DEF Claimed
  <2>6. (CallInRange(c))'
    BY ZenonT(30), <2>2, <2>3 DEF CallInRange
  <2> QED
    BY ZenonT(30), <2>1, <2>2, <2>5, <2>6, LocalStep
<1> QED
  BY ZenonT(30), <1>4, <1>5

\* free: the owner clears the bit.
LEMMA FreeStep ==
    ASSUME FrameInv, NEW c \in Callers, NEW f \in Frames, FreeFrame(c, f)
    PROVE  FrameInv'
<1> DEFINE h == held[c] \ {f}
           gain == {}
           loss == {f}
           r == op[c]
<1>1. /\ FrameTypeOK /\ op[c] = Done /\ f \in held[c] /\ bitmap' = bitmap \ {f}
      /\ held' = [held EXCEPT ![c] = h] /\ op' = op /\ op[c] \in Locals /\ h \in SUBSET Frames
  BY ZenonT(30) DEF FrameInv, FramesExclusive, FrameTypeOK, FreeFrame
<1>2. op' = [op EXCEPT ![c] = r] /\ held'[c] = h
  BY ZenonT(30), <1>1 DEF FrameTypeOK
<1>3. Claimed(c) = {} /\ (Claimed(c))' = {} /\ (CallInRange(c))'
  BY SMTT(60), <1>1 DEF Claimed, CallInRange, Done
<1>4. (Owned(c))' = (Owned(c) \cup gain) \ loss
  BY ZenonT(30), <1>2, <1>3 DEF Owned
<1>5. /\ gain \subseteq Frames /\ gain \cap bitmap = {}
      /\ loss \subseteq Frames /\ loss \subseteq Owned(c) /\ gain \cap loss = {}
      /\ bitmap' = (bitmap \cup gain) \ loss
  BY ZenonT(30), <1>1 DEF Owned
<1>6. h \cap (Claimed(c))' = {}
  BY ZenonT(30), <1>3
<1> HIDE DEF gain, loss, h
<1> QED
  BY ZenonT(30), <1>1, <1>2, <1>3, <1>4, <1>5, <1>6, BitStep

\* Nobody has a frame at first, and the bitmap holds what is reserved.
LEMMA FrameInitial == FrameInit => FrameInv
<1> SUFFICES ASSUME FrameInit
             PROVE  FrameInv
  OBVIOUS
<1>1. \A c \in Callers : op[c] = Done /\ held[c] = {} /\ Claimed(c) = {} /\ Owned(c) = {}
  BY ZenonT(30) DEF FrameInit, Claimed, Owned, Done
<1>2. \A c \in Callers : CallInRange(c)
  BY <1>1 DEF CallInRange, Done
<1>3. FrameTypeOK
  BY ZenonT(30), FramesHaveBits, FrameAssumption DEF FrameTypeOK, FrameInit, Done, Locals, Frames
<1>4. UNION {Owned(c) : c \in Callers} = {}
  BY ZenonT(30), <1>1
<1> QED
  BY ZenonT(30), <1>1, <1>2, <1>3, <1>4 DEF FrameInv, FramesExclusive, FrameInit

\* No frame has two owners, none is given out that is reserved, and none is
\* lost, however the callers of alloc, alloc_contiguous and free preempt each
\* other between two atomic operations (phys.rs: "A frame cannot be
\* double-allocated").
THEOREM FramesNeverShared == FrameSpec => []FramesExclusive
<1>1. ASSUME FrameInv, [FrameNext]_frameVars
      PROVE  FrameInv'
  <2>1. CASE FrameNext
    <3>1. PICK c \in Callers :
            \/ \E n \in 1 .. MaxCount : AllocFrames(c, n)
            \/ LoadWord(c) \/ TakeBit(c) \/ ScanFrame(c) \/ Claim(c) \/ Undo(c)
            \/ \E f \in Frames : FreeFrame(c, f)
      BY ZenonT(30), <2>1 DEF FrameNext
    <3> QED
      BY ZenonT(30), <1>1, <3>1, AllocStep, LoadStep, TakeStep, ScanStep, ClaimStep, UndoStep, FreeStep
  <2>2. CASE UNCHANGED frameVars
    BY <1>1, <2>2, SMTT(60) DEF frameVars, FrameInv, FramesExclusive, FrameTypeOK, CallInRange, Owned, Claimed
  <2> QED
    BY ZenonT(30), <1>1, <2>1, <2>2
<1>2. FrameInv => FramesExclusive
  BY ZenonT(30) DEF FrameInv
<1> QED
  BY <1>1, <1>2, FrameInitial, PTL DEF FrameSpec

-------------------------------------------------------------------------------
(* The kernel heap *)

\* A bounded set that is not empty has a greatest element (where
\* insert_free_block's walk stops).
LEMMA MaxIs ==
    ASSUME NEW n \in Nat, NEW S, S \subseteq 0 .. n, S # {}
    PROVE  Max(S) \in S /\ \A y \in S : Max(S) >= y
  <1> DEFINE D == {n - y : y \in S}
  <1>1. D \subseteq Nat /\ D # {}
    <2>1. \A y \in S : n - y \in Nat
      OBVIOUS
    <2>2. PICK y \in S : TRUE
      BY ZenonT(30)
    <2>3. n - y \in D
      BY ZenonT(30)
    <2> QED
      BY ZenonT(30), <2>1, <2>3
  <1> HIDE DEF D
  <1>2. PICK d \in D : \A e \in D : d =< e
    BY ZenonT(30), <1>1, Least
  <1>3. PICK x \in S : d = n - x
    BY ZenonT(30) DEF D
  <1>4. \A y \in S : n - y \in D
    BY ZenonT(30) DEF D
  <1>5. \A y \in S : x >= y
    <2> TAKE y \in S
    <2>1. n - x =< n - y
      BY ZenonT(30), <1>2, <1>3, <1>4
    <2>2. x \in Nat /\ y \in Nat
      OBVIOUS
    <2> QED
      BY <2>1, <2>2
  <1>6. \E z \in S : \A y \in S : z >= y
    BY ZenonT(30), <1>5
  <1> QED  BY ZenonT(30), <1>6 DEF Max

\* A list built position by position is a sequence.
LEMMA FunctionIsSeq ==
    ASSUME NEW S, NEW n \in Nat, NEW f \in [1 .. n -> S]
    PROVE  f \in Seq(S) /\ Len(f) = n
  OBVIOUS

\* Division with remainder.
LEMMA DivMod ==
    ASSUME NEW n \in Nat, NEW al \in Nat \ {0}
    PROVE  /\ n \div al \in Nat /\ n % al \in 0 .. al - 1
           /\ n = al * (n \div al) + (n % al)
  OBVIOUS

\* A multiple leaves no remainder.
LEMMA MultipleMod ==
    ASSUME NEW q \in Nat, NEW al \in Nat \ {0}
    PROVE  (q * al) % al = 0
  <1> DEFINE n == q * al
  <1>0. n \in Nat /\ n = q * al
    OBVIOUS
  <1> HIDE DEF n
  <1> DEFINE e == n \div al
             f == n % al
  <1>1. e \in Nat /\ f \in 0 .. al - 1 /\ n = al * e + f
    BY ZenonT(30), <1>0, DivMod
  <1> HIDE DEF e, f
  <1>2. al * (q - e) = f
    BY <1>0, <1>1
  <1>3. q - e = 0
    <2>1. CASE q - e >= 1
      <3>1. al * (q - e) >= al
        BY <2>1, <1>1
      <3> QED  BY <3>1, <1>1, <1>2
    <2>2. CASE q - e =< -1
      <3>1. al * (q - e) =< -al
        BY <2>2, <1>1
      <3> QED  BY <3>1, <1>1, <1>2
    <2> QED  BY <2>1, <2>2, <1>1
  <1>4. f = 0
    BY <1>2, <1>3
  <1> QED  BY ZenonT(30), <1>0, <1>4 DEF f

\* Whole frames that are asked for within a whole number of frames fit in it,
\* even when the request is rounded up (try_grow).
LEMMA WholeFramesFit ==
    ASSUME NEW F \in Nat \ {0}, NEW a \in Nat, NEW m \in Nat, NEW g \in Nat, NEW n \in Nat,
           a % F = 0, m % F = 0, n % F = 0, a + g <= m, n < g + F
    PROVE  a + n <= m /\ (a + n) % F = 0
  <1> DEFINE i == a \div F
             j == m \div F
             k == n \div F
  <1>1. i \in Nat /\ a = F * i + (a % F) /\ j \in Nat /\ m = F * j + (m % F) /\ k \in Nat /\ n = F * k + (n % F)
    BY ZenonT(30), DivMod
  <1> HIDE DEF i, j, k
  <1>2. a = F * i /\ m = F * j /\ n = F * k
    BY <1>1
  <1>3. F * i + F * k < F * j + F
    BY <1>2
  <1>4. i + k < j + 1
    <2> SUFFICES ASSUME i + k >= j + 1 PROVE FALSE
      BY <1>1
    <2>1. F * (i + k) >= F * (j + 1)
      BY <1>1
    <2>2. F * (i + k) = F * i + F * k /\ F * (j + 1) = F * j + F
      BY <1>1
    <2>3. F * i \in Nat /\ F * k \in Nat /\ F * j \in Nat
      BY <1>1
    <2> QED  BY <1>3, <2>1, <2>2, <2>3
  <1>5. i + k <= j /\ i + k \in Nat
    BY <1>1, <1>4
  <1>6. F * (i + k) <= F * j
    BY <1>1, <1>5
  <1>7. a + n = F * (i + k)
    BY <1>1, <1>2
  <1>8. F * (i + k) = (i + k) * F
    BY <1>5
  <1>9. ((i + k) * F) % F = 0
    BY ZenonT(30), <1>5, MultipleMod
  <1> QED  BY ZenonT(30), <1>2, <1>6, <1>7, <1>8, <1>9

\* align_up rounds up to a multiple of the alignment.
LEMMA AlignUpIs ==
    ASSUME NEW x \in Nat, NEW al \in Nat \ {0}
    PROVE  /\ AlignUp(x, al) \in Nat /\ AlignUp(x, al) >= x /\ AlignUp(x, al) < x + al
           /\ AlignUp(x, al) % al = 0
  <1> DEFINE q == (x + al - 1) \div al
             r == (x + al - 1) % al
  <1>1. x + al - 1 \in Nat
    OBVIOUS
  <1>2. q \in Nat /\ r \in 0 .. al - 1 /\ x + al - 1 = al * q + r
    BY <1>1
  <1>3. q * al \in Nat /\ q * al = al * q
    BY <1>2
  <1>4. q * al >= x
    BY <1>2, <1>3
  <1>5. (q * al) % al = 0
    BY ZenonT(30), <1>2, MultipleMod
  <1>6. q * al < x + al
    BY <1>2, <1>3
  <1> QED  BY ZenonT(30), <1>3, <1>4, <1>5, <1>6 DEF AlignUp

(***************************************************************************)
(* The free list as the memory it covers                                   *)
(***************************************************************************)
\* where the block at i starts and ends
At(s, i) == s[i].at
Fin(s, i) == s[i].at + s[i].size

\* a list of blocks that hold a header
FreeList(s) == s \in Seq(Block) /\ \A i \in 1 .. Len(s) : s[i].size >= MinBlock

\* no block overlaps a later one; none touches a later one, except around the
\* block at p, or except the block at p an earlier one
Ordered(s) == \A i, j \in 1 .. Len(s) : i < j => Fin(s, i) <= At(s, j)
Spread(s) == \A i, j \in 1 .. Len(s) : i < j => Fin(s, i) < At(s, j)
SpreadBut(s, p) == \A i, j \in 1 .. Len(s) : i < j /\ i # p /\ j # p => Fin(s, i) < At(s, j)
SpreadTo(s, p) == \A i, j \in 1 .. Len(s) : i < j /\ j # p => Fin(s, i) < At(s, j)

\* the memory on the list
Covered(s) == {x \in Nat : \E i \in 1 .. Len(s) : At(s, i) <= x /\ x < Fin(s, i)}

\* What a member of a free list is.
LEMMA FreeBlocks ==
    ASSUME NEW s, FreeList(s)
    PROVE  /\ s \in Seq(Block) /\ Len(s) \in Nat /\ DOMAIN s = 1 .. Len(s)
           /\ \A i \in 1 .. Len(s) : s[i] \in Block
           /\ \A i \in 1 .. Len(s) : At(s, i) \in Nat /\ Fin(s, i) \in Nat /\ At(s, i) + 2 <= Fin(s, i)
  <1>1. s \in Seq(Block) /\ Len(s) \in Nat /\ DOMAIN s = 1 .. Len(s)
    BY DEF FreeList
  <1>2. \A i \in 1 .. Len(s) : s[i] \in Block
    BY <1>1
  <1>3. ASSUME NEW i \in 1 .. Len(s)
        PROVE  At(s, i) \in Nat /\ Fin(s, i) \in Nat /\ At(s, i) + 2 <= Fin(s, i)
    <2>1. s[i] \in Block /\ s[i].size >= 2
      BY ZenonT(30), <1>2 DEF FreeList, MinBlock
    <2>2. s[i].at \in Nat /\ s[i].size \in Nat
      BY ZenonT(30), <2>1 DEF Block
    <2> QED  BY SMTT(60), <2>1, <2>2 DEF At, Fin
  <1> QED  BY ZenonT(30), <1>1, <1>2, <1>3

\* A free list is what its members make it.
LEMMA FreeListFrom ==
    ASSUME NEW t \in Seq(Block), \A i \in 1 .. Len(t) : At(t, i) + 2 <= Fin(t, i)
    PROVE  FreeList(t)
  <1> SUFFICES ASSUME NEW i \in 1 .. Len(t) PROVE t[i].size >= 2
    BY ZenonT(30) DEF FreeList, MinBlock
  <1>1. t[i] \in Block
    OBVIOUS
  <1>2. t[i].at \in Nat /\ t[i].size \in Nat
    BY ZenonT(30), <1>1 DEF Block
  <1>3. At(t, i) + 2 <= Fin(t, i)
    OBVIOUS
  <1> QED  BY <1>2, <1>3 DEF At, Fin

\* The cells of a block of the list are covered.
LEMMA CellsOf ==
    ASSUME NEW s, FreeList(s), NEW i \in 1 .. Len(s)
    PROVE  /\ Cells(s[i]) = {x \in Nat : At(s, i) <= x /\ x < Fin(s, i)}
           /\ Cells(s[i]) \subseteq Covered(s)
  <1>1. At(s, i) \in Nat /\ Fin(s, i) \in Nat
    BY ZenonT(30), FreeBlocks
  <1>2. Cells(s[i]) = At(s, i) .. (Fin(s, i) - 1)
    BY ZenonT(30) DEF Cells, End, At, Fin
  <1>3. Cells(s[i]) = {x \in Nat : At(s, i) <= x /\ x < Fin(s, i)}
    BY <1>1, <1>2
  <1> QED  BY ZenonT(30), <1>3 DEF Covered

\* The cells of a record that says where it starts and how long it is.
LEMMA CellsFrom ==
    ASSUME NEW a, NEW x \in Int, NEW n \in Int, a.at = x, a.size = n
    PROVE  Cells(a) = x .. (x + n - 1)
  BY DEF Cells, End

\* The cells of a block.
LEMMA BlockIs ==
    ASSUME NEW b \in Block
    PROVE  /\ b.at \in Nat /\ b.size \in Nat /\ End(b) \in Nat /\ End(b) = b.at + b.size
           /\ Cells(b) = {x \in Nat : b.at <= x /\ x < End(b)}
  <1>1. b.at \in Nat /\ b.size \in Nat
    BY ZenonT(30) DEF Block
  <1>2. End(b) = b.at + b.size
    BY ZenonT(30) DEF End
  <1> QED  BY <1>1, <1>2 DEF Cells

\* The walk of insert_free_block stops behind the blocks at lower addresses.
LEMMA PositionIs ==
    ASSUME NEW s, FreeList(s), NEW b \in Block
    PROVE  /\ Position(s, b) \in 1 .. Len(s) + 1
           /\ \A j \in 1 .. Position(s, b) - 1 : At(s, j) < b.at
           /\ Position(s, b) <= Len(s) => b.at <= At(s, Position(s, b))
  <1> DEFINE S == {0} \cup {i \in DOMAIN s : \A j \in 1 .. i : At(s, j) < b.at}
  <1>1. Len(s) \in Nat /\ DOMAIN s = 1 .. Len(s) /\ \A i \in 1 .. Len(s) : At(s, i) \in Nat
    BY ZenonT(30), FreeBlocks
  <1>2. S \subseteq 0 .. Len(s) /\ S # {}
    BY <1>1
  <1>3. Max(S) \in S /\ \A y \in S : Max(S) >= y
    BY ZenonT(30), <1>1, <1>2, MaxIs
  <1>4. Position(s, b) = 1 + Max(S)
    BY ZenonT(30) DEF Position, At
  <1> DEFINE m == Max(S)
  <1>5. m \in S /\ (\A y \in S : m >= y) /\ Position(s, b) = 1 + m
    BY ZenonT(30), <1>3, <1>4
  <1> HIDE DEF m
  <1>6. m \in 0 .. Len(s) /\ \A j \in 1 .. m : At(s, j) < b.at
    BY <1>5, <1>2, <1>1
  <1>7. ASSUME m + 1 <= Len(s), At(s, m + 1) < b.at
        PROVE  FALSE
    <2>1. m + 1 \in 1 .. Len(s) /\ \A j \in 1 .. m + 1 : At(s, j) < b.at
      BY <1>6, <1>7, <1>1
    <2>2. m + 1 \in S
      BY ZenonT(30), <2>1, <1>1
    <2> QED  BY <2>2, <1>5, <1>6
  <1>8. b.at \in Nat
    BY ZenonT(30) DEF Block
  <1>9. Position(s, b) \in 1 .. Len(s) + 1
    BY <1>1, <1>5, <1>6
  <1>10. \A j \in 1 .. Position(s, b) - 1 : At(s, j) < b.at
    BY <1>5, <1>6
  <1>11. m + 1 <= Len(s) => b.at <= At(s, m + 1)
    BY <1>1, <1>6, <1>7, <1>8
  <1>12. Position(s, b) = m + 1
    BY <1>5, <1>6
  <1> QED  BY ZenonT(30), <1>9, <1>10, <1>11, <1>12

\* Two blocks are disjoint when no cell is in both.
LEMMA DisjointCells ==
    ASSUME NEW a, NEW b, a.at \in Nat, a.size \in Nat, a.size >= 1, b.at \in Nat, b.size \in Nat, b.size >= 1
    PROVE  Disjoint(a, b) <=> Cells(a) \cap Cells(b) = {}
  <1>1. ASSUME Disjoint(a, b)
        PROVE  Cells(a) \cap Cells(b) = {}
    BY <1>1 DEF Disjoint, Cells, End
  <1>2. ASSUME ~Disjoint(a, b)
        PROVE  Cells(a) \cap Cells(b) # {}
    <2>1. CASE a.at <= b.at
      <3>1. b.at \in Cells(a) /\ b.at \in Cells(b)
        BY <1>2, <2>1 DEF Disjoint, Cells, End
      <3> QED  BY ZenonT(30), <3>1
    <2>2. CASE b.at <= a.at
      <3>1. a.at \in Cells(a) /\ a.at \in Cells(b)
        BY <1>2, <2>2 DEF Disjoint, Cells, End
      <3> QED  BY ZenonT(30), <3>1
    <2> QED  BY <2>1, <2>2
  <1> QED  BY ZenonT(30), <1>1, <1>2

\* Linking in a block that is disjoint from the list keeps it sorted; only the
\* new block may touch its neighbours.
LEMMA LinkedDoes ==
    ASSUME NEW s, FreeList(s), Spread(s),
           NEW b \in Block, b.size >= MinBlock, Cells(b) \cap Covered(s) = {},
           NEW p, p = Position(s, b), NEW t, t = Linked(s, p, b)
    PROVE  /\ FreeList(t) /\ p \in 1 .. Len(t) /\ Ordered(t) /\ SpreadBut(t, p)
           /\ Covered(t) = Covered(s) \cup Cells(b)
  <1>1. /\ s \in Seq(Block) /\ Len(s) \in Nat
        /\ \A i \in 1 .. Len(s) : s[i] \in Block
        /\ \A i \in 1 .. Len(s) : At(s, i) \in Nat /\ Fin(s, i) \in Nat /\ At(s, i) + 2 <= Fin(s, i)
    BY ZenonT(30), FreeBlocks
  <1>2. /\ b.at \in Nat /\ End(b) \in Nat /\ b.at + 2 <= End(b)
        /\ Cells(b) = {x \in Nat : b.at <= x /\ x < End(b)}
    BY BlockIs DEF MinBlock
  <1>3. /\ p \in 1 .. Len(s) + 1
        /\ \A j \in 1 .. p - 1 : At(s, j) < b.at
        /\ p <= Len(s) => b.at <= At(s, p)
    BY ZenonT(30), <1>1, PositionIs
  <1>4. t \in [1 .. Len(s) + 1 -> Block]
    BY SMTT(60), <1>1, <1>3 DEF Linked
  <1>5. t \in Seq(Block) /\ Len(t) = Len(s) + 1
    <2>1. Len(s) + 1 \in Nat
      BY <1>1
    <2> QED  BY ZenonT(30), <2>1, <1>4, FunctionIsSeq
  <1>6. /\ \A j \in 1 .. p - 1 : t[j] = s[j]
        /\ t[p] = b
        /\ \A j \in p .. Len(s) : t[j + 1] = s[j]
    BY <1>1, <1>3 DEF Linked
  <1>7. /\ \A j \in 1 .. p - 1 : At(t, j) = At(s, j) /\ Fin(t, j) = Fin(s, j)
        /\ At(t, p) = b.at /\ Fin(t, p) = End(b)
        /\ \A j \in p .. Len(s) : At(t, j + 1) = At(s, j) /\ Fin(t, j + 1) = Fin(s, j)
    BY ZenonT(30), <1>6 DEF At, Fin, End
  <1>8. ASSUME NEW j \in 1 .. p - 1
        PROVE  Fin(s, j) <= b.at
    <2>1. j \in 1 .. Len(s) /\ At(s, j) < b.at
      BY <1>1, <1>3
    <2>2. ~(b.at < Fin(s, j))
      <3> SUFFICES ASSUME b.at < Fin(s, j) PROVE FALSE
        OBVIOUS
      <3>1. b.at \in Covered(s)
        BY SMTT(60), <2>1, <1>1, <1>2 DEF Covered
      <3>2. b.at \in Cells(b)
        BY <1>2
      <3> QED  BY ZenonT(30), <3>1, <3>2
    <2> QED  BY SMTT(60), <2>1, <2>2, <1>1, <1>2
  <1>9. ASSUME NEW j \in p .. Len(s)
        PROVE  End(b) <= At(s, j)
    <2>1. p \in 1 .. Len(s) /\ j \in 1 .. Len(s)
      BY <1>1, <1>3
    <2>2. At(s, p) <= At(s, j)
      <3>1. CASE j = p
        BY <3>1, <2>1, <1>1
      <3>2. CASE p < j
        <4>1. Fin(s, p) < At(s, j)
          BY ZenonT(30), <3>2, <2>1 DEF Spread
        <4> QED  BY SMTT(60), <4>1, <2>1, <1>1
      <3> QED  BY <3>1, <3>2, <2>1
    <2>3. ~(At(s, j) < End(b))
      <3> SUFFICES ASSUME At(s, j) < End(b) PROVE FALSE
        OBVIOUS
      <3>1. b.at <= At(s, j)
        BY SMTT(60), <2>1, <2>2, <1>1, <1>2, <1>3
      <3>2. At(s, j) \in Cells(b)
        BY ZenonT(30), <3>1, <2>1, <1>1, <1>2
      <3>3. At(s, j) \in Covered(s)
        BY SMTT(60), <2>1, <1>1 DEF Covered
      <3> QED  BY ZenonT(30), <3>2, <3>3
    <2> QED  BY SMTT(60), <2>1, <2>3, <1>1, <1>2
  <1>10. \A j \in 1 .. Len(t) : j \in 1 .. p - 1 \/ j = p \/ (j - 1 \in p .. Len(s) /\ j = (j - 1) + 1)
    BY SMTT(60), <1>1, <1>3, <1>5
  <1>11. FreeList(t)
    <2>1. ASSUME NEW j \in 1 .. Len(t) PROVE At(t, j) + 2 <= Fin(t, j)
      <3>1. CASE j \in 1 .. p - 1
        <4>1. j \in 1 .. Len(s)
          BY SMTT(60), <3>1, <1>1, <1>3
        <4> QED  BY ZenonT(30), <3>1, <4>1, <1>1, <1>7
      <3>2. CASE j = p
        BY ZenonT(30), <3>2, <1>2, <1>7
      <3>3. CASE j - 1 \in p .. Len(s) /\ j = (j - 1) + 1
        <4>1. PICK k \in p .. Len(s) : j = k + 1 /\ k \in 1 .. Len(s)
          BY SMTT(60), <3>3, <1>1, <1>3
        <4> QED  BY ZenonT(30), <4>1, <1>1, <1>7
      <3> QED  BY ZenonT(30), <3>1, <3>2, <3>3, <1>10
    <2> QED  BY ZenonT(30), <2>1, <1>5, FreeListFrom
  <1>12. ASSUME NEW i \in 1 .. Len(t), NEW j \in 1 .. Len(t), i < j
         PROVE  Fin(t, i) <= At(t, j) /\ (i # p /\ j # p => Fin(t, i) < At(t, j))
    <2>1. CASE j \in 1 .. p - 1
      <3>1. i \in 1 .. p - 1 /\ i \in 1 .. Len(s) /\ j \in 1 .. Len(s)
        BY SMTT(60), <2>1, <1>1, <1>3, <1>12
      <3>2. Fin(s, i) < At(s, j)
        BY ZenonT(30), <3>1, <1>12 DEF Spread
      <3> QED  BY SMTT(60), <2>1, <3>1, <3>2, <1>1, <1>7
    <2>2. CASE j = p
      <3>1. i \in 1 .. p - 1
        BY <2>2, <1>12, <1>3
      <3> QED  BY ZenonT(30), <2>2, <3>1, <1>7, <1>8
    <2>3. CASE j - 1 \in p .. Len(s) /\ j = (j - 1) + 1
      <3>1. PICK k \in p .. Len(s) : j = k + 1 /\ k \in 1 .. Len(s)
        BY SMTT(60), <2>3, <1>1, <1>3
      <3>2. CASE i \in 1 .. p - 1
        <4>1. i \in 1 .. Len(s) /\ i < k
          BY SMTT(60), <3>1, <3>2, <1>1, <1>3
        <4>2. Fin(s, i) < At(s, k)
          BY ZenonT(30), <3>1, <4>1 DEF Spread
        <4> QED  BY SMTT(60), <3>1, <3>2, <4>1, <4>2, <1>1, <1>7
      <3>3. CASE i = p
        BY ZenonT(30), <3>1, <3>3, <1>7, <1>9
      <3>4. CASE i - 1 \in p .. Len(s) /\ i = (i - 1) + 1
        <4>1. PICK h \in p .. Len(s) : i = h + 1 /\ h \in 1 .. Len(s) /\ h < k
          BY SMTT(60), <3>1, <3>4, <1>1, <1>3, <1>12
        <4>2. Fin(s, h) < At(s, k)
          BY ZenonT(30), <3>1, <4>1 DEF Spread
        <4> QED  BY SMTT(60), <3>1, <4>1, <4>2, <1>1, <1>7
      <3> QED  BY ZenonT(30), <3>2, <3>3, <3>4, <1>10
    <2> QED  BY ZenonT(30), <2>1, <2>2, <2>3, <1>10
  <1>13. Ordered(t) /\ SpreadBut(t, p)
    BY <1>12 DEF Ordered, SpreadBut
  <1>14. ASSUME NEW x \in Covered(t)
         PROVE  x \in Covered(s) \cup Cells(b)
    <2>1. PICK j \in 1 .. Len(t) : x \in Nat /\ At(t, j) <= x /\ x < Fin(t, j)
      BY ZenonT(30) DEF Covered
    <2>2. CASE j \in 1 .. p - 1
      <3>1. j \in 1 .. Len(s) /\ At(t, j) = At(s, j) /\ Fin(t, j) = Fin(s, j)
        BY SMTT(60), <2>2, <1>1, <1>3, <1>7
      <3> QED  BY ZenonT(30), <2>1, <3>1 DEF Covered
    <2>3. CASE j = p
      BY ZenonT(30), <2>1, <2>3, <1>2, <1>7
    <2>4. CASE j - 1 \in p .. Len(s) /\ j = (j - 1) + 1
      <3>1. PICK k \in p .. Len(s) : j = k + 1 /\ k \in 1 .. Len(s)
        BY <2>4, <1>1, <1>3
      <3>2. At(t, j) = At(s, k) /\ Fin(t, j) = Fin(s, k)
        BY ZenonT(30), <3>1, <1>7
      <3> QED  BY ZenonT(30), <2>1, <3>1, <3>2 DEF Covered
    <2> QED  BY ZenonT(30), <2>2, <2>3, <2>4, <1>10
  <1>15. ASSUME NEW x \in Covered(s)
         PROVE  x \in Covered(t)
    <2>1. PICK j \in 1 .. Len(s) : x \in Nat /\ At(s, j) <= x /\ x < Fin(s, j)
      BY ZenonT(30) DEF Covered
    <2>2. CASE j < p
      <3>1. j \in 1 .. p - 1 /\ j \in 1 .. Len(t)
        BY SMTT(60), <2>2, <1>1, <1>3, <1>5
      <3>2. At(t, j) = At(s, j) /\ Fin(t, j) = Fin(s, j)
        BY ZenonT(30), <3>1, <1>7
      <3> QED  BY ZenonT(30), <2>1, <3>1, <3>2 DEF Covered
    <2>3. CASE j >= p
      <3>1. j \in p .. Len(s) /\ j + 1 \in 1 .. Len(t)
        BY SMTT(60), <2>3, <1>1, <1>3, <1>5
      <3>2. At(t, j + 1) = At(s, j) /\ Fin(t, j + 1) = Fin(s, j)
        BY ZenonT(30), <3>1, <1>7
      <3> QED  BY ZenonT(30), <2>1, <3>1, <3>2 DEF Covered
    <2> QED  BY <2>2, <2>3, <1>3
  <1>16. p \in 1 .. Len(t)
    BY ZenonT(30), <1>1, <1>3, <1>5
  <1>17. Cells(b) \subseteq Covered(t)
    BY <1>2, <1>7, <1>16 DEF Covered
  <1>18. Covered(t) = Covered(s) \cup Cells(b)
    BY ZenonT(30), <1>14, <1>15, <1>17
  <1> QED  BY ZenonT(30), <1>11, <1>13, <1>16, <1>18

\* insert_free_block's merging of a block with its successor: the same memory,
\* one block fewer when the two touch.
LEMMA CoalesceDoes ==
    ASSUME NEW s, FreeList(s), Ordered(s), NEW i \in Int, NEW t, t = Coalesce(s, i)
    PROVE  /\ FreeList(t) /\ Ordered(t) /\ Covered(t) = Covered(s)
           /\ \/ /\ i \in 1 .. Len(s) - 1 /\ Len(t) = Len(s) - 1
                 /\ \A j \in 1 .. i - 1 : At(t, j) = At(s, j) /\ Fin(t, j) = Fin(s, j)
                 /\ At(t, i) = At(s, i) /\ Fin(t, i) = Fin(s, i + 1)
                 /\ \A j \in i + 1 .. Len(t) : At(t, j) = At(s, j + 1) /\ Fin(t, j) = Fin(s, j + 1)
              \/ t = s /\ (i \in 1 .. Len(s) - 1 => Fin(s, i) < At(s, i + 1))
  <1>1. /\ s \in Seq(Block) /\ Len(s) \in Nat
        /\ \A k \in 1 .. Len(s) : s[k] \in Block
        /\ \A k \in 1 .. Len(s) : At(s, k) \in Nat /\ Fin(s, k) \in Nat /\ At(s, k) + 2 <= Fin(s, k)
    BY ZenonT(30), FreeBlocks
  <1>0. End(s[i]) = s[i + 1].at <=> Fin(s, i) = At(s, i + 1)
    BY ZenonT(30) DEF End, Fin, At
  <1>2. CASE i >= 1 /\ i < Len(s) /\ End(s[i]) = s[i + 1].at
    <2> DEFINE m == [at |-> s[i].at, size |-> s[i].size + s[i + 1].size]
    <2>1. i \in 1 .. Len(s) - 1 /\ i \in 1 .. Len(s) /\ i + 1 \in 1 .. Len(s) /\ Fin(s, i) = At(s, i + 1)
      BY <1>0, <1>1, <1>2
    <2>2. m \in Block /\ m.at = At(s, i) /\ m.at + m.size = Fin(s, i + 1)
      <3>1. s[i] \in Block /\ s[i + 1] \in Block
        BY ZenonT(30), <1>1, <2>1
      <3>2. s[i].at \in Nat /\ s[i].size \in Nat /\ s[i + 1].size \in Nat /\ s[i + 1].at \in Nat
        BY ZenonT(30), <3>1 DEF Block
      <3> QED  BY SMTT(60), <3>2, <2>1 DEF Block, At, Fin
    <2>3. t = [j \in 1 .. Len(s) - 1 |-> IF j < i THEN s[j] ELSE IF j = i THEN m ELSE s[j + 1]]
      BY ZenonT(30), <1>2 DEF Coalesce
    <2> HIDE DEF m
    <2>4. t \in [1 .. Len(s) - 1 -> Block]
      BY SMTT(60), <1>1, <2>1, <2>2, <2>3
    <2>5. t \in Seq(Block) /\ Len(t) = Len(s) - 1
      <3>1. Len(s) - 1 \in Nat
        BY <1>1, <2>1
      <3> QED  BY <3>1, <2>4, FunctionIsSeq
    <2>6. /\ \A j \in 1 .. i - 1 : t[j] = s[j]
          /\ t[i] = m
          /\ \A j \in i + 1 .. Len(t) : t[j] = s[j + 1]
      <3>1. \A j \in 1 .. i - 1 : j \in 1 .. Len(s) - 1 /\ j < i
        BY <1>1, <2>1
      <3>2. \A j \in i + 1 .. Len(t) : j \in 1 .. Len(s) - 1 /\ ~(j < i) /\ j # i
        BY <1>1, <2>1, <2>5
      <3>3. i \in 1 .. Len(s) - 1 /\ ~(i < i)
        BY <2>1
      <3> QED  BY ZenonT(30), <3>1, <3>2, <3>3, <2>3
    <2>7. /\ \A j \in 1 .. i - 1 : At(t, j) = At(s, j) /\ Fin(t, j) = Fin(s, j)
          /\ At(t, i) = At(s, i) /\ Fin(t, i) = Fin(s, i + 1)
          /\ \A j \in i + 1 .. Len(t) : At(t, j) = At(s, j + 1) /\ Fin(t, j) = Fin(s, j + 1)
      <3>1. At(t, i) = At(s, i) /\ Fin(t, i) = Fin(s, i + 1)
        BY ZenonT(30), <2>2, <2>6 DEF At, Fin
      <3>2. \A j \in 1 .. i - 1 : At(t, j) = At(s, j) /\ Fin(t, j) = Fin(s, j)
        BY ZenonT(30), <2>6 DEF At, Fin
      <3>3. \A j \in i + 1 .. Len(t) : At(t, j) = At(s, j + 1) /\ Fin(t, j) = Fin(s, j + 1)
        BY ZenonT(30), <2>6 DEF At, Fin
      <3> QED  BY ZenonT(30), <3>1, <3>2, <3>3
    <2>8. \A j \in 1 .. Len(t) :
            \/ j \in 1 .. i - 1 /\ j \in 1 .. Len(s)
            \/ j = i
            \/ j \in i + 1 .. Len(t) /\ j + 1 \in 1 .. Len(s)
      BY <1>1, <2>1, <2>5
    <2>9. Fin(s, i) <= Fin(s, i + 1) /\ At(s, i) + 2 <= Fin(s, i + 1)
      BY <1>1, <2>1
    <2>10. FreeList(t)
      <3>1. ASSUME NEW j \in 1 .. Len(t) PROVE At(t, j) + 2 <= Fin(t, j)
        <4>1. CASE j \in 1 .. i - 1 /\ j \in 1 .. Len(s)
          BY ZenonT(30), <4>1, <1>1, <2>7
        <4>2. CASE j = i
          BY ZenonT(30), <4>2, <2>7, <2>9
        <4>3. CASE j \in i + 1 .. Len(t) /\ j + 1 \in 1 .. Len(s)
          BY ZenonT(30), <4>3, <1>1, <2>7
        <4> QED  BY ZenonT(30), <4>1, <4>2, <4>3, <2>8
      <3> QED  BY ZenonT(30), <3>1, <2>5, FreeListFrom
    <2>11. Ordered(t)
      <3> SUFFICES ASSUME NEW j \in 1 .. Len(t), NEW k \in 1 .. Len(t), j < k
                   PROVE  Fin(t, j) <= At(t, k)
        BY ZenonT(30) DEF Ordered
      <3>1. CASE k \in 1 .. i - 1 /\ k \in 1 .. Len(s)
        <4>1. j \in 1 .. i - 1 /\ j \in 1 .. Len(s)
          BY <3>1, <2>1
        <4>2. Fin(s, j) <= At(s, k)
          BY ZenonT(30), <3>1, <4>1 DEF Ordered
        <4> QED  BY ZenonT(30), <3>1, <4>1, <4>2, <2>7
      <3>2. CASE k = i
        <4>1. j \in 1 .. i - 1 /\ j \in 1 .. Len(s)
          BY <3>2, <1>1, <2>1
        <4>2. Fin(s, j) <= At(s, i)
          BY ZenonT(30), <3>2, <4>1, <2>1 DEF Ordered
        <4> QED  BY ZenonT(30), <3>2, <4>1, <4>2, <2>7
      <3>3. CASE k \in i + 1 .. Len(t) /\ k + 1 \in 1 .. Len(s)
        <4>1. At(t, k) = At(s, k + 1)
          BY ZenonT(30), <3>3, <2>7
        <4>2. CASE j \in 1 .. i - 1 /\ j \in 1 .. Len(s)
          <5>1. Fin(s, j) <= At(s, k + 1)
            BY <3>3, <4>2 DEF Ordered
          <5> QED  BY ZenonT(30), <4>1, <4>2, <5>1, <2>7
        <4>3. CASE j = i
          <5>1. i + 1 < k + 1
            BY <3>3, <2>1
          <5>2. Fin(s, i + 1) <= At(s, k + 1)
            BY ZenonT(30), <3>3, <5>1, <2>1 DEF Ordered
          <5> QED  BY ZenonT(30), <4>1, <4>3, <5>2, <2>7
        <4>4. CASE j \in i + 1 .. Len(t) /\ j + 1 \in 1 .. Len(s)
          <5>1. Fin(s, j + 1) <= At(s, k + 1)
            BY <3>3, <4>4 DEF Ordered
          <5> QED  BY ZenonT(30), <4>1, <4>4, <5>1, <2>7
        <4> QED  BY ZenonT(30), <4>2, <4>3, <4>4, <2>8
      <3> QED  BY ZenonT(30), <3>1, <3>2, <3>3, <2>8
    <2>12. ASSUME NEW x \in Covered(t)
           PROVE  x \in Covered(s)
      <3>1. PICK j \in 1 .. Len(t) : x \in Nat /\ At(t, j) <= x /\ x < Fin(t, j)
        BY ZenonT(30) DEF Covered
      <3>2. CASE j \in 1 .. i - 1 /\ j \in 1 .. Len(s)
        <4>1. At(t, j) = At(s, j) /\ Fin(t, j) = Fin(s, j)
          BY ZenonT(30), <3>2, <2>7
        <4> QED  BY ZenonT(30), <3>1, <3>2, <4>1 DEF Covered
      <3>3. CASE j = i
        <4>1. \/ At(s, i) <= x /\ x < Fin(s, i)
              \/ At(s, i + 1) <= x /\ x < Fin(s, i + 1)
          BY SMTT(60), <3>1, <3>3, <1>1, <2>1, <2>7
        <4> QED  BY ZenonT(30), <3>1, <4>1, <2>1 DEF Covered
      <3>4. CASE j \in i + 1 .. Len(t) /\ j + 1 \in 1 .. Len(s)
        <4>1. At(t, j) = At(s, j + 1) /\ Fin(t, j) = Fin(s, j + 1)
          BY ZenonT(30), <3>4, <2>7
        <4> QED  BY ZenonT(30), <3>1, <3>4, <4>1 DEF Covered
      <3> QED  BY ZenonT(30), <3>2, <3>3, <3>4, <2>8
    <2>13. ASSUME NEW x \in Covered(s)
           PROVE  x \in Covered(t)
      <3>1. PICK j \in 1 .. Len(s) : x \in Nat /\ At(s, j) <= x /\ x < Fin(s, j)
        BY ZenonT(30) DEF Covered
      <3>2. CASE j < i
        <4>1. j \in 1 .. i - 1 /\ j \in 1 .. Len(t)
          BY <3>2, <1>1, <2>1, <2>5
        <4>2. At(t, j) = At(s, j) /\ Fin(t, j) = Fin(s, j)
          BY ZenonT(30), <4>1, <2>7
        <4> QED  BY ZenonT(30), <3>1, <4>1, <4>2 DEF Covered
      <3>3. CASE j = i \/ j = i + 1
        <4>1. i \in 1 .. Len(t) /\ At(t, i) <= x /\ x < Fin(t, i)
          BY SMTT(60), <3>1, <3>3, <1>1, <2>1, <2>5, <2>7
        <4> QED  BY ZenonT(30), <3>1, <4>1 DEF Covered
      <3>4. CASE j > i + 1
        <4>1. PICK k \in i + 1 .. Len(t) : j = k + 1 /\ k \in 1 .. Len(t)
          <5>1. j - 1 \in i + 1 .. Len(t) /\ j = (j - 1) + 1 /\ j - 1 \in 1 .. Len(t)
            BY <3>4, <1>1, <2>1, <2>5
          <5> QED  BY ZenonT(30), <5>1
        <4>2. At(t, k) = At(s, j) /\ Fin(t, k) = Fin(s, j)
          BY ZenonT(30), <4>1, <2>7
        <4> QED  BY ZenonT(30), <3>1, <4>1, <4>2 DEF Covered
      <3> QED  BY <3>2, <3>3, <3>4, <2>1
    <2>14. Covered(t) = Covered(s)
      BY ZenonT(30), <2>12, <2>13
    <2> QED  BY ZenonT(30), <2>1, <2>5, <2>7, <2>10, <2>11, <2>14
  <1>3. CASE ~(i >= 1 /\ i < Len(s) /\ End(s[i]) = s[i + 1].at)
    <2>1. t = s
      BY ZenonT(30), <1>3 DEF Coalesce
    <2>2. ASSUME i \in 1 .. Len(s) - 1
          PROVE  Fin(s, i) < At(s, i + 1)
      <3>1. i \in 1 .. Len(s) /\ i + 1 \in 1 .. Len(s) /\ i < i + 1
        BY <2>2, <1>1
      <3>2. Fin(s, i) <= At(s, i + 1)
        BY ZenonT(30), <3>1 DEF Ordered
      <3>3. Fin(s, i) # At(s, i + 1)
        BY <1>0, <1>3, <2>2, <1>1
      <3> QED  BY <3>1, <3>2, <3>3, <1>1
    <2> QED  BY ZenonT(30), <2>1, <2>2
  <1> QED  BY ZenonT(30), <1>2, <1>3

\* After the merge with the next block only the previous one may touch.
LEMMA NextMerged ==
    ASSUME NEW s, FreeList(s), Ordered(s), NEW p \in 1 .. Len(s), SpreadBut(s, p),
           NEW t, t = Coalesce(s, p)
    PROVE  FreeList(t) /\ Ordered(t) /\ Covered(t) = Covered(s) /\ SpreadTo(t, p) /\ p \in 1 .. Len(t)
  <1>1. /\ s \in Seq(Block) /\ Len(s) \in Nat
        /\ \A k \in 1 .. Len(s) : At(s, k) \in Nat /\ Fin(s, k) \in Nat /\ At(s, k) + 2 <= Fin(s, k)
    BY ZenonT(30), FreeBlocks
  <1>2. /\ FreeList(t) /\ Ordered(t) /\ Covered(t) = Covered(s)
        /\ \/ /\ p \in 1 .. Len(s) - 1 /\ Len(t) = Len(s) - 1
              /\ \A j \in 1 .. p - 1 : At(t, j) = At(s, j) /\ Fin(t, j) = Fin(s, j)
              /\ At(t, p) = At(s, p) /\ Fin(t, p) = Fin(s, p + 1)
              /\ \A j \in p + 1 .. Len(t) : At(t, j) = At(s, j + 1) /\ Fin(t, j) = Fin(s, j + 1)
           \/ t = s /\ (p \in 1 .. Len(s) - 1 => Fin(s, p) < At(s, p + 1))
    <2>1. p \in Int
      OBVIOUS
    <2> QED  BY SMTT(60), <2>1, CoalesceDoes
  <1>3. CASE t = s /\ (p \in 1 .. Len(s) - 1 => Fin(s, p) < At(s, p + 1))
    <2> SUFFICES ASSUME NEW i \in 1 .. Len(s), NEW j \in 1 .. Len(s), i < j, j # p
                 PROVE  Fin(s, i) < At(s, j)
      BY ZenonT(30), <1>2, <1>3 DEF SpreadTo
    <2>1. CASE i # p
      BY ZenonT(30), <2>1 DEF SpreadBut
    <2>2. CASE i = p /\ j = p + 1
      BY <2>2, <1>1, <1>3
    <2>3. CASE i = p /\ j > p + 1
      <3>1. p + 1 \in 1 .. Len(s) /\ p \in 1 .. Len(s) - 1
        BY <2>3, <1>1
      <3>2. Fin(s, p + 1) < At(s, j)
        BY <2>3, <3>1 DEF SpreadBut
      <3>3. Fin(s, p) < At(s, p + 1)
        BY ZenonT(30), <3>1, <1>3
      <3> QED  BY SMTT(60), <2>3, <3>1, <3>2, <3>3, <1>1
    <2> QED  BY <2>1, <2>2, <2>3
  <1>4. CASE /\ p \in 1 .. Len(s) - 1 /\ Len(t) = Len(s) - 1
             /\ \A j \in 1 .. p - 1 : At(t, j) = At(s, j) /\ Fin(t, j) = Fin(s, j)
             /\ At(t, p) = At(s, p) /\ Fin(t, p) = Fin(s, p + 1)
             /\ \A j \in p + 1 .. Len(t) : At(t, j) = At(s, j + 1) /\ Fin(t, j) = Fin(s, j + 1)
    <2>0. p \in 1 .. Len(t)
      BY ZenonT(30), <1>1, <1>4
    <2> SUFFICES ASSUME NEW i \in 1 .. Len(t), NEW j \in 1 .. Len(t), i < j, j # p
                 PROVE  Fin(t, i) < At(t, j)
      BY ZenonT(30), <1>2, <2>0 DEF SpreadTo
    <2>1. CASE j < p
      <3>0. p \in 1 .. Len(s) - 1 /\ Len(t) = Len(s) - 1 /\ Len(s) \in Nat
        BY ZenonT(30), <1>1, <1>4
      <3>1. i \in 1 .. p - 1 /\ j \in 1 .. p - 1 /\ i \in 1 .. Len(s) /\ j \in 1 .. Len(s) /\ i # p
        BY <2>1, <3>0
      <3>2. Fin(s, i) < At(s, j)
        BY ZenonT(30), <3>1 DEF SpreadBut
      <3> QED  BY ZenonT(30), <3>1, <3>2, <1>4
    <2>2. CASE j > p
      <3>1. j \in p + 1 .. Len(t) /\ j + 1 \in 1 .. Len(s) /\ j + 1 # p /\ At(t, j) = At(s, j + 1)
        BY <2>2, <1>1, <1>4
      <3>2. CASE i < p
        <4>1. i \in 1 .. p - 1 /\ i \in 1 .. Len(s) /\ i # p /\ i < j + 1
          BY <3>2, <1>1, <1>4
        <4>2. Fin(s, i) < At(s, j + 1)
          BY ZenonT(30), <3>1, <4>1 DEF SpreadBut
        <4> QED  BY ZenonT(30), <3>1, <4>1, <4>2, <1>4
      <3>3. CASE i = p
        <4>1. p + 1 \in 1 .. Len(s) /\ p + 1 # p /\ p + 1 < j + 1
          BY <2>2, <1>1, <1>4
        <4>2. Fin(s, p + 1) < At(s, j + 1)
          BY ZenonT(30), <3>1, <4>1 DEF SpreadBut
        <4> QED  BY ZenonT(30), <3>1, <3>3, <4>2, <1>4
      <3>4. CASE i > p
        <4>1. i \in p + 1 .. Len(t) /\ i + 1 \in 1 .. Len(s) /\ i + 1 # p /\ i + 1 < j + 1
          BY <3>4, <1>1, <1>4
        <4>2. Fin(s, i + 1) < At(s, j + 1)
          BY ZenonT(30), <3>1, <4>1 DEF SpreadBut
        <4> QED  BY ZenonT(30), <3>1, <4>1, <4>2, <1>4
      <3> QED  BY <3>2, <3>3, <3>4
    <2> QED  BY <2>1, <2>2
  <1> QED  BY ZenonT(30), <1>2, <1>3, <1>4

\* After the merge with the previous block none do.
LEMMA PreviousMerged ==
    ASSUME NEW s, FreeList(s), Ordered(s), NEW p \in 1 .. Len(s), SpreadTo(s, p),
           NEW t, t = Coalesce(s, p - 1)
    PROVE  FreeList(t) /\ Covered(t) = Covered(s) /\ Spread(t)
  <1>1. /\ s \in Seq(Block) /\ Len(s) \in Nat
        /\ \A k \in 1 .. Len(s) : At(s, k) \in Nat /\ Fin(s, k) \in Nat /\ At(s, k) + 2 <= Fin(s, k)
    BY ZenonT(30), FreeBlocks
  <1> DEFINE q == p - 1
  <1>2. q \in Int /\ p = q + 1 /\ q >= 0
    OBVIOUS
  <1>3. /\ FreeList(t) /\ Ordered(t) /\ Covered(t) = Covered(s)
        /\ \/ /\ q \in 1 .. Len(s) - 1 /\ Len(t) = Len(s) - 1
              /\ \A j \in 1 .. q - 1 : At(t, j) = At(s, j) /\ Fin(t, j) = Fin(s, j)
              /\ At(t, q) = At(s, q) /\ Fin(t, q) = Fin(s, q + 1)
              /\ \A j \in q + 1 .. Len(t) : At(t, j) = At(s, j + 1) /\ Fin(t, j) = Fin(s, j + 1)
           \/ t = s /\ (q \in 1 .. Len(s) - 1 => Fin(s, q) < At(s, q + 1))
    BY SMTT(60), <1>2, CoalesceDoes
  <1> HIDE DEF q
  <1>4. CASE t = s /\ (q \in 1 .. Len(s) - 1 => Fin(s, q) < At(s, q + 1))
    <2> SUFFICES ASSUME NEW i \in 1 .. Len(s), NEW j \in 1 .. Len(s), i < j
                 PROVE  Fin(s, i) < At(s, j)
      BY ZenonT(30), <1>3, <1>4 DEF Spread
    <2>1. CASE j # p
      BY ZenonT(30), <2>1 DEF SpreadTo
    <2>2. CASE j = p /\ i = q
      BY <2>2, <1>1, <1>2, <1>4
    <2>3. CASE j = p /\ i < q
      <3>1. q \in 1 .. Len(s) /\ q # p /\ q < p
        BY <2>3, <1>1, <1>2
      <3>2. Fin(s, i) < At(s, q)
        BY ZenonT(30), <2>3, <3>1 DEF SpreadTo
      <3>3. Fin(s, q) <= At(s, p)
        BY ZenonT(30), <3>1 DEF Ordered
      <3> QED  BY SMTT(60), <2>3, <3>1, <3>2, <3>3, <1>1
    <2> QED  BY <2>1, <2>2, <2>3, <1>2
  <1>5. CASE /\ q \in 1 .. Len(s) - 1 /\ Len(t) = Len(s) - 1
             /\ \A j \in 1 .. q - 1 : At(t, j) = At(s, j) /\ Fin(t, j) = Fin(s, j)
             /\ At(t, q) = At(s, q) /\ Fin(t, q) = Fin(s, q + 1)
             /\ \A j \in q + 1 .. Len(t) : At(t, j) = At(s, j + 1) /\ Fin(t, j) = Fin(s, j + 1)
    <2> SUFFICES ASSUME NEW i \in 1 .. Len(t), NEW j \in 1 .. Len(t), i < j
                 PROVE  Fin(t, i) < At(t, j)
      BY ZenonT(30), <1>3 DEF Spread
    <2>1. CASE j <= q
      <3>1. i \in 1 .. q - 1 /\ i \in 1 .. Len(s) /\ j \in 1 .. Len(s) /\ j # p
        BY SMTT(60), <2>1, <1>1, <1>2, <1>5
      <3>2. Fin(s, i) < At(s, j)
        BY ZenonT(30), <3>1 DEF SpreadTo
      <3>3. At(t, j) = At(s, j)
        <4>1. j \in 1 .. q - 1 \/ j = q
          BY <2>1, <1>2
        <4> QED  BY ZenonT(30), <4>1, <1>5
      <3> QED  BY ZenonT(30), <3>1, <3>2, <3>3, <1>5
    <2>2. CASE j > q
      <3>1. j \in q + 1 .. Len(t) /\ j + 1 \in 1 .. Len(s) /\ j + 1 # p /\ At(t, j) = At(s, j + 1)
        BY SMTT(60), <2>2, <1>1, <1>2, <1>5
      <3>2. CASE i < q
        <4>1. i \in 1 .. q - 1 /\ i \in 1 .. Len(s) /\ i < j + 1
          BY <3>2, <1>1, <1>5
        <4>2. Fin(s, i) < At(s, j + 1)
          BY ZenonT(30), <3>1, <4>1 DEF SpreadTo
        <4> QED  BY ZenonT(30), <3>1, <4>1, <4>2, <1>5
      <3>3. CASE i = q
        <4>1. q + 1 \in 1 .. Len(s) /\ q + 1 < j + 1
          BY <2>2, <1>1, <1>5
        <4>2. Fin(s, q + 1) < At(s, j + 1)
          BY ZenonT(30), <3>1, <4>1 DEF SpreadTo
        <4> QED  BY ZenonT(30), <3>1, <3>3, <4>2, <1>5
      <3>4. CASE i > q
        <4>1. i \in q + 1 .. Len(t) /\ i + 1 \in 1 .. Len(s) /\ i + 1 < j + 1
          BY <3>4, <1>1, <1>2, <1>5
        <4>2. Fin(s, i + 1) < At(s, j + 1)
          BY ZenonT(30), <3>1, <4>1 DEF SpreadTo
        <4> QED  BY ZenonT(30), <3>1, <4>1, <4>2, <1>5
      <3> QED  BY <3>2, <3>3, <3>4, <1>2
    <2> QED  BY <2>1, <2>2, <1>5
  <1> QED  BY ZenonT(30), <1>3, <1>4, <1>5

\* insert_free_block: the list stays sorted and merged and covers what it
\* covered and the block.
LEMMA InsertDoes ==
    ASSUME NEW s, FreeList(s), Spread(s), NEW b \in Block, b.size >= MinBlock,
           Cells(b) \cap Covered(s) = {}, NEW t, t = InsertFreeBlock(s, b)
    PROVE  FreeList(t) /\ Spread(t) /\ Covered(t) = Covered(s) \cup Cells(b)
  <1> DEFINE p == Position(s, b)
             u == Linked(s, p, b)
             v == Coalesce(u, p)
  <1>2. /\ FreeList(u) /\ p \in 1 .. Len(u) /\ Ordered(u) /\ SpreadBut(u, p)
        /\ Covered(u) = Covered(s) \cup Cells(b)
    BY ZenonT(30), LinkedDoes
  <1>3. t = Coalesce(v, p - 1)
    BY ZenonT(30) DEF InsertFreeBlock, MergeAt
  <1> HIDE DEF p, u
  <1>4. FreeList(v) /\ Ordered(v) /\ Covered(v) = Covered(u) /\ SpreadTo(v, p) /\ p \in 1 .. Len(v)
    BY ZenonT(30), <1>2, NextMerged
  <1> HIDE DEF v
  <1>5. FreeList(t) /\ Covered(t) = Covered(v) /\ Spread(t)
    BY ZenonT(30), <1>3, <1>4, PreviousMerged
  <1> QED  BY ZenonT(30), <1>2, <1>4, <1>5

\* A piece that is too small for a header is dropped, any other is inserted.
LEMMA InsertIfRoomDoes ==
    ASSUME NEW s, FreeList(s), Spread(s), NEW b \in Block,
           Cells(b) \cap Covered(s) = {}, NEW t, t = InsertIfRoom(s, b)
    PROVE  FreeList(t) /\ Spread(t) /\ Covered(t) \subseteq Covered(s) \cup Cells(b)
  <1>1. CASE b.size >= MinBlock
    BY ZenonT(30), <1>1, InsertDoes DEF InsertIfRoom
  <1>2. CASE ~(b.size >= MinBlock)
    BY ZenonT(30), <1>2 DEF InsertIfRoom
  <1> QED  BY ZenonT(30), <1>1, <1>2

\* alloc_inner takes the block it chose off the list.
LEMMA UnlinkedDoes ==
    ASSUME NEW s, FreeList(s), Spread(s), NEW i \in 1 .. Len(s), NEW t, t = Unlinked(s, i)
    PROVE  FreeList(t) /\ Spread(t) /\ Covered(t) \subseteq Covered(s) \ Cells(s[i])
  <1>1. /\ s \in Seq(Block) /\ Len(s) \in Nat
        /\ \A k \in 1 .. Len(s) : s[k] \in Block
        /\ \A k \in 1 .. Len(s) : At(s, k) \in Nat /\ Fin(s, k) \in Nat /\ At(s, k) + 2 <= Fin(s, k)
    BY ZenonT(30), FreeBlocks
  <1>2. Len(s) - 1 \in Nat
    BY <1>1
  <1>3. t \in [1 .. Len(s) - 1 -> Block]
    BY SMTT(60), <1>1 DEF Unlinked
  <1>4. t \in Seq(Block) /\ Len(t) = Len(s) - 1
    BY <1>2, <1>3, FunctionIsSeq
  <1> DEFINE from(j) == IF j < i THEN j ELSE j + 1
  <1>5. \A j \in 1 .. Len(t) : t[j] = s[from(j)]
    BY ZenonT(30), <1>4 DEF Unlinked
  <1>6. \A j \in 1 .. Len(t) : At(t, j) = At(s, from(j)) /\ Fin(t, j) = Fin(s, from(j))
    BY ZenonT(30), <1>5 DEF At, Fin
  <1>7. /\ \A j \in 1 .. Len(t) : from(j) \in 1 .. Len(s) /\ from(j) # i
        /\ \A j, k \in 1 .. Len(t) : j < k => from(j) < from(k)
    BY SMTT(60), <1>1, <1>4
  <1> HIDE DEF from
  <1>8. FreeList(t)
    <2>1. \A j \in 1 .. Len(t) : At(t, j) + 2 <= Fin(t, j)
      BY ZenonT(30), <1>1, <1>6, <1>7
    <2> QED  BY ZenonT(30), <2>1, <1>4, FreeListFrom
  <1>9. Spread(t)
    BY <1>6, <1>7 DEF Spread
  <1>10. ASSUME NEW x \in Covered(t)
         PROVE  x \in Covered(s) \ Cells(s[i])
    <2>1. PICK j \in 1 .. Len(t) : x \in Nat /\ At(t, j) <= x /\ x < Fin(t, j)
      BY ZenonT(30) DEF Covered
    <2>2. PICK k \in 1 .. Len(s) : k # i /\ At(s, k) <= x /\ x < Fin(s, k)
      BY ZenonT(30), <2>1, <1>6, <1>7
    <2>3. x \in Covered(s)
      BY ZenonT(30), <2>1, <2>2 DEF Covered
    <2>4. ~(At(s, i) <= x /\ x < Fin(s, i))
      <3>1. CASE k < i
        <4>1. Fin(s, k) < At(s, i)
          BY ZenonT(30), <3>1 DEF Spread
        <4> QED  BY SMTT(60), <4>1, <2>1, <2>2, <1>1
      <3>2. CASE i < k
        <4>1. Fin(s, i) < At(s, k)
          BY ZenonT(30), <3>2 DEF Spread
        <4> QED  BY SMTT(60), <4>1, <2>1, <2>2, <1>1
      <3> QED  BY <3>1, <3>2, <2>2
    <2>5. x \notin Cells(s[i])
      BY ZenonT(30), <2>4, CellsOf
    <2> QED  BY ZenonT(30), <2>3, <2>5
  <1> QED  BY ZenonT(30), <1>8, <1>9, <1>10

\* alloc_inner: what stays on the list was on it and is not allocated, and the
\* allocation was on it and is aligned.
LEMMA CarvedDoes ==
    ASSUME NEW s, FreeList(s), Spread(s), NEW i \in 1 .. Len(s),
           NEW size \in Nat, size >= MinBlock, NEW align \in Nat \ {0}, Fits(s[i], size, align),
           NEW t, t = Carved(s, i, size, align),
           NEW a, a = [at |-> AlignUp(s[i].at, align), size |-> size, align |-> align]
    PROVE  /\ FreeList(t) /\ Spread(t)
           /\ Covered(t) \subseteq Covered(s) \ Cells(a)
           /\ Cells(a) \subseteq Covered(s)
           /\ a.at \in Nat /\ a.at % a.align = 0
  <1> DEFINE c == s[i]
             at == AlignUp(c.at, align)
             behind == Remainder(c, size, align)
             front == FrontPadding(c, align)
             u == Unlinked(s, i)
             v == InsertIfRoom(u, behind)
  <1>1. c \in Block /\ c.at \in Nat /\ c.size \in Nat /\ End(c) = c.at + c.size
    BY ZenonT(30), FreeBlocks, BlockIs
  <1>2. at \in Nat /\ at >= c.at /\ at % align = 0
    BY ZenonT(30), <1>1, AlignUpIs
  <1>3. at + size <= End(c)
    BY ZenonT(30) DEF Fits
  <1>4. FreeList(u) /\ Spread(u) /\ Covered(u) \subseteq Covered(s) \ Cells(c)
    BY ZenonT(30), UnlinkedDoes
  <1>5. /\ behind = [at |-> at + size, size |-> End(c) - at - size]
        /\ front = [at |-> c.at, size |-> at - c.at]
    BY ZenonT(30) DEF Remainder, FrontPadding
  <1>6. t = InsertIfRoom(v, front)
    BY ZenonT(30) DEF Carved
  <1>7. a.at = at /\ a.size = size /\ a.align = align
    BY ZenonT(30)
  <1> HIDE DEF at, behind, front, u
  <1>8. /\ behind \in Block /\ behind.at = at + size /\ End(behind) = End(c)
        /\ front \in Block /\ front.at = c.at /\ End(front) = at
    <2>1. at + size \in Nat /\ End(c) - at - size \in Nat /\ at - c.at \in Nat
      BY SMTT(60), <1>1, <1>2, <1>3
    <2>2. (at + size) + (End(c) - at - size) = End(c) /\ c.at + (at - c.at) = at
      <3>1. \A x, y, z \in Nat : (x + y) + ((z - x) - y) = z /\ x + (z - x) = z
        OBVIOUS
      <3>2. End(c) \in Nat /\ at \in Nat /\ c.at \in Nat /\ size \in Nat
        BY SMTT(60), <1>1, <1>2
      <3> QED
        BY ZenonT(30), <3>1, <3>2
    <2>3. behind \in Block /\ front \in Block
      BY ZenonT(30), <2>1, <1>1, <1>5 DEF Block
    <2>4. behind.at = at + size /\ behind.size = End(c) - at - size /\ front.at = c.at /\ front.size = at - c.at
      BY ZenonT(30), <1>5
    <2>5. End(behind) = End(c) /\ End(front) = at
      BY ZenonT(30), <2>2, <2>4 DEF End
    <2> QED
      BY ZenonT(30), <2>3, <2>4, <2>5
  <1> HIDE DEF c
  <1>9. /\ Cells(behind) \subseteq Cells(c) /\ Cells(front) \subseteq Cells(c) /\ Cells(a) \subseteq Cells(c)
        /\ Cells(behind) \cap Cells(front) = {}
        /\ Cells(behind) \cap Cells(a) = {} /\ Cells(front) \cap Cells(a) = {}
    <2>1. /\ Cells(behind) = (at + size) .. (End(c) - 1) /\ Cells(front) = c.at .. (at - 1)
          /\ Cells(c) = c.at .. (End(c) - 1)
      BY ZenonT(30), <1>8 DEF Cells
    <2>2. Cells(a) = at .. (at + size - 1)
      BY SMTT(60), <1>2, <1>7, CellsFrom
    <2>3. End(c) \in Nat
      BY <1>1
    <2>4. /\ c.at \in Int /\ at \in Int /\ size \in Int /\ End(c) \in Int
          /\ c.at <= at /\ 0 <= size /\ at + size <= End(c)
      BY SMTT(60), <2>3, <1>1, <1>2, <1>3
    <2>5. /\ Cells(behind) \subseteq Cells(c) /\ Cells(front) \subseteq Cells(c)
          /\ Cells(a) \subseteq Cells(c)
      BY SMTT(60), <2>1, <2>2, <2>4
    <2>6. Cells(behind) \cap Cells(front) = {}
      BY SMTT(60), <2>1, <2>4
    <2>7. Cells(behind) \cap Cells(a) = {} /\ Cells(front) \cap Cells(a) = {}
      BY SMTT(60), <2>1, <2>2, <2>4
    <2> QED  BY ZenonT(30), <2>5, <2>6, <2>7
  <1>10. Cells(behind) \cap Covered(u) = {}
    BY ZenonT(30), <1>4, <1>9
  <1>11. FreeList(v) /\ Spread(v) /\ Covered(v) \subseteq Covered(u) \cup Cells(behind)
    BY ZenonT(30), <1>4, <1>8, <1>10, InsertIfRoomDoes
  <1> HIDE DEF v
  <1>12. Cells(front) \cap Covered(v) = {}
    BY ZenonT(30), <1>4, <1>9, <1>11
  <1>13. FreeList(t) /\ Spread(t) /\ Covered(t) \subseteq Covered(v) \cup Cells(front)
    BY ZenonT(30), <1>6, <1>8, <1>11, <1>12, InsertIfRoomDoes
  <1>14. Cells(c) \subseteq Covered(s)
    BY ZenonT(30), CellsOf DEF c
  <1>15. Covered(t) \subseteq Covered(s) \ Cells(a)
    BY ZenonT(30), <1>4, <1>9, <1>11, <1>13, <1>14
  <1> QED  BY ZenonT(30), <1>2, <1>7, <1>9, <1>13, <1>14, <1>15

(***************************************************************************)
(* The invariant                                                           *)
(***************************************************************************)
\* the memory of the ranges the heap was made of
OwnedCells(rs) == UNION {Cells(r) : r \in rs}

Allocation == [at : Nat, size : Nat, align : Nat \ {0}]

\* HeapSound in terms of the memory covered, for any list: alloc_inner carves
\* from the list try_grow has just extended.
SoundWith(blocks, as, rs) ==
    /\ FreeList(blocks) /\ Spread(blocks)
    /\ as \subseteq Allocation
    /\ \A a \in as : a.size >= MinBlock /\ a.at % a.align = 0
    /\ \A a, b \in as : a # b => Cells(a) \cap Cells(b) = {}
    /\ \A a \in as : Cells(a) \cap Covered(blocks) = {}
    /\ \A a \in as : Cells(a) \subseteq OwnedCells(rs)
    /\ Covered(blocks) \subseteq OwnedCells(rs)
    /\ rs \subseteq Block

\* The inductive invariant of the heap.
HeapInv == SoundWith(list, live, regions)

\* An allocation from a sound list leaves a sound one.
LEMMA CarveKeeps ==
    ASSUME NEW s, NEW rs, SoundWith(s, live, rs), NEW size \in Nat, size >= MinBlock,
           NEW align \in Nat \ {0}, Carve(s, size, align)
    PROVE  SoundWith(list', live', rs)
  <1>1. PICK i \in FirstFit(s, size, align) :
          /\ list' = Carved(s, i, size, align)
          /\ live' = live \cup {[at |-> AlignUp(s[i].at, align), size |-> size, align |-> align]}
    BY ZenonT(30) DEF Carve
  <1>2. FreeList(s) /\ Spread(s)
    BY ZenonT(30) DEF SoundWith
  <1>3. i \in 1 .. Len(s) /\ Fits(s[i], size, align)
    BY ZenonT(30), <1>2, FreeBlocks DEF FirstFit
  <1> DEFINE a == [at |-> AlignUp(s[i].at, align), size |-> size, align |-> align]
             t == Carved(s, i, size, align)
  <1>4. /\ FreeList(t) /\ Spread(t)
        /\ Covered(t) \subseteq Covered(s) \ Cells(a)
        /\ Cells(a) \subseteq Covered(s)
        /\ a.at \in Nat /\ a.at % a.align = 0
    BY ZenonT(30), <1>2, <1>3, CarvedDoes
  <1>5. a.size >= MinBlock /\ a \in Allocation
    BY ZenonT(30), <1>4 DEF Allocation
  <1>6. list' = t /\ live' = live \cup {a}
    BY ZenonT(30), <1>1
  <1> HIDE DEF a, t
  <1>7. live' \subseteq Allocation
    BY ZenonT(30), <1>5, <1>6 DEF SoundWith
  <1>8. \A b \in live' : b.size >= MinBlock /\ b.at % b.align = 0
    BY ZenonT(30), <1>4, <1>5, <1>6 DEF SoundWith
  <1>9. \A b \in live : Cells(b) \cap Cells(a) = {}
    BY ZenonT(30), <1>4 DEF SoundWith
  <1>10. \A b, c \in live' : b # c => Cells(b) \cap Cells(c) = {}
    BY ZenonT(30), <1>6, <1>9 DEF SoundWith
  <1>11. \A b \in live' : Cells(b) \cap Covered(t) = {}
    BY ZenonT(30), <1>4, <1>6 DEF SoundWith
  <1>12. \A b \in live' : Cells(b) \subseteq OwnedCells(rs)
    BY ZenonT(30), <1>4, <1>6 DEF SoundWith
  <1>13. Covered(t) \subseteq OwnedCells(rs) /\ rs \subseteq Block
    BY ZenonT(30), <1>4 DEF SoundWith
  <1> QED  BY ZenonT(30), <1>4, <1>6, <1>7, <1>8, <1>10, <1>11, <1>12, <1>13 DEF SoundWith

\* try_grow adds frames the heap did not own.
LEMMA GrowKeeps ==
    ASSUME HeapInv, NEW b \in Block, b.size >= MinBlock, Room(b.at, b.size)
    PROVE  SoundWith(InsertFreeBlock(list, b), live, regions \cup {b})
  <1>1. \A r \in regions : Cells(b) \cap Cells(r) = {}
    <2> TAKE r \in regions
    <2>1. r.at \in Nat /\ r.size \in Nat /\ b.at \in Nat /\ b.size \in Nat
      BY ZenonT(30) DEF HeapInv, SoundWith, Block
    <2>2. b.at + b.size <= r.at \/ End(r) <= b.at
      BY ZenonT(30) DEF Room
    <2> QED  BY <2>1, <2>2 DEF Cells, End
  <1>2. Cells(b) \cap OwnedCells(regions) = {}
    BY <1>1 DEF OwnedCells
  <1>3. FreeList(list) /\ Spread(list) /\ Covered(list) \subseteq OwnedCells(regions)
    BY ZenonT(30) DEF HeapInv, SoundWith
  <1> DEFINE t == InsertFreeBlock(list, b)
  <1>4. Cells(b) \cap Covered(list) = {}
    BY ZenonT(30), <1>2, <1>3
  <1>5. FreeList(t) /\ Spread(t) /\ Covered(t) = Covered(list) \cup Cells(b)
    BY ZenonT(30), <1>3, <1>4, InsertDoes
  <1> HIDE DEF t
  <1>6. OwnedCells(regions \cup {b}) = OwnedCells(regions) \cup Cells(b)
    BY ZenonT(30) DEF OwnedCells
  <1>7. \A a \in live : Cells(a) \cap Covered(t) = {}
    BY ZenonT(30), <1>2, <1>5 DEF HeapInv, SoundWith
  <1>8. \A a \in live : Cells(a) \subseteq OwnedCells(regions \cup {b})
    BY ZenonT(30), <1>6 DEF HeapInv, SoundWith
  <1>9. Covered(t) \subseteq OwnedCells(regions \cup {b})
    BY ZenonT(30), <1>3, <1>5, <1>6
  <1>10. SoundWith(t, live, regions \cup {b})
    BY ZenonT(30), <1>5, <1>7, <1>8, <1>9 DEF HeapInv, SoundWith
  <1> QED  BY ZenonT(30), <1>10 DEF t

\* dealloc_inner puts back exactly what was handed out.
LEMMA FreeKeeps ==
    ASSUME HeapInv, NEW a \in live, Dealloc(a)
    PROVE  HeapInv'
  <1> DEFINE b == [at |-> a.at, size |-> a.size]
  <1>1. a.at \in Nat /\ a.size \in Nat /\ a.size >= MinBlock
    BY ZenonT(30) DEF HeapInv, SoundWith, Allocation
  <1>2. b \in Block /\ b.size >= MinBlock /\ Cells(b) = Cells(a)
    BY ZenonT(30), <1>1 DEF Block, Cells, End
  <1>3. FreeList(list) /\ Spread(list) /\ Cells(b) \cap Covered(list) = {}
    BY ZenonT(30), <1>2 DEF HeapInv, SoundWith
  <1>4. list' = InsertFreeBlock(list, b) /\ live' = live \ {a} /\ regions' = regions
    BY ZenonT(30) DEF Dealloc
  <1> HIDE DEF b
  <1>5. FreeList(list') /\ Spread(list') /\ Covered(list') = Covered(list) \cup Cells(b)
    BY ZenonT(30), <1>2, <1>3, <1>4, InsertDoes
  <1>6. \A c \in live' : c \in live /\ Cells(c) \cap Cells(a) = {}
    BY ZenonT(30), <1>4 DEF HeapInv, SoundWith
  <1>7. \A c \in live' : Cells(c) \cap Covered(list') = {}
    BY ZenonT(30), <1>2, <1>5, <1>6 DEF HeapInv, SoundWith
  <1>8. Covered(list') \subseteq OwnedCells(regions')
    BY ZenonT(30), <1>2, <1>4, <1>5 DEF HeapInv, SoundWith
  <1>9. \A c \in live' : Cells(c) \subseteq OwnedCells(regions')
    BY ZenonT(30), <1>4, <1>6 DEF HeapInv, SoundWith
  <1>10. \A c, d \in live' : c # d => Cells(c) \cap Cells(d) = {}
    BY ZenonT(30), <1>6 DEF HeapInv, SoundWith
  <1>11. \A c \in live' : c \in Allocation /\ c.size >= MinBlock /\ c.at % c.align = 0
    BY ZenonT(30), <1>6 DEF HeapInv, SoundWith
  <1>12. regions' \subseteq Block
    BY ZenonT(30), <1>4 DEF HeapInv, SoundWith
  <1> QED  BY ZenonT(30), <1>5, <1>7, <1>8, <1>9, <1>10, <1>11, <1>12 DEF HeapInv, SoundWith

\* The heap grows by enough for a header.
LEMMA GrownIs ==
    ASSUME NEW size \in Nat, NEW align \in Nat \ {0}
    PROVE  Grown(size, align) \in Nat /\ Grown(size, align) >= MinBlock
  <1>1. GrowSize(size, align) \in Nat /\ GrowSize(size, align) >= MinBlock
    BY HeapAssumption DEF GrowSize, MinBlock
  <1>2. /\ AlignUp(GrowSize(size, align), FrameUnits) \in Nat
        /\ AlignUp(GrowSize(size, align), FrameUnits) >= GrowSize(size, align)
    BY ZenonT(30), <1>1, AlignUpIs, HeapAssumption
  <1> QED  BY <1>1, <1>2 DEF Grown, MinBlock

\* At boot the heap is one free block.
LEMMA HeapInitially == HeapInit => HeapInv
  <1> SUFFICES ASSUME HeapInit PROVE HeapInv
    OBVIOUS
  <1> DEFINE b == [at |-> 0, size |-> Initial]
  <1>1. b \in Block /\ b.size >= MinBlock
    BY ZenonT(30), HeapAssumption DEF Block
  <1>2. list = <<b>> /\ live = {} /\ regions = {b}
    BY ZenonT(30) DEF HeapInit
  <1> HIDE DEF b
  <1>3. list \in Seq(Block) /\ Len(list) = 1 /\ list[1] = b
    BY <1>1, <1>2
  <1>4. FreeList(list) /\ Spread(list)
    BY <1>1, <1>3 DEF FreeList, Spread
  <1>5. Covered(list) \subseteq OwnedCells(regions)
    <2>1. At(list, 1) = b.at /\ Fin(list, 1) = End(b)
      BY ZenonT(30), <1>3 DEF At, Fin, End
    <2>2. Covered(list) \subseteq Cells(b)
      BY SMTT(60), <2>1, <1>1, <1>3, BlockIs DEF Covered
    <2> QED  BY ZenonT(30), <2>2, <1>2 DEF OwnedCells
  <1> QED  BY ZenonT(30), <1>1, <1>2, <1>4, <1>5 DEF HeapInv, SoundWith

\* The inductive invariant holds for every size of the heap, of frames and of
\* requests, whatever is allocated and freed in whatever order.
THEOREM HeapInvariant == HeapSpec => []HeapInv
  <1>1. HeapInit => HeapInv
    BY ZenonT(30), HeapInitially
  <1>2. HeapInv /\ [HeapNext]_heapVars => HeapInv'
    <2> SUFFICES ASSUME HeapInv, [HeapNext]_heapVars PROVE HeapInv'
      OBVIOUS
    <2>1. ASSUME NEW size \in Sizes, NEW align \in Aligns, Alloc(size, align)
          PROVE  HeapInv'
      <3>1. Rounded(size) \in Nat /\ Rounded(size) >= MinBlock /\ align \in Nat \ {0}
        BY HeapAssumption DEF Rounded, MinBlock
      <3>2. Carve(list, Rounded(size), align) /\ regions' = regions
        BY ZenonT(30), <2>1 DEF Alloc
      <3>3. SoundWith(list, live, regions)
        BY ZenonT(30) DEF HeapInv
      <3>4. SoundWith(list', live', regions)
        BY ZenonT(30), <3>1, <3>2, <3>3, CarveKeeps
      <3> QED  BY ZenonT(30), <3>2, <3>4 DEF HeapInv
    <2>2. ASSUME NEW size \in Sizes, NEW align \in Aligns, GrowAndAlloc(size, align)
          PROVE  HeapInv'
      <3>1. Rounded(size) \in Nat /\ Rounded(size) >= MinBlock /\ align \in Nat \ {0}
        BY HeapAssumption DEF Rounded, MinBlock
      <3> DEFINE n == Grown(Rounded(size), align)
      <3>2. n \in Nat /\ n >= MinBlock
        BY ZenonT(30), <3>1, GrownIs
      <3>3. PICK at \in Extents :
              /\ Room(at, n)
              /\ Carve(InsertFreeBlock(list, [at |-> at, size |-> n]), Rounded(size), align)
              /\ regions' = regions \cup {[at |-> at, size |-> n]}
        BY ZenonT(30), <2>2 DEF GrowAndAlloc
      <3> HIDE DEF n
      <3> DEFINE b == [at |-> at, size |-> n]
      <3>4. b \in Block /\ b.size >= MinBlock /\ b.at = at /\ b.size = n
        BY ZenonT(30), <3>2, HeapAssumption DEF Block
      <3>5. SoundWith(InsertFreeBlock(list, b), live, regions \cup {b})
        BY ZenonT(30), <3>3, <3>4, GrowKeeps
      <3>6. SoundWith(list', live', regions \cup {b})
        BY ZenonT(30), <3>1, <3>3, <3>5, CarveKeeps
      <3> QED  BY ZenonT(30), <3>3, <3>6 DEF HeapInv
    <2>3. ASSUME NEW a \in live, Dealloc(a)
          PROVE  HeapInv'
      BY ZenonT(30), <2>3, FreeKeeps
    <2>4. CASE UNCHANGED heapVars
      BY ZenonT(30), <2>4 DEF heapVars, HeapInv
    <2> QED  BY ZenonT(30), <2>1, <2>2, <2>3, <2>4 DEF HeapNext
  <1> QED  BY <1>1, <1>2, PTL DEF HeapSpec

\* The free list is sorted, merged and disjoint from what is handed out, which
\* is aligned, disjoint and inside the heap (heap.rs: alloc_inner,
\* dealloc_inner, insert_free_block, try_grow).
THEOREM HeapIsSound == HeapSpec => []HeapSound
  <1>1. HeapInv => HeapSound
    <2> SUFFICES ASSUME HeapInv PROVE HeapSound
      OBVIOUS
    <2>0. FreeList(list) /\ Spread(list) /\ live \subseteq Allocation
      BY ZenonT(30) DEF HeapInv, SoundWith
    <2>1. /\ Len(list) \in Nat /\ DOMAIN list = 1 .. Len(list)
          /\ \A k \in 1 .. Len(list) : list[k] \in Block /\ list[k].size >= 1
      <3>1. /\ Len(list) \in Nat /\ DOMAIN list = 1 .. Len(list)
            /\ \A k \in 1 .. Len(list) : list[k] \in Block
        BY ZenonT(30), <2>0, FreeBlocks
      <3>2. \A k \in 1 .. Len(list) : list[k].size >= 2
        BY ZenonT(30), <2>0 DEF FreeList, MinBlock
      <3>3. \A k \in 1 .. Len(list) : list[k].size \in Nat
        BY ZenonT(30), <3>1, BlockIs
      <3> QED  BY SMTT(60), <3>1, <3>2, <3>3
    <2>2. \A a \in live : a.at \in Nat /\ a.size \in Nat /\ a.size >= 1
      BY <2>0 DEF HeapInv, SoundWith, Allocation, MinBlock
    <2>3. \A i \in 1 .. Len(list) - 1 : End(list[i]) < list[i + 1].at
      <3>1. \A i \in 1 .. Len(list) - 1 : Fin(list, i) < At(list, i + 1)
        BY <2>0, <2>1 DEF Spread
      <3> QED  BY ZenonT(30), <3>1 DEF Fin, At, End
    <2>4. \A a, b \in live : a # b => Disjoint(a, b)
      <3> SUFFICES ASSUME NEW a \in live, NEW b \in live, a # b
                   PROVE  Disjoint(a, b)
        OBVIOUS
      <3>1. Cells(a) \cap Cells(b) = {}
        BY ZenonT(30) DEF HeapInv, SoundWith
      <3> QED  BY ZenonT(30), <3>1, <2>2, DisjointCells
    <2>5. \A i \in DOMAIN list : Cells(list[i]) \subseteq Covered(list)
      BY ZenonT(30), <2>0, <2>1, CellsOf
    <2>6. \A a \in live, i \in DOMAIN list : Disjoint(a, list[i])
      <3> SUFFICES ASSUME NEW a \in live, NEW i \in DOMAIN list
                   PROVE  Disjoint(a, list[i])
        OBVIOUS
      <3>1. Cells(a) \cap Cells(list[i]) = {}
        BY ZenonT(30), <2>5 DEF HeapInv, SoundWith
      <3>2. list[i].at \in Nat /\ list[i].size \in Nat /\ list[i].size >= 1
        BY ZenonT(30), <2>1, BlockIs
      <3> QED  BY ZenonT(30), <3>1, <3>2, <2>2, DisjointCells
    <2>7. \A a \in live \cup {list[i] : i \in DOMAIN list} : Cells(a) \subseteq OwnedCells(regions)
      BY ZenonT(30), <2>5 DEF HeapInv, SoundWith
    <2>8. \A a \in live : a.at % a.align = 0
      BY ZenonT(30) DEF HeapInv, SoundWith
    <2>9. \A i \in DOMAIN list : list[i].size >= MinBlock
      BY ZenonT(30), <2>0, <2>1 DEF FreeList
    <2> QED  BY ZenonT(30), <2>3, <2>4, <2>6, <2>7, <2>8, <2>9 DEF HeapSound, OwnedCells
  <1> QED  BY <1>1, HeapInvariant, PTL

\* What heap_size counts: whole frames, exactly those of the heap's ranges.
HeapCounted ==
    /\ IsFiniteSet(OwnedCells(regions))
    /\ heapSize \in Nat /\ heapSize = Cardinality(OwnedCells(regions))
    /\ heapSize % FrameUnits = 0
    /\ heapSize <= MaxHeap

\* A block has as many cells as its size says.
LEMMA CellCount ==
    ASSUME NEW b \in Block
    PROVE  IsFiniteSet(Cells(b)) /\ Cardinality(Cells(b)) = b.size
  <1>1. b.at \in Nat /\ b.size \in Nat
    BY ZenonT(30) DEF Block
  <1>2. Cells(b) = b.at .. (b.at + b.size - 1)
    BY <1>1, CellsFrom
  <1>3. b.at \in Int /\ b.at + b.size - 1 \in Int
    BY <1>1
  <1>4. /\ IsFiniteSet(b.at .. (b.at + b.size - 1))
        /\ Cardinality(b.at .. (b.at + b.size - 1)) =
             IF b.at > b.at + b.size - 1 THEN 0 ELSE (b.at + b.size - 1) - b.at + 1
    BY ZenonT(30), <1>3, FS_Interval
  <1> QED  BY <1>1, <1>2, <1>4

\* try_grow counts what it adds, and stays within the limit.
LEMMA GrowCounted ==
    ASSUME HeapInv, HeapCounted, NEW size \in Sizes, NEW align \in Aligns, GrowAndAlloc(size, align)
    PROVE  HeapCounted'
  <1> DEFINE g == GrowSize(Rounded(size), align)
             n == Grown(Rounded(size), align)
  <1>1. Rounded(size) \in Nat /\ align \in Nat \ {0} /\ FrameUnits \in Nat \ {0} /\ MaxHeap \in Nat
    BY ZenonT(30), HeapAssumption DEF Rounded, MinBlock
  <1>2. g \in Nat
    BY <1>1, HeapAssumption DEF GrowSize
  <1>3. n \in Nat /\ n < g + FrameUnits /\ n % FrameUnits = 0
    BY ZenonT(30), <1>1, <1>2, AlignUpIs DEF Grown
  <1>4. PICK at \in Extents :
          Room(at, n) /\ regions' = regions \cup {[at |-> at, size |-> n]} /\ heapSize' = heapSize + n
    BY ZenonT(30) DEF GrowAndAlloc
  <1>5. heapSize + g <= MaxHeap
    BY ZenonT(30) DEF GrowAndAlloc
  <1> HIDE DEF g, n
  <1> DEFINE b == [at |-> at, size |-> n]
  <1>6. b \in Block /\ b.at = at /\ b.size = n /\ at \in Nat
    BY ZenonT(30), <1>3, HeapAssumption DEF Block
  <1>7. Cells(b) \cap OwnedCells(regions) = {}
    <2>1. ASSUME NEW r \in regions PROVE Cells(b) \cap Cells(r) = {}
      <3>1. r.at \in Nat /\ r.size \in Nat
        BY ZenonT(30) DEF HeapInv, SoundWith, Block
      <3>2. at + n <= r.at \/ End(r) <= at
        BY ZenonT(30), <1>4 DEF Room
      <3> QED  BY <3>1, <3>2, <1>3, <1>6 DEF Cells, End
    <2> QED  BY <2>1 DEF OwnedCells
  <1> HIDE DEF b
  <1>8. OwnedCells(regions') = OwnedCells(regions) \cup Cells(b)
    BY ZenonT(30), <1>4 DEF OwnedCells, b
  <1>9. IsFiniteSet(Cells(b)) /\ Cardinality(Cells(b)) = n
    BY ZenonT(30), <1>6, CellCount
  <1>10. IsFiniteSet(OwnedCells(regions)) /\ Cardinality(OwnedCells(regions)) = heapSize /\ heapSize \in Nat
    BY ZenonT(30) DEF HeapCounted
  <1>11. OwnedCells(regions) \cap Cells(b) = {}
    BY ZenonT(30), <1>7
  <1>12. Cardinality(OwnedCells(regions) \cap Cells(b)) = 0
    BY ZenonT(30), <1>11, FS_EmptySet
  <1>13. /\ IsFiniteSet(OwnedCells(regions'))
         /\ Cardinality(OwnedCells(regions')) = heapSize + n - 0
    BY ZenonT(30), <1>8, <1>9, <1>10, <1>12, FS_Union
  <1>14. heapSize + n <= MaxHeap /\ (heapSize + n) % FrameUnits = 0
    BY ZenonT(30), <1>1, <1>2, <1>3, <1>5, <1>10, WholeFramesFit, HeapAssumption DEF HeapCounted
  <1> QED  BY SMTT(60), <1>3, <1>4, <1>10, <1>13, <1>14 DEF HeapCounted

\* heap_size is what the heap owns and stays within MAX_HEAP_SIZE (try_grow).
THEOREM HeapStaysBounded == HeapSpec => []HeapBounded
  <1>1. HeapInit => HeapCounted
    <2> SUFFICES ASSUME HeapInit PROVE HeapCounted
      OBVIOUS
    <2> DEFINE b == [at |-> 0, size |-> Initial]
    <2>1. b \in Block /\ b.size = Initial
      BY ZenonT(30), HeapAssumption DEF Block
    <2>2. regions = {b} /\ heapSize = Initial
      BY ZenonT(30) DEF HeapInit
    <2> HIDE DEF b
    <2>3. OwnedCells(regions) = Cells(b)
      BY ZenonT(30), <2>2 DEF OwnedCells
    <2>4. IsFiniteSet(Cells(b)) /\ Cardinality(Cells(b)) = Initial
      BY ZenonT(30), <2>1, CellCount
    <2> QED  BY ZenonT(30), <2>2, <2>3, <2>4, HeapAssumption DEF HeapCounted
  <1>2. HeapInv /\ HeapCounted /\ [HeapNext]_heapVars => HeapCounted'
    <2> SUFFICES ASSUME HeapInv, HeapCounted, [HeapNext]_heapVars PROVE HeapCounted'
      OBVIOUS
    <2>1. ASSUME NEW size \in Sizes, NEW align \in Aligns, GrowAndAlloc(size, align)
          PROVE  HeapCounted'
      BY ZenonT(30), <2>1, GrowCounted
    <2>2. CASE regions' = regions /\ heapSize' = heapSize
      BY ZenonT(30), <2>2 DEF HeapCounted, OwnedCells
    <2> QED  BY ZenonT(30), <2>1, <2>2 DEF HeapNext, Alloc, Dealloc, heapVars
  <1>3. HeapCounted => HeapBounded
    BY ZenonT(30) DEF HeapCounted, HeapBounded, OwnedCells
  <1> QED  BY <1>1, <1>2, <1>3, HeapInvariant, PTL DEF HeapSpec


=============================================================================
