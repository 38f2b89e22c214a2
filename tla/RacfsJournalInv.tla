--------------------------- MODULE RacfsJournalInv ----------------------------
(***************************************************************************)
(* JournalInv holds initially and is kept by every step: a transaction up  *)
(* to and including the flush of journal_commit, the end of                *)
(* journal_commit, the unjournaled paths, a crash and the replay at mount. *)
(* What is needed of cardinalities is a hypothesis, CardinalityFacts,      *)
(* discharged in RacfsJournalProofs.                                       *)
(*                                                                         *)
(* The block cache under the journal, without the assumption that          *)
(* operations are serialized: it is never stale on any interleaving of     *)
(* the steps of any number of tasks, and with interrupts off nothing of a  *)
(* transaction reaches its place before the commit record.                 *)
(***************************************************************************)
EXTENDS RacfsJournal, TLAPS

USE CacheAssumption, JournalAssumption

CardinalityFacts ==
    /\ Cardinality({}) = 0
    /\ \A T \in SUBSET Lba : /\ IsFiniteSet(T)
                             /\ Cardinality(T) \in Nat
                             /\ \A U \in SUBSET T : Cardinality(U) <= Cardinality(T)
    /\ \A s \in Seq(Lba) : IsInjective(s) => /\ IsFiniteSet(Range(s))
                                             /\ Cardinality(Range(s)) = Len(s)

-------------------------------------------------------------------------------
(* The recording list *)

\* write_sector notes a sector at most once: the list stays duplicate-free and
\* gains exactly the sector written.
LEMMA NotedProperties ==
    ASSUME recording \in Seq(Lba), IsInjective(recording), NEW l \in Lba
    PROVE  /\ Noted(l) \in Seq(Lba)
           /\ IsInjective(Noted(l))
           /\ Range(Noted(l)) = Range(recording) \cup {l}
           /\ Noted(l) # <<>>
  <1>0. recording # None
    OBVIOUS
  <1>1. CASE l \in Range(recording)
    BY <1>0, <1>1, SMTT(180) DEF Noted, Pinned, Range
  <1>2. CASE l \notin Range(recording)
    <2>1. Noted(l) = Append(recording, l)
      BY ZenonT(30), <1>0, <1>2 DEF Noted, Pinned
    <2>2. /\ Append(recording, l) \in Seq(Lba)
          /\ Len(Append(recording, l)) = Len(recording) + 1
          /\ DOMAIN Append(recording, l) = 1 .. (Len(recording) + 1)
          /\ \A i \in 1 .. Len(recording) : Append(recording, l)[i] = recording[i]
          /\ Append(recording, l)[Len(recording) + 1] = l
      BY SMTT(180)
    <2>3. DOMAIN recording = 1 .. Len(recording) /\ Len(recording) \in Nat
      OBVIOUS
    <2>4. IsInjective(Append(recording, l))
      BY <1>2, <2>2, <2>3, SMTT(180) DEF IsInjective, Range
    <2>5. Range(Append(recording, l)) = Range(recording) \cup {l}
      BY <2>2, <2>3, SMTT(180) DEF Range
    <2> QED
      BY <2>1, <2>2, <2>4, <2>5, <2>3, SMTT(180)
  <1> QED
    BY <1>1, <1>2, ZenonT(30)

-------------------------------------------------------------------------------
(* Type correctness and the inductive invariant *)

\* The sectors of a list (recorded(), a journal header) are sectors.
LEMMA SeqRange == \A s \in Seq(Lba) : Range(s) \subseteq Lba
  BY SMTT(180) DEF Range

\* A cleanly retired, unmounted image satisfies the invariant.
LEMMA InitInv == Init => JournalInv
  BY SMTT(180) DEF Init, JournalInv, TypeOK, CacheTypeOK, CacheCoherent, OneInside,
     Recording, Unmounted, Logging, Applying, Durable, Entries, EmptyHeader, Headers,
     Phases

\* begin_recording opens an empty list.
LEMMA BeginInv ==
    ASSUME CardinalityFacts, Serialized, JournalInv, NEW t \in Tasks, Begin(t)
    PROVE  JournalInv'
  <1>a. <<>> \in Seq(Lba)
    BY SMTT(180)
  <1>n. <<>> # None
    BY <1>a, ZenonT(180) DEF CacheAssumption
  <1>b. Range(<<>>) = {} /\ IsInjective(<<>>)
    BY SMTT(180) DEF IsInjective, Range
  <1>c. Cardinality(Range(<<>>) \ {SB}) = 0
    BY <1>b, ZenonT(30) DEF CardinalityFacts
  <1>1. TypeOK'
    BY SMTT(180) DEF Begin, JournalInv, TypeOK, CacheTypeOK, Entries, At, Goto,
       Headers, Phases, cacheVars, bootVars, localVars
  <1>2. CacheCoherent'
    BY ZenonT(30) DEF Begin, JournalInv, CacheCoherent, TypeOK, CacheTypeOK,
       Entries, cacheVars, bootVars, localVars
  <1>3. OneInside'
    BY ZenonT(30) DEF Begin, JournalInv, OneInside, TypeOK, At, Goto,
       Serialized, cacheVars, bootVars, localVars
  <1>4. Recording'
    BY <1>a, <1>n, <1>b, <1>c, SMTT(180) DEF Begin, JournalInv, Recording, OneInside,
       TypeOK, At, Goto, Serialized, cacheVars, bootVars, localVars
  <1>5. Unmounted'
    BY ZenonT(30) DEF Begin, JournalInv, Unmounted, At, cacheVars, bootVars,
       localVars
  <1>6. Logging'
    BY SMTT(180) DEF Begin, JournalInv, Logging, Recording, TypeOK,
       CacheTypeOK, At, Goto, View, Entries, Serialized, cacheVars, bootVars,
       localVars
  <1>7. Applying'
    BY ZenonT(30) DEF Begin, JournalInv, Applying, TypeOK, CacheTypeOK, At,
       Goto, View, Entries, Serialized, cacheVars, bootVars, localVars
  <1>8. Durable'
    BY ZenonT(180) DEF Begin, JournalInv, Durable, Staged, Logged, View,
       Pinned, TypeOK, CacheTypeOK, Entries, At, Goto, Serialized, Recording,
       cacheVars, bootVars, localVars
  <1> QED
    BY <1>1, <1>2, <1>3, <1>4, <1>5, <1>6, <1>7, <1>8, ZenonT(30) DEF JournalInv

\* A recorded sector write only adds a dirty, pinned sector.
LEMMA OpWriteInv ==
    ASSUME Serialized, JournalInv, NEW t \in Tasks, NEW l \in Lba, NEW v \in
           Val, OpWrite(t, l, v)
    PROVE  JournalInv'
  <1>a. recording \in Seq(Lba) /\ IsInjective(recording)
    BY ZenonT(30) DEF OpWrite, At, JournalInv, Recording, TypeOK, CacheTypeOK
  <1>b. /\ Noted(l) \in Seq(Lba) /\ Noted(l) # None
        /\ IsInjective(Noted(l))
        /\ Range(Noted(l)) = Range(recording) \cup {l}
    BY <1>a, NotedProperties, ZenonT(180)
  <1>c. Pinned = Range(recording) /\ recording # None
    BY <1>a, ZenonT(30) DEF Pinned
  <1>1. TypeOK'
    BY <1>b, SMTT(180) DEF OpWrite, WriteSector, JournalInv, TypeOK,
       CacheTypeOK, Entries, At, Goto, Headers, Phases, cacheVars, bootVars,
       localVars
  <1>2. CacheCoherent'
    BY ZenonT(30) DEF OpWrite, WriteSector, JournalInv, CacheCoherent, TypeOK,
       CacheTypeOK, Entries, cacheVars, bootVars, localVars
  <1>3. OneInside'
    BY ZenonT(30) DEF OpWrite, WriteSector, JournalInv, OneInside, TypeOK, At, Goto,
       Serialized, cacheVars, bootVars, localVars
  <1>4. Recording'
    BY <1>b, <1>c, ZenonT(30) DEF OpWrite, WriteSector, JournalInv, Recording,
       OneInside, TypeOK, At, Goto, Serialized, cacheVars, bootVars, localVars
  <1>5. Unmounted'
    BY ZenonT(30) DEF OpWrite, WriteSector, JournalInv, Unmounted, At, cacheVars,
       bootVars, localVars
  <1>6. Logging'
    BY ZenonT(180) DEF OpWrite, Logging, At, Serialized, localVars
  <1>7. Applying'
    BY ZenonT(180) DEF OpWrite, WriteSector, JournalInv, Applying, TypeOK,
       CacheTypeOK, At, Goto, View, Entries, Serialized, cacheVars, bootVars,
       localVars
  <1>8. Durable'
    BY <1>b, <1>c, SMTT(180) DEF OpWrite, WriteSector, JournalInv, Durable,
       Staged, Logged, View, Pinned, TypeOK, CacheTypeOK, Entries, At, Goto,
       Serialized, Recording, cacheVars, bootVars, localVars
  <1> QED
    BY <1>1, <1>2, <1>3, <1>4, <1>5, <1>6, <1>7, <1>8, ZenonT(30) DEF JournalInv

\* The counters are compared with the device only outside an operation.
LEMMA OpCountInv ==
    ASSUME Serialized, JournalInv, NEW t \in Tasks, NEW v \in Val, OpCount(t,
           v)
    PROVE  JournalInv'
  <1>1. TypeOK'
    BY ZenonT(30) DEF OpCount, JournalInv, TypeOK, CacheTypeOK, Entries, At,
       Goto, Headers, Phases, cacheVars, bootVars, localVars
  <1>2. CacheCoherent'
    BY ZenonT(30) DEF OpCount, JournalInv, CacheCoherent, TypeOK, CacheTypeOK,
       Entries, cacheVars, bootVars, localVars
  <1>3. OneInside'
    BY ZenonT(30) DEF OpCount, JournalInv, OneInside, TypeOK, At, Goto, Serialized,
       cacheVars, bootVars, localVars
  <1>4. Recording'
    BY ZenonT(30) DEF OpCount, JournalInv, Recording, OneInside, TypeOK, At,
       Goto, Serialized, cacheVars, bootVars, localVars
  <1>5. Unmounted'
    BY ZenonT(30) DEF OpCount, JournalInv, Unmounted, At, cacheVars, bootVars, localVars
  <1>6. Logging'
    BY ZenonT(180) DEF OpCount, JournalInv, Logging, Recording, TypeOK,
       CacheTypeOK, At, Goto, View, Entries, Serialized, cacheVars, bootVars,
       localVars
  <1>7. Applying'
    BY ZenonT(30) DEF OpCount, JournalInv, Applying, TypeOK, CacheTypeOK, At,
       Goto, View, Entries, Serialized, cacheVars, bootVars, localVars
  <1>8. Durable'
    BY ZenonT(30) DEF OpCount, JournalInv, Durable, Staged, Logged, View,
       Pinned, TypeOK, CacheTypeOK, Entries, At, Goto, Serialized, Recording,
       cacheVars, bootVars, localVars
  <1> QED
    BY <1>1, <1>2, <1>3, <1>4, <1>5, <1>6, <1>7, <1>8, ZenonT(30) DEF JournalInv

\* flush_sb inside an operation pins the superblock like any other sector.
LEMMA OpFlushSbInv ==
    ASSUME Serialized, JournalInv, NEW t \in Tasks, OpFlushSb(t)
    PROVE  JournalInv'
  <1>a. recording \in Seq(Lba) /\ IsInjective(recording) /\ sb \in Val
    BY ZenonT(30) DEF OpFlushSb, At, JournalInv, Recording, TypeOK, CacheTypeOK,
       Durable
  <1>b. /\ Noted(SB) \in Seq(Lba) /\ Noted(SB) # None
        /\ IsInjective(Noted(SB))
        /\ Range(Noted(SB)) = Range(recording) \cup {SB}
    BY <1>a, NotedProperties, ZenonT(30)
  <1>c. Pinned = Range(recording) /\ recording # None
    BY <1>a, ZenonT(30) DEF Pinned
  <1>d. (Range(recording) \cup {SB}) \ {SB} = Range(recording) \ {SB}
    OBVIOUS
  <1>1. TypeOK'
    BY <1>a, <1>b, SMTT(180) DEF OpFlushSb, WriteSector, JournalInv, TypeOK,
       CacheTypeOK, Entries, At, Goto, Headers, Phases, cacheVars, bootVars,
       localVars
  <1>2. CacheCoherent'
    BY ZenonT(30) DEF OpFlushSb, WriteSector, JournalInv, CacheCoherent, TypeOK,
       CacheTypeOK, Entries, cacheVars, bootVars, localVars
  <1>3. OneInside'
    BY ZenonT(30) DEF OpFlushSb, WriteSector, JournalInv, OneInside, TypeOK, At, Goto,
       Serialized, cacheVars, bootVars, localVars
  <1>4. Recording'
    BY <1>b, <1>c, <1>d, ZenonT(180) DEF OpFlushSb, WriteSector, JournalInv,
       Recording, OneInside, TypeOK, At, Goto, Serialized, cacheVars, bootVars,
       localVars
  <1>5. Unmounted'
    BY ZenonT(30) DEF OpFlushSb, WriteSector, JournalInv, Unmounted, At, cacheVars,
       bootVars, localVars
  <1>6. Logging'
    BY ZenonT(180) DEF OpFlushSb, Logging, At, Serialized, localVars
  <1>7. Applying'
    BY ZenonT(180) DEF OpFlushSb, WriteSector, JournalInv, Applying, TypeOK,
       CacheTypeOK, At, Goto, View, Entries, Serialized, cacheVars, bootVars,
       localVars
  <1>8. Durable'
    BY <1>b, SMTT(180) DEF OpFlushSb, WriteSector, JournalInv, Durable, Staged,
       Logged, View, Pinned, bootVars, localVars
  <1> QED
    BY ZenonT(30), <1>1, <1>2, <1>3, <1>4, <1>5, <1>6, <1>7, <1>8 DEF JournalInv

\* flush skips recorded sectors.
LEMMA OpFlushInv ==
    ASSUME Serialized, JournalInv, NEW t \in Tasks, NEW l \in Lba, OpFlush(t,
           l)
    PROVE  JournalInv'
  <1>1. TypeOK'
    BY ZenonT(30) DEF OpFlush, FlushEntry, JournalInv, TypeOK, CacheTypeOK,
       Entries, At, Goto, Headers, Phases, Flushable, Pinned, cacheVars,
       bootVars, localVars
  <1>2. CacheCoherent'
    BY ZenonT(30) DEF OpFlush, FlushEntry, JournalInv, CacheCoherent, TypeOK,
       CacheTypeOK, Entries, Flushable, Pinned, cacheVars, bootVars, localVars
  <1>3. OneInside'
    BY ZenonT(30) DEF OpFlush, FlushEntry, JournalInv, OneInside, TypeOK, At,
       Goto, Serialized, Flushable, Pinned, cacheVars, bootVars, localVars
  <1>4. Recording'
    BY ZenonT(30) DEF OpFlush, FlushEntry, JournalInv, Recording, OneInside,
       TypeOK, At, Goto, Serialized, Flushable, Pinned, cacheVars, bootVars,
       localVars
  <1>5. Unmounted'
    BY ZenonT(30) DEF OpFlush, FlushEntry, JournalInv, Unmounted, At, Flushable, Pinned,
       cacheVars, bootVars, localVars
  <1>6. Logging'
    BY ZenonT(180) DEF OpFlush, Logging, At, Serialized, localVars
  <1>7. Applying'
    BY ZenonT(30) DEF OpFlush, FlushEntry, JournalInv, Applying, TypeOK,
       CacheTypeOK, At, Goto, View, Entries, Serialized, Flushable, Pinned,
       cacheVars, bootVars, localVars
  <1>8. Durable'
    BY SMTT(180) DEF OpFlush, FlushEntry, JournalInv, Durable, Staged, Logged,
       View, Pinned, TypeOK, CacheTypeOK, Entries, At, Goto, Serialized,
       Recording, Flushable, cacheVars, bootVars, localVars
  <1> QED
    BY <1>1, <1>2, <1>3, <1>4, <1>5, <1>6, <1>7, <1>8, ZenonT(30) DEF JournalInv

\* Dropping the recorded sectors undoes the operation.
LEMMA OpErrInv ==
    ASSUME Serialized, JournalInv, NEW t \in Tasks, OpErr(t)
    PROVE  JournalInv'
  <1>1. TypeOK'
    BY ZenonT(30) DEF OpErr, DiscardRecorded, JournalInv, TypeOK, CacheTypeOK,
       Entries, Goto, Phases, bootVars
  <1>2. CacheCoherent'
    BY ZenonT(30) DEF OpErr, DiscardRecorded, JournalInv, CacheCoherent, TypeOK,
       CacheTypeOK, Entries, Pinned, Recording, cacheVars, bootVars, localVars
  <1>3. OneInside'
    BY ZenonT(30) DEF OpErr, DiscardRecorded, JournalInv, OneInside, TypeOK, At,
       Goto, Serialized, Pinned, CacheCoherent, Recording, cacheVars, bootVars,
       localVars
  <1>4. Recording'
    BY ZenonT(30) DEF OpErr, DiscardRecorded, JournalInv, Recording, OneInside,
       TypeOK, At, Goto, Serialized, Pinned, CacheCoherent, cacheVars,
       bootVars, localVars
  <1>5. Unmounted'
    BY ZenonT(30) DEF OpErr, DiscardRecorded, JournalInv, Unmounted, At, Pinned,
       CacheCoherent, Recording, cacheVars, bootVars, localVars
  <1>6. Logging'
    BY SMTT(180) DEF OpErr, DiscardRecorded, JournalInv, Logging, Recording,
       TypeOK, CacheTypeOK, At, Goto, View, Entries, Serialized, Pinned,
       CacheCoherent, cacheVars, bootVars, localVars
  <1>7. Applying'
    BY ZenonT(30) DEF OpErr, DiscardRecorded, JournalInv, Applying, TypeOK,
       CacheTypeOK, At, Goto, View, Entries, Serialized, Pinned, CacheCoherent,
       Recording, cacheVars, bootVars, localVars
  <1>8. Durable'
    BY ZenonT(180) DEF OpErr, DiscardRecorded, JournalInv, Durable, Staged,
       Logged, View, TypeOK, CacheTypeOK, Entries, At, CacheCoherent, Applying,
       OneInside
  <1> QED
    BY ZenonT(30), <1>1, <1>2, <1>3, <1>4, <1>5, <1>6, <1>7, <1>8 DEF JournalInv

\* The superblock joins the list before recording ends.
LEMMA OpOkInv ==
    ASSUME Serialized, JournalInv, NEW t \in Tasks, OpOk(t)
    PROVE  JournalInv'
  <1>a. recording \in Seq(Lba) /\ IsInjective(recording) /\ sb \in Val
    BY ZenonT(30) DEF OpOk, At, JournalInv, Recording, TypeOK, CacheTypeOK,
       Durable
  <1>b. /\ Noted(SB) \in Seq(Lba) /\ Noted(SB) # <<>>
        /\ IsInjective(Noted(SB))
        /\ Range(Noted(SB)) = Range(recording) \cup {SB}
    BY ZenonT(30), <1>a, NotedProperties
  <1>c. Pinned = Range(recording) /\ recording # None
    BY <1>a, ZenonT(30) DEF Pinned
  <1>d. Len(Noted(SB)) \in Nat
    BY <1>b
  <1>e. /\ pc'[t] \in {"log", "spill"}
        /\ sectors'[t] = Noted(SB)
        /\ pc'[t] = "log" <=> Len(Noted(SB)) <= Cap
        /\ \A u \in Tasks : u # t => pc'[u] = "idle" /\ pc[u] = "idle"
    BY <1>b, <1>c, <1>d, SMTT(180) DEF Serialized, OpOk, At, Goto, JournalInv,
       TypeOK, OneInside
  <1>1. TypeOK'
    BY <1>a, <1>b, <1>c, SMTT(180) DEF OpOk, JournalInv, TypeOK, CacheTypeOK,
       Entries, At, Goto, Headers, Phases, cacheVars, bootVars, localVars
  <1>2. CacheCoherent'
    BY ZenonT(30) DEF OpOk, JournalInv, CacheCoherent, TypeOK, CacheTypeOK,
       Entries, cacheVars, bootVars, localVars
  <1>3. OneInside'
    BY ZenonT(30) DEF OpOk, JournalInv, OneInside, TypeOK, At, Goto, Serialized,
       cacheVars, bootVars, localVars
  <1>4. Recording'
    BY ZenonT(30) DEF OpOk, JournalInv, Recording, OneInside, TypeOK, At, Goto,
       Serialized, cacheVars, bootVars, localVars
  <1>5. Unmounted'
    BY ZenonT(30) DEF OpOk, JournalInv, Unmounted, At, cacheVars, bootVars, localVars
  <1>6. Logging'
    BY <1>b, <1>e, SMTT(180) DEF OpOk, JournalInv, Logging, Recording, TypeOK
  <1>7. Applying'
    BY ZenonT(30) DEF OpOk, JournalInv, Applying, TypeOK, CacheTypeOK, At, Goto,
       View, Entries, Serialized, cacheVars, bootVars, localVars
  <1>8. Durable'
    <2>1. \A l \in Lba : Staged(l) => Staged(l)'
      BY <1>b, <1>c, <1>e, ZenonT(30) DEF Staged, OpOk, At
    <2>2. \A l \in Lba : Logged(l)' = Logged(l)
      BY ZenonT(30) DEF Logged, OpOk
    <2>3. \A l \in Lba \ {SB} : View(l)' = View(l) /\ disk'[l] = disk[l]
      BY ZenonT(30) DEF View, OpOk, JournalInv, TypeOK, CacheTypeOK
    <2>4. Staged(SB)'
      BY <1>b, <1>e, ZenonT(30) DEF Staged
    <2>5. View(SB)' = sb /\ sb' = sb
      BY <1>a, ZenonT(30) DEF View, OpOk, JournalInv, TypeOK, CacheTypeOK
    <2> QED
      BY <1>a, <2>1, <2>2, <2>3, <2>4, <2>5, ZenonT(30) DEF Durable, JournalInv,
         OpOk, At
  <1> QED
    BY <1>1, <1>2, <1>3, <1>4, <1>5, <1>6, <1>7, <1>8, ZenonT(30) DEF JournalInv

\* Slots are filled from the cache while the header is still empty.
LEMMA LogSlotInv ==
    ASSUME Serialized, JournalInv, NEW t \in Tasks, LogSlot(t)
    PROVE  JournalInv'
  <1>1. TypeOK'
    BY SMTT(180) DEF LogSlot, JournalInv, TypeOK, CacheTypeOK, Entries, At,
       Logging, View, cacheVars, bootVars
  <1>2. CacheCoherent'
    BY ZenonT(30) DEF LogSlot, JournalInv, CacheCoherent, TypeOK, CacheTypeOK,
       Entries, cacheVars, bootVars, localVars
  <1>3. OneInside'
    BY ZenonT(30) DEF LogSlot, JournalInv, OneInside, TypeOK, At, Goto,
       Serialized, cacheVars, bootVars, localVars
  <1>4. Recording'
    BY ZenonT(30) DEF LogSlot, JournalInv, Recording, OneInside, TypeOK, At,
       Goto, Serialized, cacheVars, bootVars, localVars
  <1>5. Unmounted'
    BY ZenonT(30) DEF LogSlot, JournalInv, Unmounted, At, cacheVars, bootVars,
       localVars
  <1>6. Logging'
    BY SMTT(180) DEF LogSlot, JournalInv, Logging, TypeOK, At, View,
       Serialized, cacheVars
  <1>7. Applying'
    BY ZenonT(180) DEF LogSlot, JournalInv, Applying, TypeOK, CacheTypeOK, At,
       Goto, View, Entries, Serialized, cacheVars, bootVars, localVars
  <1>8. Durable'
    BY ZenonT(30) DEF LogSlot, JournalInv, Durable, Staged, Logged, View,
       Pinned, TypeOK, CacheTypeOK, Entries, At, Goto, Serialized, Recording,
       cacheVars, bootVars, localVars
  <1> QED
    BY ZenonT(30), <1>1, <1>2, <1>3, <1>4, <1>5, <1>6, <1>7, <1>8 DEF JournalInv

\* The commit record names slots that all hold their sectors.
LEMMA WriteRecordInv ==
    ASSUME Serialized, JournalInv, NEW t \in Tasks, WriteRecord(t)
    PROVE  JournalInv'
  <1>a. sectors[t] # <<>> /\ sectors[t] \in Seq(Lba)
    BY SMTT(180) DEF WriteRecord, At, JournalInv, Logging, TypeOK, Range
  <1>b. \A j \in DOMAIN sectors[t] : slot[j] = View(sectors[t][j])
    BY SMTT(180) DEF WriteRecord, At, JournalInv, Logging, TypeOK
  <1>1. TypeOK'
    BY ZenonT(30) DEF WriteRecord, Committed, JournalInv, TypeOK, CacheTypeOK,
       Entries, At, Goto, Headers, Phases, cacheVars, bootVars, localVars
  <1>2. CacheCoherent'
    BY ZenonT(30) DEF WriteRecord, Committed, JournalInv, CacheCoherent, TypeOK,
       CacheTypeOK, Entries, cacheVars, bootVars, localVars
  <1>3. OneInside'
    BY SMTT(180) DEF WriteRecord, OneInside, At, Goto, Serialized
  <1>4. Recording'
    BY SMTT(180) DEF WriteRecord, JournalInv, Recording, At, Goto, cacheVars
  <1>5. Unmounted'
    BY ZenonT(30) DEF WriteRecord, Committed, JournalInv, Unmounted, At,
       cacheVars, bootVars, localVars
  <1>6. Logging'
    BY SMTT(180) DEF WriteRecord, JournalInv, Logging, Goto, View, cacheVars
  <1>7. Applying'
    <2>1. /\ header'.state = "COMMITTED" /\ header'.lbas = sectors[t]
          /\ slot' = slot /\ dirty' = dirty /\ mode' = mode
          /\ \A l \in Lba : View(l)' = View(l)
      BY ZenonT(30) DEF WriteRecord, Committed, View, cacheVars, bootVars
    <2>2. /\ pc[t] = "log" /\ mode = "up" /\ pc'[t] = "apply"
          /\ \A u \in Tasks : pc'[u] \notin {"retire"}
      BY ZenonT(30) DEF WriteRecord, JournalInv, TypeOK, OneInside, At, Goto,
         Serialized
    <2>3. IsInjective(sectors[t]) /\ Len(sectors[t]) <= Cap
      BY ZenonT(30) DEF WriteRecord, JournalInv, Logging, At
    <2>4. \A j \in DOMAIN sectors[t] : sectors[t][j] \in Lba
      BY <1>a, SMTT(180)
    <2> QED
      BY <1>a, <1>b, <2>1, <2>2, <2>3, <2>4, SMTT(180) DEF Applying
  <1>8. Durable'
    BY ZenonT(180) DEF WriteRecord, Committed, JournalInv, Durable, Staged,
       Logged, View, At, Serialized, Applying, cacheVars
  <1> QED
    BY ZenonT(30), <1>1, <1>2, <1>3, <1>4, <1>5, <1>6, <1>7, <1>8 DEF JournalInv

\* Writing a dirty sector back changes no view.
LEMMA FlushInv ==
    ASSUME Serialized, JournalInv, NEW t \in Tasks, NEW l \in Lba, Flush(t, l)
    PROVE  JournalInv'
  <1>1. TypeOK'
    BY ZenonT(30) DEF Flush, FlushEntry, JournalInv, TypeOK, CacheTypeOK,
       Entries, Flushable, bootVars, localVars
  <1>2. CacheCoherent'
    BY ZenonT(30) DEF Flush, FlushEntry, JournalInv, CacheCoherent, TypeOK,
       CacheTypeOK, Entries, Flushable, Pinned, cacheVars, bootVars, localVars
  <1>3. OneInside'
    BY ZenonT(30) DEF Flush, FlushEntry, JournalInv, OneInside, TypeOK, At,
       Goto, Serialized, Flushable, Pinned, cacheVars, bootVars, localVars
  <1>4. Recording'
    BY ZenonT(30) DEF Flush, FlushEntry, JournalInv, Recording, OneInside,
       TypeOK, At, Goto, Serialized, Flushable, Pinned, cacheVars, bootVars,
       localVars
  <1>5. Unmounted'
    BY ZenonT(30) DEF Flush, FlushEntry, JournalInv, Unmounted, At, Flushable,
       Pinned, cacheVars, bootVars, localVars
  <1>6. Logging'
    BY ZenonT(180) DEF Flush, JournalInv, Logging, At, Serialized, localVars
  <1>7. Applying'
    BY SMTT(180) DEF Flush, FlushEntry, JournalInv, Applying, TypeOK,
       CacheTypeOK, At, Goto, View, Entries, Serialized, Flushable, Pinned,
       cacheVars, bootVars, localVars
  <1>8. Durable'
    BY SMTT(180) DEF Flush, FlushEntry, JournalInv, Durable, Staged, Logged,
       View, Pinned, TypeOK, CacheTypeOK, Entries, At, Goto, Serialized,
       Recording, Flushable, cacheVars, bootVars, localVars
  <1> QED
    BY ZenonT(30), <1>1, <1>2, <1>3, <1>4, <1>5, <1>6, <1>7, <1>8 DEF JournalInv

\* When the flush ends the cache is clean.
LEMMA FlushDoneInv ==
    ASSUME Serialized, JournalInv, NEW t \in Tasks, FlushDone(t)
    PROVE  JournalInv'
  <1>1. TypeOK'
    BY SMTT(180) DEF FlushDone, JournalInv, TypeOK, CacheTypeOK, Entries, At,
       Goto, Headers, Phases, Flushable, Pinned, Recording, CacheCoherent,
       cacheVars, bootVars, localVars
  <1>2. CacheCoherent'
    BY ZenonT(30) DEF FlushDone, JournalInv, CacheCoherent, TypeOK, CacheTypeOK,
       Entries, Flushable, Pinned, Recording, cacheVars, bootVars, localVars
  <1>3. OneInside'
    BY SMTT(180) DEF FlushDone, OneInside, At, Goto, Serialized
  <1>4. Recording'
    BY ZenonT(30) DEF FlushDone, JournalInv, Recording, OneInside, TypeOK, At,
       Goto, Serialized, Flushable, Pinned, CacheCoherent, cacheVars, bootVars,
       localVars
  <1>5. Unmounted'
    BY ZenonT(30) DEF FlushDone, JournalInv, Unmounted, At, Flushable, Pinned, Recording,
       CacheCoherent, cacheVars, bootVars, localVars
  <1>6. Logging'
    BY SMTT(180) DEF FlushDone, JournalInv, Logging, TypeOK, Goto, View,
       cacheVars
  <1>7. Applying'
    <2>1. /\ header' = header /\ slot' = slot /\ mode' = mode /\ dirty' = dirty
          /\ \A l \in Lba : View(l)' = View(l)
      BY ZenonT(30) DEF FlushDone, View, cacheVars, bootVars
    <2>2. /\ \A u \in Tasks : u # t => pc'[u] = pc[u] /\ pc[u] \notin {"apply", "retire"}
          /\ pc'[t] \in {"apply", "retire"} => pc[t] = "apply"
          /\ pc[t] = "apply" => pc'[t] = "retire"
      BY ZenonT(30) DEF FlushDone, JournalInv, TypeOK, OneInside, At, Goto,
         Serialized
    <2>3. recording = None
      BY ZenonT(30) DEF FlushDone, JournalInv, Recording, OneInside, At
    <2>4. dirty = {}
      BY <2>3, ZenonT(30) DEF FlushDone, Flushable, Pinned
    <2>5. \A k \in DOMAIN header.lbas : View(header.lbas[k])' = View(header.lbas[k])
      BY ZenonT(30) DEF FlushDone, View, cacheVars
    <2>6. /\ header.state = "COMMITTED" =>
               /\ IsInjective(header.lbas) /\ header.lbas # <<>> /\ Len(header.lbas) <= Cap
               /\ mode = "up" => \E u \in Tasks : pc[u] \in {"apply", "retire"}
          /\ \A u \in Tasks : pc[u] \in {"apply", "retire"} =>
               /\ header.state = "COMMITTED"
               /\ \A k \in DOMAIN header.lbas : View(header.lbas[k]) = slot[k]
      BY ZenonT(30) DEF JournalInv, Applying
    <2>7. pc[t] # "retire"
      BY ZenonT(30) DEF FlushDone, At
    <2>8. \A u \in Tasks : pc'[u] \in {"apply", "retire"} => u = t /\ pc[t] = "apply"
      BY ZenonT(30), <2>2
    <2>9. (\E u \in Tasks : pc[u] \in {"apply", "retire"}) =>
            \E u \in Tasks : pc'[u] \in {"apply", "retire"}
      BY <2>2, <2>7
    <2> QED
      BY <2>1, <2>4, <2>5, <2>6, <2>8, <2>9, ZenonT(180) DEF Applying
  <1>8. Durable'
    BY ZenonT(30) DEF FlushDone, JournalInv, Durable, Staged, View, Pinned,
       Entries, At, Serialized, Recording, Flushable, CacheCoherent, cacheVars
  <1> QED
    BY ZenonT(30), <1>1, <1>2, <1>3, <1>4, <1>5, <1>6, <1>7, <1>8 DEF JournalInv

-------------------------------------------------------------------------------
(* The end of journal_commit, the unjournaled paths, crashes and replay *)

\* The log is cleared after every logged sector is in place.
LEMMA RetireInv ==
    ASSUME Serialized, JournalInv, NEW t \in Tasks, Retire(t)
    PROVE  JournalInv'
  <1>1. TypeOK'
    BY SMTT(180) DEF Retire, EmptyHeader, JournalInv, TypeOK, CacheTypeOK,
       Entries, At, Goto, Headers, Phases, cacheVars, bootVars, localVars
  <1>2. CacheCoherent'
    BY ZenonT(30) DEF Retire, EmptyHeader, JournalInv, CacheCoherent, TypeOK,
       CacheTypeOK, Entries, cacheVars, bootVars, localVars
  <1>3. OneInside'
    BY ZenonT(30) DEF Retire, EmptyHeader, JournalInv, OneInside, TypeOK, At,
       Goto, Serialized, cacheVars, bootVars, localVars
  <1>4. Recording'
    BY ZenonT(30) DEF Retire, EmptyHeader, JournalInv, Recording, OneInside,
       TypeOK, At, Goto, Serialized, cacheVars, bootVars, localVars
  <1>5. Unmounted'
    BY ZenonT(30) DEF Retire, EmptyHeader, JournalInv, Unmounted, At, cacheVars, bootVars,
       localVars
  <1>6. Logging'
    BY SMTT(180) DEF Retire, EmptyHeader, JournalInv, Logging, Recording,
       TypeOK, CacheTypeOK, At, Goto, View, Entries, Serialized, cacheVars,
       bootVars, localVars
  <1>7. Applying'
    BY ZenonT(30) DEF Retire, EmptyHeader, JournalInv, Applying, TypeOK, At,
       Goto, Serialized
  <1>8. Durable'
    BY ZenonT(180) DEF Retire, EmptyHeader, JournalInv, Durable, Staged,
       Logged, View, Pinned, TypeOK, CacheTypeOK, Entries, At, Goto,
       Serialized, Recording, Applying, CacheCoherent, cacheVars, bootVars,
       localVars
  <1> QED
    BY <1>1, <1>2, <1>3, <1>4, <1>5, <1>6, <1>7, <1>8, ZenonT(30) DEF JournalInv

\* Outside a transaction only file data differs from the device.
LEMMA PlainWriteInv ==
    ASSUME Serialized, JournalInv, NEW t \in Tasks, NEW l \in Lba, NEW v \in
           Val, PlainWrite(t, l, v)
    PROVE  JournalInv'
  <1>a. recording = None /\ recording' = None
    BY ZenonT(30) DEF Serialized, PlainWrite, WriteSector, Noted, At,
       JournalInv, Recording
  <1>1. TypeOK'
    BY SMTT(180) DEF PlainWrite, WriteSector, Noted, JournalInv, TypeOK,
       CacheTypeOK, Entries, bootVars, localVars
  <1>2. CacheCoherent'
    BY ZenonT(30) DEF PlainWrite, WriteSector, Noted, JournalInv, CacheCoherent,
       TypeOK, CacheTypeOK, Entries, cacheVars, bootVars, localVars
  <1>3. OneInside'
    BY ZenonT(30) DEF PlainWrite, WriteSector, Noted, JournalInv, OneInside,
       TypeOK, At, Goto, Serialized, cacheVars, bootVars, localVars
  <1>4. Recording'
    BY ZenonT(180) DEF PlainWrite, WriteSector, Noted, JournalInv, Recording,
       OneInside, TypeOK, At, Goto, Serialized, cacheVars, bootVars, localVars
  <1>5. Unmounted'
    BY ZenonT(30) DEF PlainWrite, WriteSector, Noted, JournalInv, Unmounted, At,
       cacheVars, bootVars, localVars
  <1>6. Logging'
    BY ZenonT(180) DEF PlainWrite, WriteSector, Noted, JournalInv, Logging,
       Recording, TypeOK, CacheTypeOK, At, Goto, View, Entries, Serialized,
       cacheVars, bootVars, localVars
  <1>7. Applying'
    BY ZenonT(180) DEF PlainWrite, WriteSector, Noted, JournalInv, Applying,
       TypeOK, CacheTypeOK, At, Goto, View, Entries, Serialized, cacheVars,
       bootVars, localVars
  <1>8. Durable'
    <2>1. \A k \in Lba : Staged(k)' = Staged(k) /\ Logged(k)' = Logged(k)
      BY ZenonT(30), <1>a DEF Staged, Logged, Pinned, PlainWrite, localVars
    <2>2. \A k \in Lba \ {l} : View(k)' = View(k) /\ disk'[k] = disk[k]
      BY ZenonT(30) DEF View, PlainWrite, WriteSector, JournalInv, TypeOK, CacheTypeOK
    <2>3. View(l)' = v /\ disk'[l] = disk[l]
      BY ZenonT(30) DEF View, PlainWrite, WriteSector, JournalInv, TypeOK,
         CacheTypeOK
    <2>4. l # SB /\ (l \in DataLba \/ v = View(l)) /\ sb' = sb /\ pc' = pc /\ mode' = mode
      BY ZenonT(30) DEF PlainWrite, bootVars, localVars
    <2> QED
      BY <2>1, <2>2, <2>3, <2>4, ZenonT(30) DEF Durable, JournalInv
  <1> QED
    BY ZenonT(30), <1>1, <1>2, <1>3, <1>4, <1>5, <1>6, <1>7, <1>8 DEF JournalInv

\* A miss caches the device's sector.
LEMMA ReadInv ==
    ASSUME Serialized, JournalInv, NEW t \in Tasks, NEW l \in Lba, Read(t, l)
    PROVE  JournalInv'
  <1>1. TypeOK'
    BY ZenonT(30) DEF Read, ReadSector, JournalInv, TypeOK, CacheTypeOK,
       Entries, At, Goto, Headers, Phases, cacheVars, bootVars, localVars
  <1>2. CacheCoherent'
    BY ZenonT(30) DEF Read, ReadSector, JournalInv, CacheCoherent, TypeOK,
       CacheTypeOK, Entries, cacheVars, bootVars, localVars
  <1>3. OneInside'
    BY ZenonT(30) DEF Read, ReadSector, JournalInv, OneInside, TypeOK, At, Goto,
       Serialized, cacheVars, bootVars, localVars
  <1>4. Recording'
    BY ZenonT(30) DEF Read, ReadSector, JournalInv, Recording, OneInside,
       TypeOK, At, Goto, Serialized, cacheVars, bootVars, localVars
  <1>5. Unmounted'
    BY ZenonT(180) DEF Read, ReadSector, JournalInv, Unmounted, At, cacheVars,
       bootVars, localVars
  <1>6. Logging'
    BY ZenonT(180) DEF Read, Logging, At, Serialized, localVars
  <1>7. Applying'
    BY ZenonT(180) DEF Read, JournalInv, Applying, At, Serialized, localVars
  <1>8. Durable'
    BY SMTT(180) DEF Read, ReadSector, JournalInv, Durable, Staged, Logged,
       View, Pinned, TypeOK, CacheTypeOK, Entries, At, Goto, Serialized,
       Recording, cacheVars, bootVars, localVars
  <1> QED
    BY ZenonT(30), <1>1, <1>2, <1>3, <1>4, <1>5, <1>6, <1>7, <1>8 DEF JournalInv

\* evict_one never takes a sector of the open transaction.
LEMMA EvictInv ==
    ASSUME Serialized, JournalInv, NEW t \in Tasks, NEW l \in Lba, Evict(t, l)
    PROVE  JournalInv'
  <1>1. TypeOK'
    BY ZenonT(30) DEF Evict, EvictOne, Evictable, JournalInv, TypeOK,
       CacheTypeOK, Entries, At, Goto, Headers, Phases, Pinned, Recording,
       cacheVars, bootVars, localVars
  <1>2. CacheCoherent'
    BY ZenonT(30) DEF Evict, EvictOne, Evictable, JournalInv, CacheCoherent,
       TypeOK, CacheTypeOK, Entries, Pinned, Recording, cacheVars, bootVars,
       localVars
  <1>3. OneInside'
    BY ZenonT(30) DEF Evict, EvictOne, Evictable, JournalInv, OneInside, TypeOK,
       At, Goto, Serialized, Pinned, Recording, cacheVars, bootVars, localVars
  <1>4. Recording'
    BY ZenonT(30) DEF Evict, EvictOne, Evictable, JournalInv, Recording,
       OneInside, TypeOK, At, Goto, Serialized, Pinned, cacheVars, bootVars,
       localVars
  <1>5. Unmounted'
    BY ZenonT(30) DEF Evict, EvictOne, Evictable, JournalInv, Unmounted, At,
       Pinned, Recording, cacheVars, bootVars, localVars
  <1>6. Logging'
    BY ZenonT(180) DEF Evict, Logging, At, Serialized, localVars
  <1>7. Applying'
    BY ZenonT(180) DEF Evict, EvictOne, Evictable, JournalInv, Applying,
       TypeOK, CacheTypeOK, At, Goto, View, Entries, Serialized, Pinned,
       Recording, cacheVars, bootVars, localVars
  <1>8. Durable'
    <2>1. /\ mode' = mode /\ sb' = sb /\ header' = header /\ pc' = pc
          /\ sectors' = sectors /\ recording' = recording
      BY ZenonT(30) DEF Evict, EvictOne, bootVars, localVars
    <2>2. \A k \in Lba : View(k)' = View(k)
      BY ZenonT(30) DEF Evict, EvictOne, Evictable, View, JournalInv, TypeOK,
         CacheTypeOK, CacheCoherent, Entries
    <2>3. \A k \in Lba : disk'[k] = disk[k] \/ disk'[k] = View(k)
      BY ZenonT(30) DEF Evict, EvictOne, Evictable, View, JournalInv, TypeOK,
         CacheTypeOK, Entries
    <2>4. Durable
      BY ZenonT(30) DEF JournalInv
    <2>5. \A k : (Staged(k)' <=> Staged(k)) /\ (Logged(k)' <=> Logged(k))
      BY <2>1, ZenonT(180) DEF Staged, Logged, Pinned
    <2> QED
      BY <2>1, <2>2, <2>3, <2>4, <2>5, ZenonT(180) DEF Durable
  <1> QED
    BY <1>1, <1>2, <1>3, <1>4, <1>5, <1>6, <1>7, <1>8, ZenonT(30) DEF JournalInv

\* sync writes a superblock equal to the one on the device.
LEMMA SyncInv ==
    ASSUME Serialized, JournalInv, NEW t \in Tasks, Sync(t)
    PROVE  JournalInv'
  <1>1. TypeOK'
    BY SMTT(180) DEF Sync, WriteSector, Noted, JournalInv, TypeOK, CacheTypeOK,
       Entries, At, Goto, Headers, Phases, Durable, bootVars
  <1>2. CacheCoherent'
    BY ZenonT(30) DEF Sync, WriteSector, Noted, JournalInv, CacheCoherent,
       TypeOK, CacheTypeOK, Entries, cacheVars, bootVars, localVars
  <1>3. OneInside'
    BY ZenonT(30) DEF Sync, WriteSector, Noted, JournalInv, OneInside, TypeOK,
       At, Goto, Serialized, cacheVars, bootVars, localVars
  <1>4. Recording'
    BY ZenonT(180) DEF Sync, WriteSector, Noted, JournalInv, Recording,
       OneInside, TypeOK, At, Goto, Serialized, cacheVars, bootVars, localVars
  <1>5. Unmounted'
    BY ZenonT(30) DEF Sync, WriteSector, Noted, JournalInv, Unmounted, At, cacheVars,
       bootVars, localVars
  <1>6. Logging'
    BY SMTT(180) DEF Sync, WriteSector, Noted, JournalInv, Logging, Recording,
       TypeOK, CacheTypeOK, At, Goto, View, Entries, Serialized, cacheVars,
       bootVars, localVars
  <1>7. Applying'
    BY SMTT(180) DEF Sync, JournalInv, Applying, At, Goto, Serialized
  <1>8. Durable'
    BY ZenonT(180) DEF Sync, WriteSector, JournalInv, Durable, Staged, Logged,
       View, TypeOK, CacheTypeOK, At, Serialized
  <1> QED
    BY <1>1, <1>2, <1>3, <1>4, <1>5, <1>6, <1>7, <1>8, ZenonT(30) DEF JournalInv

\* The flush that ends write_file.
LEMMA WriteFileFlushInv ==
    ASSUME Serialized, JournalInv, NEW t \in Tasks, WriteFileFlush(t)
    PROVE  JournalInv'
  <1>1. TypeOK'
    BY ZenonT(30) DEF WriteFileFlush, JournalInv, TypeOK, CacheTypeOK, Entries,
       At, Goto, Headers, Phases, cacheVars, bootVars, localVars
  <1>2. CacheCoherent'
    BY ZenonT(30) DEF WriteFileFlush, JournalInv, CacheCoherent, TypeOK,
       CacheTypeOK, Entries, cacheVars, bootVars, localVars
  <1>3. OneInside'
    BY ZenonT(30) DEF WriteFileFlush, JournalInv, OneInside, TypeOK, At, Goto,
       Serialized, cacheVars, bootVars, localVars
  <1>4. Recording'
    BY ZenonT(30) DEF WriteFileFlush, JournalInv, Recording, OneInside, TypeOK,
       At, Goto, Serialized, cacheVars, bootVars, localVars
  <1>5. Unmounted'
    BY ZenonT(30) DEF WriteFileFlush, JournalInv, Unmounted, At, cacheVars,
       bootVars, localVars
  <1>6. Logging'
    BY SMTT(180) DEF WriteFileFlush, JournalInv, Logging, Recording, TypeOK,
       CacheTypeOK, At, Goto, View, Entries, Serialized, cacheVars, bootVars,
       localVars
  <1>7. Applying'
    BY SMTT(180) DEF WriteFileFlush, JournalInv, Applying, TypeOK, CacheTypeOK,
       At, Goto, View, Entries, Serialized, cacheVars, bootVars, localVars
  <1>8. Durable'
    BY ZenonT(180) DEF WriteFileFlush, JournalInv, Durable, Staged, Logged,
       View, Pinned, TypeOK, CacheTypeOK, Entries, At, Goto, Serialized,
       Recording, cacheVars, bootVars, localVars
  <1> QED
    BY ZenonT(30), <1>1, <1>2, <1>3, <1>4, <1>5, <1>6, <1>7, <1>8 DEF JournalInv

\* A crash keeps exactly the device.
LEMMA CrashInv ==
    ASSUME Serialized, JournalInv, Crash
    PROVE  JournalInv'
  <1>1. TypeOK'
    BY SMTT(60) DEF Crash, JournalInv, TypeOK, CacheTypeOK, Entries, At, Goto, Headers,
       Phases, cacheVars, bootVars, localVars
  <1>2. CacheCoherent'
    BY ZenonT(30) DEF Crash, JournalInv, CacheCoherent, TypeOK, CacheTypeOK, Entries,
       cacheVars, bootVars, localVars
  <1>3. OneInside'
    BY ZenonT(30) DEF Crash, JournalInv, OneInside, TypeOK, At, Goto, Serialized,
       cacheVars, bootVars, localVars
  <1>4. Recording'
    BY ZenonT(30) DEF Crash, JournalInv, Recording, OneInside, TypeOK, At, Goto,
       Serialized, cacheVars, bootVars, localVars
  <1>5. Unmounted'
    BY ZenonT(30) DEF Crash, JournalInv, Unmounted, At, cacheVars, bootVars, localVars
  <1>6. Logging'
    BY ZenonT(30) DEF Crash, JournalInv, Logging, Recording, TypeOK, CacheTypeOK, At,
       Goto, View, Entries, Serialized, cacheVars, bootVars, localVars
  <1>7. Applying'
    BY ZenonT(180) DEF Crash, JournalInv, Applying, TypeOK, CacheTypeOK, At,
       Goto, View, Entries, Serialized, cacheVars, bootVars, localVars
  <1>8. Durable'
    BY ZenonT(30) DEF Crash, JournalInv, Durable, Staged, Logged, View, Pinned, TypeOK,
       CacheTypeOK, Entries, At, Goto, Serialized, Recording, cacheVars,
       bootVars, localVars
  <1> QED
    BY <1>1, <1>2, <1>3, <1>4, <1>5, <1>6, <1>7, <1>8, ZenonT(30) DEF JournalInv

\* Mounting starts with an empty cache.
LEMMA OpenInv ==
    ASSUME Serialized, JournalInv, Open
    PROVE  JournalInv'
  <1>1. TypeOK'
    BY SMTT(180) DEF Open, JournalInv, TypeOK, CacheTypeOK, Entries, At, Goto,
       Headers, Phases, cacheVars, bootVars, localVars
  <1>2. CacheCoherent'
    BY ZenonT(30) DEF Open, JournalInv, CacheCoherent, TypeOK, CacheTypeOK, Entries,
       cacheVars, bootVars, localVars
  <1>3. OneInside'
    BY ZenonT(30) DEF Open, JournalInv, OneInside, TypeOK, At, Goto, Serialized,
       cacheVars, bootVars, localVars
  <1>4. Recording'
    BY ZenonT(30) DEF Open, JournalInv, Recording, OneInside, TypeOK, At, Goto,
       Serialized, cacheVars, bootVars, localVars
  <1>5. Unmounted'
    BY SMTT(180) DEF Open, JournalInv, Unmounted, At, TypeOK, CacheTypeOK, Headers,
       cacheVars, bootVars, localVars
  <1>6. Logging'
    BY ZenonT(180) DEF Open, JournalInv, Logging, Unmounted, localVars
  <1>7. Applying'
    BY ZenonT(30) DEF Open, JournalInv, Applying, TypeOK, CacheTypeOK, At, Goto,
       View, Entries, Serialized, Unmounted, CacheCoherent, cacheVars,
       bootVars, localVars
  <1>8. Durable'
    BY ZenonT(180) DEF Open, JournalInv, Durable, Staged, Logged, View, Pinned,
       TypeOK, CacheTypeOK, Entries, At, Goto, Serialized, Recording,
       cacheVars, bootVars, localVars
  <1> QED
    BY ZenonT(30), <1>1, <1>2, <1>3, <1>4, <1>5, <1>6, <1>7, <1>8 DEF JournalInv

\* Each replayed slot puts one more logged sector in place.
LEMMA ReplaySlotInv ==
    ASSUME Serialized, JournalInv, ReplaySlot
    PROVE  JournalInv'
  <1>1. TypeOK'
    BY SMTT(180) DEF ReplaySlot, WriteThrough, NeedsReplay, JournalInv, TypeOK,
       CacheTypeOK, Entries, At, Goto, Headers, Phases, Applying, Logging,
       cacheVars, bootVars, localVars
  <1>2. CacheCoherent'
    BY ZenonT(30) DEF ReplaySlot, WriteThrough, NeedsReplay, JournalInv, CacheCoherent,
       TypeOK, CacheTypeOK, Entries, cacheVars, bootVars, localVars
  <1>3. OneInside'
    BY ZenonT(30) DEF ReplaySlot, WriteThrough, NeedsReplay, JournalInv, OneInside,
       TypeOK, At, Goto, Serialized, cacheVars, bootVars, localVars
  <1>4. Recording'
    BY ZenonT(30) DEF ReplaySlot, WriteThrough, NeedsReplay, JournalInv, Recording,
       OneInside, TypeOK, At, Goto, Serialized, Unmounted, cacheVars, bootVars,
       localVars
  <1>5. Unmounted'
    <2>1. header' = header /\ slot' = slot /\ sb' = sb /\ mode' = mode /\ pc' = pc
      BY ZenonT(30) DEF ReplaySlot, localVars
    <2>2. header.state = "COMMITTED" /\ header.lbas \in Seq(Lba) /\ pos \in DOMAIN header.lbas
      BY SMTT(180) DEF ReplaySlot, NeedsReplay, JournalInv, TypeOK, Headers
    <2>3. disk' = [disk EXCEPT ![header.lbas[pos]] = slot[pos]] /\ pos' = pos + 1
      BY ZenonT(30) DEF ReplaySlot, WriteThrough
    <2>4. ASSUME NEW j \in DOMAIN header.lbas, j < pos'
          PROVE  disk'[header.lbas[j]] = slot[j]
      <3>1. header.lbas[j] \in Lba /\ header.lbas[pos] \in Lba
        BY <2>2, SMTT(180)
      <3>2. CASE j = pos
        BY <2>3, <3>1, <3>2, ZenonT(30) DEF JournalInv, TypeOK, CacheTypeOK
      <3>3. CASE j # pos
        <4>1. j < pos
          BY <2>2, <2>3, <2>4, <3>3, SMTT(180)
        <4>2. header.lbas[j] # header.lbas[pos]
          BY <2>2, <3>3, ZenonT(30) DEF JournalInv, Applying, IsInjective
        <4> QED
          BY <2>2, <2>3, <3>1, <4>1, <4>2, SMTT(180) DEF JournalInv, Unmounted,
             TypeOK, CacheTypeOK, ReplaySlot
      <3> QED
        BY ZenonT(30), <3>2, <3>3
    <2> QED
      BY SMTT(60), <2>1, <2>2, <2>4 DEF JournalInv, Unmounted, ReplaySlot, WriteThrough
  <1>6. Logging'
    BY ZenonT(180) DEF ReplaySlot, WriteThrough, NeedsReplay, JournalInv,
       Logging, Recording, TypeOK, CacheTypeOK, At, Goto, View, Entries,
       Serialized, Unmounted, cacheVars, bootVars, localVars
  <1>7. Applying'
    BY ZenonT(30) DEF ReplaySlot, WriteThrough, NeedsReplay, JournalInv,
       Applying, TypeOK, CacheTypeOK, At, Goto, View, Entries, Serialized,
       Unmounted, cacheVars, bootVars, localVars
  <1>8. Durable'
    BY ZenonT(180) DEF ReplaySlot, WriteThrough, NeedsReplay, JournalInv,
       Durable, Staged, Logged, View, Pinned, TypeOK, CacheTypeOK, Entries, At,
       Goto, Serialized, Recording, cacheVars, bootVars, localVars
  <1> QED
    BY <1>1, <1>2, <1>3, <1>4, <1>5, <1>6, <1>7, <1>8, ZenonT(30) DEF JournalInv

\* The header is cleared once every logged sector is in place.
LEMMA ReplayDoneInv ==
    ASSUME Serialized, JournalInv, ReplayDone
    PROVE  JournalInv'
  <1>1. TypeOK'
    BY SMTT(180) DEF ReplayDone, NeedsReplay, EmptyHeader, JournalInv, TypeOK,
       CacheTypeOK, Entries, At, Goto, Headers, Phases, cacheVars, bootVars,
       localVars
  <1>2. CacheCoherent'
    BY ZenonT(30) DEF ReplayDone, NeedsReplay, EmptyHeader, JournalInv,
       CacheCoherent, TypeOK, CacheTypeOK, Entries, cacheVars, bootVars,
       localVars
  <1>3. OneInside'
    BY ZenonT(30) DEF ReplayDone, NeedsReplay, EmptyHeader, JournalInv,
       OneInside, TypeOK, At, Goto, Serialized, cacheVars, bootVars, localVars
  <1>4. Recording'
    BY ZenonT(180) DEF ReplayDone, NeedsReplay, EmptyHeader, JournalInv,
       Recording, OneInside, TypeOK, At, Goto, Serialized, cacheVars, bootVars,
       localVars
  <1>5. Unmounted'
    BY ZenonT(30) DEF ReplayDone, NeedsReplay, EmptyHeader, JournalInv, Unmounted, At,
       cacheVars, bootVars, localVars
  <1>6. Logging'
    <2>1. \A t \in Tasks : pc[t] = "idle"
      BY ZenonT(30) DEF ReplayDone, JournalInv, Unmounted
    <2>2. pc' = pc
      BY ZenonT(30) DEF ReplayDone, localVars
    <2> QED
      BY <2>1, <2>2, ZenonT(30) DEF Logging
  <1>7. Applying'
    BY ZenonT(30) DEF ReplayDone, NeedsReplay, EmptyHeader, JournalInv,
       Applying, TypeOK, CacheTypeOK, At, Goto, View, Entries, Serialized,
       Unmounted, CacheCoherent, cacheVars, bootVars, localVars
  <1>8. Durable'
    <2>1. \A l \in Lba : View(l) = disk[l]
      BY ZenonT(30) DEF ReplayDone, JournalInv, Unmounted, CacheCoherent,
         Entries, View
    <2>2. \A l \in Lba : View(l)' = disk'[l]
      BY <2>1, ZenonT(30) DEF ReplayDone, cacheVars, View
    <2>3. sb' = disk[SB] /\ disk' = disk
      BY ZenonT(180) DEF ReplayDone, NeedsReplay, JournalInv, Unmounted,
         Applying, TypeOK, Headers, cacheVars
    <2> QED
      BY <2>2, <2>3, ZenonT(30) DEF Durable, JournalInv, TypeOK, CacheTypeOK
  <1> QED
    BY <1>1, <1>2, <1>3, <1>4, <1>5, <1>6, <1>7, <1>8, ZenonT(30) DEF JournalInv

-------------------------------------------------------------------------------
(* The invariant *)

\* flush_sb finds room in the cache: an operation pins fewer sectors than it holds.
LEMMA SuperblockFits ==
    ASSUME CardinalityFacts, Serialized, JournalInv, NEW t \in Tasks, OpSbErr(t)
    PROVE  FALSE
  <1>1. recording # None /\ recording \in Seq(Lba) /\ IsInjective(recording)
    BY ZenonT(30) DEF OpSbErr, At, JournalInv, Recording, TypeOK, CacheTypeOK
  <1>2. SB \notin Entries /\ ~(Cardinality(Entries) < CacheMax)
    BY ZenonT(30) DEF OpSbErr, CacheFull, HasRoom
  <1>3. Entries \subseteq Range(recording) \ {SB}
    BY <1>1, <1>2, ZenonT(30) DEF OpSbErr, CacheFull, Evictable, Pinned
  <1>4. IsFiniteSet(Range(recording) \ {SB})
    <2>1. Range(recording) \ {SB} \subseteq Lba
      BY <1>1, SeqRange, ZenonT(30)
    <2> QED
      BY <2>1, ZenonT(30) DEF CardinalityFacts
  <1>5. Cardinality(Entries) <= Cardinality(Range(recording) \ {SB})
    BY <1>1, <1>3, SeqRange, ZenonT(30) DEF CardinalityFacts
  <1>6. Cardinality(Range(recording) \ {SB}) < MaxTxn
    BY ZenonT(30), <1>1 DEF JournalInv, Recording
  <1>7. Cardinality(Entries) \in Nat /\ Cardinality(Range(recording) \ {SB}) \in Nat
    BY <1>1, <1>3, SeqRange, ZenonT(30) DEF CardinalityFacts
  <1> QED
    BY <1>2, <1>5, <1>6, <1>7, SMTT(180) DEF Serialized

\* Every step of a serialized, fault-free journal keeps the invariant.
LEMMA StepInv ==
    ASSUME CardinalityFacts, Serialized, JournalInv, [Next]_vars
    PROVE  JournalInv'
  <1>1. ASSUME NEW t \in Tasks, TaskStep(t)
        PROVE  JournalInv'
    <2>1. ~IoError(t)
      BY ZenonT(30) DEF IoError, Serialized
    <2>2. ~OpSbErr(t)
      BY ZenonT(30), SuperblockFits
    <2>3. CASE \E v \in Val : OpCount(t, v)
      BY ZenonT(30), <2>3, OpCountInv
    <2>4. CASE \E l \in Lba : OpFlush(t, l) \/ Flush(t, l) \/ Read(t, l) \/ Evict(t, l)
      BY <2>4, OpFlushInv, FlushInv, ReadInv, EvictInv, ZenonT(30)
    <2>5. CASE \E l \in Lba, v \in Val : OpWrite(t, l, v) \/ PlainWrite(t, l, v)
      BY <2>5, OpWriteInv, PlainWriteInv, ZenonT(30)
    <2>6. CASE Begin(t) \/ OpFlushSb(t) \/ OpErr(t) \/ OpOk(t)
      BY <2>6, BeginInv, OpFlushSbInv, OpErrInv, OpOkInv, ZenonT(30)
    <2>7. CASE LogSlot(t) \/ WriteRecord(t) \/ FlushDone(t) \/ Retire(t)
      BY ZenonT(30), <2>7, LogSlotInv, WriteRecordInv, FlushDoneInv, RetireInv
    <2>8. CASE Sync(t) \/ WriteFileFlush(t)
      BY <2>8, SyncInv, WriteFileFlushInv, ZenonT(30)
    <2> QED
      BY <1>1, <2>1, <2>2, <2>3, <2>4, <2>5, <2>6, <2>7, <2>8, ZenonT(180) DEF
         TaskStep
  <1>2. CASE Boot
    <2>1. ~ReplayError
      BY ZenonT(30) DEF ReplayError, Serialized
    <2> QED
      BY <1>2, <2>1, OpenInv, ReplaySlotInv, ReplayDoneInv, ZenonT(180) DEF
         Boot
  <1>3. CASE Crash
    BY <1>3, CrashInv, ZenonT(30)
  <1>4. CASE UNCHANGED vars
    <2>1. TypeOK' /\ CacheCoherent' /\ OneInside' /\ Recording' /\ Unmounted'
      BY <1>4, SMTT(180) DEF vars, cacheVars, bootVars, localVars, JournalInv,
         TypeOK, CacheTypeOK, CacheCoherent, OneInside, Recording, Unmounted,
         Entries
    <2>2. Logging' /\ Applying'
      <3>1. /\ disk' = disk /\ data' = data /\ dirty' = dirty /\ slot' = slot
            /\ header' = header /\ mode' = mode /\ pc' = pc /\ sectors' = sectors
            /\ idx' = idx
        BY ZenonT(30), <1>4 DEF vars, cacheVars, bootVars, localVars
      <3>2. Logging /\ Applying
        BY ZenonT(30) DEF JournalInv
      <3>3. \A l : View(l)' = View(l)
        BY <3>1, ZenonT(30) DEF View
      <3>4. Logging'
        <4> SUFFICES ASSUME NEW t \in Tasks
                     PROVE  /\ pc[t] \in {"log", "spill"} =>
                                 /\ IsInjective(sectors[t])
                                 /\ SB \in Range(sectors[t])
                                 /\ pc[t] = "log" <=> Len(sectors[t]) <= Cap
                            /\ pc[t] = "log" =>
                                 /\ Range(sectors[t]) \subseteq dirty
                                 /\ \A j \in DOMAIN sectors[t] :
                                      j < idx[t] => slot[j] = View(sectors[t][j])
          BY <3>1, <3>3, ZenonT(180) DEF Logging
        <4> QED
          BY <3>2, ZenonT(180) DEF Logging
      <3>5. Applying'
        BY <3>1, <3>2, <3>3, ZenonT(180) DEF Applying, View
      <3> QED
        BY ZenonT(30), <3>4, <3>5
    <2>3. Durable'
      <3>1. /\ mode' = mode /\ sb' = sb /\ header' = header /\ pc' = pc
            /\ sectors' = sectors /\ recording' = recording
            /\ disk' = disk /\ data' = data
        BY ZenonT(30), <1>4 DEF vars, cacheVars, bootVars, localVars
      <3>2. Durable
        BY ZenonT(30) DEF JournalInv
      <3> QED
        BY <3>1, <3>2, ZenonT(180) DEF Durable, View, Staged, Logged, Pinned
    <2> QED
      BY <2>1, <2>2, <2>3, ZenonT(30) DEF JournalInv
  <1> QED
    BY <1>1, <1>2, <1>3, <1>4, ZenonT(30) DEF Next

-------------------------------------------------------------------------------
(* The journal implements the atomic store *)

-------------------------------------------------------------------------------
(* What holds whatever interleaves and whatever write fails *)

Sound == CacheTypeOK /\ CacheCoherent

\* The inductive invariant behind CacheCoherent, without Serialized: the cache's
\* sectors come from Val only while the superblock read at mount is in memory
\* (flush_sb) and no log is longer than the journal (journal_capacity).
CacheInv ==
    /\ TypeOK /\ CacheCoherent
    /\ mode # "down" => sb \in Val
    /\ mode # "up" => \A t \in Tasks : pc[t] = "idle"
    /\ header.state = "COMMITTED" => Len(header.lbas) <= Cap
    /\ \A t \in Tasks : pc[t] = "log" => Len(sectors[t]) <= Cap

\* The list of recorded sectors stays a list of sectors (write_sector).
LEMMA NotedType == ASSUME Sound, NEW l \in Lba PROVE Noted(l) \in Seq(Lba) \cup {None}
  BY SMTT(60) DEF Sound, CacheTypeOK, Noted, Pinned

\* write_sector puts a sector in the cache and marks it dirty.
LEMMA WriteSound ==
    ASSUME Sound, NEW l \in Lba, NEW v \in Val, WriteSector(l, v)
    PROVE  Sound'
  <1>1. recording' \in Seq(Lba) \cup {None}
    BY ZenonT(30), NotedType DEF WriteSector
  <1>2. data' \in [Lba -> Val \cup {None}] /\ dirty' \subseteq Entries' /\ dirty' \in SUBSET Lba
    BY SMTT(60) DEF Sound, CacheTypeOK, WriteSector, Entries
  <1>3. CacheCoherent'
    BY ZenonT(30) DEF Sound, CacheTypeOK, WriteSector, Entries, CacheCoherent
  <1> QED
    BY ZenonT(30), <1>1, <1>2, <1>3 DEF Sound, CacheTypeOK, WriteSector

\* evict_one writes a dirty victim back before it drops it.
LEMMA EvictSound ==
    ASSUME Sound, NEW l \in Lba, EvictOne(l)
    PROVE  Sound'
  <1>1. l \in dirty => data[l] \in Val
    BY ZenonT(30) DEF Sound, CacheTypeOK, Entries
  <1>2. disk' \in [Lba -> Val] /\ data' \in [Lba -> Val \cup {None}]
    BY <1>1, ZenonT(30) DEF Sound, CacheTypeOK, EvictOne
  <1>3. dirty' \subseteq Entries' /\ dirty' \in SUBSET Lba
    BY ZenonT(30) DEF Sound, CacheTypeOK, EvictOne, Entries
  <1>4. CacheCoherent'
    BY ZenonT(30) DEF Sound, CacheTypeOK, EvictOne, Entries, CacheCoherent
  <1> QED
    BY ZenonT(30), <1>2, <1>3, <1>4 DEF Sound, CacheTypeOK, EvictOne

\* A miss caches the device's sector (read_sector).
LEMMA ReadSound ==
    ASSUME Sound, NEW l \in Lba, ReadSector(l)
    PROVE  Sound'
  <1>1. data' \in [Lba -> Val \cup {None}] /\ dirty' \subseteq Entries'
    BY ZenonT(30) DEF Sound, CacheTypeOK, ReadSector, Entries
  <1>2. CacheCoherent'
    BY ZenonT(30) DEF Sound, CacheTypeOK, ReadSector, Entries, CacheCoherent
  <1> QED
    BY ZenonT(30), <1>1, <1>2 DEF Sound, CacheTypeOK, ReadSector

\* flush writes a dirty sector back and keeps it, clean.
LEMMA FlushSound ==
    ASSUME Sound, NEW l \in Lba, FlushEntry(l)
    PROVE  Sound'
  <1>1. data[l] \in Val
    BY ZenonT(30) DEF Sound, CacheTypeOK, Entries, FlushEntry, Flushable
  <1>2. disk' \in [Lba -> Val] /\ dirty' \subseteq Entries' /\ dirty' \in SUBSET Lba
    BY <1>1, ZenonT(30) DEF Sound, CacheTypeOK, FlushEntry, Entries
  <1>3. CacheCoherent'
    BY ZenonT(30) DEF Sound, CacheTypeOK, FlushEntry, Entries, CacheCoherent
  <1> QED
    BY ZenonT(30), <1>2, <1>3 DEF Sound, CacheTypeOK, FlushEntry

\* discard_recorded drops the dirty sectors of a failed operation.
LEMMA DiscardSound ==
    ASSUME Sound, DiscardRecorded
    PROVE  Sound'
  <1>1. data' \in [Lba -> Val \cup {None}] /\ dirty' \subseteq Entries' /\ dirty' \in SUBSET Lba
    BY ZenonT(30) DEF Sound, CacheTypeOK, DiscardRecorded, Entries
  <1>2. CacheCoherent'
    BY ZenonT(30) DEF Sound, CacheTypeOK, DiscardRecorded, Entries, CacheCoherent
  <1> QED
    BY ZenonT(30), <1>1, <1>2 DEF Sound, CacheTypeOK, DiscardRecorded

\* write_through drops the cached copy of the sector it writes.
LEMMA ThroughSound ==
    ASSUME Sound, NEW l \in Lba, NEW v \in Val, WriteThrough(l, v)
    PROVE  Sound'
  <1>1. disk' \in [Lba -> Val] /\ data' \in [Lba -> Val \cup {None}]
    BY ZenonT(30) DEF Sound, CacheTypeOK, WriteThrough
  <1>2. dirty' \subseteq Entries' /\ dirty' \in SUBSET Lba
    BY ZenonT(30) DEF Sound, CacheTypeOK, WriteThrough, Entries
  <1>3. CacheCoherent'
    BY ZenonT(30) DEF Sound, CacheTypeOK, WriteThrough, Entries, CacheCoherent
  <1> QED
    BY ZenonT(30), <1>1, <1>2, <1>3 DEF Sound, CacheTypeOK, WriteThrough

\* The invariant in the parts the steps below keep one by one.
Rest ==
    /\ slot \in [1 .. Cap -> Val] /\ header \in Headers
    /\ mode \in {"down", "replay", "up"} /\ pos \in Nat \ {0}
    /\ sb \in Val \cup {None} /\ (mode # "down" => sb \in Val)
    /\ header.state = "COMMITTED" => Len(header.lbas) <= Cap

Locals ==
    /\ pc \in [Tasks -> Phases] /\ sectors \in [Tasks -> Seq(Lba)] /\ idx \in [Tasks -> Nat \ {0}]
    /\ mode # "up" => \A t \in Tasks : pc[t] = "idle"
    /\ \A t \in Tasks : pc[t] = "log" => Len(sectors[t]) <= Cap

\* The parts are the whole.
LEMMA CacheInvParts == CacheInv <=> Sound /\ Rest /\ Locals
  BY ZenonT(30) DEF CacheInv, Sound, Rest, Locals, TypeOK

\* The steps that move data between an operation, the cache and the device.
LEMMA CacheSteps ==
    ASSUME CacheInv, NEW t \in Tasks,
           \/ OpFlushSb(t) \/ Sync(t)
           \/ \E l \in Lba : OpFlush(t, l) \/ Flush(t, l) \/ Read(t, l) \/ Evict(t, l)
           \/ \E l \in Lba, v \in Val : OpWrite(t, l, v) \/ PlainWrite(t, l, v)
    PROVE  CacheInv'
  <1>0. Sound /\ Rest /\ Locals
    BY ZenonT(30), CacheInvParts
  <1>1. Sound'
    <2>1. CASE OpFlushSb(t) \/ Sync(t)
      <3>1. SB \in Lba /\ sb \in Val /\ WriteSector(SB, sb)
        BY <1>0, <2>1, ZenonT(30) DEF OpFlushSb, Sync, At, Rest
      <3> QED
        BY ZenonT(30), <1>0, <3>1, WriteSound
    <2>2. CASE \E l \in Lba : OpFlush(t, l) \/ Flush(t, l) \/ Read(t, l) \/ Evict(t, l)
      BY ZenonT(30), <1>0, <2>2, FlushSound, ReadSound, EvictSound DEF OpFlush, Flush, Read, Evict
    <2>3. CASE \E l \in Lba, v \in Val : OpWrite(t, l, v) \/ PlainWrite(t, l, v)
      BY ZenonT(30), <1>0, <2>3, WriteSound DEF OpWrite, PlainWrite
    <2> QED
      BY ZenonT(30), <2>1, <2>2, <2>3
  <1>2. UNCHANGED <<slot, header, sb, bootVars, sectors, idx>>
    BY ZenonT(60) DEF OpFlushSb, Sync, OpFlush, Flush, Read, Evict, OpWrite, PlainWrite, localVars
  <1>3. Rest'
    BY ZenonT(30), <1>0, <1>2 DEF Rest, bootVars
  <1>4. pc' = pc \/ (mode = "up" /\ pc' = [pc EXCEPT ![t] = "sync"])
    BY ZenonT(60) DEF OpFlushSb, Sync, At, Goto, OpFlush, Flush, Read, Evict, OpWrite, PlainWrite,
       localVars
  <1>5. /\ pc' \in [Tasks -> Phases]
        /\ pc' = pc \/ (mode = "up" /\ \A u \in Tasks : pc'[u] \in {pc[u], "sync"})
    <2>1. pc \in [Tasks -> Phases] /\ "sync" \in Phases
      BY ZenonT(30), <1>0 DEF Locals, Phases
    <2>2. CASE pc' = [pc EXCEPT ![t] = "sync"]
      BY <1>4, <2>1, <2>2, ZenonT(30)
    <2> QED
      BY ZenonT(30), <1>4, <2>1, <2>2
  <1>6. Locals'
    BY <1>0, <1>2, <1>5, ZenonT(30) DEF Locals, bootVars
  <1> QED
    BY <1>1, <1>3, <1>6, ZenonT(30) DEF CacheInv, Sound, Rest, Locals, TypeOK

\* The steps that leave every sector of the cache and the device alone.
LEMMA ControlSteps ==
    ASSUME CacheInv, NEW t \in Tasks,
           \/ Begin(t) \/ OpSbErr(t) \/ LogSlot(t) \/ WriteRecord(t) \/ FlushDone(t) \/ Retire(t)
           \/ IoError(t) \/ WriteFileFlush(t) \/ \E v \in Val : OpCount(t, v)
    PROVE  CacheInv'
  <1>0. Sound /\ Rest /\ Locals
    BY ZenonT(30), CacheInvParts
  <1>1. /\ UNCHANGED <<disk, data, dirty>> /\ recording' \in {recording, <<>>, None}
        /\ UNCHANGED bootVars /\ mode = "up"
    <2>1. CASE IoError(t)
      BY <2>1, ZenonT(60) DEF IoError, At, cacheVars
    <2>2. CASE Begin(t) \/ OpSbErr(t) \/ WriteFileFlush(t) \/ \E v \in Val : OpCount(t, v)
      BY <2>2, ZenonT(60) DEF Begin, OpSbErr, WriteFileFlush, OpCount, At, cacheVars
    <2>3. CASE LogSlot(t) \/ WriteRecord(t) \/ FlushDone(t) \/ Retire(t)
      BY <2>3, ZenonT(60) DEF LogSlot, WriteRecord, FlushDone, Retire, At, cacheVars
    <2> QED
      BY ZenonT(30), <2>1, <2>2, <2>3
  <1>2. Sound'
    <2>1. recording' \in Seq(Lba) \cup {None}
      <3>1. recording \in Seq(Lba) \cup {None} /\ <<>> \in Seq(Lba)
        BY <1>0 DEF Sound, CacheTypeOK
      <3> QED
        BY <1>1, <3>1, ZenonT(60)
    <2> QED
      BY ZenonT(30), <1>0, <1>1, <2>1 DEF Sound, CacheTypeOK, CacheCoherent, Entries
  <1>3. Rest'
    <2>1. CASE LogSlot(t)
      <3>1. View(sectors[t][idx[t]]) \in Val
        <4>1. sectors[t][idx[t]] \in Lba
          <5>1. idx[t] <= Len(sectors[t]) /\ idx[t] \in Nat \ {0} /\ sectors[t] \in Seq(Lba)
            BY ZenonT(30), <1>0, <2>1 DEF Locals, LogSlot
          <5> QED
            BY <5>1, SMTT(60)
        <4> QED
          BY <1>0, <4>1, ZenonT(30) DEF View, Sound, CacheTypeOK
      <3>2. slot' \in [1 .. Cap -> Val]
        <4> DEFINE v == View(sectors[t][idx[t]])
        <4>1. slot' = [slot EXCEPT ![idx[t]] = v] /\ slot \in [1 .. Cap -> Val]
          BY ZenonT(30), <1>0, <2>1 DEF LogSlot, Rest
        <4>2. v \in Val
          BY ZenonT(30), <3>1
        <4> HIDE DEF v
        <4> QED
          BY <4>1, <4>2, ZenonT(60)
      <3> QED
        BY ZenonT(30), <1>0, <2>1, <3>2 DEF LogSlot, Rest, bootVars
    <2>2. CASE WriteRecord(t)
      <3>1. header' = Committed(sectors[t]) /\ sectors[t] \in Seq(Lba) /\ Len(sectors[t]) <= Cap
        BY <1>0, <2>2, ZenonT(30) DEF WriteRecord, Locals, At
      <3>2. header' \in Headers /\ Len(header'.lbas) <= Cap
        BY <3>1, ZenonT(30) DEF Committed, Headers
      <3> QED
        BY <1>0, <2>2, <3>2, ZenonT(30) DEF WriteRecord, Rest, bootVars
    <2>3. CASE Retire(t)
      BY <1>0, <2>3, SMTT(60) DEF Retire, Rest, bootVars, EmptyHeader, Headers
    <2>4. CASE \E v \in Val : OpCount(t, v)
      BY <1>0, <2>4, ZenonT(30) DEF OpCount, Rest, bootVars
    <2>5. CASE UNCHANGED <<slot, header, sb>>
      BY ZenonT(30), <1>0, <1>1, <2>5 DEF Rest, bootVars
    <2> QED
      BY <2>1, <2>2, <2>3, <2>4, <2>5, ZenonT(60) DEF Begin, OpSbErr, FlushDone, IoError, WriteFileFlush
  <1>4. pc' = pc \/ \E p \in Phases \ {"log"} : Goto(t, p)
    <2>1. CASE FlushDone(t)
      <3>1. PICK p \in {"retire", "idle"} : Goto(t, p)
        BY <2>1, ZenonT(60) DEF FlushDone
      <3> QED
        BY ZenonT(30), <3>1 DEF Phases
    <2>2. CASE LogSlot(t) \/ \E v \in Val : OpCount(t, v)
      BY ZenonT(30), <2>2 DEF LogSlot, OpCount, localVars
    <2> QED
      BY <2>1, <2>2, ZenonT(60) DEF Begin, OpSbErr, WriteRecord, Retire, IoError, WriteFileFlush, Phases
  <1>5. \A u \in Tasks : sectors'[u] = sectors[u] \/ sectors'[u] = <<>>
    <2>1. CASE FlushDone(t)
      <3>1. sectors' = [sectors EXCEPT ![t] = IF pc[t] = "apply" THEN @ ELSE <<>>]
        BY ZenonT(30), <2>1 DEF FlushDone
      <3>2. sectors \in [Tasks -> Seq(Lba)]
        BY ZenonT(30), <1>0 DEF Locals
      <3> QED
        BY <3>1, <3>2, ZenonT(30)
    <2>2. CASE sectors' = [sectors EXCEPT ![t] = <<>>]
      <3>1. sectors \in [Tasks -> Seq(Lba)]
        BY ZenonT(30), <1>0 DEF Locals
      <3> QED
        BY <2>2, <3>1, ZenonT(30)
    <2>3. CASE sectors' = sectors
      BY ZenonT(30), <2>3
    <2> QED
      BY <2>1, <2>2, <2>3, ZenonT(60) DEF Begin, OpSbErr, LogSlot, WriteRecord, Retire, IoError,
         WriteFileFlush, OpCount, localVars
  <1>6. sectors' \in [Tasks -> Seq(Lba)] /\ idx' \in [Tasks -> Nat \ {0}] /\ pc' \in [Tasks -> Phases]
    <2>1. sectors \in [Tasks -> Seq(Lba)] /\ idx \in [Tasks -> Nat \ {0}] /\ pc \in [Tasks -> Phases]
      BY ZenonT(30), <1>0 DEF Locals
    <2>2. sectors' = sectors \/ \E q : sectors' = [sectors EXCEPT ![t] = q]
      BY ZenonT(60) DEF Begin, OpSbErr, LogSlot, WriteRecord, FlushDone, Retire, IoError, WriteFileFlush,
         OpCount, localVars
    <2>3. sectors' \in [Tasks -> Seq(Lba)]
      <3>1. \A u \in Tasks : sectors'[u] \in Seq(Lba)
        <4>1. <<>> \in Seq(Lba)
          OBVIOUS
        <4> QED
          BY <1>5, <2>1, <4>1, ZenonT(60)
      <3> QED
        BY <2>1, <2>2, <3>1, ZenonT(30)
    <2>4. idx' = idx \/ idx' = [idx EXCEPT ![t] = idx[t] + 1]
      BY ZenonT(60) DEF Begin, OpSbErr, LogSlot, WriteRecord, FlushDone, Retire, IoError, WriteFileFlush,
         OpCount, localVars
    <2>5. idx' \in [Tasks -> Nat \ {0}]
      BY <2>1, <2>4, SMTT(60)
    <2>6. pc' \in [Tasks -> Phases]
      <3>1. CASE pc' = pc
        BY ZenonT(30), <2>1, <3>1
      <3>2. ASSUME NEW p \in Phases \ {"log"}, Goto(t, p)
            PROVE  pc' \in [Tasks -> Phases]
        <4>1. pc' = [pc EXCEPT ![t] = p] /\ p \in Phases
          BY ZenonT(30), <3>2 DEF Goto
        <4> QED
          BY <2>1, <4>1, ZenonT(60)
      <3> QED
        BY ZenonT(30), <1>4, <3>1, <3>2
    <2> QED
      BY ZenonT(30), <2>3, <2>5, <2>6
  <1>7. \A u \in Tasks : pc'[u] = "log" => pc[u] = "log"
    BY <1>0, <1>4, ZenonT(30) DEF Locals, Goto
  <1>8. Locals'
    BY <1>0, <1>1, <1>5, <1>6, <1>7, SMTT(60) DEF Locals, bootVars
  <1> QED
    BY <1>2, <1>3, <1>8, ZenonT(30) DEF CacheInv, Sound, Rest, Locals, TypeOK

\* The two ends of an operation (transaction).
LEMMA EndSteps ==
    ASSUME CacheInv, NEW t \in Tasks, OpErr(t) \/ OpOk(t)
    PROVE  CacheInv'
  <1>0. Sound /\ Rest /\ Locals /\ mode = "up"
    BY ZenonT(30), CacheInvParts DEF OpErr, OpOk, At
  <1>1. CASE OpErr(t)
    <2>1. Sound'
      BY ZenonT(30), <1>0, <1>1, DiscardSound DEF OpErr
    <2>2. disk[SB] \in Val
      BY ZenonT(30), <1>0 DEF Sound, CacheTypeOK
    <2>3. Rest'
      BY <1>0, <1>1, <2>2, ZenonT(30) DEF Rest, OpErr, bootVars
    <2>4. pc' = [pc EXCEPT ![t] = "idle"] /\ pc \in [Tasks -> Phases] /\ "idle" \in Phases
      BY ZenonT(30), <1>0, <1>1 DEF Locals, OpErr, Goto, Phases
    <2>5. pc' \in [Tasks -> Phases] /\ \A u \in Tasks : pc'[u] = "log" => pc[u] = "log"
      BY <2>4, ZenonT(30)
    <2>6. Locals'
      BY <1>0, <1>1, <2>5, ZenonT(60) DEF Locals, OpErr, bootVars
    <2> QED
      BY <2>1, <2>3, <2>6, ZenonT(30) DEF CacheInv, Sound, Rest, Locals, TypeOK
  <1>2. CASE OpOk(t)
    <2> DEFINE list == IF recording = None THEN <<>> ELSE Noted(SB)
               p == IF list = <<>> THEN "idle" ELSE IF Len(list) > Cap THEN "spill" ELSE "log"
    <2>0. /\ UNCHANGED <<disk, slot, header, sb, bootVars>>
          /\ data' = [data EXCEPT ![SB] = sb] /\ dirty' = dirty \cup {SB} /\ recording' = None
          /\ sectors' = [sectors EXCEPT ![t] = list] /\ idx' = [idx EXCEPT ![t] = 1]
          /\ pc' = [pc EXCEPT ![t] = p]
      BY <1>2, ZenonT(60) DEF OpOk, Goto
    <2>1. list \in Seq(Lba)
      <3>1. Noted(SB) \in Seq(Lba) \cup {None} /\ <<>> \in Seq(Lba)
        BY <1>0, NotedType
      <3>2. recording # None => Noted(SB) # None
        BY <1>0, SMTT(60) DEF Noted, Sound, CacheTypeOK
      <3> QED
        BY <3>1, <3>2, ZenonT(60)
    <2>2. p \in Phases /\ (p = "log" => Len(list) <= Cap)
      <3>1. Len(list) \in Nat
        BY <2>1
      <3> HIDE DEF list
      <3> QED
        BY <3>1, SMTT(60) DEF Phases
    <2> HIDE DEF list, p
    <2>3. Sound'
      <3>1. sb \in Val
        BY ZenonT(30), <1>0 DEF Rest
      <3>2. data' \in [Lba -> Val \cup {None}] /\ dirty' \subseteq Entries' /\ dirty' \in SUBSET Lba
        BY <1>0, <2>0, <3>1, SMTT(60) DEF Sound, CacheTypeOK, Entries
      <3>3. CacheCoherent'
        BY <1>0, <2>0, <3>1, ZenonT(30) DEF Sound, CacheTypeOK, Entries, CacheCoherent
      <3> QED
        BY ZenonT(30), <1>0, <2>0, <3>2, <3>3 DEF Sound, CacheTypeOK
    <2>4. Rest'
      BY ZenonT(30), <1>0, <2>0 DEF Rest, bootVars
    <2>5. /\ pc' \in [Tasks -> Phases] /\ sectors' \in [Tasks -> Seq(Lba)] /\ idx' \in [Tasks -> Nat \ {0}]
      BY <1>0, <2>0, <2>1, <2>2, SMTT(60) DEF Locals
    <2>6. \A u \in Tasks : pc'[u] = "log" => Len(sectors'[u]) <= Cap
      BY <1>0, <2>0, <2>1, <2>2, ZenonT(30) DEF Locals
    <2>7. Locals'
      BY ZenonT(30), <1>0, <2>0, <2>5, <2>6 DEF Locals, bootVars
    <2> QED
      BY <2>3, <2>4, <2>7, ZenonT(30) DEF CacheInv, Sound, Rest, Locals, TypeOK
  <1> QED
    BY ZenonT(30), <1>1, <1>2

\* Power failure and mount (Racfs::open, replay_journal).
LEMMA CrashAndBootSteps ==
    ASSUME CacheInv, Crash \/ Boot
    PROVE  CacheInv'
  <1>0. Sound /\ Rest /\ Locals
    BY ZenonT(30), CacheInvParts
  <1>1. CASE Crash
    <2>1. Sound'
      BY <1>0, <1>1, ZenonT(30) DEF Crash, Sound, CacheTypeOK, CacheCoherent, Entries
    <2>2. Rest'
      BY <1>0, <1>1, SMTT(60) DEF Crash, Rest
    <2>3. Locals'
      <3>1. <<>> \in Seq(Lba) /\ "idle" \in Phases
        BY DEF Phases
      <3> QED
        BY <1>1, <3>1, SMTT(60) DEF Crash, Locals
    <2> QED
      BY <2>1, <2>2, <2>3, ZenonT(30) DEF CacheInv, Sound, Rest, Locals, TypeOK
  <1>2. CASE Open
    <2>1. Sound'
      BY <1>0, <1>2, SMTT(60) DEF Open, Sound, CacheTypeOK, CacheCoherent, Entries
    <2>2. Rest'
      BY <1>0, <1>2, ZenonT(30) DEF Open, Rest, Sound, CacheTypeOK
    <2>3. Locals'
      BY <1>0, <1>2, ZenonT(30) DEF Open, Locals, localVars
    <2> QED
      BY <2>1, <2>2, <2>3, ZenonT(30) DEF CacheInv, Sound, Rest, Locals, TypeOK
  <1>3. CASE ReplaySlot
    <2>1. header.lbas[pos] \in Lba /\ slot[pos] \in Val /\ pos + 1 \in Nat \ {0}
      <3>1. /\ header.lbas \in Seq(Lba) /\ pos \in Nat \ {0} /\ pos <= Len(header.lbas)
            /\ Len(header.lbas) <= Cap /\ slot \in [1 .. Cap -> Val]
        BY <1>0, <1>3, ZenonT(30) DEF ReplaySlot, NeedsReplay, Rest, Headers
      <3> QED
        BY <3>1, SMTT(60)
    <2>2. Sound'
      BY ZenonT(30), <1>0, <1>3, <2>1, ThroughSound DEF ReplaySlot
    <2>3. Rest' /\ Locals'
      BY <1>0, <1>3, <2>1, ZenonT(60) DEF ReplaySlot, Rest, Locals, localVars
    <2> QED
      BY <2>2, <2>3, ZenonT(30) DEF CacheInv, Sound, Rest, Locals, TypeOK
  <1>4. CASE ReplayDone \/ ReplayError
    <2>1. /\ UNCHANGED <<cacheVars, slot, localVars>> /\ mode = "replay" /\ mode' = "up" /\ pos' = 1
          /\ header' \in {header, EmptyHeader} /\ sb' \in {sb, disk[SB]}
      BY <1>4, ZenonT(60) DEF ReplayDone, ReplayError
    <2>2. Sound'
      BY <1>0, <2>1, ZenonT(60) DEF Sound, CacheTypeOK, CacheCoherent, Entries, cacheVars
    <2>3. disk[SB] \in Val /\ EmptyHeader \in Headers /\ EmptyHeader.state = "EMPTY"
      <3>1. <<>> \in Seq(Lba)
        OBVIOUS
      <3>2. disk[SB] \in Val
        BY ZenonT(30), <1>0 DEF Sound, CacheTypeOK
      <3> QED
        BY <3>1, <3>2, ZenonT(30) DEF EmptyHeader, Headers
    <2>4. Rest'
      BY <1>0, <2>1, <2>3, SMTT(60) DEF Rest
    <2>5. Locals'
      BY <1>0, <2>1, ZenonT(60) DEF Locals, localVars
    <2> QED
      BY <2>2, <2>4, <2>5, ZenonT(30) DEF CacheInv, Sound, Rest, Locals, TypeOK
  <1> QED
    BY ZenonT(30), <1>1, <1>2, <1>3, <1>4 DEF Boot

\* What the two theorems below rest on (BlockCache, transaction, replay_journal).
LEMMA CacheInvariant == Spec => []CacheInv
  <1>1. Init => CacheInv
    <2> SUFFICES ASSUME Init PROVE CacheInv
      OBVIOUS
    <2>1. Sound
      BY ZenonT(30) DEF Init, Sound, CacheTypeOK, CacheCoherent, Entries
    <2>2. <<>> \in Seq(Lba) /\ "idle" \in Phases
      BY DEF Phases
    <2>3. Rest
      BY <2>2, SMTT(60) DEF Init, Rest, EmptyHeader, Headers
    <2>4. Locals
      BY <2>2, SMTT(60) DEF Init, Locals
    <2> QED
      BY ZenonT(30), <2>1, <2>3, <2>4, CacheInvParts
  <1>2. CacheInv /\ [Next]_vars => CacheInv'
    <2> SUFFICES ASSUME CacheInv, [Next]_vars PROVE CacheInv'
      OBVIOUS
    <2>1. ASSUME NEW t \in Tasks, TaskStep(t) PROVE CacheInv'
      BY <2>1, CacheSteps, ControlSteps, EndSteps, ZenonT(60) DEF TaskStep
    <2>2. CASE UNCHANGED vars
      BY <2>2, ZenonT(60) DEF vars, cacheVars, bootVars, localVars, CacheInv, TypeOK, CacheTypeOK,
         CacheCoherent, Entries
    <2> QED
      BY ZenonT(30), <2>1, <2>2, CrashAndBootSteps DEF Next
  <1> QED
    BY <1>1, <1>2, PTL DEF Spec

\* The cache never serves stale data: a clean cached sector equals the device's,
\* whatever interleaves inside racfs, whichever writes fail and however small the
\* cache (read_sector, write_sector, flush, evict_one, discard_recorded,
\* write_through).
THEOREM CacheNeverStale == Spec => [](TypeOK /\ CacheCoherent)
  <1>1. CacheInv => TypeOK /\ CacheCoherent
    BY ZenonT(30) DEF CacheInv
  <1> QED
    BY <1>1, CacheInvariant, PTL

\* With interrupts off inside racfs, no sector of a transaction that is being
\* logged changes in place before the commit record is on the device, even when
\* device writes fail (journal_commit, flush, evict_one).
THEOREM NothingBeforeRecord == IrqsOff => (Spec => CommitRecordFirst)
  <1>1. SUFFICES ASSUME IrqsOff
                 PROVE  Spec => CommitRecordFirst
    OBVIOUS
  <1> DEFINE First == \A t \in Tasks, l \in Lba :
                        pc[t] = "log" /\ l \in Range(sectors[t]) => disk'[l] = disk[l]
  <1>2. CacheInv /\ [Next]_vars => [First]_vars
    <2> SUFFICES ASSUME CacheInv, Next, NEW t \in Tasks, pc[t] = "log" PROVE disk' = disk
      OBVIOUS
    <2>1. mode = "up"
      BY ZenonT(30) DEF CacheInv
    <2>2. ASSUME NEW u \in Tasks, NEW p \in Phases \ {"log"} PROVE ~At(u, p)
      BY <1>1, <2>2, SMTT(60) DEF At
    <2>3. ASSUME NEW u \in Tasks, TaskStep(u) PROVE disk' = disk
      <3>1. CASE LogSlot(u) \/ WriteRecord(u) \/ IoError(u)
        BY <3>1, ZenonT(60) DEF LogSlot, WriteRecord, IoError, cacheVars
      <3>2. ~At(u, "idle") /\ ~At(u, "op") /\ ~At(u, "apply") /\ ~At(u, "retire") /\ ~At(u, "spill")
            /\ ~At(u, "sync")
        BY ZenonT(30), <2>2 DEF Phases
      <3> QED
        BY <2>3, <3>1, <3>2, ZenonT(60) DEF TaskStep, Begin, OpFlushSb, OpErr, OpOk, OpSbErr,
           FlushDone, Retire, Sync, WriteFileFlush, OpCount, OpFlush, Flush, Read, Evict, OpWrite,
           PlainWrite
    <2>4. ~Boot
      BY <2>1, ZenonT(30) DEF Boot, Open, ReplaySlot, ReplayDone, ReplayError
    <2>5. CASE Crash
      BY ZenonT(30), <2>5 DEF Crash
    <2> QED
      BY ZenonT(30), <2>3, <2>4, <2>5 DEF Next
  <1> QED
    BY <1>2, CacheInvariant, PTL DEF Spec, CommitRecordFirst

===============================================================================
