-------------------------- MODULE RacfsJournalProofs --------------------------
(***************************************************************************)
(* Crash atomicity of the racfs journal for every device size, cache size, *)
(* journal capacity and set of tasks: under JournalInv every step of the   *)
(* journal is a step of AtomicStore or invisible to it.                    *)
(***************************************************************************)
EXTENDS RacfsJournalInv, FiniteSetTheorems

USE CacheAssumption, JournalAssumption

\* The abstract store counts sectors as the journal does.
LEMMA SameCardinality == \A S : Store!Cardinality(S) = Cardinality(S)
  BY ZenonT(180) DEF Store!Cardinality, Cardinality, Store!IsFiniteSet,
     IsFiniteSet

\* What a mount finds changes only where the device changes outside the log.
LEMMA SameImage ==
    ASSUME header' = header, slot' = slot,
           \A l \in Lba : Logged(l) \/ disk'[l] = disk[l]
    PROVE  Recovered' = Recovered
  BY DEF Recovered, Logged

\* The operation in progress changes only with its sectors or their contents.
LEMMA SameTxn ==
    ASSUME \A l \in Lba : Staged(l)' <=> Staged(l),
           \A l \in Lba : Staged(l) => View(l)' = View(l)
    PROVE  InTxn' = InTxn
  BY ZenonT(30) DEF InTxn

\* A step that keeps both is a stuttering step of the abstract store.
LEMMA Stutter ==
    ASSUME Recovered' = Recovered, InTxn' = InTxn
    PROVE  [Store!Next]_(Store!vars)
  BY ZenonT(30) DEF Store!vars

\* A committed log with distinct sectors is recovered slot by slot.
LEMMA RecoveredSlot ==
    ASSUME header \in Headers, header.state = "COMMITTED", IsInjective(header.lbas),
           NEW j \in DOMAIN header.lbas
    PROVE  Recovered[header.lbas[j]] = slot[j]
  <1>1. header.lbas \in Seq(Lba) /\ header.lbas[j] \in Lba
    BY SMTT(180) DEF Headers
  <1>2. Logged(header.lbas[j])
    BY ZenonT(30) DEF Logged, Range
  <1>3. \A i \in DOMAIN header.lbas : header.lbas[i] = header.lbas[j] <=> i = j
    BY ZenonT(30) DEF IsInjective
  <1>4. (CHOOSE i \in DOMAIN header.lbas : header.lbas[i] = header.lbas[j]) = j
    BY ZenonT(30), <1>3
  <1> QED
    BY <1>1, <1>2, <1>4, ZenonT(180) DEF Recovered

\* What a mount finds is a full image.
LEMMA RecoveredType == ASSUME JournalInv PROVE Recovered \in [Lba -> Val]
  <1>1. ASSUME NEW l \in Lba PROVE Recovered[l] \in Val
    <2>1. CASE ~Logged(l)
      BY <2>1, ZenonT(30) DEF Recovered, JournalInv, TypeOK, CacheTypeOK
    <2>2. CASE Logged(l)
      <3>1. PICK j \in DOMAIN header.lbas : header.lbas[j] = l
        BY <2>2, ZenonT(30) DEF Logged, Range
      <3>2. Recovered[l] = slot[j]
        BY <2>2, <3>1, RecoveredSlot, ZenonT(30) DEF JournalInv, TypeOK,
           Applying, Logged
      <3>3. j \in 1 .. Cap
        BY <2>2, <3>1, SMTT(180) DEF JournalInv, TypeOK, Applying, Logged,
           Headers
      <3> QED
        BY ZenonT(30), <3>2, <3>3 DEF JournalInv, TypeOK
    <2> QED
      BY <2>1, <2>2, ZenonT(30)
  <1> QED
    BY <1>1, ZenonT(180) DEF Recovered

\* While a call is outside journal_commit the log on the device is empty.
LEMMA NothingLogged ==
    ASSUME Serialized, JournalInv, NEW t \in Tasks,
           At(t, "idle") \/ At(t, "op") \/ At(t, "log") \/ At(t, "spill") \/ At(t, "sync")
    PROVE  header.state = "EMPTY" /\ \A l \in Lba : ~Logged(l)
  <1>1. mode = "up" /\ \A u \in Tasks : pc[u] \notin {"apply", "retire"}
    BY ZenonT(30) DEF Serialized, At, JournalInv, TypeOK
  <1> QED
    BY <1>1, ZenonT(30) DEF JournalInv, Applying, Logged, TypeOK, Headers

\* flush and evict_one write one sector in place.  Outside an open operation
\* that sector is logged already, holds file data, or does not change.
LEMMA Landing ==
    ASSUME JournalInv, mode = "up", header' = header, slot' = slot, NEW l \in Lba,
           ~Staged(l), disk' = [disk EXCEPT ![l] = View(l)], InTxn' = InTxn
    PROVE  [Store!Next]_(Store!vars)
  <1>0. disk \in [Lba -> Val] /\ View(l) \in Val
    BY ZenonT(30) DEF JournalInv, TypeOK, CacheTypeOK, View
  <1>1. CASE Logged(l) \/ View(l) = disk[l]
    BY <1>0, <1>1, SameImage, Stutter, ZenonT(30)
  <1>2. CASE ~Logged(l) /\ View(l) # disk[l]
    <2>1. l \in DataLba
      BY ZenonT(30), <1>2 DEF JournalInv, Durable
    <2>2. Recovered' = [Recovered EXCEPT ![l] = View(l)]
      <3>1. \A k \in Lba : Logged(k)' <=> Logged(k)
        BY ZenonT(30) DEF Logged
      <3>2. \A k \in Lba : Recovered'[k] = IF k = l THEN View(l) ELSE Recovered[k]
        BY <1>0, <1>2, <3>1, SMTT(180) DEF Recovered
      <3>3. Recovered = [k \in Lba |-> Recovered[k]]
        BY SMTT(180) DEF Recovered
      <3>4. Recovered' = [k \in Lba |-> Recovered'[k]]
        BY SMTT(180) DEF Recovered
      <3> QED
        BY <3>2, <3>3, <3>4, ZenonT(30)
    <2>3. Store!DataLand(l, View(l))
      BY ZenonT(30), <2>2 DEF Store!DataLand
    <2> QED
      BY <1>0, <2>1, <2>3, ZenonT(30) DEF Store!Next
  <1> QED
    BY <1>1, <1>2, ZenonT(30)

\* A write recorded for the operation in progress stages one sector.
LEMMA Staging ==
    ASSUME NEW l \in Lba, NEW v \in Val, Recovered' = Recovered,
           \A k \in Lba : Staged(k)' <=> Staged(k) \/ k = l,
           \A k \in Lba \ {l} : View(k)' = View(k),
           View(l)' = v
    PROVE  [Store!Next]_(Store!vars)
  <1>1. InTxn' = [InTxn EXCEPT ![l] = v]
    BY ZenonT(180) DEF InTxn
  <1> QED
    BY <1>1, ZenonT(180) DEF Store!Next, Store!Stage

\* Dropping the operation in progress is the abstract Discard.
LEMMA Dropping ==
    ASSUME Recovered' = Recovered, \A l \in Lba : ~Staged(l)'
    PROVE  [Store!Next]_(Store!vars)
  <1>1. InTxn' = [l \in Lba |-> None]
    BY ZenonT(30) DEF InTxn
  <1> QED
    BY ZenonT(30), <1>1 DEF Store!Next, Store!Discard, Store!Empty

\* Steps that write neither the device nor a sector of the operation in
\* progress: the store does not see them.
LEMMA QuietSteps ==
    ASSUME Serialized, JournalInv, NEW t \in Tasks,
           \/ Begin(t) \/ Sync(t) \/ WriteFileFlush(t)
           \/ \E v \in Val : OpCount(t, v)
           \/ \E l \in Lba : Read(t, l)
           \/ \E l \in Lba, v \in Val : PlainWrite(t, l, v)
    PROVE  [Store!Next]_(Store!vars)
  <1>1. disk' = disk /\ header' = header /\ slot' = slot
    BY ZenonT(180) DEF Begin, Sync, WriteFileFlush, OpCount, Read, PlainWrite,
       WriteSector, ReadSector, cacheVars
  <1>2. Recovered' = Recovered
    BY ZenonT(30), <1>1, SameImage
  <1>3. CASE Begin(t)
    <2>0. Range(<<>>) = {}
      BY DEF Range
    <2>1. \A l \in Lba : ~Staged(l) /\ ~Staged(l)'
      BY <1>3, <2>0, ZenonT(180) DEF Begin, At, Goto, Staged, Pinned,
         Serialized, JournalInv, TypeOK
    <2> QED
      BY ZenonT(30), <1>2, <2>1, SameTxn, Stutter
  <1>4. CASE Sync(t) \/ WriteFileFlush(t) \/ \E l \in Lba, v \in Val : PlainWrite(t, l, v)
    <2>1. \A l \in Lba : ~Staged(l) /\ ~Staged(l)'
      BY <1>4, ZenonT(180) DEF Sync, WriteFileFlush, PlainWrite, At, Goto,
         Staged, Serialized, JournalInv, TypeOK, localVars
    <2> QED
      BY <1>2, <2>1, SameTxn, Stutter, ZenonT(30)
  <1>5. CASE (\E v \in Val : OpCount(t, v)) \/ \E l \in Lba : Read(t, l)
    <2>1. \A l \in Lba : Staged(l)' <=> Staged(l)
      BY <1>5, ZenonT(180) DEF OpCount, Read, ReadSector, Staged, Pinned,
         localVars, cacheVars
    <2>2. \A l \in Lba : View(l)' = View(l)
      BY <1>5, SMTT(180) DEF OpCount, Read, ReadSector, View, Entries,
         cacheVars, JournalInv, TypeOK, CacheTypeOK
    <2> QED
      BY ZenonT(30), <1>2, <2>1, <2>2, SameTxn, Stutter
  <1> QED
    BY ZenonT(30), <1>3, <1>4, <1>5

\* Recorded writes stage their sector.
LEMMA StagingSteps ==
    ASSUME Serialized, JournalInv, NEW t \in Tasks,
           OpFlushSb(t) \/ OpOk(t) \/ \E l \in Lba, v \in Val : OpWrite(t, l, v)
    PROVE  [Store!Next]_(Store!vars)
  <1>1. Recovered' = Recovered
    BY SameImage, ZenonT(180) DEF OpFlushSb, OpOk, OpWrite, WriteSector
  <1>2. /\ At(t, "op") /\ recording # None /\ sb \in Val
        /\ recording \in Seq(Lba) /\ IsInjective(recording)
        /\ data \in [Lba -> Val \cup {None}] /\ pc \in [Tasks -> Phases]
        /\ sectors \in [Tasks -> Seq(Lba)]
    BY ZenonT(180) DEF OpFlushSb, OpOk, OpWrite, At, JournalInv, Recording,
       Durable, TypeOK, CacheTypeOK
  <1>3. \A l \in Lba : /\ Noted(l) \in Seq(Lba) /\ Noted(l) # None /\ Noted(l) # <<>>
                        /\ Range(Noted(l)) = Range(recording) \cup {l}
    BY <1>2, NotedProperties, ZenonT(180)
  <1>4. \A k \in Lba : Staged(k) <=> k \in Range(recording)
    BY <1>2, ZenonT(180) DEF Staged, Pinned, At, Serialized
  <1>5. ASSUME NEW l \in Lba, NEW v \in Val, WriteSector(l, v), pc' = pc, sectors' = sectors
        PROVE  [Store!Next]_(Store!vars)
    <2>1. \A k \in Lba : Staged(k)' <=> k \in Range(recording) \cup {l}
      BY <1>2, <1>3, <1>5, ZenonT(180) DEF Staged, Pinned, At, Serialized,
         WriteSector
    <2>2. View(l)' = v /\ \A k \in Lba \ {l} : View(k)' = View(k)
      BY <1>2, <1>5, ZenonT(180) DEF View, WriteSector
    <2> QED
      BY ZenonT(30), <1>1, <1>4, <2>1, <2>2, Staging
  <1>6. CASE OpOk(t)
    <2>1. /\ sectors' = [sectors EXCEPT ![t] = Noted(SB)]
          /\ pc'[t] \in {"log", "spill"} /\ \A u \in Tasks \ {t} : pc'[u] = "idle"
      BY <1>2, <1>3, <1>6, ZenonT(180) DEF OpOk, Goto, At, Serialized
    <2>2. \A k \in Lba : Staged(k)' <=> k \in Range(recording) \cup {SB}
      BY <1>2, <1>3, <2>1, ZenonT(180) DEF Staged
    <2>3. View(SB)' = sb /\ \A k \in Lba \ {SB} : View(k)' = View(k)
      BY <1>2, <1>6, ZenonT(180) DEF View, OpOk
    <2> QED
      BY <1>1, <1>2, <1>4, <2>2, <2>3, Staging, ZenonT(180)
  <1> QED
    BY <1>2, <1>5, <1>6, ZenonT(180) DEF OpFlushSb, OpWrite, localVars

\* A failed operation and a power failure leave no operation in progress.
LEMMA DroppingSteps ==
    ASSUME Serialized, JournalInv, Crash \/ \E t \in Tasks : OpErr(t)
    PROVE  [Store!Next]_(Store!vars)
  <1>1. Recovered' = Recovered
    BY SameImage, ZenonT(180) DEF Crash, OpErr, DiscardRecorded
  <1>2. \A l \in Lba : ~Staged(l)'
    BY ZenonT(180) DEF Crash, OpErr, Staged, At, Goto, Serialized, JournalInv,
       TypeOK
  <1> QED
    BY <1>1, <1>2, Dropping, ZenonT(30)

\* One sector written back by flush.
LEMMA FlushSteps ==
    ASSUME CardinalityFacts, Serialized, JournalInv,
           NEW t \in Tasks, NEW l \in Lba, OpFlush(t, l) \/ Flush(t, l)
    PROVE  [Store!Next]_(Store!vars)
  <1>1. /\ mode = "up" /\ header' = header /\ slot' = slot /\ data' = data
        /\ pc' = pc /\ sectors' = sectors /\ recording' = recording
        /\ l \in Flushable /\ data[l] # None
        /\ disk' = [disk EXCEPT ![l] = View(l)]
    BY ZenonT(30) DEF OpFlush, Flush, FlushEntry, At, localVars, View,
       JournalInv, TypeOK, CacheTypeOK, Entries, Flushable
  <1>2. \A k \in Lba : Staged(k)' <=> Staged(k)
    BY <1>1, ZenonT(180) DEF Staged, Pinned
  <1>3. \A k \in Lba : View(k)' = View(k)
    BY <1>1, SMTT(180) DEF View, JournalInv, TypeOK, CacheTypeOK
  <1>4. InTxn' = InTxn
    BY <1>2, <1>3, SameTxn, ZenonT(30)
  <1>5. CASE ~Staged(l)
    BY <1>1, <1>4, <1>5, Landing, ZenonT(180)
  <1>6. CASE Staged(l)
    <2>1. At(t, "spill") /\ \A k \in Lba : Staged(k) <=> k \in Range(sectors[t])
      BY <1>1, <1>6, ZenonT(180) DEF OpFlush, Flush, At, Staged, Flushable,
         Serialized, JournalInv, TypeOK
    <2>2. Len(sectors[t]) > Cap /\ IsInjective(sectors[t]) /\ sectors[t] \in Seq(Lba)
      BY <2>1, SMTT(180) DEF At, JournalInv, Logging, TypeOK
    <2>3. \A k \in Lba : InTxn[k] # None <=> k \in Range(sectors[t])
      BY <2>1, SMTT(180) DEF InTxn, View, JournalInv, TypeOK, CacheTypeOK
    <2>4. Store!Touched = Range(sectors[t])
      BY <2>2, <2>3, SeqRange, ZenonT(30) DEF Store!Touched
    <2>5. Cardinality(Store!Touched) > Cap /\ l \in Store!Touched
      BY <1>6, <2>1, <2>2, <2>4, ZenonT(30) DEF CardinalityFacts
    <2>6. InTxn[l] = View(l)
      BY ZenonT(30), <1>6 DEF InTxn
    <2>7. \A k \in Lba : ~Logged(k) /\ ~Logged(k)'
      BY <1>1, <2>1, NothingLogged, ZenonT(180) DEF Logged
    <2>8. Recovered = disk /\ Recovered' = disk'
      BY <1>1, <2>7, ZenonT(180) DEF Recovered, JournalInv, TypeOK, CacheTypeOK
    <2>9. Store!LandUnjournaled(l)
      <3>1. Recovered' = [Recovered EXCEPT ![l] = InTxn[l]]
        BY <1>1, <2>6, <2>8, ZenonT(180)
      <3> QED
        BY <1>4, <2>5, <3>1, SameCardinality, ZenonT(30) DEF
           Store!LandUnjournaled
    <2> QED
      BY <2>9, ZenonT(30) DEF Store!Next
  <1> QED
    BY <1>5, <1>6, ZenonT(30)

\* One sector written back and dropped by evict_one.
LEMMA EvictSteps ==
    ASSUME Serialized, JournalInv, NEW t \in Tasks, NEW l \in Lba, Evict(t, l)
    PROVE  [Store!Next]_(Store!vars)
  <1>1. /\ mode = "up" /\ header' = header /\ slot' = slot
        /\ pc' = pc /\ sectors' = sectors /\ recording' = recording
        /\ l \in Evictable /\ data[l] # None
        /\ disk \in [Lba -> Val] /\ data \in [Lba -> Val \cup {None}]
    BY ZenonT(30) DEF Evict, EvictOne, At, localVars, JournalInv, TypeOK,
       CacheTypeOK, Entries, Evictable
  <1>2. disk' = [disk EXCEPT ![l] = View(l)]
    <2>1. l \notin dirty => data[l] = disk[l]
      BY <1>1, ZenonT(30) DEF JournalInv, CacheCoherent, Evictable
    <2> QED
      BY <1>1, <2>1, ZenonT(180) DEF Evict, EvictOne, View
  <1>3. \A k \in Lba : Staged(k)' <=> Staged(k)
    BY <1>1, ZenonT(180) DEF Staged, Pinned
  <1>4. \A k \in Lba : View(k)' = View(k)
    BY <1>1, <1>2, SMTT(180) DEF Evict, EvictOne, View
  <1>5. InTxn' = InTxn
    BY ZenonT(30), <1>3, <1>4, SameTxn
  <1>6. ~Staged(l)
    BY <1>1, ZenonT(180) DEF Evict, At, Staged, Serialized, Evictable,
       JournalInv, Recording, Pinned
  <1> QED
    BY <1>1, <1>2, <1>5, <1>6, Landing, ZenonT(180)

\* A slot filled before the commit record is invisible to a mount.
LEMMA LogSlotSteps ==
    ASSUME Serialized, JournalInv, NEW t \in Tasks, LogSlot(t)
    PROVE  [Store!Next]_(Store!vars)
  <1>1. header' = header /\ disk' = disk /\ data' = data
        /\ recording' = recording /\ pc' = pc /\ sectors' = sectors
    BY ZenonT(30) DEF LogSlot, cacheVars
  <1>2. \A l \in Lba : ~Logged(l) /\ ~Logged(l)'
    BY <1>1, NothingLogged, ZenonT(180) DEF LogSlot, Logged
  <1>3. Recovered' = Recovered
    BY <1>1, <1>2, ZenonT(30) DEF Recovered
  <1>4. \A l \in Lba : (Staged(l)' <=> Staged(l)) /\ View(l)' = View(l)
    BY ZenonT(30), <1>1 DEF Staged, Pinned, View
  <1> QED
    BY <1>3, <1>4, SameTxn, Stutter, ZenonT(30)

\* The commit record moves the whole operation into the image at once.
LEMMA WriteRecordSteps ==
    ASSUME CardinalityFacts, Serialized, JournalInv, NEW t \in Tasks, WriteRecord(t)
    PROVE  [Store!Next]_(Store!vars)
  <1> DEFINE S == sectors[t]
  <1>1. /\ S \in Seq(Lba) /\ IsInjective(S) /\ Len(S) <= Cap
        /\ \A j \in DOMAIN S : slot[j] = View(S[j])
        /\ disk \in [Lba -> Val] /\ data \in [Lba -> Val \cup {None}]
    BY SMTT(180) DEF WriteRecord, At, JournalInv, Logging, TypeOK, CacheTypeOK
  <1>2. /\ header' = Committed(S) /\ disk' = disk /\ data' = data /\ slot' = slot
        /\ \A u \in Tasks : pc'[u] \in {"idle", "apply"}
    BY ZenonT(30) DEF WriteRecord, Goto, At, Serialized, cacheVars, JournalInv, TypeOK
  <1>3. \A l \in Lba : Staged(l) <=> l \in Range(S)
    BY ZenonT(30) DEF WriteRecord, At, Serialized, Staged
  <1>4. \A l \in Lba : ~Staged(l)'
    BY <1>2, ZenonT(30) DEF Staged
  <1>5. Recovered = disk
    <2>1. \A l \in Lba : ~Logged(l)
      BY NothingLogged, ZenonT(180) DEF WriteRecord
    <2> QED
      BY <1>1, <2>1, ZenonT(30) DEF Recovered
  <1>6. \A l \in Lba : Recovered'[l] = IF Staged(l) THEN View(l) ELSE disk[l]
    <2>1. TAKE l \in Lba
    <2>2. Logged(l)' <=> l \in Range(S)
      BY ZenonT(30), <1>2 DEF Logged, Committed
    <2>3. CASE l \notin Range(S)
      BY <1>2, <1>3, <2>2, <2>3, ZenonT(180) DEF Recovered
    <2>4. CASE l \in Range(S)
      <3>1. PICK j \in DOMAIN S : S[j] = l
        BY <2>4, ZenonT(30) DEF Range
      <3>2. \A i \in DOMAIN S : S[i] = l <=> i = j
        BY <1>1, <3>1, ZenonT(30) DEF IsInjective
      <3>3. (CHOOSE i \in DOMAIN S : S[i] = l) = j
        BY ZenonT(30), <3>2
      <3>4. Recovered'[l] = slot[CHOOSE i \in DOMAIN S : S[i] = l]
        BY <1>2, <2>2, <2>4, ZenonT(180) DEF Recovered, Committed
      <3> QED
        BY <1>1, <1>3, <2>4, <3>1, <3>3, <3>4, ZenonT(180)
    <2> QED
      BY <2>3, <2>4, ZenonT(180)
  <1>7. \A l \in Lba : Recovered'[l] = IF InTxn[l] # None THEN InTxn[l] ELSE Recovered[l]
    <2>1. \A l \in Lba : View(l) # None
      BY <1>1, SMTT(180) DEF View
    <2>2. \A l \in Lba : InTxn[l] = IF Staged(l) THEN View(l) ELSE None
      BY ZenonT(30) DEF InTxn
    <2> QED
      BY <1>5, <1>6, <2>1, <2>2, ZenonT(30)
  <1>8. Recovered' = [l \in Lba |-> IF InTxn[l] # None THEN InTxn[l] ELSE Recovered[l]]
    <2>1. Recovered' = [l \in Lba |-> Recovered'[l]]
      BY SMTT(180) DEF Recovered
    <2> QED
      BY <1>7, <2>1, ZenonT(30)
  <1>9. InTxn' = [l \in Lba |-> None]
    BY ZenonT(30), <1>4 DEF InTxn
  <1>10. Cardinality(Store!Touched) <= Cap
    <2>1. \A l \in Lba : InTxn[l] # None <=> l \in Range(S)
      <3>1. \A l \in Lba : View(l) # None
        BY <1>1 DEF View
      <3>2. \A l \in Lba : InTxn[l] = IF Staged(l) THEN View(l) ELSE None
        BY ZenonT(30) DEF InTxn
      <3> QED
        BY ZenonT(30), <1>3, <3>1, <3>2
    <2>2. Store!Touched = Range(S)
      BY <1>1, <2>1, SeqRange, ZenonT(180) DEF Store!Touched
    <2> QED
      BY <1>1, <2>2, ZenonT(30) DEF CardinalityFacts
  <1> QED
    BY <1>8, <1>9, <1>10, SameCardinality, ZenonT(180) DEF Store!Next,
       Store!Commit, Store!Empty

\* When the flush of journal_commit ends nothing changes for a mount; the end
\* of an unjournaled flush closes the operation.
LEMMA FlushDoneSteps ==
    ASSUME Serialized, JournalInv, NEW t \in Tasks, FlushDone(t)
    PROVE  [Store!Next]_(Store!vars)
  <1>1. Recovered' = Recovered
    BY SameImage, ZenonT(30) DEF FlushDone, cacheVars
  <1>2. \A l \in Lba : ~Staged(l)'
    BY ZenonT(30) DEF FlushDone, Staged, At, Goto, Serialized, JournalInv,
       TypeOK
  <1> QED
    BY ZenonT(30), <1>1, <1>2, Dropping

\* Retiring the log: every logged sector is in place already.
LEMMA RetireSteps ==
    ASSUME Serialized, JournalInv, NEW t \in Tasks, Retire(t)
    PROVE  [Store!Next]_(Store!vars)
  <1>1. header' = EmptyHeader /\ disk' = disk /\ slot' = slot
    BY ZenonT(30) DEF Retire, cacheVars
  <1>2. \A l \in Lba : Logged(l) => Recovered[l] = disk[l]
    <2>1. SUFFICES ASSUME NEW l \in Lba, Logged(l)
                   PROVE  Recovered[l] = disk[l]
      OBVIOUS
    <2>2. PICK j \in DOMAIN header.lbas : header.lbas[j] = l
      BY ZenonT(30), <2>1 DEF Logged, Range
    <2>3. Recovered[l] = slot[j]
      BY <2>1, <2>2, RecoveredSlot, ZenonT(180) DEF JournalInv, Applying,
         TypeOK, Logged
    <2>4. slot[j] = View(l) /\ dirty = {}
      BY <2>2, ZenonT(180) DEF Retire, At, JournalInv, Applying
    <2>5. View(l) = disk[l]
      BY <2>4, ZenonT(180) DEF JournalInv, CacheCoherent, Entries, View
    <2> QED
      BY <2>3, <2>4, <2>5, ZenonT(180)
  <1>3. Recovered' = Recovered
    <2>1. \A l \in Lba : Recovered[l] = disk[l] /\ Recovered'[l] = disk[l]
      BY <1>1, <1>2, ZenonT(180) DEF Recovered, Logged, EmptyHeader
    <2>2. Recovered = [l \in Lba |-> Recovered[l]]
      BY SMTT(180) DEF Recovered
    <2>3. Recovered' = [l \in Lba |-> Recovered'[l]]
      BY SMTT(180) DEF Recovered
    <2> QED
      BY <2>1, <2>2, <2>3, ZenonT(30)
  <1>4. \A l \in Lba : ~Staged(l)'
    BY SMTT(180) DEF Retire, Staged, At, Goto, Serialized, JournalInv, TypeOK
  <1> QED
    BY ZenonT(30), <1>3, <1>4, Dropping

\* Mounting and replay never change what a mount finds.
LEMMA BootSteps ==
    ASSUME Serialized, JournalInv, Boot
    PROVE  [Store!Next]_(Store!vars)
  <1>1. ~ReplayError
    BY ZenonT(30) DEF ReplayError, Serialized
  <1>2. slot' = slot /\ pc' = pc /\ mode # "up"
    BY <1>1, ZenonT(180) DEF Boot, Open, ReplaySlot, ReplayDone, localVars
  <1>3. \A l \in Lba : ~Staged(l)'
    BY <1>2, ZenonT(180) DEF Staged, JournalInv, Unmounted
  <1>4. CASE Open
    BY <1>3, <1>4, SameImage, Dropping, ZenonT(30) DEF Open
  <1>5. CASE ReplaySlot
    <2>1. Logged(header.lbas[pos]) /\ header.lbas[pos] \in Lba
      BY <1>5, SMTT(180) DEF ReplaySlot, NeedsReplay, Logged, Range,
         JournalInv, TypeOK, Headers
    <2>2. \A l \in Lba : Logged(l) \/ disk'[l] = disk[l]
      BY <1>5, <2>1, ZenonT(180) DEF ReplaySlot, WriteThrough, JournalInv,
         TypeOK, CacheTypeOK
    <2> QED
      BY <1>3, <1>5, <2>2, SameImage, Dropping, ZenonT(180) DEF ReplaySlot
  <1>6. CASE ReplayDone /\ ~NeedsReplay
    BY <1>3, <1>6, SameImage, Dropping, ZenonT(30) DEF ReplayDone, cacheVars
  <1>7. CASE ReplayDone /\ NeedsReplay
    <2>1. header' = EmptyHeader /\ disk' = disk
      BY ZenonT(30), <1>7 DEF ReplayDone, cacheVars
    <2>2. \A l \in Lba : Logged(l) => Recovered[l] = disk[l]
      <3>1. SUFFICES ASSUME NEW l \in Lba, Logged(l)
                     PROVE  Recovered[l] = disk[l]
        OBVIOUS
      <3>2. PICK j \in DOMAIN header.lbas : header.lbas[j] = l
        BY ZenonT(30), <3>1 DEF Logged, Range
      <3>3. Recovered[l] = slot[j]
        BY <3>1, <3>2, RecoveredSlot, ZenonT(180) DEF JournalInv, Applying,
           TypeOK, Logged
      <3>4. j < pos
        BY <1>7, <3>2, SMTT(180) DEF ReplayDone, JournalInv, TypeOK, Headers
      <3> QED
        BY <1>7, <3>1, <3>2, <3>3, <3>4, ZenonT(180) DEF ReplayDone,
           JournalInv, Unmounted, Logged
    <2>3. Recovered' = Recovered
      <3>1. \A l \in Lba : Recovered[l] = disk[l] /\ Recovered'[l] = disk[l]
        BY <2>1, <2>2, ZenonT(180) DEF Recovered, Logged, EmptyHeader
      <3>2. Recovered = [l \in Lba |-> Recovered[l]]
        BY SMTT(180) DEF Recovered
      <3>3. Recovered' = [l \in Lba |-> Recovered'[l]]
        BY SMTT(180) DEF Recovered
      <3> QED
        BY <3>1, <3>2, <3>3, ZenonT(30)
    <2> QED
      BY <1>3, <2>3, Dropping, ZenonT(30)
  <1> QED
    BY <1>1, <1>4, <1>5, <1>6, <1>7, ZenonT(180) DEF Boot

\* Every step of the journal is a step of the atomic store or invisible to it.
LEMMA StepSimulation ==
    ASSUME CardinalityFacts, Serialized, JournalInv, [Next]_vars
    PROVE  [Store!Next]_(Store!vars)
  <1>1. ASSUME NEW t \in Tasks, TaskStep(t)
        PROVE  [Store!Next]_(Store!vars)
    <2>1. ~IoError(t) /\ ~OpSbErr(t)
      BY SuperblockFits, ZenonT(30) DEF IoError, Serialized
    <2>2. CASE \E l \in Lba : OpFlush(t, l) \/ Flush(t, l) \/ Evict(t, l)
      BY ZenonT(30), <2>2, FlushSteps, EvictSteps
    <2>3. CASE OpFlushSb(t) \/ OpOk(t) \/ \E l \in Lba, v \in Val : OpWrite(t, l, v)
      BY ZenonT(30), <2>3, StagingSteps
    <2>4. CASE OpErr(t)
      BY ZenonT(30), <2>4, DroppingSteps
    <2>5. CASE LogSlot(t) \/ WriteRecord(t) \/ FlushDone(t) \/ Retire(t)
      BY <2>5, LogSlotSteps, WriteRecordSteps, FlushDoneSteps, RetireSteps, ZenonT(30)
    <2>6. CASE \/ Begin(t) \/ Sync(t) \/ WriteFileFlush(t)
               \/ \E v \in Val : OpCount(t, v)
               \/ \E l \in Lba : Read(t, l)
               \/ \E l \in Lba, v \in Val : PlainWrite(t, l, v)
      BY ZenonT(30), <2>6, QuietSteps
    <2> QED
      BY <1>1, <2>1, <2>2, <2>3, <2>4, <2>5, <2>6, ZenonT(180) DEF TaskStep
  <1>2. CASE Boot
    BY ZenonT(30), <1>2, BootSteps
  <1>3. CASE Crash
    BY ZenonT(30), <1>3, DroppingSteps
  <1>4. CASE UNCHANGED vars
    <2>1. Recovered' = Recovered
      BY <1>4, SameImage, ZenonT(30) DEF vars, cacheVars
    <2>2. InTxn' = InTxn
      BY <1>4, ZenonT(30) DEF vars, cacheVars, localVars, InTxn, Staged, Pinned,
         View
    <2> QED
      BY <2>1, <2>2, Stutter, ZenonT(30)
  <1> QED
    BY <1>1, <1>2, <1>3, <1>4, ZenonT(30) DEF Next

-------------------------------------------------------------------------------
(* The theorems *)

\* A duplicate-free list of sectors has as many elements as its length.
LEMMA DistinctLength ==
    ASSUME NEW S, NEW s \in Seq(S), IsInjective(s)
    PROVE  /\ IsFiniteSet(Range(s))
           /\ Cardinality(Range(s)) = Len(s)
  <1>1. Len(s) \in Nat /\ s \in [1 .. Len(s) -> S] /\ DOMAIN s = 1 .. Len(s)
    OBVIOUS
  <1>2. s \in Surjection(1 .. Len(s), Range(s))
    BY <1>1, ZenonT(30) DEF Surjection, Range
  <1>3. s \in Injection(1 .. Len(s), Range(s))
    BY <1>1, <1>2, ZenonT(30) DEF Injection, Surjection
  <1>4. IsFiniteSet(1 .. Len(s)) /\ Cardinality(1 .. Len(s)) = Len(s)
    BY <1>1, FS_Interval, SMTT(180)
  <1> QED
    BY ZenonT(30), <1>2, <1>3, <1>4, FS_Surjection

\* The cardinality facts the steps rest on (sets and lists of sectors).
LEMMA Counting == CardinalityFacts
  <1>1. Cardinality({}) = 0
    BY FS_EmptySet, ZenonT(180)
  <1>2. \A T \in SUBSET Lba : IsFiniteSet(T) /\ Cardinality(T) \in Nat
    BY FS_Subset, FS_CardinalityType, ZenonT(30)
  <1>3. \A T \in SUBSET Lba : \A U \in SUBSET T : Cardinality(U) <= Cardinality(T)
    BY <1>2, FS_Subset, ZenonT(30)
  <1>4. \A s \in Seq(Lba) : IsInjective(s) => /\ IsFiniteSet(Range(s))
                                              /\ Cardinality(Range(s)) = Len(s)
    BY DistinctLength, ZenonT(30)
  <1> QED
    BY <1>1, <1>2, <1>3, <1>4, ZenonT(30) DEF CardinalityFacts

\* With calls into racfs serialized and a device that accepts every write,
\* JournalInv holds in every reachable state, for any number of sectors and
\* tasks and any journal and cache size.
THEOREM JournalInvariant == Serialized => (Spec => []JournalInv)
  <1>1. SUFFICES ASSUME Serialized
                 PROVE  Spec => []JournalInv
    OBVIOUS
  <1>2. Init => JournalInv
    BY InitInv, ZenonT(30)
  <1>3. JournalInv /\ [Next]_vars => JournalInv'
    BY <1>1, Counting, StepInv, ZenonT(30)
  <1> QED
    BY <1>2, <1>3, PTL DEF Spec

\* transaction's promise to its caller: Ok means durable, Err means undone.
THEOREM Returned == Serialized => (Spec => []ReturnedMeansDurable)
  <1>1. JournalInv => ReturnedMeansDurable
    BY ZenonT(180) DEF JournalInv, ReturnedMeansDurable, Durable, Staged,
       Logged, Applying, Recording, NeedsReplay, TypeOK, CacheTypeOK
  <1> QED
    BY <1>1, JournalInvariant, PTL

\* The journal keeps its promise (racfs.rs, "Metadata journal"): at every moment,
\* what a crash and a mount would find changes only by whole transactions, by
\* single sectors of file data, or by a transaction too large for the log.
THEOREM CrashAtomicity == Serialized => (Spec => CrashAtomic)
  <1>1. SUFFICES ASSUME Serialized
                 PROVE  Spec => CrashAtomic
    OBVIOUS
  <1>2. Init => Store!Init
    <2>1. SUFFICES ASSUME Init PROVE Store!Init
      OBVIOUS
    <2>2. Recovered \in [Lba -> Val]
      BY <2>1, InitInv, RecoveredType, ZenonT(30)
    <2>3. \A l \in Lba : ~Staged(l)
      BY ZenonT(30), <2>1 DEF Init, Staged
    <2>4. InTxn = [l \in Lba |-> None]
      BY <2>3, ZenonT(30) DEF InTxn
    <2> QED
      BY <2>2, <2>4, ZenonT(30) DEF Store!Init, Store!Empty
  <1>3. JournalInv /\ [Next]_vars => [Store!Next]_(Store!vars)
    BY <1>1, Counting, StepSimulation, ZenonT(30)
  <1>4. Spec => []JournalInv
    BY ZenonT(30), <1>1, JournalInvariant
  <1> QED
    BY <1>2, <1>3, <1>4, PTL DEF Spec, CrashAtomic, Store!Spec

\* A committed log is not overwritten before it is retired (journal_commit
\* writes slots only while the header on the device is empty).
THEOREM CommittedLogSafe == Serialized => (Spec => CommittedLogIntact)
  <1>1. SUFFICES ASSUME Serialized
                 PROVE  Spec => CommittedLogIntact
    OBVIOUS
  <1>2. JournalInv /\ [Next]_vars => [NeedsReplay => slot' = slot]_vars
    <2>1. SUFFICES ASSUME JournalInv, Next, NeedsReplay
                   PROVE  slot' = slot
      OBVIOUS
    <2>2. ASSUME NEW t \in Tasks PROVE ~LogSlot(t)
      BY <1>1, <2>1, <2>2, NothingLogged, ZenonT(180) DEF LogSlot, NeedsReplay
    <2> QED
      BY <2>1, <2>2, ZenonT(180) DEF Next, TaskStep, Boot, Begin, OpFlushSb,
         OpErr, OpOk, OpSbErr, WriteRecord, FlushDone, Retire, IoError, Sync,
         WriteFileFlush, OpCount, OpFlush, Flush, Read, Evict, OpWrite,
         PlainWrite, Open, ReplaySlot, ReplayDone, ReplayError, Crash
  <1>3. Spec => []JournalInv
    BY ZenonT(30), <1>1, JournalInvariant
  <1> QED
    BY <1>2, <1>3, PTL DEF Spec, CommittedLogIntact

===============================================================================
