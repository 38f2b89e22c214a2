----------------------------- MODULE RacfsJournal -----------------------------
(***************************************************************************)
(* racfs transactions over the block cache: the metadata journal, its      *)
(* replay at mount, and the unjournaled data path                          *)
(* (kernel/src/vfs/racfs.rs, kernel/src/drivers/cache.rs).                 *)
(*                                                                         *)
(* One action per device write or cache mutation, so that a crash can fall *)
(* between any two.  An operation (create, unlink, rename, truncate, ...)  *)
(* is any sequence of sector writes and superblock-counter changes; which  *)
(* ones a given operation makes is the subject of RacfsTree.  Journal      *)
(* sequence numbers only reach the boot log and are left out.              *)
(***************************************************************************)
EXTENDS BlockCache

CONSTANTS
    Tasks,      \* tasks inside a filesystem call, flushd among them
    SB,         \* the superblock's sector
    DataLba,    \* sectors that hold file data
    Cap,        \* journal_capacity()
    MaxTxn,     \* bound on the sectors one operation writes, superblock included
    IrqsOff,    \* no interrupt reschedules inside a filesystem call; true of this kernel
                \* (cli in sys_write, and Scheduler!TimerServesIdle everywhere else)
    IoErrors    \* the device may fail a write

ASSUME JournalAssumption ==
    /\ SB \in Lba
    /\ DataLba \subseteq Lba \ {SB}
    /\ Cap \in Nat \ {0}
    /\ MaxTxn \in Nat \ {0}
    /\ Cap < CacheMax
    /\ IrqsOff \in BOOLEAN
    /\ IoErrors \in BOOLEAN

VARIABLES
    slot,       \* slot[i]: the i-th data sector of the journal
    header,     \* the journal's header sector
    sb,         \* the in-memory superblock
    mode,       \* "down", "replay" or "up"
    pos,        \* replay_journal: the next slot to restore
    pc,         \* pc[t]: where t is in transaction / journal_commit / sync
    sectors,    \* sectors[t]: journal_commit's argument
    idx         \* idx[t]: journal_commit: the next sector to log

localVars == <<pc, sectors, idx>>
bootVars == <<mode, pos>>
vars == <<cacheVars, slot, header, sb, bootVars, localVars>>

EmptyHeader == [state |-> "EMPTY", lbas |-> <<>>]
Committed(s) == [state |-> "COMMITTED", lbas |-> s]
Headers == [state : {"EMPTY", "COMMITTED"}, lbas : Seq(Lba)]

Phases == {"idle", "op", "log", "apply", "retire", "spill", "sync"}

TypeOK ==
    /\ CacheTypeOK
    /\ slot \in [1 .. Cap -> Val]
    /\ header \in Headers
    /\ sb \in Val \cup {None}
    /\ mode \in {"down", "replay", "up"}
    /\ pos \in Nat \ {0}
    /\ pc \in [Tasks -> Phases]
    /\ sectors \in [Tasks -> Seq(Lba)]
    /\ idx \in [Tasks -> Nat \ {0}]

\* Any cleanly retired image, not mounted yet; the slots hold leftovers.
Init ==
    /\ disk \in [Lba -> Val]
    /\ slot \in [1 .. Cap -> Val]
    /\ header = EmptyHeader
    /\ data = [l \in Lba |-> None]
    /\ dirty = {}
    /\ recording = None
    /\ sb = None
    /\ mode = "down"
    /\ pos = 1
    /\ pc = [t \in Tasks |-> "idle"]
    /\ sectors = [t \in Tasks |-> <<>>]
    /\ idx = [t \in Tasks |-> 1]

MutAtPreempted(t, p) == mode = "up" /\ pc[t] = p

\* t is on the CPU in phase p.  With interrupts off, nobody else is inside.
At(t, p) ==
    /\ mode = "up"
    /\ pc[t] = p
    /\ IrqsOff => \A u \in Tasks \ {t} : pc[u] = "idle"

Goto(t, p) == pc' = [pc EXCEPT ![t] = p]

-------------------------------------------------------------------------------
(* transaction(op) *)

Begin(t) ==
    /\ At(t, "idle")
    /\ recording' = <<>>
    /\ Goto(t, "op")
    /\ UNCHANGED <<disk, data, dirty, slot, header, sb, bootVars, sectors, idx>>

\* write_inode, write_data_block, a bitmap sector: one sector through the cache.
OpWrite(t, l, v) ==
    /\ At(t, "op")
    /\ l # SB
    /\ Cardinality((Pinned \cup {l}) \ {SB}) < MaxTxn
    /\ WriteSector(l, v)
    /\ UNCHANGED <<slot, header, sb, bootVars, localVars>>

\* alloc_block, free_block, alloc_inode, free_inode: the in-memory counters.
OpCount(t, v) ==
    /\ At(t, "op")
    /\ sb' = v
    /\ UNCHANGED <<cacheVars, slot, header, bootVars, localVars>>

\* flush_sb inside an operation.
OpFlushSb(t) ==
    /\ At(t, "op")
    /\ WriteSector(SB, sb)
    /\ UNCHANGED <<slot, header, sb, bootVars, localVars>>

\* The flush most operations end with; recorded sectors are skipped.
OpFlush(t, l) ==
    /\ At(t, "op")
    /\ FlushEntry(l)
    /\ UNCHANGED <<slot, header, sb, bootVars, localVars>>

MutOpErrKeepsSb(t) ==
    /\ At(t, "op")
    /\ DiscardRecorded
    /\ Goto(t, "idle")
    /\ UNCHANGED <<slot, header, sb, bootVars, sectors, idx>>

\* op returned Err: drop what it wrote, re-read the superblock.
OpErr(t) ==
    /\ At(t, "op")
    /\ DiscardRecorded
    /\ sb' = disk[SB]
    /\ Goto(t, "idle")
    /\ UNCHANGED <<slot, header, bootVars, sectors, idx>>

\* op returned Ok: flush_sb, take the list, stop recording, enter journal_commit.
OpOk(t) ==
    LET list == IF recording = None THEN <<>> ELSE Noted(SB) IN
    /\ At(t, "op")
    /\ HasRoom(SB)
    /\ data' = [data EXCEPT ![SB] = sb]
    /\ dirty' = dirty \cup {SB}
    /\ recording' = None
    /\ sectors' = [sectors EXCEPT ![t] = list]
    /\ idx' = [idx EXCEPT ![t] = 1]
    /\ Goto(t, IF list = <<>> THEN "idle" ELSE IF Len(list) > Cap THEN "spill" ELSE "log")
    /\ UNCHANGED <<disk, slot, header, sb, bootVars>>

\* flush_sb itself failed: recording has ended and nothing is rolled back.
OpSbErr(t) ==
    /\ At(t, "op")
    /\ CacheFull(SB)
    /\ recording' = None
    /\ Goto(t, "idle")
    /\ UNCHANGED <<disk, data, dirty, slot, header, sb, bootVars, sectors, idx>>

-------------------------------------------------------------------------------
(* journal_commit(sectors) *)

\* 1. One sector, as the cache has it, into its slot.
LogSlot(t) ==
    /\ At(t, "log")
    /\ idx[t] <= Len(sectors[t])
    /\ slot' = [slot EXCEPT ![idx[t]] = View(sectors[t][idx[t]])]
    /\ idx' = [idx EXCEPT ![t] = @ + 1]
    /\ UNCHANGED <<cacheVars, header, sb, bootVars, pc, sectors>>

MutRecordBeforeSlots(t) ==
    /\ At(t, "log")
    /\ header' = Committed(sectors[t])
    /\ Goto(t, "apply")
    /\ UNCHANGED <<cacheVars, slot, sb, bootVars, sectors, idx>>

\* 2. The commit record.
WriteRecord(t) ==
    /\ At(t, "log")
    /\ idx[t] > Len(sectors[t])
    /\ header' = Committed(sectors[t])
    /\ Goto(t, "apply")
    /\ UNCHANGED <<cacheVars, slot, sb, bootVars, sectors, idx>>

\* 3. Apply; also the loop of an unjournaled flush and of sync.
Flush(t, l) ==
    /\ At(t, "apply") \/ At(t, "spill") \/ At(t, "sync")
    /\ FlushEntry(l)
    /\ UNCHANGED <<slot, header, sb, bootVars, localVars>>

FlushDone(t) ==
    /\ At(t, "apply") \/ At(t, "spill") \/ At(t, "sync")
    /\ Flushable = {}
    /\ Goto(t, IF pc[t] = "apply" THEN "retire" ELSE "idle")
    /\ sectors' = [sectors EXCEPT ![t] = IF pc[t] = "apply" THEN @ ELSE <<>>]
    /\ UNCHANGED <<cacheVars, slot, header, sb, bootVars, idx>>

\* 4. Retire the log.
Retire(t) ==
    /\ At(t, "retire")
    /\ header' = EmptyHeader
    /\ Goto(t, "idle")
    /\ sectors' = [sectors EXCEPT ![t] = <<>>]
    /\ UNCHANGED <<cacheVars, slot, sb, bootVars, idx>>

\* A device write fails and the `?` leaves the function at once.
IoError(t) ==
    /\ IoErrors
    /\ \E p \in Phases \ {"idle", "op"} : At(t, p)
    /\ Goto(t, "idle")
    /\ sectors' = [sectors EXCEPT ![t] = <<>>]
    /\ UNCHANGED <<cacheVars, slot, header, sb, bootVars, idx>>

-------------------------------------------------------------------------------
(* Outside transactions *)

\* write_file's data, and its rewriting of an inode whose size did not change.
PlainWrite(t, l, v) ==
    /\ At(t, "idle")
    /\ l # SB
    /\ l \in DataLba \/ v = View(l)
    /\ WriteSector(l, v)
    /\ UNCHANGED <<slot, header, sb, bootVars, localVars>>

\* Any lookup or read, inside a transaction or not.
Read(t, l) ==
    /\ At(t, "idle") \/ At(t, "op")
    /\ ReadSector(l)
    /\ UNCHANGED <<slot, header, sb, bootVars, localVars>>

\* evict_one on behalf of a read or a write that found the cache full.
Evict(t, l) ==
    /\ At(t, "idle") \/ At(t, "op")
    /\ EvictOne(l)
    /\ UNCHANGED <<slot, header, sb, bootVars, localVars>>

\* sync: flush_sb, then flush.  Called by sys_sync and flushd.
Sync(t) ==
    /\ At(t, "idle")
    /\ WriteSector(SB, sb)
    /\ Goto(t, "sync")
    /\ UNCHANGED <<slot, header, sb, bootVars, sectors, idx>>

\* The flush write_file ends with.
WriteFileFlush(t) ==
    /\ At(t, "idle")
    /\ Goto(t, "sync")
    /\ UNCHANGED <<cacheVars, slot, header, sb, bootVars, sectors, idx>>

-------------------------------------------------------------------------------
(* Power failure, mount and replay_journal *)

Crash ==
    /\ mode # "down"
    /\ mode' = "down"
    /\ data' = [l \in Lba |-> None]
    /\ dirty' = {}
    /\ recording' = None
    /\ sb' = None
    /\ pos' = 1
    /\ pc' = [t \in Tasks |-> "idle"]
    /\ sectors' = [t \in Tasks |-> <<>>]
    /\ idx' = [t \in Tasks |-> 1]
    /\ UNCHANGED <<disk, slot, header>>

\* Racfs::open reads the superblock through the new, empty cache.
Open ==
    /\ mode = "down"
    /\ mode' = "replay"
    /\ sb' = disk[SB]
    /\ data' = [data EXCEPT ![SB] = disk[SB]]
    /\ UNCHANGED <<disk, dirty, recording, slot, header, pos, localVars>>

NeedsReplay == header.state = "COMMITTED" /\ header.lbas # <<>>

MutReplayStuck ==
    /\ mode = "replay"
    /\ NeedsReplay
    /\ pos <= Len(header.lbas)
    /\ WriteThrough(header.lbas[pos], slot[pos])
    /\ UNCHANGED <<slot, header, sb, bootVars, localVars>>

MutReplayClearsSlot ==
    /\ mode = "replay"
    /\ NeedsReplay
    /\ pos <= Len(header.lbas)
    /\ WriteThrough(header.lbas[pos], slot[pos])
    /\ pos' = pos + 1
    /\ \E v \in Val : slot' = [slot EXCEPT ![pos] = v]
    /\ UNCHANGED <<header, sb, mode, localVars>>

\* One sector of a committed log goes back to its place.
ReplaySlot ==
    /\ mode = "replay"
    /\ NeedsReplay
    /\ pos <= Len(header.lbas)
    /\ WriteThrough(header.lbas[pos], slot[pos])
    /\ pos' = pos + 1
    /\ UNCHANGED <<slot, header, sb, mode, localVars>>

\* Nothing to replay, or everything restored: clear the header, re-read the
\* superblock, hand the filesystem to the mount table.
ReplayDone ==
    /\ mode = "replay"
    /\ NeedsReplay => pos > Len(header.lbas)
    /\ header' = IF NeedsReplay THEN EmptyHeader ELSE header
    /\ sb' = IF NeedsReplay THEN disk[SB] ELSE sb
    /\ mode' = "up"
    /\ pos' = 1
    /\ UNCHANGED <<cacheVars, slot, localVars>>

\* replay_journal returned Err: the boot logs it and mounts anyway.
ReplayError ==
    /\ IoErrors
    /\ mode = "replay"
    /\ NeedsReplay
    /\ mode' = "up"
    /\ pos' = 1
    /\ UNCHANGED <<cacheVars, slot, header, sb, localVars>>

TaskStep(t) ==
    \/ Begin(t) \/ OpFlushSb(t) \/ OpErr(t) \/ OpOk(t) \/ OpSbErr(t)
    \/ LogSlot(t) \/ WriteRecord(t) \/ FlushDone(t) \/ Retire(t) \/ IoError(t)
    \/ Sync(t) \/ WriteFileFlush(t)
    \/ \E v \in Val : OpCount(t, v)
    \/ \E l \in Lba : OpFlush(t, l) \/ Flush(t, l) \/ Read(t, l) \/ Evict(t, l)
    \/ \E l \in Lba, v \in Val : OpWrite(t, l, v) \/ PlainWrite(t, l, v)

Boot == Open \/ ReplaySlot \/ ReplayDone \/ ReplayError

Next == (\E t \in Tasks : TaskStep(t)) \/ Boot \/ Crash

Spec == Init /\ [][Next]_vars

\* A boot that is not cut short goes on; the device need not fail.
BootFair == WF_vars(Open \/ ReplaySlot \/ ReplayDone)
MountSpec == Spec /\ BootFair

-------------------------------------------------------------------------------
(* Properties *)

Logged(l) == header.state = "COMMITTED" /\ l \in Range(header.lbas)

\* What mounting this device would produce.
Recovered ==
    [l \in Lba |-> IF Logged(l)
                   THEN slot[CHOOSE i \in DOMAIN header.lbas : header.lbas[i] = l]
                   ELSE disk[l]]

\* l belongs to an operation whose commit record is not written.
Staged(l) ==
    \E t \in Tasks :
        \/ pc[t] = "op" /\ l \in Pinned
        \/ pc[t] \in {"log", "spill"} /\ l \in Range(sectors[t])

InTxn == [l \in Lba |-> IF Staged(l) THEN View(l) ELSE None]

Store == INSTANCE AtomicStore WITH img <- Recovered, txn <- InTxn

\* Crash atomicity (transaction, journal_commit, replay_journal): at every
\* moment, what a crash followed by a mount would find changes only by a
\* whole transaction or by one sector of unjournaled file data.
CrashAtomic == Store!Spec

\* The cache never serves stale data (read_sector, write_through,
\* discard_recorded): a clean cached copy equals the device's sector.
CacheCoherent == \A l \in Entries \ dirty : data[l] = disk[l]

\* When no call is inside racfs, every metadata change a finished call made is
\* on the device and no change a failed call made is left in memory
\* (transaction's Ok and Err arms): rollback is complete and success durable.
ReturnedMeansDurable ==
    mode = "up" /\ (\A t \in Tasks : pc[t] = "idle") =>
        /\ sb = disk[SB]
        /\ ~NeedsReplay
        /\ \A l \in Lba \ DataLba : View(l) = disk[l]

\* What holds between any two device writes of journal_commit, flush and
\* replay_journal, and makes the two properties above inductive.
OneInside == \A t, u \in Tasks : pc[t] # "idle" /\ pc[u] # "idle" => t = u

Recording ==
    /\ recording # None <=> \E t \in Tasks : pc[t] = "op"
    /\ recording # None =>
         /\ IsInjective(recording)
         /\ Range(recording) \subseteq dirty
         /\ Cardinality(Range(recording) \ {SB}) < MaxTxn

Unmounted ==
    /\ mode # "replay" => pos = 1
    /\ mode # "up" =>
         dirty = {} /\ recording = None /\ \A t \in Tasks : pc[t] = "idle"
    /\ mode = "replay" =>
         /\ sb \in Val
         /\ header.state = "EMPTY" => sb = disk[SB]
         /\ header.state = "COMMITTED" =>
              \A j \in DOMAIN header.lbas : j < pos => disk[header.lbas[j]] = slot[j]

Logging ==
    \A t \in Tasks :
        /\ pc[t] \in {"log", "spill"} =>
             /\ IsInjective(sectors[t])
             /\ SB \in Range(sectors[t])
             /\ pc[t] = "log" <=> Len(sectors[t]) <= Cap
        /\ pc[t] = "log" =>
             /\ Range(sectors[t]) \subseteq dirty
             /\ \A j \in DOMAIN sectors[t] : j < idx[t] => slot[j] = View(sectors[t][j])

Applying ==
    /\ header.state = "COMMITTED" =>
         /\ IsInjective(header.lbas)
         /\ header.lbas # <<>>
         /\ Len(header.lbas) <= Cap
         /\ mode = "up" => \E t \in Tasks : pc[t] \in {"apply", "retire"}
    /\ \A t \in Tasks :
         /\ pc[t] \in {"apply", "retire"} =>
              /\ header.state = "COMMITTED"
              /\ \A j \in DOMAIN header.lbas : View(header.lbas[j]) = slot[j]
         /\ pc[t] = "retire" => dirty = {}

Durable ==
    mode = "up" =>
        /\ sb \in Val
        /\ \A l \in Lba \ DataLba : Staged(l) \/ Logged(l) \/ View(l) = disk[l]
        /\ (\A t \in Tasks : pc[t] # "op") => sb = View(SB)

\* The inductive invariant of a serialized, fault-free journal: only logged or
\* staged metadata differs from the device (transaction, journal_commit), and
\* what is logged equals what the cache or the replay will put in place.
JournalInv ==
    /\ TypeOK /\ CacheCoherent /\ OneInside /\ Recording
    /\ Unmounted /\ Logging /\ Applying /\ Durable

\* The conditions under which the journal keeps its promise: calls into racfs
\* do not interleave, the device accepts every write, and no operation fills
\* the cache.
Serialized == IrqsOff /\ ~IoErrors /\ MaxTxn <= CacheMax

\* Until its commit record is on the device, no sector of a transaction that
\* is being logged changes in place, whatever the other tasks flush or evict
\* (journal_commit, flush, evict_one).
CommitRecordFirst ==
    [][\A t \in Tasks, l \in Lba :
         pc[t] = "log" /\ l \in Range(sectors[t]) => disk'[l] = disk[l]]_vars

\* A committed log stays readable until it is retired (write_journal_header,
\* journal_commit): no slot is overwritten while the header on the device
\* still tells a mount to replay it.
CommittedLogIntact == [][NeedsReplay => slot' = slot]_vars

\* A mount finishes (Racfs::open, replay_journal): if the machine stops
\* crashing, an interrupted replay is eventually carried to its end.
MountCompletes == (<>[][~Crash]_vars) => (mode = "down" ~> mode = "up")

===============================================================================
