------------------------------ MODULE BlockCache ------------------------------
(***************************************************************************)
(* The write-back sector cache between racfs and a block device            *)
(* (kernel/src/drivers/cache.rs).                                          *)
(*                                                                         *)
(* The module declares the cache's state and one operator per method; it   *)
(* has no specification of its own, because the cache takes no step that a *)
(* filesystem did not ask for.  RacfsJournal drives it.                    *)
(*                                                                         *)
(* A sector's 512 bytes are one element of Val.  The device writes one     *)
(* sector atomically and durably.  access_seq is abstracted: any entry     *)
(* evict_one may pick as least recently used, it may pick here.            *)
(***************************************************************************)
EXTENDS Naturals, Sequences, FiniteSets, Functions

CONSTANTS
    Lba,        \* the sectors of the filesystem outside its journal
    Val,        \* sector contents
    None,       \* no cached copy; no recording list
    CacheMax    \* MAX_CACHED_SECTORS

ASSUME CacheAssumption ==
    /\ None \notin Val
    /\ None \notin Lba
    /\ None \notin Seq(Lba)
    /\ IsFiniteSet(Lba)
    /\ CacheMax \in Nat \ {0}

VARIABLES
    disk,       \* disk[l]: contents of sector l on the device
    data,       \* data[l]: cached contents of l, or None
    dirty,      \* sectors whose cached copy is newer than the device's
    recording   \* sectors written since begin_recording, in write order, or None

cacheVars == <<disk, data, dirty, recording>>

Entries == {l \in Lba : data[l] # None}

CacheTypeOK ==
    /\ disk \in [Lba -> Val]
    /\ data \in [Lba -> Val \cup {None}]
    /\ dirty \in SUBSET Lba
    /\ recording \in Seq(Lba) \cup {None}
    /\ dirty \subseteq Entries

\* The sectors is_recorded answers true for: none unless a list is open.
Pinned == IF recording = None THEN {} ELSE Range(recording)

\* What peek_sector and a read through the cache return.
View(l) == IF data[l] # None THEN data[l] ELSE disk[l]

HasRoom(l) == l \in Entries \/ Cardinality(Entries) < CacheMax

\* A dirty recorded sector may not leave the cache: the commit record is not
\* on the device yet.
Evictable == Entries \ (dirty \cap Pinned)

\* The write-back and the removal of one entry.  It is a step of its own, so
\* that a crash can fall between making room and using the room.
EvictOne(l) ==
    /\ Cardinality(Entries) >= CacheMax
    /\ l \in Evictable
    /\ disk' = IF l \in dirty THEN [disk EXCEPT ![l] = data[l]] ELSE disk
    /\ data' = [data EXCEPT ![l] = None]
    /\ dirty' = dirty \ {l}
    /\ UNCHANGED recording

\* evict_one returns Err: every entry belongs to the open transaction.
CacheFull(l) == ~HasRoom(l) /\ Evictable = {}

\* A miss; a hit changes nothing but the access order.
ReadSector(l) ==
    /\ l \notin Entries
    /\ HasRoom(l)
    /\ data' = [data EXCEPT ![l] = disk[l]]
    /\ UNCHANGED <<disk, dirty, recording>>

\* The list after write_sector has noted l in it, if one is open.
Noted(l) ==
    IF recording = None \/ l \in Pinned THEN recording ELSE Append(recording, l)

WriteSector(l, v) ==
    /\ HasRoom(l)
    /\ data' = [data EXCEPT ![l] = v]
    /\ dirty' = dirty \cup {l}
    /\ recording' = Noted(l)
    /\ UNCHANGED disk

\* What flush still has to write.
Flushable == dirty \ Pinned

\* One iteration of flush's loop over the entries.
FlushEntry(l) ==
    /\ l \in Flushable
    /\ disk' = [disk EXCEPT ![l] = data[l]]
    /\ dirty' = dirty \ {l}
    /\ UNCHANGED <<data, recording>>

DiscardRecorded ==
    /\ data' = [l \in Lba |-> IF l \in dirty \cap Pinned THEN None ELSE data[l]]
    /\ dirty' = dirty \ Pinned
    /\ recording' = None
    /\ UNCHANGED disk

MutWriteThroughKeepsCopy(l, v) ==
    /\ disk' = [disk EXCEPT ![l] = v]
    /\ UNCHANGED <<data, dirty, recording>>

\* Straight to the device; the cached copy is dropped first.
WriteThrough(l, v) ==
    /\ disk' = [disk EXCEPT ![l] = v]
    /\ data' = [data EXCEPT ![l] = None]
    /\ dirty' = dirty \ {l}
    /\ UNCHANGED recording

===============================================================================
