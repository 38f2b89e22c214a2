------------------------------- MODULE RacfsTree -------------------------------
(***************************************************************************)
(* The racfs on-disk structures (kernel/src/vfs/racfs.rs): inode table,    *)
(* block map with single and double indirect blocks, allocation bitmap,    *)
(* superblock counters and directory entries, and the operations on them.  *)
(* An operation is one journal transaction, atomic by RacfsJournal: when   *)
(* it fails, everything is rolled back but the in-memory allocation hint.  *)
(*                                                                         *)
(* Sizes are scaled: a block holds Slots pointers, Slots directory entries *)
(* or Slots bytes, and an inode has Direct direct pointers.                *)
(***************************************************************************)
EXTENDS Integers, Sequences, SequencesExt, FiniteSets, FiniteSetsExt

CONSTANTS
    NInodes,        \* MAX_INODES
    NBlocks,        \* data_block_count
    Direct,         \* DIRECT_BLOCKS
    Slots,          \* POINTERS_PER_BLOCK, DIR_ENTRIES_PER_BLOCK, SECTOR_SIZE
    Names,          \* component names
    NoName,         \* the name of an unwritten entry
    Lengths,        \* the lengths truncate_file is given
    Writes,         \* the offset and count of each write_file
    Gids,           \* group ids set_inode_metadata is given
    TornWrites      \* the machine may go down inside write_file

VARIABLES
    fs,         \* the image and the allocation hint
    shadow,     \* shadow[i]: the bytes an ideal file would hold, or Torn
    owner       \* owner[i]: the group last given to i

treeVars == <<fs, shadow, owner>>

Inodes == 0 .. NInodes - 1
Blocks == 1 .. NBlocks
Idx == 0 .. Slots - 1
MaxFileBlocks == Direct + Slots + Slots * Slots

\* A cell of a block: a pointer, a directory entry (n is its inode) or a byte.
Zero == [n |-> 0, name |-> NoName]
ZeroBlock == [k \in Idx |-> Zero]

NewInode(t) ==
    [itype |-> t, size |-> 0, nlink |-> IF t = "dir" THEN 2 ELSE 1, gid |-> 0,
     direct |-> [i \in 0 .. Direct - 1 |-> 0], count |-> 0, ind |-> 0, dind |-> 0]

\* A file whose write was cut short: its bytes are not specified.
Torn == <<2>>

TreeTypeOK ==
    /\ DOMAIN fs.ino = Inodes /\ DOMAIN fs.blk = Blocks
    /\ \A i \in Inodes : /\ fs.ino[i].itype \in {"free", "file", "dir"}
                         /\ fs.ino[i].ind \in 0 .. NBlocks
                         /\ fs.ino[i].dind \in 0 .. NBlocks
    /\ \A b \in Blocks, k \in Idx : fs.blk[b][k].name \in Names \cup {NoName}
    /\ fs.used \subseteq Blocks
    /\ fs.hint \in 0 .. NBlocks
    /\ fs.freeB \in 0 .. NBlocks /\ fs.freeI \in 0 .. NInodes
    /\ shadow \in [Inodes -> Seq({0, 1, 2})]

\* format_and_new: an empty root in inode 0.
TreeInit ==
    /\ fs = [ino |-> [i \in Inodes |-> IF i = 0 THEN NewInode("dir")
                                       ELSE [NewInode("free") EXCEPT !.nlink = 0]],
             blk |-> [b \in Blocks |-> ZeroBlock],
             used |-> {}, hint |-> 0, freeB |-> NBlocks, freeI |-> NInodes - 1]
    /\ shadow = [i \in Inodes |-> <<>>]
    /\ owner = [i \in Inodes |-> 0]

-------------------------------------------------------------------------------
(* The allocator and the block map.  s is an image; a walk                 *)
(* w = [ok, s, di, b] carries the image, the inode being edited and the    *)
(* last block found, until a step fails.                                   *)

\* alloc_block's choice, none or one: from the hint to the end, then from 0.
FirstFree(s) ==
    LET start == Min({s.hint, NBlocks - 1})
        clear == {x \in 0 .. NBlocks - 1 : x + 1 \notin s.used}
        ahead == {x \in clear : x >= start}
    IN IF s.freeB = 0 \/ clear = {} THEN {}
       ELSE {IF ahead # {} THEN Min(ahead) ELSE Min(clear)}

\* alloc_zeroed_block
Taken(w, found) ==
    IF found = {} THEN [w EXCEPT !.ok = FALSE]
    ELSE LET x == CHOOSE y \in found : TRUE IN
         [w EXCEPT !.b = x + 1, !.s.used = @ \cup {x + 1}, !.s.hint = x + 1,
                   !.s.freeB = @ - 1, !.s.blk[x + 1] = ZeroBlock]
AllocZeroed(w) == Taken(w, FirstFree(w.s))

FreeBlock(s, b) ==
    IF b = 0 THEN s
    ELSE [s EXCEPT !.used = @ \ {b}, !.freeB = @ + 1, !.hint = Min({@, b - 1})]

Freed(s, bs) == FoldLeft(FreeBlock, s, bs)

\* read_pointer, read_data_block: block 0 reads as zeros.
Pointer(s, b, k) == IF b = 0 THEN 0 ELSE s.blk[b][k].n
Pointers(s, b, from) == [k \in 1 .. Slots - from |-> Pointer(s, b, from + k - 1)]

MapBlock(s, di, i) ==
    LET j == i - Direct
        m == j - Slots
    IN IF i < Direct THEN di.direct[i]
       ELSE IF j < Slots THEN Pointer(s, di.ind, j)
       ELSE Pointer(s, Pointer(s, di.dind, m \div Slots), m % Slots)

\* One level of map_block_alloc: take the pointer there is, or allocate and link.
Linked(a, Link(_)) == IF a.ok THEN Link(a) ELSE a
Ensure(w, there, Link(_)) ==
    IF ~w.ok THEN w
    ELSE IF there # 0 THEN [w EXCEPT !.b = there]
    ELSE Linked(AllocZeroed(w), Link)

MapBlockAlloc(w, i) ==
    LET j == i - Direct
        m == j - Slots
        slot(p, k) == Ensure(p, Pointer(p.s, p.b, k), LAMBDA a : [a EXCEPT !.s.blk[p.b][k].n = a.b])
    IN IF i >= MaxFileBlocks THEN [w EXCEPT !.ok = FALSE]
       ELSE IF i < Direct THEN
            Ensure(w, w.di.direct[i], LAMBDA a : [a EXCEPT !.di.direct[i] = a.b])
       ELSE IF j < Slots THEN
            slot(Ensure(w, w.di.ind, LAMBDA a : [a EXCEPT !.di.ind = a.b]), j)
       ELSE slot(slot(Ensure(w, w.di.dind, LAMBDA a : [a EXCEPT !.di.dind = a.b]),
                      m \div Slots), m % Slots)

\* Every block an inode owns, pointer blocks included, in owned_blocks' order.
OwnedBlocks(s, di) ==
    LET under(b) == <<b>> \o Pointers(s, b, 0)
        all == [k \in 1 .. Direct |-> di.direct[k - 1]] \o under(di.ind) \o <<di.dind>>
               \o FlattenSeq([k \in 1 .. Slots |-> under(Pointer(s, di.dind, k - 1))])
    IN SelectSeq(all, LAMBDA b : b # 0)

\* free_pointer_block_from
ClearFrom(s, p, from) ==
    [Freed(s, Pointers(s, p, from)) EXCEPT
       !.blk[p] = [k \in Idx |-> IF k >= from /\ @[k].n # 0 THEN [@[k] EXCEPT !.n = 0] ELSE @[k]]]

\* The levels of free_blocks_from: each clears the pointers from keep on, and a
\* pointer block that is left empty goes too.
CutBlock(s, p, keep) ==
    IF p = 0 THEN s
    ELSE IF keep = 0 THEN FreeBlock(ClearFrom(s, p, 0), p) ELSE ClearFrom(s, p, keep)

CutLevel(s, dind, k, keep) ==
    IF Pointer(s, dind, k) = 0 \/ keep > 0 THEN CutBlock(s, Pointer(s, dind, k), keep)
    ELSE [CutBlock(s, Pointer(s, dind, k), 0) EXCEPT !.blk[dind][k].n = 0]

CutDouble(s, dind, keep) ==
    LET edge == keep \div Slots
        level(t, k) == CutLevel(t, dind, k, IF k = edge THEN keep % Slots ELSE 0)
        cut == FoldLeft(level, s, [k \in 1 .. Slots - edge |-> edge + k - 1])
    IN IF dind = 0 THEN s ELSE IF keep = 0 THEN FreeBlock(cut, dind) ELSE cut

FreeBlocksFrom(s, di, keep) ==
    LET clamp(n, top) == Max({0, Min({n, top})})
        gone == {i \in 0 .. Direct - 1 : i >= keep}
        kInd == clamp(keep - Direct, Slots)
        kDbl == clamp(keep - Direct - Slots, Slots * Slots)
        direct == Freed(s, [k \in 1 .. Direct |-> IF k - 1 \in gone THEN di.direct[k - 1] ELSE 0])
    IN [ok |-> TRUE, s |-> CutDouble(CutBlock(direct, di.ind, kInd), di.dind, kDbl), b |-> 0,
        di |-> [di EXCEPT !.direct = [i \in DOMAIN @ |-> IF i \in gone THEN 0 ELSE @[i]],
                          !.ind = IF kInd = 0 THEN 0 ELSE @,
                          !.dind = IF kDbl = 0 THEN 0 ELSE @]]


-------------------------------------------------------------------------------
(* Inodes and directory entries. *)

Walk(s, di) == [ok |-> TRUE, s |-> s, di |-> di, b |-> 0]
Failed(w) == [w EXCEPT !.ok = FALSE]
\* write_inode of the inode the walk edits.
Stored(w, i) == IF w.ok THEN [w EXCEPT !.s.ino[i] = w.di] ELSE w

IsType(s, i, t) == s.ino[i].itype = t
DirEntry(s, d, e) == LET b == MapBlock(s, s.ino[d], e \div Slots) IN s.blk[b][e % Slots]
Entries(s, d) == {DirEntry(s, d, e) : e \in 0 .. s.ino[d].count - 1}
\* dir_lookup, dir_remove_entry: the first entry with the name.
Places(s, d, n) == {e \in 0 .. s.ino[d].count - 1 : DirEntry(s, d, e).name = n}
Has(s, d, n) == Places(s, d, n) # {}
Lookup(s, d, n) == DirEntry(s, d, Min(Places(s, d, n))).n

PutEntry(m, d, i, n) ==
    IF ~m.ok THEN m
    ELSE Stored([m EXCEPT !.s.blk[m.b][m.di.count % Slots] = [n |-> i, name |-> n], !.di.count = @ + 1], d)

DirAddEntry(w, d, i, n) ==
    IF ~w.ok THEN w
    ELSE PutEntry(MapBlockAlloc([w EXCEPT !.di = w.s.ino[d]], w.s.ino[d].count \div Slots), d, i, n)

\* The last entry takes the removed one's place; no block is freed.
RemoveSlot(s, d, at) ==
    LET last == s.ino[d].count - 1
        b == MapBlock(s, s.ino[d], at \div Slots)
        moved == [s EXCEPT !.blk[b][at % Slots] = DirEntry(s, d, last)]
    IN [(IF at < last THEN moved ELSE s) EXCEPT !.ino[d].count = last]
DirRemoveEntry(s, d, n) == RemoveSlot(s, d, Min(Places(s, d, n)))

FreeInode(s, i) ==
    LET di == s.ino[i] IN
    [Freed(s, OwnedBlocks(s, di)) EXCEPT
       !.ino[i] = [NewInode("free") EXCEPT !.nlink = di.nlink, !.gid = di.gid],
       !.freeI = @ + 1]

MutReleaseIgnoresLinks(s, i) == FreeInode(s, i)

\* What unlink and rename do with an inode that lost a name.
Release(s, i) ==
    IF IsType(s, i, "dir") \/ s.ino[i].nlink <= 1 THEN FreeInode(s, i)
    ELSE [s EXCEPT !.ino[i].nlink = @ - 1]

\* is_below: the directories reached from top.
IsBelow(s, top, d) ==
    LET kids(S) == UNION {{e.n : e \in Entries(s, x)} : x \in S}
        reach[k \in Inodes] ==
            IF k = 0 THEN {top}
            ELSE reach[k - 1] \cup {x \in kids(reach[k - 1]) : IsType(s, x, "dir")}
    IN d \in kids(reach[NInodes - 1])

-------------------------------------------------------------------------------
(* Operations *)

\* transaction: on failure only the hint keeps what the operation did.
Transaction(w) == fs' = IF w.ok THEN w.s ELSE [fs EXCEPT !.hint = w.s.hint]

CreateEntry(d, n, t) ==
    LET free == {i \in Inodes \ {0} : IsType(fs, i, "free")}
        i == Min(free)
        s == [fs EXCEPT !.freeI = @ - 1, !.ino[i] = NewInode(t)]
    IN
    /\ IsType(fs, d, "dir")
    /\ ~Has(fs, d, n)
    /\ fs.freeI > 0 /\ free # {}
    /\ \E w \in {DirAddEntry(Walk(s, fs.ino[d]), d, i, n)} :
         /\ Transaction(w)
         /\ shadow' = IF w.ok THEN [shadow EXCEPT ![i] = <<>>] ELSE shadow
         /\ owner' = IF w.ok THEN [owner EXCEPT ![i] = 0] ELSE owner

Unlink(d, n) ==
    /\ IsType(fs, d, "dir")
    /\ Has(fs, d, n)
    /\ \E i \in {Lookup(fs, d, n)} :
         /\ IsType(fs, i, "dir") => fs.ino[i].count = 0
         /\ fs' = Release(DirRemoveEntry(fs, d, n), i)
    /\ UNCHANGED <<shadow, owner>>

Link(d, n, i) ==
    /\ IsType(fs, d, "dir")
    /\ ~Has(fs, d, n)
    /\ IsType(fs, i, "file")
    /\ \E w \in {DirAddEntry(Walk(fs, fs.ino[d]), d, i, n)} :
         Transaction(IF w.ok THEN [w EXCEPT !.s.ino[i].nlink = @ + 1] ELSE w)
    /\ UNCHANGED <<shadow, owner>>

\* The entry that is there is replaced, if the types allow it.
MayReplace(src, dst) ==
    /\ dst # src
    /\ IsType(fs, src, "dir") <=> IsType(fs, dst, "dir")
    /\ IsType(fs, dst, "dir") => fs.ino[dst].count = 0

Rename(od, on, nd, nn) ==
    /\ IsType(fs, od, "dir") /\ IsType(fs, nd, "dir")
    /\ Has(fs, od, on)
    /\ \E src \in {Lookup(fs, od, on)}, there \in {{DirEntry(fs, nd, e).n : e \in Places(fs, nd, nn)}} :
         /\ \A dst \in there : MayReplace(src, dst)
         /\ IsType(fs, src, "dir") /\ od # nd => nd # src /\ ~IsBelow(fs, src, nd)
         /\ \E s \in {IF there = {} THEN fs ELSE Release(DirRemoveEntry(fs, nd, nn), Lookup(fs, nd, nn))} :
            \E w \in {DirAddEntry(Walk(s, s.ino[nd]), nd, src, nn)} :
              Transaction(IF w.ok THEN [w EXCEPT !.s = DirRemoveEntry(@, od, on)] ELSE w)
    /\ UNCHANGED <<shadow, owner>>

Ceil(n) == (n + Slots - 1) \div Slots
Resized(data, n) == [k \in 1 .. n |-> IF k <= Len(data) THEN data[k] ELSE 0]
\* map_block_alloc over a range of logical blocks.
Extended(w, from, to) == FoldLeft(MapBlockAlloc, w, [k \in 1 .. to - from |-> from + k - 1])

MutZeroTail(w, len, last) == w

\* The tail of the last block that is kept is cleared.
ZeroTail(w, len, last) ==
    IF len % Slots = 0 \/ last = 0 THEN w
    ELSE [w EXCEPT !.s.blk[last] = [k \in Idx |-> IF k >= len % Slots THEN Zero ELSE @[k]]]
Shortened(w, len) == ZeroTail(w, len, MapBlock(w.s, w.di, Ceil(len) - 1))

TruncateFile(i, len) ==
    LET di == fs.ino[i]
        keep == Ceil(len)
    IN
    /\ IsType(fs, i, "file")
    /\ len # di.size
    /\ \E w \in {IF len >= di.size THEN Extended(Walk(fs, di), di.size \div Slots, keep)
                 ELSE Shortened(FreeBlocksFrom(fs, di, keep), len)} :
         /\ Transaction(Stored([w EXCEPT !.di.size = len], i))
         /\ shadow' = IF w.ok /\ shadow[i] # Torn THEN [shadow EXCEPT ![i] = Resized(@, len)] ELSE shadow
    /\ UNCHANGED owner

\* The data loop of write_file, for the bytes of at.
Filled(s, di, at) ==
    [s EXCEPT !.blk = [b \in Blocks |-> [k \in Idx |->
        IF \E p \in at : MapBlock(s, di, p \div Slots) = b /\ p % Slots = k
        THEN [Zero EXCEPT !.n = 1] ELSE s.blk[b][k]]]]

\* write_file of n ones at off: blocks in one transaction, data, size in another.
WriteFile(i, off, n) ==
    LET end == off + n
        at == off .. end - 1
    IN
    /\ IsType(fs, i, "file")
    /\ \E w \in {Stored(Extended(Walk(fs, fs.ino[i]), fs.ino[i].size \div Slots, Ceil(end)), i)} :
         /\ Transaction(IF ~w.ok THEN w
              ELSE [w EXCEPT !.s = [Filled(w.s, w.di, at) EXCEPT !.ino[i].size = Max({@, end})]])
         /\ shadow' = IF ~w.ok \/ shadow[i] = Torn THEN shadow
                      ELSE [shadow EXCEPT ![i] = [k \in 1 .. Max({Len(@), end}) |->
                             IF k - 1 \in at THEN 1 ELSE IF k <= Len(@) THEN @[k] ELSE 0]]
    /\ UNCHANGED owner

\* The machine goes down after the first transaction; some of the data, none
\* of the size, reached the disk.
TornWrite(i, off, n) ==
    LET di == fs.ino[i] IN
    /\ TornWrites
    /\ IsType(fs, i, "file")
    /\ off >= di.size
    /\ \E w \in {Stored(Extended(Walk(fs, di), di.size \div Slots, Ceil(off + n)), i)} :
         /\ w.ok
         /\ \E at \in SUBSET (off .. off + n - 1) :
              fs' = [Filled(w.s, w.di, at) EXCEPT !.hint = 0]
    /\ shadow' = [shadow EXCEPT ![i] = Torn]
    /\ UNCHANGED owner

\* inode_to_bytes puts gid in bytes 14 to 17 and then direct[0] in 16 to 19, so
\* inode_from_bytes reads gid's high half from direct[0].
GidBase == 65536
InodeGid(di) == (di.gid % GidBase) + GidBase * (di.direct[0] % GidBase)

SetMetadata(i, g) ==
    /\ ~IsType(fs, i, "free")
    /\ fs' = [fs EXCEPT !.ino[i].gid = g]
    /\ owner' = [owner EXCEPT ![i] = g]
    /\ UNCHANGED shadow

\* A remount (open): the hint starts over.
Remount ==
    /\ fs' = [fs EXCEPT !.hint = 0]
    /\ UNCHANGED <<shadow, owner>>

TreeNext ==
    \/ \E d \in Inodes, n \in Names :
         \/ \E t \in {"file", "dir"} : CreateEntry(d, n, t)
         \/ Unlink(d, n)
         \/ \E i \in Inodes : Link(d, n, i)
         \/ \E nd \in Inodes, nn \in Names : Rename(d, n, nd, nn)
    \/ \E i \in Inodes :
         \/ \E len \in Lengths : TruncateFile(i, len)
         \/ \E r \in Writes : WriteFile(i, r[1], r[2]) \/ TornWrite(i, r[1], r[2])
         \/ \E g \in Gids : SetMetadata(i, g)
    \/ Remount

TreeSpec == TreeInit /\ [][TreeNext]_treeVars

-------------------------------------------------------------------------------
(* check(), the boot-time consistency report *)

Live(s) == {i \in Inodes : ~IsType(s, i, "free")}
\* refs: how often b occurs in the block maps of live inodes.
Refs(s, b) == MapThenSumSet(LAMBDA i : Cardinality({k \in DOMAIN OwnedBlocks(s, s.ino[i]) :
                                                      OwnedBlocks(s, s.ino[i])[k] = b}), Live(s))
Check(s) ==
    [leaked    |-> Cardinality({b \in s.used : Refs(s, b) = 0}),
     unmarked  |-> Cardinality({b \in Blocks \ s.used : Refs(s, b) > 0}),
     doubly    |-> Cardinality({b \in Blocks : Refs(s, b) > 1}),
     dangling  |-> Cardinality({<<d, e>> \in {x \in Live(s) : IsType(s, x, "dir")} \X (0 .. Slots * MaxFileBlocks) :
                     e < s.ino[d].count /\ IsType(s, DirEntry(s, d, e).n, "free")}),
     drift     |-> NBlocks - s.freeB - Cardinality(s.used)]
Clean(r) == \A f \in DOMAIN r : r[f] = 0

-------------------------------------------------------------------------------
(* Properties *)

\* Whatever sequence of creates, links, renames, truncates, writes and failures
\* for want of space: fsck (check) stays clean.  No block is leaked, owned
\* twice, or owned while the bitmap calls it free; no entry names a free inode;
\* the superblock's count agrees with the bitmap.
FsckClean == Clean(Check(fs))

\* nlink counts the names of a file, a directory has one name, names are
\* unique, every live inode is reached from the root, and free_inodes counts
\* the free ones (unlink, link, rename with replacement).
TreeShape ==
    LET dirs == {d \in Live(fs) : IsType(fs, d, "dir")}
        named(i) == {<<d, n>> \in dirs \X Names : Has(fs, d, n) /\ Lookup(fs, d, n) = i}
    IN
    /\ \A d \in dirs : Cardinality({e.name : e \in Entries(fs, d)}) = fs.ino[d].count
    /\ \A i \in Live(fs) \ {0} :
         /\ Cardinality(named(i)) = IF i \in dirs THEN 1 ELSE fs.ino[i].nlink
         /\ IsBelow(fs, 0, i)
    /\ fs.freeI = Cardinality(Inodes \ Live(fs))

\* A file reads back as an ideal byte array would (read_file through the block
\* map): no byte of a truncated tail, of a reused block or of another file
\* shows up, and a file grown by truncate or by a write past its end reads
\* zeros in between.  After a crash inside write_file the bytes past the old
\* end may be "visible garbage at worst", so a torn file is left out.
ReadFile(s, i) ==
    [k \in 1 .. s.ino[i].size |->
       Pointer(s, MapBlock(s, s.ino[i], (k - 1) \div Slots), (k - 1) % Slots)]
FileContents == \A i \in Live(fs) : IsType(fs, i, "file") /\ shadow[i] # Torn => ReadFile(fs, i) = shadow[i]

\* alloc_block finds a block whenever the superblock says there is one: the
\* in-memory hint never hides a freed block.
AllocFinds == fs.freeB > 0 => FirstFree(fs) # {}

\* The group set_inode_metadata was given is the group inode_metadata returns.
GroupKept == \A i \in Live(fs) : InodeGid(fs.ino[i]) = owner[i]

===============================================================================
