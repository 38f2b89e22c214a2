--------------------------------- MODULE Fat32 ---------------------------------
(***************************************************************************)
(* The FAT32 driver (kernel/src/vfs/fat32.rs): the file allocation table,  *)
(* cluster chains, directory slots, and the caches kept in memory for the  *)
(* size and the parent directory of a file.  There is no journal: each     *)
(* operation is a sequence of sector writes, and the machine may go down   *)
(* after any of them.                                                      *)
(*                                                                         *)
(* Sizes are scaled: a cluster is one sector of Slots directory entries,   *)
(* or of Slots bytes.  The bytes of a file are left out: the properties    *)
(* are about the table, the directories and the sizes.                     *)
(***************************************************************************)
EXTENDS Integers, Sequences, SequencesExt, FiniteSets, FiniteSetsExt

CONSTANTS
    NClusters,      \* total_clusters
    Slots,          \* cells of a cluster
    Names,          \* component names, in 8.3 form
    Offsets,        \* where bytes are written
    Lengths,        \* lengths given to truncate
    MaxMap,         \* bound on the length of parent_map
    PowerCuts,      \* the machine may go down inside an operation
    FormatSectors   \* device sizes format_fat32 is given

VARIABLES
    disk,       \* [fat, cell]: the table and the data area
    sizes,      \* sizes[c]: cached_size of the open file at c, or Closed
    parents,    \* parent_map
    down        \* the machine went down

fatVars == <<disk, sizes, parents, down>>

Root == 2
Clusters == 2 .. NClusters + 1
Free == 0
Eoc == -1
Closed == -1
Idx == 0 .. Slots - 1

Zero == [st |-> "zero", name |-> "", c |-> 0, n |-> 0]
Entry(nm, st, c, n) == [st |-> st, name |-> nm, c |-> c, n |-> n]

Sizes == Lengths \cup {o + 1 : o \in Offsets}

IsOpen == {c \in Clusters : sizes[c] # Closed}

FatTypeOK ==
    /\ disk.fat \in [Clusters -> Clusters \cup {Free, Eoc}]
    /\ \A c \in Clusters, i \in Idx :
         LET e == disk.cell[c][i] IN
         /\ e.st \in {"zero", "free", "file", "dir"}
         /\ e.c \in Clusters \cup {0}
         /\ e.n \in {0} \cup Sizes
    /\ sizes \in [Clusters -> {Closed, 0} \cup Sizes]
    /\ parents \in Seq(Clusters \X Clusters) /\ Len(parents) <= MaxMap
    /\ down \in BOOLEAN

\* format_fat32, then Fat32Fs::new.
FatInit ==
    /\ disk = [fat |-> [c \in Clusters |-> IF c = Root THEN Eoc ELSE Free],
               cell |-> [c \in Clusters |-> [i \in Idx |-> Zero]]]
    /\ sizes = [c \in Clusters |-> Closed]
    /\ parents = <<>>
    /\ down = FALSE

-------------------------------------------------------------------------------
(* Sector writes.  A walk w = [ok, d, log, c] carries the image, the       *)
(* images after each write so far and the last cluster found.              *)

Begin == [ok |-> TRUE, d |-> disk, log |-> {disk}, c |-> 0]
Wrote(w, d) == [w EXCEPT !.d = d, !.log = @ \cup {d}]
\* write_fat_entry
WriteFat(w, c, v) == Wrote(w, [w.d EXCEPT !.fat[c] = v])
\* write_dir_entry, write_sector
WriteCell(w, at, e) == Wrote(w, [w.d EXCEPT !.cell[at[1]][at[2]] = e])

\* alloc_cluster: the lowest free one, ended and zeroed.
AllocCluster(w) ==
    LET free == {c \in Clusters : w.d.fat[c] = Free}
        c == Min(free)
        marked == WriteFat(w, c, Eoc)
    IN IF free = {} THEN [w EXCEPT !.ok = FALSE]
       ELSE [Wrote(marked, [marked.d EXCEPT !.cell[c] = [i \in Idx |-> Zero]]) EXCEPT !.c = c]

\* The clusters from c on, as read_chain, write_chain and the scans follow them.
Chain(d, c) ==
    LET walk[k \in 1 .. NClusters] ==
            IF k = 1 THEN <<c>>
            ELSE LET p == walk[k - 1]
                     next == d.fat[p[Len(p)]]
                 IN IF Len(p) = k - 1 /\ next \in Clusters THEN Append(p, next) ELSE p
    IN walk[NClusters]

\* free_chain
FreeChain(w, c) == FoldLeft(LAMBDA v, x : WriteFat(v, x, Free), w, Chain(w.d, c))

\* The last cluster cut_chain keeps: the head always stays.
LastKept(d, head, len) ==
    LET ch == Chain(d, head) IN ch[Min({Max({1, (len + Slots - 1) \div Slots}), Len(ch)})]

MutCutFreesFirst(w, head, len) ==
    LET last == LastKept(w.d, head, len)
        tail == w.d.fat[last]
    IN WriteFat(IF tail \in Clusters THEN FreeChain(w, tail) ELSE w, last, Eoc)

\* cut_chain: the chain is ended before the rest of it is freed.
CutChain(w, head, len) ==
    LET last == LastKept(w.d, head, len)
        tail == w.d.fat[last]
        ended == WriteFat(w, last, Eoc)
    IN IF tail \in Clusters THEN FreeChain(ended, tail) ELSE ended

\* write_chain up to offset off: the chain is extended cluster by cluster.
WriteChain(w, head, off) ==
    LET need == off \div Slots + 1
        grow(x, k) ==
            LET ch == Chain(x.d, head)
                a == AllocCluster(x)
            IN IF ~x.ok \/ Len(ch) >= need THEN x
               ELSE IF a.ok THEN WriteFat(a, ch[Len(ch)], a.c)
               ELSE a
    IN FoldLeft(grow, w, [k \in 1 .. need |-> k])

-------------------------------------------------------------------------------
(* Directory slots. *)

\* All slots of directory d, in order; a scan ends at the first zero byte.
SlotsOf(img, d) ==
    LET ch == Chain(img, d) IN
    [j \in 1 .. Len(ch) * Slots |-> <<ch[(j - 1) \div Slots + 1], (j - 1) % Slots>>]
At(img, s) == img.cell[s[1]][s[2]]
Scanned(img, d) ==
    LET all == SlotsOf(img, d)
        ends == {k \in DOMAIN all : At(img, all[k]).st = "zero"}
    IN SubSeq(all, 1, IF ends = {} THEN Len(all) ELSE Min(ends) - 1)

\* find_dir_entry: the slots with a live entry called n, first one first.
Hits(img, d, n) == SelectSeq(Scanned(img, d), LAMBDA s : At(img, s).st # "free" /\ At(img, s).name = n)
Has(img, d, n) == Hits(img, d, n) # <<>>
SlotAt(img, d, n) == Hits(img, d, n)[1]
Found(img, d, n) == At(img, SlotAt(img, d, n))
Special == {".", ".."}
Entries(img, d) ==
    {At(img, s) : s \in {x \in Range(Scanned(img, d)) : At(img, x).st # "free" /\ At(img, x).name \notin Special}}
Empty(img, d) == Entries(img, d) = {}

\* find_or_alloc_dir_slot, then write_dir_entry of e.
AddAt(w, ch, all, e) ==
    LET avail == {k \in DOMAIN all : At(w.d, all[k]).st \in {"zero", "free"}}
        grown(a) == IF ~a.ok THEN a ELSE WriteCell(WriteFat(a, ch[Len(ch)], a.c), <<a.c, 0>>, e)
    IN IF avail # {} THEN WriteCell(w, all[Min(avail)], e) ELSE grown(AllocCluster(w))
AddEntry(w, d, e) == IF ~w.ok THEN w ELSE AddAt(w, Chain(w.d, d), SlotsOf(w.d, d), e)

MarkFree(w, s) == WriteCell(w, s, [Zero EXCEPT !.st = "free"])

\* The directories, with their parents, and the lookups a path to d makes.
SubDirs(img, d) == {e.c : e \in {x \in Entries(img, d) : x.st = "dir"}}
Dirs(img) ==
    LET reach[k \in 1 .. NClusters] ==
            IF k = 1 THEN {Root}
            ELSE LET r == reach[k - 1] IN r \cup UNION {SubDirs(img, d) : d \in r}
    IN reach[NClusters]
PathTo(img, d) ==
    LET up[k \in 0 .. NClusters] ==
            IF k = 0 THEN <<d>>
            ELSE LET p == up[k - 1] IN
                 IF p[1] = Root THEN p
                 ELSE <<CHOOSE x \in Dirs(img) : p[1] \in SubDirs(img, x)>> \o p
    IN up[NClusters]
IsBelow(img, top, d) == top # d /\ top \in Range(PathTo(img, d))

-------------------------------------------------------------------------------
(* The caches. *)

\* remember_parent.  The entries are pairs of parent and child, and the scan
\* compares the child with the first of the pair: it finds an entry that
\* records p's own child c as a parent, and overwrites that entry's child.
\* At the bound of the model the list stops growing.
Remember(m, p, c) ==
    LET hit == {k \in DOMAIN m : m[k][1] = c} IN
    IF hit # {} THEN [m EXCEPT ![Min(hit)][2] = p]
    ELSE IF Len(m) < MaxMap THEN Append(m, <<p, c>>)
    ELSE m

\* get_parent
ParentOf(m, c) ==
    LET hit == {k \in DOMAIN m : m[k][2] = c} IN IF hit = {} THEN 0 ELSE m[Min(hit)][1]

\* The walk from the root to directory d (lookup_in_dir of every component).
Walked(m, d) ==
    LET p == PathTo(disk, d) IN
    FoldLeft(LAMBDA x, k : Remember(x, p[k], p[k + 1]), m, [k \in 1 .. Len(p) - 1 |-> k])

Recorded(m, ok, p, c) == IF ok THEN Remember(m, p, c) ELSE m

\* An operation that ends, or is cut short after any of its writes.
Done(w) == disk' = w.d /\ down' = FALSE
Cut(w) == PowerCuts /\ disk' \in w.log /\ down' = TRUE
Ready == ~down

-------------------------------------------------------------------------------
(* Operations.  A failed one keeps what it has written. *)

\* create_file: the first cluster is taken before the directory slot.
CreateFile(d, n) ==
    LET a == AllocCluster(Begin)
        w == IF a.ok THEN AddEntry(a, d, Entry(n, "file", a.c, 0)) ELSE a
    IN
    /\ Ready /\ ~Has(disk, d, n)
    /\ \E r \in {[a |-> a, w |-> w]} :
       \/ /\ Done(r.w)
          /\ parents' = Recorded(Walked(parents, d), r.w.ok, d, r.a.c)
          /\ sizes' = IF r.w.ok THEN [sizes EXCEPT ![r.a.c] = 0] ELSE sizes
       \/ Cut(r.w) /\ UNCHANGED <<parents, sizes>>

\* create_dir: "." and ".." are written before the directory has a name.
CreateDir(d, n) ==
    LET a == AllocCluster(Begin)
        dot == WriteCell(a, <<a.c, 0>>, Entry(".", "dir", a.c, 0))
        dotdot == WriteCell(dot, <<a.c, 1>>, Entry("..", "dir", IF d = Root THEN 0 ELSE d, 0))
        w == IF a.ok THEN AddEntry(dotdot, d, Entry(n, "dir", a.c, 0)) ELSE a
    IN
    /\ Ready /\ ~Has(disk, d, n)
    /\ \E r \in {[a |-> a, w |-> w]} :
       \/ Done(r.w) /\ parents' = Recorded(Walked(parents, d), r.w.ok, d, r.a.c)
       \/ Cut(r.w) /\ UNCHANGED parents
    /\ UNCHANGED sizes

\* unlink: the entry goes before the chain.
Unlinked(w, d, n) ==
    FreeChain(MarkFree(w, SlotAt(w.d, d, n)), Found(w.d, d, n).c)

\* A file that is open is not removed here: the driver has no record of its
\* handles, see the README.
Removable(e) == IF e.st = "dir" THEN Empty(disk, e.c) ELSE e.c \notin IsOpen

Unlink(d, n) ==
    /\ Ready /\ Has(disk, d, n)
    /\ Removable(Found(disk, d, n))
    /\ \E w \in {Unlinked(Begin, d, n)} :
       \/ Done(w) /\ parents' = Walked(parents, d)
       \/ Cut(w) /\ UNCHANGED parents
    /\ UNCHANGED sizes

MutRenameFreesFirst(w, od, on, nd, nn) ==
    AddEntry(MarkFree(w, SlotAt(w.d, od, on)), nd, [Found(w.d, od, on) EXCEPT !.name = nn])

\* rename once the target is gone: in place, or the new entry and then the old.
DropOld(new, s, e, nd) ==
    LET old == MarkFree(new, s) IN
    IF ~new.ok THEN new
    ELSE IF e.st = "dir"
    THEN WriteCell(old, <<e.c, 1>>, Entry("..", "dir", IF nd = Root THEN 0 ELSE nd, 0))
    ELSE old
MovedFrom(w, s, e, od, nd, nn) ==
    IF od = nd THEN WriteCell(w, s, [e EXCEPT !.name = nn])
    ELSE DropOld(AddEntry(w, nd, [e EXCEPT !.name = nn]), s, e, nd)
Moved(w, od, on, nd, nn) == MovedFrom(w, SlotAt(w.d, od, on), Found(w.d, od, on), od, nd, nn)

Rename(od, on, nd, nn) ==
    /\ Ready /\ Has(disk, od, on)
    /\ \E src \in {Found(disk, od, on)}, there \in {{At(disk, s) : s \in Range(Hits(disk, nd, nn))}} :
         /\ \A dst \in there : dst.c # src.c /\ dst.st = src.st /\ Removable(dst)
         /\ src.st = "dir" /\ od # nd => nd # src.c /\ ~IsBelow(disk, src.c, nd)
         /\ \E w \in {Moved(IF there = {} THEN Begin ELSE Unlinked(Begin, nd, nn), od, on, nd, nn)} :
            \/ /\ Done(w)
               /\ parents' = Recorded(Walked(Walked(parents, od), nd), od # nd /\ w.ok, nd, src.c)
            \/ Cut(w) /\ UNCHANGED parents
    /\ UNCHANGED sizes

\* sys_open of a file: lookup_in_dir refreshes its size from the entry.
Open(d, n) ==
    LET e == Found(disk, d, n) IN
    /\ Ready /\ Has(disk, d, n)
    /\ e.st = "file"
    /\ sizes' = [sizes EXCEPT ![e.c] = e.n]
    /\ parents' = Remember(Walked(parents, d), d, e.c)
    /\ UNCHANGED <<disk, down>>

Close(c) ==
    /\ Ready /\ c \in IsOpen
    /\ sizes' = [sizes EXCEPT ![c] = Closed]
    /\ UNCHANGED <<disk, parents, down>>

\* update_dir_entry_size in the directory get_parent names, if any.
WithSize(w, c, n) ==
    LET p == ParentOf(parents, c)
        hits == SelectSeq(Scanned(w.d, p), LAMBDA s : At(w.d, s).st # "free" /\ At(w.d, s).c = c)
    IN IF p = 0 THEN w
       ELSE IF hits = <<>> THEN w
       ELSE WriteCell(w, hits[1], [At(w.d, hits[1]) EXCEPT !.n = n])

Finished(w, c, n) == IF w.ok THEN WithSize(w, c, n) ELSE w

\* FatInode::write of one byte.
Write(c, off) ==
    LET n == Max({off + 1, sizes[c]}) IN
    /\ Ready /\ c \in IsOpen
    /\ \E w \in {Finished(WriteChain(Begin, c, off), c, n)} :
       \/ Done(w) /\ sizes' = IF w.ok THEN [sizes EXCEPT ![c] = n] ELSE sizes
       \/ Cut(w) /\ UNCHANGED sizes
    /\ UNCHANGED parents

\* FatInode::truncate
Truncate(c, len) ==
    LET chain == IF len < sizes[c] THEN CutChain(Begin, c, len) ELSE WriteChain(Begin, c, len - 1) IN
    /\ Ready /\ c \in IsOpen /\ len # sizes[c]
    /\ \E w \in {Finished(chain, c, len)} :
       \/ Done(w) /\ sizes' = IF w.ok THEN [sizes EXCEPT ![c] = len] ELSE sizes
       \/ Cut(w) /\ UNCHANGED sizes
    /\ UNCHANGED parents

\* A mount of the same volume: the caches start empty.
Mount ==
    /\ Ready
    /\ sizes' = [c \in Clusters |-> Closed] /\ parents' = <<>>
    /\ UNCHANGED <<disk, down>>

FatNext ==
    \/ \E d \in Dirs(disk), n \in Names :
         \/ CreateFile(d, n)
         \/ CreateDir(d, n)
         \/ Unlink(d, n)
         \/ Open(d, n)
         \/ \E nd \in Dirs(disk), nn \in Names : Rename(d, n, nd, nn)
    \/ \E c \in Clusters :
         \/ Close(c)
         \/ \E off \in Offsets : Write(c, off)
         \/ \E len \in Lengths : Truncate(c, len)
    \/ Mount

FatSpec == FatInit /\ [][FatNext]_fatVars

-------------------------------------------------------------------------------
(* format_fat32: the table is sized until it covers the clusters left.     *)

SectorEntries == 128
ReservedSectors == 32
ClustersLeft(total, spf) == total - ReservedSectors - spf

NeededSectors(total, spf) == (ClustersLeft(total, spf) + 2 + SectorEntries - 1) \div SectorEntries

\* The loop; it leaves when the table is large enough.
FatSectors(total) ==
    LET size[k \in 0 .. 32] ==
            IF k = 0 THEN 1
            ELSE LET s == size[k - 1] IN Max({s, NeededSectors(total, s)})
    IN size[32]

-------------------------------------------------------------------------------
(* Properties *)

Named(img) == UNION {{<<d, e>> : e \in Entries(img, d)} : d \in Dirs(img)}

\* No order of operations, and no power cut between two sector writes, leaves
\* a named chain that runs through a free cluster or into another chain
\* (alloc_cluster, free_chain, cut_chain, unlink): what a cut can cost is
\* clusters that belong to nobody, and in rename a second name.
ChainsSound ==
    LET heads == {p[2].c : p \in Named(disk)} \cup {Root}
        chains == {<<h, Chain(disk, h)>> : h \in heads}
    IN
    /\ \A p \in chains : \A k \in DOMAIN p[2] :
         disk.fat[p[2][k]] = IF k = Len(p[2]) THEN Eoc ELSE p[2][k + 1]
    /\ \A p, q \in chains : p # q => Range(p[2]) \cap Range(q[2]) = {}

\* A file is never without a name (rename's promise: the new entry is on disk
\* before the old one is marked free): every file open for writing is in some
\* directory, whatever was renamed and wherever the power was cut.
NeverNameless == \A c \in IsOpen : \E p \in Named(disk) : p[2].c = c

\* Outside operations each directory and file has one name, names are unique
\* in a directory, and ".." of every directory names its parent
\* (create_dir, rename).
FatTree ==
    LET all == Named(disk) IN
    ~down =>
        /\ \A p, q \in all : p # q => p[2].c # q[2].c /\ (p[1] = q[1] => p[2].name # q[2].name)
        /\ \A p \in all : p[2].st = "dir" =>
             Found(disk, p[2].c, "..").c = IF p[1] = Root THEN 0 ELSE p[1]

\* The table format_fat32 settles on has an entry for every cluster of the
\* data area, the two reserved ones included, for every device size.
FormatCovers ==
    \A t \in FormatSectors : ClustersLeft(t, FatSectors(t)) + 2 <= FatSectors(t) * SectorEntries

\* What the comment on parent_map says: the entry to rewrite is found when a
\* file grows, so the size on disk is the size in the cache.
SizeOnDisk ==
    ~down => \A c \in IsOpen : \E p \in Named(disk) : p[2].c = c /\ p[2].n = sizes[c]

===============================================================================
