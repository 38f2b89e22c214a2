----------------------------- MODULE KernelHeap -----------------------------
(***************************************************************************)
(* The kernel heap (mm/heap.rs): a list of free blocks, first fit, blocks  *)
(* split at allocation and merged with their neighbours when freed, grown  *)
(* from contiguous frames.  Addresses and sizes are in units of 8 bytes,   *)
(* to which the code rounds every size; a block header takes two units.    *)
(* The heap lock makes alloc and dealloc atomic.                           *)
(***************************************************************************)
EXTENDS Integers, Sequences, FiniteSets, FiniteSetsExt

CONSTANTS
    Initial,        \* INITIAL_HEAP_SIZE, at address 0
    Grow,           \* the least the heap grows by, a multiple of the frame
    FrameUnits,     \* FRAME_SIZE
    MaxHeap,        \* MAX_HEAP_SIZE
    Extents,        \* where frames for growing can be had: set of addresses
    Sizes,          \* layout sizes, in units
    Aligns,         \* layout alignments, in units
    MaxLive         \* allocations at a time

MinBlock == 2       \* MIN_BLOCK_SIZE: size and next

ASSUME HeapAssumption ==
    /\ Initial \in Nat /\ Initial >= MinBlock
    /\ Grow \in Nat /\ Grow >= MinBlock
    /\ FrameUnits \in Nat \ {0}
    /\ MaxHeap \in Nat /\ Initial <= MaxHeap
    /\ Initial % FrameUnits = 0 /\ MaxHeap % FrameUnits = 0
    /\ Extents \subseteq Nat
    /\ Sizes \subseteq Nat
    /\ Aligns \subseteq Nat \ {0}
    /\ MaxLive \in Nat

VARIABLES
    list,       \* the free list: a sequence of [at, size]
    live,       \* allocations: [at, size, align]
    regions,    \* the ranges [at, size] the heap was made of
    heapSize    \* heap_size

heapVars == <<list, live, regions, heapSize>>

Block == [at : Nat, size : Nat]
End(b) == b.at + b.size

HeapInit ==
    /\ list = <<[at |-> 0, size |-> Initial]>>
    /\ live = {}
    /\ regions = {[at |-> 0, size |-> Initial]}
    /\ heapSize = Initial

(***************************************************************************)
(* insert_free_block                                                       *)
(***************************************************************************)
\* the position the block takes: after the blocks at lower addresses, up to
\* the first that is not
Position(blocks, b) ==
    1 + Max({0} \cup {i \in DOMAIN blocks : \A j \in 1 .. i : blocks[j].at < b.at})

\* the block at i swallows its successor when that starts where it ends
Coalesce(blocks, i) ==
    IF i >= 1 /\ i < Len(blocks) /\ End(blocks[i]) = blocks[i + 1].at
    THEN [j \in 1 .. Len(blocks) - 1 |->
            IF j < i THEN blocks[j]
            ELSE IF j = i THEN [at |-> blocks[i].at, size |-> blocks[i].size + blocks[i + 1].size]
            ELSE blocks[j + 1]]
    ELSE blocks

\* with the next block first, then with the previous one
MergeAt(blocks, i) == Coalesce(Coalesce(blocks, i), i - 1)

\* the list with b before the block at i, and without the block at i
Linked(blocks, i, b) == [j \in 1 .. Len(blocks) + 1 |->
    IF j < i THEN blocks[j] ELSE IF j = i THEN b ELSE blocks[j - 1]]
Unlinked(blocks, i) == [j \in 1 .. Len(blocks) - 1 |->
    IF j < i THEN blocks[j] ELSE blocks[j + 1]]

InsertFreeBlock(blocks, b) == MergeAt(Linked(blocks, Position(blocks, b), b), Position(blocks, b))

\* pieces smaller than a header are not kept
InsertIfRoom(blocks, b) == IF b.size >= MinBlock THEN InsertFreeBlock(blocks, b) ELSE blocks

(***************************************************************************)
(* alloc_inner and dealloc_inner                                           *)
(***************************************************************************)
Rounded(size) == IF size < MinBlock THEN MinBlock ELSE size
AlignUp(at, align) == ((at + align - 1) \div align) * align

\* where an allocation would start in block b, and whether it fits
Fits(b, size, align) == AlignUp(b.at, align) + size <= End(b)
FirstFit(blocks, size, align) == {i \in DOMAIN blocks :
    /\ Fits(blocks[i], size, align)
    /\ \A j \in 1 .. i - 1 : ~Fits(blocks[j], size, align)}

FrontPadding(b, align) == [at |-> b.at, size |-> AlignUp(b.at, align) - b.at]
Remainder(b, size, align) ==
    [at |-> AlignUp(b.at, align) + size, size |-> End(b) - AlignUp(b.at, align) - size]

\* the block leaves the list; what remains behind and in front goes back
Carved(blocks, i, size, align) ==
    InsertIfRoom(InsertIfRoom(Unlinked(blocks, i), Remainder(blocks[i], size, align)),
                 FrontPadding(blocks[i], align))

Carve(blocks, size, align) ==
    \E i \in FirstFit(blocks, size, align) :
      /\ list' = Carved(blocks, i, size, align)
      /\ live' = live \cup {[at |-> AlignUp(blocks[i].at, align), size |-> size, align |-> align]}

\* try_grow: at least Grow, in whole frames, from a run of free frames
GrowSize(size, align) == IF size + align > Grow THEN size + align ELSE Grow
Grown(size, align) == AlignUp(GrowSize(size, align), FrameUnits)

Room(at, n) == \A r \in regions : at + n <= r.at \/ End(r) <= at

Alloc(size, align) ==
    /\ Cardinality(live) < MaxLive
    /\ FirstFit(list, Rounded(size), align) # {}
    /\ Carve(list, Rounded(size), align)
    /\ UNCHANGED <<regions, heapSize>>

\* no block fits: grow, then allocate from the grown list
MutGrowAndAlloc(size, align) ==
    /\ Cardinality(live) < MaxLive
    /\ FirstFit(list, Rounded(size), align) = {}
    /\ heapSize + GrowSize(Rounded(size), align) <= MaxHeap
    /\ \E at \in Extents :
         /\ Room(at, Grown(Rounded(size), align))
         /\ LET b == [at |-> at, size |-> Grown(Rounded(size), align)]
            IN  /\ Carve(InsertFreeBlock(list, b), Rounded(size), align)
                /\ regions' = regions \cup {b}
                /\ heapSize' = heapSize + GrowSize(Rounded(size), align)

GrowAndAlloc(size, align) ==
    /\ Cardinality(live) < MaxLive
    /\ FirstFit(list, Rounded(size), align) = {}
    /\ heapSize + GrowSize(Rounded(size), align) <= MaxHeap
    /\ \E at \in Extents :
         /\ Room(at, Grown(Rounded(size), align))
         /\ LET b == [at |-> at, size |-> Grown(Rounded(size), align)]
            IN  /\ Carve(InsertFreeBlock(list, b), Rounded(size), align)
                /\ regions' = regions \cup {b}
                /\ heapSize' = heapSize + b.size

\* the pointer and the layout come back; the list gets the rounded size
MutDeallocWhole(a) ==
    /\ list' = InsertFreeBlock(list, [at |-> a.at, size |-> AlignUp(a.size, a.align)])
    /\ live' = live \ {a}
    /\ UNCHANGED <<regions, heapSize>>

Dealloc(a) ==
    /\ list' = InsertFreeBlock(list, [at |-> a.at, size |-> a.size])
    /\ live' = live \ {a}
    /\ UNCHANGED <<regions, heapSize>>

HeapNext ==
    \/ \E size \in Sizes, align \in Aligns : Alloc(size, align) \/ GrowAndAlloc(size, align)
    \/ \E a \in live : Dealloc(a)

HeapSpec == HeapInit /\ [][HeapNext]_heapVars

(***************************************************************************)
(* Properties                                                              *)
(***************************************************************************)
Disjoint(a, b) == End(a) <= b.at \/ End(b) <= a.at
Cells(a) == a.at .. End(a) - 1

\* The free list is sorted, every block on it holds a header and no two touch;
\* no free block overlaps another, or memory that is handed out; allocations are aligned,
\* disjoint, and lie in memory the heap owns.  (heap.rs: "Free list is always
\* sorted by address", "No overlapping free blocks", "Coalescing adjacent free
\* blocks on free".)
HeapSound ==
    /\ \A i \in DOMAIN list : list[i].size >= MinBlock
    /\ \A i \in 1 .. Len(list) - 1 : End(list[i]) < list[i + 1].at
    /\ \A a \in live : a.at % a.align = 0
    /\ \A a, b \in live : a # b => Disjoint(a, b)
    /\ \A a \in live, i \in DOMAIN list : Disjoint(a, list[i])
    /\ \A a \in live \cup {list[i] : i \in DOMAIN list} :
         Cells(a) \subseteq UNION {Cells(r) : r \in regions}

\* heap_size is what the heap owns and stays within MAX_HEAP_SIZE, although
\* try_grow compares the size before it rounds it up to frames.
HeapBounded ==
    /\ heapSize = Cardinality(UNION {Cells(r) : r \in regions})
    /\ heapSize <= MaxHeap
=============================================================================
