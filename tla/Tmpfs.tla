--------------------------------- MODULE Tmpfs ---------------------------------
(***************************************************************************)
(* The in-memory filesystem (kernel/src/vfs/tmpfs.rs): nodes in a vector   *)
(* that only grows, directories as lists of inode numbers, removal by a    *)
(* flag, and one byte budget for all files.  A call that fails changes     *)
(* nothing and is no step here.                                            *)
(***************************************************************************)
EXTENDS Integers, Sequences, SequencesExt, FiniteSets, FiniteSetsExt

CONSTANTS
    FileName,   \* component names
    MaxNodes,   \* bound on the vector of nodes
    MaxBytes,   \* TMPFS_MAX_SIZE
    MaxOffset   \* bound on the end of a write and the length of a truncate

VARIABLES
    nodes,      \* nodes[ino]
    total       \* total_bytes

tmpVars == <<nodes, total>>

Inos == DOMAIN nodes
NewNode(n, k) == [name |-> n, kind |-> k, data |-> <<>>, children |-> <<>>, removed |-> FALSE]
IsDir(i) == nodes[i].kind = "dir"
Live(i) == ~nodes[i].removed

TmpTypeOK ==
    /\ \E n \in 1 .. MaxNodes : DOMAIN nodes = 0 .. n - 1
    /\ \A i \in Inos :
         /\ nodes[i].name \in FileName \cup {"/"}
         /\ nodes[i].kind \in {"dir", "file"}
         /\ nodes[i].data \in Seq({0, 1})
         /\ nodes[i].children \in Seq(Nat)
         /\ nodes[i].removed \in BOOLEAN
    /\ total \in 0 .. MaxBytes

TmpInit ==
    /\ nodes = [i \in {0} |-> NewNode("/", "dir")]
    /\ total = 0

-------------------------------------------------------------------------------
\* The live children of d called n: positions in the list (find_child takes the first).
Found(d, n) ==
    {k \in DOMAIN nodes[d].children :
        LET c == nodes[d].children[k] IN Live(c) /\ nodes[c].name = n}
ChildAt(d, n) == Min(Found(d, n))
Child(d, n) == nodes[d].children[ChildAt(d, n)]
LiveDir(d) == d \in Inos /\ IsDir(d) /\ Live(d)
Childless(d) == \A k \in DOMAIN nodes[d].children : ~Live(nodes[d].children[k])

\* create_file, create_dir: the new node is the next index of the vector.
Create(d, n, k) ==
    LET i == Cardinality(Inos) IN
    /\ i < MaxNodes
    /\ LiveDir(d)
    /\ Found(d, n) = {}
    /\ nodes' = [j \in Inos \cup {i} |->
                   IF j = i THEN NewNode(n, k)
                   ELSE IF j = d THEN [nodes[d] EXCEPT !.children = Append(@, i)]
                   ELSE nodes[j]]
    /\ UNCHANGED total

\* The node as unlink and rename release it.
Released(nd) == [nd EXCEPT !.data = <<>>, !.removed = TRUE]

Unlink(d, n) ==
    LET c == Child(d, n) IN
    /\ LiveDir(d)
    /\ Found(d, n) # {}
    /\ IsDir(c) => Childless(c)
    /\ total' = total - Len(nodes[c].data)
    /\ nodes' = [nodes EXCEPT ![c] = Released(@),
                              ![d].children = RemoveAt(@, ChildAt(d, n))]

MutIsBelowParent(top, d) == d \in Range(nodes[top].children)

\* is_below: d is reached from top through live directories.
IsBelow(top, d) ==
    LET kids(S) == UNION {Range(nodes[x].children) : x \in S}
        walk[k \in 0 .. MaxNodes] ==
            IF k = 0 THEN {top}
            ELSE walk[k - 1] \cup {c \in kids(walk[k - 1]) : IsDir(c) /\ Live(c)}
    IN d \in kids(walk[MaxNodes])

\* rename: the target, if any, is released first; then the source moves.
Rename(od, on, nd, nn) ==
    LET src == Child(od, on)
        hit == Found(nd, nn) # {}
        dst == Child(nd, nn)
        mid == IF hit THEN [nodes EXCEPT ![dst] = Released(@),
                                         ![nd].children = RemoveAt(@, ChildAt(nd, nn))]
               ELSE nodes
        named == [mid EXCEPT ![src].name = nn]
    IN
    /\ LiveDir(od) /\ LiveDir(nd)
    /\ Found(od, on) # {}
    /\ hit =>
         /\ dst # src
         /\ IsDir(src) <=> IsDir(dst)
         /\ IsDir(dst) => Childless(dst)
    /\ IsDir(src) /\ od # nd => nd # src /\ ~IsBelow(src, nd)
    /\ nodes' = IF od = nd THEN named
                ELSE [named EXCEPT ![od].children = SelectSeq(@, LAMBDA c : c # src),
                                   ![nd].children = Append(@, src)]
    /\ total' = IF hit THEN total - Len(nodes[dst].data) ELSE total

Resized(data, n) == [k \in 1 .. n |-> IF k <= Len(data) THEN data[k] ELSE 0]

\* TmpfsInode::write of one non-zero byte at off: a gap is filled with zeros.
WriteByte(i, off) ==
    LET old == nodes[i].data
        len == Max({Len(old), off + 1})
    IN
    /\ i \in Inos /\ Live(i) /\ ~IsDir(i)
    /\ total + (len - Len(old)) <= MaxBytes
    /\ nodes' = [nodes EXCEPT ![i].data = [Resized(old, len) EXCEPT ![off + 1] = 1]]
    /\ total' = total + (len - Len(old))

Truncate(i, n) ==
    LET old == Len(nodes[i].data) IN
    /\ i \in Inos /\ Live(i) /\ ~IsDir(i)
    /\ n > old => total + (n - old) <= MaxBytes
    /\ nodes' = [nodes EXCEPT ![i].data = Resized(@, n)]
    /\ total' = Max({0, total + n - old})

TmpNext ==
    \/ \E d \in Inos, n \in FileName :
         \/ \E k \in {"dir", "file"} : Create(d, n, k)
         \/ Unlink(d, n)
         \/ \E nd \in Inos, nn \in FileName : Rename(d, n, nd, nn)
    \/ \E i \in Inos :
         \/ \E off \in 0 .. MaxOffset - 1 : WriteByte(i, off)
         \/ \E n \in 0 .. MaxOffset : Truncate(i, n)

TmpSpec == TmpInit /\ [][TmpNext]_tmpVars

-------------------------------------------------------------------------------
(* Properties *)

LiveNodes == {i \in Inos : Live(i)}

\* The namespace stays a tree (create, unlink, rename with replacement and
\* directory moves): every live node but the root is listed exactly once, by
\* one live directory, under a name no sibling has, and no directory is cut
\* off from the root or contains itself.
TmpTree ==
    /\ Live(0)
    /\ \A i \in LiveNodes \ {0} :
         /\ Cardinality({<<d, k>> \in LiveNodes \X (1 .. MaxNodes) :
              k \in DOMAIN nodes[d].children /\ nodes[d].children[k] = i}) = 1
         /\ IsBelow(0, i)
    /\ \A d \in LiveNodes : \A j, k \in DOMAIN nodes[d].children :
         j # k => nodes[nodes[d].children[j]].name # nodes[nodes[d].children[k]].name

\* The budget is exact (write, truncate, unlink, rename onto a file): bytes a
\* removed or replaced file held are given back once, so no sequence of calls
\* wears the filesystem out.
TmpBudget == total = MapThenSumSet(LAMBDA i : Len(nodes[i].data), Inos)

===============================================================================
