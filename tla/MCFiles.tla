------------------------------- MODULE MCFiles ---------------------------------
(***************************************************************************)
(* Trees, descriptors, permissions and mounts.  They share no state in     *)
(* this model: each behaviour exercises the one Init chooses.              *)
(***************************************************************************)
EXTENDS Pipe, Access

VARIABLES focus,
    nodes, total,
    fs, shadow, owner,
    mounts, nextFs, opened, lost

Tmp == INSTANCE Tmpfs WITH FileName <- {"a", "b"}, MaxNodes <- 4, MaxBytes <- 2, MaxOffset <- 2

\* Names and directories: every block is one entry, so directories grow and
\* run into the end of the disk.
Tree == INSTANCE RacfsTree WITH
    NInodes <- 4, NBlocks <- 3, Direct <- 1, Slots <- 1, Names <- {"a", "b"}, NoName <- "",
    Lengths <- {}, Writes <- {}, Gids <- {}, TornWrites <- FALSE

\* One file: direct, indirect and double indirect blocks, writes with a gap.
Blocks == INSTANCE RacfsTree WITH
    NInodes <- 2, NBlocks <- 9, Direct <- 1, Slots <- 2, Names <- {"a"}, NoName <- "",
    Lengths <- {0, 1, 6, 8}, Writes <- {<<0, 2>>, <<5, 2>>, <<7, 1>>}, Gids <- {1}, TornWrites <- TRUE

Bits(o, a) == [o |-> o, g |-> a, a |-> a]
MCModes == {Bits({"r", "w", "x"}, {}), Bits({"r", "w", "x"}, {"r", "w", "x"})}

\* One process alone whose calls all go through paths (its table is full), with
\* names enough to move a file past another.
Ren == INSTANCE Access WITH Tasks <- {1}, Names <- {"a", "b"}, MaxFiles <- 0

\* "/m" is a textual prefix of "/mm" and an ancestor of "/m/v".
Paths == {<<"/">>, <<"/", "m">>, <<"/", "m", "m">>, <<"/", "m", "/", "v">>}
Mnt == INSTANCE MountTable WITH
    MountPaths <- Paths,
    LookupPaths <- Paths \cup {<<"/", "m", "m", "/", "v">>, <<"/", "m", "/", "v", "/", "m">>},
    Devices <- {"ram0", "sda"}, RamDisk <- "ram0", MaxFs <- 4,
    Home <- [d \in {"ram0", "sda"} |-> IF d = "ram0" THEN <<"/", "m">> ELSE <<"/", "m", "m">>]

tmpVars == <<nodes, total>>
treeVars == <<fs, shadow, owner>>
mountVars == <<mounts, nextFs, opened, lost>>

Init ==
    /\ focus \in {"tmpfs", "tree", "blocks", "pipe", "access", "rename", "mount"}
    /\ IF focus = "blocks" THEN Blocks!TreeInit ELSE Tree!TreeInit
    /\ Tmp!TmpInit /\ PipeInit /\ AccInit /\ Mnt!MountInit
    /\ focus # "pipe" => fds[InitProc][0] = Nil

Next ==
    \/ focus = "tmpfs" /\ Tmp!TmpNext /\ UNCHANGED <<focus, treeVars, pipeVars, accVars, mountVars>>
    \/ focus = "tree" /\ Tree!TreeNext /\ UNCHANGED <<focus, tmpVars, pipeVars, accVars, mountVars>>
    \/ focus = "blocks" /\ Blocks!TreeNext /\ UNCHANGED <<focus, tmpVars, pipeVars, accVars, mountVars>>
    \/ focus = "pipe" /\ PipeNext /\ UNCHANGED <<focus, treeVars, tmpVars, accVars, mountVars>>
    \/ focus = "access" /\ AccNext /\ UNCHANGED <<focus, treeVars, tmpVars, pipeVars, mountVars>>
    \/ focus = "rename" /\ Ren!AccNext /\ UNCHANGED <<focus, treeVars, tmpVars, pipeVars, mountVars>>
    \/ focus = "mount" /\ Mnt!MountNext /\ UNCHANGED <<focus, treeVars, tmpVars, pipeVars, accVars>>

Spec == Init /\ [][Next]_<<focus, treeVars, tmpVars, pipeVars, accVars, mountVars>> /\ PipeFair

\* Tmpfs!TmpTree, TmpBudget: the namespace stays a tree, the byte budget exact.
\* The other parts' states have their types.
TmpTree ==
    /\ focus = "tmpfs" => Tmp!TmpTypeOK /\ Tmp!TmpTree /\ Tmp!TmpBudget
    /\ focus = "pipe" => PipeTypeOK
    /\ focus \in {"access", "rename"} => AccTypeOK

\* RacfsTree!FsckClean, TreeShape, AllocFinds: check() reports nothing, whatever
\* the operations; link counts, unique names, no detached directory; alloc_block's
\* search hint hides no free block.
FsckClean ==
    /\ focus = "tree" =>
         Tree!TreeTypeOK /\ Tree!FsckClean /\ Tree!TreeShape /\ Tree!AllocFinds
    /\ focus = "blocks" =>
         Blocks!TreeTypeOK /\ Blocks!FsckClean /\ Blocks!TreeShape /\ Blocks!AllocFinds

\* RacfsTree!FileContents: a file reads back as an ideal byte array.
FileContents ==
    /\ focus = "tree" => Tree!FileContents
    /\ focus = "blocks" => Blocks!FileContents

\* MountTable!ResolveExact, OneMountPerPath: the mount with the most components
\* in common, and no mount hides an older one at its own path.
ResolveExact == focus = "mount" => Mnt!MountTypeOK /\ Mnt!ResolveExact /\ Mnt!OneMountPerPath

===============================================================================
