------------------------------- MODULE MCKernel --------------------------------
(***************************************************************************)
(* Memory and processor: the frame allocator, the kernel heap, the address *)
(* spaces and the scheduler.  Each behaviour exercises the one Init        *)
(* chooses and the others keep their initial state.  The configuration     *)
(* gives the frame allocator two callers and a word half outside memory,   *)
(* the heap two places to grow, next to it and away from it, and the       *)
(* scheduler four user processes without threads.                          *)
(***************************************************************************)
EXTENDS FrameBitmap, KernelHeap, Scheduler

CONSTANTS Nil, ThreadCalls, Focus

VARIABLES
    focus,
    free, dir, pt, areas, root, kstack, call, failed, calls

\* Two processes, an image of one page and a stack; five frames are left for
\* mappings, so they, forks and spawns run out of memory.
Space == INSTANCE AddressSpace WITH
    Tasks <- {1, 2}, Floor <- 1, Ceiling <- 6, MmapTop <- 4, PerTable <- 2, NFrames <- 14, MaxLen <- 2,
    MaxCalls <- 4, MmapProts <- {"rw"}, Images <- {<<[start |-> 1, end |-> 2, prot |-> "r"]>>}

spaceVars == <<free, dir, pt, areas, root, kstack, call, failed, calls>>

KernelInit == focus \in Focus /\ FrameInit /\ HeapInit /\ Space!Init /\ Init

KernelNext ==
    \/ focus = "phys" /\ FrameNext /\ UNCHANGED <<focus, heapVars, spaceVars, vars>>
    \/ focus = "heap" /\ HeapNext /\ UNCHANGED <<focus, frameVars, spaceVars, vars>>
    \/ focus = "space" /\ Space!Next /\ UNCHANGED <<focus, frameVars, heapVars, vars>>
    \/ focus = "processes" /\ Next /\ UNCHANGED <<focus, frameVars, heapVars, spaceVars>>

KernelSpec == KernelInit /\ [][KernelNext]_<<focus, frameVars, heapVars, spaceVars, vars>>

\* AddressSpace!RecordMatchesTable, HighestGap: between calls the record of
\* mapped ranges and the page tables agree, and mmap places a mapping in the
\* highest gap.
RecordMatchesTable ==
    focus = "space" => Space!SpaceTypeOK /\ Space!RecordMatchesTable /\ Space!HighestGap

\* AddressSpace!FramesOwnedOnce: every frame has one owner.
FramesOwnedOnce == focus = "space" => Space!FramesOwnedOnce

\* AddressSpace!LiveTablesKept: no task runs on a page table that was freed.
LiveTablesKept == Space!LiveTablesKept

===============================================================================
