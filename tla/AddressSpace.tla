---------------------------- MODULE AddressSpace ----------------------------
(***************************************************************************)
(* The address spaces of user processes: the record of mapped ranges       *)
(* (mm/vm.rs), the page tables (mm/virt.rs), the ELF loader and the calls  *)
(* that change them (mmap, munmap, mprotect, fork, spawn, exec, exit).     *)
(*                                                                         *)
(* Addresses are page numbers and the four levels of a page table are two: *)
(* a directory (the PML4) whose entries, the branches, stand for the three *)
(* upper levels, which the code treats alike, and the page tables below.   *)
(* Huge pages are left out.  A kernel stack with its guard page, one       *)
(* contiguous allocation, is one frame.  mmap, munmap and mprotect run     *)
(* with interrupts on, page by page; fork runs with them off.              *)
(***************************************************************************)
EXTENDS Integers, FiniteSets, FiniteSetsExt, Sequences, SequencesExt

CONSTANTS
    Tasks,          \* slots of the task table
    Floor,          \* USER_FLOOR: the lowest page a user mapping may have
    Ceiling,        \* USER_CEILING: one past the highest
    MmapTop,        \* MMAP_TOP: mappings without an address go below it
    PerTable,       \* pages below one branch
    NFrames,        \* physical frames
    Images,         \* executables: sequences of segments [start, end, prot]
    MmapProts,      \* the accesses mmap is asked for
    MaxLen,         \* pages of one mmap
    MaxCalls,       \* bound on the calls made
    ThreadCalls,    \* whether tasks that share an address space change it, exec
                    \* or exit
    Nil

Prots == {"none", "r", "rw"}
Pages == Floor .. Ceiling - 1
Branches == 0 .. (Ceiling - 1) \div PerTable
Slots == 0 .. PerTable - 1
Frames == 1 .. NFrames
Branch(page) == page \div PerTable
Slot(page) == page % PerTable

\* The boot-time page table holding the identity map, which every process
\* shares, and the frame of the one kernel page it maps.
KernelTable == 1
KernelPage == 2

VARIABLES
    free,       \* frames the allocator may hand out
    dir,        \* directory frame -> branch -> [to, user] or Nil
    pt,         \* table frame -> slot -> [to, user, write, owned] or Nil
    areas,      \* directory frame -> the set of areas of that address space
    root,       \* task -> its directory, Nil when the slot is empty
    kstack,     \* task -> its kernel stack
    call,       \* task -> the mmap, munmap or mprotect it is in
    failed,     \* a fork, spawn or exec has run out of memory or of slots
    calls       \* calls made so far

vars == <<free, dir, pt, areas, root, kstack, call, failed, calls>>

Entry == [to : Frames, user : BOOLEAN, write : BOOLEAN, owned : BOOLEAN]
Area == [start : Pages, end : Floor .. Ceiling, prot : Prots]
Idle == [op |-> "none", from |-> 0, at |-> 0, end |-> 0, prot |-> "none"]

SpaceTypeOK ==
    /\ free \subseteq Frames
    /\ \A f \in Frames :
         /\ dir[f] # Nil => \A b \in Branches :
              dir[f][b] = Nil \/ dir[f][b] \in [to : Frames, user : BOOLEAN]
         /\ pt[f] # Nil => \A s \in Slots : pt[f][s] = Nil \/ pt[f][s] \in Entry
         /\ areas[f] \subseteq Area
    /\ \A t \in Tasks : root[t] \in Frames \cup {Nil} /\ kstack[t] \in Frames \cup {Nil}
    /\ failed \in BOOLEAN

EmptyTable == [s \in Slots |-> Nil]
KernelEntry == [to |-> KernelPage, user |-> FALSE, write |-> TRUE, owned |-> FALSE]

(***************************************************************************)
(* The record of mapped ranges (mm/vm.rs)                                  *)
(***************************************************************************)
RangeIsValid(start, end) == start < end /\ start >= Floor /\ end <= Ceiling

Overlaps(space, start, end) == \E a \in space : a.start < end /\ start < a.end

Covers(space, start, end) ==
    \A p \in start .. end - 1 : \E a \in space : a.start <= p /\ p < a.end

\* VmSpace::insert_uncovered for a segment, and insert for the rest: the
\* parts of the range no area covers yet, maximal runs of pages
Uncovered(space, area) ==
    LET bare == {p \in area.start .. area.end - 1 :
                   ~\E a \in space : a.start <= p /\ p < a.end}
    IN  {[start |-> p, end |-> q, prot |-> area.prot] :
           <<p, q>> \in {r \in bare \X (area.start + 1 .. area.end) :
             /\ r[1] < r[2] /\ r[1] .. r[2] - 1 \subseteq bare
             /\ r[1] - 1 \notin bare /\ r[2] \notin bare}}

\* VmSpace::find_free_below: the areas from the top down
FindFreeBelow(space, len, top) ==
    LET Gap[limit \in 0 .. Ceiling] ==
          LET below == {a \in space : a.start < limit}
          IN  IF below = {}
              THEN IF limit >= Floor + len THEN limit - len ELSE Nil
              ELSE LET a == CHOOSE x \in below : \A y \in below : y.start <= x.start
                   IN  IF a.end <= limit /\ limit - a.end >= len /\ limit - len >= Floor
                       THEN limit - len
                       ELSE Gap[a.start]
    IN  Gap[IF top < Ceiling THEN top ELSE Ceiling]

\* the pieces of an area outside [start, end)
Outside(a, start, end) ==
    {[a EXCEPT !.end = start] : x \in {y \in {1} : a.start < start}}
      \cup {[a EXCEPT !.start = end] : x \in {y \in {1} : a.end > end}}

Touched(space, start, end) == {a \in space : a.start < end /\ start < a.end}

RemoveRange(space, start, end) ==
    (space \ Touched(space, start, end))
      \cup UNION {Outside(a, start, end) : a \in Touched(space, start, end)}

SetProt(space, start, end, prot) ==
    RemoveRange(space, start, end)
      \cup {[start |-> IF a.start > start THEN a.start ELSE start,
             end |-> IF a.end < end THEN a.end ELSE end, prot |-> prot] :
              a \in Touched(space, start, end)}

(***************************************************************************)
(* The page tables (mm/virt.rs).  w is a memory: free, dir, pt and whether *)
(* the operation still succeeds.                                           *)
(***************************************************************************)
Memory == [free |-> free, dir |-> dir, pt |-> pt, ok |-> TRUE]
Failed(w) == [w EXCEPT !.ok = FALSE]

PageFlags(prot, frame) ==
    [to |-> frame, user |-> prot # "none", write |-> prot = "rw", owned |-> TRUE]

\* from_elf maps with USER_CODE and USER_DATA, without the USER_OWNED bit
ImageFlags(prot, frame) == [PageFlags(prot, frame) EXCEPT !.owned = FALSE]

Attach(w, r, b, table, user, f) ==
    [w EXCEPT !.free = @ \ {f}, !.dir[r][b] = [to |-> f, user |-> user], !.pt[f] = table]

\* the table of a branch: made when missing, cloned when the page is a user's
\* and the branch is not marked USER yet
EnsureTable(w, r, b, user) ==
    LET e == w.dir[r][b]
    IN  IF e # Nil /\ (e.user \/ ~user) THEN w
        ELSE IF w.free = {} THEN Failed(w)
        ELSE Attach(w, r, b, IF e = Nil THEN EmptyTable ELSE w.pt[e.to], user, Min(w.free))

\* a present entry is replaced by a user page and refused otherwise
SetLeaf(w, table, s, e) ==
    IF w.pt[table][s] # Nil /\ ~e.user THEN Failed(w) ELSE [w EXCEPT !.pt[table][s] = e]

MapInto(w, r, page, e) ==
    IF w.ok THEN SetLeaf(w, w.dir[r][Branch(page)].to, Slot(page), e) ELSE w

MapPage(w, r, page, e) == MapInto(EnsureTable(w, r, Branch(page), e.user), r, page, e)

\* map_range: page by page until one fails
MapRange(w, r, start, n, base, prot) ==
    LET Upto[i \in 0 .. n] ==
          IF i = 0 THEN w
          ELSE LET v == Upto[i - 1]
               IN  IF v.ok
                   THEN MapPage(v, r, start + i - 1, ImageFlags(prot, base + i - 1))
                   ELSE v
    IN  Upto[n]

Leaf(r, page) ==
    IF dir[r][Branch(page)] = Nil THEN Nil ELSE pt[dir[r][Branch(page)].to][Slot(page)]

\* user_access_flags: what ring 3 may do, folded over the levels
UserAccess(r, page) ==
    IF Leaf(r, page) = Nil \/ ~Leaf(r, page).user \/ ~dir[r][Branch(page)].user THEN "none"
    ELSE IF Leaf(r, page).write THEN "rw" ELSE "r"

\* free_page_table walks the branches marked USER and, in their tables, the
\* entries marked USER or USER_OWNED
UserBranches(r) == {b \in Branches : dir[r][b] # Nil /\ dir[r][b].user}
UserSlots(table) == {s \in Slots : pt[table][s] # Nil /\ (pt[table][s].user \/ pt[table][s].owned)}

MutFreesUserLeaves(r) ==
    {r} \cup {dir[r][b].to : b \in UserBranches(r)}
        \cup UNION {{pt[dir[r][b].to][s].to :
                       s \in {x \in UserSlots(dir[r][b].to) : pt[dir[r][b].to][x].user}} :
                    b \in UserBranches(r)}

FreePageTable(r) ==
    {r} \cup {dir[r][b].to : b \in UserBranches(r)}
        \cup UNION {{pt[dir[r][b].to][s].to : s \in UserSlots(dir[r][b].to)} :
                    b \in UserBranches(r)}

(***************************************************************************)
(* Building and copying address spaces                                     *)
(***************************************************************************)
\* phys::alloc_contiguous: the lowest run of n free frames
Runs(F, n) == {f \in F : f .. f + n - 1 \subseteq F}

Allocated(w, n) ==
    IF ~w.ok \/ Runs(w.free, n) = {} THEN Failed(w)
    ELSE [w EXCEPT !.free = @ \ (Min(Runs(w.free, n)) .. Min(Runs(w.free, n)) + n - 1),
                   !.at = Append(@, Min(Runs(w.free, n)))]

Pagecount(seg) == seg.end - seg.start

\* load_elf: the frames of every segment, then those of the stack.  Nothing
\* is given back when one cannot be had.
StackArea == [start |-> Ceiling - 1, end |-> Ceiling, prot |-> "rw"]

LoadElf(w, image) ==
    FoldLeft(LAMBDA v, seg : Allocated(v, Pagecount(seg)), w, Append(image, StackArea))

\* create_user_page_table: the kernel's branch, shared
UserDirectory == [b \in Branches |->
    IF b = 0 THEN [to |-> KernelTable, user |-> FALSE] ELSE Nil]

\* from_elf: the kernel stack, the directory, then the segments and the stack
\* mapped in order; w.at holds the frames of LoadElf, the kernel stack and the
\* directory, in this order
WithDirectory(w) ==
    IF w.ok THEN [w EXCEPT !.dir[Last(w.at)] = UserDirectory] ELSE w

MapImage(w, image) ==
    LET Upto[i \in 0 .. Len(image)] ==
          IF i = 0 THEN w
          ELSE LET v == Upto[i - 1]
               IN  IF v.ok
                   THEN MapRange(v, Last(v.at), image[i].start, Pagecount(image[i]),
                                 v.at[i], image[i].prot)
                   ELSE v
    IN  Upto[Len(image)]

FromElf(w, image) ==
    MapImage(WithDirectory(Allocated(Allocated(LoadElf(w, image), 1), 1)),
             Append(image, StackArea))

Built(image) ==
    FromElf([free |-> free, dir |-> dir, pt |-> pt, ok |-> TRUE, at |-> <<>>], image)

\* the record from_elf writes for the image
ImageAreas(image) ==
    FoldLeft(LAMBDA space, seg : space \cup Uncovered(space, seg), {}, image) \cup {StackArea}

\* clone_user_page_table copies, in order, the directory, and for every user
\* branch its table and the pages in it
Copied(r) ==
    {<<b, -1>> : b \in UserBranches(r)}
      \cup UNION {{<<b, s>> : s \in UserSlots(dir[r][b].to)} : b \in UserBranches(r)}

Before(i, j) == i[1] < j[1] \/ (i[1] = j[1] /\ i[2] < j[2])

Nth(F, n) == CHOOSE f \in F : Cardinality({g \in F : g < f}) = n - 1

NewFrame(r, item) == Nth(free, 2 + Cardinality({i \in Copied(r) : Before(i, item)}))

Needed(r) == 1 + Cardinality(Copied(r))

TakenBy(n) == {f \in free : Cardinality({g \in free : g < f}) < n}

CopiedBranch(r, b) ==
    IF b \in UserBranches(r)
    THEN [to |-> NewFrame(r, <<b, -1>>), user |-> TRUE]
    ELSE dir[r][b]

CopiedTable(r, b) ==
    [s \in Slots |-> IF s \in UserSlots(dir[r][b].to)
                     THEN [pt[dir[r][b].to][s] EXCEPT !.to = NewFrame(r, <<b, s>>)]
                     ELSE pt[dir[r][b].to][s]]

CopiedTables(r) ==
    [f \in Frames |->
       IF \E b \in UserBranches(r) : f = NewFrame(r, <<b, -1>>)
       THEN CopiedTable(r, CHOOSE b \in UserBranches(r) : f = NewFrame(r, <<b, -1>>))
       ELSE pt[f]]

(***************************************************************************)
(* The calls                                                               *)
(***************************************************************************)
Init ==
    /\ \E t \in Tasks, image \in Images :
         \E w \in {FromElf([free |-> Frames \ {KernelTable, KernelPage},
                            dir |-> [f \in Frames |-> Nil],
                            pt |-> [f \in Frames |->
                                      IF f = KernelTable
                                      THEN [EmptyTable EXCEPT ![0] = KernelEntry]
                                      ELSE Nil],
                            ok |-> TRUE, at |-> <<>>], image)} :
           /\ t = Min(Tasks)
           /\ w.ok
           /\ free = w.free /\ dir = w.dir /\ pt = w.pt
           /\ areas = [f \in Frames |-> IF f = Last(w.at) THEN ImageAreas(image) ELSE {}]
           /\ root = [u \in Tasks |-> IF u = t THEN Last(w.at) ELSE Nil]
           /\ kstack = [u \in Tasks |-> IF u = t THEN w.at[Len(w.at) - 1] ELSE Nil]
    /\ call = [t \in Tasks |-> Idle]
    /\ failed = FALSE
    /\ calls = 0

Live(t) == root[t] # Nil
Ready(t) == Live(t) /\ call[t] = Idle
space(t) == areas[root[t]]
Alone(t) == ThreadCalls \/ \A u \in Tasks \ {t} : root[u] # root[t]

Enter(t, op, start, end, prot, record) ==
    /\ areas' = [areas EXCEPT ![root[t]] = record]
    /\ call' = [call EXCEPT ![t] =
                  [op |-> op, from |-> start, at |-> start, end |-> end, prot |-> prot]]
    /\ UNCHANGED <<free, dir, pt, root, kstack, failed>>

\* sys_mmap chooses the address and reserves it in the record: the address
\* asked for when it is free, with MAP_FIXED or not; else the highest gap
MmapAt(t, addr, len, prot) ==
    /\ Ready(t)
    /\ RangeIsValid(addr, addr + len) /\ ~Overlaps(space(t), addr, addr + len)
    /\ Enter(t, "mmap", addr, addr + len, prot,
             space(t) \cup {[start |-> addr, end |-> addr + len, prot |-> prot]})

Mmap(t, len, prot) ==
    /\ Ready(t)
    /\ FindFreeBelow(space(t), len, MmapTop) # Nil
    /\ MmapAt(t, FindFreeBelow(space(t), len, MmapTop), len, prot)

Munmap(t, start, end) ==
    /\ Ready(t)
    /\ Covers(space(t), start, end)
    /\ Enter(t, "munmap", start, end, "none", RemoveRange(space(t), start, end))

Mprotect(t, start, end, prot) ==
    /\ Ready(t)
    /\ Covers(space(t), start, end)
    /\ Enter(t, "mprotect", start, end, prot, SetProt(space(t), start, end, prot))

\* the call has handled one more page
Advanced(t) ==
    IF call[t].at + 1 = call[t].end THEN Idle ELSE [call[t] EXCEPT !.at = @ + 1]

Unmapped(tables, r, P) ==
    [f \in Frames |->
       IF tables[f] = Nil THEN Nil
       ELSE [s \in Slots |-> IF \E p \in P : dir[r][Branch(p)] # Nil
                                             /\ dir[r][Branch(p)].to = f /\ Slot(p) = s
                             THEN Nil ELSE tables[f][s]]]

FramesOf(r, P) == {Leaf(r, p).to : p \in {q \in P : Leaf(r, q) # Nil}}

\* mmap takes a frame and maps it
MapStep(t) ==
    /\ call[t].op = "mmap"
    /\ free # {}
    /\ \E w \in {MapPage([Memory EXCEPT !.free = @ \ {Min(free)}], root[t], call[t].at,
                         PageFlags(call[t].prot, Min(free)))} :
         /\ w.ok
         /\ free' = w.free /\ dir' = w.dir /\ pt' = w.pt
    /\ call' = [call EXCEPT ![t] = Advanced(t)]
    /\ UNCHANGED <<areas, root, kstack, failed>>

\* mmap cannot have a frame for the page, or for its table: everything is
\* given back
MutKeepsReservation(t) == areas

Unreserved(t) == [areas EXCEPT ![root[t]] = RemoveRange(@, call[t].from, call[t].end)]

MapFails(t) ==
    /\ call[t].op = "mmap"
    /\ free # {} => ~MapPage([Memory EXCEPT !.free = @ \ {Min(free)}], root[t], call[t].at,
                             PageFlags(call[t].prot, Min(free))).ok
    /\ LET done == call[t].from .. call[t].at - 1
       IN  /\ free' = free \cup FramesOf(root[t], done)
           /\ pt' = Unmapped(pt, root[t], done)
    /\ areas' = Unreserved(t)
    /\ call' = [call EXCEPT ![t] = Idle]
    /\ UNCHANGED <<dir, root, kstack, failed>>

UnmapStep(t) ==
    /\ call[t].op = "munmap"
    /\ free' = free \cup FramesOf(root[t], {call[t].at})
    /\ pt' = Unmapped(pt, root[t], {call[t].at})
    /\ call' = [call EXCEPT ![t] = Advanced(t)]
    /\ UNCHANGED <<dir, areas, root, kstack, failed>>

\* set_page_flags
Protected(r, page, prot) ==
    IF Leaf(r, page) = Nil THEN pt
    ELSE [pt EXCEPT ![dir[r][Branch(page)].to][Slot(page)] = PageFlags(prot, @.to)]

\* The call gives up at a page that is not mapped
ProtectStep(t) ==
    /\ call[t].op = "mprotect"
    /\ pt' = Protected(root[t], call[t].at, call[t].prot)
    /\ call' = [call EXCEPT ![t] = IF Leaf(root[t], @.at) = Nil THEN Idle ELSE Advanced(t)]
    /\ UNCHANGED <<free, dir, areas, root, kstack, failed>>

Empty(u) == root[u] = Nil
FreeSlots == {u \in Tasks : Empty(u)}

\* the tables of released directories and page tables hold nothing any more
Scrubbed(tables, F) == [f \in Frames |-> IF f \in F THEN Nil ELSE tables[f]]

\* a call that leaves only frames behind
Loses(F) ==
    /\ free' = F
    /\ failed' = TRUE
    /\ UNCHANGED <<dir, pt, areas, root, kstack, call>>

\* sys_fork into slot u
Fork(t, u) ==
    /\ Ready(t) /\ Empty(u)
    /\ Cardinality(free) > Needed(root[t])
    /\ LET r == Nth(free, 1)
           stack == Nth(free, Needed(root[t]) + 1)
       IN  /\ free' = free \ TakenBy(Needed(root[t]) + 1)
           /\ dir' = [dir EXCEPT ![r] = [b \in Branches |-> CopiedBranch(root[t], b)]]
           /\ pt' = CopiedTables(root[t])
           /\ areas' = [areas EXCEPT ![r] = space(t)]
           /\ root' = [root EXCEPT ![u] = r]
           /\ kstack' = [kstack EXCEPT ![u] = stack]
    /\ UNCHANGED <<call, failed>>

\* clone_user_page_table runs out of frames: it has taken every one there was
\* and gives none back.  Out of memory for the kernel stack, or out of task
\* slots, the copy is released again and nothing changes.
ForkFails(t) ==
    /\ Ready(t)
    /\ Cardinality(free) < Needed(root[t])
    /\ Loses({})

\* sys_spawn: the child's image is loaded from the file.  Whatever was taken
\* stays taken when a step fails, the task table being full included.
SpawnInto(u, w, image) ==
    /\ free' = w.free /\ dir' = w.dir /\ pt' = w.pt
    /\ areas' = [areas EXCEPT ![Last(w.at)] = ImageAreas(image)]
    /\ root' = [root EXCEPT ![u] = Last(w.at)]
    /\ kstack' = [kstack EXCEPT ![u] = w.at[Len(w.at) - 1]]
    /\ UNCHANGED <<call, failed>>

Spawn(t, image) ==
    /\ Ready(t)
    /\ \E w \in {Built(image)} :
         IF w.ok /\ FreeSlots # {}
         THEN SpawnInto(Min(FreeSlots), w, image)
         ELSE Loses(w.free)

\* sys_exec, replace_current_image: the old tables and stack are released
Released(t) == FreePageTable(root[t]) \cup {kstack[t]}

ExecInto(t, w, image) ==
    /\ free' = w.free \cup Released(t)
    /\ dir' = Scrubbed(w.dir, Released(t))
    /\ pt' = Scrubbed(w.pt, Released(t))
    /\ areas' = [areas EXCEPT ![root[t]] = {}, ![Last(w.at)] = ImageAreas(image)]
    /\ root' = [root EXCEPT ![t] = Last(w.at)]
    /\ kstack' = [kstack EXCEPT ![t] = w.at[Len(w.at) - 1]]
    /\ UNCHANGED <<call, failed>>

Exec(t, image) ==
    /\ Ready(t) /\ Alone(t)
    /\ \E w \in {Built(image)} : IF w.ok THEN ExecInto(t, w, image) ELSE Loses(w.free)

\* sys_clone(CLONE_VM): a thread of the same address space
Clone(t, u) ==
    /\ Ready(t) /\ Empty(u)
    /\ free # {}
    /\ root' = [root EXCEPT ![u] = root[t]]
    /\ kstack' = [kstack EXCEPT ![u] = Min(free)]
    /\ free' = free \ {Min(free)}
    /\ UNCHANGED <<dir, pt, areas, call, failed>>

\* the task exits and is waited for: reap_zombie_child_filtered
Exit(t) ==
    /\ Ready(t) /\ Alone(t)
    /\ \E u \in Tasks \ {t} : Live(u)
    /\ free' = free \cup Released(t)
    /\ dir' = Scrubbed(dir, Released(t))
    /\ pt' = Scrubbed(pt, Released(t))
    /\ areas' = [areas EXCEPT ![root[t]] = {}]
    /\ root' = [root EXCEPT ![t] = Nil]
    /\ kstack' = [kstack EXCEPT ![t] = Nil]
    /\ UNCHANGED <<call, failed>>

Ranges == {r \in Pages \X (Floor + 1 .. Ceiling) : r[1] < r[2] /\ r[2] - r[1] <= MaxLen}

MapCalls(t) ==
    \/ \E len \in 1 .. MaxLen, prot \in MmapProts :
         Mmap(t, len, prot) \/ \E addr \in Pages : MmapAt(t, addr, len, prot)
    \/ \E r \in Ranges :
         Munmap(t, r[1], r[2]) \/ \E prot \in Prots : Mprotect(t, r[1], r[2], prot)

Steps(t) == MapStep(t) \/ MapFails(t) \/ UnmapStep(t) \/ ProtectStep(t)

Lifecycle(t) ==
    \/ FreeSlots # {} /\ Fork(t, Min(FreeSlots))
    \/ FreeSlots # {} /\ Clone(t, Min(FreeSlots))
    \/ ForkFails(t)
    \/ \E image \in Images : Spawn(t, image) \/ Exec(t, image)
    \/ Exit(t)

Next ==
    \E t \in Tasks :
      \/ /\ calls < MaxCalls /\ calls' = calls + 1
         /\ (Alone(t) /\ MapCalls(t)) \/ Lifecycle(t)
      \/ Steps(t) /\ UNCHANGED calls

SpaceSpec == Init /\ [][Next]_vars

(***************************************************************************)
(* Properties                                                              *)
(***************************************************************************)
\* Between calls the record and the page tables of a process agree: a page
\* can be accessed in ring 3 exactly as the area over it says, and a page
\* outside every area is not mapped.  (vm.rs: "The page table says which pages
\* exist; this says which ranges the process owns, with what access".)
AgreeOn(t, p) ==
    LET over == {a \in space(t) : a.start <= p /\ p < a.end}
    IN  /\ Cardinality(over) <= 1
        /\ Leaf(root[t], p) # Nil <=> over # {}
        /\ \A a \in over : UserAccess(root[t], p) = a.prot

RecordMatchesTable ==
    \A t \in Tasks : Ready(t) => \A p \in Pages : AgreeOn(t, p)

\* What the page table of a process refers to, the shared identity map apart.
OwnBranches(r) == {b \in Branches : dir[r][b] # Nil /\ dir[r][b].to # KernelTable}
OwnSlots(f) == {s \in Slots : pt[f][s] # Nil /\ pt[f][s].to # KernelPage}

Held(r) ==
    {r} \cup {dir[r][b].to : b \in OwnBranches(r)}
        \cup UNION {{pt[dir[r][b].to][s].to : s \in OwnSlots(dir[r][b].to)} : b \in OwnBranches(r)}

References(r) ==
    1 + Cardinality(OwnBranches(r))
      + Cardinality({<<b, s>> \in OwnBranches(r) \X Slots : s \in OwnSlots(dir[r][b].to)})

\* Every frame has one owner: no address space refers to a frame twice, or to
\* one another holds, a kernel stack occupies or the allocator may hand out; and
\* unless a fork, a spawn or an exec has failed, every frame is free or
\* someone's.  (free_page_table, clone_user_page_table, sys_mmap's undoing.)
FramesOwnedOnce ==
    LET live == {t \in Tasks : Live(t)}
        spaces == {root[t] : t \in live}
        stacks == {kstack[t] : t \in live}
        held == UNION {Held(r) : r \in spaces}
    IN  /\ Cardinality(held) = MapThenSumSet(References, spaces)
        /\ Cardinality(stacks) = Cardinality(live) /\ stacks \cap held = {}
        /\ (held \cup stacks) \cap (free \cup {KernelTable, KernelPage}) = {}
        /\ failed \/ held \cup stacks \cup free \cup {KernelTable, KernelPage} = Frames

\* mmap without an address takes the highest gap that fits (vm.rs, "Highest-
\* placed free gap of `len` bytes below `top`, or None").
Fits(areaset, len) ==
    {s \in Floor .. MmapTop - len : ~Overlaps(areaset, s, s + len)}

HighestGap ==
    \A t \in Tasks : Live(t) => \A len \in 1 .. MaxLen :
      FindFreeBelow(space(t), len, MmapTop) =
        IF Fits(space(t), len) = {} THEN Nil ELSE Max(Fits(space(t), len))

\* A page of PROT_NONE is still its process's: exit frees it (virt.rs, "present,
\* not user-accessible, still the process's to free at exit, to copy on fork,
\* and to make accessible again with mprotect").
OwnedPagesFreed == \A t \in Tasks : Live(t) => Held(root[t]) = FreePageTable(root[t])

\* A page table is released when nobody uses it (scheduler.rs,
\* reap_zombie_child_filtered: "page_table_phys came from this zombie's task
\* struct; we just nulled the slot so no other path references it"): no living
\* task runs on a table the allocator may hand out.
LiveTablesKept == \A t \in Tasks : Live(t) => root[t] \notin free

\* A fork that fails gives back what it took (handlers.rs, sys_fork: "Error
\* paths re-enable IRQs and free anything partially built").
FailedForkFrees == [][\A t \in Tasks : ForkFails(t) => free' = free]_vars
=============================================================================
