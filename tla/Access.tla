-------------------------------- MODULE Access --------------------------------
(***************************************************************************)
(* Credentials and permissions: the checks of security/ and of the path    *)
(* walk in vfs/mount.rs, as the file system calls of syscall/handlers.rs   *)
(* make them.  The files are those of one writable mount; what the store   *)
(* does with them is modelled by the modules of the file systems.          *)
(***************************************************************************)
EXTENDS Integers, Sequences

CONSTANTS
    Tasks,      \* task slots
    InitTask,   \* the one init runs in
    Uids,       \* user identifiers, 0 among them
    Gids,       \* group identifiers, 0 among them
    Names,      \* component names
    Modes,      \* permission bits: [o, g, a], each a set of "r", "w", "x";
                \* for a new file, those the umask leaves
    MaxInodes,  \* bound on the inodes of the mount
    MaxFiles    \* MAX_FDS

ASSUME AccessAssumption ==
    /\ InitTask \in Tasks
    /\ 0 \in Uids /\ Uids \subseteq Nat /\ 0 \in Gids
    /\ MaxInodes \in Nat \ {0} /\ MaxFiles \in Nat

VARIABLES
    cred,   \* cred[p]: Credentials, or Dead
    inode,  \* inode[i]: metadata, one name (directory and component)
    files,    \* files[p]: the open descriptors
    by      \* who made the last call, if it was one through a path by a process
            \* without capabilities; else 0

accVars == <<cred, inode, files, by>>

Inodes == 1 .. MaxInodes
Root == 1
Dead == [uid |-> -1, euid |-> -1, gid |-> -1, egid |-> -1, perm |-> FALSE, eff |-> FALSE]
Unused == [t |-> "none", mode |-> [o |-> {}, g |-> {}, a |-> {}], uid |-> 0, gid |-> 0, full |-> FALSE,
           up |-> 0, name |-> ""]
AllBits == [o |-> {"r", "w", "x"}, g |-> {"r", "w", "x"}, a |-> {"r", "w", "x"}]

Live(p) == cred[p] # Dead

AccTypeOK ==
    /\ \A p \in Tasks : cred[p] = Dead \/
         /\ cred[p].uid \in Uids /\ cred[p].euid \in Uids
         /\ cred[p].gid \in Gids /\ cred[p].egid \in Gids
    /\ \A i \in Inodes :
         /\ inode[i].t \in {"none", "file", "dir", "gone"}
         /\ inode[i].t \in {"file", "dir"} /\ i # Root => inode[inode[i].up].t = "dir"
    /\ \A p \in Tasks : Len(files[p]) <= MaxFiles
    /\ by \in Tasks \cup {0}

\* init runs as root; the tree is empty.
AccInit ==
    /\ cred = [p \in Tasks |-> IF p = InitTask
                               THEN [uid |-> 0, euid |-> 0, gid |-> 0, egid |-> 0, perm |-> TRUE, eff |-> TRUE]
                               ELSE Dead]
    /\ inode = [i \in Inodes |-> IF i = Root THEN [Unused EXCEPT !.t = "dir", !.mode = AllBits] ELSE Unused]
    /\ files = [p \in Tasks |-> <<>>]
    /\ by = 0

-------------------------------------------------------------------------------
(* security/ *)

\* has_cap: every capability is held or none is, as no call changes one alone.
HasCap(c) == c.euid = 0 \/ c.eff

\* drop_for_uid_change
DropForUidChange(old, c) ==
    IF old.uid = 0 /\ c.uid # 0 THEN [c EXCEPT !.perm = FALSE, !.eff = FALSE]
    ELSE IF old.euid = 0 /\ c.euid # 0 THEN [c EXCEPT !.eff = FALSE]
    ELSE IF old.euid # 0 /\ c.euid = 0 THEN [c EXCEPT !.eff = c.perm]
    ELSE c

\* can_access
CanAccess(c, m, bit) ==
    IF HasCap(c)
    THEN bit = "x" /\ m.t = "file" => "x" \in m.mode.o \cup m.mode.g \cup m.mode.a
    ELSE bit \in IF c.euid = m.uid THEN m.mode.o
                 ELSE IF m.gid \in {c.egid, c.gid} THEN m.mode.g
                 ELSE m.mode.a

-------------------------------------------------------------------------------
(* The walk.  A path is a directory and a last component.                  *)

Named(i) == inode[i].t \in {"file", "dir"}
Dirs == {i \in Inodes : inode[i].t = "dir"}
\* i and the directories above it: what is closed under ".." and holds i.
Above(i) ==
    {x \in Inodes : \A S \in SUBSET Inodes :
        i \in S /\ (\A j \in S \ {Root} : inode[j].up \in S) => x \in S}
At(d, n) == {i \in Inodes \ {Root} : Named(i) /\ inode[i].up = d /\ inode[i].name = n}
Holds(d, n) == At(d, n) # {}
File(d, n) == CHOOSE i \in At(d, n) : TRUE

\* walk and require_search_to_parent: each directory down to d grants search.
Search(c, d) == HasCap(c) \/ \A x \in Above(d) : CanAccess(c, inode[x], "x")

\* The directory will lose or gain a name: write and search on it.
MayChange(c, d) == Search(c, d) /\ CanAccess(c, inode[d], "w") /\ CanAccess(c, inode[d], "x")

ByPath(p) == Live(p) /\ by' = IF HasCap(cred[p]) THEN 0 ELSE p
ByFd(p) == Live(p) /\ by' = 0
FreeSlot == {i \in Inodes : inode[i].t = "none"}
FirstFree == CHOOSE i \in FreeSlot : \A j \in FreeSlot : i <= j
New(p, t, m, d, n) ==
    [t |-> t, mode |-> m, uid |-> cred[p].euid, gid |-> cred[p].egid, full |-> FALSE, up |-> d, name |-> n]
Opened(p, i, acc) ==
    IF Len(files[p]) < MaxFiles THEN [files EXCEPT ![p] = Append(@, [ino |-> i, acc |-> acc])] ELSE files

\* Whether the inode of a removed name lives on in a descriptor.
Gone(i) == IF \E q \in Tasks : \E k \in DOMAIN files[q] : files[q][k].ino = i
           THEN [inode[i] EXCEPT !.t = "gone", !.up = 0, !.name = ""] ELSE Unused

-------------------------------------------------------------------------------
(* Calls through a path *)

\* sys_open of an existing file; O_TRUNC empties it before the descriptor is
\* allocated, so a full table still loses the contents.
OpenFile(p, d, n, acc, trunc) ==
    LET i == File(d, n)
        m == inode[i]
    IN
    /\ ByPath(p)
    /\ Holds(d, n) /\ Search(cred[p], d)
    /\ CanAccess(cred[p], m, acc)
    /\ trunc => CanAccess(cred[p], m, "w")
    /\ inode' = IF trunc /\ m.t = "file" /\ acc # "r" THEN [inode EXCEPT ![i].full = FALSE] ELSE inode
    /\ files' = Opened(p, i, acc)
    /\ UNCHANGED cred

\* sys_open with O_CREAT of a missing one: the new file's own mode decides
\* whether it is opened, and a refusal leaves it behind.
CreateFile(p, d, n, m, acc) ==
    LET i == FirstFree
        f == New(p, "file", m, d, n)
    IN
    /\ ByPath(p)
    /\ FreeSlot # {} /\ ~Holds(d, n) /\ MayChange(cred[p], d)
    /\ inode' = [inode EXCEPT ![i] = f]
    /\ files' = IF CanAccess(cred[p], f, acc) THEN Opened(p, i, acc) ELSE files
    /\ UNCHANGED cred

\* sys_mkdir
Mkdir(p, d, n, m) ==
    /\ ByPath(p)
    /\ FreeSlot # {} /\ ~Holds(d, n) /\ MayChange(cred[p], d)
    /\ inode' = [inode EXCEPT ![FirstFree] = New(p, "dir", m, d, n)]
    /\ UNCHANGED <<cred, files>>

Empty(i) == \A j \in Inodes : ~(Named(j) /\ inode[j].up = i)

\* sys_unlink
Unlink(p, d, n) ==
    LET i == File(d, n) IN
    /\ ByPath(p)
    /\ Holds(d, n) /\ MayChange(cred[p], d)
    /\ inode[i].t = "dir" => Empty(i)
    /\ inode' = [inode EXCEPT ![i] = Gone(i)]
    /\ UNCHANGED <<cred, files>>

\* sys_rename: an existing target is replaced.
Rename(p, d, n, d2, n2) ==
    LET i == File(d, n)
        old == At(d2, n2)
    IN
    /\ ByPath(p)
    /\ Holds(d, n) /\ i \notin old
    /\ MayChange(cred[p], d) /\ MayChange(cred[p], d2)
    /\ \A j \in old : inode[j].t = inode[i].t /\ (inode[j].t = "dir" => Empty(j))
    /\ inode[i].t = "dir" => i \notin Above(d2)
    /\ inode' = [j \in Inodes |-> IF j = i THEN [inode[i] EXCEPT !.up = d2, !.name = n2]
                                  ELSE IF j \in old THEN Gone(j)
                                  ELSE inode[j]]
    /\ UNCHANGED <<cred, files>>

MutTruncateAnyone(p, d, n) ==
    LET i == File(d, n) IN
    /\ ByPath(p)
    /\ Holds(d, n) /\ Search(cred[p], d)
    /\ inode[i].t = "file"
    /\ inode' = [inode EXCEPT ![i].full = FALSE]
    /\ UNCHANGED <<cred, files>>

\* sys_truncate
Truncate(p, d, n) ==
    LET i == File(d, n) IN
    /\ ByPath(p)
    /\ Holds(d, n) /\ Search(cred[p], d)
    /\ inode[i].t = "file" /\ CanAccess(cred[p], inode[i], "w")
    /\ inode' = [inode EXCEPT ![i].full = FALSE]
    /\ UNCHANGED <<cred, files>>

\* sys_chmod: the owner, or CAP_FOWNER.
Chmod(p, d, n, m) ==
    LET i == File(d, n) IN
    /\ ByPath(p)
    /\ Holds(d, n) /\ Search(cred[p], d)
    /\ cred[p].euid = inode[i].uid \/ HasCap(cred[p])
    /\ inode' = [inode EXCEPT ![i].mode = m]
    /\ UNCHANGED <<cred, files>>

\* sys_chown: CAP_CHOWN.
Chown(p, d, n, u, g) ==
    /\ ByPath(p)
    /\ Search(cred[p], d) /\ Holds(d, n) /\ HasCap(cred[p])
    /\ inode' = [inode EXCEPT ![File(d, n)] = [@ EXCEPT !.uid = u, !.gid = g]]
    /\ UNCHANGED <<cred, files>>

-------------------------------------------------------------------------------
(* Calls through a descriptor, and on the process itself *)

\* OpenFile::write and sys_ftruncate: the access mode of the descriptor decides.
Write(p, k, full) ==
    /\ ByFd(p)
    /\ k \in DOMAIN files[p]
    /\ files[p][k].acc # "r" /\ inode[files[p][k].ino].t \in {"file", "gone"}
    /\ inode' = [inode EXCEPT ![files[p][k].ino].full = full]
    /\ UNCHANGED <<cred, files>>

\* The last descriptor of a removed file lets its inode go.
Released(table) ==
    [i \in Inodes |-> IF inode[i].t = "gone" /\ \A q \in Tasks : \A k \in DOMAIN table[q] : table[q][k].ino # i
                      THEN Unused ELSE inode[i]]

\* sys_close, of the last entry: the order of descriptors does not matter here.
CloseFile(p) ==
    /\ ByFd(p) /\ files[p] # <<>>
    /\ files' = [files EXCEPT ![p] = SubSeq(@, 1, Len(@) - 1)]
    /\ inode' = Released(files')
    /\ UNCHANGED cred

\* sys_setuid
SetUid(p, u) ==
    /\ ByFd(p)
    /\ HasCap(cred[p]) \/ u \in {cred[p].uid, cred[p].euid}
    /\ cred' = [cred EXCEPT ![p] = DropForUidChange(@,
                  IF HasCap(@) THEN [@ EXCEPT !.uid = u, !.euid = u] ELSE [@ EXCEPT !.euid = u])]
    /\ UNCHANGED <<inode, files>>

\* sys_setgid
SetGid(p, g) ==
    /\ ByFd(p)
    /\ HasCap(cred[p]) \/ g \in {cred[p].gid, cred[p].egid}
    /\ cred' = [cred EXCEPT ![p] = IF HasCap(@) THEN [@ EXCEPT !.gid = g, !.egid = g] ELSE [@ EXCEPT !.egid = g]]
    /\ UNCHANGED <<inode, files>>

\* sys_fork and sys_spawn: the child starts with its parent's credentials and
\* descriptors.
Fork(p, q) ==
    /\ ByFd(p) /\ ~Live(q)
    /\ cred' = [cred EXCEPT ![q] = cred[p]]
    /\ files' = [files EXCEPT ![q] = files[p]]
    /\ UNCHANGED inode

\* sys_exit: close_all.
Exit(p) ==
    /\ ByFd(p)
    /\ cred' = [cred EXCEPT ![p] = Dead]
    /\ files' = [files EXCEPT ![p] = <<>>]
    /\ inode' = Released(files')

AccNext ==
    \E p \in Tasks :
        \/ \E d \in Dirs, n \in Names :
             \/ \E acc \in {"r", "w"}, trunc \in BOOLEAN : OpenFile(p, d, n, acc, trunc)
             \/ \E m \in Modes : CreateFile(p, d, n, m, "w")
             \/ \E m \in Modes : Mkdir(p, d, n, m)
             \/ \E m \in Modes : Chmod(p, d, n, m)
             \/ Unlink(p, d, n)
             \/ Truncate(p, d, n)
             \/ \E d2 \in Dirs, n2 \in Names : Rename(p, d, n, d2, n2)
             \/ \E u \in Uids, g \in Gids : Chown(p, d, n, u, g)
        \/ \E k \in 1 .. MaxFiles, full \in BOOLEAN : Write(p, k, full)
        \/ CloseFile(p)
        \/ \E u \in Uids : SetUid(p, u)
        \/ \E g \in Gids : SetGid(p, g)
        \/ \E q \in Tasks : Fork(p, q)
        \/ Exit(p)

AccSpec == AccInit /\ [][AccNext]_accVars

-------------------------------------------------------------------------------
(* Properties *)

\* Privileges are dropped for good (drop_for_uid_change: setuid(1000) then
\* setuid(0) must not be a round trip): a living process that lost its
\* capabilities, or that is no longer root's, has none after any later call,
\* and neither have its children.
DropIsForever ==
    [][\A p \in Tasks : cred'[p] # Dead /\ HasCap(cred'[p]) =>
         IF Live(p) THEN HasCap(cred[p]) /\ cred[p].uid = 0 ELSE \E q \in Tasks : cred[q] = cred'[p]]_accVars

\* A private directory protects what is in it (lookup_path_as,
\* require_search_to_parent): a call through a path neither opens, changes,
\* moves nor removes anything below a directory its caller may not search,
\* whatever was renamed, created or given away before.
SearchGuards ==
    [][by' # 0 =>
         LET newFiles == {files'[by'][k].ino : k \in DOMAIN files'[by'] \ DOMAIN files[by']} IN
         \A i \in Inodes \ {Root} :
            Named(i) /\ (inode'[i] # inode[i] \/ i \in newFiles) =>
                \A x \in Above(i) \ {i} : CanAccess(cred[by'], inode[x], "x")]_accVars

\* Nobody's data changes by surprise (sys_open, sys_truncate): a call through
\* a path empties a file only for a process that may write it now.
DataGuards ==
    [][by' # 0 => \A i \in Inodes :
         Named(i) /\ inode'[i].t = inode[i].t /\ inode'[i].full # inode[i].full =>
             CanAccess(cred[by'], inode[i], "w")]_accVars

\* What the permission checks are for, together: privileges do not come back,
\* private directories protect, and data changes only for who may write it.
AccessGuards == DropIsForever /\ SearchGuards /\ DataGuards

===============================================================================
