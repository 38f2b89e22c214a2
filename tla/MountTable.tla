------------------------------ MODULE MountTable -------------------------------
(***************************************************************************)
(* The mount table (kernel/src/vfs/mount.rs) and the calls that change it: *)
(* mount, umount and mkfs of syscall/handlers.rs.  A path is a sequence of *)
(* characters, because resolve compares text: "/m" is a prefix of "/mm".   *)
(***************************************************************************)
EXTENDS Integers, Sequences, SequencesExt, FiniteSets, FiniteSetsExt

CONSTANTS
    MountPaths,     \* where file systems are mounted, <<"/">> among them
    LookupPaths,    \* paths that are looked up
    Devices,        \* names of block devices
    Home,           \* Home[d]: where the kernel mounts d at boot, <<>> if nowhere
    RamDisk,        \* the device of the one racfs instance sys_mount hands out
    MaxFs           \* bound on the file system objects created

VARIABLES
    mounts,     \* MountTable.mounts: sequence of [path, fs, dev]
    nextFs,     \* objects created so far: the identity of an Arc
    opened,     \* open files: the object and the st_dev recorded at open
    lost        \* devices formatted under a mounted file system

mountVars == <<mounts, nextFs, opened, lost>>

Slash == <<"/">>
NoDev == "none"

MountTypeOK ==
    /\ \A k \in DOMAIN mounts :
         /\ mounts[k].path \in MountPaths
         /\ mounts[k].fs \in 1 .. MaxFs
         /\ mounts[k].dev \in Devices \cup {NoDev}
    /\ opened \subseteq [fs : 1 .. MaxFs, dev : 0 .. MaxFs]
    /\ lost \subseteq Devices

-------------------------------------------------------------------------------
(* mount.rs *)

IsAt(k, path) == mounts[k].path = path
Mounted(path) == \E k \in DOMAIN mounts : IsAt(k, path)

\* resolve: the test on one entry.
MutTextPrefix(mpath, path) ==
    IF mpath = Slash THEN path[1] = "/" ELSE path = mpath \/ IsPrefix(mpath, path)

Matches(mpath, path) ==
    IF mpath = Slash THEN path[1] = "/"
    ELSE path = mpath \/ (IsPrefix(mpath, path) /\ path[Len(mpath) + 1] = "/")

\* resolve: the first of the longest matches, and what is left of the path.
Resolve(path) ==
    LET hits == {k \in DOMAIN mounts : Matches(mounts[k].path, path)}
        longest == Max({Len(mounts[k].path) : k \in hits})
        k == Min({j \in hits : Len(mounts[j].path) = longest})
        rest == SubSeq(path, longest + 1, Len(path))
    IN IF hits = {} THEN [k |-> 0, rest |-> <<>>]
       ELSE [k |-> k, rest |-> IF rest # <<>> /\ rest[1] = "/" THEN Tail(rest) ELSE rest]

\* device_id: the 1-based position of the object in the table, or 0.
DeviceId(fs) ==
    LET at == {k \in DOMAIN mounts : mounts[k].fs = fs} IN IF at = {} THEN 0 ELSE Min(at)

\* MountTable::mount: an entry at the same path is replaced in place.
WithMount(tab, path, fs, dev) ==
    IF \E k \in DOMAIN tab : tab[k].path = path
    THEN [k \in DOMAIN tab |-> IF tab[k].path = path THEN [path |-> path, fs |-> fs, dev |-> dev] ELSE tab[k]]
    ELSE Append(tab, [path |-> path, fs |-> fs, dev |-> dev])

\* kernel_main: the root and the devices with a place of their own.
MountInit ==
    LET boot == SetToSeq({d \in Devices : Home[d] # <<>>})
        tab[k \in 0 .. Len(boot)] ==
            IF k = 0 THEN <<[path |-> Slash, fs |-> 1, dev |-> NoDev]>>
            ELSE Append(tab[k - 1], [path |-> Home[boot[k]], fs |-> k + 1, dev |-> boot[k]])
    IN /\ mounts = tab[Len(boot)]
       /\ nextFs = Len(boot) + 2
       /\ opened = {} /\ lost = {}

-------------------------------------------------------------------------------
(* Calls *)

\* sys_mount: tmpfs and racfs are wrappers around one instance, fat32 is read
\* from the device named.  CAP_SYS_ADMIN is taken as held.
Mount(path, dev) ==
    /\ nextFs <= MaxFs
    /\ Resolve(path).k # 0
    /\ mounts' = WithMount(mounts, path, nextFs, dev)
    /\ nextFs' = nextFs + 1
    /\ UNCHANGED <<opened, lost>>

\* sys_umount: the root stays; the entries behind the one removed move up.
Umount(path) ==
    /\ path # Slash /\ Mounted(path)
    /\ mounts' = SelectSeq(mounts, LAMBDA m : m.path # path)
    /\ UNCHANGED <<nextFs, opened, lost>>

\* sys_mkfs: the device is taken to be in use when something is mounted at the
\* place the kernel gives it.
Mkfs(dev) ==
    /\ Home[dev] # <<>> => ~Mounted(Home[dev])
    /\ lost' = IF \E k \in DOMAIN mounts : mounts[k].dev = dev THEN lost \cup {dev} ELSE lost
    /\ UNCHANGED <<mounts, nextFs, opened>>

\* sys_open: OpenFile.dev.
Open(path) ==
    LET k == Resolve(path).k IN
    /\ k # 0
    /\ opened' = opened \cup {[fs |-> mounts[k].fs, dev |-> DeviceId(mounts[k].fs)]}
    /\ UNCHANGED <<mounts, nextFs, lost>>

Close(f) == opened' = opened \ {f} /\ UNCHANGED <<mounts, nextFs, lost>>

MountNext ==
    \/ \E path \in MountPaths :
         \/ Mount(path, NoDev)
         \/ Mount(path, RamDisk)
         \/ Umount(path)
    \/ \E dev \in Devices : Mkfs(dev)
    \/ \E path \in LookupPaths : Open(path)
    \/ \E f \in opened : Close(f)

MountSpec == MountInit /\ [][MountNext]_mountVars

-------------------------------------------------------------------------------
(* Properties *)

\* The components of a path.
Components(path) ==
    LET walk[k \in 0 .. Len(path)] ==
            IF k = 0 THEN <<>>
            ELSE LET done == walk[k - 1] IN
                 IF path[k] = "/" THEN Append(done, <<>>)
                 ELSE Append(Front(done), Append(Last(done), path[k]))
    IN SelectSeq(walk[Len(path)], LAMBDA c : c # <<>>)

\* Every absolute path resolves, to the mount with the most components in
\* common and with the remaining components as the rest, after any sequence of
\* mount and umount (resolve, umount's refusal of "/").
ResolveExact ==
    \A path \in LookupPaths :
        LET r == Resolve(path)
            mine == Components(mounts[r.k].path)
        IN /\ r.k # 0
           /\ Components(path) = mine \o Components(<<"/">> \o r.rest)
           /\ \A k \in DOMAIN mounts :
                LET other == Components(mounts[k].path) IN
                IsPrefix(other, Components(path)) => Len(other) <= Len(mine)

\* A path has one mount: umount of a path uncovers what is below it and never
\* an older mount at the same place (MountTable::mount).
OneMountPerPath == \A j, k \in DOMAIN mounts : mounts[j].path = mounts[k].path => j = k

\* What device_id's comment says: the st_dev of a file is "stable for the life
\* of a boot", so an open file and a fresh look at it agree.
DeviceIdStable == \A f \in opened : f.dev = DeviceId(f.fs)

\* What sys_mkfs's comment says: it "refuses if the device backs an active
\* mount".
MkfsRefusesBusy == lost = {}

===============================================================================
