------------------------------ MODULE MCStorage --------------------------------
(***************************************************************************)
(* What crashes meet: racfs's journal and FAT32.  They share no state:     *)
(* each behaviour exercises the one Init chooses and the other keeps its   *)
(* initial state.                                                          *)
(***************************************************************************)
EXTENDS RacfsJournal, TLC

CONSTANTS m1, m2    \* metadata sectors of the journal

VARIABLES
    focus,
    fat, sizes, parents, down

\* Four clusters of three cells, with a power cut after any sector write.
Fat == INSTANCE Fat32 WITH
    NClusters <- 4, Slots <- 3, Names <- {"a", "b"}, Offsets <- {3}, Lengths <- {0, 4},
    MaxMap <- 0, PowerCuts <- TRUE, FormatSectors <- (256 .. 700) \cup {16384, 65535, 1048576},
    disk <- fat

fatVars == <<fat, sizes, parents, down>>

\* Two metadata sectors the model never tells apart.
Symmetry == Permutations({m1, m2})

\* The journal has the constants of the configuration: they satisfy Serialized.
StorageInit ==
    /\ focus \in {"fat", "journal"}
    /\ Fat!FatInit
    /\ Init
    /\ focus # "journal" => (\A i \in DOMAIN slot : slot[i] = 0) /\ (\A l \in Lba : disk[l] = 0)

StorageNext ==
    \/ focus = "fat" /\ Fat!FatNext /\ UNCHANGED <<focus, vars>>
    \/ focus = "journal" /\ Next /\ UNCHANGED <<focus, fatVars>>

StorageSpec == StorageInit /\ [][StorageNext]_<<focus, fatVars, vars>>

\* Fat32!ChainsSound, FatTree, FormatCovers: no cut leaves a named chain through
\* a free cluster, directories have one name each and ".." names the parent, and
\* format_fat32 gives every cluster an entry of the table.  The journal's state
\* has its type.
ChainsSound ==
    /\ focus = "fat" => Fat!FatTypeOK /\ Fat!ChainsSound /\ Fat!FatTree
    /\ focus = "fat" /\ Fat!FatInit => Fat!FormatCovers
    /\ focus = "journal" => TypeOK

\* Fat32!NeverNameless: rename never leaves a file without a name.
NeverNameless == focus = "fat" => Fat!NeverNameless

===============================================================================
