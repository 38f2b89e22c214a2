----------------------------- MODULE AtomicStore -----------------------------
(***************************************************************************)
(* What the racfs metadata journal promises (kernel/src/vfs/racfs.rs,      *)
(* "Metadata journal"): "a crash leaves the filesystem either entirely     *)
(* before the operation or entirely after it".                             *)
(*                                                                         *)
(* img is what a mount would find if the machine stopped now.  txn holds   *)
(* the sectors of the operation in progress.  A transaction that fits the  *)
(* journal enters img in one step.  File data is not journalled, so a data *)
(* sector may change by itself; and a transaction larger than the journal  *)
(* lands sector by sector, which the code announces and permits.           *)
(***************************************************************************)
EXTENDS Naturals, FiniteSets

CONSTANTS Lba, Val, None, DataLba, Cap

VARIABLES img, txn

vars == <<img, txn>>

Empty == [l \in Lba |-> None]

Touched == {l \in Lba : txn[l] # None}

Init ==
    /\ img \in [Lba -> Val]
    /\ txn = Empty

Stage(l, v) ==
    /\ txn' = [txn EXCEPT ![l] = v]
    /\ UNCHANGED img

Commit ==
    /\ Cardinality(Touched) <= Cap
    /\ img' = [l \in Lba |-> IF txn[l] # None THEN txn[l] ELSE img[l]]
    /\ txn' = Empty

\* The operation failed, or the machine stopped, before the commit.
Discard ==
    /\ txn' = Empty
    /\ UNCHANGED img

DataLand(l, v) ==
    /\ img' = [img EXCEPT ![l] = v]
    /\ UNCHANGED txn

LandUnjournaled(l) ==
    /\ Cardinality(Touched) > Cap
    /\ l \in Touched
    /\ img' = [img EXCEPT ![l] = txn[l]]
    /\ UNCHANGED txn

Next ==
    \/ \E l \in Lba, v \in Val : Stage(l, v)
    \/ Commit
    \/ Discard
    \/ \E l \in DataLba, v \in Val : DataLand(l, v)
    \/ \E l \in Lba : LandUnjournaled(l)

Spec == Init /\ [][Next]_vars

===============================================================================
