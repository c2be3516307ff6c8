----------------------------- MODULE MCSyncAgent -----------------------------
(***************************************************************************)
(* The sync agent of a replica and the tasks that use it, on small         *)
(* instances.  They share no state here: the initial state picks the part  *)
(* that runs, and the others stay as they are.                             *)
(***************************************************************************)
EXTENDS SnapshotHash, SnapshotClone, Restore, RebuildTask, JobLists, TLC

CONSTANTS u1, u2, u3     \* replicas, jobs or calls

Two == {u1, u2}
Three == {u1, u2, u3}
Symmetry == Permutations(Two)

\* Three backups; the second changes a block that the third changes back.
MCContent == <<<<1, 1>>, <<2, 1>>, <<1, 3>>>>

\* Of the jobs that ended, one and two are retained.
MCRetained == [complete |-> 1, error |-> 2]

VARIABLES
    part,
    held, cuts, backing, location, diff, layout

layoutVars == <<held, cuts, backing, location, diff, layout>>
mcVars == <<part, layoutVars, listVars, hashVars, restoreVars, cloneVars, taskVars>>

-----------------------------------------------------------------------------
Layout == INSTANCE DiffDiskLayout WITH
    NumSectors <- 3, NumLayers <- 3, BlockSectors <- 2, MaxExtentsBuffer <- 2

\* Two jobs and a file that changes are the constants of the configuration; here one
\* job and a file that rots.
Rots == INSTANCE SnapshotHash WITH
    Jobs <- {u3}, MaxChanges <- 0, MaxRots <- 2, MaxHashCrashes <- 1, MaxHashes <- 3

\* One replica and three backups are the constants of the configuration; here two
\* replicas and the first two backups.
Chains == INSTANCE Restore WITH
    RestoreReplicas <- Two, Content <- <<<<1, 1>>, <<2, 1>>>>, MaxCalls <- 3, MaxCrashes <- 0

-----------------------------------------------------------------------------
\* A part that does not run is in one of its initial states.
MCInit ==
    /\ part \in {"layout", "lists", "changes", "rots", "data", "chains", "clone", "rebuild"}
    /\ IF part = "layout" THEN Layout!Init
       ELSE held = <<>> /\ cuts = {} /\ backing = FALSE /\ location = <<>> /\ diff = <<>> /\ layout = <<>>
    /\ ListInit
    /\ IF part = "rots" THEN Rots!HashInit ELSE HashInit
    /\ IF part = "chains" THEN Chains!RestoreInit ELSE RestoreInit
    /\ CloneInit /\ TaskInit

MCNext ==
    /\ UNCHANGED part
    /\ \/ part = "layout" /\ Layout!Next /\ UNCHANGED <<listVars, hashVars, restoreVars, cloneVars, taskVars>>
       \/ part = "lists" /\ ListNext /\ UNCHANGED <<layoutVars, hashVars, restoreVars, cloneVars, taskVars>>
       \/ part = "changes" /\ HashNext /\ UNCHANGED <<layoutVars, listVars, restoreVars, cloneVars, taskVars>>
       \/ part = "rots" /\ Rots!HashNext /\ UNCHANGED <<layoutVars, listVars, restoreVars, cloneVars, taskVars>>
       \/ part = "data" /\ RestoreNext /\ UNCHANGED <<layoutVars, listVars, hashVars, cloneVars, taskVars>>
       \/ part = "chains" /\ Chains!RestoreNext /\ UNCHANGED <<layoutVars, listVars, hashVars, cloneVars, taskVars>>
       \/ part = "clone" /\ CloneNext /\ UNCHANGED <<layoutVars, listVars, hashVars, restoreVars, taskVars>>
       \/ part = "rebuild" /\ TaskNext /\ UNCHANGED <<layoutVars, listVars, hashVars, restoreVars, cloneVars>>

MCSpec == MCInit /\ [][MCNext]_mcVars

-----------------------------------------------------------------------------
\* An incremental backup stores the blocks that changed, and an export sends data where
\* the volume has data (CompareSnapshot, GetDataLayout).
BackupCoversChanges == part = "layout" => Layout!BackupCoversChanges /\ Layout!LayoutExact
=============================================================================
