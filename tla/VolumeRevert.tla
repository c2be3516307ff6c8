---------------------------- MODULE VolumeRevert ----------------------------
(***************************************************************************)
(* Reverting a volume to a snapshot (pkg/controller/revert.go): what       *)
(* Revert reads before it takes the controller's lock, and what the        *)
(* frontend, a deletion and a rebuild do in between.                       *)
(*                                                                         *)
(* A snapshot is what the volume read when it was taken, a sequence of     *)
(* writes; a volume head is the snapshot it stands on and the writes since.*)
(***************************************************************************)
EXTENDS Integers, Sequences, FiniteSets

CONSTANTS Sources, Target,
          MaxWrites, MaxReverts, MaxRevertFaults,
          Race     \* whether what Revert has read may change before it has the lock

Addresses == Sources \cup {Target}
Out == [mode |-> "out", snaps |-> <<>>, removed |-> {}, base |-> 0, delta |-> <<>>]

VARIABLES
    rep,         \* each replica: mode, snapshots, the removed ones, and the head
    frontend,    \* up or down
    revert,      \* Revert: [pc, name, clients]
    rebuild,     \* how far the rebuild of the target is
    quiet,       \* no replica was reverted under a frontend
    writes, reverts, revertFaults

revertCounts == <<writes, reverts, revertFaults>>
revertVars == <<rep, frontend, revert, rebuild, quiet, revertCounts>>

In(m) == {r \in Addresses : rep[r].mode = m}
RW == In("RW")
View(x) == (IF x.base = 0 THEN <<>> ELSE x.snaps[x.base]) \o x.delta
NoRevert == [pc |-> "idle", name |-> 0, clients |-> {}]
Fault == revertFaults < MaxRevertFaults /\ revertFaults' = revertFaults + 1

-----------------------------------------------------------------------------
\* Revert up to the lock: the modes, the disks of a replica in mode RW, the clients of
\* clientsAndSnapshot, then the state of the frontend.
Check(n) ==
    /\ revert = NoRevert /\ reverts < MaxReverts /\ reverts' = reverts + 1
    /\ RW # {} /\ In("WO") = {}
    /\ \E r \in RW : n <= Len(rep[r].snaps) /\ n \notin rep[r].removed
    /\ revert' = [pc |-> "frontend", name |-> n, clients |-> RW]
    /\ UNCHANGED <<rep, frontend, rebuild, quiet, writes, revertFaults>>

FrontendState ==
    /\ revert.pc = "frontend"
    /\ revert' = IF frontend = "up" THEN NoRevert ELSE [revert EXCEPT !.pc = "revert"]
    /\ UNCHANGED <<rep, frontend, rebuild, quiet, revertCounts>>

\* Revert of one replica, which fails when the snapshot is no longer in its chain.
Reverted(r) == [rep[r] EXCEPT !.base = revert.name, !.delta = <<>>]

\* Mutant: a replica that failed stays in use.
FailedReplicaKept(r) == rep[r]

FailedReplica(r) == [rep[r] EXCEPT !.mode = "ERR"]

\* The loop over the clients, under the lock.
RevertAll ==
    /\ revert.pc = "revert"
    /\ \E bad \in SUBSET revert.clients :
        /\ (bad = {} /\ UNCHANGED revertFaults) \/ (bad # {} /\ Fault)
        /\ rep' = [r \in Addresses |-> IF r \notin revert.clients THEN rep[r]
                                      ELSE IF r \in bad \/ revert.name > Len(rep[r].snaps) THEN FailedReplica(r)
                                      ELSE Reverted(r)]
    /\ quiet' = (quiet /\ frontend = "down")
    /\ revert' = NoRevert
    /\ UNCHANGED <<frontend, rebuild, writes, reverts>>

\* What Revert excludes by what it read.
Undisturbed == Race \/ revert = NoRevert

-----------------------------------------------------------------------------
RevertStartFrontend ==
    /\ frontend = "down" /\ RW # {} /\ Undisturbed
    /\ frontend' = "up"
    /\ UNCHANGED <<rep, revert, rebuild, quiet, revertCounts>>

ShutdownFrontend ==
    /\ frontend = "up"
    /\ frontend' = "down"
    /\ UNCHANGED <<rep, revert, rebuild, quiet, revertCounts>>

RevertWriteAt ==
    /\ frontend = "up" /\ RW # {} /\ writes < MaxWrites
    /\ writes' = writes + 1
    /\ rep' = [r \in Addresses |-> IF rep[r].mode \in {"RW", "WO"}
                                  THEN [rep[r] EXCEPT !.delta = Append(@, writes')] ELSE rep[r]]
    /\ UNCHANGED <<frontend, revert, rebuild, quiet, reverts, revertFaults>>

MarkSnapshotRemoved(n) ==
    /\ RW # {} /\ rebuild = "no" /\ Undisturbed
    /\ \A r \in RW : n <= Len(rep[r].snaps) /\ n \notin rep[r].removed
    /\ rep' = [r \in Addresses |-> IF r \in RW THEN [rep[r] EXCEPT !.removed = @ \cup {n}] ELSE rep[r]]
    /\ UNCHANGED <<frontend, revert, rebuild, quiet, revertCounts>>

\* The rebuild: AddReplica snapshots every replica, PrepareRebuildReplica gives the new
\* one the head's metafile of a replica in mode RW, the snapshots are copied, and
\* VerifyRebuildReplica compares their names.
Snapshotted(x) ==
    [x EXCEPT !.snaps = Append(@, View(x)), !.base = Len(x.snaps) + 1, !.delta = <<>>]

RevertAddReplica ==
    /\ rebuild = "no" /\ rep[Target].mode = "out" /\ RW # {} /\ Undisturbed
    /\ rep' = [r \in Addresses |-> IF r = Target THEN [Out EXCEPT !.mode = "WO", !.snaps = <<<<>>>>, !.base = 1]
                                  ELSE IF r \in RW THEN Snapshotted(rep[r]) ELSE rep[r]]
    /\ rebuild' = "added"
    /\ UNCHANGED <<frontend, revert, quiet, revertCounts>>

PrepareRebuildReplica(r) ==
    /\ rebuild = "added" /\ r \in RW
    /\ rep' = [rep EXCEPT ![Target].base = rep[r].base, ![Target].snaps = [n \in 1..Len(rep[r].snaps) |-> <<>>]]
    /\ rebuild' = "prepared"
    /\ UNCHANGED <<frontend, revert, quiet, revertCounts>>

SyncFiles(r) ==
    /\ rebuild = "prepared" /\ r \in RW
    /\ rep' = [rep EXCEPT ![Target].snaps = rep[r].snaps, ![Target].removed = rep[r].removed]
    /\ rebuild' = "synced"
    /\ UNCHANGED <<frontend, revert, quiet, revertCounts>>

VerifyRebuildReplica(r) ==
    /\ rebuild = "synced" /\ r \in RW
    /\ Len(rep[r].snaps) = Len(rep[Target].snaps)
    /\ rep' = [rep EXCEPT ![Target].mode = "RW"]
    /\ rebuild' = "no"
    /\ UNCHANGED <<frontend, revert, quiet, revertCounts>>

-----------------------------------------------------------------------------
RevertInit ==
    /\ rep = [r \in Addresses |-> IF r = Target THEN Out
                                 ELSE [Out EXCEPT !.mode = "RW", !.snaps = <<<<-1>>, <<-1, -2>>>>, !.base = 2]]
    /\ frontend \in {"up", "down"}
    /\ revert = NoRevert /\ rebuild = "no" /\ quiet = TRUE
    /\ writes = 0 /\ reverts = 0 /\ revertFaults = 0

RevertNext ==
    \/ (\E n \in 1..3 : Check(n) \/ MarkSnapshotRemoved(n)) \/ FrontendState \/ RevertAll
    \/ RevertStartFrontend \/ ShutdownFrontend \/ RevertWriteAt
    \/ RevertAddReplica \/ \E r \in Sources : PrepareRebuildReplica(r) \/ SyncFiles(r) \/ VerifyRebuildReplica(r)

RevertSpec == RevertInit /\ [][RevertNext]_revertVars

\* Replicas that serve reads hold the same volume: a replica that could not be reverted
\* serves none, and a replica rebuilt before or after has the reverted volume.
RevertedTogether == \A r, q \in RW : View(rep[r]) = View(rep[q])

\* "Volume frontend enabled, aborting snapshot revert": no replica is reverted under a
\* frontend that is up.
RevertQuiet == quiet
=============================================================================
