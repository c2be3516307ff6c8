---------------------------- MODULE VolumeProofs ----------------------------
(***************************************************************************)
(* Proofs about the operations of a volume.                                *)
(*                                                                         *)
(* SnapshotFreeze: for any number of calls, crashes and failures of the    *)
(* external tools the right file system is frozen for as long as it should *)
(* be, as long as no call begins while another one cleans up.              *)
(*                                                                         *)
(* Expansion, for any replicas, calls and sizes, when no call asks for the *)
(* size the volume has (~SameSize) and no replica is added during an       *)
(* expansion (~OverlapAdd).  The properties are not inductive: that the    *)
(* device may be raised after the replicas rests on all replicas in use    *)
(* having the new size from the step that holds the lock to the end, on    *)
(* there being one expansion, and on a replica that is about to be added   *)
(* having the size of the volume.                                          *)
(*                                                                         *)
(* VolumeRevert, for any replicas, reverts, writes and faults, when what   *)
(* Revert has read still holds once it has the lock (~Race): the replicas  *)
(* that serve reads hold the same volume.                                  *)
(*                                                                         *)
(* VolumeLifecycle, for any replicas, faults and rounds, when nothing but  *)
(* I/O meets a shutdown (Overlaps = {}) and stopping the device does not   *)
(* fail: what the device holds at the end reaches a good replica.          *)
(*                                                                         *)
(* VolumeStart, for any replicas, counters, sizes and requests: the        *)
(* replicas a start leaves in use are in step, and the newest is among     *)
(* them.                                                                   *)
(***************************************************************************)
EXTENDS Expansion, SnapshotFreeze, VolumeLifecycle, VolumeRevert, VolumeStart, TLAPS, WellFoundedInduction

FreezeLabels == {"idle", "list", "mount", "verify", "freeze", "take", "unlock", "unfreeze", "unmount", "done"}
Resting == {"idle", "done"}
HoldsFrozen == {"take", "unlock", "unfreeze"}

FreezeTypeOK ==
    /\ freezePc \in [Callers -> FreezeLabels]
    /\ frozen \in [Callers -> BOOLEAN]
    /\ bind \in {"none", "volume", "root"}
    /\ thawed \in [{"volume", "root"} -> BOOLEAN]
    /\ running \in BOOLEAN /\ gaveUp \in BOOLEAN

\* The inductive invariant.  While the volume is frozen and no unfreeze was given
\* up, the freeze point leads to it, so that whoever unfreezes next finds it; and in
\* a running engine there is a call that will.
FreezeInv ==
    /\ FreezeTypeOK
    /\ \A c, d \in Callers : freezePc[c] \notin Resting /\ freezePc[d] \notin Resting => c = d
    /\ ~running => \A c \in Callers : freezePc[c] \in Resting
    /\ \A c \in Callers : freezePc[c] = "freeze" => bind = "volume"
    /\ thawed["root"]
    /\ ~thawed["volume"] /\ ~gaveUp => bind = "volume"
    /\ \A c \in Callers : freezePc[c] = "take" /\ frozen[c] => ~thawed["volume"]
    /\ \A c \in Callers : freezePc[c] \in {"idle", "list", "mount", "verify", "freeze"} => ~frozen[c]
    /\ running /\ ~thawed["volume"] /\ ~gaveUp => \E c \in Callers : frozen[c] /\ freezePc[c] \in HoldsFrozen

-----------------------------------------------------------------------------
\* The invariant holds at the start.
LEMMA FreezeStarts == FreezeInit => FreezeInv
  BY Zenon DEF FreezeInit, FreezeInv, FreezeTypeOK, FreezeLabels, Resting

\* Unfreezing the device leaves no file system frozen, or gives up.
LEMMA FreezeUndone ==
  ASSUME FreezeInv, UnfreezeFilesystemForDevice
  PROVE  /\ thawed' \in [{"volume", "root"} -> BOOLEAN] /\ thawed'["root"]
         /\ bind' \in {"none", "volume", "root"} /\ gaveUp' \in BOOLEAN
         /\ gaveUp' \/ thawed'["volume"]
<1> DEFINE from == IF bind # "none" THEN bind ELSE IF source THEN "volume" ELSE "none"
<1>1. CASE thawed' = [d \in DOMAIN thawed |-> thawed[d] \/ d = from] /\ bind' = "none" /\ UNCHANGED gaveUp
  BY Zenon, <1>1 DEF FreezeInv, FreezeTypeOK
<1>2. CASE gaveUp' = TRUE /\ UNCHANGED <<thawed, bind>>
  BY Zenon, <1>2 DEF FreezeInv, FreezeTypeOK
<1>3. QED
  BY Zenon, <1>1, <1>2 DEF UnfreezeFilesystemForDevice

\* The steps of one call of Snapshot preserve the invariant.
LEMMA FreezeCall ==
  ASSUME FreezeInv, NEW c \in Callers, SnapshotStep(c)
  PROVE  FreezeInv'
<1> USE DEF FreezeInv, FreezeTypeOK, FreezeLabels, Resting, HoldsFrozen, InCall, FreezeGoto, ToolFails, engine, mounts
<1>1. CASE List(c)
  BY Zenon, <1>1 DEF List
<1>2. CASE attemptBindMountFilesystem(c)
  BY Zenon, <1>2 DEF attemptBindMountFilesystem
<1>3. CASE Verify(c)
  BY Zenon, <1>3 DEF Verify
<1>4. CASE FreezeFilesystem(c)
  <2>1. /\ freezePc[c] = "freeze" /\ bind = "volume" /\ UNCHANGED <<bind, running, gaveUp>>
        /\ running /\ \A d \in Callers \ {c} : freezePc[d] \in Resting
    BY Zenon, <1>4 DEF FreezeFilesystem
  <2>2. CASE /\ thawed' = [thawed EXCEPT !["volume"] = FALSE]
             /\ frozen' = [frozen EXCEPT ![c] = TRUE] /\ freezePc' = [freezePc EXCEPT ![c] = "take"]
    <3>1. /\ thawed' \in [{"volume", "root"} -> BOOLEAN] /\ thawed'["root"] /\ ~thawed'["volume"]
          /\ frozen' \in [Callers -> BOOLEAN] /\ frozen'[c] /\ \A d \in Callers \ {c} : frozen'[d] = frozen[d]
      BY Zenon, <2>2
    <3>2. freezePc' \in [Callers -> FreezeLabels] /\ freezePc'[c] = "take" /\ \A d \in Callers \ {c} : freezePc'[d] = freezePc[d]
      BY Zenon, <2>2
    <3>3. QED
      BY Zenon, <2>1, <3>1, <3>2
  <2>3. CASE freezePc' = [freezePc EXCEPT ![c] = "unlock"] /\ UNCHANGED <<thawed, frozen>>
    <3>1. freezePc' \in [Callers -> FreezeLabels] /\ freezePc'[c] = "unlock" /\ \A d \in Callers \ {c} : freezePc'[d] = freezePc[d]
      BY Zenon, <2>3
    <3>2. QED
      BY Zenon, <2>1, <2>3, <3>1
  <2>4. QED
    BY Zenon, <1>4, <2>1, <2>2, <2>3 DEF FreezeFilesystem
<1>5. CASE Take(c)
  BY Zenon, <1>5 DEF Take
<1>6. CASE UnlockFreeze(c)
  BY Zenon, <1>6 DEF UnlockFreeze
<1>7. CASE UnfreezeFilesystem(c)
  <2>1. CASE UNCHANGED thawed /\ gaveUp' = TRUE
    BY Zenon, <1>7, <2>1 DEF UnfreezeFilesystem
  <2>2. CASE thawed' = [d \in DOMAIN thawed |-> thawed[d] \/ d = bind] /\ UNCHANGED gaveUp
    <3>1. thawed' \in [{"volume", "root"} -> BOOLEAN] /\ thawed'["root"]
      BY Zenon, <2>2
    <3>2. ~gaveUp => thawed'["volume"]
      BY Zenon, <2>2
    <3>3. QED
      BY <1>7, <2>2, <3>1, <3>2 DEF UnfreezeFilesystem
  <2>3. QED
    BY Zenon, <1>7, <2>1, <2>2 DEF UnfreezeFilesystem
<1>8. CASE CleanupMountPoint(c)
  BY <1>8 DEF CleanupMountPoint
<1>9. QED
  BY Zenon, <1>1, <1>2, <1>3, <1>4, <1>5, <1>6, <1>7, <1>8 DEF SnapshotStep

\* Every step preserves the invariant, if calls do not overlap.
LEMMA FreezeStep ==
  ASSUME ~Overlap, FreezeInv, [FreezeNext]_freezeVars
  PROVE  FreezeInv'
<1> USE DEF FreezeInv, FreezeTypeOK, FreezeLabels, Resting, HoldsFrozen
<1>1. CASE \E c \in Callers : Begin(c)
  BY <1>1 DEF Begin, InCall, FreezeGoto, Quiet, engine, mounts
<1>2. CASE \E c \in Callers : SnapshotStep(c)
  BY Zenon, <1>2, FreezeCall
<1>3. CASE Shutdown
  BY Zenon, <1>3, FreezeUndone DEF Shutdown, Quiet, engine
<1>4. CASE Crash
  BY Zenon, <1>4 DEF Crash, mounts
<1>5. CASE StartController
  BY Zenon, <1>5, FreezeUndone DEF StartController
<1>6. CASE UserMounts
  BY Zenon, <1>6 DEF UserMounts, engine
<1>7. CASE UNCHANGED freezeVars
  BY Zenon, <1>7 DEF freezeVars
<1>8. QED
  BY Zenon, <1>1, <1>2, <1>3, <1>4, <1>5, <1>6, <1>7 DEF FreezeNext

\* However the tools fail, whatever the user mounts and wherever the engine dies: once
\* no snapshot is being taken by a running engine the file system of the volume is
\* thawed, unless an unfreeze was given up; one that is taken as frozen is taken of a
\* frozen file system; and the root file system is never frozen, although the source of
\* a bind mount may go away before it is bound (Snapshot, tryFreeze, startController).
THEOREM FreezesRight == ASSUME ~Overlap PROVE FreezeSpec => []FreezeRight
<1>1. FreezeInv => FreezeRight
  BY Zenon DEF FreezeInv, FreezeRight, NotLeftFrozen, RootNeverFrozen, FrozenWhileTaken, InCall, Quiet, Resting, HoldsFrozen
<1>2. FreezeInv /\ [FreezeNext]_freezeVars => FreezeInv'
  BY Zenon, FreezeStep
<1>3. QED
  BY FreezeStarts, <1>1, <1>2, PTL DEF FreezeSpec

-----------------------------------------------------------------------------
ExpTypeOK ==
    /\ csize \in Nat /\ device \in Nat /\ addSize \in Nat /\ isExpanding \in BOOLEAN
    /\ size \in [Replicas -> Nat]
    /\ mode \in [Replicas -> {"out", "RW", "WO", "ERR"}]
    /\ task \in [Tasks -> [pc : {"idle", "sync", "frontend", "finish"}, size : Nat, expanded : BOOLEAN]]
    /\ adder \in {"idle", "check", "create", "done"}

\* The device of the volume has been expanded, the volume not yet.
Raised(t) == task[t].pc = "finish" /\ task[t].expanded

\* What holds of a call.
TaskInv(t) ==
    /\ task[t].pc # "idle" => task[t].size > csize
    /\ task[t].pc # "finish" => ~task[t].expanded
    /\ task[t].pc = "frontend" \/ Raised(t) => \A r \in Live : size[r] = task[t].size
    /\ Raised(t) => device = task[t].size

\* What holds of the replica that is added.
AddInv ==
    /\ adder \in {"check", "create"} => addSize = csize /\ ~isExpanding
    /\ adder = "create" => size[NewReplica] = addSize
    /\ adder # "done" => mode[NewReplica] = "out"

ExpInv ==
    /\ ExpTypeOK
    /\ FlagExact
    /\ \A t, u \in Tasks : task[t].pc # "idle" /\ task[u].pc # "idle" => t = u
    /\ \A t \in Tasks : TaskInv(t)
    /\ (\A t \in Tasks : ~Raised(t)) => device = csize
    /\ AddInv
    /\ ReplicasCoverVolume
    /\ ReplicasAgree

-----------------------------------------------------------------------------
\* The invariant holds at the start.
LEMMA ExpInit == Init => ExpInv
<1> SUFFICES ASSUME Init PROVE ExpInv
  BY Zenon
<1> USE ExpansionAssumption
<1>1. ExpTypeOK
  BY Zenon DEF Init, ExpTypeOK, Idle
<1>2. \A t \in Tasks : task[t].pc = "idle" /\ ~task[t].expanded
  BY Zenon DEF Init, Idle
<1>3. FlagExact /\ \A t \in Tasks : ~Raised(t) /\ TaskInv(t)
  BY Zenon, <1>2 DEF Init, FlagExact, Raised, TaskInv
<1>4. AddInv
  BY Zenon DEF Init, AddInv
<1>5. \A r \in Live : r # NewReplica /\ size[r] = csize
  BY Zenon DEF Init, Live
<1>6. ReplicasCoverVolume /\ ReplicasAgree
  BY <1>1, <1>5 DEF Init, ReplicasCoverVolume, ReplicasAgree, ExpTypeOK, Live
<1>7. QED
  BY Zenon, <1>1, <1>2, <1>3, <1>4, <1>6 DEF ExpInv, Init

\* startExpansion admits a call only when no other is in progress.
LEMMA ExpExpand ==
  ASSUME ~SameSize, ~OverlapAdd, ExpInv, NEW t \in Tasks, NEW s \in Sizes, Expand(t, s)
  PROVE  ExpInv'
<1> USE ExpansionAssumption
<1>1. \A u \in Tasks : task[u].pc = "idle" /\ ~task[u].expanded
  BY Zenon DEF Expand, ExpInv, FlagExact, TaskInv
<1>2. /\ csize < s /\ isExpanding' = TRUE /\ s \in Nat
      /\ task' = [task EXCEPT ![t] = [pc |-> "sync", size |-> s, expanded |-> FALSE]]
      /\ adder \in {"idle", "done"}
      /\ UNCHANGED <<csize, size, mode, device, adder, addSize>>
  BY Zenon DEF Expand
<1>3. ExpTypeOK'
  BY Zenon, <1>2 DEF ExpInv, ExpTypeOK
<1>4. task'[t].pc = "sync" /\ task'[t].size = s /\ ~task'[t].expanded
  BY Zenon, <1>2 DEF ExpInv, ExpTypeOK
<1>5. \A u \in Tasks \ {t} : task'[u].pc = "idle" /\ ~task'[u].expanded
  BY Zenon, <1>1, <1>2 DEF ExpInv, ExpTypeOK
<1>6. FlagExact' /\ \A u \in Tasks : TaskInv(u)' /\ ~Raised(u)'
  BY Zenon, <1>2, <1>4, <1>5 DEF FlagExact, TaskInv, Raised
<1>7. device' = csize'
  BY Zenon, <1>1, <1>2 DEF ExpInv, Raised
<1>8. AddInv'
  BY Zenon, <1>2 DEF AddInv, ExpInv
<1>9. ReplicasCoverVolume' /\ ReplicasAgree'
  BY Zenon, <1>2 DEF ExpInv, ReplicasCoverVolume, ReplicasAgree, Live
<1>10. QED
  BY Zenon, <1>3, <1>4, <1>5, <1>6, <1>7, <1>8, <1>9 DEF ExpInv

\* Only the call in progress takes a step, and the replica that is added waits.
LEMMA ExpBusy ==
  ASSUME ExpInv, NEW t \in Tasks, task[t].pc # "idle"
  PROVE  /\ isExpanding /\ adder \in {"idle", "done"}
         /\ \A u \in Tasks \ {t} : task[u].pc = "idle" /\ ~task[u].expanded /\ ~Raised(u)
  BY Zenon DEF ExpInv, FlagExact, AddInv, ExpTypeOK, TaskInv, Raised

\* The replicas are expanded, or the call is refused before.
LEMMA ExpBackend ==
  ASSUME ExpInv, NEW t \in Tasks, ExpandBackend(t)
  PROVE  ExpInv'
<1>1. task[t].pc = "sync" /\ UNCHANGED <<csize, isExpanding, device, adder, addSize>>
  BY Zenon DEF ExpandBackend
<1>2. /\ ~task[t].expanded /\ task[t].size > csize /\ task[t].size \in Nat
      /\ device = csize
  BY Zenon, <1>1, ExpBusy DEF ExpInv, TaskInv, Raised, ExpTypeOK
<1>3. ASSUME NEW p \in {"frontend", "finish"}, task' = [task EXCEPT ![t].pc = p],
             size' \in [Replicas -> Nat], mode' \in [Replicas -> {"out", "RW", "WO", "ERR"}],
             adder # "done" => mode'[NewReplica] = "out",
             p = "frontend" => \A r \in Live' : size'[r] = task[t].size,
             ReplicasCoverVolume', ReplicasAgree'
      PROVE  ExpInv'
  <2>1. task'[t] = [task[t] EXCEPT !.pc = p] /\ \A u \in Tasks \ {t} : task'[u] = task[u]
    BY Zenon, <1>3 DEF ExpInv, ExpTypeOK
  <2>2. task'[t].pc = p /\ task'[t].size = task[t].size /\ task'[t].expanded = task[t].expanded
    BY Zenon, <2>1 DEF ExpInv, ExpTypeOK
  <2>3. ExpTypeOK'
    BY <1>1, <1>3, <2>1 DEF ExpInv, ExpTypeOK
  <2>4. \A u \in Tasks \ {t} : task'[u].pc = "idle" /\ ~task'[u].expanded
    BY Zenon, <1>1, <2>1, ExpBusy
  <2>5. FlagExact'
    BY Zenon, <1>1, <2>2, <2>4, ExpBusy DEF FlagExact
  <2>6. \A u \in Tasks : TaskInv(u)' /\ ~Raised(u)'
    BY Zenon, <1>1, <1>2, <1>3, <2>2, <2>4 DEF TaskInv, Raised
  <2>7. AddInv'
    BY Zenon, <1>1, <1>3, ExpBusy DEF AddInv
  <2>8. QED
    BY Zenon, <1>1, <1>2, <1>3, <2>2, <2>3, <2>4, <2>5, <2>6, <2>7 DEF ExpInv
<1>4. CASE task' = [task EXCEPT ![t].pc = "finish"] /\ UNCHANGED <<size, mode>>
  <2>1. ReplicasCoverVolume' /\ ReplicasAgree'
    BY Zenon, <1>1, <1>4 DEF ExpInv, ReplicasCoverVolume, ReplicasAgree, Live
  <2>2. adder # "done" => mode'[NewReplica] = "out"
    BY Zenon, <1>4 DEF ExpInv, AddInv
  <2>3. size' \in [Replicas -> Nat] /\ mode' \in [Replicas -> {"out", "RW", "WO", "ERR"}]
    BY Zenon, <1>4 DEF ExpInv, ExpTypeOK
  <2>4. QED
    BY Zenon, <1>3, <1>4, <2>1, <2>2, <2>3
<1>5. ASSUME NEW f \in Results(task[t].size), Live # {},
             size' = [r \in Replicas |-> IF r \in Live THEN f[r].size ELSE size[r]],
             mode' = [r \in Replicas |-> IF r \in Live /\ r \in OutOfSync(f) THEN "ERR" ELSE mode[r]],
             task' = [task EXCEPT ![t].pc = IF Succeeds(f) THEN "frontend" ELSE "finish"]
      PROVE  ExpInv'
  <2>1. \A r \in Live : f[r] \in Outcomes(r, task[t].size) /\ r \in Replicas
    BY Zenon, <1>5 DEF Results, Live
  <2>2. \A r \in Live : /\ f[r].size \in Nat
                        /\ f[r].code = "ok" => f[r].size = task[t].size
                        /\ f[r].code = "rolledBack" => f[r].size = size[r]
    <3> SUFFICES ASSUME NEW r \in Live
                 PROVE  /\ f[r].size \in Nat
                        /\ f[r].code = "ok" => f[r].size = task[t].size
                        /\ f[r].code = "rolledBack" => f[r].size = size[r]
      BY Zenon
    <3>1. size[r] \in Nat
      BY Zenon, <2>1 DEF ExpInv, ExpTypeOK
    <3>2. CASE size[r] > task[t].size
      <4>1. f[r] = [code |-> "withoutRollback", size |-> size[r]]
        BY Zenon, <2>1, <3>2 DEF Outcomes
      <4>2. QED
        BY <3>1, <4>1
    <3>3. CASE size[r] = task[t].size
      <4>1. ~(size[r] > task[t].size)
        BY <1>2, <3>3
      <4>2. f[r] = [code |-> "ok", size |-> task[t].size]
        BY <2>1, <3>3, <4>1, Zenon DEF Outcomes
      <4>3. QED
        BY <1>2, <4>2
    <3>4. CASE size[r] < task[t].size
      <4>1. ~(size[r] > task[t].size) /\ size[r] # task[t].size
        BY <1>2, <3>1, <3>4
      <4>2. f[r] \in {[code |-> "ok", size |-> task[t].size], [code |-> "rolledBack", size |-> size[r]],
                      [code |-> "unknown", size |-> size[r]], [code |-> "unknown", size |-> task[t].size]}
        BY <2>1, <4>1, Zenon DEF Outcomes
      <4>3. QED
        BY <1>2, <3>1, <4>2
    <3>5. QED
      BY <1>2, <3>1, <3>2, <3>3, <3>4
  <2>3. Live' \subseteq Live /\ \A r \in Live' : r \notin OutOfSync(f) /\ size'[r] = f[r].size
    BY Zenon, <1>5 DEF Live
  <2>4. size' \in [Replicas -> Nat] /\ mode' \in [Replicas -> {"out", "RW", "WO", "ERR"}]
    BY Zenon, <1>5, <2>2 DEF ExpInv, ExpTypeOK
  <2>5. adder # "done" => mode'[NewReplica] = "out"
    BY Zenon, <1>5, ExpansionAssumption DEF ExpInv, AddInv, Live
  <2>6. Succeeds(f) => \A r \in Live' : size'[r] = task[t].size
    BY Zenon, <2>2, <2>3 DEF Succeeds, OutOfSync
  <2>7. ~Succeeds(f) => \A r \in Live' : size'[r] = size[r]
    BY Zenon, <2>2, <2>3 DEF Succeeds, OutOfSync
  <2>8. ReplicasCoverVolume'
    BY <1>1, <1>2, <2>3, <2>4, <2>6, <2>7 DEF ReplicasCoverVolume, ExpInv, ExpTypeOK
  <2>9. ReplicasAgree'
    BY Zenon, <2>3, <2>6, <2>7 DEF ReplicasAgree, ExpInv
  <2>10. QED
    BY Zenon, <1>3, <1>5, <2>4, <2>5, <2>6, <2>8, <2>9
<1>6. QED
  BY Zenon, <1>4, <1>5 DEF ExpandBackend

\* The frontend follows the replicas, and the volume the frontend.
LEMMA ExpFinish ==
  ASSUME ExpInv, NEW t \in Tasks, ExpandFrontend(t) \/ finishExpansion(t)
  PROVE  ExpInv'
<1>1. task[t].pc # "idle" /\ UNCHANGED <<size, mode, adder, addSize>> /\ Live' = Live
  BY Zenon DEF ExpandFrontend, finishExpansion, Live
<1>2. /\ task[t].size > csize /\ task[t].size \in Nat
      /\ ~Raised(t) => device = csize
  BY Zenon, <1>1, ExpBusy DEF ExpInv, TaskInv, ExpTypeOK
<1>3. CASE ExpandFrontend(t)
  <2>1. \A u \in Tasks \ {t} : task'[u] = task[u]
    BY Zenon, <1>3 DEF ExpandFrontend, ExpInv, ExpTypeOK
  <2>2. /\ task'[t].pc = "finish" /\ task'[t].size = task[t].size
        /\ task'[t].expanded \in BOOLEAN
        /\ task'[t].expanded => device' = task[t].size
        /\ ~task'[t].expanded => device' = device
    BY <1>3 DEF ExpandFrontend, ExpInv, ExpTypeOK, TaskInv
  <2>3. ExpTypeOK' /\ UNCHANGED <<csize, isExpanding>>
    BY <1>1, <1>2, <1>3 DEF ExpandFrontend, ExpInv, ExpTypeOK
  <2>4. \A u \in Tasks \ {t} : task'[u].pc = "idle" /\ ~task'[u].expanded
    BY Zenon, <1>1, <2>1, ExpBusy
  <2>5. device = csize /\ \A r \in Live : size[r] = task[t].size
    BY Zenon, <1>2, <1>3 DEF ExpandFrontend, ExpInv, TaskInv, Raised
  <2>6. FlagExact'
    BY Zenon, <1>1, <2>2, <2>3, <2>4, ExpBusy DEF FlagExact
  <2>7. \A u \in Tasks : TaskInv(u)'
    BY Zenon, <1>1, <1>2, <2>2, <2>3, <2>4, <2>5 DEF TaskInv, Raised
  <2>8. (\A u \in Tasks : ~Raised(u)') => device' = csize'
    BY Zenon, <2>2, <2>3, <2>5 DEF Raised
  <2>9. AddInv'
    BY Zenon, <1>1, <2>3 DEF ExpInv, AddInv
  <2>10. ReplicasCoverVolume' /\ ReplicasAgree'
    BY <1>1, <1>2, <2>2, <2>3, <2>5 DEF ExpInv, ReplicasCoverVolume, ReplicasAgree, ExpTypeOK
  <2>11. QED
    BY Zenon, <2>2, <2>3, <2>4, <2>6, <2>7, <2>8, <2>9, <2>10 DEF ExpInv
<1>4. CASE finishExpansion(t)
  <2>1. \A u \in Tasks : task'[u].pc = "idle" /\ ~task'[u].expanded
    BY Zenon, <1>1, <1>4, ExpBusy DEF finishExpansion, ExpInv, ExpTypeOK, Idle
  <2>2. csize' = IF Raised(t) THEN task[t].size ELSE csize
    BY Zenon, <1>4 DEF finishExpansion, Raised
  <2>3. ExpTypeOK' /\ device' = device /\ ~isExpanding'
    BY Zenon, <1>1, <1>2, <1>4 DEF finishExpansion, ExpInv, ExpTypeOK, Idle
  <2>4. FlagExact' /\ \A u \in Tasks : TaskInv(u)' /\ ~Raised(u)'
    BY Zenon, <2>1, <2>3 DEF FlagExact, TaskInv, Raised
  <2>5. device' = csize'
    BY Zenon, <1>2, <2>2, <2>3 DEF ExpInv, TaskInv
  <2>6. AddInv'
    BY Zenon, <1>1, ExpBusy DEF ExpInv, AddInv
  <2>7. ReplicasCoverVolume' /\ ReplicasAgree'
    BY <1>1, <2>3, <2>5 DEF ExpInv, ReplicasCoverVolume, ReplicasAgree, ExpTypeOK
  <2>8. QED
    BY Zenon, <2>1, <2>3, <2>4, <2>5, <2>6, <2>7 DEF ExpInv
<1>5. QED
  BY Zenon, <1>3, <1>4

\* What adds a replica, and what fails one, disturbs no call.
LEMMA ExpReplica ==
  ASSUME ~OverlapAdd, ExpInv,
         \/ ReadSize \/ checkAndExpandReplica \/ AddReplica \/ VerifyRebuild
         \/ \E r \in Replicas : SetError(r)
  PROVE  ExpInv'
<1> USE ExpansionAssumption
<1>1. UNCHANGED <<csize, isExpanding, task, device>>
  BY Zenon DEF ReadSize, checkAndExpandReplica, AddReplica, VerifyRebuild, SetError
<1>2. ASSUME ExpTypeOK', AddInv',
             \A r \in Live' : \/ r \in Live /\ size'[r] = size[r]
                              \/ r = NewReplica /\ size'[r] = csize /\ ~isExpanding
      PROVE  ExpInv'
  <2>1. FlagExact'
    BY Zenon, <1>1 DEF ExpInv, FlagExact
  <2>2. ~isExpanding => device = csize /\ \A t \in Tasks : task[t].pc = "idle"
    BY Zenon DEF ExpInv, FlagExact, Raised, ExpTypeOK
  <2>3. \A t \in Tasks : TaskInv(t)'
    BY Zenon, <1>1, <1>2, <2>2 DEF ExpInv, TaskInv, Raised
  <2>4. ReplicasCoverVolume'
    BY <1>1, <1>2, <2>2 DEF ExpInv, ReplicasCoverVolume, ExpTypeOK
  <2>5. ReplicasAgree'
    BY Zenon, <1>2 DEF ExpInv, ReplicasAgree
  <2>6. QED
    BY Zenon, <1>1, <1>2, <2>1, <2>3, <2>4, <2>5 DEF ExpInv, Raised
<1>3. CASE ReadSize
  <2>1. ~isExpanding
    BY Zenon, <1>3 DEF ReadSize, ExpInv, FlagExact, ExpTypeOK
  <2>2. ExpTypeOK' /\ AddInv' /\ Live' = Live /\ size' = size
    BY Zenon, <1>3, <2>1 DEF ReadSize, ExpInv, ExpTypeOK, AddInv, Live
  <2>3. QED
    BY Zenon, <1>2, <2>2
<1>4. CASE checkAndExpandReplica
  <2>1. ExpTypeOK'
    BY <1>4 DEF checkAndExpandReplica, ExpInv, ExpTypeOK
  <2>2. AddInv'
    BY Zenon, <1>4 DEF checkAndExpandReplica, ExpInv, ExpTypeOK, AddInv
  <2>3. \A r \in Live' : r \in Live /\ size'[r] = size[r]
    BY Zenon, <1>4 DEF checkAndExpandReplica, ExpInv, ExpTypeOK, AddInv, Live
  <2>4. QED
    BY Zenon, <1>2, <2>1, <2>2, <2>3
<1>5. CASE AddReplica
  <2>1. ExpTypeOK' /\ AddInv'
    BY Zenon, <1>5 DEF AddReplica, ExpInv, ExpTypeOK, AddInv
  <2>2. ~isExpanding /\ size'[NewReplica] = csize /\ \A r \in Live' : r \in Live \/ r = NewReplica
    BY Zenon, <1>5 DEF AddReplica, ExpInv, ExpTypeOK, AddInv, Live
  <2>3. size' = size
    BY Zenon, <1>5 DEF AddReplica
  <2>4. QED
    BY Zenon, <1>2, <2>1, <2>2, <2>3
<1>6. CASE VerifyRebuild
  <2>1. ExpTypeOK' /\ AddInv'
    BY Zenon, <1>6 DEF VerifyRebuild, ExpInv, ExpTypeOK, AddInv
  <2>2. \A r \in Live' : r \in Live /\ size'[r] = size[r]
    BY Zenon, <1>6 DEF VerifyRebuild, ExpInv, ExpTypeOK, Live
  <2>3. QED
    BY Zenon, <1>2, <2>1, <2>2
<1>7. ASSUME NEW r \in Replicas, SetError(r) PROVE ExpInv'
  <2>1. ExpTypeOK' /\ AddInv'
    BY Zenon, <1>7 DEF SetError, ExpInv, ExpTypeOK, AddInv, Live
  <2>2. \A q \in Live' : q \in Live /\ size'[q] = size[q]
    BY Zenon, <1>7 DEF SetError, ExpInv, ExpTypeOK, Live
  <2>3. QED
    BY Zenon, <1>2, <2>1, <2>2
<1>8. QED
  BY Zenon, <1>3, <1>4, <1>5, <1>6, <1>7

\* Every step preserves the invariant.
LEMMA ExpNext == ASSUME ~SameSize, ~OverlapAdd PROVE ExpInv /\ [Next]_vars => ExpInv'
<1> SUFFICES ASSUME ExpInv, [Next]_vars PROVE ExpInv'
  BY Zenon
<1>1. CASE UNCHANGED vars
  BY Zenon, <1>1 DEF vars, ExpInv, ExpTypeOK, FlagExact, TaskInv, Raised, AddInv, ReplicasCoverVolume, ReplicasAgree, Live
<1>2. ASSUME NEW t \in Tasks, (\E s \in Sizes : Expand(t, s)) \/ Step(t) PROVE ExpInv'
  BY Zenon, <1>2, ExpExpand, ExpBackend, ExpFinish DEF Step
<1>3. QED
  BY Zenon, <1>1, <1>2, ExpReplica DEF Next

-----------------------------------------------------------------------------
\* However many replicas fail to expand, roll back or are lost, whatever the order
\* of the calls, no I/O that the volume or its device admits lies past the end of a
\* replica in use (controller Expand, replicator Expand, AddReplica of sync).
THEOREM ExpansionCovers ==
  ASSUME ~SameSize, ~OverlapAdd PROVE Spec => []ReplicasCoverVolume
<1>1. ExpInv => ReplicasCoverVolume
  BY Zenon DEF ExpInv
<1>2. QED
  BY ExpInit, ExpNext, <1>1, PTL DEF Spec

\* The replicas the volume had keep one size (replicator Expand).
THEOREM ExpansionAgrees ==
  ASSUME ~SameSize, ~OverlapAdd PROVE Spec => []ReplicasAgree
<1>1. ExpInv => ReplicasAgree
  BY Zenon DEF ExpInv
<1>2. QED
  BY ExpInit, ExpNext, <1>1, PTL DEF Spec

\* Neither the volume nor its device ever gets smaller (startExpansion,
\* finishExpansion).
THEOREM ExpansionGrows ==
  ASSUME ~SameSize, ~OverlapAdd PROVE Spec => NeverShrinks
<1>1. ExpInv /\ [Next]_vars => [csize' >= csize /\ device' >= device]_vars
  <2> SUFFICES ASSUME ExpInv, Next PROVE csize' >= csize /\ device' >= device
    BY Zenon
  <2>1. csize \in Nat /\ device \in Nat
    BY Zenon DEF ExpInv, ExpTypeOK
  <2>2. ASSUME NEW t \in Tasks, ExpandFrontend(t) PROVE csize' >= csize /\ device' >= device
    <3>1. task[t].size \in Nat /\ task[t].size > csize /\ device = csize
      BY Zenon, <2>2, ExpBusy DEF ExpandFrontend, ExpInv, ExpTypeOK, TaskInv, Raised
    <3>2. QED
      BY <2>1, <2>2, <3>1 DEF ExpandFrontend
  <2>3. ASSUME NEW t \in Tasks, finishExpansion(t) PROVE csize' >= csize /\ device' >= device
    BY <2>1, <2>3 DEF finishExpansion, ExpInv, TaskInv, ExpTypeOK
  <2>4. ASSUME NEW t \in Tasks, ExpandBackend(t) \/ \E s \in Sizes : Expand(t, s)
        PROVE  csize' = csize /\ device' = device
    BY Zenon, <2>4 DEF ExpandBackend, Expand
  <2>5. CASE \/ ReadSize \/ checkAndExpandReplica \/ AddReplica \/ VerifyRebuild
             \/ \E r \in Replicas : SetError(r)
    BY <2>1, <2>5 DEF ReadSize, checkAndExpandReplica, AddReplica, VerifyRebuild, SetError
  <2>6. QED
    BY <2>1, <2>2, <2>3, <2>4, <2>5 DEF Next, Step
<1>2. QED
  BY ExpInit, ExpNext, <1>1, PTL DEF Spec, NeverShrinks

-----------------------------------------------------------------------------
\* x is the record of a replica.
IsReplica(x) == x = [mode |-> x.mode, snaps |-> x.snaps, removed |-> x.removed, base |-> x.base, delta |-> x.delta]

SameHead(x, y) == x.snaps = y.snaps /\ x.base = y.base /\ x.delta = y.delta

\* The inductive invariant when what Revert has read does not change before it has the
\* lock.  Replicas in mode RW have the same snapshots and the same head, and not only
\* the same view, since a revert puts the head on a snapshot; a replica that is being
\* rebuilt has every write since it was added, then their base, then their snapshots.
RevertInv ==
    /\ rep = [r \in Addresses |-> rep[r]] /\ \A r \in Addresses : IsReplica(rep[r])
    /\ rebuild \in {"no", "added", "prepared", "synced"}
    /\ \A r, q \in RW : SameHead(rep[r], rep[q])
    /\ \A r \in In("WO") : r = Target /\ rebuild # "no"
    /\ rebuild # "no" => rep[Target].mode = "WO"
    /\ \A r \in RW :
          /\ rebuild # "no" => rep[Target].delta = rep[r].delta
          /\ rebuild \in {"prepared", "synced"} => rep[Target].base = rep[r].base
          /\ rebuild = "synced" => rep[Target].snaps = rep[r].snaps
    /\ revert # NoRevert => rebuild = "no" /\ revert.clients = RW

\* The invariant holds at the start.
LEMMA RevertStarts == RevertInit => RevertInv
<1> SUFFICES ASSUME RevertInit PROVE RevertInv
  BY Zenon
<1>1. PICK x : x = [Out EXCEPT !.mode = "RW", !.snaps = <<<<-1>>, <<-1, -2>>>>, !.base = 2]
  BY Zenon
<1>2. IsReplica(x) /\ x.mode = "RW" /\ IsReplica(Out) /\ Out.mode = "out"
  BY Zenon, <1>1 DEF Out, IsReplica
<1>3. rep = [r \in Addresses |-> IF r = Target THEN Out ELSE x] /\ rebuild = "no" /\ revert = NoRevert
  BY Zenon, <1>1 DEF RevertInit
<1>4. \A r \in Addresses : rep[r] = IF r = Target THEN Out ELSE x
  BY Zenon, <1>3
<1>5. rep = [r \in Addresses |-> rep[r]]
  BY Zenon, <1>3
<1>6. QED
  BY Zenon, <1>2, <1>3, <1>4, <1>5 DEF RevertInv, RW, In, SameHead

\* A step that changes no mode, no snapshot and no base, and the writes of all replicas
\* in use alike.
LEMMA HeadsStep ==
  ASSUME RevertInv, rep' = [r \in Addresses |-> rep'[r]], UNCHANGED <<rebuild, revert>>,
         \A r \in Addresses : /\ IsReplica(rep'[r]) /\ rep'[r].mode = rep[r].mode
                              /\ rep'[r].snaps = rep[r].snaps /\ rep'[r].base = rep[r].base,
         \A r, q \in RW \cup In("WO") : rep[r].delta = rep[q].delta => rep'[r].delta = rep'[q].delta
  PROVE  RevertInv'
<1>1. RW' = RW /\ In("WO")' = In("WO")
  BY Zenon DEF RW, In
<1>2. \A r, q \in RW : SameHead(rep'[r], rep'[q])
  <2>1. RW \subseteq Addresses /\ \A r, q \in RW : SameHead(rep[r], rep[q])
    BY Zenon DEF RevertInv, RW, In
  <2>2. QED
    BY <2>1 DEF SameHead
<1>3. \A r \in RW : rebuild # "no" => rep'[Target].delta = rep'[r].delta
  BY Zenon DEF RevertInv, RW, In, Addresses
<1>4. Target \in Addresses /\ rebuild' = rebuild /\ revert' = revert /\ RW \subseteq Addresses
  BY Zenon DEF Addresses, RW, In
<1>5. \A r \in In("WO")' : r = Target /\ rebuild' # "no"
  BY Zenon, <1>1, <1>4 DEF RevertInv
<1>6. rebuild' # "no" => rep'[Target].mode = "WO"
  BY Zenon, <1>4 DEF RevertInv
<1>7. ASSUME NEW r \in RW
      PROVE  /\ rebuild' \in {"prepared", "synced"} => rep'[Target].base = rep'[r].base
             /\ rebuild' = "synced" => rep'[Target].snaps = rep'[r].snaps
  <2>1. r \in Addresses /\ Target \in Addresses /\ rebuild' = rebuild
    BY Zenon, <1>4
  <2>2. /\ rebuild \in {"prepared", "synced"} => rep[Target].base = rep[r].base
        /\ rebuild = "synced" => rep[Target].snaps = rep[r].snaps
    BY Zenon DEF RevertInv
  <2>3. QED
    BY Zenon, <2>1, <2>2
<1>8. revert' # NoRevert => rebuild' = "no" /\ revert'.clients = RW'
  BY Zenon, <1>1, <1>4 DEF RevertInv
<1>9. rebuild' \in {"no", "added", "prepared", "synced"}
  BY Zenon, <1>4 DEF RevertInv
<1>10. QED
  BY Zenon, <1>1, <1>2, <1>3, <1>4, <1>5, <1>6, <1>7, <1>8, <1>9 DEF RevertInv

\* RevertWriteAt and MarkSnapshotRemoved.
LEMMA RevertIOStep ==
  ASSUME RevertInv, RevertWriteAt \/ \E n \in 1..3 : MarkSnapshotRemoved(n)
  PROVE  RevertInv'
<1>1. UNCHANGED <<rebuild, revert>>
  BY Zenon DEF RevertWriteAt, MarkSnapshotRemoved
<1>2. CASE RevertWriteAt
  <2>1. PICK w : w = writes'
    BY Zenon
  <2>2. rep' = [r \in Addresses |-> IF rep[r].mode \in {"RW", "WO"}
                                    THEN [rep[r] EXCEPT !.delta = Append(rep[r].delta, w)] ELSE rep[r]]
    BY Zenon, <1>2, <2>1 DEF RevertWriteAt
  <2>3. ASSUME NEW r \in Addresses
        PROVE  /\ IsReplica(rep'[r]) /\ rep'[r].mode = rep[r].mode
               /\ rep'[r].snaps = rep[r].snaps /\ rep'[r].base = rep[r].base
               /\ rep[r].mode \in {"RW", "WO"} => rep'[r].delta = Append(rep[r].delta, w)
    <3>1. PICK y : y = rep[r]
      BY Zenon
    <3>2. IsReplica(y)
      BY Zenon, <3>1 DEF RevertInv
    <3>3. PICK d : d = Append(y.delta, w)
      BY Zenon
    <3>4. rep'[r] = IF y.mode \in {"RW", "WO"} THEN [y EXCEPT !.delta = d] ELSE y
      BY Zenon, <2>2, <3>1, <3>3
    <3>5. QED
      BY Zenon, <3>1, <3>2, <3>3, <3>4 DEF IsReplica
  <2>4. rep' = [r \in Addresses |-> rep'[r]]
    BY Zenon, <2>2
  <2>5. QED
    BY Zenon, <1>1, <2>3, <2>4, HeadsStep DEF RW, In
<1>3. ASSUME NEW n \in 1..3, MarkSnapshotRemoved(n) PROVE RevertInv'
  <2>1. rep' = [r \in Addresses |-> IF r \in RW THEN [rep[r] EXCEPT !.removed = rep[r].removed \cup {n}] ELSE rep[r]]
    BY Zenon, <1>3 DEF MarkSnapshotRemoved
  <2>2. ASSUME NEW r \in Addresses
        PROVE  /\ IsReplica(rep'[r]) /\ rep'[r].mode = rep[r].mode
               /\ rep'[r].snaps = rep[r].snaps /\ rep'[r].base = rep[r].base /\ rep'[r].delta = rep[r].delta
    <3>1. PICK y : y = rep[r]
      BY Zenon
    <3>2. IsReplica(y)
      BY Zenon, <3>1 DEF RevertInv
    <3>3. PICK d : d = y.removed \cup {n}
      BY Zenon
    <3>4. rep'[r] = [y EXCEPT !.removed = d] \/ rep'[r] = y
      BY Zenon, <2>1, <3>1, <3>3
    <3>5. QED
      BY Zenon, <3>1, <3>2, <3>4 DEF IsReplica
  <2>3. rep' = [r \in Addresses |-> rep'[r]]
    BY Zenon, <2>1
  <2>4. QED
    BY Zenon, <1>1, <2>2, <2>3, HeadsStep DEF RW, In
<1>4. QED
  BY Zenon, <1>2, <1>3

\* RevertAll: the clients are the replicas in mode RW, as they were when they were read.
LEMMA RevertAllStep == ASSUME RevertInv, RevertAll PROVE RevertInv'
<1>1. revert # NoRevert
  BY DEF RevertAll, NoRevert
<1>2. rebuild = "no" /\ revert.clients = RW /\ revert' = NoRevert /\ rebuild' = "no"
  BY Zenon, <1>1 DEF RevertAll, RevertInv
<1>3. PICK n : n = revert.name
  BY Zenon
<1>4. PICK bad : rep' = [r \in Addresses |-> IF r \notin RW THEN rep[r]
                                            ELSE IF r \in bad \/ n > Len(rep[r].snaps) THEN FailedReplica(r)
                                            ELSE Reverted(r)]
  BY Zenon, <1>2, <1>3 DEF RevertAll
<1>5. ASSUME NEW r \in Addresses
      PROVE  /\ IsReplica(rep'[r])
             /\ rep'[r].mode = "RW" => r \in RW /\ rep'[r].snaps = rep[r].snaps /\ rep'[r].base = n /\ rep'[r].delta = <<>>
             /\ rep'[r].mode = "WO" => rep[r].mode = "WO"
  <2>1. PICK y : y = rep[r]
    BY Zenon
  <2>2. IsReplica(y)
    BY Zenon, <2>1 DEF RevertInv
  <2>3. \/ r \notin RW /\ rep'[r] = y
        \/ r \in RW /\ rep'[r] = [y EXCEPT !.mode = "ERR"]
        \/ r \in RW /\ rep'[r] = [y EXCEPT !.base = n, !.delta = <<>>]
    BY Zenon, <1>3, <1>4, <2>1 DEF FailedReplica, Reverted
  <2>4. r \in RW <=> y.mode = "RW"
    BY Zenon, <2>1 DEF RW, In
  <2>5. QED
    BY Zenon, <2>1, <2>2, <2>3, <2>4 DEF IsReplica
<1>6. rep' = [r \in Addresses |-> rep'[r]]
  BY Zenon, <1>4
<1>7. RW' = {r \in Addresses : rep'[r].mode = "RW"} /\ In("WO")' = {r \in Addresses : rep'[r].mode = "WO"}
  BY Zenon DEF RW, In
<1>8. \A r, q \in RW' : SameHead(rep'[r], rep'[q])
  BY <1>5, <1>7 DEF RevertInv, SameHead
<1>9. In("WO")' = {}
  BY Zenon, <1>2, <1>5, <1>7 DEF RevertInv, In
<1>10. QED
  BY Zenon, <1>2, <1>5, <1>6, <1>8, <1>9 DEF RevertInv

\* RevertAddReplica: the heads of all replicas are empty again, and the new one has
\* none of their snapshots.
LEMMA RevertAddStep == ASSUME ~Race, RevertInv, RevertAddReplica PROVE RevertInv'
<1>1. revert = NoRevert /\ revert' = NoRevert /\ rebuild' = "added" /\ rebuild = "no" /\ rep[Target].mode = "out"
  BY Zenon DEF RevertAddReplica, Undisturbed
<1>2. PICK x : x = [Out EXCEPT !.mode = "WO", !.snaps = <<<<>>>>, !.base = 1]
  BY Zenon
<1>3. IsReplica(x) /\ x.mode = "WO" /\ x.delta = <<>>
  BY Zenon, <1>2 DEF Out, IsReplica
<1>4. rep' = [r \in Addresses |-> IF r = Target THEN x ELSE IF r \in RW THEN Snapshotted(rep[r]) ELSE rep[r]]
  BY Zenon, <1>2 DEF RevertAddReplica
<1>5. rep' = [r \in Addresses |-> rep'[r]] /\ Target \in Addresses
  BY Zenon, <1>4 DEF Addresses
<1>6. rep'[Target] = x
  BY Zenon, <1>4, <1>5
<1>7. ASSUME NEW r \in Addresses, r # Target
      PROVE  /\ IsReplica(rep'[r]) /\ rep'[r].mode = rep[r].mode
             /\ r \in RW => /\ rep'[r].snaps = Append(rep[r].snaps, View(rep[r]))
                            /\ rep'[r].base = Len(rep[r].snaps) + 1 /\ rep'[r].delta = <<>>
  <2>1. PICK y : y = rep[r]
    BY Zenon
  <2>2. IsReplica(y)
    BY Zenon, <2>1 DEF RevertInv
  <2>3. PICK a, b : a = Append(y.snaps, View(y)) /\ b = Len(y.snaps) + 1
    BY Zenon
  <2>4. rep'[r] = IF r \in RW THEN [y EXCEPT !.snaps = a, !.base = b, !.delta = <<>>] ELSE y
    BY Zenon, <1>4, <1>7, <2>1, <2>3 DEF Snapshotted
  <2>5. QED
    BY Zenon, <2>1, <2>2, <2>3, <2>4 DEF IsReplica
<1>8. \A r \in Addresses : (r \in RW' => r \in RW /\ r # Target) /\ (r \in In("WO")' => r \in In("WO") \/ r = Target)
  BY Zenon, <1>3, <1>6, <1>7 DEF RW, In
<1>9. RW' \subseteq Addresses /\ In("WO")' \subseteq Addresses
  BY Zenon DEF RW, In
<1>10. \A r, q \in RW' : SameHead(rep'[r], rep'[q])
  <2>1. ASSUME NEW r \in RW, NEW q \in RW
        PROVE  rep[r].snaps = rep[q].snaps /\ View(rep[r]) = View(rep[q])
    BY Zenon DEF RevertInv, SameHead, View
  <2>2. ASSUME NEW r \in RW', NEW q \in RW' PROVE SameHead(rep'[r], rep'[q])
    <3>1. r \in Addresses \ {Target} /\ q \in Addresses \ {Target} /\ r \in RW /\ q \in RW
      BY Zenon, <1>8, <1>9
    <3>2. /\ rep'[r].snaps = Append(rep[r].snaps, View(rep[r])) /\ rep'[q].snaps = Append(rep[q].snaps, View(rep[q]))
          /\ rep'[r].base = Len(rep[r].snaps) + 1 /\ rep'[q].base = Len(rep[q].snaps) + 1
          /\ rep'[r].delta = <<>> /\ rep'[q].delta = <<>>
      BY Zenon, <1>7, <3>1
    <3>3. rep[r].snaps = rep[q].snaps /\ View(rep[r]) = View(rep[q])
      BY Zenon, <2>1, <3>1
    <3>4. QED
      BY Zenon, <3>2, <3>3 DEF SameHead
  <2>3. QED
    BY Zenon, <2>2
<1>11. \A r \in RW' : rep'[Target].delta = rep'[r].delta
  BY Zenon, <1>3, <1>6, <1>7, <1>8, <1>9
<1>12. \A r \in In("WO")' : r = Target
  BY Zenon, <1>8, <1>9 DEF RevertInv
<1>13. \A r \in Addresses : IsReplica(rep'[r])
  BY Zenon, <1>3, <1>6, <1>7
<1>14. QED
  BY Zenon, <1>1, <1>3, <1>5, <1>6, <1>10, <1>11, <1>12, <1>13 DEF RevertInv

\* The steps of the rebuild, from a source in mode RW: what the target gets is what
\* every other replica has.
LEMMA RebuildStep ==
  ASSUME RevertInv, NEW r \in Sources,
         PrepareRebuildReplica(r) \/ SyncFiles(r) \/ VerifyRebuildReplica(r)
  PROVE  RevertInv'
<1>1. /\ r \in RW /\ r \in Addresses /\ Target \in Addresses /\ rebuild # "no" /\ revert = NoRevert /\ revert' = revert
      /\ rep[Target].mode = "WO" /\ r # Target
  BY Zenon DEF PrepareRebuildReplica, SyncFiles, VerifyRebuildReplica, RevertInv, RW, In, Addresses
<1>2. PICK x, y : x = rep[Target] /\ y = rep[r]
  BY Zenon
<1>3. /\ IsReplica(x) /\ x.mode = "WO" /\ x.delta = y.delta
      /\ rebuild \in {"prepared", "synced"} => x.base = y.base
      /\ rebuild = "synced" => x.snaps = y.snaps
  BY Zenon, <1>1, <1>2 DEF RevertInv
<1>4. ASSUME NEW z, rep' = [rep EXCEPT ![Target] = z], IsReplica(z), z.delta = y.delta,
             rebuild' \in {"no", "prepared", "synced"}, z.base = y.base,
             rebuild' \in {"no", "synced"} => z.snaps = y.snaps,
             z.mode = IF rebuild' = "no" THEN "RW" ELSE "WO"
      PROVE  RevertInv'
  <2>1. rep'[Target] = z /\ \A q \in Addresses \ {Target} : rep'[q] = rep[q]
    BY Zenon, <1>1, <1>4 DEF RevertInv
  <2>2. rep' = [q \in Addresses |-> rep'[q]]
    BY Zenon, <1>1, <1>4 DEF RevertInv
  <2>3. \A q \in Addresses : IsReplica(rep'[q])
    BY Zenon, <1>4, <2>1 DEF RevertInv
  <2>4. \A q \in RW' : (q \in RW /\ rep'[q] = rep[q] /\ q # Target) \/ (q = Target /\ rebuild' = "no" /\ rep'[q] = z)
    BY Zenon, <1>4, <2>1 DEF RW, In
  <2>5. \A q \in RW : SameHead(rep[q], y) /\ SameHead(y, rep[q])
    BY Zenon, <1>1, <1>2 DEF RevertInv, SameHead
  <2>6. \A q \in RW' : SameHead(rep'[q], y) /\ SameHead(y, rep'[q])
    BY Zenon, <1>4, <2>4, <2>5 DEF SameHead
  <2>7. \A q, p \in RW' : SameHead(rep'[q], rep'[p])
    BY Zenon, <2>6 DEF SameHead
  <2>8. \A q \in In("WO")' : q = Target /\ rebuild' # "no"
    <3>1. \A q \in In("WO") : q = Target
      BY Zenon DEF RevertInv
    <3>2. QED
      BY Zenon, <1>4, <2>1, <3>1 DEF In
  <2>9. \A q \in RW' : /\ z.delta = rep'[q].delta /\ z.base = rep'[q].base
                       /\ rebuild' = "synced" => z.snaps = rep'[q].snaps
    BY Zenon, <1>4, <2>6 DEF SameHead
  <2>10. QED
    BY Zenon, <1>1, <1>4, <2>1, <2>2, <2>3, <2>7, <2>8, <2>9 DEF RevertInv
<1>5. CASE PrepareRebuildReplica(r)
  <2>1. PICK b, a : b = y.base /\ a = [n \in 1..Len(y.snaps) |-> <<>>]
    BY Zenon
  <2>2. PICK z : z = [x EXCEPT !.base = b, !.snaps = a]
    BY Zenon
  <2>3. rep' = [rep EXCEPT ![Target].base = b, ![Target].snaps = a] /\ rebuild' = "prepared"
    BY Zenon, <1>2, <1>5, <2>1 DEF PrepareRebuildReplica
  <2>4. rep' = [rep EXCEPT ![Target] = z]
    BY Zenon, <1>1, <1>2, <2>2, <2>3 DEF RevertInv
  <2>5. IsReplica(z) /\ z.mode = "WO" /\ z.base = y.base /\ z.delta = x.delta
    BY Zenon, <1>3, <2>1, <2>2 DEF IsReplica
  <2>6. QED
    BY Zenon, <1>3, <1>4, <2>3, <2>4, <2>5
<1>6. CASE SyncFiles(r)
  <2>1. PICK b, a : b = y.removed /\ a = y.snaps
    BY Zenon
  <2>2. PICK z : z = [x EXCEPT !.snaps = a, !.removed = b]
    BY Zenon
  <2>3. rep' = [rep EXCEPT ![Target].snaps = a, ![Target].removed = b] /\ rebuild' = "synced" /\ rebuild = "prepared"
    BY Zenon, <1>2, <1>6, <2>1 DEF SyncFiles
  <2>4. rep' = [rep EXCEPT ![Target] = z]
    BY Zenon, <1>1, <1>2, <2>2, <2>3 DEF RevertInv
  <2>5. IsReplica(z) /\ z.mode = "WO" /\ z.base = x.base /\ z.delta = x.delta /\ z.snaps = y.snaps
    BY Zenon, <1>3, <2>1, <2>2 DEF IsReplica
  <2>6. QED
    BY Zenon, <1>3, <1>4, <2>3, <2>4, <2>5
<1>7. CASE VerifyRebuildReplica(r)
  <2>1. PICK z : z = [x EXCEPT !.mode = "RW"]
    BY Zenon
  <2>2. rep' = [rep EXCEPT ![Target].mode = "RW"] /\ rebuild' = "no" /\ rebuild = "synced"
    BY Zenon, <1>7 DEF VerifyRebuildReplica
  <2>3. rep' = [rep EXCEPT ![Target] = z]
    BY Zenon, <1>1, <1>2, <2>1, <2>2 DEF RevertInv
  <2>4. IsReplica(z) /\ z.mode = "RW" /\ z.base = x.base /\ z.delta = x.delta /\ z.snaps = x.snaps
    BY Zenon, <1>3, <2>1 DEF IsReplica
  <2>5. QED
    BY Zenon, <1>3, <1>4, <2>2, <2>3, <2>4
<1>8. QED
  BY Zenon, <1>5, <1>6, <1>7

\* However the replicas fail to be reverted, and whatever is written, deleted or rebuilt
\* before and after: if what Revert has read does not change before it has the lock,
\* the replicas that serve reads hold the same volume.
THEOREM RevertsTogether == ASSUME ~Race PROVE RevertSpec => []RevertedTogether
<1>1. RevertInv /\ [RevertNext]_revertVars => RevertInv'
  <2> SUFFICES ASSUME RevertInv, [RevertNext]_revertVars PROVE RevertInv'
    BY Zenon
  <2>1. ASSUME NEW n \in 1..3, Check(n) PROVE RevertInv'
    <3>1. rep' = rep /\ rebuild' = rebuild /\ In("WO") = {} /\ revert'.clients = RW
      BY Zenon, <2>1 DEF Check
    <3>2. rebuild = "no"
      BY Zenon, <3>1 DEF RevertInv, In, Addresses
    <3>3. QED
      BY <3>1, <3>2 DEF RevertInv, RW, In, SameHead
  <2>2. CASE FrontendState \/ RevertStartFrontend \/ ShutdownFrontend \/ UNCHANGED revertVars
    <3>1. rep' = rep /\ rebuild' = rebuild
      BY Zenon, <2>2 DEF FrontendState, RevertStartFrontend, ShutdownFrontend, revertVars
    <3>2. revert' # NoRevert => revert # NoRevert /\ revert'.clients = revert.clients
      <4>1. CASE FrontendState /\ revert' # NoRevert
        <5>1. revert # NoRevert /\ revert' = [revert EXCEPT !.pc = "revert"]
          BY <4>1 DEF FrontendState, NoRevert
        <5>2. QED
          BY <5>1
      <4>2. QED
        BY Zenon, <2>2, <4>1 DEF RevertStartFrontend, ShutdownFrontend, revertVars
    <3>3. QED
      BY <3>1, <3>2 DEF RevertInv, RW, In, SameHead
  <2>3. QED
    BY Zenon, <2>1, <2>2, RevertIOStep, RevertAllStep, RevertAddStep, RebuildStep DEF RevertNext
<1>2. RevertInv => RevertedTogether
  BY Zenon DEF RevertInv, RevertedTogether, SameHead, View
<1>3. QED
  BY <1>1, <1>2, RevertStarts, PTL DEF RevertSpec

-----------------------------------------------------------------------------
LifeLabels == {"idle", "rlock", "backend", "handle", "lock", "device", "gap", "done"}

LifeTypeOK ==
    /\ pc \in [Procs -> LifeLabels]
    /\ lifeMode \in [LifeReplicas -> {"RW", "bad", "ERR", "none", "closed"}]
    /\ isUp \in BOOLEAN /\ dirty \in BOOLEAN /\ lost \in BOOLEAN
    /\ lifeDevice \in {"down", "up", "stopping"} /\ deviceFaults \in Nat

\* The inductive invariant when nothing else begins during a shutdown and the device
\* does not fail.  A write that waits for the lock during a shutdown has no good replica;
\* nothing else waits, so that the write of a device that is being stopped gets its
\* read lock; and the backend is closed after the device is down.
LifeInv ==
    /\ LifeTypeOK
    /\ \A p \in waiting : \/ p = "write" /\ pc[p] = "handle"
                          \/ p \in {"mark", "front", "remove"} /\ pc[p] = "lock"
                          \/ p = "shutdown" /\ pc[p] = "backend"
    /\ pc["write"] = "handle" => "write" \in waiting
    /\ \A p \in {"mark", "front", "remove"} : pc[p] = "lock" => p \in waiting
    /\ ShuttingDown => pc["mark"] # "lock" /\ pc["front"] # "lock" /\ pc["remove"] # "lock"
    /\ ShuttingDown /\ pc["write"] = "handle" => Good = {}
    /\ Some("closed") => pc["shutdown"] = "done"
    /\ lifeDevice = "stopping" => pc["shutdown"] = "device"
    /\ pc["shutdown"] = "device" => lifeDevice # "up"
    /\ lifeDevice = "down" => ~dirty
    /\ pc["shutdown"] \in {"gap", "backend", "done"} => lifeDevice = "down" /\ ~isUp
    /\ FinalDataKept

\* The invariant holds at the start.
LEMMA LifeStarts == LifeInit => LifeInv
<1> SUFFICES ASSUME LifeInit PROVE LifeInv
  BY Zenon
<1>1. /\ \A p \in Procs : pc[p] = "idle"
      /\ \A r \in LifeReplicas : lifeMode[r] = "RW"
      /\ waiting = {} /\ lifeDevice = "down" /\ isUp = FALSE /\ dirty = FALSE /\ lost = FALSE
  BY Zenon DEF LifeInit
<1>2. LifeTypeOK
  <2>1. pc \in [Procs -> LifeLabels] /\ lifeMode \in [LifeReplicas -> {"RW", "bad", "ERR", "none", "closed"}]
    BY Zenon DEF LifeInit, LifeLabels
  <2>2. deviceFaults \in Nat
    BY Zenon DEF LifeInit
  <2>3. QED
    BY Zenon, <1>1, <2>1, <2>2 DEF LifeTypeOK
<1>3. FinalDataKept
  BY Zenon, <1>1 DEF FinalDataKept, WrittenBack, UpHasReplica
<1>4. QED
  BY Zenon, <1>1, <1>2, <1>3 DEF LifeInv, Some, ShuttingDown, Procs

\* What the lemmas below say of pc: one goroutine goes on.
LEMMA LifeMoves ==
  ASSUME LifeInv, NEW p \in Procs, NEW l \in LifeLabels, LifeGoto(p, l)
  PROVE  pc' \in [Procs -> LifeLabels] /\ pc'[p] = l /\ \A q \in Procs \ {p} : pc'[q] = pc[q]
  BY Zenon DEF LifeInv, LifeTypeOK, LifeGoto

\* The steps of a write.
LEMMA LifeWriteStep ==
  ASSUME Overlaps = {}, MaxDeviceFaults = 0, LifeInv, Buffer \/ WriteBack \/ WriteRLock \/ WriteAt \/ handleError
  PROVE  LifeInv'
<1> USE DEF LifeInv, LifeTypeOK, Procs, LifeLabels, ShuttingDown, FinalDataKept, WrittenBack, UpHasReplica, front
<1>1. CASE Buffer
  BY Zenon, <1>1 DEF Buffer, lockVars, lifeCounts, Good, Listed, Some
<1>2. CASE WriteBack
  <2>1. pc' \in [Procs -> LifeLabels] /\ pc'["write"] = "rlock" /\ \A q \in Procs \ {"write"} : pc'[q] = pc[q]
    BY Zenon, <1>2, LifeMoves DEF WriteBack
  <2>2. QED
    BY <1>2, <2>1 DEF WriteBack, lockVars, lifeCounts, Good, Listed, Some
<1>3. CASE WriteRLock
  <2>1. pc' \in [Procs -> LifeLabels] /\ pc'["write"] = "backend" /\ \A q \in Procs \ {"write"} : pc'[q] = pc[q]
    BY Zenon, <1>3, LifeMoves DEF WriteRLock
  <2>2. QED
    BY Zenon, <1>3, <2>1 DEF WriteRLock, RLock, lifeCounts, Good, Listed, Some
<1>4. CASE WriteAt
  <2>1. PICK bad \in SUBSET Good :
          /\ bad # {} => ~ShuttingDown
          /\ \/ bad = {} /\ Good # {} /\ LifeGoto("write", "idle") /\ waiting' = waiting /\ dirty' = FALSE
             \/ /\ bad # {} \/ Good = {}
                /\ LifeGoto("write", "handle") /\ waiting' = waiting \cup {"write"} /\ dirty' = dirty
          /\ lifeMode' = [r \in LifeReplicas |-> IF r \in bad THEN "bad" ELSE lifeMode[r]]
    BY Zenon, <1>4 DEF WriteAt, RUnlock, Allowed
  <2>2. UNCHANGED <<lifeDevice, isUp, deviceFaults, lost>>
    BY Zenon, <1>4 DEF WriteAt
  <2>3. PICK l \in {"idle", "handle"} : LifeGoto("write", l)
    BY Zenon, <2>1
  <2>4. pc' \in [Procs -> LifeLabels] /\ pc'["write"] = l /\ \A q \in Procs \ {"write"} : pc'[q] = pc[q]
    BY Zenon, <2>3, LifeMoves
  <2>5. lifeMode' \in [LifeReplicas -> {"RW", "bad", "ERR", "none", "closed"}] /\ Listed' = Listed
        /\ Good' \subseteq Good /\ (Some("closed")' => Some("closed"))
    BY Zenon, <2>1 DEF Listed, Good, Some
  <2>6. CASE LifeGoto("write", "idle") /\ waiting' = waiting /\ dirty' = FALSE
    <3>1. pc'["write"] = "idle" /\ dirty' \in BOOLEAN
      BY Zenon, <2>6, LifeMoves
    <3>2. pc["write"] = "backend"
      BY Zenon, <1>4 DEF WriteAt
    <3>3. QED
      BY <2>2, <2>4, <2>5, <2>6, <3>1, <3>2
  <2>7. CASE /\ bad # {} \/ Good = {}
             /\ LifeGoto("write", "handle") /\ waiting' = waiting \cup {"write"} /\ dirty' = dirty
    <3>1. pc'["write"] = "handle"
      BY Zenon, <2>7, LifeMoves
    <3>2. QED
      BY <2>1, <2>2, <2>4, <2>5, <2>7, <3>1
  <2>8. QED
    BY Zenon, <2>1, <2>6, <2>7
<1>5. CASE handleError
  <2>1. pc' \in [Procs -> LifeLabels] /\ pc'["write"] = "idle" /\ \A q \in Procs \ {"write"} : pc'[q] = pc[q]
    BY Zenon, <1>5, LifeMoves DEF handleError
  <2>2. lifeMode' = [r \in LifeReplicas |-> IF lifeMode[r] = "bad" THEN "ERR" ELSE lifeMode[r]]
    BY Zenon, <1>5 DEF handleError
  <2>3. lifeMode' \in [LifeReplicas -> {"RW", "bad", "ERR", "none", "closed"}] /\ Listed' = Listed
        /\ Good' = Good /\ (Some("closed")' => Some("closed"))
    BY Zenon, <2>2 DEF Listed, Good, Some
  <2>4. UNCHANGED <<lifeDevice, isUp, deviceFaults>> /\ dirty' = FALSE /\ waiting' = waiting \ {"write"}
    BY Zenon, <1>5 DEF handleError, Exclusive, lifeCounts
  <2>5. lost' = FALSE
    BY Zenon, <1>5 DEF handleError
  <2>6. dirty' \in BOOLEAN /\ lost' \in BOOLEAN /\ ~lost' /\ ~dirty'
    BY Zenon, <2>4, <2>5
  <2>7. QED
    BY <2>1, <2>3, <2>4, <2>6
<1>6. QED
  BY Zenon, <1>1, <1>2, <1>3, <1>4, <1>5

\* DeviceTimeout: while the device is stopped nobody keeps a write from the lock that it
\* shares with Shutdown, and one that must wait has no good replica to go to.
LEMMA LifeTimeoutStep ==
  ASSUME Overlaps = {}, MaxDeviceFaults = 0, LifeInv, DeviceTimeout
  PROVE  LifeInv'
<1>1. pc["shutdown"] = "device" /\ ~lost /\ ~Some("closed")
  BY Zenon DEF DeviceTimeout, LifeInv, FinalDataKept, WrittenBack
<1>2. \A p \in waiting : p = "write" /\ pc[p] = "handle"
  BY Zenon, <1>1 DEF LifeInv, ShuttingDown
<1>3. pc["write"] = "handle" /\ Good = {}
  BY Zenon, <1>1, <1>2 DEF DeviceTimeout, LifeInv, ShuttingDown
<1>4. dirty' = FALSE /\ lost' = FALSE /\ UNCHANGED <<waiting, lifeMode, lifeDevice, isUp, deviceFaults>>
  BY Zenon, <1>1, <1>3 DEF DeviceTimeout, lockVars, front, lifeCounts
<1>5. pc' = pc
  BY Zenon, <1>3 DEF DeviceTimeout, LifeInv, LifeTypeOK
<1>6. dirty' \in BOOLEAN /\ lost' \in BOOLEAN /\ ~lost' /\ ~dirty'
  BY Zenon, <1>4
<1>7. QED
  BY <1>4, <1>5, <1>6 DEF LifeInv, LifeTypeOK, ShuttingDown, FinalDataKept, WrittenBack, UpHasReplica, Good, Listed, Some

\* A goroutine waits for the lock.
LEMMA LifeQueueStep ==
  ASSUME Overlaps = {}, MaxDeviceFaults = 0, LifeInv, MonitorFails \/ WantRemove \/ WantFrontend
  PROVE  LifeInv'
<1>1. PICK p \in {"mark", "remove", "front"} : LifeGoto(p, "lock") /\ Queue(p)
  BY Zenon DEF MonitorFails, WantRemove, WantFrontend
<1>2. ~ShuttingDown /\ UNCHANGED <<lifeMode, lifeDevice, isUp, dirty, lost, deviceFaults>>
  BY Zenon DEF MonitorFails, WantRemove, WantFrontend, Allowed, front, lifeCounts
<1>3. pc' \in [Procs -> LifeLabels] /\ pc'[p] = "lock" /\ \A q \in Procs \ {p} : pc'[q] = pc[q]
  BY Zenon, <1>1, LifeMoves DEF Procs, LifeLabels
<1>4. waiting' = waiting \cup {p}
  BY Zenon, <1>1 DEF Queue
<1>5. Good' = Good /\ Listed' = Listed /\ (Some("closed")' => Some("closed"))
  BY Zenon, <1>2 DEF Good, Listed, Some
<1>6. pc'["shutdown"] = pc["shutdown"] /\ pc'["write"] = pc["write"] /\ ~ShuttingDown'
  BY Zenon, <1>2, <1>3 DEF Procs, ShuttingDown
<1>7. QED
  BY <1>2, <1>3, <1>4, <1>5, <1>6 DEF LifeInv, LifeTypeOK, Procs, ShuttingDown, FinalDataKept, WrittenBack, UpHasReplica

\* A goroutine has the lock: SetReplicaMode, RemoveReplica, StartFrontend.
LEMMA LifeLockStep ==
  ASSUME Overlaps = {}, MaxDeviceFaults = 0, LifeInv,
         SetReplicaMode \/ SetReplicaModeNone \/ RemoveReplica \/ StartFrontend
  PROVE  LifeInv'
<1>1. PICK p \in {"mark", "remove", "front"} : pc[p] = "lock" /\ LifeGoto(p, "idle") /\ Exclusive(p)
  BY Zenon DEF SetReplicaMode, SetReplicaModeNone, RemoveReplica, StartFrontend
<1>2. ~ShuttingDown /\ UNCHANGED <<dirty, lost>> /\ lifeDevice # "stopping"
  BY Zenon, <1>1 DEF SetReplicaMode, SetReplicaModeNone, RemoveReplica, StartFrontend, LifeInv, ShuttingDown
<1>3. pc' \in [Procs -> LifeLabels] /\ pc'[p] = "idle" /\ \A q \in Procs \ {p} : pc'[q] = pc[q]
  BY Zenon, <1>1, LifeMoves DEF Procs, LifeLabels
<1>4. waiting' = waiting \ {p}
  BY Zenon, <1>1 DEF Exclusive
<1>5. pc'["shutdown"] = pc["shutdown"] /\ pc'["write"] = pc["write"] /\ ~ShuttingDown'
  BY Zenon, <1>2, <1>3 DEF Procs, ShuttingDown
<1>6. ASSUME lifeMode' \in [LifeReplicas -> {"RW", "bad", "ERR", "none", "closed"}], Some("closed")' => Some("closed"),
             isUp' => Listed' # {}, isUp' \in BOOLEAN, deviceFaults' \in Nat,
             lifeDevice' = "up" \/ lifeDevice' = lifeDevice
      PROVE  LifeInv'
  BY <1>1, <1>2, <1>3, <1>4, <1>5, <1>6
     DEF LifeInv, LifeTypeOK, Procs, ShuttingDown, FinalDataKept, WrittenBack, UpHasReplica
<1>7. /\ lifeMode \in [LifeReplicas -> {"RW", "bad", "ERR", "none", "closed"}] /\ (isUp => Listed # {})
      /\ isUp \in BOOLEAN /\ deviceFaults \in Nat
  BY Zenon DEF LifeInv, LifeTypeOK, FinalDataKept, UpHasReplica
<1>8. CASE SetReplicaMode
  <2>1. PICK r \in Good : lifeMode' = [lifeMode EXCEPT ![r] = "ERR"]
    BY Zenon, <1>8 DEF SetReplicaMode
  <2>2. lifeMode' \in [LifeReplicas -> {"RW", "bad", "ERR", "none", "closed"}] /\ (Some("closed")' => Some("closed"))
        /\ Listed' = Listed
    BY Zenon, <1>7, <2>1 DEF Good, Listed, Some
  <2>3. UNCHANGED <<lifeDevice, isUp, deviceFaults>>
    BY Zenon, <1>8 DEF SetReplicaMode, front, lifeCounts
  <2>4. QED
    BY Zenon, <1>6, <1>7, <2>2, <2>3
<1>9. CASE SetReplicaModeNone
  <2>1. UNCHANGED <<lifeDevice, isUp, deviceFaults, lifeMode>>
    BY Zenon, <1>9 DEF SetReplicaModeNone, front, lifeCounts
  <2>2. QED
    BY Zenon, <1>6, <1>7, <2>1 DEF Listed, Some
<1>10. CASE RemoveReplica
  <2>1. PICK r \in LifeReplicas : lifeMode' = IF Listed = {r} /\ isUp THEN lifeMode ELSE [lifeMode EXCEPT ![r] = "none"]
    BY Zenon, <1>10 DEF RemoveReplica
  <2>2. UNCHANGED <<lifeDevice, isUp, deviceFaults>>
    BY Zenon, <1>10 DEF RemoveReplica, front, lifeCounts
  <2>3. CASE Listed = {r} /\ isUp
    BY Zenon, <1>6, <1>7, <2>1, <2>2, <2>3 DEF Listed, Some
  <2>4. CASE ~(Listed = {r} /\ isUp)
    <3>1. lifeMode' \in [LifeReplicas -> {"RW", "bad", "ERR", "none", "closed"}] /\ (Some("closed")' => Some("closed"))
      BY Zenon, <1>7, <2>1, <2>4 DEF Some
    <3>2. \A q \in Listed : q # r => q \in Listed'
      BY Zenon, <1>7, <2>1, <2>4 DEF Listed
    <3>3. isUp' => Listed' # {}
      BY Zenon, <1>7, <2>2, <2>4, <3>2
    <3>4. QED
      BY Zenon, <1>6, <1>7, <2>2, <3>1, <3>3
  <2>5. QED
    BY Zenon, <2>3, <2>4
<1>11. CASE StartFrontend
  <2>1. lifeMode' = lifeMode
    BY Zenon, <1>11 DEF StartFrontend
  <2>2. CASE Listed # {} /\ lifeDevice' = "up" /\ isUp' = TRUE /\ UNCHANGED deviceFaults
    <3>1. isUp' \in BOOLEAN
      BY Zenon, <2>2
    <3>2. QED
      BY Zenon, <1>6, <1>7, <2>1, <2>2, <3>1 DEF Listed, Some
  <2>3. CASE UNCHANGED <<lifeDevice, isUp, deviceFaults>>
    BY Zenon, <1>6, <1>7, <2>1, <2>3 DEF Listed, Some
  <2>4. ~(deviceFaults < MaxDeviceFaults)
    BY <1>7
  <2>5. QED
    BY Zenon, <1>11, <2>2, <2>3, <2>4 DEF StartFrontend, Startup, front
<1>12. QED
  BY Zenon, <1>8, <1>9, <1>10, <1>11

\* The steps of Shutdown.
LEMMA LifeShutdownStep ==
  ASSUME Overlaps = {}, MaxDeviceFaults = 0, LifeInv,
         BeginShutdown \/ ShutdownRLock \/ shutdownFrontend \/ ShutdownQueue \/ shutdownBackend
  PROVE  LifeInv'
<1>1. /\ lifeMode \in [LifeReplicas -> {"RW", "bad", "ERR", "none", "closed"}] /\ (isUp => Listed # {})
      /\ isUp \in BOOLEAN /\ dirty \in BOOLEAN /\ lost \in BOOLEAN /\ ~lost /\ deviceFaults \in Nat
  BY Zenon DEF LifeInv, LifeTypeOK, FinalDataKept, UpHasReplica, WrittenBack
<1>2. ~(deviceFaults < MaxDeviceFaults)
  BY <1>1
<1> USE DEF LifeInv, LifeTypeOK, Procs, LifeLabels, ShuttingDown, FinalDataKept, WrittenBack, UpHasReplica
<1>3. CASE BeginShutdown
  <2>1. pc' \in [Procs -> LifeLabels] /\ pc'["shutdown"] = "rlock" /\ \A q \in Procs \ {"shutdown"} : pc'[q] = pc[q]
    BY Zenon, <1>3, LifeMoves DEF BeginShutdown
  <2>2. waiting = {} /\ UNCHANGED <<waiting, lifeMode, lifeDevice, isUp, dirty, lost, deviceFaults>> /\ pc["shutdown"] = "idle"
    BY Zenon, <1>3 DEF BeginShutdown, lockVars, front, lifeCounts
  <2>3. QED
    BY Zenon, <2>1, <2>2 DEF Good, Listed, Some
<1>4. CASE ShutdownRLock
  <2>1. pc' \in [Procs -> LifeLabels] /\ pc'["shutdown"] = "device" /\ \A q \in Procs \ {"shutdown"} : pc'[q] = pc[q]
    BY Zenon, <1>4, LifeMoves DEF ShutdownRLock
  <2>2. /\ UNCHANGED <<waiting, lifeMode, isUp, dirty, lost, deviceFaults>> /\ pc["shutdown"] = "rlock"
        /\ lifeDevice' = IF lifeDevice = "up" THEN "stopping" ELSE lifeDevice
    BY Zenon, <1>4 DEF ShutdownRLock, RLock, lifeCounts
  <2>3. QED
    BY <2>1, <2>2 DEF Good, Listed, Some
<1>5. CASE shutdownFrontend
  <2>1. pc' \in [Procs -> LifeLabels] /\ pc'["shutdown"] = "gap" /\ \A q \in Procs \ {"shutdown"} : pc'[q] = pc[q]
    BY Zenon, <1>5, LifeMoves DEF shutdownFrontend
  <2>2. /\ UNCHANGED <<waiting, lifeMode, dirty, lost, deviceFaults>> /\ pc["shutdown"] = "device"
        /\ lifeDevice # "stopping" \/ ~dirty
        /\ lifeDevice' = "down" /\ isUp' = FALSE
    BY Zenon, <1>2, <1>5 DEF shutdownFrontend, RUnlock
  <2>3. isUp' \in BOOLEAN /\ ~isUp'
    BY Zenon, <2>2
  <2>4. lifeDevice \in {"down", "up", "stopping"}
    BY Zenon
  <2>5. ~dirty
    BY Zenon, <2>2, <2>4
  <2>6. LifeTypeOK'
    BY Zenon, <1>1, <2>1, <2>2, <2>3
  <2>7. Good' = Good /\ ~Some("closed") /\ ~Some("closed")'
    BY Zenon, <2>2 DEF Good, Some
  <2>8. \A p \in waiting : p \in Procs \ {"shutdown"}
    BY Zenon, <2>2
  <2>9. QED
    BY <2>1, <2>2, <2>3, <2>5, <2>6, <2>7, <2>8
<1>6. CASE ShutdownQueue
  <2>1. pc' \in [Procs -> LifeLabels] /\ pc'["shutdown"] = "backend" /\ \A q \in Procs \ {"shutdown"} : pc'[q] = pc[q]
    BY Zenon, <1>6, LifeMoves DEF ShutdownQueue
  <2>2. /\ UNCHANGED <<lifeMode, lifeDevice, isUp, dirty, lost, deviceFaults>> /\ pc["shutdown"] = "gap"
        /\ waiting' = waiting \cup {"shutdown"}
    BY Zenon, <1>6 DEF ShutdownQueue, Queue, front, lifeCounts
  <2>3. QED
    BY <2>1, <2>2 DEF Good, Listed, Some
<1>7. CASE shutdownBackend
  <2>1. pc' \in [Procs -> LifeLabels] /\ pc'["shutdown"] = "done" /\ \A q \in Procs \ {"shutdown"} : pc'[q] = pc[q]
    BY Zenon, <1>7, LifeMoves DEF shutdownBackend
  <2>2. /\ UNCHANGED <<lifeDevice, isUp, dirty, lost>> /\ pc["shutdown"] = "backend"
        /\ waiting' = waiting \ {"shutdown"} /\ lifeMode' = [r \in LifeReplicas |-> "closed"]
    BY Zenon, <1>7 DEF shutdownBackend, Exclusive, front
  <2>3. deviceFaults' = deviceFaults
    BY Zenon, <1>2, <1>7 DEF shutdownBackend
  <2>4. lifeMode' \in [LifeReplicas -> {"RW", "bad", "ERR", "none", "closed"}] /\ Good' = {}
    BY Zenon, <2>2 DEF Good
  <2>5. QED
    BY <2>1, <2>2, <2>3, <2>4
<1>8. QED
  BY Zenon, <1>3, <1>4, <1>5, <1>6, <1>7

\* A volume that is up has replicas, and what its device holds when the volume is shut
\* down reaches a good replica if there is one: for any replicas and faults before the
\* shutdown, when no mode change, removal or start of the frontend is asked for during
\* it and stopping the device does not fail.
THEOREM FinalDataIsKept ==
  ASSUME Overlaps = {}, MaxDeviceFaults = 0
  PROVE  LifeSpec => []FinalDataKept
<1>1. LifeInv /\ [LifeNext]_lifeVars => LifeInv'
  <2> SUFFICES ASSUME LifeInv, [LifeNext]_lifeVars PROVE LifeInv'
    BY Zenon
  <2>1. CASE UNCHANGED lifeVars
    BY <2>1 DEF lifeVars, lockVars, front, lifeCounts, LifeInv, LifeTypeOK, ShuttingDown, FinalDataKept, WrittenBack,
                UpHasReplica, Good, Listed, Some
  <2>2. QED
    BY Zenon, <2>1, LifeWriteStep, LifeTimeoutStep, LifeQueueStep, LifeLockStep, LifeShutdownStep DEF LifeNext, LifeStep
<1>2. LifeInv => FinalDataKept
  BY Zenon DEF LifeInv
<1>3. QED
  BY <1>1, <1>2, LifeStarts, PTL DEF LifeSpec

-----------------------------------------------------------------------------
\* A set of natural numbers that is not empty has a least element.
LEMMA LeastNatural ==
    ASSUME NEW T, T \subseteq Nat, T # {} PROVE \E x \in T : \A y \in T : x <= y
<1> DEFINE R == OpToRel(<, Nat)
<1>1. IsWellFoundedOn(R, Nat)
  BY Zenon, NatLessThanWellFounded
<1>2. ASSUME NEW a \in Nat, NEW c \in Nat, <<a, c>> \notin R PROVE c <= a
  <2>1. <<a, c>> \in Nat \X Nat /\ <<a, c>>[1] = a /\ <<a, c>>[2] = c
    BY Zenon
  <2>2. a < c => <<a, c>> \in R
    BY Zenon, <2>1 DEF OpToRel
  <2>3. ~(a < c)
    BY Zenon, <1>2, <2>2
  <2>4. QED
    BY <2>3
<1> HIDE DEF R
<1>3. \E x \in T : \A y \in T : <<y, x>> \notin R
  BY Zenon, <1>1, WFMin
<1>4. QED
  BY Zenon, <1>2, <1>3

\* A function to the natural numbers has a least value on a set.
LEMMA LeastValue ==
    ASSUME NEW S, S # {}, NEW f, \A s \in S : f[s] \in Nat
    PROVE  \E r \in S : \A q \in S : f[r] <= f[q]
<1> DEFINE T == {f[s] : s \in S}
<1>1. T \subseteq Nat /\ T # {}
  BY Zenon
<1>2. PICK x \in T : \A y \in T : x <= y
  BY Zenon, <1>1, LeastNatural
<1>3. QED
  BY Zenon, <1>2
-----------------------------------------------------------------------------
StartType ==
    /\ Given \subseteq Nat /\ replica \in [Given -> Profile]
    /\ asked \in Request
    /\ startPc \in {"connect", "flag", "setting", "counter", "salvage", "frontend",
                    "started", "failed", "startedAgain"}
    /\ startMode \in [Given -> {"none", "RW", "ERR"}]
    /\ available \subseteq Given

\* A replica has the sizes of the volume, the flag and the setting of the controller.
Fits(r) == replica[r].size = startSize /\ replica[r].sectorSize = startSector /\ ~replica[r].rebuilding
FlagOK(r) == replica[r].unmapFlag = asked.unmapFlag
SettingOK(r) == replica[r].counterDisabled = asked.counterDisabled

\* The replicas in use were found in order, and have the flag once it was checked.
Sound ==
    /\ startPc \in {"flag", "setting", "counter", "salvage", "frontend", "started"}
       => InUse \subseteq available /\ \A r \in available : Fits(r)
    /\ startPc \in {"setting", "counter", "salvage", "frontend", "started"} => \A r \in InUse : FlagOK(r)

\* Until they are compared, no replica is given up that has the flag and the setting.
Complete ==
    /\ startPc = "flag" => InUse = available
    /\ startPc = "setting" => ~asked.upgrade /\ \A q \in available : FlagOK(q) => q \in InUse
    /\ startPc \in {"counter", "salvage"} =>
          /\ ~asked.upgrade /\ (asked.counterDisabled <=> startPc = "salvage")
          /\ startPc = "salvage" => asked.salvage
          /\ \A q \in available : FlagOK(q) /\ SettingOK(q) => q \in InUse

\* Once the counters are compared, the ones in use have the largest.
Compared ==
    ~asked.counterDisabled /\ ~asked.upgrade => \A r \in InUse :
        /\ \A q \in InUse : replica[q].counter = replica[r].counter
        /\ \A q \in available : FlagOK(q) /\ SettingOK(q) => replica[q].counter <= replica[r].counter

\* Salvage has left the best.
Salvaged ==
    asked.counterDisabled /\ asked.salvage /\ ~asked.upgrade => \E r \in InUse :
        /\ InUse = {r}
        /\ \A q \in available : FlagOK(q) /\ SettingOK(q) =>
              /\ replica[r].modified + Period > replica[q].modified
              /\ \/ replica[q].headSize <= replica[r].headSize
                 \/ \E p \in available : replica[q].modified + Period <= replica[p].modified

StartInv == StartType /\ Sound /\ Complete /\ (startPc \in {"frontend", "started"} => Compared /\ Salvaged)

\* What is asked has its types.
LEMMA RequestType ==
    ASSUME NEW a \in Request
    PROVE  /\ a.counterDisabled \in BOOLEAN /\ a.salvage \in BOOLEAN
           /\ a.upgrade \in BOOLEAN /\ a.unmapFlag \in BOOLEAN
  BY Zenon DEF Request

\* So has a replica.
LEMMA ProfileType ==
    ASSUME NEW p \in Profile
    PROVE  /\ p.size \in Nat /\ p.sectorSize \in Nat /\ p.counter \in Int
           /\ p.modified \in Nat /\ p.modified <= MaxInt /\ p.headSize \in Nat /\ p.headSize <= MaxInt
           /\ p.rebuilding \in BOOLEAN /\ p.counterDisabled \in BOOLEAN /\ p.unmapFlag \in BOOLEAN
<1>1. p.modified \in 0..MaxInt /\ p.headSize \in 0..MaxInt
  BY Zenon DEF Profile
<1>2. p.size \in Nat /\ p.sectorSize \in Nat /\ p.counter \in Int
  BY Zenon DEF Profile
<1>3. p.rebuilding \in BOOLEAN /\ p.counterDisabled \in BOOLEAN /\ p.unmapFlag \in BOOLEAN
  BY Zenon DEF Profile
<1>4. p.modified \in Nat /\ p.modified <= MaxInt /\ p.headSize \in Nat /\ p.headSize <= MaxInt
  BY <1>1, StartAssumption
<1>5. QED
  BY Zenon, <1>2, <1>3, <1>4

\* A flag of a replica changes, and nothing else.
LEMMA RebuildingChanges ==
    ASSUME NEW p \in Profile, NEW x \in BOOLEAN, NEW t, t = [p EXCEPT !.rebuilding = x]
    PROVE  t \in Profile /\ t.size = p.size /\ t.sectorSize = p.sectorSize
  BY Zenon DEF Profile

\* The same for the flag of discards.
LEMMA UnmapChanges ==
    ASSUME NEW p \in Profile, NEW x \in BOOLEAN, NEW t, t = [p EXCEPT !.unmapFlag = x]
    PROVE  /\ t \in Profile /\ t.unmapFlag = x
           /\ t.size = p.size /\ t.sectorSize = p.sectorSize /\ t.rebuilding = p.rebuilding
  BY Zenon DEF Profile

\* Steps that leave the replicas as they are.
LEMMA MovesOn ==
    ASSUME StartInv, UNCHANGED <<replica, asked, available, startSize, startSector, startMode>>,
           startPc' \in {"failed", "startedAgain", startPc} \/ (startPc = "frontend" /\ startPc' = "started")
    PROVE  StartInv'
<1>1. /\ replica' = replica /\ asked' = asked /\ available' = available /\ startMode' = startMode
      /\ startSize' = startSize /\ startSector' = startSector
  BY Zenon
<1>2. Given' = Given /\ InUse' = InUse
  BY Zenon, <1>1 DEF Given, InUse
<1>3. StartType'
  BY Zenon, <1>1, <1>2 DEF StartInv, StartType
<1>4. \A r : Fits(r)' = Fits(r) /\ FlagOK(r)' = FlagOK(r) /\ SettingOK(r)' = SettingOK(r)
  BY Zenon, <1>1 DEF Fits, FlagOK, SettingOK
<1>5. (Compared => Compared') /\ (Salvaged => Salvaged')
  <2>1. Compared => Compared'
    BY Zenon, <1>1, <1>2 DEF Compared, FlagOK, SettingOK
  <2>2. Salvaged => Salvaged'
    BY Zenon, <1>1, <1>2 DEF Salvaged, FlagOK, SettingOK
  <2>3. QED
    BY Zenon, <2>1, <2>2
<1>6. CASE startPc' \in {"failed", "startedAgain"}
  BY Zenon, <1>3, <1>6 DEF StartInv, Sound, Complete
<1>7. CASE startPc' = startPc
  BY Zenon, <1>1, <1>2, <1>3, <1>4, <1>5, <1>7 DEF StartInv, Sound, Complete
<1>8. CASE startPc = "frontend" /\ startPc' = "started"
  <2>1. Sound' /\ Complete'
    BY Zenon, <1>1, <1>2, <1>4, <1>8 DEF StartInv, Sound, Complete
  <2>2. Compared' /\ Salvaged'
    BY Zenon, <1>5, <1>8 DEF StartInv
  <2>3. QED
    BY Zenon, <1>3, <2>1, <2>2 DEF StartInv
<1>9. QED
  BY Zenon, <1>6, <1>7, <1>8

\* Start connects to the replicas.
LEMMA ConnectStep == ASSUME StartInv, Connect PROVE StartInv'
<1>1. PICK reached \in SUBSET Given, gone \in SUBSET Given, reset \in {{}} \cup (IF Given = {1} THEN {Given} ELSE {}) :
        LET valid == {r \in reached : ~isReplicaInInvalidState(replica'[r])}
            same  == {r \in valid : replica[r].sectorSize = startSector'}
        IN  /\ replica' = ResetRebuild(reset)
            /\ startSector' = IF valid = {} THEN startSector ELSE replica[Min(valid)].sectorSize
            /\ startSize' = determineCorrectVolumeSize({replica[r].size : r \in same})
            /\ available' = {r \in same \ gone : replica[r].size = startSize'}
            /\ startMode' = [r \in Given |-> IF r \in available' THEN "RW" ELSE "ERR"]
            /\ startPc' = IF available' = {} THEN "failed" ELSE "flag"
  BY Zenon DEF Connect
<1>2. asked' = asked /\ asked \in Request /\ replica \in [Given -> Profile] /\ Given \subseteq Nat
  BY Zenon DEF Connect, StartInv, StartType
<1>3. /\ replica' = ResetRebuild(reset)
      /\ startMode' = [r \in Given |-> IF r \in available' THEN "RW" ELSE "ERR"]
      /\ startPc' \in {"failed", "flag"}
  BY Zenon, <1>1
<1>4. \A r \in available' : /\ r \in Given /\ ~replica'[r].rebuilding
                            /\ replica[r].sectorSize = startSector' /\ replica[r].size = startSize'
  BY Zenon, <1>1 DEF isReplicaInInvalidState
<1>5. Given' = Given
  BY Zenon, <1>3 DEF Given, ResetRebuild
<1>6. ASSUME NEW r \in Given
      PROVE  /\ replica'[r] \in Profile
             /\ replica'[r].size = replica[r].size /\ replica'[r].sectorSize = replica[r].sectorSize
  <2>1. PICK x : x = (replica[r].rebuilding /\ r \notin reset)
    BY Zenon
  <2>2. replica[r] \in Profile /\ x \in BOOLEAN
    <3>1. replica[r] \in Profile
      BY Zenon, <1>2
    <3>2. x = TRUE \/ x = FALSE
      BY Zenon, <2>1
    <3>3. QED
      BY Zenon, <3>1, <3>2
  <2>3. replica'[r] = [replica[r] EXCEPT !.rebuilding = x]
    BY Zenon, <1>3, <2>1 DEF ResetRebuild
  <2>4. PICK p, t : p = replica[r] /\ t = replica'[r]
    BY Zenon
  <2>5. p \in Profile /\ t = [p EXCEPT !.rebuilding = x]
    BY Zenon, <2>2, <2>3, <2>4
  <2>6. t \in Profile /\ t.size = p.size /\ t.sectorSize = p.sectorSize
    BY Zenon, <2>2, <2>5, RebuildingChanges
  <2>7. QED
    BY Zenon, <2>4, <2>6
<1>7. replica' \in [Given -> Profile]
  <2>1. replica' = [r \in Given |-> replica'[r]]
    BY Zenon, <1>3 DEF ResetRebuild
  <2>2. QED
    BY Zenon, <1>6, <2>1
<1>8. StartType'
  <2>1. startMode' \in [Given -> {"none", "RW", "ERR"}]
    BY Zenon, <1>3
  <2>2. available' \subseteq Given
    BY Zenon, <1>4
  <2>3. QED
    BY Zenon, <1>2, <1>3, <1>5, <1>7, <2>1, <2>2 DEF StartType
<1>9. InUse' = available'
  BY Zenon, <1>3, <1>4, <1>5 DEF InUse
<1>10. \A r \in available' : Fits(r)'
  BY Zenon, <1>4, <1>6 DEF Fits
<1>11. Sound' /\ Complete'
  BY Zenon, <1>3, <1>9, <1>10 DEF Sound, Complete
<1>12. QED
  BY Zenon, <1>3, <1>8, <1>11 DEF StartInv

\* checkUnmapMarkSnapChainRemoved.
LEMMA FlagStep == ASSUME StartInv, checkUnmapMarkSnapChainRemoved PROVE StartInv'
<1>1. PICK failing \in SUBSET {r \in InUse : replica[r].unmapFlag # asked.unmapFlag} :
        /\ replica' = [r \in Given |-> IF r \in InUse \ failing THEN [replica[r] EXCEPT !.unmapFlag = asked.unmapFlag]
                                       ELSE replica[r]]
        /\ startMode' = [r \in Given |-> IF r \in failing THEN "ERR" ELSE startMode[r]]
        /\ startPc' = IF InUse = failing THEN "failed" ELSE IF asked.upgrade THEN "frontend" ELSE "setting"
  BY Zenon DEF checkUnmapMarkSnapChainRemoved
<1>2. /\ asked' = asked /\ available' = available /\ startSize' = startSize /\ startSector' = startSector
      /\ startPc = "flag"
  BY Zenon DEF checkUnmapMarkSnapChainRemoved
<1>3. /\ asked \in Request /\ replica \in [Given -> Profile] /\ Given \subseteq Nat
      /\ startMode \in [Given -> {"none", "RW", "ERR"}] /\ available \subseteq Given
      /\ InUse = available /\ \A r \in available : Fits(r)
  BY Zenon, <1>2 DEF StartInv, StartType, Sound, Complete
<1>4. Given' = Given
  BY Zenon, <1>1 DEF Given
<1>5. ASSUME NEW r \in Given
      PROVE  /\ replica'[r] \in Profile
             /\ replica'[r].size = replica[r].size /\ replica'[r].sectorSize = replica[r].sectorSize
             /\ replica'[r].rebuilding = replica[r].rebuilding
             /\ r \in InUse \ failing => replica'[r].unmapFlag = asked.unmapFlag
             /\ r \notin InUse \ failing => replica'[r].unmapFlag = replica[r].unmapFlag
  <2>1. CASE r \notin InUse \ failing
    BY Zenon, <1>1, <1>3, <2>1
  <2>2. CASE r \in InUse \ failing
    <3>1. PICK p, t, x : p = replica[r] /\ t = replica'[r] /\ x = asked.unmapFlag
      BY Zenon
    <3>2. p \in Profile /\ x \in BOOLEAN /\ t = [p EXCEPT !.unmapFlag = x]
      BY Zenon, <1>1, <1>3, <2>2, <3>1, RequestType
    <3>3. /\ t \in Profile /\ t.unmapFlag = x
          /\ t.size = p.size /\ t.sectorSize = p.sectorSize /\ t.rebuilding = p.rebuilding
      BY ONLY Zenon, <3>2, UnmapChanges
    <3>4. QED
      BY Zenon, <2>2, <3>1, <3>3
  <2>3. QED
    BY Zenon, <2>1, <2>2
<1>6. StartType'
  <2>1. replica' = [r \in Given |-> replica'[r]]
    BY Zenon, <1>1
  <2>2. replica' \in [Given -> Profile]
    BY Zenon, <1>5, <2>1
  <2>3. startMode' \in [Given -> {"none", "RW", "ERR"}]
    BY Zenon, <1>1, <1>3
  <2>4. startPc' \in {"failed", "frontend", "setting"}
    BY Zenon, <1>1
  <2>5. QED
    BY Zenon, <1>2, <1>3, <1>4, <2>2, <2>3, <2>4 DEF StartType
<1>7. InUse' = InUse \ failing
  BY Zenon, <1>1, <1>3, <1>4 DEF InUse
<1>8. \A r \in Given : Fits(r) => Fits(r)'
  BY Zenon, <1>2, <1>5 DEF Fits
<1>9. \A r \in InUse' : FlagOK(r)'
  BY Zenon, <1>2, <1>3, <1>5, <1>7 DEF FlagOK
<1>10. \A q \in available : FlagOK(q)' => q \in InUse'
  BY Zenon, <1>1, <1>2, <1>3, <1>5, <1>7 DEF FlagOK
<1>11. startPc' \in {"failed", "frontend", "setting"} /\ (startPc' = "frontend" => asked.upgrade)
                                                  /\ (startPc' = "setting" => ~asked.upgrade)
  BY Zenon, <1>1
<1>12. Sound'
  BY Zenon, <1>2, <1>3, <1>7, <1>8, <1>9 DEF Sound
<1>13. Complete'
  BY Zenon, <1>2, <1>10, <1>11 DEF Complete
<1>14. startPc' = "frontend" => Compared' /\ Salvaged'
  BY Zenon, <1>2, <1>11 DEF Compared, Salvaged
<1>15. QED
  BY Zenon, <1>6, <1>11, <1>12, <1>13, <1>14 DEF StartInv

\* Steps that only give up replicas.
LEMMA GivenUp ==
    ASSUME StartInv, UNCHANGED <<replica, asked, available, startSize, startSector>>,
           startPc \in {"setting", "counter", "salvage"},
           startPc' \in {"counter", "salvage", "frontend"},
           startMode' \in [Given -> {"none", "RW", "ERR"}],
           \A r \in Given : startMode'[r] = "RW" => startMode[r] = "RW"
    PROVE  /\ StartType' /\ Sound'
           /\ Given' = Given /\ InUse' \subseteq InUse
           /\ \A r : (FlagOK(r)' <=> FlagOK(r)) /\ (SettingOK(r)' <=> SettingOK(r))
<1>1. /\ replica' = replica /\ asked' = asked /\ available' = available
      /\ startSize' = startSize /\ startSector' = startSector
  BY Zenon
<1>2. Given' = Given /\ InUse' \subseteq InUse
  BY Zenon, <1>1 DEF Given, InUse
<1>3. \A r : (Fits(r)' <=> Fits(r)) /\ (FlagOK(r)' <=> FlagOK(r)) /\ (SettingOK(r)' <=> SettingOK(r))
  BY Zenon, <1>1 DEF Fits, FlagOK, SettingOK
<1>4. StartType'
  BY Zenon, <1>1, <1>2 DEF StartInv, StartType
<1>5. InUse \subseteq available /\ (\A r \in available : Fits(r)) /\ \A r \in InUse : FlagOK(r)
  BY Zenon DEF StartInv, Sound
<1>6. Sound'
  BY Zenon, <1>1, <1>2, <1>3, <1>5 DEF Sound
<1>7. QED
  BY Zenon, <1>2, <1>3, <1>4, <1>6

\* checkReplicaRevCounterSettingMatch.
LEMMA SettingStep == ASSUME StartInv, checkReplicaRevCounterSettingMatch PROVE StartInv'
<1>1. /\ startPc = "setting" /\ asked' = asked /\ available' = available /\ replica' = replica
      /\ startSize' = startSize /\ startSector' = startSector
      /\ startMode' = [r \in Given |-> IF r \in InUse /\ replica[r].counterDisabled # asked.counterDisabled
                                       THEN "ERR" ELSE startMode[r]]
      /\ startPc' = IF ~asked.counterDisabled THEN "counter" ELSE IF asked.salvage THEN "salvage" ELSE "frontend"
  BY Zenon DEF checkReplicaRevCounterSettingMatch
<1>2. startMode \in [Given -> {"none", "RW", "ERR"}] /\ asked \in Request /\ available \subseteq Given
  BY Zenon DEF StartInv, StartType
<1>3. startMode' \in [Given -> {"none", "RW", "ERR"}] /\ \A r \in Given : startMode'[r] = "RW" => startMode[r] = "RW"
  BY Zenon, <1>1, <1>2
<1>4. /\ asked.counterDisabled => startPc' \in {"salvage", "frontend"}
      /\ ~asked.counterDisabled => startPc' = "counter"
      /\ startPc' = "salvage" => asked.salvage
      /\ startPc' = "frontend" => asked.counterDisabled /\ ~asked.salvage
      /\ startPc' \in {"counter", "salvage", "frontend"}
  BY Zenon, <1>1
<1>5. /\ StartType' /\ Sound' /\ Given' = Given /\ InUse' \subseteq InUse
      /\ \A r : (FlagOK(r)' <=> FlagOK(r)) /\ (SettingOK(r)' <=> SettingOK(r))
  BY Zenon, <1>1, <1>3, <1>4, GivenUp
<1>6. ~asked.upgrade /\ \A q \in available : FlagOK(q) => q \in InUse
  BY Zenon, <1>1 DEF StartInv, Complete
<1>7. ASSUME NEW q \in available, FlagOK(q)', SettingOK(q)' PROVE q \in InUse'
  <2>1. q \in Given /\ q \in InUse /\ SettingOK(q)
    BY Zenon, <1>2, <1>5, <1>6, <1>7
  <2>2. startMode'[q] = "RW"
    BY Zenon, <1>1, <2>1 DEF InUse, SettingOK
  <2>3. QED
    BY Zenon, <1>5, <2>1, <2>2 DEF InUse
<1>8. Complete'
  BY Zenon, <1>1, <1>4, <1>6, <1>7 DEF Complete
<1>9. startPc' = "frontend" => Compared' /\ Salvaged'
  BY Zenon, <1>1, <1>4 DEF Compared, Salvaged
<1>10. QED
  BY Zenon, <1>4, <1>5, <1>8, <1>9 DEF StartInv

\* checkReplicasRevisionCounter.
LEMMA CounterCheckStep == ASSUME StartInv, checkReplicasRevisionCounter PROVE StartInv'
<1>1. /\ startPc = "counter" /\ asked' = asked /\ available' = available /\ replica' = replica
      /\ startSize' = startSize /\ startSector' = startSector /\ startPc' = "frontend"
      /\ startMode' = [r \in Given |-> IF r \in InUse /\ ~Expected(r) THEN "ERR" ELSE startMode[r]]
  BY Zenon DEF checkReplicasRevisionCounter
<1>2. startMode \in [Given -> {"none", "RW", "ERR"}] /\ available \subseteq Given /\ replica \in [Given -> Profile]
  BY Zenon DEF StartInv, StartType
<1>3. startMode' \in [Given -> {"none", "RW", "ERR"}] /\ \A r \in Given : startMode'[r] = "RW" => startMode[r] = "RW"
  BY Zenon, <1>1, <1>2
<1>4. /\ StartType' /\ Sound' /\ Given' = Given /\ InUse' \subseteq InUse
      /\ \A r : (FlagOK(r)' <=> FlagOK(r)) /\ (SettingOK(r)' <=> SettingOK(r))
  BY Zenon, <1>1, <1>3, GivenUp
<1>5. ~asked.counterDisabled /\ \A q \in available : FlagOK(q) /\ SettingOK(q) => q \in InUse
  BY Zenon, <1>1 DEF StartInv, Complete
<1>6. \A r \in InUse' : r \in Given /\ Expected(r)
  BY Zenon, <1>1, <1>4 DEF InUse
<1>7. ASSUME NEW r \in InUse'
      PROVE  /\ \A q \in InUse : replica[q].counter <= replica[r].counter
             /\ \A q \in InUse' : replica[q].counter = replica[r].counter
  <2>1. \A q \in InUse : replica[q].counter <= replica[r].counter
    BY Zenon, <1>6 DEF Expected
  <2>2. ASSUME NEW q \in InUse' PROVE replica[q].counter = replica[r].counter
    <3>1. replica[q].counter <= replica[r].counter /\ replica[r].counter <= replica[q].counter
      BY Zenon, <1>4, <1>6 DEF Expected
    <3>2. replica[q].counter \in Int /\ replica[r].counter \in Int
      BY Zenon, <1>2, <1>6, ProfileType
    <3>3. QED
      BY <3>1, <3>2
  <2>3. QED
    BY Zenon, <2>1, <2>2
<1>8. Compared'
  BY Zenon, <1>1, <1>4, <1>5, <1>7 DEF Compared
<1>9. Salvaged' /\ Complete'
  BY Zenon, <1>1, <1>5 DEF Salvaged, Complete
<1>10. QED
  BY Zenon, <1>4, <1>8, <1>9 DEF StartInv

\* A bounded function to the natural numbers has a largest value on a set.
LEMMA LargestValue ==
    ASSUME NEW S, S # {}, NEW f, \A s \in S : f[s] \in Nat /\ f[s] <= MaxInt
    PROVE  \E r \in S : \A q \in S : f[q] <= f[r]
<1> DEFINE g == [s \in S |-> MaxInt - f[s]]
<1>1. \A s \in S : g[s] = MaxInt - f[s] /\ g[s] \in Nat
  BY StartAssumption
<1> HIDE DEF g
<1>2. PICK r \in S : \A q \in S : g[r] <= g[q]
  BY Zenon, <1>1, LeastValue
<1>3. ASSUME NEW q \in S PROVE f[q] <= f[r]
  BY <1>1, <1>2, StartAssumption
<1>4. QED
  BY Zenon, <1>3

\* One of the replicas is the best.
LEMMA BestExists == ASSUME StartInv, InUse # {} PROVE \E r : Best(r)
<1>1. /\ InUse \subseteq Given /\ Given \subseteq Nat
      /\ \A r \in InUse : /\ replica[r].modified \in Nat /\ replica[r].modified <= MaxInt
                          /\ replica[r].headSize \in Nat /\ replica[r].headSize <= MaxInt
  BY Zenon, ProfileType DEF StartInv, StartType, InUse
<1> DEFINE m == [r \in InUse |-> replica[r].modified]
<1> DEFINE h == [r \in InUse |-> replica[r].headSize]
<1>2. \A r \in InUse : /\ m[r] = replica[r].modified /\ h[r] = replica[r].headSize
                       /\ m[r] \in Nat /\ m[r] <= MaxInt /\ h[r] \in Nat /\ h[r] <= MaxInt
  BY Zenon, <1>1
<1> HIDE DEF m, h
<1>3. Candidates \subseteq InUse /\ Candidates # {}
  <2>1. PICK r \in InUse : \A q \in InUse : m[q] <= m[r]
    BY Zenon, <1>2, LargestValue
  <2>2. \A q \in InUse : replica[r].modified + Period > replica[q].modified
    BY <1>2, <2>1, StartAssumption
  <2>3. QED
    BY Zenon, <2>2 DEF Candidates
<1> DEFINE A == {r \in Candidates : \A q \in Candidates : h[q] <= h[r]}
<1>4. A # {} /\ A \subseteq InUse
  BY Zenon, <1>2, <1>3, LargestValue
<1> DEFINE B == {r \in A : \A q \in A : m[q] <= m[r]}
<1>5. B # {} /\ B \subseteq InUse
  <2> HIDE DEF A
  <2>1. QED
    BY Zenon, <1>2, <1>4, LargestValue
<1>6. PICK r \in B : \A q \in B : r <= q
  <2>1. B \subseteq Nat
    BY Zenon, <1>1, <1>5
  <2> HIDE DEF B
  <2>2. QED
    BY Zenon, <1>5, <2>1, LeastNatural
<1>7. r \in Candidates /\ r \in InUse
  BY Zenon, <1>4, <1>6
<1>8. ASSUME NEW q \in Candidates \ {r} PROVE Better(r, q) \/ (~Better(q, r) /\ r < q)
  <2>1. q \in InUse /\ q \in Nat /\ r \in Nat /\ h[q] <= h[r]
    BY Zenon, <1>1, <1>3, <1>6, <1>7
  <2>2. CASE h[q] # h[r]
    <3>1. h[r] > h[q]
      BY <1>2, <1>7, <2>1, <2>2
    <3>2. QED
      BY Zenon, <1>2, <1>7, <2>1, <3>1 DEF Better
  <2>3. CASE h[q] = h[r]
    <3>1. q \in A
      BY Zenon, <1>6, <2>3
    <3>2. m[q] <= m[r]
      BY Zenon, <1>6, <3>1
    <3>3. CASE m[q] # m[r]
      <4>1. m[r] > m[q]
        BY <1>2, <1>7, <2>1, <3>2, <3>3
      <4>2. QED
        BY Zenon, <1>2, <1>7, <2>1, <2>3, <4>1 DEF Better
    <3>4. CASE m[q] = m[r]
      <4>1. q \in B
        BY Zenon, <1>6, <3>1, <3>4
      <4>2. r < q
        <5>1. r <= q /\ r # q
          BY Zenon, <1>6, <1>8, <4>1
        <5>2. QED
          BY <2>1, <5>1
      <4>3. ~Better(q, r)
        BY <1>2, <1>7, <2>1, <2>3, <3>4 DEF Better
      <4>4. QED
        BY Zenon, <4>2, <4>3
    <3>5. QED
      BY Zenon, <3>3, <3>4
  <2>4. QED
    BY Zenon, <2>2, <2>3
<1>9. QED
  BY Zenon, <1>7, <1>8 DEF Best

\* No other one is.
LEMMA BestUnique == ASSUME StartInv, NEW r, NEW q, Best(r), Best(q) PROVE r = q
<1> SUFFICES ASSUME r # q PROVE FALSE
  BY Zenon
<1>1. r \in Candidates /\ q \in Candidates
  BY Zenon DEF Best
<1>2. /\ r \in Nat /\ q \in Nat
      /\ replica[r].modified \in Nat /\ replica[r].headSize \in Nat
      /\ replica[q].modified \in Nat /\ replica[q].headSize \in Nat
  BY Zenon, <1>1, ProfileType DEF StartInv, StartType, InUse, Candidates
<1>3. Better(r, q) \/ (~Better(q, r) /\ r < q)
  BY Zenon, <1>1 DEF Best
<1>4. Better(q, r) \/ (~Better(r, q) /\ q < r)
  BY Zenon, <1>1 DEF Best
<1>5. QED
  BY <1>2, <1>3, <1>4 DEF Better

\* salvageRevisionCounterDisabledReplicas.
LEMMA SalvageStep == ASSUME StartInv, salvageRevisionCounterDisabledReplicas PROVE StartInv'
<1>1. /\ startPc = "salvage" /\ asked' = asked /\ available' = available /\ replica' = replica
      /\ startSize' = startSize /\ startSector' = startSector
      /\ IF InUse = {} THEN startPc' = "failed" /\ UNCHANGED startMode
         ELSE /\ startMode' = [r \in Given |-> IF Best(r) THEN "RW" ELSE "ERR"]
              /\ startPc' = "frontend"
  BY Zenon DEF salvageRevisionCounterDisabledReplicas
<1>2. CASE InUse = {}
  BY Zenon, <1>1, <1>2, MovesOn
<1>3. CASE InUse # {}
  <2>1. startMode' = [r \in Given |-> IF Best(r) THEN "RW" ELSE "ERR"] /\ startPc' = "frontend"
    BY Zenon, <1>1, <1>3
  <2>2. PICK b : Best(b)
    BY Zenon, <1>3, BestExists
  <2>3. \A r : Best(r) => r = b
    BY Zenon, <2>2, BestUnique
  <2>4. b \in Candidates /\ b \in InUse /\ b \in Given /\ startMode[b] = "RW"
    BY Zenon, <2>2 DEF Best, Candidates, InUse
  <2>5. startMode' \in [Given -> {"none", "RW", "ERR"}] /\ \A r \in Given : startMode'[r] = "RW" => startMode[r] = "RW"
    BY Zenon, <2>1, <2>3, <2>4
  <2>6. /\ StartType' /\ Sound' /\ Given' = Given /\ InUse' \subseteq InUse
        /\ \A r : (FlagOK(r)' <=> FlagOK(r)) /\ (SettingOK(r)' <=> SettingOK(r))
    BY Zenon, <1>1, <2>1, <2>5, GivenUp
  <2>7. InUse' = {b}
    <3>1. startMode'[b] = "RW" /\ \A r \in Given : startMode'[r] = "RW" => r = b
      BY Zenon, <2>1, <2>2, <2>3, <2>4
    <3>2. QED
      BY Zenon, <2>4, <2>6, <3>1 DEF InUse
  <2>8. /\ asked.counterDisabled /\ InUse \subseteq available
        /\ \A q \in available : FlagOK(q) /\ SettingOK(q) => q \in InUse
    BY Zenon, <1>1 DEF StartInv, Complete, Sound
  <2>9. ASSUME NEW q \in InUse
        PROVE  /\ replica[b].modified + Period > replica[q].modified
               /\ \/ replica[q].headSize <= replica[b].headSize
                  \/ \E p \in available : replica[q].modified + Period <= replica[p].modified
    <3>1. replica[b].modified + Period > replica[q].modified
      BY Zenon, <2>4 DEF Candidates
    <3>2. replica[q] \in Profile /\ replica[b] \in Profile /\ \A p \in InUse : replica[p] \in Profile
      BY Zenon, <2>4 DEF StartInv, StartType, InUse
    <3>3. /\ replica[q].modified \in Nat /\ replica[q].headSize \in Nat /\ replica[b].headSize \in Nat
          /\ \A p \in InUse : replica[p].modified \in Nat
      BY Zenon, <3>2, ProfileType
    <3>4. CASE q \notin Candidates
      <4>1. PICK p \in InUse : ~(replica[q].modified + Period > replica[p].modified)
        BY Zenon, <3>4 DEF Candidates
      <4>2. replica[q].modified + Period <= replica[p].modified
        BY <3>3, <4>1, StartAssumption
      <4>3. QED
        BY Zenon, <2>8, <3>1, <4>2
    <3>5. CASE q \in Candidates
      <4>1. q = b \/ Better(b, q) \/ ~Better(q, b)
        BY Zenon, <2>2, <3>5 DEF Best
      <4>2. replica[q].headSize <= replica[b].headSize
        BY <3>3, <4>1 DEF Better
      <4>3. QED
        BY Zenon, <3>1, <4>2
    <3>6. QED
      BY Zenon, <3>4, <3>5
  <2>10. Salvaged'
    <3>1. \A q \in available : FlagOK(q)' /\ SettingOK(q)' =>
              /\ replica[b].modified + Period > replica[q].modified
              /\ \/ replica[q].headSize <= replica[b].headSize
                 \/ \E p \in available : replica[q].modified + Period <= replica[p].modified
      BY Zenon, <2>6, <2>8, <2>9
    <3>2. QED
      BY Zenon, <1>1, <2>7, <3>1 DEF Salvaged
  <2>11. Compared' /\ Complete'
    BY Zenon, <1>1, <2>1, <2>8 DEF Compared, Complete
  <2>12. QED
    BY Zenon, <2>1, <2>6, <2>10, <2>11 DEF StartInv
<1>4. QED
  BY Zenon, <1>2, <1>3

\* Shutdown.
LEMMA ShutdownStep == ASSUME StartInv, ShutdownVolume PROVE StartInv'
<1>1. /\ asked' = asked /\ available' = {} /\ replica' = replica /\ startPc' = "connect"
      /\ startMode' = [r \in Given |-> "none"]
  BY Zenon DEF ShutdownVolume
<1>2. Given' = Given
  BY Zenon, <1>1 DEF Given
<1>3. StartType'
  BY Zenon, <1>1, <1>2 DEF StartInv, StartType
<1>4. QED
  BY Zenon, <1>1, <1>3 DEF StartInv, Sound, Complete

-----------------------------------------------------------------------------
\* The replicas a volume is started with agree in all that is compared, none with more
\* writes is given up for one of them, and salvage leaves the best one, for any number
\* of replicas in any state and any calls that fail (Start, checkReplicasRevisionCounter,
\* salvageRevisionCounterDisabledReplicas).
THEOREM StartsRight == StartSpec => []StartedRight
<1>1. StartInit => StartInv
  <2> SUFFICES ASSUME StartInit PROVE StartInv
    BY Zenon
  <2>1. PICK s \in Starts : replica \in [1..s.addresses -> s.profiles] /\ asked \in s.requests
    BY Zenon DEF StartInit
  <2>2. s.addresses \in Nat /\ s.profiles \subseteq Profile /\ s.requests \subseteq Request
    BY Zenon, StartAssumption
  <2>3. /\ startPc = "connect" /\ available = {} /\ startMode = [r \in Given |-> "none"]
    BY Zenon DEF StartInit
  <2>4. Given = 1..s.addresses
    BY Zenon, <2>1 DEF Given
  <2>5. replica \in [Given -> Profile] /\ asked \in Request
    BY Zenon, <2>1, <2>2, <2>4
  <2>6. Given \subseteq Nat
    BY <2>2, <2>4
  <2>7. startMode \in [Given -> {"none", "RW", "ERR"}]
    BY Zenon, <2>3
  <2>8. StartType
    BY Zenon, <2>3, <2>5, <2>6, <2>7 DEF StartType
  <2>9. QED
    BY Zenon, <2>3, <2>8 DEF StartInv, Sound, Complete
<1>2. StartInv /\ [StartNext]_startVars => StartInv'
  <2> SUFFICES ASSUME StartInv, [StartNext]_startVars PROVE StartInv'
    BY Zenon
  <2>1. CASE Connect
    BY Zenon, <2>1, ConnectStep
  <2>2. CASE CallFails \/ startFrontend \/ StartAgain \/ UNCHANGED startVars
    BY Zenon, <2>2, MovesOn DEF CallFails, startFrontend, StartAgain, startVars
  <2>3. CASE checkUnmapMarkSnapChainRemoved \/ checkReplicaRevCounterSettingMatch
    BY Zenon, <2>3, FlagStep, SettingStep
  <2>4. CASE checkReplicasRevisionCounter \/ salvageRevisionCounterDisabledReplicas
    BY Zenon, <2>4, CounterCheckStep, SalvageStep
  <2>5. CASE ShutdownVolume
    BY Zenon, <2>5, ShutdownStep
  <2>6. QED
    BY Zenon, <2>1, <2>2, <2>3, <2>4, <2>5 DEF StartNext
<1>3. StartInv => StartedRight
  <2> SUFFICES ASSUME StartInv, startPc = "started" PROVE StartedRight
    BY Zenon DEF StartedRight, StartedInSync, NewestKept, SalvageBest
  <2>1. /\ InUse \subseteq available /\ (\A r \in available : Fits(r)) /\ (\A r \in InUse : FlagOK(r))
        /\ Compared /\ Salvaged /\ asked \in Request /\ available \subseteq Given /\ replica \in [Given -> Profile]
    BY Zenon DEF StartInv, Sound, StartType
  <2>2. StartedInSync
    BY Zenon, <2>1 DEF StartedInSync, Fits, FlagOK, Compared
  <2>3. ASSUME NEW q \in available
        PROVE  /\ ~asked.counterDisabled /\ ~replica[q].counterDisabled => SettingOK(q)
               /\ asked.counterDisabled /\ replica[q].counterDisabled => SettingOK(q)
    <3>1. replica[q].counterDisabled \in BOOLEAN /\ asked.counterDisabled \in BOOLEAN
      BY Zenon, <2>1, ProfileType, RequestType
    <3>2. QED
      BY Zenon, <3>1 DEF SettingOK
  <2>4. NewestKept
    BY Zenon, <2>1, <2>3 DEF NewestKept, Compared, FlagOK
  <2>5. SalvageBest
    BY Zenon, <2>1, <2>3 DEF SalvageBest, Salvaged, FlagOK
  <2>6. QED
    BY Zenon, <2>2, <2>4, <2>5 DEF StartedRight
<1>4. QED
  BY <1>1, <1>2, <1>3, PTL DEF StartSpec
=============================================================================
