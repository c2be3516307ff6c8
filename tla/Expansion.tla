------------------------------ MODULE Expansion ------------------------------
(***************************************************************************)
(* Expanding a volume: Expand, startExpansion and finishExpansion of       *)
(* pkg/controller/control.go, Expand of replicator.go and of the replica,  *)
(* next to a replica that is being added (AddReplica of pkg/sync/sync.go), *)
(* which reads the volume's size, expands the new replica to it and only   *)
(* then asks the controller to add it.                                     *)
(*                                                                         *)
(* Expand returns at once; a goroutine syncs without the lock, expands the *)
(* replicas with it, and then, without it, the frontend.                   *)
(***************************************************************************)
EXTENDS Integers, FiniteSets

CONSTANTS Replicas,
          Tasks,         \* calls of Expand
          NewReplica,    \* the replica that is added
          Sizes,
          SameSize,      \* a call may ask for the size the volume has
          OverlapAdd     \* an expansion may run while a replica is being added

ASSUME ExpansionAssumption ==
    /\ Sizes \subseteq Nat /\ NewReplica \in Replicas
    /\ SameSize \in BOOLEAN /\ OverlapAdd \in BOOLEAN

VARIABLES
    csize, isExpanding,   \* c.size, c.isExpanding
    size, mode,           \* of each replica: r.info.Size, and its mode
    task,                 \* of each call: where it is, its size, and whether the replicas were expanded
    device,               \* the size of the frontend's device
    adder, addSize        \* AddReplica: where it is, and the volume's size it has read

vars == <<csize, isExpanding, size, mode, task, device, adder, addSize>>

Live == {r \in Replicas : mode[r] \in {"RW", "WO"}}
Idle == [pc |-> "idle", size |-> 0, expanded |-> FALSE]

-----------------------------------------------------------------------------
\* Expanding

\* Mutant: no test that an expansion is in progress.
ExpandTwice(t, s) ==
    /\ task[t].pc = "idle"
    /\ OverlapAdd \/ adder \in {"idle", "done"}
    /\ \/ csize < s /\ isExpanding' = TRUE
       \/ SameSize /\ csize = s /\ UNCHANGED isExpanding
    /\ task' = [task EXCEPT ![t] = [pc |-> "sync", size |-> s, expanded |-> FALSE]]
    /\ UNCHANGED <<csize, size, mode, device, adder, addSize>>

\* startExpansion: a call for the size the volume has is no error, and its
\* goroutine is started all the same.
Expand(t, s) ==
    /\ task[t].pc = "idle" /\ ~isExpanding
    /\ OverlapAdd \/ adder \in {"idle", "done"}
    /\ \/ csize < s /\ isExpanding' = TRUE
       \/ SameSize /\ csize = s /\ UNCHANGED isExpanding
    /\ task' = [task EXCEPT ![t] = [pc |-> "sync", size |-> s, expanded |-> FALSE]]
    /\ UNCHANGED <<csize, size, mode, device, adder, addSize>>

\* Expand of a replica: what the call may return, and the size it may leave.
Outcomes(r, s) ==
    IF size[r] > s THEN {[code |-> "withoutRollback", size |-> size[r]]}
    ELSE IF size[r] = s THEN {[code |-> "ok", size |-> s]}
    ELSE {[code |-> "ok", size |-> s], [code |-> "rolledBack", size |-> size[r]],
          [code |-> "unknown", size |-> size[r]], [code |-> "unknown", size |-> s]}

Results(s) == {f \in [Live -> [code : {"ok", "rolledBack", "unknown", "withoutRollback"}, size : Sizes]] :
                   \A r \in Live : f[r] \in Outcomes(r, s)}

\* Mutant: a replica that has rolled back is kept, whatever the others did.
OutOfSyncRollback(f) == {r \in Live : f[r].code \notin {"ok", "rolledBack"}}

\* Mutant: only a failed rollback counts, not an unknown result.
OutOfSyncKnown(f) ==
    LET failed == {r \in Live : f[r].code # "ok"}
    IN  IF failed # Live THEN failed ELSE {}

\* replicator.Expand: the replicas that are out of sync.  If only some failed, a
\* replica that has rolled back is out of sync as well.
OutOfSync(f) ==
    LET failed == {r \in Live : f[r].code # "ok"}
    IN  IF failed # Live THEN failed ELSE {r \in Live : f[r].code # "rolledBack"}

Succeeds(f) == \E r \in Live : f[r].code = "ok"

\* The step that holds the lock; canDoSnapshot may refuse it, and does without
\* any replica.
ExpandBackend(t) ==
    /\ task[t].pc = "sync"
    /\ \/ /\ task' = [task EXCEPT ![t].pc = "finish"]
          /\ UNCHANGED <<size, mode>>
       \/ /\ Live # {}
          /\ \E f \in Results(task[t].size) :
                /\ size' = [r \in Replicas |-> IF r \in Live THEN f[r].size ELSE size[r]]
                /\ mode' = [r \in Replicas |-> IF r \in Live /\ r \in OutOfSync(f) THEN "ERR" ELSE mode[r]]
                /\ task' = [task EXCEPT ![t].pc = IF Succeeds(f) THEN "frontend" ELSE "finish"]
    /\ UNCHANGED <<csize, isExpanding, device, adder, addSize>>

\* The frontend is expanded without the lock; it may fail.
ExpandFrontend(t) ==
    /\ task[t].pc = "frontend"
    /\ \/ /\ device' = task[t].size
          /\ task' = [task EXCEPT ![t].pc = "finish", ![t].expanded = TRUE]
       \/ /\ task' = [task EXCEPT ![t].pc = "finish"]
          /\ UNCHANGED device
    /\ UNCHANGED <<csize, isExpanding, size, mode, adder, addSize>>

finishExpansion(t) ==
    /\ task[t].pc = "finish"
    /\ csize' = IF task[t].expanded THEN task[t].size ELSE csize
    /\ isExpanding' = FALSE
    /\ task' = [task EXCEPT ![t] = Idle]
    /\ UNCHANGED <<size, mode, device, adder, addSize>>

-----------------------------------------------------------------------------
\* Adding a replica

\* AddReplica reads the volume's size,
ReadSize ==
    /\ adder = "idle"
    /\ OverlapAdd \/ \A t \in Tasks : task[t].pc = "idle"
    /\ addSize' = csize
    /\ adder' = "check"
    /\ UNCHANGED <<csize, isExpanding, size, mode, task, device>>

\* checkAndExpandReplica expands the new replica to it,
checkAndExpandReplica ==
    /\ adder = "check"
    /\ \/ /\ size[NewReplica] > addSize
          /\ adder' = "done"
          /\ UNCHANGED size
       \/ /\ size[NewReplica] <= addSize
          /\ size' = [size EXCEPT ![NewReplica] = addSize]
          /\ adder' = "create"
    /\ UNCHANGED <<csize, isExpanding, mode, task, device, addSize>>

\* and the controller adds it, unless it is expanding; it does not look at the
\* size.
AddReplica ==
    /\ adder = "create"
    /\ adder' = "done"
    /\ mode' = IF isExpanding THEN mode ELSE [mode EXCEPT ![NewReplica] = "WO"]
    /\ UNCHANGED <<csize, isExpanding, size, task, device, addSize>>

\* Rebuilding ends.
VerifyRebuild ==
    /\ mode[NewReplica] = "WO"
    /\ mode' = [mode EXCEPT ![NewReplica] = "RW"]
    /\ UNCHANGED <<csize, isExpanding, size, task, device, adder, addSize>>

\* A replica fails.
SetError(r) ==
    /\ r \in Live
    /\ mode' = [mode EXCEPT ![r] = "ERR"]
    /\ UNCHANGED <<csize, isExpanding, size, task, device, adder, addSize>>

-----------------------------------------------------------------------------
Init ==
    /\ csize \in Sizes /\ isExpanding = FALSE
    /\ mode = [r \in Replicas |-> IF r = NewReplica THEN "out" ELSE "RW"]
    /\ size \in [Replicas -> Sizes]
    /\ \A r \in Replicas \ {NewReplica} : size[r] = csize
    /\ task = [t \in Tasks |-> Idle]
    /\ device = csize
    /\ adder = "idle" /\ addSize = csize

Step(t) == ExpandBackend(t) \/ ExpandFrontend(t) \/ finishExpansion(t)

Next ==
    \/ \E t \in Tasks : (\E s \in Sizes : Expand(t, s)) \/ Step(t)
    \/ ReadSize \/ checkAndExpandReplica \/ AddReplica \/ VerifyRebuild
    \/ \E r \in Replicas : SetError(r)

Spec == Init /\ [][Next]_vars

\* No I/O the controller or the device admits lies past the end of a replica in
\* use: replicas that could not be expanded are put out of service, and the size
\* of the volume is raised last (Expand).
ReplicasCoverVolume ==
    \A r \in Live : size[r] >= csize /\ size[r] >= device

\* The replicas the volume had have one size, whatever part of them failed to
\* expand or rolled back (replicator.Expand).  One that is added while the
\* frontend lags behind has the size of the volume.
ReplicasAgree ==
    \A r, q \in Live \ {NewReplica} : size[r] = size[q]

\* "controller cannot be expanded to a smaller size": neither the volume nor its
\* device ever gets smaller (startExpansion, finishExpansion).
NeverShrinks == [][csize' >= csize /\ device' >= device]_vars

\* The flag that keeps other operations out is set exactly while an expansion is
\* in progress.
FlagExact == isExpanding <=> \E t \in Tasks : task[t].pc # "idle"

\* "If the error code is not `ErrorCodeFunctionFailedRollbackSucceeded`, the related
\* replica must be out of sync": a replica that was left as it was because it is
\* larger than the size asked for is not put out of service.
OnlyOutOfSyncDropped ==
    [][\A t \in Tasks : task[t].pc = "sync" /\ task'[t].pc # "sync" =>
           \A r \in Live : mode'[r] = "ERR" => size[r] <= task[t].size]_vars

\* Fairness: the goroutine of an expansion goes on.
Fairness == \A t \in Tasks : WF_vars(Step(t))

LiveSpec == Spec /\ Fairness
=============================================================================
