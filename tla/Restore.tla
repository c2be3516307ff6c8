------------------------------ MODULE Restore ------------------------------
(***************************************************************************)
(* Restoring backups into the replicas of a volume: the task that chooses  *)
(* the snapshot to restore to (pkg/sync/backup.go), the sync agent of each *)
(* replica (pkg/sync/rpc/server.go), its status (pkg/replica/restore.go)   *)
(* and the calls of the backup store (pkg/backup/main.go).  The store      *)
(* itself is external: it writes the file it is given block after block,   *)
(* the whole backup, or what differs from the last one restored.           *)
(***************************************************************************)
EXTENDS Integers, Sequences, FiniteSets

CONSTANTS RestoreReplicas,
          RestoreBlocks,   \* blocks of a volume
          Content,         \* the backups: a sequence of volumes, 0 being a block without data
          MaxNames,        \* snapshot names the task may make up
          MaxCalls,        \* restores asked for
          MaxFaults,       \* failing steps
          MaxCrashes,      \* restarts of a sync agent
          HeadBehind       \* whether a restore is asked for when a replica has loaded the
                           \* snapshot and its volume head was not yet, or never, put on it

ASSUME RestoreAssumption ==
    RestoreBlocks \in Nat /\ MaxNames \in Nat /\ Content \in Seq([1..RestoreBlocks -> Nat \ {0}])

Zero == [n \in 1..RestoreBlocks |-> 0]
NoFile == <<>>
SnapNames == 0..MaxNames  \* 0 is the snapshot without a name, volume-snap-.img

VARIABLES
    file,        \* the snapshot files of each replica: name -> content or NoFile
    out,         \* the delta file or the temporary file of each replica
    known,       \* the snapshots the replica has loaded
    parent,      \* the parent of its volume head, or -1
    st,          \* RestoreInfo of each agent
    restoring,   \* isRestoring
    pc,          \* completeBackupRestore
    store,       \* blocks the backup store has written, -1 when it is not at work
    task,        \* RestoreBackup
    gone,        \* backups deleted from the store
    names, calls, faults, crashes

restoreDisks == <<file, out, known, parent>>
restoreAgents == <<st, restoring, pc, store>>
restoreCounts == <<names, calls, faults, crashes>>
restoreVars == <<restoreDisks, restoreAgents, task, gone, restoreCounts>>

Blank == [state |-> "none", last |-> 0, cur |-> 0, to |-> "snap", name |-> -1, progress |-> 0]
NoTask == [todo |-> {}, b |-> 0, name |-> -1]

RestoreFault == faults < MaxFaults /\ faults' = faults + 1
RestoreGoto(r, l) == pc' = [pc EXCEPT ![r] = l]

-----------------------------------------------------------------------------
\* RestoreBackup: what the task learns of the replicas.
\* GetSnapshotsInfo takes a replica with the most snapshots as the source of the truth.
Largest == {r \in RestoreReplicas : \A q \in RestoreReplicas : Cardinality(known[q]) <= Cardinality(known[r])}

SnapshotDiskNames ==
    LET incremental == \E r \in RestoreReplicas : st[r].last # 0
        busy == {st[r].name : r \in {q \in RestoreReplicas : restoring[q]}}
        most(r) == Cardinality(known[r])
    IN UNION {CASE most(r) = 0 -> IF incremental THEN {} ELSE IF busy # {} THEN busy ELSE {names + 1}
                [] most(r) = 1 -> {IF parent[r] = -1 THEN 0 ELSE parent[r]}
                [] OTHER -> {} : r \in Largest}

RestoreBackup(b) ==
    /\ task = NoTask /\ calls < MaxCalls /\ calls' = calls + 1
    /\ b \notin gone
    /\ HeadBehind \/ \A r \in RestoreReplicas : parent[r] = -1 => known[r] = {}
    /\ \E n \in SnapshotDiskNames \cap SnapNames :
        /\ task' = [todo |-> RestoreReplicas, b |-> b, name |-> n]
        /\ names' = IF n > names THEN n ELSE names
    /\ UNCHANGED <<restoreDisks, restoreAgents, gone, faults, crashes>>

-----------------------------------------------------------------------------
\* StartRestore.
canDoIncrementalRestore(r) == st[r].last # 0 /\ st[r].last \notin gone

NewRestore(b, n) ==
    [state |-> "in_progress", last |-> 0, cur |-> b, to |-> "snap", name |-> n, progress |-> 0]

StartNewRestore(r, b, n, valid) ==
    [st[r] EXCEPT !.to = IF valid THEN "delta" ELSE "tmp", !.progress = 0, !.state = "in_progress",
                  !.name = n, !.cur = b, !.last = IF valid THEN @ ELSE 0]

\* Mutant: an earlier error does not refuse the restore.
MayStartAfterError(r, b) == ~restoring[r] /\ st[r].last # b

MayStart(r, b) == ~restoring[r] /\ st[r].state # "error" /\ st[r].last # b

\* OpenVolumeDev makes the file anew.
Initiate(r, new) ==
    /\ st' = [st EXCEPT ![r] = new]
    /\ restoring' = [restoring EXCEPT ![r] = TRUE]
    /\ store' = [store EXCEPT ![r] = 0]
    /\ RestoreGoto(r, "wait")
    /\ IF new.to = "snap" THEN file' = [file EXCEPT ![r][new.name] = Zero] /\ UNCHANGED out
       ELSE out' = [out EXCEPT ![r] = Zero] /\ UNCHANGED file
    /\ UNCHANGED <<known, parent>>

\* restoreBackup of one replica: the call may fail, the agent may refuse, and the status
\* is as before when the restore cannot be initiated.
StartRestore(r) ==
    LET b == task.b  n == task.name IN
    /\ r \in task.todo
    /\ task' = IF task.todo = {r} THEN NoTask ELSE [task EXCEPT !.todo = @ \ {r}]
    /\ \/ /\ MayStart(r, b) /\ b \notin gone
          /\ Initiate(r, IF st[r].last = 0 /\ st[r].state = "none" THEN NewRestore(b, n)
                         ELSE StartNewRestore(r, b, n, canDoIncrementalRestore(r)))
          /\ UNCHANGED faults
       \/ /\ ~MayStart(r, b) \/ b \in gone
          /\ UNCHANGED <<restoreDisks, restoreAgents, faults>>
       \/ RestoreFault /\ UNCHANGED <<restoreDisks, restoreAgents>>
    /\ UNCHANGED <<gone, names, calls, crashes>>

-----------------------------------------------------------------------------
\* The backup store restores the next block, or fails; a block the two backups share is
\* not in a delta.
Differs(r, n) == st[r].to # "delta" \/ Content[st[r].cur][n] # Content[st[r].last][n]

RestoreBlock(r) ==
    LET n == store[r] + 1 IN
    /\ store[r] >= 0 /\ n <= RestoreBlocks
    /\ store' = [store EXCEPT ![r] = n]
    /\ LET v == Content[st[r].cur][n] IN
       IF ~Differs(r, n) THEN UNCHANGED <<file, out>>
       ELSE IF st[r].to = "snap" THEN file' = [file EXCEPT ![r][st[r].name][n] = v] /\ UNCHANGED out
       ELSE out' = [out EXCEPT ![r][n] = v] /\ UNCHANGED file
    /\ UNCHANGED <<known, parent, st, restoring, pc, task, gone, restoreCounts>>

\* UpdateRestoreStatus.
RestoreFailed(r) == [st[r] EXCEPT !.progress = 0, !.state = "error", !.cur = 0]

StoreDone(r) ==
    /\ \/ /\ store[r] = RestoreBlocks
          /\ st' = [st EXCEPT ![r].progress = 100] /\ UNCHANGED faults
       \/ /\ store[r] >= 0 /\ RestoreFault
          /\ st' = [st EXCEPT ![r] = RestoreFailed(r)]
    /\ store' = [store EXCEPT ![r] = -1]
    /\ UNCHANGED <<restoreDisks, restoring, pc, task, gone, names, calls, crashes>>

-----------------------------------------------------------------------------
\* completeBackupRestore.
FinishRestore(r, failed) ==
    /\ restoring' = [restoring EXCEPT ![r] = FALSE]
    /\ st' = [st EXCEPT ![r] = IF failed THEN RestoreFailed(r)
                               ELSE IF @.state = "error" THEN @
                               ELSE [@ EXCEPT !.state = "complete", !.last = st[r].cur, !.cur = 0]]
    /\ RestoreGoto(r, "idle")

FinishCall(r, failed) ==
    FinishRestore(r, failed) /\ UNCHANGED <<store, task, gone, names, calls, crashes>>

\* A step of it, or the failure of that step.
Then(r, l, ok) ==
    \/ ok /\ RestoreGoto(r, l) /\ UNCHANGED <<st, restoring, store, task, gone, restoreCounts>>
    \/ RestoreFault /\ FinishCall(r, TRUE) /\ UNCHANGED restoreDisks

\* Mutant: an error does not end the wait.
waitForRestoreCompleteOnly(r) ==
    /\ pc[r] = "wait"
    /\ st[r].progress = 100
    /\ RestoreGoto(r, IF st[r].last # 0 THEN "fold" ELSE "meta")
    /\ UNCHANGED <<st, restoring, store, task, gone, restoreCounts, restoreDisks>>

waitForRestoreComplete(r) ==
    /\ pc[r] = "wait"
    /\ \/ /\ st[r].progress = 100
          /\ RestoreGoto(r, IF st[r].last # 0 THEN "fold" ELSE "meta")
          /\ UNCHANGED <<st, restoring, store, task, gone, restoreCounts>>
       \/ st[r].progress # 100 /\ st[r].state = "error" /\ FinishCall(r, TRUE) /\ UNCHANGED faults
    /\ UNCHANGED restoreDisks

\* postFullRestoreOperations, with extraIncrementalFullRestoreOperations for the
\* restore that replaced an incremental one.
NewSnapshotMetafile(r) ==
    pc[r] = "meta" /\ Then(r, IF st[r].to = "tmp" THEN "rename" ELSE "reload", UNCHANGED restoreDisks)

Rename(r) ==
    /\ pc[r] = "rename"
    /\ Then(r, "reload", /\ file' = [file EXCEPT ![r][st[r].name] = out[r]]
                         /\ out' = [out EXCEPT ![r] = NoFile]
                         /\ UNCHANGED <<known, parent>>)

reloadReplica(r) ==
    /\ pc[r] = "reload"
    /\ Then(r, IF st[r].to = "snap" THEN "revert" ELSE "finish",
            known' = [known EXCEPT ![r] = @ \cup {st[r].name}] /\ UNCHANGED <<file, out, parent>>)

RestoreRevert(r) ==
    /\ pc[r] = "revert"
    /\ Then(r, "finish", parent' = [parent EXCEPT ![r] = st[r].name] /\ UNCHANGED <<file, out, known>>)

\* postIncrementalRestoreOperations: FoldFile copies the delta block after block.
Todo(r) == {n \in 1..RestoreBlocks : out[r][n] # 0}

FoldFile(r) ==
    /\ pc[r] = "fold"
    /\ file[r][st[r].name] # NoFile
    /\ \E n \in Todo(r) : (\A k \in Todo(r) : n <= k) /\
       Then(r, "fold", /\ file' = [file EXCEPT ![r][st[r].name][n] = out[r][n]]
                       /\ out' = [out EXCEPT ![r][n] = 0]
                       /\ UNCHANGED <<known, parent>>)

Folded(r) ==
    /\ pc[r] = "fold"
    /\ IF file[r][st[r].name] = NoFile THEN FinishCall(r, TRUE) /\ UNCHANGED <<restoreDisks, faults>>
       ELSE Todo(r) = {} /\ Then(r, "reload", UNCHANGED restoreDisks)

Complete(r) == pc[r] = "finish" /\ FinishCall(r, FALSE) /\ UNCHANGED <<restoreDisks, faults>>

-----------------------------------------------------------------------------
\* Reset of an agent, and its restart.
AgentReset(r) ==
    /\ ~restoring[r] /\ st[r] # Blank /\ task = NoTask
    /\ st' = [st EXCEPT ![r] = Blank]
    /\ UNCHANGED <<restoreDisks, restoring, pc, store, task, gone, restoreCounts>>

AgentCrash(r) ==
    /\ crashes < MaxCrashes /\ crashes' = crashes + 1
    /\ st' = [st EXCEPT ![r] = Blank]
    /\ restoring' = [restoring EXCEPT ![r] = FALSE]
    /\ store' = [store EXCEPT ![r] = -1]
    /\ RestoreGoto(r, "idle")
    /\ UNCHANGED <<restoreDisks, task, gone, names, calls, faults>>

\* A backup is deleted, not while it is restored.
DeleteBackup(b) ==
    /\ b \notin gone /\ \A r \in RestoreReplicas : ~restoring[r]
    /\ gone' = gone \cup {b}
    /\ UNCHANGED <<restoreDisks, restoreAgents, task, restoreCounts>>

-----------------------------------------------------------------------------
RestoreInit ==
    /\ file = [r \in RestoreReplicas |-> [n \in SnapNames |-> NoFile]]
    /\ out = [r \in RestoreReplicas |-> NoFile]
    /\ known = [r \in RestoreReplicas |-> {}] /\ parent = [r \in RestoreReplicas |-> -1]
    /\ st = [r \in RestoreReplicas |-> Blank] /\ restoring = [r \in RestoreReplicas |-> FALSE]
    /\ pc = [r \in RestoreReplicas |-> "idle"] /\ store = [r \in RestoreReplicas |-> -1]
    /\ task = NoTask /\ gone = {}
    /\ names = 0 /\ calls = 0 /\ faults = 0 /\ crashes = 0

Store(r) == RestoreBlock(r) \/ StoreDone(r)

Agent(r) ==
    \/ waitForRestoreComplete(r) \/ NewSnapshotMetafile(r) \/ Rename(r) \/ reloadReplica(r)
    \/ RestoreRevert(r) \/ FoldFile(r) \/ Folded(r) \/ Complete(r)

RestoreNext ==
    \/ \E b \in 1..Len(Content) : RestoreBackup(b) \/ DeleteBackup(b)
    \/ \E r \in RestoreReplicas : StartRestore(r) \/ Store(r) \/ Agent(r) \/ AgentReset(r) \/ AgentCrash(r)

RestoreSpec == RestoreInit /\ [][RestoreNext]_restoreVars

\* Fairness: the store ends what it started, and the agent's
\* goroutine runs on.
RestoreFairness == \A r \in RestoreReplicas : WF_restoreVars(Store(r)) /\ WF_restoreVars(Agent(r))

RestoreLiveSpec == RestoreSpec /\ RestoreFairness

\* A replica that reports a backup as restored holds that backup, and its volume head
\* reads from it: after any sequence of full, incremental and failed restores, with
\* backups that were deleted and agents that were restarted in between.
HoldsBackup ==
    \A r \in DOMAIN st : st[r].state = "complete" =>
        parent[r] # -1 /\ file[r][parent[r]] = Content[st[r].last]

\* Replicas restore to the same snapshot: "otherwise, the snapshot chains may be
\* different among all replicas".
SameChain == \A r, q \in DOMAIN st : parent[r] # -1 /\ parent[q] # -1 => parent[r] = parent[q]

\* A backup reported as restored is there, and restored replicas have one chain
\* (BackupRestore, completeBackupRestore, RestoreBackup).
RestoreExact == HoldsBackup /\ SameChain
=============================================================================
