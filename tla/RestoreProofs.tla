--------------------------- MODULE RestoreProofs ---------------------------
(***************************************************************************)
(* A backup reported as restored is there, and all replicas restore to one *)
(* snapshot: RestoreExact, for any number of replicas, backups and blocks. *)
(*                                                                         *)
(* RestoreInv says what the files of a replica hold at every step of a     *)
(* restore (Writing, SnapDone, TmpDone, DeltaDone), and that only one name *)
(* of a snapshot is in use at a time (OneName): an incremental restore is  *)
(* folded into the file that the volume head reads from only because the   *)
(* name the task has chosen is that of the head's parent on every replica. *)
(*                                                                         *)
(* And the lists of the jobs of a sync agent: jobs in progress and the     *)
(* newest that ended stay listed (JobsKept), and a name is listed once     *)
(* (NamesUnique), for any number of jobs.  Every operation leaves of a     *)
(* list its elements at some places, in their order (Picks); that the n-th *)
(* of them exists is a matter of counting (NthExists).                     *)
(***************************************************************************)
EXTENDS Restore, JobLists, TLAPS, FiniteSetTheorems

Backups == 1..Len(Content)
Volume  == [1..RestoreBlocks -> Nat]
Name    == SnapNames \cup {-1}
Status  == [state : {"none", "in_progress", "error", "complete"}, last : 0..Len(Content), cur : 0..Len(Content),
            to : {"snap", "tmp", "delta"}, name : Name, progress : {0, 100}]

RestoreType ==
    /\ file \in [RestoreReplicas -> [SnapNames -> Volume \cup {NoFile}]]
    /\ out \in [RestoreReplicas -> Volume \cup {NoFile}]
    /\ known \in [RestoreReplicas -> SUBSET SnapNames]
    /\ parent \in [RestoreReplicas -> Name]
    /\ st \in [RestoreReplicas -> Status]
    /\ restoring \in [RestoreReplicas -> BOOLEAN]
    /\ pc \in [RestoreReplicas -> {"idle", "wait", "meta", "rename", "reload", "revert", "fold", "finish"}]
    /\ store \in [RestoreReplicas -> {-1} \cup 0..RestoreBlocks]
    /\ task \in [todo : SUBSET RestoreReplicas, b : 0..Len(Content), name : Name]
    /\ names \in Nat

\* A name that a replica has loaded, has its head on, or restores to.
Used(r, m) == \/ parent[r] = m \/ m \in known[r]
              \/ restoring[r] /\ st[r].name = m

InPlay(m) == (\E r \in RestoreReplicas : Used(r, m)) \/ (task # NoTask /\ task.name = m)

OneName == \A m, n \in SnapNames : InPlay(m) /\ InPlay(n) => m = n

TaskOK == task # NoTask => task.b \in Backups /\ task.name \in SnapNames

HeadOK(r) == parent[r] # -1 => parent[r] \in known[r]

Cur(r)  == Content[st[r].cur]
Dest(r) == file[r][st[r].name]

Idle(r) ==
    /\ pc[r] = "idle" /\ ~restoring[r] /\ store[r] = -1
    /\ st[r].state = "none" => st[r].last = 0
    /\ st[r].state # "in_progress"
    /\ st[r].state = "complete" =>
           st[r].last # 0 /\ parent[r] # -1 /\ file[r][parent[r]] = Content[st[r].last]

Broken(r) ==
    /\ pc[r] = "wait" /\ restoring[r] /\ store[r] = -1
    /\ st[r].state = "error" /\ st[r].progress = 0 /\ st[r].name \in SnapNames

Folding(r, k) ==
    /\ Dest(r) \in Volume /\ out[r] \in Volume
    /\ \A n \in 1..k : /\ out[r][n] \in {0, Cur(r)[n]}
                       /\ out[r][n] = 0 => Dest(r)[n] = Cur(r)[n]

Writing(r) ==
    /\ pc[r] = "wait" /\ store[r] # -1 /\ st[r].progress = 0
    /\ st[r].to = "snap" => Dest(r) \in Volume /\ \A n \in 1..store[r] : Dest(r)[n] = Cur(r)[n]
    /\ st[r].to = "tmp" => out[r] \in Volume /\ \A n \in 1..store[r] : out[r][n] = Cur(r)[n]
    /\ st[r].to = "delta" =>
           /\ Folding(r, store[r])
           /\ \A n \in 1..RestoreBlocks : n > store[r] => out[r][n] = 0 /\ Dest(r)[n] = Content[st[r].last][n]

SnapDone(r) ==
    /\ pc[r] \in {"wait", "meta", "reload", "revert", "finish"}
    /\ Dest(r) = Cur(r)
    /\ pc[r] = "revert" => st[r].name \in known[r]
    /\ pc[r] = "finish" => parent[r] = st[r].name

TmpDone(r) ==
    \/ pc[r] \in {"wait", "meta", "rename"} /\ out[r] = Cur(r)
    \/ pc[r] \in {"reload", "finish"} /\ Dest(r) = Cur(r)

DeltaDone(r) ==
    \/ pc[r] \in {"wait", "fold"} /\ Folding(r, RestoreBlocks)
    \/ pc[r] \in {"reload", "finish"} /\ Dest(r) = Cur(r)

Done(r) ==
    /\ store[r] = -1 /\ st[r].progress = 100
    /\ st[r].to = "snap" => SnapDone(r)
    /\ st[r].to = "tmp" => TmpDone(r)
    /\ st[r].to = "delta" => DeltaDone(r)

Working(r) ==
    /\ restoring[r] /\ st[r].state = "in_progress"
    /\ st[r].cur # 0 /\ st[r].name \in SnapNames
    /\ (st[r].last # 0) <=> (st[r].to = "delta")
    /\ st[r].to # "snap" => parent[r] = st[r].name
    /\ Writing(r) \/ Done(r)

AgentOK(r) == HeadOK(r) /\ (Idle(r) \/ Broken(r) \/ Working(r))

RestoreInv == RestoreType /\ OneName /\ TaskOK /\ \A r \in RestoreReplicas : AgentOK(r)

-----------------------------------------------------------------------------
\* The sizes are numbers, and a backup is a volume without an empty block.
LEMMA Sizes ==
    /\ RestoreBlocks \in Nat /\ MaxNames \in Nat /\ Len(Content) \in Nat
    /\ \A b \in Backups : Content[b] \in Volume /\ \A n \in 1..RestoreBlocks : Content[b][n] # 0
  BY RestoreAssumption DEF Backups, Volume

\* A volume with another block is a volume.
LEMMA VolumeUpdate ==
    ASSUME NEW v \in Volume, NEW n \in 1..RestoreBlocks, NEW x \in Nat
    PROVE  [v EXCEPT ![n] = x] \in Volume
  BY Zenon DEF Volume

\* Volumes with the same blocks are one.
LEMMA VolumesEqual ==
    ASSUME NEW v \in Volume, NEW w \in Volume, \A n \in 1..RestoreBlocks : v[n] = w[n] PROVE v = w
  <1>1. v = [n \in 1..RestoreBlocks |-> v[n]] /\ w = [n \in 1..RestoreBlocks |-> w[n]]
    BY Zenon DEF Volume
  <1>2. [n \in 1..RestoreBlocks |-> v[n]] = [n \in 1..RestoreBlocks |-> w[n]]
    BY Zenon
  <1> QED BY <1>1, <1>2, Zenon

\* An update of one replica's status.
LEMMA OneStatus ==
    ASSUME NEW f \in [RestoreReplicas -> Status], NEW r \in RestoreReplicas, NEW s \in Status,
           NEW g, g = [f EXCEPT ![r] = s]
    PROVE  g \in [RestoreReplicas -> Status] /\ \A q \in RestoreReplicas \ {r} : g[q] = f[q]
  BY Zenon

\* The statuses that the steps of an agent leave.
Reported(r) == [st[r] EXCEPT !.state = "complete", !.last = st[r].cur, !.cur = 0]

\* What an update of a status leaves.
LEMMA FailedUpdate ==
    ASSUME NEW s \in Status, NEW t, t = [s EXCEPT !.progress = 0, !.state = "error", !.cur = 0]
    PROVE  t = [state |-> "error", last |-> s.last, cur |-> 0, to |-> s.to, name |-> s.name, progress |-> 0]
  BY Zenon DEF Status

\* The same for a restore that is complete.
LEMMA ReportedUpdate ==
    ASSUME NEW s \in Status, NEW t, t = [s EXCEPT !.state = "complete", !.last = s.cur, !.cur = 0]
    PROVE  t = [state |-> "complete", last |-> s.cur, cur |-> 0, to |-> s.to, name |-> s.name,
                progress |-> s.progress]
  BY Zenon DEF Status

\* And for one whose store is done.
LEMMA StoredUpdate ==
    ASSUME NEW s \in Status, NEW t, t = [s EXCEPT !.progress = 100]
    PROVE  t = [state |-> s.state, last |-> s.last, cur |-> s.cur, to |-> s.to, name |-> s.name, progress |-> 100]
  BY Zenon DEF Status

\* The statuses of a failed and of a complete restore, and of a new agent.
LEMMA Statuses ==
    ASSUME NEW r \in RestoreReplicas, RestoreType
    PROVE  /\ Blank \in Status /\ Blank.state = "none" /\ Blank.last = 0
           /\ RestoreFailed(r) \in Status /\ RestoreFailed(r).state = "error"
           /\ RestoreFailed(r).progress = 0 /\ RestoreFailed(r).name = st[r].name
           /\ Reported(r) \in Status /\ Reported(r).state = "complete" /\ Reported(r).last = st[r].cur
  <1>1. st[r] \in Status
    BY Zenon DEF RestoreType
  <1>2. Blank \in Status /\ Blank.state = "none" /\ Blank.last = 0
    BY Sizes DEF Blank, Status, Name
  <1>3. RestoreFailed(r) = [state |-> "error", last |-> st[r].last, cur |-> 0, to |-> st[r].to,
                            name |-> st[r].name, progress |-> 0]
    BY <1>1, FailedUpdate, Zenon DEF RestoreFailed
  <1>4. Reported(r) = [state |-> "complete", last |-> st[r].cur, cur |-> 0, to |-> st[r].to,
                       name |-> st[r].name, progress |-> st[r].progress]
    BY <1>1, ReportedUpdate, Zenon DEF Reported
  <1>5. st[r].cur \in 0..Len(Content) /\ 0 \in 0..Len(Content)
    BY <1>1, Sizes DEF Status
  <1>6. /\ RestoreFailed(r) \in Status /\ RestoreFailed(r).state = "error"
        /\ RestoreFailed(r).progress = 0 /\ RestoreFailed(r).name = st[r].name
    BY <1>1, <1>3, <1>5 DEF Status
  <1>7. Reported(r) \in Status /\ Reported(r).state = "complete" /\ Reported(r).last = st[r].cur
    BY <1>1, <1>4, <1>5 DEF Status
  <1> QED BY Zenon, <1>2, <1>6, <1>7

\* What an action of one replica leaves alone at another.
SameAt(q) ==
    /\ file'[q] = file[q] /\ out'[q] = out[q] /\ known'[q] = known[q] /\ parent'[q] = parent[q]
    /\ st'[q] = st[q] /\ restoring'[q] = restoring[q] /\ pc'[q] = pc[q] /\ store'[q] = store[q]

\* Nothing changes for a replica whose state is as before.
LEMMA FrameAgent == ASSUME NEW q \in RestoreReplicas, SameAt(q), AgentOK(q) PROVE AgentOK(q)'
  <1>1. Cur(q)' = Cur(q) /\ Dest(q)' = Dest(q)
    BY Zenon DEF SameAt, Cur, Dest
  <1>2. \A k : Folding(q, k)' <=> Folding(q, k)
    BY Zenon, <1>1 DEF SameAt, Folding
  <1>3. Writing(q)' <=> Writing(q)
    BY Zenon, <1>1, <1>2 DEF SameAt, Writing
  <1>4. Done(q)' <=> Done(q)
    BY <1>1, <1>2 DEF SameAt, Done, SnapDone, TmpDone, DeltaDone
  <1>5. Idle(q) => Idle(q)'
    BY Zenon DEF SameAt, Idle
  <1>6. Broken(q) => Broken(q)'
    BY Zenon DEF SameAt, Broken
  <1>7. Working(q) => Working(q)'
    BY Zenon, <1>3, <1>4 DEF SameAt, Working
  <1>8. HeadOK(q)'
    BY Zenon DEF SameAt, AgentOK, HeadOK
  <1> QED BY Zenon, <1>5, <1>6, <1>7, <1>8 DEF AgentOK

\* The same for the names it uses.
LEMMA FrameUsed ==
    ASSUME NEW q \in RestoreReplicas, SameAt(q), NEW m \in SnapNames, Used(q, m)' PROVE Used(q, m)
  BY Zenon DEF SameAt, Used

\* An action of one replica that brings no new name into play keeps the invariant
\* if it keeps the part of that replica.
LEMMA LocalStep ==
    ASSUME RestoreInv, NEW r \in RestoreReplicas, RestoreType', TaskOK', AgentOK(r)',
           \A q \in RestoreReplicas \ {r} : SameAt(q),
           \A m \in SnapNames : Used(r, m)' => InPlay(m),
           task' # NoTask => task # NoTask /\ task'.name = task.name
    PROVE  RestoreInv'
  <1>1. \A q \in RestoreReplicas : AgentOK(q)'
    BY Zenon, FrameAgent DEF RestoreInv
  <1>2. ASSUME NEW m \in SnapNames, InPlay(m)' PROVE InPlay(m)
    <2>1. CASE \E q \in RestoreReplicas : Used(q, m)'
      BY Zenon, <2>1, FrameUsed DEF InPlay
    <2>2. CASE task' # NoTask /\ task'.name = m
      BY Zenon, <2>2 DEF InPlay
    <2> QED BY Zenon, <1>2, <2>1, <2>2 DEF InPlay
  <1>3. OneName'
    BY Zenon, <1>2 DEF OneName, RestoreInv
  <1> QED BY Zenon, <1>1, <1>3 DEF RestoreInv

\* The same, for an action that leaves the task and the names of the replica alone.
LEMMA QuietStep ==
    ASSUME RestoreInv, NEW r \in RestoreReplicas, RestoreType', UNCHANGED task, AgentOK(r)',
           \A q \in RestoreReplicas \ {r} : SameAt(q),
           \A m \in SnapNames : Used(r, m)' => Used(r, m)
    PROVE  RestoreInv'
  <1>1. TaskOK'
    BY Zenon DEF RestoreInv, TaskOK
  <1>2. \A m \in SnapNames : Used(r, m)' => InPlay(m)
    BY Zenon DEF InPlay
  <1> QED BY Zenon, <1>1, <1>2, LocalStep

-----------------------------------------------------------------------------
\* A restore that fails leaves an idle agent with an error.
LEMMA FailedStep ==
    ASSUME RestoreInv, NEW r \in RestoreReplicas, store[r] = -1, FinishCall(r, TRUE), UNCHANGED restoreDisks
    PROVE  RestoreInv'
  <1> USE DEF RestoreInv, FinishCall, FinishRestore, RestoreGoto, restoreDisks, RestoreType
  <1>1. /\ st'[r] = RestoreFailed(r) /\ restoring'[r] = FALSE /\ pc'[r] = "idle" /\ store'[r] = -1
        /\ \A q \in RestoreReplicas \ {r} : SameAt(q)
    BY Zenon DEF SameAt
  <1>2. RestoreFailed(r) \in Status /\ RestoreFailed(r).state = "error"
    BY Zenon, Statuses
  <1>3. RestoreType'
    BY Zenon, <1>2
  <1>4. Idle(r)'
    BY Zenon, <1>1, <1>2 DEF Idle
  <1>5. AgentOK(r)'
    BY Zenon, <1>4 DEF AgentOK, HeadOK
  <1>6. \A m \in SnapNames : Used(r, m)' => Used(r, m)
    BY Zenon, <1>1 DEF Used
  <1> QED BY Zenon, <1>1, <1>3, <1>5, <1>6, QuietStep

\* The agent is restarted, or its status is reset.
LEMMA BlankStep ==
    ASSUME RestoreInv, NEW r \in RestoreReplicas, AgentReset(r) \/ AgentCrash(r) PROVE RestoreInv'
  <1> USE DEF RestoreInv, AgentReset, AgentCrash, RestoreGoto, restoreDisks, restoreCounts, RestoreType
  <1>0. AgentReset(r) => store[r] = -1 /\ pc[r] = "idle"
    BY Zenon DEF AgentOK, Idle, Broken, Working
  <1>1. /\ st'[r] = Blank /\ restoring'[r] = FALSE /\ pc'[r] = "idle" /\ store'[r] = -1
        /\ \A q \in RestoreReplicas \ {r} : SameAt(q)
    BY Zenon, <1>0 DEF SameAt
  <1>2. Blank \in Status /\ Blank.state = "none" /\ Blank.last = 0
    BY Zenon, Statuses
  <1>3. RestoreType'
    <2>1. st' \in [RestoreReplicas -> Status]
      <3>1. st' = [st EXCEPT ![r] = Blank]
        BY Zenon
      <3> QED BY Zenon, <1>2, <3>1, OneStatus
    <2>2. restoring' \in [RestoreReplicas -> BOOLEAN] /\ store' \in [RestoreReplicas -> {-1} \cup 0..RestoreBlocks]
      BY Zenon
    <2> QED BY Zenon, <2>1, <2>2
  <1>4. Idle(r)'
    BY Zenon, <1>1, <1>2 DEF Idle
  <1>5. AgentOK(r)'
    BY Zenon, <1>4 DEF AgentOK, HeadOK
  <1>6. \A m \in SnapNames : Used(r, m)' => Used(r, m)
    BY Zenon, <1>1 DEF Used
  <1> QED BY Zenon, <1>1, <1>3, <1>5, <1>6, QuietStep

\* The restore is complete (completeBackupRestore's end).
LEMMA CompleteStep ==
    ASSUME RestoreInv, NEW r \in RestoreReplicas, Complete(r) PROVE RestoreInv'
  <1> USE DEF RestoreInv, Complete, FinishCall, FinishRestore, RestoreGoto, restoreDisks, RestoreType
  <1>0. /\ Working(r) /\ Done(r) /\ Dest(r) = Cur(r) /\ parent[r] = st[r].name
    BY Zenon DEF AgentOK, Idle, Broken, Working, Writing, Done, SnapDone, TmpDone, DeltaDone, Status
  <1>1. /\ st'[r] = Reported(r) /\ restoring'[r] = FALSE /\ pc'[r] = "idle" /\ store'[r] = -1
        /\ \A q \in RestoreReplicas \ {r} : SameAt(q)
    BY <1>0 DEF SameAt, Working, Done, Reported
  <1>2. Reported(r) \in Status /\ st'[r].state = "complete" /\ st'[r].last = st[r].cur
    BY Zenon, <1>1, Statuses
  <1>3. RestoreType'
    BY Zenon, <1>1, <1>2
  <1>4. Idle(r)'
    <2>1. file'[r][parent'[r]] = Content[st'[r].last]
      BY Zenon, <1>0, <1>2 DEF Dest, Cur
    <2>2. st[r].cur # 0 /\ parent'[r] # -1
      BY <1>0, Sizes DEF Working, SnapNames
    <2> QED BY Zenon, <1>1, <1>2, <2>1, <2>2 DEF Idle
  <1>5. AgentOK(r)'
    BY Zenon, <1>4 DEF AgentOK, HeadOK
  <1>6. \A m \in SnapNames : Used(r, m)' => Used(r, m)
    BY Zenon, <1>1 DEF Used
  <1> QED BY Zenon, <1>1, <1>3, <1>5, <1>6, QuietStep

-----------------------------------------------------------------------------
\* An agent beyond its wait has written the whole backup.
LEMMA Underway ==
    ASSUME RestoreInv, NEW r \in RestoreReplicas, pc[r] \notin {"idle", "wait"}
    PROVE  Working(r) /\ Done(r) /\ store[r] = -1 /\ st[r] \in Status /\ HeadOK(r)
  BY Zenon DEF RestoreInv, RestoreType, AgentOK, Idle, Broken, Working, Writing, Done

\* A step of the agent that goes on keeps the invariant if it keeps what the files hold.
LEMMA OnwardStep ==
    ASSUME RestoreInv, NEW r \in RestoreReplicas, Working(r), Done(r)', RestoreType', HeadOK(r)',
           UNCHANGED <<st, restoring, store, task>>, \A q \in RestoreReplicas \ {r} : SameAt(q),
           st[r].to # "snap" => parent'[r] = parent[r],
           \A m \in SnapNames : Used(r, m)' => Used(r, m)
    PROVE  RestoreInv'
  <1>1. Working(r)'
    BY Zenon DEF Working
  <1>2. AgentOK(r)'
    BY Zenon, <1>1 DEF AgentOK
  <1> QED BY Zenon, <1>2, QuietStep

\* The end of the wait: the store is done, or has failed.
LEMMA WaitStep ==
    ASSUME RestoreInv, NEW r \in RestoreReplicas, waitForRestoreComplete(r) PROVE RestoreInv'
  <1> USE DEF RestoreInv
  <1>1. CASE st[r].progress = 100
    <2>1. /\ Working(r) /\ Done(r) /\ HeadOK(r) /\ st[r].to \in {"snap", "tmp", "delta"}
      BY <1>1 DEF waitForRestoreComplete, AgentOK, Idle, Broken, Working, Writing, RestoreType, Status
    <2>2. /\ UNCHANGED <<st, restoring, store, task, file, out, known, parent>>
          /\ RestoreGoto(r, IF st[r].last # 0 THEN "fold" ELSE "meta") /\ UNCHANGED names
      BY Zenon, <1>1 DEF waitForRestoreComplete, restoreDisks, restoreCounts
    <2>3. /\ pc'[r] = IF st[r].last # 0 THEN "fold" ELSE "meta"
          /\ \A q \in RestoreReplicas \ {r} : SameAt(q)
      BY Zenon, <2>2 DEF RestoreType, RestoreGoto, SameAt
    <2>4. RestoreType'
      BY Zenon, <2>2 DEF RestoreType, RestoreGoto
    <2>5. Done(r)'
      BY Zenon, <1>1, <2>1, <2>2, <2>3 DEF Done, Working, SnapDone, TmpDone, DeltaDone, Folding, Cur, Dest,
                                    waitForRestoreComplete
    <2>6. HeadOK(r)' /\ \A m \in SnapNames : Used(r, m)' => Used(r, m)
      BY Zenon, <2>1, <2>2 DEF HeadOK, Used
    <2> QED BY Zenon, <2>1, <2>2, <2>3, <2>4, <2>5, <2>6, OnwardStep
  <1>2. CASE st[r].progress # 100
    <2>1. store[r] = -1
      BY Zenon, <1>2 DEF waitForRestoreComplete, AgentOK, Idle, Broken, Working
    <2> QED BY Zenon, <1>2, <2>1, FailedStep DEF waitForRestoreComplete
  <1> QED BY Zenon, <1>1, <1>2

\* CreateNewSnapshotMetafile.
LEMMA MetaStep ==
    ASSUME RestoreInv, NEW r \in RestoreReplicas, NewSnapshotMetafile(r) PROVE RestoreInv'
  <1> USE DEF RestoreInv
  <1>0. pc[r] = "meta" /\ Working(r) /\ Done(r) /\ store[r] = -1 /\ st[r] \in Status /\ HeadOK(r)
    BY Zenon, Underway DEF NewSnapshotMetafile
  <1>1. CASE FinishCall(r, TRUE) /\ UNCHANGED restoreDisks
    BY Zenon, <1>0, <1>1, FailedStep
  <1>2. CASE /\ RestoreGoto(r, IF st[r].to = "tmp" THEN "rename" ELSE "reload")
             /\ UNCHANGED <<st, restoring, store, task, gone, restoreCounts>> /\ UNCHANGED restoreDisks
    <2>1. /\ pc'[r] = IF st[r].to = "tmp" THEN "rename" ELSE "reload"
          /\ \A q \in RestoreReplicas \ {r} : SameAt(q)
      BY Zenon, <1>2 DEF RestoreType, RestoreGoto, SameAt, restoreDisks
    <2>2. RestoreType'
      BY Zenon, <1>2 DEF RestoreType, RestoreGoto, restoreDisks, restoreCounts
    <2>3. Done(r)'
      BY Zenon, <1>0, <1>2, <2>1 DEF Done, Status, SnapDone, TmpDone, DeltaDone, Cur, Dest, restoreDisks
    <2>4. HeadOK(r)' /\ \A m \in SnapNames : Used(r, m)' => Used(r, m)
      BY Zenon, <1>0, <1>2 DEF HeadOK, Used, restoreDisks
    <2> QED BY Zenon, <1>0, <1>2, <2>1, <2>2, <2>3, <2>4, OnwardStep DEF restoreDisks
  <1> QED BY Zenon, <1>1, <1>2 DEF NewSnapshotMetafile, Then

\* Rename of the temporary file.
LEMMA RenameStep ==
    ASSUME RestoreInv, NEW r \in RestoreReplicas, Rename(r) PROVE RestoreInv'
  <1> USE DEF RestoreInv
  <1>0. pc[r] = "rename" /\ Working(r) /\ Done(r) /\ store[r] = -1 /\ st[r] \in Status /\ HeadOK(r)
    BY Zenon, Underway DEF Rename
  <1>1. CASE FinishCall(r, TRUE) /\ UNCHANGED restoreDisks
    BY Zenon, <1>0, <1>1, FailedStep
  <1>2. CASE /\ RestoreGoto(r, "reload") /\ UNCHANGED <<st, restoring, store, task, gone, restoreCounts>>
             /\ file' = [file EXCEPT ![r][st[r].name] = out[r]]
             /\ out' = [out EXCEPT ![r] = NoFile]
             /\ UNCHANGED <<known, parent>>
    <2>1. pc'[r] = "reload" /\ \A q \in RestoreReplicas \ {r} : SameAt(q)
      BY Zenon, <1>2 DEF RestoreType, RestoreGoto, SameAt
    <2>2. RestoreType'
      <3>1. file' \in [RestoreReplicas -> [SnapNames -> Volume \cup {NoFile}]]
        BY Zenon, <1>2 DEF RestoreType
      <3>2. out' \in [RestoreReplicas -> Volume \cup {NoFile}]
        BY Zenon, <1>2 DEF RestoreType
      <3> QED BY Zenon, <1>2, <3>1, <3>2 DEF RestoreType, RestoreGoto, restoreCounts
    <2>3. st[r].to = "tmp" /\ out[r] = Cur(r) /\ st[r].name \in SnapNames
      BY Zenon, <1>0 DEF Working, Done, Status, SnapDone, TmpDone, DeltaDone
    <2>4. Dest(r)' = out[r] /\ Cur(r)' = Cur(r)
      BY Zenon, <1>2, <2>3 DEF Dest, Cur, RestoreType
    <2>5. Done(r)'
      BY <1>0, <1>2, <2>1, <2>3, <2>4 DEF Done, TmpDone
    <2>6. HeadOK(r)' /\ \A m \in SnapNames : Used(r, m)' => Used(r, m)
      BY Zenon, <1>0, <1>2 DEF HeadOK, Used
    <2> QED BY Zenon, <1>0, <1>2, <2>1, <2>2, <2>5, <2>6, OnwardStep
  <1> QED BY Zenon, <1>1, <1>2 DEF Rename, Then

\* reloadReplica.
LEMMA ReloadStep ==
    ASSUME RestoreInv, NEW r \in RestoreReplicas, reloadReplica(r) PROVE RestoreInv'
  <1> USE DEF RestoreInv
  <1>0. pc[r] = "reload" /\ Working(r) /\ Done(r) /\ store[r] = -1 /\ st[r] \in Status /\ HeadOK(r)
    BY Zenon, Underway DEF reloadReplica
  <1>1. CASE FinishCall(r, TRUE) /\ UNCHANGED restoreDisks
    BY Zenon, <1>0, <1>1, FailedStep
  <1>2. CASE /\ RestoreGoto(r, IF st[r].to = "snap" THEN "revert" ELSE "finish")
             /\ UNCHANGED <<st, restoring, store, task, gone, restoreCounts>>
             /\ known' = [known EXCEPT ![r] = @ \cup {st[r].name}] /\ UNCHANGED <<file, out, parent>>
    <2>1. /\ pc'[r] = IF st[r].to = "snap" THEN "revert" ELSE "finish"
          /\ known'[r] = known[r] \cup {st[r].name}
          /\ \A q \in RestoreReplicas \ {r} : SameAt(q)
      BY Zenon, <1>2 DEF RestoreType, RestoreGoto, SameAt
    <2>2. restoring[r] /\ st[r].name \in SnapNames
      BY Zenon, <1>0 DEF Working
    <2>3. RestoreType'
      BY Zenon, <1>2, <2>2 DEF RestoreType, RestoreGoto, restoreCounts
    <2>4. Cur(r)' = Cur(r) /\ Dest(r)' = Dest(r)
      BY Zenon, <1>2 DEF Cur, Dest
    <2>5. Done(r)'
      <3>1. st[r].to = "snap" => SnapDone(r)'
        BY Zenon, <1>0, <1>2, <2>1, <2>4 DEF Done, SnapDone
      <3>2. st[r].to = "tmp" => TmpDone(r)'
        BY Zenon, <1>0, <2>1, <2>4 DEF Done, TmpDone
      <3>3. st[r].to = "delta" => DeltaDone(r)'
        BY Zenon, <1>0, <2>1, <2>4 DEF Done, DeltaDone
      <3> QED BY Zenon, <1>0, <1>2, <3>1, <3>2, <3>3 DEF Done
    <2>6. HeadOK(r)' /\ \A m \in SnapNames : Used(r, m)' => Used(r, m)
      BY Zenon, <1>0, <1>2, <2>1, <2>2 DEF HeadOK, Used
    <2> QED BY Zenon, <1>0, <1>2, <2>1, <2>3, <2>5, <2>6, OnwardStep
  <1> QED BY Zenon, <1>1, <1>2 DEF reloadReplica, Then

\* The revert to the restored snapshot.
LEMMA RevertStep ==
    ASSUME RestoreInv, NEW r \in RestoreReplicas, RestoreRevert(r) PROVE RestoreInv'
  <1> USE DEF RestoreInv
  <1>0. pc[r] = "revert" /\ Working(r) /\ Done(r) /\ store[r] = -1 /\ st[r] \in Status /\ HeadOK(r)
    BY Zenon, Underway DEF RestoreRevert
  <1>1. CASE FinishCall(r, TRUE) /\ UNCHANGED restoreDisks
    BY Zenon, <1>0, <1>1, FailedStep
  <1>2. CASE /\ RestoreGoto(r, "finish") /\ UNCHANGED <<st, restoring, store, task, gone, restoreCounts>>
             /\ parent' = [parent EXCEPT ![r] = st[r].name] /\ UNCHANGED <<file, out, known>>
    <2>1. pc'[r] = "finish" /\ parent'[r] = st[r].name /\ \A q \in RestoreReplicas \ {r} : SameAt(q)
      BY Zenon, <1>2 DEF RestoreType, RestoreGoto, SameAt
    <2>2. restoring[r] /\ st[r].name \in SnapNames
      BY Zenon, <1>0 DEF Working
    <2>3. RestoreType'
      BY Zenon, <1>2, <2>2 DEF RestoreType, RestoreGoto, restoreCounts, Name
    <2>4. Cur(r)' = Cur(r) /\ Dest(r)' = Dest(r)
      BY Zenon, <1>2 DEF Cur, Dest
    <2>5. st[r].to = "snap" /\ Dest(r) = Cur(r) /\ st[r].name \in known[r]
      BY Zenon, <1>0 DEF Done, SnapDone, TmpDone, DeltaDone, Status
    <2>6. Done(r)'
      <3>1. SnapDone(r)'
        BY Zenon, <1>2, <2>1, <2>4, <2>5 DEF SnapDone
      <3> QED BY Zenon, <1>0, <1>2, <2>5, <3>1 DEF Done
    <2>7. HeadOK(r)' /\ \A m \in SnapNames : Used(r, m)' => Used(r, m)
      BY Zenon, <1>2, <2>1, <2>2, <2>5 DEF HeadOK, Used
    <2> QED BY Zenon, <1>0, <1>2, <2>1, <2>3, <2>5, <2>6, <2>7, OnwardStep
  <1> QED BY Zenon, <1>1, <1>2 DEF RestoreRevert, Then

\* A block that is folded.
LEMMA BlockFolds ==
    ASSUME NEW d \in Volume, NEW o \in Volume, NEW n \in 1..RestoreBlocks,
           NEW d2, d2 = [d EXCEPT ![n] = o[n]], NEW o2, o2 = [o EXCEPT ![n] = 0]
    PROVE  d2 \in Volume /\ o2 \in Volume
  BY Zenon DEF Volume

\* FoldFile copies a block of the delta.
LEMMA FoldStep ==
    ASSUME RestoreInv, NEW r \in RestoreReplicas, FoldFile(r) PROVE RestoreInv'
  <1> USE DEF RestoreInv
  <1>0. pc[r] = "fold" /\ Working(r) /\ Done(r) /\ store[r] = -1 /\ st[r] \in Status /\ HeadOK(r)
    BY Zenon, Underway DEF FoldFile
  <1>1. CASE FinishCall(r, TRUE) /\ UNCHANGED restoreDisks
    BY Zenon, <1>0, <1>1, FailedStep
  <1>2. ASSUME NEW n \in Todo(r), RestoreGoto(r, "fold"),
               UNCHANGED <<st, restoring, store, task, gone, restoreCounts>>,
               file' = [file EXCEPT ![r][st[r].name][n] = out[r][n]],
               out' = [out EXCEPT ![r][n] = 0], UNCHANGED <<known, parent>>
        PROVE  RestoreInv'
    <2>1. pc'[r] = "fold" /\ \A q \in RestoreReplicas \ {r} : SameAt(q)
      BY Zenon, <1>2 DEF RestoreType, RestoreGoto, SameAt
    <2>2. st[r].to = "delta" /\ Folding(r, RestoreBlocks) /\ st[r].name \in SnapNames
      BY Zenon, <1>0 DEF Working, Done, SnapDone, TmpDone, DeltaDone, Status
    <2>3. n \in 1..RestoreBlocks /\ out[r][n] # 0 /\ Dest(r) \in Volume /\ out[r] \in Volume
      BY Zenon, <2>2, <1>2 DEF Todo, Folding
    <2>4. /\ Dest(r)' = [Dest(r) EXCEPT ![n] = out[r][n]] /\ out'[r] = [out[r] EXCEPT ![n] = 0]
          /\ Cur(r)' = Cur(r)
      BY Zenon, <1>2, <2>2 DEF Dest, Cur, RestoreType
    <2>5. Dest(r)' \in Volume /\ out'[r] \in Volume
      BY Zenon, <2>3, <2>4, BlockFolds
    <2>6. RestoreType'
      <3>1. file'[r] = [file[r] EXCEPT ![st[r].name] = Dest(r)']
        BY Zenon, <1>2, <2>2, <2>4 DEF RestoreType, Dest
      <3>2. file' \in [RestoreReplicas -> [SnapNames -> Volume \cup {NoFile}]]
        <4>1. file'[r] \in [SnapNames -> Volume \cup {NoFile}]
          BY <2>2, <2>5, <3>1 DEF RestoreType
        <4>2. file' = [file EXCEPT ![r] = file'[r]]
          BY Zenon, <1>2 DEF RestoreType
        <4> QED BY Zenon, <4>1, <4>2 DEF RestoreType
      <3>3. out' \in [RestoreReplicas -> Volume \cup {NoFile}]
        BY Zenon, <1>2, <2>5 DEF RestoreType
      <3> QED BY Zenon, <1>2, <3>2, <3>3 DEF RestoreType, RestoreGoto, restoreCounts
    <2>7. Folding(r, RestoreBlocks)'
      BY Zenon, <2>2, <2>3, <2>4, <2>5 DEF Folding, Volume
    <2>8. Done(r)'
      BY Zenon, <1>0, <1>2, <2>1, <2>2, <2>7 DEF Done, DeltaDone
    <2>9. HeadOK(r)' /\ \A m \in SnapNames : Used(r, m)' => Used(r, m)
      BY Zenon, <1>0, <1>2 DEF HeadOK, Used
    <2> QED BY Zenon, <1>0, <1>2, <2>1, <2>6, <2>8, <2>9, OnwardStep
  <1> QED BY Zenon, <1>1, <1>2 DEF FoldFile, Then

\* The end of the fold.
LEMMA FoldedStep ==
    ASSUME RestoreInv, NEW r \in RestoreReplicas, Folded(r) PROVE RestoreInv'
  <1> USE DEF RestoreInv
  <1>0. pc[r] = "fold" /\ Working(r) /\ Done(r) /\ store[r] = -1 /\ st[r] \in Status /\ HeadOK(r)
    BY Zenon, Underway DEF Folded
  <1>1. CASE FinishCall(r, TRUE) /\ UNCHANGED restoreDisks
    BY Zenon, <1>0, <1>1, FailedStep
  <1>2. CASE /\ Todo(r) = {} /\ RestoreGoto(r, "reload")
             /\ UNCHANGED <<st, restoring, store, task, gone, restoreCounts>> /\ UNCHANGED restoreDisks
    <2>1. pc'[r] = "reload" /\ \A q \in RestoreReplicas \ {r} : SameAt(q)
      BY Zenon, <1>2 DEF RestoreType, RestoreGoto, SameAt, restoreDisks
    <2>2. RestoreType'
      BY Zenon, <1>2 DEF RestoreType, RestoreGoto, restoreDisks, restoreCounts
    <2>3. st[r].to = "delta" /\ Folding(r, RestoreBlocks) /\ st[r].cur \in Backups
      BY <1>0, Sizes DEF Working, Done, SnapDone, TmpDone, DeltaDone, Status, Backups
    <2>4. Dest(r) \in Volume /\ Cur(r) \in Volume /\ \A n \in 1..RestoreBlocks : Dest(r)[n] = Cur(r)[n]
      BY Zenon, <1>2, <2>3, Sizes DEF Todo, Folding, Cur
    <2>5. Dest(r) = Cur(r)
      BY Zenon, <2>4, VolumesEqual
    <2>6. Cur(r)' = Cur(r) /\ Dest(r)' = Dest(r)
      BY Zenon, <1>2 DEF Cur, Dest, restoreDisks
    <2>7. Done(r)'
      BY Zenon, <1>0, <1>2, <2>1, <2>3, <2>5, <2>6 DEF Done, DeltaDone
    <2>8. HeadOK(r)' /\ \A m \in SnapNames : Used(r, m)' => Used(r, m)
      BY Zenon, <1>0, <1>2 DEF HeadOK, Used, restoreDisks
    <2> QED BY Zenon, <1>0, <1>2, <2>1, <2>2, <2>7, <2>8, OnwardStep DEF restoreDisks
  <1> QED BY Zenon, <1>1, <1>2 DEF Folded, Then

-----------------------------------------------------------------------------
\* The block the store writes, into the file of the restore or into the delta.
Wrote(v, w, c, n) ==
    w \in Volume /\ w[n] = c[n] /\ \A k \in 1..RestoreBlocks : k # n => w[k] = v[k]

\* An update of one block writes that block.
LEMMA BlockWritten ==
    ASSUME NEW v \in Volume, NEW c \in Volume, NEW n \in 1..RestoreBlocks, NEW w, w = [v EXCEPT ![n] = c[n]]
    PROVE  Wrote(v, w, c, n)
  BY Zenon DEF Volume, Wrote

\* The store is at work only while the agent waits for it.
LEMMA StoreAtWork ==
    ASSUME RestoreInv, NEW r \in RestoreReplicas, store[r] >= 0
    PROVE  /\ Working(r) /\ Writing(r) /\ HeadOK(r) /\ st[r] \in Status /\ store[r] \in 0..RestoreBlocks
           /\ st[r].cur \in Backups /\ Cur(r) \in Volume /\ st[r].name \in SnapNames
  <1>1. store[r] # -1 /\ store[r] \in 0..RestoreBlocks /\ st[r] \in Status
    BY Sizes DEF RestoreInv, RestoreType
  <1>2. Working(r) /\ Writing(r) /\ HeadOK(r)
    BY Zenon, <1>1 DEF RestoreInv, AgentOK, Idle, Broken, Working, Done
  <1>3. st[r].cur \in Backups
    BY <1>1, <1>2, Sizes DEF Working, Status, Backups
  <1> QED BY Zenon, <1>1, <1>2, <1>3, Sizes DEF Working, Cur

\* The backup store writes a block.
LEMMA BlockStep ==
    ASSUME RestoreInv, NEW r \in RestoreReplicas, RestoreBlock(r) PROVE RestoreInv'
  <1> DEFINE n == store[r] + 1
  <1>0. /\ Working(r) /\ Writing(r) /\ HeadOK(r) /\ st[r] \in Status /\ store[r] \in 0..RestoreBlocks
        /\ st[r].cur \in Backups /\ Cur(r) \in Volume /\ st[r].name \in SnapNames /\ n \in 1..RestoreBlocks
    BY StoreAtWork, Sizes DEF RestoreBlock
  <1>1. /\ UNCHANGED <<known, parent, st, restoring, pc, task, names>>
        /\ store' = [store EXCEPT ![r] = n]
    BY Zenon DEF RestoreBlock, restoreCounts
  <1>t. RestoreType
    BY Zenon DEF RestoreInv
  <1>2. store'[r] = n /\ Cur(r)' = Cur(r)
    BY Zenon, <1>1, <1>t DEF RestoreType, Cur
  <1>n. /\ \A k \in 1..n : k \in 1..RestoreBlocks /\ (k # n => k \in 1..store[r])
        /\ \A k \in 1..RestoreBlocks : k > n => k > store[r] /\ k # n
        /\ n > store[r] /\ n # -1
    BY <1>0, Sizes
  <1>3. CASE st[r].to = "snap"
    <2>1. UNCHANGED out /\ file' = [file EXCEPT ![r][st[r].name][n] = Cur(r)[n]]
      BY Zenon, <1>3 DEF RestoreBlock, Differs, Cur
    <2>2. /\ Dest(r)' = [Dest(r) EXCEPT ![n] = Cur(r)[n]] /\ Dest(r) \in Volume
          /\ \A k \in 1..store[r] : Dest(r)[k] = Cur(r)[k]
      <3>1. Dest(r) \in Volume /\ \A k \in 1..store[r] : Dest(r)[k] = Cur(r)[k]
        BY Zenon, <1>0, <1>3 DEF Writing
      <3>2. Dest(r)' = [Dest(r) EXCEPT ![n] = Cur(r)[n]]
        BY Zenon, <1>0, <1>1, <1>t, <2>1 DEF Dest, RestoreType
      <3> QED BY Zenon, <3>1, <3>2
    <2>3. Wrote(Dest(r), Dest(r)', Cur(r), n)
      BY Zenon, <1>0, <2>2, BlockWritten
    <2>4. \A q \in RestoreReplicas \ {r} : SameAt(q)
      BY Zenon, <1>1, <1>t, <2>1 DEF RestoreType, SameAt
    <2>5. RestoreType'
      <3>1. file'[r] = [file[r] EXCEPT ![st[r].name] = Dest(r)'] /\ file' = [file EXCEPT ![r] = file'[r]]
        BY Zenon, <1>0, <1>t, <2>1, <2>2 DEF RestoreType, Dest
      <3>2. file' \in [RestoreReplicas -> [SnapNames -> Volume \cup {NoFile}]]
        <4>1. Dest(r)' \in Volume
          BY Zenon, <2>3 DEF Wrote
        <4>2. file'[r] \in [SnapNames -> Volume \cup {NoFile}]
          <5>1. file[r] \in [SnapNames -> Volume \cup {NoFile}] /\ st[r].name \in SnapNames
            BY Zenon, <1>0, <1>t DEF RestoreType
          <5>2. file'[r] = [file[r] EXCEPT ![st[r].name] = Dest(r)']
            BY Zenon, <3>1
          <5> QED BY Zenon, <4>1, <5>1, <5>2
        <4> QED BY Zenon, <1>t, <3>1, <4>2 DEF RestoreType
      <3> QED BY <1>0, <1>1, <1>t, <2>1, <3>2 DEF RestoreType
    <2>6. Writing(r)'
      BY <1>0, <1>1, <1>2, <1>3, <2>2, <2>3, Sizes DEF Writing, Wrote
    <2>7. AgentOK(r)' /\ \A m \in SnapNames : Used(r, m)' => Used(r, m)
      BY Zenon, <1>0, <1>1, <2>6 DEF AgentOK, HeadOK, Working, Used
    <2> QED BY Zenon, <1>1, <2>4, <2>5, <2>7, QuietStep
  <1>4. CASE st[r].to # "snap"
    <2>1. UNCHANGED file /\ out' = IF Differs(r, n) THEN [out EXCEPT ![r][n] = Cur(r)[n]] ELSE out
      BY Zenon, <1>4 DEF RestoreBlock, Cur
    <2>2. out[r] \in Volume /\ Dest(r)' = Dest(r)
      BY Zenon, <1>0, <1>1, <1>4, <2>1 DEF Writing, Folding, Dest, Status
    <2>3. IF Differs(r, n) THEN Wrote(out[r], out'[r], Cur(r), n) ELSE out'[r] = out[r]
      <3>1. CASE Differs(r, n)
        <4>1. out'[r] = [out[r] EXCEPT ![n] = Cur(r)[n]]
          BY Zenon, <1>t, <2>1, <3>1 DEF RestoreType
        <4> QED BY Zenon, <1>0, <2>2, <3>1, <4>1, BlockWritten
      <3>2. CASE ~Differs(r, n)
        BY Zenon, <2>1, <3>2
      <3> QED BY Zenon, <3>1, <3>2
    <2>4. \A q \in RestoreReplicas \ {r} : SameAt(q)
      BY Zenon, <1>1, <1>t, <2>1 DEF RestoreType, SameAt
    <2>5. RestoreType'
      <3>1. out'[r] \in Volume /\ out' = [out EXCEPT ![r] = out'[r]]
        BY Zenon, <1>t, <2>1, <2>2, <2>3 DEF RestoreType, Wrote
      <3>2. out' \in [RestoreReplicas -> Volume \cup {NoFile}]
        BY Zenon, <1>t, <3>1 DEF RestoreType
      <3> QED BY <1>0, <1>1, <1>t, <2>1, <3>2 DEF RestoreType
    <2>6. Writing(r)'
      <3>1. CASE st[r].to = "tmp"
        <4>1. \A k \in 1..n : out'[r][k] = Cur(r)[k]
          <5>1. \A k \in 1..store[r] : out[r][k] = Cur(r)[k]
            BY Zenon, <1>0, <3>1 DEF Writing
          <5>2. Wrote(out[r], out'[r], Cur(r), n)
            BY Zenon, <2>3, <3>1 DEF Differs
          <5> QED BY Zenon, <1>n, <5>1, <5>2 DEF Wrote
        <4>2. out'[r] \in Volume
          BY Zenon, <2>2, <2>3 DEF Wrote
        <4> QED BY <1>0, <1>1, <1>2, <1>n, <3>1, <4>1, <4>2 DEF Writing
      <3>2. CASE st[r].to = "delta"
        <4>1. /\ Folding(r, store[r])
              /\ \A k \in 1..RestoreBlocks : k > store[r] => out[r][k] = 0 /\ Dest(r)[k] = Content[st[r].last][k]
          BY Zenon, <1>0, <3>2 DEF Writing
        <4>2. \A k \in 1..RestoreBlocks : k # n => out'[r][k] = out[r][k]
          BY Zenon, <2>3 DEF Wrote
        <4>3. out'[r] \in Volume /\ out'[r][n] \in {0, Cur(r)[n]} /\ (out'[r][n] = 0 => Dest(r)[n] = Cur(r)[n])
          <5>1. CASE Differs(r, n)
            BY Zenon, <1>0, <2>3, <5>1, Sizes DEF Wrote, Cur
          <5>2. CASE ~Differs(r, n)
            BY Zenon, <1>0, <1>n, <2>2, <2>3, <4>1, <5>2 DEF Differs, Cur
          <5> QED BY Zenon, <5>1, <5>2
        <4>4. Folding(r, store[r])'
          BY Zenon, <1>2, <1>n, <2>2, <4>1, <4>2, <4>3 DEF Folding
        <4>5. \A k \in 1..RestoreBlocks : k > n => out'[r][k] = 0 /\ Dest(r)'[k] = Content[st'[r].last][k]
          BY Zenon, <1>1, <1>n, <2>2, <4>1, <4>2
        <4> QED BY Zenon, <1>0, <1>1, <1>2, <1>n, <3>2, <4>4, <4>5 DEF Writing
      <3> QED BY Zenon, <1>0, <1>4, <3>1, <3>2 DEF Status
    <2>7. AgentOK(r)' /\ \A m \in SnapNames : Used(r, m)' => Used(r, m)
      BY Zenon, <1>0, <1>1, <1>4, <2>6 DEF AgentOK, HeadOK, Working, Used
    <2> QED BY Zenon, <1>1, <2>4, <2>5, <2>7, QuietStep
  <1> QED BY Zenon, <1>3, <1>4

\* The backup store has written the last block, or fails.
LEMMA StoreDoneStep ==
    ASSUME RestoreInv, NEW r \in RestoreReplicas, StoreDone(r) PROVE RestoreInv'
  <1>0. /\ Working(r) /\ Writing(r) /\ HeadOK(r) /\ st[r] \in Status
        /\ st[r].cur \in Backups /\ Cur(r) \in Volume /\ st[r].name \in SnapNames
    BY StoreAtWork, Sizes DEF StoreDone
  <1>t. RestoreType
    BY Zenon DEF RestoreInv
  <1>1. /\ UNCHANGED <<file, out, known, parent, restoring, pc, task, names>> /\ store'[r] = -1
        /\ store' = [store EXCEPT ![r] = -1]
    BY Zenon, <1>t DEF StoreDone, restoreDisks, RestoreType
  <1>2. store' \in [RestoreReplicas -> {-1} \cup 0..RestoreBlocks]
    BY Zenon, <1>1, <1>t DEF RestoreType
  <1>3. CASE store[r] = RestoreBlocks /\ st' = [st EXCEPT ![r].progress = 100]
    <2>1. st'[r] = [st[r] EXCEPT !.progress = 100] /\ st' = [st EXCEPT ![r] = st'[r]]
      BY Zenon, <1>3, <1>t DEF RestoreType
    <2>2. st'[r] = [state |-> st[r].state, last |-> st[r].last, cur |-> st[r].cur, to |-> st[r].to,
                    name |-> st[r].name, progress |-> 100]
      BY Zenon, <1>0, <2>1, StoredUpdate
    <2>3. /\ st'[r] \in Status /\ st'[r].state = st[r].state /\ st'[r].last = st[r].last /\ st'[r].cur = st[r].cur
          /\ st'[r].to = st[r].to /\ st'[r].name = st[r].name /\ st'[r].progress = 100
      BY <1>0, <2>2 DEF Status
    <2>4. RestoreType' /\ \A q \in RestoreReplicas \ {r} : SameAt(q)
      <3>1. st' \in [RestoreReplicas -> Status] /\ \A q \in RestoreReplicas \ {r} : st'[q] = st[q]
        <4>1. PICK s \in Status : s = st'[r]
          BY Zenon, <2>3
        <4>2. st \in [RestoreReplicas -> Status] /\ st' = [st EXCEPT ![r] = s]
          BY Zenon, <1>t, <2>1, <4>1 DEF RestoreType
        <4> QED BY Zenon, <4>2, OneStatus
      <3> QED BY Zenon, <1>1, <1>2, <1>t, <3>1 DEF RestoreType, SameAt
    <2>5. Cur(r)' = Cur(r) /\ Dest(r)' = Dest(r)
      BY Zenon, <1>1, <2>3 DEF Cur, Dest
    <2>6. st[r].to = "snap" => Dest(r) = Cur(r)
      BY Zenon, <1>0, <1>3, VolumesEqual DEF Writing
    <2>7. st[r].to = "tmp" => out[r] = Cur(r)
      BY Zenon, <1>0, <1>3, VolumesEqual DEF Writing
    <2>8. st[r].to = "delta" => Folding(r, RestoreBlocks)'
      BY Zenon, <1>0, <1>1, <1>3, <2>5 DEF Writing, Folding
    <2>9. Done(r)'
      BY <1>0, <1>1, <2>3, <2>5, <2>6, <2>7, <2>8 DEF Writing, Done, SnapDone, TmpDone, DeltaDone
    <2>10. AgentOK(r)' /\ \A m \in SnapNames : Used(r, m)' => Used(r, m)
      BY Zenon, <1>0, <1>1, <2>3, <2>9 DEF AgentOK, HeadOK, Working, Used
    <2> QED BY Zenon, <1>1, <2>4, <2>10, QuietStep
  <1>4. CASE st' = [st EXCEPT ![r] = RestoreFailed(r)]
    <2>1. /\ st'[r] \in Status /\ st'[r].state = "error" /\ st'[r].progress = 0 /\ st'[r].name = st[r].name
          /\ st' = [st EXCEPT ![r] = st'[r]]
      BY Zenon, <1>4, <1>t, Statuses DEF RestoreType
    <2>2. RestoreType' /\ \A q \in RestoreReplicas \ {r} : SameAt(q)
      BY Zenon, <1>1, <1>2, <1>t, <2>1 DEF RestoreType, SameAt
    <2>3. Broken(r)'
      BY Zenon, <1>0, <1>1, <2>1 DEF Working, Writing, Broken
    <2>4. AgentOK(r)' /\ \A m \in SnapNames : Used(r, m)' => Used(r, m)
      BY Zenon, <1>0, <1>1, <2>1, <2>3 DEF AgentOK, HeadOK, Used
    <2> QED BY Zenon, <1>1, <2>2, <2>4, QuietStep
  <1> QED BY Zenon, <1>3, <1>4 DEF StoreDone

-----------------------------------------------------------------------------
\* A restore the agent accepts: a first one into the snapshot's file, and after a
\* complete one, of the whole backup or of what differs, into the snapshot that the
\* volume head reads from.
LEMMA NewWork ==
    ASSUME RestoreInv, NEW r \in RestoreReplicas, r \in task.todo, MayStart(r, task.b)
    PROVE  /\ Idle(r) /\ HeadOK(r) /\ task # NoTask /\ task.b \in Backups /\ task.name \in SnapNames
           /\ \/ st[r].last = 0 /\ st[r].state = "none"
              \/ /\ st[r].last \in Backups /\ parent[r] = task.name
                 /\ file[r][parent[r]] = Content[st[r].last] /\ Content[st[r].last] \in Volume
  <1>1. task # NoTask /\ task.b \in Backups /\ task.name \in SnapNames
    BY DEF RestoreInv, TaskOK, NoTask
  <1>2. Idle(r) /\ HeadOK(r) /\ st[r] \in Status /\ parent[r] \in Name
    BY Zenon DEF RestoreInv, RestoreType, AgentOK, Broken, Working, MayStart
  <1>3. CASE st[r].state = "none"
    BY Zenon, <1>1, <1>2, <1>3 DEF Idle
  <1>4. CASE st[r].state = "complete"
    <2>1. parent[r] \in SnapNames /\ InPlay(parent[r]) /\ InPlay(task.name)
      BY Zenon, <1>1, <1>2, <1>4 DEF Idle, Name, InPlay, Used
    <2>2. parent[r] = task.name
      BY Zenon, <1>1, <2>1 DEF RestoreInv, OneName
    <2>3. st[r].last \in Backups
      BY <1>2, <1>4, Sizes DEF Idle, Status, Backups
    <2> QED BY Zenon, <1>1, <1>2, <1>4, <2>2, <2>3, Sizes DEF Idle
  <1> QED BY Zenon, <1>2, <1>3, <1>4 DEF MayStart, Idle, Status

\* The status of a restore that starts.
Started(s, b, n, to) ==
    /\ s \in Status /\ s.state = "in_progress" /\ s.cur = b /\ s.name = n /\ s.to = to /\ s.progress = 0

\* The first restore of an agent begins a status of its own.
LEMMA FirstStatus ==
    ASSUME NEW b \in Backups, NEW n \in SnapNames
    PROVE  Started(NewRestore(b, n), b, n, "snap") /\ NewRestore(b, n).last = 0
  BY Sizes DEF NewRestore, Started, Status, Name, Backups

\* A later one goes on from the last backup restored only when that is valid.
LEMMA NextStatus ==
    ASSUME NEW r \in RestoreReplicas, st[r] \in Status, NEW b \in Backups, NEW n \in SnapNames, NEW valid \in BOOLEAN
    PROVE  /\ Started(StartNewRestore(r, b, n, valid), b, n, IF valid THEN "delta" ELSE "tmp")
           /\ StartNewRestore(r, b, n, valid).last = IF valid THEN st[r].last ELSE 0
  <1> DEFINE to == IF valid THEN "delta" ELSE "tmp"
             last == IF valid THEN st[r].last ELSE 0
  <1>1. PICK t : t = StartNewRestore(r, b, n, valid)
    BY Zenon
  <1>2. t = [st[r] EXCEPT !.to = to, !.progress = 0, !.state = "in_progress", !.name = n, !.cur = b, !.last = last]
    BY Zenon, <1>1 DEF StartNewRestore
  <1>3. last \in 0..Len(Content) /\ to \in {"snap", "tmp", "delta"} /\ n \in Name /\ b \in 0..Len(Content)
    BY Sizes DEF Status, Backups, Name
  <1> HIDE DEF to, last
  <1>4. t = [state |-> "in_progress", last |-> last, cur |-> b, to |-> to, name |-> n, progress |-> 0]
    BY Zenon, <1>2 DEF Status
  <1>5. t.last = last /\ t.state = "in_progress" /\ t.cur = b /\ t.name = n /\ t.to = to /\ t.progress = 0
    BY Zenon, <1>4
  <1>6. t \in Status
    BY Zenon, <1>3, <1>4 DEF Status
  <1>7. Started(t, b, n, to) /\ t.last = last
    BY Zenon, <1>5, <1>6 DEF Started
  <1> QED BY Zenon, <1>1, <1>7 DEF to, last

\* A volume without data is a volume.
LEMMA ZeroVolume == Zero \in Volume /\ \A n \in 1..RestoreBlocks : Zero[n] = 0
  BY Zenon, Sizes DEF Zero, Volume

\* The restore that starts at a replica.
LEMMA InitiateStep ==
    ASSUME RestoreInv, NEW r \in RestoreReplicas, r \in task.todo, MayStart(r, task.b), NEW new, NEW to,
           Initiate(r, new), Started(new, task.b, task.name, to), names' = names,
           task' = IF task.todo = {r} THEN NoTask ELSE [task EXCEPT !.todo = @ \ {r}],
           \/ to = "snap" /\ new.last = 0
           \/ to = "tmp" /\ new.last = 0 /\ st[r].last # 0
           \/ to = "delta" /\ new.last = st[r].last /\ st[r].last # 0
    PROVE  RestoreInv'
  <1>t. RestoreType
    BY Zenon DEF RestoreInv
  <1>0. /\ Idle(r) /\ HeadOK(r) /\ task # NoTask /\ task.b \in Backups /\ task.name \in SnapNames
        /\ to # "snap" => /\ st[r].last \in Backups /\ parent[r] = task.name
                          /\ file[r][parent[r]] = Content[st[r].last] /\ Content[st[r].last] \in Volume
    BY Zenon, NewWork
  <1>1. /\ st'[r] = new /\ restoring'[r] = TRUE /\ store'[r] = 0 /\ pc'[r] = "wait"
        /\ UNCHANGED <<known, parent>>
    BY Zenon, <1>t DEF Initiate, RestoreGoto, RestoreType
  <1>2. /\ new \in Status /\ new.state = "in_progress" /\ new.cur = task.b /\ new.name = task.name
        /\ new.to = to /\ new.progress = 0
    BY Zenon DEF Started
  <1>3. /\ st' \in [RestoreReplicas -> Status] /\ restoring' \in [RestoreReplicas -> BOOLEAN]
        /\ \A q \in RestoreReplicas \ {r} : st'[q] = st[q] /\ restoring'[q] = restoring[q]
    BY Zenon, <1>2, <1>t DEF Initiate, RestoreType
  <1>4. /\ store' \in [RestoreReplicas -> {-1} \cup 0..RestoreBlocks]
        /\ pc' \in [RestoreReplicas -> {"idle", "wait", "meta", "rename", "reload", "revert", "fold", "finish"}]
        /\ \A q \in RestoreReplicas \ {r} : store'[q] = store[q] /\ pc'[q] = pc[q]
    BY <1>t, Sizes DEF Initiate, RestoreGoto, RestoreType
  <1>5. /\ file' \in [RestoreReplicas -> [SnapNames -> Volume \cup {NoFile}]]
        /\ out' \in [RestoreReplicas -> Volume \cup {NoFile}]
        /\ \A q \in RestoreReplicas \ {r} : file'[q] = file[q] /\ out'[q] = out[q]
        /\ IF to = "snap" THEN file'[r][task.name] = Zero ELSE file' = file /\ out'[r] = Zero
    <2>1. CASE to = "snap"
      <3>1. file' = [file EXCEPT ![r][task.name] = Zero] /\ out' = out
        BY Zenon, <1>2, <2>1 DEF Initiate
      <3>2. file'[r] = [file[r] EXCEPT ![task.name] = Zero] /\ file' = [file EXCEPT ![r] = file'[r]]
        BY Zenon, <1>t, <3>1 DEF RestoreType
      <3>3. file'[r] \in [SnapNames -> Volume \cup {NoFile}] /\ file'[r][task.name] = Zero
        <4>1. file[r] \in [SnapNames -> Volume \cup {NoFile}] /\ Zero \in Volume
          BY Zenon, <1>t, ZeroVolume DEF RestoreType
        <4>2. file'[r] = [file[r] EXCEPT ![task.name] = Zero] /\ task.name \in SnapNames
          BY Zenon, <1>0, <3>2
        <4> QED BY Zenon, <4>1, <4>2
      <3> QED BY Zenon, <1>t, <2>1, <3>1, <3>2, <3>3 DEF RestoreType
    <2>2. CASE to # "snap"
      BY <1>2, <1>t, <2>2, ZeroVolume DEF Initiate, RestoreType
    <2> QED BY Zenon, <2>1, <2>2
  <1>6. /\ task' \in [todo : SUBSET RestoreReplicas, b : 0..Len(Content), name : Name]
        /\ task' # NoTask => task'.name = task.name /\ task'.b = task.b
    <2>1. CASE task.todo = {r}
      BY <2>1, Sizes DEF NoTask, Name
    <2>2. CASE task.todo # {r}
      <3>1. task' = [task EXCEPT !.todo = task.todo \ {r}]
        BY Zenon, <2>2
      <3>2. task' = [todo |-> task.todo \ {r}, b |-> task.b, name |-> task.name]
        BY Zenon, <1>t, <3>1 DEF RestoreType
      <3>3. task.todo \ {r} \in SUBSET RestoreReplicas /\ task.b \in 0..Len(Content) /\ task.name \in Name
        BY Zenon, <1>t DEF RestoreType
      <3>4. task' \in [todo : SUBSET RestoreReplicas, b : 0..Len(Content), name : Name]
        BY <3>2, <3>3
      <3>5. task'.name = task.name /\ task'.b = task.b
        BY <3>2
      <3> QED BY Zenon, <3>4, <3>5
    <2> QED BY Zenon, <2>1, <2>2
  <1>7. RestoreType' /\ TaskOK' /\ \A q \in RestoreReplicas \ {r} : SameAt(q)
    <2>1. RestoreType'
      BY Zenon, <1>1, <1>3, <1>4, <1>5, <1>6, <1>t DEF RestoreType
    <2>2. TaskOK'
      BY Zenon, <1>0, <1>6 DEF TaskOK
    <2>3. \A q \in RestoreReplicas \ {r} : SameAt(q)
      BY Zenon, <1>1, <1>3, <1>4, <1>5 DEF SameAt
    <2> QED BY Zenon, <2>1, <2>2, <2>3
  <1>8. Writing(r)'
    <2>0. (\A k \in 1..store'[r] : FALSE) /\ store'[r] # -1
      BY <1>1
    <2>1. CASE to = "snap"
      BY Zenon, <1>1, <1>2, <1>5, <2>0, <2>1, ZeroVolume DEF Writing, Dest
    <2>2. CASE to = "tmp"
      BY Zenon, <1>1, <1>2, <1>5, <2>0, <2>2, ZeroVolume DEF Writing
    <2>3. CASE to = "delta"
      <3>1. Dest(r)' = Content[st'[r].last] /\ Dest(r)' \in Volume /\ out'[r] = Zero
        BY <1>0, <1>1, <1>2, <1>5, <2>3 DEF Dest
      <3>2. Folding(r, store[r])'
        BY Zenon, <2>0, <3>1, ZeroVolume DEF Folding
      <3> QED BY Zenon, <1>1, <1>2, <2>0, <2>3, <3>1, <3>2, ZeroVolume DEF Writing
    <2> QED BY Zenon, <2>1, <2>2, <2>3
  <1>9. AgentOK(r)'
    <2>1. Working(r)'
      <3>1. task.b # 0
        BY <1>0 DEF Backups
      <3> QED BY Zenon, <1>0, <1>1, <1>2, <1>8, <3>1 DEF Working
    <2> QED BY Zenon, <1>0, <1>1, <2>1 DEF AgentOK, HeadOK
  <1>10. \A m \in SnapNames : Used(r, m)' => InPlay(m)
    BY Zenon, <1>0, <1>1, <1>2 DEF Used, InPlay
  <1> QED BY Zenon, <1>0, <1>6, <1>7, <1>9, <1>10, LocalStep

\* The agent of a replica accepts the restore, refuses it, or is not reached.
LEMMA StartStep ==
    ASSUME RestoreInv, NEW r \in RestoreReplicas, StartRestore(r) PROVE RestoreInv'
  <1> DEFINE b == task.b
             n == task.name
             valid == canDoIncrementalRestore(r)
  <1>t. RestoreType /\ st[r] \in Status
    BY Zenon DEF RestoreInv, RestoreType
  <1>0. /\ r \in task.todo /\ names' = names
        /\ task' = IF task.todo = {r} THEN NoTask ELSE [task EXCEPT !.todo = @ \ {r}]
    BY Zenon DEF StartRestore
  <1>1. CASE UNCHANGED <<restoreDisks, restoreAgents>>
    <2>1. UNCHANGED <<file, out, known, parent, st, restoring, pc, store>>
      BY Zenon, <1>1 DEF restoreDisks, restoreAgents
    <2>2. /\ task' \in [todo : SUBSET RestoreReplicas, b : 0..Len(Content), name : Name]
          /\ task' # NoTask => task'.name = task.name /\ task'.b = task.b
      <3>1. CASE task.todo = {r}
        BY <1>0, <3>1, Sizes DEF NoTask, Name
      <3>2. CASE task.todo # {r}
        <4>1. task' = [task EXCEPT !.todo = task.todo \ {r}]
          BY Zenon, <1>0, <3>2
        <4>2. task' = [todo |-> task.todo \ {r}, b |-> task.b, name |-> task.name]
          BY Zenon, <1>t, <4>1 DEF RestoreType
        <4> QED BY Zenon, <1>t, <4>2 DEF RestoreType
      <3> QED BY Zenon, <3>1, <3>2
    <2>3. task # NoTask
      BY <1>0 DEF NoTask
    <2>4. RestoreType' /\ TaskOK' /\ \A q \in RestoreReplicas : SameAt(q)
      BY Zenon, <1>0, <1>t, <2>1, <2>2, <2>3 DEF RestoreInv, RestoreType, TaskOK, SameAt
    <2>5. AgentOK(r)' /\ \A m \in SnapNames : Used(r, m)' => InPlay(m)
      BY Zenon, <2>4, FrameAgent, FrameUsed DEF RestoreInv, InPlay
    <2> QED BY Zenon, <2>2, <2>3, <2>4, <2>5, LocalStep
  <1>2. CASE /\ MayStart(r, b)
             /\ Initiate(r, IF st[r].last = 0 /\ st[r].state = "none" THEN NewRestore(b, n)
                            ELSE StartNewRestore(r, b, n, valid))
    <2>1. /\ Idle(r) /\ task.b \in Backups /\ task.name \in SnapNames
          /\ (st[r].last = 0 /\ st[r].state = "none") \/ st[r].last \in Backups
      BY Zenon, <1>0, <1>2, NewWork
    <2>2. CASE st[r].last = 0 /\ st[r].state = "none"
      <3>1. Initiate(r, NewRestore(b, n))
        BY Zenon, <1>2, <2>2
      <3>2. Started(NewRestore(b, n), task.b, task.name, "snap") /\ NewRestore(b, n).last = 0
        BY Zenon, <2>1, FirstStatus
      <3> QED BY Zenon, <1>0, <1>2, <3>1, <3>2, InitiateStep
    <2>3. CASE ~(st[r].last = 0 /\ st[r].state = "none")
      <3>1. Initiate(r, StartNewRestore(r, b, n, valid)) /\ valid \in BOOLEAN
        BY Zenon, <1>2, <2>3 DEF canDoIncrementalRestore
      <3>2. st[r].last # 0
        BY <2>1, <2>3 DEF Backups
      <3>3. /\ Started(StartNewRestore(r, b, n, valid), task.b, task.name, IF valid THEN "delta" ELSE "tmp")
            /\ StartNewRestore(r, b, n, valid).last = IF valid THEN st[r].last ELSE 0
        BY Zenon, <1>t, <2>1, <3>1, NextStatus
      <3>4. CASE valid
        BY Zenon, <1>0, <1>2, <3>1, <3>2, <3>3, <3>4, InitiateStep
      <3>5. CASE ~valid
        BY Zenon, <1>0, <1>2, <3>1, <3>2, <3>3, <3>5, InitiateStep
      <3> QED BY Zenon, <3>4, <3>5
    <2> QED BY Zenon, <2>2, <2>3
  <1> QED BY Zenon, <1>1, <1>2 DEF StartRestore

-----------------------------------------------------------------------------
\* A snapshot name that the task chooses is the one in play, if any is.
LEMMA ChosenName ==
    ASSUME RestoreInv, task = NoTask, \A r \in RestoreReplicas : parent[r] = -1 => known[r] = {},
           NEW n \in SnapshotDiskNames, n \in SnapNames, NEW m \in SnapNames, InPlay(m)
    PROVE  m = n
  <1>t. RestoreType /\ OneName /\ \A q \in RestoreReplicas : HeadOK(q)
    BY Zenon DEF RestoreInv, AgentOK
  <1>1. \A q \in RestoreReplicas : IsFiniteSet(known[q]) /\ Cardinality(known[q]) \in Nat
                                   /\ (Cardinality(known[q]) = 0 <=> known[q] = {})
    <2>1. IsFiniteSet(SnapNames)
      BY Sizes, FS_Interval DEF SnapNames
    <2>2. \A q \in RestoreReplicas : IsFiniteSet(known[q])
      BY Zenon, <1>t, <2>1, FS_Subset DEF RestoreType
    <2> QED BY Zenon, <2>2, FS_CardinalityType, FS_EmptySet
  <1>2. SUFFICES InPlay(n)
    BY Zenon, <1>t DEF OneName
  <1>3. PICK r \in Largest :
          n \in CASE Cardinality(known[r]) = 0 ->
                       IF \E q \in RestoreReplicas : st[q].last # 0 THEN {}
                       ELSE IF {st[q].name : q \in {p \in RestoreReplicas : restoring[p]}} # {}
                            THEN {st[q].name : q \in {p \in RestoreReplicas : restoring[p]}} ELSE {names + 1}
                  [] Cardinality(known[r]) = 1 -> {IF parent[r] = -1 THEN 0 ELSE parent[r]}
                  [] OTHER -> {}
    BY Zenon DEF SnapshotDiskNames
  <1>4. r \in RestoreReplicas /\ \A q \in RestoreReplicas : Cardinality(known[q]) <= Cardinality(known[r])
    BY Zenon DEF Largest
  <1>5. CASE Cardinality(known[r]) = 1
    <2>1. known[r] # {} /\ n = parent[r]
      BY <1>1, <1>3, <1>4, <1>5
    <2> QED BY Zenon, <1>4, <2>1 DEF InPlay, Used
  <1>6. CASE Cardinality(known[r]) = 0
    <2>1. \A q \in RestoreReplicas : known[q] = {}
      BY <1>1, <1>4, <1>6
    <2>2. PICK q \in RestoreReplicas : restoring[q] /\ st[q].name = m
      BY <1>t, <2>1, Sizes DEF InPlay, Used, HeadOK, SnapNames
    <2>3. n \in {st[p].name : p \in {p \in RestoreReplicas : restoring[p]}}
      BY <1>3, <1>6, <2>2
    <2> QED BY Zenon, <2>3 DEF InPlay, Used
  <1>7. CASE Cardinality(known[r]) \notin {0, 1}
    BY Zenon, <1>3, <1>7
  <1> QED BY Zenon, <1>5, <1>6, <1>7

\* RestoreBackup chooses the snapshot.
LEMMA TaskStep ==
    ASSUME HeadBehind = FALSE, RestoreInv, NEW b \in Backups, RestoreBackup(b) PROVE RestoreInv'
  <1>1. PICK n \in SnapshotDiskNames \cap SnapNames :
          /\ task' = [todo |-> RestoreReplicas, b |-> b, name |-> n]
          /\ names' = IF n > names THEN n ELSE names
    BY Zenon DEF RestoreBackup
  <1>2. /\ UNCHANGED <<file, out, known, parent, st, restoring, pc, store>> /\ task = NoTask
        /\ \A r \in RestoreReplicas : parent[r] = -1 => known[r] = {}
    BY Zenon DEF RestoreBackup, restoreDisks, restoreAgents
  <1>3. RestoreType' /\ TaskOK'
    BY <1>1, <1>2, Sizes DEF RestoreInv, RestoreType, TaskOK, Backups, Name, SnapNames
  <1>4. \A q \in RestoreReplicas : SameAt(q)
    BY Zenon, <1>2 DEF SameAt
  <1>5. \A q \in RestoreReplicas : AgentOK(q)'
    BY Zenon, <1>4, FrameAgent DEF RestoreInv
  <1>6. ASSUME NEW m \in SnapNames, InPlay(m)' PROVE m = n
    <2>1. CASE \E q \in RestoreReplicas : Used(q, m)'
      BY Zenon, <1>1, <1>2, <1>4, <2>1, FrameUsed, ChosenName DEF InPlay
    <2>2. CASE task'.name = m
      BY Zenon, <1>1, <2>2
    <2> QED BY Zenon, <1>6, <2>1, <2>2 DEF InPlay
  <1>7. OneName'
    BY Zenon, <1>6 DEF OneName
  <1> QED BY Zenon, <1>3, <1>5, <1>7 DEF RestoreInv

\* A step that changes nothing of a replica or of the task: a backup is deleted.
LEMMA IdleStep ==
    ASSUME RestoreInv, UNCHANGED <<restoreDisks, restoreAgents, task, names>> PROVE RestoreInv'
  <1>1. UNCHANGED <<file, out, known, parent, st, restoring, pc, store, task, names>>
    BY Zenon DEF restoreDisks, restoreAgents
  <1>2. RestoreType' /\ TaskOK' /\ \A q \in RestoreReplicas : SameAt(q)
    BY Zenon, <1>1 DEF RestoreInv, RestoreType, TaskOK, SameAt
  <1>3. \A q \in RestoreReplicas : AgentOK(q)'
    BY Zenon, <1>2, FrameAgent DEF RestoreInv
  <1>4. OneName'
    BY Zenon, <1>1 DEF RestoreInv, OneName, InPlay, Used
  <1> QED BY Zenon, <1>2, <1>3, <1>4 DEF RestoreInv

-----------------------------------------------------------------------------
\* RestoreInv holds in every state: no replica was restored at first, and every step of
\* the task, of an agent or of the backup store keeps it, when no restore is asked for
\* while a volume head is behind.
THEOREM RestoreInvariance == ASSUME HeadBehind = FALSE PROVE RestoreSpec => []RestoreInv
  <1>1. RestoreInit => RestoreInv
    <2> SUFFICES ASSUME RestoreInit PROVE RestoreInv
      BY Zenon
    <2>1. RestoreType
      <3>1. Blank \in Status /\ NoTask \in [todo : SUBSET RestoreReplicas, b : 0..Len(Content), name : Name]
        BY Sizes DEF Blank, NoTask, Status, Name
      <3> QED BY Zenon, <3>1, Sizes DEF RestoreInit, RestoreType, Name, SnapNames
    <2>2. OneName
      BY Zenon, Sizes DEF RestoreInit, OneName, InPlay, Used, SnapNames
    <2>3. TaskOK
      BY Zenon DEF RestoreInit, TaskOK
    <2>4. \A r \in RestoreReplicas : AgentOK(r)
      BY Zenon DEF RestoreInit, AgentOK, HeadOK, Idle, Blank
    <2> QED BY Zenon, <2>1, <2>2, <2>3, <2>4 DEF RestoreInv
  <1>2. RestoreInv /\ [RestoreNext]_restoreVars => RestoreInv'
    <2> SUFFICES ASSUME RestoreInv, [RestoreNext]_restoreVars PROVE RestoreInv'
      BY Zenon
    <2>1. ASSUME NEW b \in Backups, RestoreBackup(b) PROVE RestoreInv'
      BY Zenon, <2>1, TaskStep
    <2>2. ASSUME NEW b \in Backups, DeleteBackup(b) PROVE RestoreInv'
      BY Zenon, <2>2, IdleStep DEF DeleteBackup, restoreCounts
    <2>3. ASSUME NEW r \in RestoreReplicas, StartRestore(r) PROVE RestoreInv'
      BY Zenon, <2>3, StartStep
    <2>4. ASSUME NEW r \in RestoreReplicas, Store(r) PROVE RestoreInv'
      BY Zenon, <2>4, BlockStep, StoreDoneStep DEF Store
    <2>5. ASSUME NEW r \in RestoreReplicas, Agent(r) PROVE RestoreInv'
      BY Zenon, <2>5, WaitStep, MetaStep, RenameStep, ReloadStep, RevertStep, FoldStep, FoldedStep, CompleteStep DEF Agent
    <2>6. ASSUME NEW r \in RestoreReplicas, AgentReset(r) \/ AgentCrash(r) PROVE RestoreInv'
      BY Zenon, <2>6, BlankStep
    <2>7. CASE UNCHANGED restoreVars
      BY Zenon, <2>7, IdleStep DEF restoreVars, restoreCounts
    <2> QED BY Zenon, <2>1, <2>2, <2>3, <2>4, <2>5, <2>6, <2>7 DEF RestoreNext, Backups
  <1> QED BY <1>1, <1>2, PTL DEF RestoreSpec

\* A replica that reports a backup as restored holds it under its volume head, and all
\* replicas restore to one snapshot (BackupRestore, completeBackupRestore,
\* RestoreBackup), when no restore is asked for while a volume head is behind.
THEOREM RestoresExact == ASSUME HeadBehind = FALSE PROVE RestoreSpec => []RestoreExact
  <1>1. RestoreInv => RestoreExact
    <2> SUFFICES ASSUME RestoreInv PROVE RestoreExact
      BY Zenon
    <2>1. DOMAIN st = RestoreReplicas /\ \A r \in RestoreReplicas : parent[r] \in Name
      BY Zenon DEF RestoreInv, RestoreType
    <2>2. HoldsBackup
      BY Zenon, <2>1 DEF RestoreInv, AgentOK, Idle, Broken, Working, HoldsBackup
    <2>3. SameChain
      BY Zenon, <2>1 DEF RestoreInv, OneName, InPlay, Used, Name, SameChain
    <2> QED BY Zenon, <2>2, <2>3 DEF RestoreExact
  <1> QED BY <1>1, RestoreInvariance, PTL

-----------------------------------------------------------------------------
\* The lists of jobs.  What refresh and the deletions leave of a list are its elements at
\* some of the places, in their order.
Picks(m, k, l, K) ==
    /\ m \in [DOMAIN k -> K]
    /\ \A n \in DOMAIN k : k[n] = l[m[n]]
    /\ \A a, b \in DOMAIN k : a < b => m[a] < m[b]
    /\ \A i \in K : \E n \in DOMAIN k : m[n] = i

UniqueNames(l) == \A i, j \in DOMAIN l : l[i].name = l[j].name => i = j

\* How many elements of K are at i or before.
Rank(K, i) == Cardinality({j \in K : j <= i})

\* The ranks of the places of a finite set are 1 to their number, in their order.
LEMMA RanksOrder ==
    ASSUME NEW K, K \subseteq Nat, IsFiniteSet(K)
    PROVE  /\ Cardinality(K) \in Nat
           /\ \A i \in K : Rank(K, i) \in 1..Cardinality(K)
           /\ \A i, j \in K : i < j => Rank(K, i) < Rank(K, j)
<1> DEFINE Upto(i) == {j \in K : j <= i}
<1>1. ASSUME NEW i \in K
      PROVE  /\ IsFiniteSet(Upto(i)) /\ Cardinality(Upto(i)) \in Nat
             /\ Cardinality(Upto(i)) <= Cardinality(K) /\ Cardinality(Upto(i)) # 0
  <2>1. Upto(i) \in SUBSET K
    BY Zenon
  <2>2. IsFiniteSet(Upto(i)) /\ Cardinality(Upto(i)) <= Cardinality(K)
    BY Zenon, <2>1, FS_Subset
  <2>3. i <= i
    BY SMT
  <2>4. Upto(i) # {}
    BY Zenon, <2>3
  <2>5. QED
    BY Zenon, <2>2, <2>4, FS_CardinalityType, FS_EmptySet
<1>2. Cardinality(K) \in Nat
  BY Zenon, FS_CardinalityType
<1>3. ASSUME NEW i \in K PROVE Rank(K, i) \in 1..Cardinality(K)
  <2> HIDE DEF Upto
  <2>1. Cardinality(Upto(i)) \in 1..Cardinality(K)
    BY <1>1, <1>2
  <2>2. QED
    BY Zenon, <2>1 DEF Rank, Upto
<1>4. ASSUME NEW i \in K, NEW j \in K, i < j PROVE Rank(K, i) < Rank(K, j)
  <2>1. i \in Nat /\ j \in Nat
    BY Zenon
  <2>2. \A x \in K : x <= i => x <= j
    BY <1>4, <2>1
  <2>3. ~(j <= i) /\ j <= j
    BY <1>4, <2>1
  <2>4. Upto(i) \in SUBSET Upto(j) /\ Upto(i) # Upto(j)
    BY Zenon, <2>2, <2>3
  <2> HIDE DEF Upto
  <2>5. Cardinality(Upto(i)) <= Cardinality(Upto(j)) /\ Cardinality(Upto(i)) # Cardinality(Upto(j))
    BY Zenon, <1>1, <2>4, FS_Subset
  <2>6. Cardinality(Upto(i)) < Cardinality(Upto(j))
    BY <1>1, <2>5
  <2>7. QED
    BY Zenon, <2>6 DEF Rank, Upto
<1>5. QED
  BY Zenon, <1>2, <1>3, <1>4

\* Every number up to that of the elements is the rank of one of them: the ranks are an
\* injection between two sets of the same size.
LEMMA NthExists ==
    ASSUME NEW K, K \subseteq Nat, IsFiniteSet(K)
    PROVE  /\ \A n \in 1..Cardinality(K) : Nth(K, n) \in K /\ Rank(K, Nth(K, n)) = n
           /\ \A i \in K : Nth(K, Rank(K, i)) = i
<1> DEFINE T == 1..Cardinality(K)
<1> DEFINE f == [i \in K |-> Rank(K, i)]
<1>1. /\ Cardinality(K) \in Nat
      /\ \A i \in K : Rank(K, i) \in T
      /\ \A i, j \in K : i < j => Rank(K, i) < Rank(K, j)
  BY Zenon, RanksOrder
<1>2. ASSUME NEW i \in K, NEW j \in K, Rank(K, i) = Rank(K, j) PROVE i = j
  <2>1. i \in Nat /\ j \in Nat
    BY Zenon
  <2>2. Rank(K, i) \in T /\ Rank(K, j) \in T
    BY Zenon, <1>1
  <2>3. ~(Rank(K, i) < Rank(K, j)) /\ ~(Rank(K, j) < Rank(K, i))
    BY <1>1, <1>2, <2>2
  <2>4. ~(i < j) /\ ~(j < i)
    BY Zenon, <1>1, <2>3
  <2>5. QED
    BY <2>1, <2>4
<1>3. IsFiniteSet(T) /\ Cardinality(T) = Cardinality(K)
  <2>1. 1 \in Int /\ Cardinality(K) \in Int
    BY <1>1
  <2>2. /\ IsFiniteSet(1..Cardinality(K))
        /\ Cardinality(1..Cardinality(K)) = IF 1 > Cardinality(K) THEN 0 ELSE Cardinality(K) - 1 + 1
    BY Zenon, <2>1, FS_Interval
  <2>3. QED
    BY <1>1, <2>2
<1> HIDE DEF T
<1>4. f \in Injection(K, T)
  <2>1. f \in [K -> T]
    BY Zenon, <1>1
  <2>2. \A i, j \in K : f[i] = f[j] => i = j
    BY Zenon, <1>2
  <2>3. QED
    BY Zenon, <2>1, <2>2 DEF Injection, IsInjective
<1>5. f \in Surjection(K, T)
  BY Zenon, <1>3, <1>4, FS_Injection
<1>6. \A n \in T : \E i \in K : Rank(K, i) = n
  BY Zenon, <1>5 DEF Surjection
<1>7. ASSUME NEW n \in T PROVE Nth(K, n) \in K /\ Rank(K, Nth(K, n)) = n
  BY Zenon, <1>6 DEF Nth, Rank
<1>8. ASSUME NEW i \in K PROVE Nth(K, Rank(K, i)) = i
  BY Zenon, <1>1, <1>2, <1>7
<1>9. QED
  BY Zenon, <1>7, <1>8 DEF T

\* What is kept of a list (remove, called for each of the other places).
LEMMA KeptPicks ==
    ASSUME NEW S, NEW l \in Seq(S), NEW K, K \subseteq DOMAIN l
    PROVE  Kept(l, K) \in Seq(S) /\ \E m : Picks(m, Kept(l, K), l, K)
<1>1. DOMAIN l = 1..Len(l) /\ Len(l) \in Nat /\ \A i \in DOMAIN l : l[i] \in S
  BY SMT
<1>2. IsFiniteSet(DOMAIN l)
  BY <1>1, FS_Interval
<1>3. K \subseteq Nat /\ IsFiniteSet(K)
  <2>1. K \subseteq Nat
    BY <1>1
  <2>2. K \in SUBSET DOMAIN l
    BY Zenon
  <2>3. QED
    BY Zenon, <1>2, <2>1, <2>2, FS_Subset
<1> DEFINE c == Cardinality(K)
<1> DEFINE m == [n \in 1..c |-> Nth(K, n)]
<1>4. /\ c \in Nat
      /\ \A i \in K : Rank(K, i) \in 1..c /\ Nth(K, Rank(K, i)) = i
      /\ \A i, j \in K : i < j => Rank(K, i) < Rank(K, j)
      /\ \A n \in 1..c : Nth(K, n) \in K /\ Rank(K, Nth(K, n)) = n
  BY Zenon, <1>3, RanksOrder, NthExists
<1>5. Kept(l, K) = [n \in 1..c |-> l[Nth(K, n)]]
  BY Zenon DEF Kept
<1>6. Kept(l, K) \in [1..c -> S]
  BY Zenon, <1>1, <1>4, <1>5
<1>7. DOMAIN Kept(l, K) = 1..c /\ \A n \in 1..c : Kept(l, K)[n] = l[m[n]]
  BY Zenon, <1>5
<1>8. ASSUME NEW a \in 1..c, NEW b \in 1..c, a < b PROVE m[a] < m[b]
  <2>1. m[a] \in K /\ m[b] \in K /\ Rank(K, m[a]) = a /\ Rank(K, m[b]) = b
    BY Zenon, <1>4
  <2>2. m[a] \in Nat /\ m[b] \in Nat
    BY Zenon, <1>3, <2>1
  <2>3. m[a] # m[b]
    BY <1>8, <2>1
  <2>4. ~(m[b] < m[a])
    <3>1. ~(b < a)
      BY <1>8
    <3>2. QED
      BY Zenon, <1>4, <2>1, <3>1
  <2> HIDE DEF m
  <2>5. QED
    BY <2>2, <2>3, <2>4
<1>9. m \in [1..c -> K] /\ \A i \in K : \E n \in 1..c : m[n] = i
  BY Zenon, <1>4
<1>10. Picks(m, Kept(l, K), l, K)
  BY Zenon, <1>7, <1>8, <1>9 DEF Picks
<1> HIDE DEF c
<1>11. Kept(l, K) \in Seq(S)
  BY <1>4, <1>6
<1>12. QED
  BY Zenon, <1>10, <1>11

\* A name that is listed once is listed at most once among the elements picked.
LEMMA PicksUnique ==
    ASSUME NEW S, NEW l \in Seq(S), NEW k \in Seq(S), NEW K, K \subseteq DOMAIN l, NEW m, Picks(m, k, l, K),
           UniqueNames(l)
    PROVE  UniqueNames(k)
<1> SUFFICES ASSUME NEW a \in DOMAIN k, NEW b \in DOMAIN k, k[a].name = k[b].name PROVE a = b
  BY Zenon DEF UniqueNames
<1>1. m[a] \in DOMAIN l /\ m[b] \in DOMAIN l /\ k[a] = l[m[a]] /\ k[b] = l[m[b]]
  BY Zenon DEF Picks
<1>2. m[a] = m[b]
  BY Zenon, <1>1 DEF UniqueNames
<1>3. a \in Nat /\ b \in Nat /\ m[a] \in Nat /\ m[b] \in Nat
  <2>1. (\A i \in DOMAIN l : i \in Nat) /\ \A i \in DOMAIN k : i \in Nat
    BY SMT
  <2>2. QED
    BY Zenon, <1>1, <2>1
<1>4. ~(m[a] < m[b]) /\ ~(m[b] < m[a])
  BY <1>2, <1>3
<1>5. ~(a < b) /\ ~(b < a)
  BY Zenon, <1>4 DEF Picks
<1>6. QED
  BY <1>3, <1>5

\* The jobs in state s that are newer than the one at place i.
Newer(l, s, i) == {j \in Places(l, s) : j > i}

\* A job may be dropped: it ended, and as many newer ones that ended so are listed as are
\* retained.
Droppable(l, i) == Job(l[i]) \in Ended /\ Cardinality(Newer(l, Job(l[i]), i)) >= Retained[Job(l[i])]

\* The newer jobs at a place are finitely many.
LEMMA NewerFinite ==
    ASSUME NEW S, NEW l \in Seq(S), NEW s, NEW i
    PROVE  IsFiniteSet(Newer(l, s, i)) /\ Cardinality(Newer(l, s, i)) \in Nat
<1>1. IsFiniteSet(DOMAIN l)
  <2>1. DOMAIN l = 1..Len(l) /\ Len(l) \in Int /\ 1 \in Int
    BY SMT
  <2>2. QED
    BY Zenon, <2>1, FS_Interval
<1>2. Newer(l, s, i) \in SUBSET DOMAIN l
  BY Zenon DEF Newer, Places
<1>3. QED
  BY Zenon, <1>1, <1>2, FS_Subset, FS_CardinalityType

\* The states in which a job has ended.
LEMMA EndedStates == Ended = {"complete", "error"} /\ \A s \in Ended : Retained[s] \in Nat
BY Zenon, ListAssumption DEF Ended

\* purgePartialRetained drops jobs in the state it is called for only, and of these only
\* ones beyond the number that is retained, although its index skips some.
LEMMA PurgePicks ==
    ASSUME NEW S, NEW l \in Seq(S), NEW s \in Ended
    PROVE  /\ purgePartialRetained(l, s) \in Seq(S)
           /\ \E K, m : /\ K \subseteq DOMAIN l /\ Picks(m, purgePartialRetained(l, s), l, K)
                        /\ \A i \in DOMAIN l \ K : Job(l[i]) = s /\ Droppable(l, i)
<1> DEFINE cut == Cut(l, s, Retained[s])
<1> DEFINE K == DOMAIN l \ Older(l, s, cut)
<1>1. purgePartialRetained(l, s) = Kept(l, K)
  BY Zenon DEF purgePartialRetained, RemoveOlder
<1>2. K \subseteq DOMAIN l
  BY Zenon
<1>3. Kept(l, K) \in Seq(S) /\ \E m : Picks(m, Kept(l, K), l, K)
  BY Zenon, <1>2, KeptPicks
<1>4. ASSUME NEW i \in DOMAIN l \ K PROVE Job(l[i]) = s /\ Droppable(l, i)
  <2> DEFINE beyond == {j \in Places(l, s) : Cardinality({k \in Places(l, s) : k > j}) = Retained[s]}
  <2>1. i \in Places(l, s) /\ i <= cut /\ i \in DOMAIN l
    BY Zenon, <1>4 DEF Older
  <2>2. cut = IF beyond = {} THEN 0 ELSE CHOOSE j \in beyond : TRUE
    BY Zenon DEF Cut
  <2>3. i \in Nat /\ i >= 1 /\ \A j \in DOMAIN l : j \in Nat
    BY <2>1
  <2> HIDE DEF cut
  <2>4. beyond # {}
    <3>1. SUFFICES ASSUME beyond = {} PROVE FALSE
      BY Zenon
    <3>2. cut = 0
      BY Zenon, <2>2, <3>1
    <3>3. QED
      BY <2>1, <2>3, <3>2
  <2>5. cut \in beyond
    BY Zenon, <2>2, <2>4
  <2>6. cut \in DOMAIN l /\ Cardinality(Newer(l, s, cut)) = Retained[s]
    BY Zenon, <2>5 DEF Newer, Places
  <2>7. cut \in Nat
    BY Zenon, <2>3, <2>6
  <2>8. \A j \in DOMAIN l : j > cut => j > i
    BY <2>1, <2>3, <2>7
  <2>9. Newer(l, s, cut) \in SUBSET Newer(l, s, i)
    BY Zenon, <2>8 DEF Newer, Places
  <2>10. Cardinality(Newer(l, s, cut)) <= Cardinality(Newer(l, s, i))
    BY Zenon, <2>9, NewerFinite, FS_Subset
  <2>11. Cardinality(Newer(l, s, i)) \in Nat /\ Retained[s] \in Nat
    BY Zenon, NewerFinite, EndedStates
  <2>12. Cardinality(Newer(l, s, i)) >= Retained[s]
    BY <2>6, <2>10, <2>11
  <2>13. Job(l[i]) = s
    BY Zenon, <2>1 DEF Places
  <2>14. QED
    BY Zenon, <2>12, <2>13 DEF Droppable
<1> HIDE DEF K
<1>5. QED
  BY Zenon, <1>1, <1>2, <1>3, <1>4

\* A job that a second purge may drop, the first one would have been allowed to drop: its
\* newer ones are as many in the list the first one began with.
LEMMA DroppableBefore ==
    ASSUME NEW S, NEW l \in Seq(S), NEW l1 \in Seq(S), NEW K1, K1 \subseteq DOMAIN l, NEW m1,
           Picks(m1, l1, l, K1), NEW n \in DOMAIN l1, Droppable(l1, n)
    PROVE  Droppable(l, m1[n])
<1>1. /\ m1 \in [DOMAIN l1 -> K1] /\ \A a \in DOMAIN l1 : l1[a] = l[m1[a]] /\ m1[a] \in DOMAIN l
      /\ \A a, b \in DOMAIN l1 : a < b => m1[a] < m1[b]
  BY Zenon DEF Picks
<1>2. \A a \in DOMAIN l1 : a \in Nat /\ m1[a] \in Nat
  <2>1. \A i \in DOMAIN l : i \in Nat
    BY SMT
  <2>2. \A a \in DOMAIN l1 : a \in Nat
    BY SMT
  <2>3. QED
    BY Zenon, <1>1, <2>1, <2>2
<1> DEFINE s == Job(l1[n])
<1>3. s = Job(l[m1[n]]) /\ s \in Ended /\ Cardinality(Newer(l1, s, n)) >= Retained[s]
  BY Zenon, <1>1 DEF Droppable
<1> HIDE DEF s
<1> DEFINE A == Newer(l1, s, n)
<1> DEFINE B == Newer(l, s, m1[n])
<1> DEFINE f == [a \in A |-> m1[a]]
<1>4. ASSUME NEW a \in A PROVE m1[a] \in B
  <2>1. a \in DOMAIN l1 /\ Job(l1[a]) = s /\ a > n
    BY Zenon, <1>4 DEF Newer, Places
  <2>2. n < a
    BY <1>2, <2>1
  <2>3. m1[n] < m1[a]
    BY Zenon, <1>1, <2>1, <2>2
  <2>4. m1[a] > m1[n]
    BY <1>2, <2>1, <2>3
  <2>5. QED
    BY Zenon, <1>1, <2>1, <2>4 DEF Newer, Places
<1>5. ASSUME NEW a \in A, NEW b \in A, m1[a] = m1[b] PROVE a = b
  <2>1. a \in DOMAIN l1 /\ b \in DOMAIN l1
    BY Zenon DEF Newer, Places
  <2>2. ~(m1[a] < m1[b]) /\ ~(m1[b] < m1[a])
    BY <1>2, <1>5, <2>1
  <2>3. ~(a < b) /\ ~(b < a)
    BY Zenon, <1>1, <2>1, <2>2
  <2>4. QED
    BY <1>2, <2>1, <2>3
<1>6. f \in Injection(A, B)
  <2>1. f \in [A -> B] /\ \A a \in A : f[a] = m1[a]
    BY Zenon, <1>4
  <2>2. \A a, b \in A : f[a] = f[b] => a = b
    BY Zenon, <1>5
  <2>3. QED
    BY Zenon, <2>1, <2>2 DEF Injection, IsInjective
<1>7. IsFiniteSet(B) /\ Cardinality(B) \in Nat /\ Cardinality(A) \in Nat
  BY Zenon, NewerFinite
<1>8. Cardinality(A) <= Cardinality(B)
  BY Zenon, <1>6, <1>7, FS_Injection
<1>9. Cardinality(A) >= Retained[s] /\ Retained[s] \in Nat
  BY Zenon, <1>3, EndedStates
<1> HIDE DEF A, B
<1>10. Cardinality(B) >= Retained[s]
  BY <1>7, <1>8, <1>9
<1>11. QED
  BY Zenon, <1>3, <1>10 DEF Droppable, B

\* What a refresh leaves of a list: its elements at the places K.
Refreshed(k, l, K, m) == K \subseteq DOMAIN l /\ Picks(m, k, l, K) /\ \A i \in DOMAIN l \ K : Droppable(l, i)

\* Two purges, in either order, leave every job that is not old enough.
LEMMA TwoPurges ==
    ASSUME NEW S, NEW l \in Seq(S), NEW s \in Ended, NEW t \in Ended
    PROVE  /\ purgePartialRetained(purgePartialRetained(l, s), t) \in Seq(S)
           /\ \E K, m : Refreshed(purgePartialRetained(purgePartialRetained(l, s), t), l, K, m)
<1> DEFINE l1 == purgePartialRetained(l, s)
<1> DEFINE k == purgePartialRetained(l1, t)
<1>1. l1 \in Seq(S)
  BY Zenon, PurgePicks
<1>2. PICK K1, m1 : /\ K1 \subseteq DOMAIN l /\ Picks(m1, l1, l, K1)
                    /\ \A i \in DOMAIN l \ K1 : Job(l[i]) = s /\ Droppable(l, i)
  BY Zenon, PurgePicks
<1> HIDE DEF l1
<1>3. k \in Seq(S)
  BY Zenon, <1>1, PurgePicks
<1>4. PICK K2, m2 : /\ K2 \subseteq DOMAIN l1 /\ Picks(m2, k, l1, K2)
                    /\ \A i \in DOMAIN l1 \ K2 : Job(l1[i]) = t /\ Droppable(l1, i)
  BY Zenon, <1>1, PurgePicks
<1> HIDE DEF k
<1> PICK K, m : K = {m1[n] : n \in K2} /\ m = [n \in DOMAIN k |-> m1[m2[n]]]
  BY Zenon
<1>5. Picks(m, k, l, K)
  <2>1. /\ m2 \in [DOMAIN k -> K2] /\ \A n \in DOMAIN k : k[n] = l1[m2[n]]
        /\ \A a, b \in DOMAIN k : a < b => m2[a] < m2[b]
        /\ \A i \in K2 : \E n \in DOMAIN k : m2[n] = i
    BY Zenon, <1>2, <1>4 DEF Picks
  <2>2. /\ m1 \in [DOMAIN l1 -> K1] /\ \A n \in DOMAIN l1 : l1[n] = l[m1[n]]
        /\ \A a, b \in DOMAIN l1 : a < b => m1[a] < m1[b]
    BY Zenon, <1>2, <1>4 DEF Picks
  <2>3. \A n \in DOMAIN k : m2[n] \in K2 /\ m2[n] \in DOMAIN l1 /\ m[n] = m1[m2[n]]
    BY Zenon, <1>4, <2>1
  <2>4. m \in [DOMAIN k -> K]
    BY Zenon, <2>3
  <2>5. \A n \in DOMAIN k : k[n] = l[m[n]]
    BY Zenon, <2>1, <2>2, <2>3
  <2>6. \A a, b \in DOMAIN k : a < b => m[a] < m[b]
    BY Zenon, <2>1, <2>2, <2>3
  <2>7. ASSUME NEW i \in K PROVE \E n \in DOMAIN k : m[n] = i
    <3>1. PICK j \in K2 : i = m1[j]
      BY Zenon
    <3>2. PICK n \in DOMAIN k : m2[n] = j
      BY Zenon, <2>1
    <3>3. m[n] = i
      BY Zenon, <2>3, <3>1, <3>2
    <3>4. QED
      BY Zenon, <3>3
  <2>8. QED
    BY Zenon, <2>4, <2>5, <2>6, <2>7 DEF Picks
<1>6. K \subseteq DOMAIN l
  BY Zenon, <1>2, <1>4 DEF Picks
<1>7. ASSUME NEW i \in DOMAIN l \ K PROVE Droppable(l, i)
  <2>1. CASE i \notin K1
    BY Zenon, <1>2, <1>7, <2>1
  <2>2. CASE i \in K1
    <3>1. PICK n \in DOMAIN l1 : m1[n] = i
      BY Zenon, <1>2, <2>2 DEF Picks
    <3>2. n \notin K2
      BY Zenon, <1>7, <3>1
    <3>3. Droppable(l1, n)
      BY Zenon, <1>4, <3>2
    <3>4. Droppable(l, m1[n])
      BY Zenon, <1>1, <1>2, <3>3, DroppableBefore
    <3>5. QED
      BY Zenon, <3>1, <3>4
  <2>3. QED
    BY Zenon, <2>1, <2>2
<1>8. Refreshed(k, l, K, m)
  BY Zenon, <1>5, <1>6, <1>7 DEF Refreshed
<1>9. QED
  BY Zenon, <1>3, <1>8 DEF k, l1

\* refresh leaves every job in progress and the newest that ended (refresh of both lists).
LEMMA RefreshLeaves ==
    ASSUME NEW S, NEW l \in Seq(S), NEW k, k \in refreshBackups(l) \/ k = refreshHashes(l)
    PROVE  k \in Seq(S) /\ \E K, m : Refreshed(k, l, K, m)
<1>1. "complete" \in Ended /\ "error" \in Ended
  BY Zenon, EndedStates
<1>2. \/ k = purgePartialRetained(purgePartialRetained(l, "complete"), "error")
      \/ k = purgePartialRetained(purgePartialRetained(l, "error"), "complete")
  BY Zenon DEF refreshBackups, refreshHashes
<1>3. PICK s \in Ended, t \in Ended : k = purgePartialRetained(purgePartialRetained(l, s), t)
  BY Zenon, <1>1, <1>2
<1>4. QED
  BY ONLY Zenon, l \in Seq(S), <1>3, TwoPurges

\* The removal of a name leaves the other elements, and none of the name if it was listed
\* once (BackupDelete, Add).
LEMMA WithoutPicks ==
    ASSUME NEW S, NEW l \in Seq(S), NEW name
    PROVE  /\ Without(l, name) \in Seq(S)
           /\ \E K, m : /\ K \subseteq DOMAIN l /\ Picks(m, Without(l, name), l, K)
                        /\ \A i \in DOMAIN l \ K : l[i].name = name
                        /\ UniqueNames(l) => \A i \in K : l[i].name # name
<1> DEFINE K == {i \in DOMAIN l : l[i].name = name => \E j \in 1..(i - 1) : l[j].name = name}
<1>1. Without(l, name) = Kept(l, K) /\ K \subseteq DOMAIN l /\ \A i \in DOMAIN l \ K : l[i].name = name
  BY Zenon DEF Without
<1>2. ASSUME UniqueNames(l), NEW i \in K, l[i].name = name PROVE FALSE
  <2>1. PICK j \in 1..(i - 1) : l[j].name = name
    BY Zenon, <1>2
  <2>2. j \in DOMAIN l /\ j # i
    <3>1. i \in 1..Len(l) /\ DOMAIN l = 1..Len(l) /\ Len(l) \in Nat
      BY SMT
    <3>2. QED
      BY <3>1
  <2>3. QED
    BY Zenon, <1>2, <2>1, <2>2 DEF UniqueNames
<1> HIDE DEF K
<1>3. Kept(l, K) \in Seq(S) /\ \E m : Picks(m, Kept(l, K), l, K)
  BY Zenon, <1>1, KeptPicks
<1>4. QED
  BY Zenon, <1>1, <1>2, <1>3

\* A new element at the end of a list (append).
LEMMA AppendFacts ==
    ASSUME NEW S, NEW l \in Seq(S), NEW e \in S
    PROVE  /\ Append(l, e) \in Seq(S)
           /\ \A i \in DOMAIN l : i \in DOMAIN Append(l, e) /\ Append(l, e)[i] = l[i]
           /\ UniqueNames(l) /\ (\A i \in DOMAIN l : l[i].name # e.name) => UniqueNames(Append(l, e))
<1>1. /\ Append(l, e) \in Seq(S)
      /\ \A i \in DOMAIN l : i \in DOMAIN Append(l, e) /\ Append(l, e)[i] = l[i]
      /\ \A i \in DOMAIN Append(l, e) : i \in DOMAIN l \/ i = Len(l) + 1
      /\ Append(l, e)[Len(l) + 1] = e
  BY SMT
<1>2. ASSUME UniqueNames(l), \A i \in DOMAIN l : l[i].name # e.name PROVE UniqueNames(Append(l, e))
  BY Zenon, <1>1, <1>2 DEF UniqueNames
<1>3. QED
  BY Zenon, <1>1, <1>2

-----------------------------------------------------------------------------
Entry == [name : JobNames \cup {"none"}, job : Nat]

ListType ==
    /\ backups \in Seq(Entry) /\ hashJobs \in Seq(Entry)
    /\ adding \in [Adders -> Entry] /\ listPc \in [Adders -> {"idle", "append", "refresh"}]
    /\ jobAdds \in Nat /\ \A c \in Adders : adding[c].job <= jobAdds

\* A job added has a number of its own.
LEMMA NewEntry ==
    ASSUME ListType, NEW name \in JobNames
    PROVE  /\ [name |-> name, job |-> jobAdds + 1] \in Entry
           /\ [name |-> name, job |-> jobAdds + 1].name = name
           /\ [name |-> name, job |-> jobAdds + 1].job = jobAdds + 1
           /\ \A c \in Adders : adding[c] # [name |-> name, job |-> jobAdds + 1]
<1> DEFINE e == [name |-> name, job |-> jobAdds + 1]
<1>1. jobAdds \in Nat /\ jobAdds + 1 \in Nat
  BY SMT DEF ListType
<1>2. e \in Entry /\ e.name = name /\ e.job = jobAdds + 1
  BY Zenon, <1>1 DEF Entry
<1>3. ASSUME NEW c \in Adders PROVE adding[c].job # jobAdds + 1
  <2>1. adding[c].job \in Nat /\ adding[c].job <= jobAdds
    BY Zenon DEF ListType, Entry
  <2>2. QED
    BY <1>1, <2>1
<1>4. QED
  BY Zenon, <1>2, <1>3

\* The lists hold jobs, whatever is done to them.
LEMMA ListTypeStep == ASSUME ListType, [ListNext]_listVars PROVE ListType'
<1>1. ASSUME NEW c \in Adders, NEW n \in JobNames, BackupAdd(c, n) PROVE ListType'
  <2> DEFINE e == [name |-> n, job |-> jobAdds + 1]
  <2>1. /\ jobAdds' = jobAdds + 1 /\ adding' = [adding EXCEPT ![c] = e] /\ backups' = Without(backups, n)
        /\ listPc' = [listPc EXCEPT ![c] = "append"] /\ hashJobs' = hashJobs
    BY Zenon, <1>1 DEF BackupAdd
  <2>2. e \in Entry /\ e.job = jobAdds + 1
    BY Zenon, NewEntry
  <2> HIDE DEF e
  <2>3. backups' \in Seq(Entry) /\ hashJobs' \in Seq(Entry)
    BY Zenon, <2>1, WithoutPicks DEF ListType
  <2>4. adding' \in [Adders -> Entry] /\ listPc' \in [Adders -> {"idle", "append", "refresh"}]
    BY Zenon, <2>1, <2>2 DEF ListType
  <2>5. ASSUME NEW d \in Adders PROVE adding'[d].job <= jobAdds'
    <3>1. adding'[d] = (IF d = c THEN e ELSE adding[d])
      BY Zenon, <2>1 DEF ListType
    <3>2. jobAdds \in Nat /\ adding[d].job \in Nat /\ adding[d].job <= jobAdds
      BY Zenon DEF ListType, Entry
    <3>3. CASE d = c
      BY <2>1, <2>2, <3>1, <3>2, <3>3
    <3>4. CASE d # c
      BY <2>1, <3>1, <3>2, <3>4
    <3>5. QED
      BY Zenon, <3>3, <3>4
  <2>6. jobAdds' \in Nat
    BY <2>1 DEF ListType
  <2>7. QED
    BY Zenon, <2>3, <2>4, <2>5, <2>6 DEF ListType
<1>2. ASSUME NEW c \in Adders, BackupAppend(c) PROVE ListType'
  <2>1. /\ backups' = Append(backups, adding[c]) /\ listPc' = [listPc EXCEPT ![c] = "refresh"]
        /\ hashJobs' = hashJobs /\ adding' = adding /\ jobAdds' = jobAdds
    BY Zenon, <1>2 DEF BackupAppend
  <2>2. backups' \in Seq(Entry)
    BY Zenon, <2>1, AppendFacts DEF ListType
  <2>3. QED
    BY Zenon, <2>1, <2>2 DEF ListType
<1>3. ASSUME NEW c \in Adders, BackupRefresh(c) PROVE ListType'
  <2>1. /\ backups' \in refreshBackups(backups) /\ listPc' = [listPc EXCEPT ![c] = "idle"]
        /\ hashJobs' = hashJobs /\ adding' = adding /\ jobAdds' = jobAdds
    BY Zenon, <1>3 DEF BackupRefresh
  <2>2. backups' \in Seq(Entry)
    BY Zenon, <2>1, RefreshLeaves DEF ListType
  <2>3. QED
    BY Zenon, <2>1, <2>2 DEF ListType
<1>4. CASE BackupGet
  <2>1. backups' \in Seq(Entry)
    BY Zenon, <1>4, RefreshLeaves DEF ListType, BackupGet
  <2>2. QED
    BY Zenon, <1>4, <2>1 DEF ListType, BackupGet
<1>5. CASE Get
  <2>1. hashJobs' \in Seq(Entry)
    BY Zenon, <1>5, RefreshLeaves DEF ListType, Get
  <2>2. QED
    BY Zenon, <1>5, <2>1 DEF ListType, Get
<1>6. ASSUME NEW n \in JobNames, Add(n) PROVE ListType'
  <2> DEFINE e == [name |-> n, job |-> jobAdds + 1]
  <2>1. /\ hashJobs' = refreshHashes(Append(Without(hashJobs, n), e)) /\ jobAdds' = jobAdds + 1
        /\ backups' = backups /\ listPc' = listPc /\ adding' = adding
    BY Zenon, <1>6 DEF Add
  <2>2. e \in Entry
    BY Zenon, NewEntry
  <2> HIDE DEF e
  <2>3. Without(hashJobs, n) \in Seq(Entry)
    BY Zenon, WithoutPicks DEF ListType
  <2>4. Append(Without(hashJobs, n), e) \in Seq(Entry)
    BY Zenon, <2>2, <2>3, AppendFacts
  <2>5. hashJobs' \in Seq(Entry)
    BY Zenon, <2>1, <2>4, RefreshLeaves
  <2>6. ASSUME NEW d \in Adders PROVE adding'[d].job <= jobAdds'
    <3>1. jobAdds \in Nat /\ adding[d].job \in Nat /\ adding[d].job <= jobAdds /\ adding'[d] = adding[d]
      BY Zenon, <2>1 DEF ListType, Entry
    <3>2. QED
      BY <2>1, <3>1
  <2>7. jobAdds' \in Nat
    BY <2>1 DEF ListType
  <2>8. QED
    BY Zenon, <2>1, <2>5, <2>6, <2>7 DEF ListType
<1>7. ASSUME NEW j \in 1..jobAdds, Finish(j) PROVE ListType'
  BY Zenon, <1>7 DEF Finish, ListType
<1>8. CASE UNCHANGED listVars
  BY Zenon, <1>8 DEF listVars, ListType
<1>9. QED
  BY Zenon, <1>1, <1>2, <1>3, <1>4, <1>5, <1>6, <1>7, <1>8 DEF ListNext

-----------------------------------------------------------------------------
\* A list and its successor in a step, when jobs were dropped by a refresh only.
LEMMA RefreshKeeps ==
    ASSUME NEW S, NEW l \in Seq(S), NEW k, NEW K, NEW m, Refreshed(k, l, K, m), NEW i \in DOMAIN l
    PROVE  l[i].job \in JobsOf(k) \/ Droppable(l, i)
<1>1. CASE i \in K
  <2>1. Picks(m, k, l, K)
    BY Zenon DEF Refreshed
  <2>2. PICK n \in DOMAIN k : m[n] = i
    BY Zenon, <1>1, <2>1 DEF Picks
  <2>3. k[n] = l[i]
    BY Zenon, <2>1, <2>2 DEF Picks
  <2>4. QED
    BY Zenon, <2>3 DEF JobsOf
<1>2. CASE i \notin K
  BY Zenon, <1>2 DEF Refreshed
<1>3. QED
  BY Zenon, <1>1, <1>2

\* What a step may do to the job at place i of the list of backups: keep it, replace it,
\* or drop it when it is old enough.
BackupStep(i) ==
    \/ backups[i].job \in JobsOf(backups')
    \/ \E c \in Adders : adding'[c] # adding[c] /\ adding'[c].name = backups[i].name
    \/ Droppable(backups, i)

HashStep(i) == hashJobs[i].job \in JobsOf(hashJobs') \/ Job(hashJobs[i]) \in Ended

\* No step does more to a backup (BackupAdd, refresh, BackupGet).
LEMMA BackupsKept == ASSUME ListType, [ListNext]_listVars, NEW i \in DOMAIN backups PROVE BackupStep(i)
<1>0. backups \in Seq(Entry)
  BY Zenon DEF ListType
<1>1. ASSUME NEW c \in Adders, NEW n \in JobNames, BackupAdd(c, n) PROVE BackupStep(i)
  <2> DEFINE e == [name |-> n, job |-> jobAdds + 1]
  <2>1. adding' = [adding EXCEPT ![c] = e] /\ backups' = Without(backups, n)
    BY Zenon, <1>1 DEF BackupAdd
  <2>2. e.name = n /\ adding[c] # e
    BY Zenon, NewEntry
  <2> HIDE DEF e
  <2>3. adding'[c] = e
    BY Zenon, <2>1 DEF ListType
  <2>4. PICK K, m : Picks(m, backups', backups, K) /\ \A j \in DOMAIN backups \ K : backups[j].name = n
    BY Zenon, <1>0, <2>1, WithoutPicks
  <2>5. CASE i \in K
    <3>0. PICK p \in DOMAIN backups' : m[p] = i
      BY Zenon, <2>4, <2>5 DEF Picks
    <3>1. backups'[p] = backups[i]
      BY Zenon, <2>4, <3>0 DEF Picks
    <3>2. QED
      BY Zenon, <3>1 DEF JobsOf, BackupStep
  <2>6. CASE i \notin K
    BY Zenon, <2>2, <2>3, <2>4, <2>6 DEF BackupStep
  <2>7. QED
    BY Zenon, <2>5, <2>6
<1>2. ASSUME NEW c \in Adders, BackupAppend(c) PROVE BackupStep(i)
  <2>1. backups' = Append(backups, adding[c]) /\ adding[c] \in Entry
    BY Zenon, <1>2 DEF BackupAppend, ListType
  <2>2. i \in DOMAIN backups' /\ backups'[i] = backups[i]
    BY <1>0, <2>1
  <2>3. QED
    BY Zenon, <2>2 DEF JobsOf, BackupStep
<1>3. ASSUME backups' \in refreshBackups(backups) PROVE BackupStep(i)
  <2>1. PICK K, m : Refreshed(backups', backups, K, m)
    BY Zenon, <1>0, <1>3, RefreshLeaves
  <2>2. backups[i].job \in JobsOf(backups') \/ Droppable(backups, i)
    BY Zenon, <1>0, <2>1, RefreshKeeps
  <2>3. QED
    BY Zenon, <2>2 DEF BackupStep
<1>4. ASSUME backups' = backups PROVE BackupStep(i)
  BY Zenon, <1>4 DEF JobsOf, BackupStep
<1>5. QED
  BY Zenon, <1>1, <1>2, <1>3, <1>4 DEF ListNext, listVars, BackupRefresh, BackupGet, Get, Add, Finish

\* No step drops a hashing in progress (Add, refresh, Get).
LEMMA HashJobsKept == ASSUME ListType, [ListNext]_listVars, NEW i \in DOMAIN hashJobs PROVE HashStep(i)
<1>0. hashJobs \in Seq(Entry)
  BY Zenon DEF ListType
<1>1. ASSUME NEW n \in JobNames, Add(n) PROVE HashStep(i)
  <2> DEFINE e == [name |-> n, job |-> jobAdds + 1]
  <2> DEFINE w == Without(hashJobs, n)
  <2> DEFINE a == Append(w, e)
  <2>1. /\ hashJobs' = refreshHashes(a) /\ jobState' = jobState
        /\ \A j \in DOMAIN hashJobs : hashJobs[j].name = n => Job(hashJobs[j]) \in Ended
    BY Zenon, <1>1 DEF Add
  <2>2. e \in Entry
    BY Zenon, NewEntry
  <2> HIDE DEF e
  <2>3. w \in Seq(Entry)
    BY Zenon, <1>0, WithoutPicks
  <2>4. PICK K, m : Picks(m, w, hashJobs, K) /\ \A j \in DOMAIN hashJobs \ K : hashJobs[j].name = n
    BY Zenon, <1>0, WithoutPicks
  <2> HIDE DEF w
  <2>5. a \in Seq(Entry) /\ \A p \in DOMAIN w : p \in DOMAIN a /\ a[p] = w[p]
    BY <2>2, <2>3
  <2> HIDE DEF a
  <2>6. CASE i \notin K
    BY Zenon, <2>1, <2>4, <2>6 DEF HashStep
  <2>7. CASE i \in K
    <3>0. PICK p \in DOMAIN w : m[p] = i
      BY Zenon, <2>4, <2>7 DEF Picks
    <3>1. w[p] = hashJobs[i]
      BY Zenon, <2>4, <3>0 DEF Picks
    <3>2. p \in DOMAIN a /\ a[p] = hashJobs[i]
      BY Zenon, <2>5, <3>1
    <3>3. PICK L, q : Refreshed(hashJobs', a, L, q)
      BY Zenon, <2>1, <2>5, RefreshLeaves
    <3>4. a[p].job \in JobsOf(hashJobs') \/ Droppable(a, p)
      BY Zenon, <2>5, <3>2, <3>3, RefreshKeeps
    <3>5. QED
      BY Zenon, <3>2, <3>4 DEF HashStep, Droppable
  <2>8. QED
    BY Zenon, <2>6, <2>7
<1>2. CASE Get
  <2>1. hashJobs' = refreshHashes(hashJobs)
    BY Zenon, <1>2 DEF Get
  <2>2. PICK K, m : Refreshed(hashJobs', hashJobs, K, m)
    BY Zenon, <1>0, <2>1, RefreshLeaves
  <2>3. hashJobs[i].job \in JobsOf(hashJobs') \/ Droppable(hashJobs, i)
    BY Zenon, <1>0, <2>2, RefreshKeeps
  <2>4. QED
    BY Zenon, <2>3 DEF HashStep, Droppable
<1>3. ASSUME hashJobs' = hashJobs PROVE HashStep(i)
  BY Zenon, <1>3 DEF JobsOf, HashStep
<1>4. QED
  BY Zenon, <1>1, <1>2, <1>3
     DEF ListNext, listVars, BackupAdd, BackupAppend, BackupRefresh, BackupGet, Finish

\* The lists keep their types.
THEOREM ListTypeInvariance == ListSpec => []ListType
<1>1. ListInit => ListType
  <2> SUFFICES ASSUME ListInit PROVE ListType
    BY Zenon
  <2> DEFINE none == [name |-> "none", job |-> 0]
  <2>1. none \in Entry /\ none.job = 0 /\ 0 \in Nat /\ 0 <= 0
    <3>1. 0 \in Nat /\ 0 <= 0
      BY SMT
    <3>2. QED
      BY Zenon, <3>1 DEF Entry
  <2>2. <<>> \in Seq(Entry)
    BY SMT
  <2>3. /\ backups = <<>> /\ hashJobs = <<>> /\ jobAdds = 0 /\ listPc = [c \in Adders |-> "idle"]
        /\ adding = [c \in Adders |-> none]
    BY Zenon DEF ListInit
  <2> HIDE DEF none
  <2>4. \A c \in Adders : adding[c] = none
    BY Zenon, <2>3
  <2>5. adding \in [Adders -> Entry]
    BY Zenon, <2>1, <2>3
  <2>6. QED
    BY Zenon, <2>1, <2>2, <2>3, <2>4, <2>5 DEF ListType
<1>2. QED
  BY <1>1, ListTypeStep, PTL DEF ListSpec

\* A job in progress stays in its list until another one is added under its name, and of
\* the backups that ended only those go that are replaced or have as many newer ones as
\* are retained, for every number of goroutines, names and jobs (refresh, BackupAdd, Add).
THEOREM JobsAreKept == ListSpec => JobsKept
<1> DEFINE Running ==
      /\ \A i \in DOMAIN hashJobs : Job(hashJobs[i]) = "in_progress" => hashJobs[i].job \in JobsOf(hashJobs')
      /\ \A i \in DOMAIN backups : Job(backups[i]) = "in_progress" =>
            \/ backups[i].job \in JobsOf(backups')
            \/ \E c \in Adders : adding'[c] # adding[c] /\ adding'[c].name = backups[i].name
<1> DEFINE Recent ==
      \A i \in DOMAIN backups :
         /\ Job(backups[i]) \in Ended /\ backups[i].job \notin JobsOf(backups')
         => \/ \E c \in Adders : adding'[c] # adding[c] /\ adding'[c].name = backups[i].name
            \/ Cardinality({k \in Places(backups, Job(backups[i])) : k > i}) >= Retained[Job(backups[i])]
<1>1. ListType /\ [ListNext]_listVars => Running /\ Recent
  <2> SUFFICES ASSUME ListType, [ListNext]_listVars PROVE Running /\ Recent
    BY Zenon
  <2>1. "in_progress" \notin Ended
    BY Zenon, EndedStates
  <2>2. Running
    BY Zenon, <2>1, BackupsKept, HashJobsKept DEF BackupStep, HashStep, Droppable
  <2>3. Recent
    BY Zenon, BackupsKept DEF BackupStep, Droppable, Newer
  <2>4. QED
    BY Zenon, <2>2, <2>3
<1>2. QED
  BY <1>1, ListTypeInvariance, PTL DEF ListSpec, JobsKept, RunningKept, RecentKept

-----------------------------------------------------------------------------
\* A job that is about to be appended is not listed yet: with one goroutine in BackupAdd
\* nobody appends between its deletion and its append.
NotListed == \A c \in Adders : listPc[c] = "append" => \A i \in DOMAIN backups : backups[i].name # adding[c].name

NameInv == ListType /\ UniqueNames(backups) /\ UniqueNames(hashJobs) /\ NotListed

\* A refresh lists no name again.
LEMMA RefreshUnique ==
    ASSUME NEW S, NEW l \in Seq(S), NEW k, k \in refreshBackups(l) \/ k = refreshHashes(l), UniqueNames(l)
    PROVE  UniqueNames(k)
<1>1. k \in Seq(S)
  BY Zenon, RefreshLeaves
<1>2. PICK K, m : Refreshed(k, l, K, m)
  BY Zenon, RefreshLeaves
<1>3. K \subseteq DOMAIN l /\ Picks(m, k, l, K)
  BY Zenon, <1>2 DEF Refreshed
<1>4. QED
  BY Zenon, <1>1, <1>3, PicksUnique

\* The removal of a name from a list without duplicates.
LEMMA WithoutUnique ==
    ASSUME NEW S, NEW l \in Seq(S), NEW name, UniqueNames(l)
    PROVE  UniqueNames(Without(l, name)) /\ \A n \in DOMAIN Without(l, name) : Without(l, name)[n].name # name
<1>1. PICK K, m : /\ K \subseteq DOMAIN l /\ Picks(m, Without(l, name), l, K)
                  /\ \A i \in K : l[i].name # name
  BY Zenon, WithoutPicks
<1>2. Without(l, name) \in Seq(S)
  BY Zenon, WithoutPicks
<1>3. UniqueNames(Without(l, name))
  BY Zenon, <1>1, <1>2, PicksUnique
<1>4. \A n \in DOMAIN Without(l, name) : Without(l, name)[n].name # name
  <2>1. ASSUME NEW n \in DOMAIN Without(l, name)
        PROVE  m[n] \in K /\ Without(l, name)[n] = l[m[n]]
    BY Zenon, <1>1 DEF Picks
  <2>2. QED
    BY Zenon, <1>1, <2>1
<1>5. QED
  BY Zenon, <1>3, <1>4

\* One goroutine in BackupAdd, and any number in Add, list a name once.
LEMMA NameInvStep ==
    ASSUME NameInv, \A c, d \in Adders : c = d, [ListNext]_listVars
    PROVE  NameInv'
<1>0. /\ ListType /\ backups \in Seq(Entry) /\ hashJobs \in Seq(Entry)
      /\ UniqueNames(backups) /\ UniqueNames(hashJobs) /\ NotListed
  BY Zenon DEF NameInv, ListType
<1>1. ListType'
  BY Zenon, <1>0, ListTypeStep
<1>2. ASSUME NEW c \in Adders, NEW n \in JobNames, BackupAdd(c, n) PROVE NameInv'
  <2> DEFINE e == [name |-> n, job |-> jobAdds + 1]
  <2>1. /\ adding' = [adding EXCEPT ![c] = e] /\ backups' = Without(backups, n) /\ hashJobs' = hashJobs
    BY Zenon, <1>2 DEF BackupAdd
  <2>2. e.name = n
    BY Zenon, <1>0, NewEntry
  <2> HIDE DEF e
  <2>3. UniqueNames(backups') /\ \A i \in DOMAIN backups' : backups'[i].name # n
    BY Zenon, <1>0, <2>1, WithoutUnique
  <2>4. adding'[c].name = n
    BY Zenon, <1>0, <2>1, <2>2 DEF ListType
  <2>5. NotListed'
    BY Zenon, <2>3, <2>4 DEF NotListed
  <2>6. QED
    BY Zenon, <1>0, <1>1, <2>1, <2>3, <2>5 DEF NameInv
<1>3. ASSUME NEW c \in Adders, BackupAppend(c) PROVE NameInv'
  <2>1. /\ backups' = Append(backups, adding[c]) /\ hashJobs' = hashJobs /\ adding[c] \in Entry
        /\ listPc' = [listPc EXCEPT ![c] = "refresh"] /\ listPc[c] = "append"
    BY Zenon, <1>0, <1>3 DEF BackupAppend, ListType
  <2>2. \A i \in DOMAIN backups : backups[i].name # adding[c].name
    BY Zenon, <1>0, <2>1 DEF NotListed
  <2>3. UniqueNames(backups')
    BY Zenon, <1>0, <2>1, <2>2, AppendFacts
  <2>4. \A d \in Adders : listPc'[d] = "refresh"
    BY Zenon, <1>0, <2>1 DEF ListType
  <2>5. QED
    BY Zenon, <1>0, <1>1, <2>1, <2>3, <2>4 DEF NameInv, NotListed
<1>4. ASSUME NEW c \in Adders, BackupRefresh(c) PROVE NameInv'
  <2>1. /\ backups' \in refreshBackups(backups) /\ hashJobs' = hashJobs
        /\ listPc' = [listPc EXCEPT ![c] = "idle"]
    BY Zenon, <1>4 DEF BackupRefresh
  <2>2. UniqueNames(backups')
    BY Zenon, <1>0, <2>1, RefreshUnique
  <2>3. \A d \in Adders : listPc'[d] = "idle"
    BY Zenon, <1>0, <2>1 DEF ListType
  <2>4. QED
    BY Zenon, <1>0, <1>1, <2>1, <2>2, <2>3 DEF NameInv, NotListed
<1>5. CASE BackupGet
  <2>1. backups' \in refreshBackups(backups) /\ hashJobs' = hashJobs /\ listPc' = listPc /\ adding' = adding
    BY Zenon, <1>5 DEF BackupGet
  <2>2. UniqueNames(backups')
    BY Zenon, <1>0, <2>1, RefreshUnique
  <2>3. NotListed'
    <3>1. PICK K, m : Refreshed(backups', backups, K, m)
      BY Zenon, <1>0, <2>1, RefreshLeaves
    <3>2. \A n \in DOMAIN backups' : \E i \in DOMAIN backups : backups'[n] = backups[i]
      BY Zenon, <3>1 DEF Refreshed, Picks
    <3>3. QED
      BY Zenon, <1>0, <2>1, <3>2 DEF NotListed
  <2>4. QED
    BY Zenon, <1>0, <1>1, <2>1, <2>2, <2>3 DEF NameInv
<1>6. CASE Get
  <2>1. hashJobs' = refreshHashes(hashJobs) /\ backups' = backups /\ listPc' = listPc /\ adding' = adding
    BY Zenon, <1>6 DEF Get
  <2>2. UniqueNames(hashJobs')
    BY Zenon, <1>0, <2>1, RefreshUnique
  <2>3. QED
    BY Zenon, <1>0, <1>1, <2>1, <2>2 DEF NameInv, NotListed
<1>7. ASSUME NEW n \in JobNames, Add(n) PROVE NameInv'
  <2> DEFINE e == [name |-> n, job |-> jobAdds + 1]
  <2> DEFINE w == Without(hashJobs, n)
  <2> DEFINE a == Append(w, e)
  <2>1. hashJobs' = refreshHashes(a) /\ backups' = backups /\ listPc' = listPc /\ adding' = adding
    BY Zenon, <1>7 DEF Add
  <2>2. e \in Entry /\ e.name = n
    BY Zenon, <1>0, NewEntry
  <2> HIDE DEF e
  <2>3. w \in Seq(Entry) /\ UniqueNames(w) /\ \A i \in DOMAIN w : w[i].name # n
    BY Zenon, <1>0, WithoutPicks, WithoutUnique
  <2> HIDE DEF w
  <2>4. a \in Seq(Entry) /\ UniqueNames(a)
    BY Zenon, <2>2, <2>3, AppendFacts
  <2> HIDE DEF a
  <2>5. UniqueNames(hashJobs')
    BY Zenon, <2>1, <2>4, RefreshUnique
  <2>6. QED
    BY Zenon, <1>0, <1>1, <2>1, <2>5 DEF NameInv, NotListed
<1>8. ASSUME backups' = backups, hashJobs' = hashJobs, listPc' = listPc, adding' = adding PROVE NameInv'
  BY Zenon, <1>0, <1>1, <1>8 DEF NameInv, NotListed
<1>9. QED
  BY Zenon, <1>2, <1>3, <1>4, <1>5, <1>6, <1>7, <1>8 DEF ListNext, listVars, Finish

\* "If a record already exists, remove it before adding the new one": with one goroutine
\* at a time in BackupAdd, no list has a name twice (BackupAdd, Add, refresh).
THEOREM NamesListedOnce == ASSUME \A c, d \in Adders : c = d PROVE ListSpec => []NamesUnique
<1>1. ListInit /\ ListType => NameInv
  <2> SUFFICES ASSUME ListInit, ListType PROVE NameInv
    BY Zenon
  <2>1. backups = <<>> /\ hashJobs = <<>>
    BY Zenon DEF ListInit
  <2>2. DOMAIN backups = {} /\ DOMAIN hashJobs = {}
    BY <2>1
  <2>3. QED
    BY Zenon, <2>2 DEF NameInv, UniqueNames, NotListed
<1>2. NameInv /\ [ListNext]_listVars => NameInv'
  BY Zenon, NameInvStep
<1>3. NameInv => NamesUnique
  BY Zenon DEF NameInv, UniqueNames, NamesUnique
<1>4. QED
  BY <1>1, <1>2, <1>3, ListTypeInvariance, PTL DEF ListSpec
=============================================================================
