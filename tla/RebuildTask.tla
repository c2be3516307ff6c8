---------------------------- MODULE RebuildTask ----------------------------
(***************************************************************************)
(* Rebuilding a replica file by file while other tasks delete and purge    *)
(* snapshots: the tasks of pkg/sync/sync.go, which ask the replicas first  *)
(* and call them later, the file transfer of the sync agent                *)
(* (pkg/sync/rpc/server.go) and the two calls of the controller that begin *)
(* and end a rebuild (pkg/controller/rebuild.go).                          *)
(*                                                                         *)
(* The chain is snapshot 1, snapshot 2, volume head; nothing is written,   *)
(* so that the heads and the snapshot AddReplica takes hold no block.  The *)
(* module Controller has the rebuild under I/O, with one file per replica, *)
(* and SnapshotPurge has every step of a purge.                            *)
(***************************************************************************)
EXTENDS Integers, Sequences

CONSTANTS Sources, Target,
          MaxAdds, MaxPurges, MaxTaskFaults,
          Race     \* whether what a task has asked may have changed when it acts on it

ASSUME TaskAssumption == Target \notin Sources /\ Race \in BOOLEAN

Addresses == Sources \cup {Target}
Disks == 1..2
Blocks == 1..2
Written(d) == IF d = 1 THEN <<1, 1>> ELSE <<2, 0>>     \* the blocks each snapshot holds, 0 where it has none
NoImg == <<-1, -1>>                                    \* no image file
NoMeta == -1                                           \* no metafile

VARIABLES
    mode,            \* of each replica in the controller: RW, WO, or out
    img,             \* the image files of each replica
    metaParent, removed, \* the two entries of its metafiles
    loaded,          \* the disks it has loaded
    head,            \* the parent in the metafile of its volume head
    flag,            \* Rebuilding in its volume.meta
    sync,            \* FilesSync of the target's agent: the list of files, and how many are copied
    purging,         \* isPurging of its agent, and how far: "no", "fold", "replace"
    add,             \* AddReplica: [pc, from, list]
    purge,           \* PurgeSnapshots: the replicas it is still to call
    del,             \* DeleteSnapshot of snapshot 1: the same
    adds, purges, taskFaults

metas == <<metaParent, removed>>
files == <<img, metas, loaded, head>>
agents == <<sync, purging>>
tasks == <<add, purge, del>>
counts == <<adds, purges, taskFaults>>
taskVars == <<mode, files, flag, agents, tasks, counts>>

RW == {r \in Addresses : mode[r] = "RW"}
Listed == {r \in Addresses : mode[r] # "out"}
NoAdd == [pc |-> "idle", from |-> Target, list |-> <<>>]

TaskFault == taskFaults < MaxTaskFaults /\ taskFaults' = taskFaults + 1
To(l) == add' = [add EXCEPT !.pc = l]
At(l) == add.pc = l

\* The disks from the volume head down, and whether their files are there.
Chain(r) ==
    LET d == head[r]  below == IF d = 0 \/ metaParent[r][d] = NoMeta THEN 0 ELSE metaParent[r][d] IN
    {d, below} \ {0}

Opens(r) == \A d \in Chain(r) : img[r][d] # NoImg /\ metaParent[r][d] # NoMeta

\* A block is read from the newest disk that holds it.
Read(r, b) ==
    IF 2 \in Chain(r) /\ img[r][2][b] # 0 THEN img[r][2][b]
    ELSE IF 1 \in Chain(r) THEN img[r][1][b] ELSE 0

-----------------------------------------------------------------------------
\* DeleteSnapshot and PurgeSnapshots ask every replica whether it is rebuilding.
NoneRebuilding == \A r \in Listed : ~flag[r]

DeleteSnapshot ==
    /\ del = {} /\ 1 \in loaded[CHOOSE r \in RW : TRUE]
    /\ NoneRebuilding
    /\ del' = Listed
    /\ UNCHANGED <<mode, files, flag, agents, add, purge, counts>>

\* markSnapshotAsRemoved is for replicas in mode RW, and the first failure ends the task.
markSnapshotAsRemoved(r) ==
    /\ r \in del
    /\ IF mode[r] # "RW" \/ 1 \notin loaded[r] THEN del' = {} /\ UNCHANGED removed
       ELSE del' = del \ {r} /\ removed' = [removed EXCEPT ![r][1] = TRUE]
    /\ UNCHANGED <<mode, img, metaParent, loaded, head, flag, agents, add, purge, counts>>

PurgeSnapshots ==
    /\ purge = {} /\ purges < MaxPurges /\ purges' = purges + 1
    /\ NoneRebuilding /\ \A r \in Listed : purging[r] = "no"
    /\ purge' = Listed
    /\ UNCHANGED <<mode, files, flag, agents, add, del, adds, taskFaults>>

\* The call to one agent: PreparePurge, then a purge that folds snapshot 2 into a removed
\* snapshot 1 and lets the result replace snapshot 2.
MayPurge(r) ==
    /\ purging[r] = "no" /\ mode[r] # "out"
    /\ {1, 2} \subseteq loaded[r] /\ metaParent[r][1] # NoMeta /\ removed[r][1]

PreparePurge(r) ==
    /\ r \in purge /\ purge' = purge \ {r}
    /\ Race \/ NoneRebuilding
    /\ \/ MayPurge(r) /\ purging' = [purging EXCEPT ![r] = "fold"] /\ UNCHANGED taskFaults
       \/ ~MayPurge(r) /\ UNCHANGED <<purging, taskFaults>>
       \/ TaskFault /\ UNCHANGED purging
    /\ UNCHANGED <<mode, files, flag, sync, add, del, adds, purges>>

FoldedImage(r) == [b \in Blocks |-> IF img[r][2][b] # 0 THEN img[r][2][b] ELSE img[r][1][b]]

Fold(r) ==
    /\ purging[r] = "fold"
    /\ IF img[r][1] = NoImg \/ img[r][2] = NoImg THEN UNCHANGED img /\ purging' = [purging EXCEPT ![r] = "no"]
       ELSE img' = [img EXCEPT ![r][1] = FoldedImage(r)] /\ purging' = [purging EXCEPT ![r] = "replace"]
    /\ UNCHANGED <<mode, metas, loaded, head, flag, sync, tasks, counts>>

ReplaceDisk(r) ==
    /\ purging[r] = "replace"
    /\ purging' = [purging EXCEPT ![r] = "no"]
    /\ IF img[r][1] = NoImg \/ metaParent[r][2] = NoMeta THEN UNCHANGED <<img, metas, loaded>>
       ELSE /\ img' = [img EXCEPT ![r] = [d \in Disks |-> IF d = 1 THEN NoImg ELSE img[r][1]]]
            /\ metaParent' = [metaParent EXCEPT ![r] = [d \in Disks |-> IF d = 1 THEN NoMeta ELSE 0]]
            /\ removed' = [removed EXCEPT ![r][1] = FALSE]
            /\ loaded' = [loaded EXCEPT ![r] = @ \ {1}]
    /\ UNCHANGED <<mode, head, flag, sync, tasks, counts>>

-----------------------------------------------------------------------------
\* AddReplica.  checkAndResetFailedRebuild clears the flag a failed rebuild left.
checkAndResetFailedRebuild ==
    /\ At("idle") /\ mode[Target] = "out" /\ adds < MaxAdds /\ adds' = adds + 1
    /\ flag' = [flag EXCEPT ![Target] = FALSE]
    /\ To("create")
    /\ UNCHANGED <<mode, files, agents, purge, del, purges, taskFaults>>

\* ReplicaCreate opens the replica, which fails when its chain is broken.
ReplicaCreate ==
    /\ At("create")
    /\ Opens(Target)
    /\ mode' = [mode EXCEPT ![Target] = "WO"]
    /\ loaded' = [loaded EXCEPT ![Target] = {d \in Disks : metaParent[Target][d] # NoMeta}]
    /\ To("transfer")
    /\ UNCHANGED <<img, metas, head, flag, agents, purge, del, counts>>

\* getTransferClients: the first replica in mode RW that is not purging.
getTransferClients(r) ==
    /\ At("transfer") /\ r \in RW /\ purging[r] = "no"
    /\ add' = [add EXCEPT !.pc = "flag", !.from = r]
    /\ UNCHANGED <<mode, files, flag, agents, purge, del, counts>>

SetRebuilding ==
    /\ At("flag")
    /\ Race \/ (purge = {} /\ del = {} /\ purging[add.from] = "no")
    /\ flag' = [flag EXCEPT ![Target] = TRUE]
    /\ To("prepare")
    /\ UNCHANGED <<mode, files, agents, purge, del, counts>>

File(d, p) == [disk |-> d, part |-> p]
Files(d) == <<File(d, "img"), File(d, "meta")>>
AllFiles(d, e) == <<File(d, "img"), File(d, "meta"), File(e, "img"), File(e, "meta")>>

SyncLists(ds) == IF ds = Disks THEN {AllFiles(1, 2), AllFiles(2, 1)} ELSE {Files(d) : d \in ds}

PrepareRebuildReplica(r) ==
    /\ At("prepare") /\ r \in RW
    /\ \E l \in SyncLists(loaded[r]) : add' = [add EXCEPT !.pc = "sync", !.list = l]
    /\ head' = [head EXCEPT ![Target] = head[r]]
    /\ loaded' = [loaded EXCEPT ![Target] = @ \cap loaded[r]]
    /\ LET extra == loaded[Target] \ loaded[r]
           cut(fs, no) == [d \in Disks |-> IF d \in extra THEN no ELSE fs[d]]
       IN  /\ img' = [img EXCEPT ![Target] = cut(img[Target], NoImg)]
           /\ metaParent' = [metaParent EXCEPT ![Target] = cut(metaParent[Target], NoMeta)]
           /\ removed' = [removed EXCEPT ![Target] = cut(removed[Target], FALSE)]
    /\ UNCHANGED <<mode, flag, agents, purge, del, counts>>

\* SyncFiles, with PrepareRebuild of the target's agent.
PrepareRebuild ==
    /\ At("sync") /\ purging[Target] = "no" /\ sync.state # "in_progress"
    /\ \E l \in BOOLEAN :
        sync' = [state |-> "in_progress", from |-> add.from, list |-> add.list, copied |-> 0, local |-> l]
    /\ To("files")
    /\ UNCHANGED <<mode, files, flag, purging, purge, del, counts>>

\* FilesSync copies the files in the order of the list, on this host or from the source.
AllCopied == sync.copied = Len(sync.list)
NextFile == sync.list[sync.copied + 1]
Missing(f) == IF f.part = "img" THEN img[sync.from][f.disk] = NoImg ELSE metaParent[sync.from][f.disk] = NoMeta

FileSync ==
    /\ sync.state = "in_progress" /\ ~AllCopied
    /\ LET d == NextFile.disk IN
       /\ ~Missing(NextFile)
       /\ IF NextFile.part = "img"
          THEN img' = [img EXCEPT ![Target][d] = img[sync.from][d]] /\ UNCHANGED metas
          ELSE /\ metaParent' = [metaParent EXCEPT ![Target][d] = metaParent[sync.from][d]]
               /\ removed' = [removed EXCEPT ![Target][d] = removed[sync.from][d]]
               /\ UNCHANGED img
    /\ sync' = [sync EXCEPT !.copied = @ + 1]
    /\ UNCHANGED <<mode, loaded, head, flag, purging, tasks, counts>>

\* A file cannot be sent: it is not there, or the transfer fails.
SendFails == ~AllCopied /\ ((Missing(NextFile) /\ UNCHANGED taskFaults) \/ TaskFault)

\* fileSyncLocal removes what it copied, unless only the sizes differed, and all is copied
\* again from the source.
FallBack ==
    /\ sync.state = "in_progress" /\ sync.local /\ SendFails
    /\ sync' = [sync EXCEPT !.local = FALSE, !.copied = 0]
    /\ LET done == {sync.list[i].disk : i \in 1..sync.copied}
           cut(fs, no) == [d \in Disks |-> IF d \in done THEN no ELSE fs[d]]
       IN \/ /\ img' = [img EXCEPT ![Target] = cut(img[Target], NoImg)]
             /\ metaParent' = [metaParent EXCEPT ![Target] = cut(metaParent[Target], NoMeta)]
             /\ removed' = [removed EXCEPT ![Target] = cut(removed[Target], FALSE)]
          \/ UNCHANGED <<img, metas>>
    /\ UNCHANGED <<mode, loaded, head, flag, purging, tasks, adds, purges>>

\* FinishRebuild, after the last file or after a file that cannot be sent.
FinishRebuild ==
    /\ sync.state = "in_progress"
    /\ \/ AllCopied /\ sync' = [sync EXCEPT !.state = "complete"] /\ UNCHANGED taskFaults
       \/ ~sync.local /\ SendFails /\ sync' = [sync EXCEPT !.state = "error"]
    /\ UNCHANGED <<mode, files, flag, purging, tasks, adds, purges>>

SyncFiles ==
    /\ At("files") /\ sync.state = "complete"
    /\ To("reload")
    /\ UNCHANGED <<mode, files, flag, agents, purge, del, counts>>

\* Mutant: whether the chain opens is not checked.
ReloadReplicaBlindly ==
    /\ At("reload")
    /\ loaded' = [loaded EXCEPT ![Target] = {d \in Disks : metaParent[Target][d] # NoMeta}]
    /\ To("verify")
    /\ UNCHANGED <<mode, img, metas, head, flag, agents, purge, del, counts>>

\* reloadAndVerify.
ReloadReplica ==
    /\ At("reload") /\ Opens(Target)
    /\ loaded' = [loaded EXCEPT ![Target] = {d \in Disks : metaParent[Target][d] # NoMeta}]
    /\ To("verify")
    /\ UNCHANGED <<mode, img, metas, head, flag, agents, purge, del, counts>>

VerifyRebuildReplica(r) ==
    /\ At("verify") /\ r \in RW /\ loaded[r] = loaded[Target]
    /\ mode' = [mode EXCEPT ![Target] = "RW"]
    /\ To("unflag")
    /\ UNCHANGED <<files, flag, agents, purge, del, counts>>

ClearRebuilding ==
    /\ At("unflag")
    /\ flag' = [flag EXCEPT ![Target] = FALSE]
    /\ add' = NoAdd
    /\ UNCHANGED <<mode, files, agents, purge, del, counts>>

\* The task gives up: a call failed or took too long (the agent goes on syncing), a file
\* is missing, a chain is broken, the disks of the two replicas differ.  The replica stays
\* in mode WO until it is removed.
Refused ==
    \/ At("create") /\ ~Opens(Target)
    \/ At("transfer") /\ \A r \in RW : purging[r] # "no"
    \/ At("sync") /\ (purging[Target] # "no" \/ sync.state = "in_progress")
    \/ At("files") /\ sync.state = "error"
    \/ At("reload") /\ ~Opens(Target)
    \/ At("verify") /\ \E r \in RW : loaded[r] # loaded[Target]

TaskFails ==
    /\ ~At("idle")
    /\ (Refused /\ UNCHANGED taskFaults) \/ TaskFault
    /\ add' = NoAdd
    /\ UNCHANGED <<mode, files, flag, agents, purge, del, adds, purges>>

RemoveReplica ==
    /\ At("idle") /\ mode[Target] = "WO" /\ purging[Target] = "no"
    /\ mode' = [mode EXCEPT ![Target] = "out"]
    /\ UNCHANGED <<files, flag, agents, tasks, counts>>

-----------------------------------------------------------------------------
TaskInit ==
    /\ mode = [r \in Addresses |-> IF r = Target THEN "out" ELSE "RW"]
    /\ img = [r \in Addresses |-> [d \in Disks |-> IF r = Target THEN NoImg ELSE Written(d)]]
    /\ metaParent = [r \in Addresses |-> [d \in Disks |-> IF r = Target THEN NoMeta ELSE d - 1]]
    /\ removed = [r \in Addresses |-> [d \in Disks |-> FALSE]]
    /\ loaded = [r \in Addresses |-> IF r = Target THEN {} ELSE Disks]
    /\ head = [r \in Addresses |-> IF r = Target THEN 0 ELSE 2]
    /\ flag = [r \in Addresses |-> FALSE]
    /\ sync = [state |-> "none", from |-> Target, list |-> <<>>, copied |-> 0, local |-> FALSE]
    /\ purging = [r \in Addresses |-> "no"]
    /\ add = NoAdd /\ purge = {} /\ del = {}
    /\ adds = 0 /\ purges = 0 /\ taskFaults = 0

TaskNext ==
    \/ DeleteSnapshot \/ PurgeSnapshots
    \/ \E r \in Addresses : markSnapshotAsRemoved(r) \/ PreparePurge(r) \/ Fold(r) \/ ReplaceDisk(r)
    \/ checkAndResetFailedRebuild \/ ReplicaCreate \/ SetRebuilding \/ PrepareRebuild \/ FileSync
    \/ \E r \in Sources : getTransferClients(r) \/ PrepareRebuildReplica(r) \/ VerifyRebuildReplica(r)
    \/ FallBack \/ FinishRebuild \/ SyncFiles \/ ReloadReplica \/ ClearRebuilding \/ TaskFails \/ RemoveReplica

TaskSpec == TaskInit /\ [][TaskNext]_taskVars

\* A replica in mode RW reads as the volume that was written: also the rebuilt one, which
\* took the list of files from one replica and the files from another, both of which may
\* have been purged at different times, after rebuilds that failed before it (AddReplica,
\* SyncFiles, PurgeSnapshots).
RebuiltExact ==
    \A r \in RW : Opens(r) /\ \A b \in Blocks : Read(r, b) = IF Written(2)[b] # 0 THEN Written(2)[b] ELSE Written(1)[b]
=============================================================================
