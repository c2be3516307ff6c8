---------------------------- MODULE SnapshotHash ----------------------------
(***************************************************************************)
(* Hashing a snapshot and finding out that it rotted: pkg/replica/hash.go, *)
(* with the calls of the sync agent that start a job, cancel it and ask    *)
(* for its result (pkg/sync/rpc/server.go).                                *)
(*                                                                         *)
(* A legal change of the snapshot's file changes its change time, silent   *)
(* corruption does not.  The checksum of a file is its content.            *)
(***************************************************************************)
EXTENDS Integers, Sequences

CONSTANTS Jobs, Values, NumBlocks,
          MaxChanges,      \* legal changes of the file
          MaxRots,         \* silent ones
          MaxHashCrashes,
          MaxHashes        \* jobs started

ASSUME HashAssumption == NumBlocks \in Nat /\ Values # {} /\ "free" \notin Jobs

None == [ct |-> 0]

VARIABLES
    snapFile, ctime, \* the snapshot's file: its blocks and its change time
    info,            \* the checksum file: [sum, ct, corrupted], or None
    lock,            \* the job that holds the lock file, or "free"
    job,             \* of each job: where it is and the variables of Execute
    listed,          \* the job in SnapshotHashList, or "none"
    reply,           \* the last answer of SnapshotHashStatus
    rotted,          \* the file was silently corrupted since its last legal change
    detected,        \* the checksum file has told so since then
    rots, hashCrashes, hashes

content == <<snapFile, ctime, rotted>>
hashCounts == <<rots, hashCrashes, hashes>>
hashVars == <<snapFile, ctime, info, lock, job, listed, reply, rotted, detected, hashCounts>>

Idle == [pc |-> "idle", ct |-> 0, sum |-> <<>>, hashed |-> FALSE, corrupted |-> FALSE,
         rehash |-> FALSE, cancelled |-> FALSE, state |-> "none"]

HashAt(j, l) == job[j].pc = l
Set(j, r) == job' = [job EXCEPT ![j] = r]
HashGoto(j, l) == Set(j, [job[j] EXCEPT !.pc = l])
Fail(j) == Set(j, [job[j] EXCEPT !.pc = "unlock", !.state = "error"])

-----------------------------------------------------------------------------
\* SnapshotHash: the list refuses a second job while one is in progress.  A job is
\* complete before it writes the checksum file.
InProgress(j) == job[j].pc \notin {"idle", "set", "remain", "delete"}

SnapshotHash(j, rehash) ==
    /\ HashAt(j, "idle") /\ hashes < MaxHashes
    /\ \A k \in Jobs : ~InProgress(k)
    /\ Set(j, [Idle EXCEPT !.pc = "lock", !.rehash = rehash])
    /\ listed' = j /\ hashes' = hashes + 1
    /\ UNCHANGED <<content, info, lock, reply, detected, rots, hashCrashes>>

\* Execute, up to the change time.
LockFile(j) ==
    /\ HashAt(j, "lock") /\ lock = "free"
    /\ lock' = j
    /\ Set(j, [job[j] EXCEPT !.pc = "detected", !.ct = ctime])
    /\ UNCHANGED <<content, info, listed, reply, detected, hashCounts>>

\* Mutant: an earlier detection is not looked up.
isSilentCorruptionForgotten(j) ==
    /\ HashAt(j, "detected")
    /\ HashGoto(j, "rehash")
    /\ UNCHANGED <<content, info, lock, listed, reply, detected, hashCounts>>

isSilentCorruptionAlreadyDetected(j) ==
    /\ HashAt(j, "detected")
    /\ IF info # None /\ info.ct = job[j].ct /\ info.corrupted
       THEN Set(j, [job[j] EXCEPT !.pc = "unlock", !.corrupted = TRUE, !.state = "complete"])
       ELSE HashGoto(j, "rehash")
    /\ UNCHANGED <<content, info, lock, listed, reply, detected, hashCounts>>

isRehashRequired(j) ==
    /\ HashAt(j, "rehash")
    /\ IF ~job[j].rehash /\ info # None /\ info.ct = job[j].ct
       THEN Set(j, [job[j] EXCEPT !.pc = "unlock", !.sum = info.sum, !.state = "complete"])
       ELSE Set(j, [job[j] EXCEPT !.pc = "hash", !.hashed = TRUE])
    /\ UNCHANGED <<content, info, lock, listed, reply, detected, hashCounts>>

\* hashSnapshot reads block after block until the job is cancelled.
hashSnapshot(j) ==
    /\ HashAt(j, "hash")
    /\ IF job[j].cancelled THEN Fail(j)
       ELSE IF Len(job[j].sum) = NumBlocks THEN HashGoto(j, "compare")
       ELSE Set(j, [job[j] EXCEPT !.sum = Append(@, snapFile[Len(@) + 1])])
    /\ UNCHANGED <<content, info, lock, listed, reply, detected, hashCounts>>

isSnapshotSilentlyCorrupted(j) == info # None /\ info.ct = ctime /\ info.sum # job[j].sum

Compare(j) ==
    /\ HashAt(j, "compare")
    /\ IF isSnapshotSilentlyCorrupted(j)
       THEN Set(j, [job[j] EXCEPT !.pc = "reread", !.corrupted = TRUE])
       ELSE Set(j, [job[j] EXCEPT !.pc = "unlock", !.state = "complete"])
    /\ UNCHANGED <<content, info, lock, listed, reply, detected, hashCounts>>

\* The checksum file is read again, and may be gone.
Reread(j) ==
    /\ HashAt(j, "reread")
    /\ IF info = None THEN Fail(j)
       ELSE Set(j, [job[j] EXCEPT !.pc = "unlock", !.sum = info.sum, !.ct = info.ct, !.state = "complete"])
    /\ UNCHANGED <<content, info, lock, listed, reply, detected, hashCounts>>

\* The deferred calls: UnlockFile, then the one that writes the checksum file.
UnlockFile(j) ==
    /\ HashAt(j, "unlock")
    /\ lock' = "free"
    /\ Set(j, IF job[j].state = "complete" /\ job[j].hashed THEN [job[j] EXCEPT !.pc = "set"]
              ELSE [job[j] EXCEPT !.pc = "idle"])
    /\ UNCHANGED <<content, info, listed, reply, detected, hashCounts>>

\* Mutant: the present change time is stored, not the one the job began with.
SetSnapshotHashInfoToChecksumFileFresh(j) ==
    /\ HashAt(j, "set")
    /\ info' = [sum |-> job[j].sum, ct |-> ctime, corrupted |-> job[j].corrupted]
    /\ detected' = (detected \/ (job[j].corrupted /\ job[j].ct = ctime))
    /\ HashGoto(j, "remain")
    /\ UNCHANGED <<content, lock, listed, reply, hashCounts>>

\* A failure to write is overwritten by the result of isChangeTimeRemain.
SetSnapshotHashInfoToChecksumFile(j) ==
    /\ HashAt(j, "set")
    /\ \/ /\ info' = [sum |-> job[j].sum, ct |-> job[j].ct, corrupted |-> job[j].corrupted]
          /\ detected' = (detected \/ (job[j].corrupted /\ job[j].ct = ctime))
       \/ UNCHANGED <<info, detected>>
    /\ HashGoto(j, "remain")
    /\ UNCHANGED <<content, lock, listed, reply, hashCounts>>

isChangeTimeRemain(j) ==
    /\ HashAt(j, "remain")
    /\ IF job[j].ct = ctime THEN HashGoto(j, "idle")
       ELSE Set(j, [job[j] EXCEPT !.pc = "delete", !.state = "error"])
    /\ UNCHANGED <<content, info, lock, listed, reply, detected, hashCounts>>

DeleteSnapshotHashInfoChecksumFile(j) ==
    /\ HashAt(j, "delete")
    /\ info' \in {None, info}
    /\ HashGoto(j, "idle")
    /\ UNCHANGED <<content, lock, listed, reply, detected, hashCounts>>

SnapshotHashCancel(j) ==
    /\ listed = j /\ ~HashAt(j, "idle") /\ ~job[j].cancelled
    /\ Set(j, [job[j] EXCEPT !.cancelled = TRUE])
    /\ UNCHANGED <<content, info, lock, listed, reply, detected, hashCounts>>

-----------------------------------------------------------------------------
\* SnapshotHashStatus, with checkSnapshotHashStatusFromChecksumFile for a job that is
\* no longer listed.
SnapshotHashStatus ==
    /\ reply' = IF listed # "none"
                THEN LET j == job[listed] IN [state |-> IF InProgress(listed) THEN "in_progress" ELSE j.state,
                                              sum |-> j.sum, corrupted |-> j.corrupted, ct |-> ctime, file |-> FALSE]
                ELSE IF info # None /\ info.ct = ctime
                THEN [state |-> "complete", sum |-> info.sum, corrupted |-> FALSE, ct |-> ctime, file |-> TRUE]
                ELSE [state |-> "error", sum |-> <<>>, corrupted |-> FALSE, ct |-> ctime, file |-> TRUE]
    /\ UNCHANGED <<content, info, lock, job, listed, detected, hashCounts>>

\* refresh of the list drops a job that ended.
Drop ==
    /\ listed # "none" /\ ~InProgress(listed)
    /\ listed' = "none"
    /\ UNCHANGED <<content, info, lock, job, reply, detected, hashCounts>>

\* A purge or an unmap changes the snapshot, or its disk rots.
Change ==
    /\ ctime <= MaxChanges
    /\ ctime' = ctime + 1
    /\ snapFile' \in [1..NumBlocks -> Values] \ {snapFile}
    /\ rotted' = FALSE /\ detected' = FALSE
    /\ UNCHANGED <<info, lock, job, listed, reply, hashCounts>>

Rot ==
    /\ rots < MaxRots /\ rots' = rots + 1
    /\ \E b \in 1..NumBlocks, v \in Values : v # snapFile[b] /\ snapFile' = [snapFile EXCEPT ![b] = v]
    /\ rotted' = TRUE
    /\ UNCHANGED <<ctime, info, lock, job, listed, reply, detected, hashCrashes, hashes>>

\* The sync agent dies; the system releases its lock.
HashCrash ==
    /\ hashCrashes < MaxHashCrashes /\ hashCrashes' = hashCrashes + 1
    /\ job' = [j \in Jobs |-> Idle] /\ lock' = "free" /\ listed' = "none"
    /\ UNCHANGED <<content, info, reply, detected, rots, hashes>>

-----------------------------------------------------------------------------
HashInit ==
    /\ snapFile = [b \in 1..NumBlocks |-> CHOOSE v \in Values : TRUE] /\ ctime = 1
    /\ info = None /\ lock = "free" /\ job = [j \in Jobs |-> Idle] /\ listed = "none"
    /\ reply = [state |-> "none", sum |-> <<>>, corrupted |-> FALSE, ct |-> 0, file |-> FALSE]
    /\ rotted = FALSE /\ detected = FALSE
    /\ rots = 0 /\ hashCrashes = 0 /\ hashes = 0

Execute(j) ==
    \/ LockFile(j) \/ isSilentCorruptionAlreadyDetected(j) \/ isRehashRequired(j) \/ hashSnapshot(j)
    \/ Compare(j) \/ Reread(j) \/ UnlockFile(j) \/ SetSnapshotHashInfoToChecksumFile(j)
    \/ isChangeTimeRemain(j) \/ DeleteSnapshotHashInfoChecksumFile(j)

HashNext ==
    \/ \E j \in Jobs : (\E r \in BOOLEAN : SnapshotHash(j, r)) \/ Execute(j) \/ SnapshotHashCancel(j)
    \/ SnapshotHashStatus \/ Drop \/ Change \/ Rot \/ HashCrash

HashSpec == HashInit /\ [][HashNext]_hashVars

\* A checksum that still carries the change time of the file is that of its content:
\* however the file changed while it was read, and wherever the agent died.
StoredExact == info # None /\ info.ct = ctime /\ ~rotted => info.sum = snapFile

\* Silent corruption is recorded only of a file that rotted: a change of the file
\* between two blocks, or between two jobs, is not taken for it.
NoFalseAlarm == info # None /\ info.ct = ctime /\ info.corrupted => rotted

\* A checksum that is answered from the checksum file is that of the file.
ReportedExact == reply.state = "complete" /\ reply.file /\ reply.ct = ctime /\ ~rotted => reply.sum = snapFile

\* A checksum with the change time of the file is that of its content, and so is one
\* answered from the checksum file (Execute, SnapshotHashStatus).
ChecksumExact == StoredExact /\ ReportedExact

\* "If the silent corruption is detected, the checksum file will not be overrode": once
\* recorded it stays so until the snapshot is changed.
DetectionKept == detected => info # None /\ info.corrupted

\* Silent corruption is recorded only of a file that rotted, and once recorded it stays
\* so (Execute, isSilentCorruptionAlreadyDetected).
DetectionSticks == NoFalseAlarm /\ DetectionKept

\* "The result can be read from checksum file instead": corruption that is recorded is
\* also reported.
CorruptionReported == reply.state = "complete" /\ reply.file /\ reply.ct = ctime /\ detected => reply.corrupted
=============================================================================
