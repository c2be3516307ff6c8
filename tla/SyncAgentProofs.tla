--------------------------- MODULE SyncAgentProofs ---------------------------
(***************************************************************************)
(* Proofs about the tasks of a sync agent.                                 *)
(*                                                                         *)
(* SnapshotHash, for any number of jobs, blocks, changes, rots and         *)
(* crashes: what a checksum file says is right.  The lock file is what     *)
(* makes it so: while a job holds it no other one begins, so that neither  *)
(* the checksum file nor a job that is about to write it carries a later   *)
(* change time than the job that holds the lock.                           *)
(*                                                                         *)
(* SnapshotClone, for any number of calls made one after the other, ports, *)
(* failures and crashes: a clone that is reported complete is there.       *)
(*                                                                         *)
(* RebuildTask, for any replicas, rebuilds, purges and faults, when what a *)
(* task has asked still holds when it acts on it (~Race): a rebuilt        *)
(* replica reads as the volume that was written.                           *)
(***************************************************************************)
EXTENDS SnapshotHash, SnapshotClone, RebuildTask, TLAPS

HashLabels == {"idle", "lock", "detected", "rehash", "hash", "compare", "reread", "unlock", "set", "remain",
               "delete"}
JobRecord == [pc : HashLabels, ct : Nat, sum : Seq(Values), hashed : BOOLEAN, corrupted : BOOLEAN,
              rehash : BOOLEAN, cancelled : BOOLEAN, state : {"none", "complete", "error"}]
InfoRecord == [sum : Seq(Values), ct : Nat, corrupted : BOOLEAN]

HashTypeOK ==
    /\ snapFile \in [1..NumBlocks -> Values] /\ ctime \in Nat \ {0}
    /\ info \in InfoRecord \cup {None}
    /\ job \in [Jobs -> JobRecord]
    /\ rotted \in BOOLEAN /\ detected \in BOOLEAN
    /\ reply.ct \in Nat

\* Where a job holds the lock file, and where it may still compare the checksum file
\* with what it has read.
Locked == {"detected", "rehash", "hash", "compare", "reread", "unlock"}
Comparing == {"detected", "rehash", "hash", "compare", "reread"}

\* The variables x of Execute still stand for the file as it is.
Current(x) == x.ct = ctime /\ ~rotted

\* What holds of the variables of Execute of one job.
JobOK(x) ==
    /\ x.ct <= ctime
    /\ x.pc \in {"lock", "detected", "rehash"} => ~x.hashed /\ x.sum = <<>>
    /\ x.pc \in {"lock", "detected", "rehash", "hash", "compare"} => ~x.corrupted
    /\ x.pc \in Comparing => info.ct <= x.ct
    /\ x.pc = "hash" => Len(x.sum) <= NumBlocks /\ (Current(x) => \A n \in 1..Len(x.sum) : x.sum[n] = snapFile[n])
    /\ x.pc = "compare" /\ Current(x) => x.sum = snapFile
    /\ x.pc \in {"unlock", "set"} /\ x.hashed /\ x.state = "complete" /\ Current(x) => x.sum = snapFile
    /\ x.pc = "set" => x.hashed /\ x.state = "complete"
    /\ x.pc = "reread" \/ (x.pc \in {"unlock", "set"} /\ x.hashed) => ~(x.corrupted /\ Current(x))

\* The inductive invariant.
HashInv ==
    /\ HashTypeOK
    /\ info.ct <= ctime /\ reply.ct <= ctime
    /\ \A j \in Jobs : job[j].pc \in Locked <=> lock = j
    /\ \A j, k \in Jobs : job[j].pc \in Comparing /\ job[k].pc = "set" => job[k].ct <= job[j].ct
    /\ \A j \in Jobs : JobOK(job[j])
    /\ StoredExact /\ NoFalseAlarm /\ ReportedExact

\* With one job at a time, one that is still at work after a detection has only found
\* it again.
DetectInv ==
    detected =>
        /\ info.ct = ctime /\ info.corrupted
        /\ \A j \in Jobs :
              /\ job[j].pc \notin {"rehash", "hash", "compare", "reread", "set", "delete"}
              /\ job[j].pc = "unlock" => ~job[j].hashed
              /\ job[j].pc \in {"detected", "remain"} => job[j].ct = ctime

-----------------------------------------------------------------------------
\* The invariant holds at the start.
LEMMA HashStarts == HashInit => HashInv
<1> SUFFICES ASSUME HashInit PROVE HashInv
  BY Zenon
<1>1. Idle \in JobRecord /\ Idle.pc = "idle" /\ Idle.ct = 0
  BY DEF Idle, JobRecord, HashLabels
<1>2. HashTypeOK
  <2>1. PICK v \in Values : v = CHOOSE w \in Values : TRUE
    BY Zenon, HashAssumption
  <2>2. snapFile \in [1..NumBlocks -> Values]
    BY Zenon, <2>1 DEF HashInit
  <2>3. job \in [Jobs -> JobRecord]
    BY Zenon, <1>1 DEF HashInit
  <2>4. ctime = 1 /\ info = None /\ rotted = FALSE /\ detected = FALSE
    BY Zenon DEF HashInit
  <2>5. ctime \in Nat \ {0} /\ reply.ct \in Nat
    BY <2>4 DEF HashInit
  <2>6. QED
    BY Zenon, <2>2, <2>3, <2>4, <2>5 DEF HashTypeOK
<1>3. info.ct = 0 /\ info = None /\ ctime = 1 /\ reply.ct = 0
  BY Zenon DEF HashInit, None
<1>4. \A j \in Jobs : job[j] = Idle /\ lock # j
  BY Zenon, HashAssumption DEF HashInit
<1>5. JobOK(Idle)
  BY <1>1, <1>3 DEF JobOK, Comparing
<1>6. StoredExact /\ NoFalseAlarm /\ ReportedExact
  BY <1>3 DEF StoredExact, NoFalseAlarm, ReportedExact
<1>7. QED
  BY <1>1, <1>2, <1>3, <1>4, <1>5, <1>6 DEF HashInv, Locked, Comparing

\* A step of one job that leaves the files alone.
LEMMA JobStep ==
  ASSUME HashInv, NEW j \in Jobs, NEW x \in JobRecord, job' = [job EXCEPT ![j] = x],
         UNCHANGED <<snapFile, ctime, rotted, info, reply, detected>>, JobOK(x),
         x.pc \in Locked <=> lock' = j,
         \A k \in Jobs \ {j} : lock' = k <=> lock = k,
         x.pc \in Comparing => \A k \in Jobs \ {j} : job[k].pc = "set" => job[k].ct <= x.ct,
         x.pc = "set" => \A k \in Jobs \ {j} : job[k].pc \in Comparing => x.ct <= job[k].ct
  PROVE  HashInv'
<1>1. job'[j] = x /\ \A k \in Jobs \ {j} : job'[k] = job[k]
  BY Zenon DEF HashInv, HashTypeOK
<1>2. HashTypeOK'
  BY Zenon DEF HashInv, HashTypeOK
<1>3. \A k \in Jobs : JobOK(job[k])'
  <2>1. ASSUME NEW k \in Jobs PROVE JobOK(job[k])'
    <3>1. PICK y : y = job'[k]
      BY Zenon
    <3>2. JobOK(y)
      BY Zenon, <1>1, <3>1 DEF HashInv
    <3>3. JobOK(y)'
      BY Zenon, <3>2 DEF JobOK, Current
    <3>4. QED
      BY Zenon, <3>1, <3>3 DEF JobOK, Current
  <2>2. QED
    BY Zenon, <2>1
<1>4. \A k \in Jobs : job'[k].pc \in Locked <=> lock' = k
  BY Zenon, <1>1 DEF HashInv
<1>5. \A k, l \in Jobs : job'[k].pc \in Comparing /\ job'[l].pc = "set" => job'[l].ct <= job'[k].ct
  <2>1. ~("set" \in Comparing)
    BY Zenon DEF Comparing
  <2>2. QED
    BY <1>1, <2>1 DEF HashInv
<1>6. StoredExact' /\ NoFalseAlarm' /\ ReportedExact'
  BY Zenon DEF HashInv, StoredExact, NoFalseAlarm, ReportedExact
<1>7. QED
  BY Zenon, <1>2, <1>3, <1>4, <1>5, <1>6 DEF HashInv

\* Between two steps of Execute that hold the lock file.
LEMMA HeldStep ==
  ASSUME HashInv, NEW j \in Jobs, NEW x \in JobRecord, job' = [job EXCEPT ![j] = x],
         UNCHANGED <<snapFile, ctime, rotted, info, reply, detected, lock>>, JobOK(x),
         job[j].pc \in Locked, x.pc \in Locked,
         x.pc \in Comparing => job[j].pc \in Comparing /\ x.ct = job[j].ct
  PROVE  HashInv'
<1>1. lock = j
  BY Zenon DEF HashInv
<1>2. x.pc # "set"
  BY Zenon DEF Locked
<1>3. QED
  BY Zenon, <1>1, <1>2, JobStep DEF HashInv

\* LockFile: the change time is the present one.
LEMMA LockStep == ASSUME HashInv, NEW j \in Jobs, LockFile(j) PROVE HashInv'
<1>1. job[j].pc = "lock" /\ lock = "free" /\ lock' = j /\ job[j] \in JobRecord /\ JobOK(job[j])
  BY Zenon DEF LockFile, HashAt, HashInv, HashTypeOK
<1>2. PICK x : x = [job[j] EXCEPT !.pc = "detected", !.ct = ctime]
  BY Zenon
<1>3. /\ x \in JobRecord /\ x.pc = "detected" /\ x.ct = ctime /\ x.hashed = job[j].hashed
      /\ x.sum = job[j].sum /\ x.corrupted = job[j].corrupted
  BY Zenon, <1>1, <1>2 DEF JobRecord, HashLabels, HashInv, HashTypeOK
<1>4. JobOK(x)
  <2>1. info.ct <= ctime /\ ctime <= ctime
    BY DEF HashInv, HashTypeOK
  <2>2. QED
    BY Zenon, <1>1, <1>3, <2>1 DEF JobOK
<1>5. job' = [job EXCEPT ![j] = x] /\ UNCHANGED <<snapFile, ctime, rotted, info, reply, detected>>
  BY Zenon, <1>2 DEF LockFile, Set, content
<1>6. \A k \in Jobs \ {j} : lock' # k /\ lock # k /\ (job[k].pc = "set" => job[k].ct <= x.ct)
  BY Zenon, <1>1, <1>3, HashAssumption DEF HashInv, JobOK
<1>7. QED
  BY Zenon, <1>1, <1>3, <1>4, <1>5, <1>6, JobStep DEF Locked

\* Execute with the lock file held, up to the first block: an earlier detection or an
\* earlier checksum ends it, and then nothing is written.
LEMMA LookupStep ==
  ASSUME HashInv, NEW j \in Jobs, isSilentCorruptionAlreadyDetected(j) \/ isRehashRequired(j)
  PROVE  HashInv'
<1>1. job[j].pc \in {"detected", "rehash"} /\ job[j] \in JobRecord /\ JobOK(job[j])
  BY Zenon DEF isSilentCorruptionAlreadyDetected, isRehashRequired, HashAt, HashInv, HashTypeOK
<1>2. ~job[j].hashed /\ job[j].sum = <<>> /\ ~job[j].corrupted /\ info.ct <= job[j].ct /\ job[j].ct <= ctime
  BY Zenon, <1>1 DEF JobOK, Comparing
<1>3. UNCHANGED <<snapFile, ctime, rotted, info, reply, detected, lock>>
  BY Zenon DEF isSilentCorruptionAlreadyDetected, isRehashRequired, content
<1>4. ASSUME NEW x \in JobRecord, job' = [job EXCEPT ![j] = x], x.ct = job[j].ct, x.pc = "unlock", ~x.hashed
      PROVE  HashInv'
  <2>1. JobOK(x)
    BY Zenon, <1>2, <1>4 DEF JobOK, Comparing
  <2>2. QED
    BY Zenon, <1>1, <1>3, <1>4, <2>1, HeldStep DEF Locked, Comparing
<1>5. ASSUME NEW x \in JobRecord, job' = [job EXCEPT ![j] = x], x.ct = job[j].ct, x.pc \in {"rehash", "hash"},
             x.pc = "rehash" => ~x.hashed, ~x.corrupted, x.sum = <<>>
      PROVE  HashInv'
  <2>1. JobOK(x)
    BY <1>2, <1>5, HashAssumption DEF JobOK, Comparing
  <2>2. QED
    BY Zenon, <1>1, <1>3, <1>5, <2>1, HeldStep DEF Locked, Comparing
<1>6. CASE job' = [job EXCEPT ![j] = [job[j] EXCEPT !.pc = "unlock", !.corrupted = TRUE, !.state = "complete"]]
  <2>1. PICK x : x = [job[j] EXCEPT !.pc = "unlock", !.corrupted = TRUE, !.state = "complete"]
    BY Zenon
  <2>2. x \in JobRecord /\ x.ct = job[j].ct /\ x.pc = "unlock" /\ x.hashed = job[j].hashed
    BY Zenon, <1>1, <2>1 DEF JobRecord, HashLabels
  <2>3. QED
    BY Zenon, <1>2, <1>4, <1>6, <2>1, <2>2
<1>7. CASE job' = [job EXCEPT ![j] = [job[j] EXCEPT !.pc = "rehash"]]
  <2>1. PICK x : x = [job[j] EXCEPT !.pc = "rehash"]
    BY Zenon
  <2>2. /\ x \in JobRecord /\ x.ct = job[j].ct /\ x.pc = "rehash" /\ x.hashed = job[j].hashed
        /\ x.corrupted = job[j].corrupted /\ x.sum = job[j].sum
    BY Zenon, <1>1, <2>1 DEF JobRecord, HashLabels
  <2>3. QED
    BY Zenon, <1>2, <1>5, <1>7, <2>1, <2>2
<1>8. CASE /\ info # None
           /\ job' = [job EXCEPT ![j] = [job[j] EXCEPT !.pc = "unlock", !.sum = info.sum, !.state = "complete"]]
  <2>1. PICK x : x = [job[j] EXCEPT !.pc = "unlock", !.sum = info.sum, !.state = "complete"]
    BY Zenon
  <2>2. info.sum \in Seq(Values)
    BY Zenon, <1>8 DEF HashInv, HashTypeOK, InfoRecord
  <2>3. x \in JobRecord /\ x.ct = job[j].ct /\ x.pc = "unlock" /\ x.hashed = job[j].hashed
    BY Zenon, <1>1, <2>1, <2>2 DEF JobRecord, HashLabels
  <2>4. QED
    BY Zenon, <1>2, <1>4, <1>8, <2>1, <2>3
<1>9. CASE job' = [job EXCEPT ![j] = [job[j] EXCEPT !.pc = "hash", !.hashed = TRUE]]
  <2>1. PICK x : x = [job[j] EXCEPT !.pc = "hash", !.hashed = TRUE]
    BY Zenon
  <2>2. /\ x \in JobRecord /\ x.ct = job[j].ct /\ x.pc = "hash"
        /\ x.corrupted = job[j].corrupted /\ x.sum = job[j].sum
    BY Zenon, <1>1, <2>1 DEF JobRecord, HashLabels
  <2>3. QED
    BY Zenon, <1>2, <1>5, <1>9, <2>1, <2>2
<1>10. QED
  BY Zenon, <1>6, <1>7, <1>8, <1>9 DEF isSilentCorruptionAlreadyDetected, isRehashRequired, HashGoto, Set

\* hashSnapshot: as long as the file has not changed what was read is what is there.
LEMMA ReadStep == ASSUME HashInv, NEW j \in Jobs, hashSnapshot(j) PROVE HashInv'
<1>1. job[j].pc = "hash" /\ job[j] \in JobRecord /\ JobOK(job[j])
  BY Zenon DEF hashSnapshot, HashAt, HashInv, HashTypeOK
<1>2. UNCHANGED <<snapFile, ctime, rotted, info, reply, detected, lock>>
  BY Zenon DEF hashSnapshot, content
<1>3. PICK y : y = job[j]
  BY Zenon
<1>4. /\ y.pc = "hash" /\ y \in JobRecord /\ ~y.corrupted /\ y.ct <= ctime /\ info.ct <= y.ct
      /\ y.sum \in Seq(Values) /\ Len(y.sum) <= NumBlocks
      /\ Current(y) => \A n \in 1..Len(y.sum) : y.sum[n] = snapFile[n]
  BY Zenon, <1>1, <1>3 DEF JobOK, Comparing, JobRecord
<1>5. CASE job' = [job EXCEPT ![j] = [job[j] EXCEPT !.pc = "unlock", !.state = "error"]]
  <2>1. PICK x : x = [y EXCEPT !.pc = "unlock", !.state = "error"]
    BY Zenon
  <2>2. x \in JobRecord /\ x.ct = y.ct /\ x.pc = "unlock" /\ x.corrupted = y.corrupted /\ x.state = "error"
    BY Zenon, <1>4, <2>1 DEF JobRecord, HashLabels
  <2>3. JobOK(x)
    BY Zenon, <1>4, <2>2 DEF JobOK, Comparing
  <2>4. QED
    BY Zenon, <1>1, <1>2, <1>3, <1>5, <2>1, <2>2, <2>3, HeldStep DEF Locked, Comparing
<1>6. CASE Len(job[j].sum) = NumBlocks /\ job' = [job EXCEPT ![j] = [job[j] EXCEPT !.pc = "compare"]]
  <2>1. PICK x : x = [y EXCEPT !.pc = "compare"]
    BY Zenon
  <2>2. x \in JobRecord /\ x.ct = y.ct /\ x.pc = "compare" /\ x.corrupted = y.corrupted /\ x.sum = y.sum
    BY Zenon, <1>4, <2>1 DEF JobRecord, HashLabels
  <2>3. Current(y) => y.sum = snapFile
    <3>1. PICK u : u = y.sum
      BY Zenon
    <3>2. u \in [1..NumBlocks -> Values] /\ Len(u) = NumBlocks
      BY <1>3, <1>4, <1>6, <3>1
    <3>3. snapFile \in [1..NumBlocks -> Values]
      BY Zenon DEF HashInv, HashTypeOK
    <3>4. QED
      BY <1>4, <3>1, <3>2, <3>3
  <2>4. JobOK(x)
    BY Zenon, <1>4, <2>2, <2>3 DEF JobOK, Comparing, Current
  <2>5. QED
    BY Zenon, <1>1, <1>2, <1>3, <1>6, <2>1, <2>2, <2>4, HeldStep DEF Locked, Comparing
<1>7. CASE /\ Len(job[j].sum) # NumBlocks
           /\ job' = [job EXCEPT ![j] = [job[j] EXCEPT !.sum = Append(job[j].sum, snapFile[Len(job[j].sum) + 1])]]
  <2>1. PICK u : u = Append(y.sum, snapFile[Len(y.sum) + 1])
    BY Zenon
  <2>2. snapFile[Len(y.sum) + 1] \in Values
    BY <1>3, <1>4, <1>7, HashAssumption DEF HashInv, HashTypeOK
  <2>3. /\ u \in Seq(Values) /\ Len(u) <= NumBlocks
        /\ Current(y) => \A n \in 1..Len(u) : u[n] = snapFile[n]
    BY <1>3, <1>4, <1>7, <2>1, <2>2, HashAssumption
  <2>4. PICK x : x = [y EXCEPT !.sum = u]
    BY Zenon
  <2>5. x \in JobRecord /\ x.ct = y.ct /\ x.pc = "hash" /\ x.corrupted = y.corrupted /\ x.sum = u
    BY Zenon, <1>4, <2>3, <2>4 DEF JobRecord
  <2>6. JobOK(x)
    BY Zenon, <1>4, <2>3, <2>5 DEF JobOK, Comparing, Current
  <2>7. QED
    BY Zenon, <1>1, <1>2, <1>3, <1>7, <2>1, <2>4, <2>5, <2>6, HeldStep DEF Locked, Comparing
<1>8. QED
  BY Zenon, <1>5, <1>6, <1>7 DEF hashSnapshot, HashGoto, Set, Fail

\* Compare: two checksums of the same change time differ only when the file has rotted.
LEMMA CompareStep == ASSUME HashInv, NEW j \in Jobs, Compare(j) PROVE HashInv'
<1>1. job[j].pc = "compare" /\ job[j] \in JobRecord /\ JobOK(job[j])
  BY Zenon DEF Compare, HashAt, HashInv, HashTypeOK
<1>2. UNCHANGED <<snapFile, ctime, rotted, info, reply, detected, lock>>
  BY Zenon DEF Compare, content
<1>3. PICK y : y = job[j]
  BY Zenon
<1>4. /\ y.pc = "compare" /\ y \in JobRecord /\ ~y.corrupted /\ y.ct <= ctime /\ info.ct <= y.ct
      /\ Current(y) => y.sum = snapFile
  BY Zenon, <1>1, <1>3 DEF JobOK, Comparing
<1>5. CASE /\ isSnapshotSilentlyCorrupted(j)
           /\ job' = [job EXCEPT ![j] = [job[j] EXCEPT !.pc = "reread", !.corrupted = TRUE]]
  <2>1. PICK x : x = [y EXCEPT !.pc = "reread", !.corrupted = TRUE]
    BY Zenon
  <2>2. x \in JobRecord /\ x.ct = y.ct /\ x.pc = "reread"
    BY Zenon, <1>4, <2>1 DEF JobRecord, HashLabels
  <2>3. ~Current(y)
    BY Zenon, <1>3, <1>4, <1>5 DEF isSnapshotSilentlyCorrupted, HashInv, StoredExact, Current
  <2>4. JobOK(x)
    BY Zenon, <1>4, <2>2, <2>3 DEF JobOK, Comparing, Current
  <2>5. QED
    BY Zenon, <1>1, <1>2, <1>3, <1>5, <2>1, <2>2, <2>4, HeldStep DEF Locked, Comparing
<1>6. CASE job' = [job EXCEPT ![j] = [job[j] EXCEPT !.pc = "unlock", !.state = "complete"]]
  <2>1. PICK x : x = [y EXCEPT !.pc = "unlock", !.state = "complete"]
    BY Zenon
  <2>2. x \in JobRecord /\ x.ct = y.ct /\ x.pc = "unlock" /\ x.corrupted = y.corrupted /\ x.sum = y.sum
    BY Zenon, <1>4, <2>1 DEF JobRecord, HashLabels
  <2>3. JobOK(x)
    BY Zenon, <1>4, <2>2 DEF JobOK, Comparing, Current
  <2>4. QED
    BY Zenon, <1>1, <1>2, <1>3, <1>6, <2>1, <2>2, <2>3, HeldStep DEF Locked, Comparing
<1>7. QED
  BY Zenon, <1>5, <1>6 DEF Compare, Set

\* Reread: the checksum file is no newer than the job.
LEMMA RereadStep == ASSUME HashInv, NEW j \in Jobs, Reread(j) PROVE HashInv'
<1>1. job[j].pc = "reread" /\ job[j] \in JobRecord /\ JobOK(job[j])
  BY Zenon DEF Reread, HashAt, HashInv, HashTypeOK
<1>2. UNCHANGED <<snapFile, ctime, rotted, info, reply, detected, lock>>
  BY Zenon DEF Reread, content
<1>3. PICK y : y = job[j]
  BY Zenon
<1>4. /\ y.pc = "reread" /\ y \in JobRecord /\ y.ct <= ctime /\ info.ct <= y.ct
      /\ y.corrupted => ~Current(y)
  BY Zenon, <1>1, <1>3 DEF JobOK, Comparing
<1>5. CASE job' = [job EXCEPT ![j] = [job[j] EXCEPT !.pc = "unlock", !.state = "error"]]
  <2>1. PICK x : x = [y EXCEPT !.pc = "unlock", !.state = "error"]
    BY Zenon
  <2>2. x \in JobRecord /\ x.ct = y.ct /\ x.pc = "unlock" /\ x.corrupted = y.corrupted /\ x.state = "error"
    BY Zenon, <1>4, <2>1 DEF JobRecord, HashLabels
  <2>3. JobOK(x)
    BY Zenon, <1>4, <2>2 DEF JobOK, Comparing, Current
  <2>4. QED
    BY Zenon, <1>1, <1>2, <1>3, <1>5, <2>1, <2>2, <2>3, HeldStep DEF Locked, Comparing
<1>6. CASE /\ info # None
           /\ job' = [job EXCEPT ![j] = [job[j] EXCEPT !.pc = "unlock", !.sum = info.sum, !.ct = info.ct,
                                                       !.state = "complete"]]
  <2>1. PICK x : x = [y EXCEPT !.pc = "unlock", !.sum = info.sum, !.ct = info.ct, !.state = "complete"]
    BY Zenon
  <2>2. info.sum \in Seq(Values) /\ info.ct \in Nat /\ ctime \in Nat /\ y.ct \in Nat
    BY Zenon, <1>4, <1>6 DEF HashInv, HashTypeOK, InfoRecord, JobRecord
  <2>3. x \in JobRecord /\ x.ct = info.ct /\ x.pc = "unlock" /\ x.corrupted = y.corrupted /\ x.sum = info.sum
    BY Zenon, <1>4, <2>1, <2>2 DEF JobRecord, HashLabels
  <2>4. (Current(x) => x.sum = snapFile) /\ (Current(x) => Current(y)) /\ x.ct <= ctime
    BY <1>4, <1>6, <2>2, <2>3 DEF HashInv, StoredExact, Current
  <2>5. JobOK(x)
    BY Zenon, <1>4, <2>3, <2>4 DEF JobOK, Comparing
  <2>6. QED
    BY Zenon, <1>1, <1>2, <1>3, <1>6, <2>1, <2>3, <2>5, HeldStep DEF Locked, Comparing
<1>7. QED
  BY Zenon, <1>5, <1>6 DEF Reread, Set, Fail

\* UnlockFile: no other job compares while this one holds the lock.
LEMMA UnlockStep == ASSUME HashInv, NEW j \in Jobs, UnlockFile(j) PROVE HashInv'
<1>1. job[j].pc = "unlock" /\ job[j] \in JobRecord /\ JobOK(job[j])
  BY Zenon DEF UnlockFile, HashAt, HashInv, HashTypeOK
<1>2. UNCHANGED <<snapFile, ctime, rotted, info, reply, detected>> /\ lock' = "free"
  BY Zenon DEF UnlockFile, content
<1>3. lock = j /\ \A k \in Jobs : lock' # k
  BY Zenon, <1>1, <1>2, HashAssumption DEF HashInv, Locked
<1>4. \A k \in Jobs \ {j} : lock # k /\ job[k].pc \notin Comparing
  BY Zenon, <1>3 DEF HashInv, Locked, Comparing
<1>5. PICK y : y = job[j]
  BY Zenon
<1>6. y.pc = "unlock" /\ y \in JobRecord /\ JobOK(y)
  BY Zenon, <1>1, <1>5
<1>7. PICK x : x = IF y.state = "complete" /\ y.hashed THEN [y EXCEPT !.pc = "set"] ELSE [y EXCEPT !.pc = "idle"]
  BY Zenon
<1>8. job' = [job EXCEPT ![j] = x]
  BY Zenon, <1>5, <1>7 DEF UnlockFile, Set
<1>9. x \in JobRecord /\ x.ct = y.ct /\ x.corrupted = y.corrupted /\ x.sum = y.sum /\ x.state = y.state /\ x.hashed = y.hashed
  BY Zenon, <1>6, <1>7 DEF JobRecord, HashLabels
<1>10. x.pc = "idle" \/ (x.pc = "set" /\ y.state = "complete" /\ y.hashed)
  BY Zenon, <1>6, <1>7 DEF JobRecord
<1>11. JobOK(x)
  BY Zenon, <1>6, <1>9, <1>10 DEF JobOK, Comparing, Current
<1>12. QED
  BY Zenon, <1>2, <1>3, <1>4, <1>8, <1>9, <1>10, <1>11, JobStep DEF Locked, Comparing

\* What the last deferred call of Execute writes, or removes, stands for the file, and
\* is no newer than a job that is comparing.
LEMMA WriteStep ==
  ASSUME HashInv, NEW j \in Jobs, NEW x \in JobRecord, job' = [job EXCEPT ![j] = x], job[j].pc \in {"set", "delete"},
         UNCHANGED <<snapFile, ctime, rotted, reply, lock>>, detected' \in BOOLEAN,
         x.pc \in {"remain", "idle"}, x.ct = job[j].ct,
         \/ info' = None \/ info' = info
         \/ job[j].pc = "set" /\ info' = [sum |-> job[j].sum, ct |-> job[j].ct, corrupted |-> job[j].corrupted]
  PROVE  HashInv'
<1>1. PICK y : y = job[j]
  BY Zenon
<1>2. y \in JobRecord /\ JobOK(y) /\ y.pc \in {"set", "delete"} /\ y.ct <= ctime
  BY Zenon, <1>1 DEF HashInv, HashTypeOK, JobOK
<1>3. job'[j] = x /\ \A k \in Jobs \ {j} : job'[k] = job[k]
  BY Zenon DEF HashInv, HashTypeOK
<1>4. /\ info' \in InfoRecord \cup {None}
      /\ info' = None \/ info' = info \/ (y.pc = "set" /\ info'.sum = y.sum /\ info'.ct = y.ct /\ info'.corrupted = y.corrupted)
  BY <1>1, <1>2 DEF InfoRecord, JobRecord, HashInv, HashTypeOK
<1>5. HashTypeOK'
  BY Zenon, <1>4 DEF HashInv, HashTypeOK
<1>6. None.ct = 0 /\ ctime \in Nat /\ ctime' = ctime /\ reply' = reply /\ snapFile' = snapFile /\ rotted' = rotted
  BY Zenon DEF None, HashInv, HashTypeOK
<1>7. info'.ct <= ctime
  BY <1>2, <1>4, <1>6 DEF HashInv
<1>8. \A k \in Jobs \ {j} : job[k].pc \in Comparing => info'.ct <= job[k].ct
  <2>1. ASSUME NEW k \in Jobs \ {j}, job[k].pc \in Comparing PROVE info'.ct <= job[k].ct
    <3>1. info.ct <= job[k].ct /\ job[k].ct \in Nat /\ (y.pc = "set" => y.ct <= job[k].ct)
      BY Zenon, <1>1, <2>1 DEF HashInv, HashTypeOK, JobOK, JobRecord
    <3>2. QED
      BY <1>4, <1>6, <3>1
  <2>2. QED
    BY Zenon, <2>1
<1>9. \A k \in Jobs : JobOK(job[k])'
  <2>1. ASSUME NEW k \in Jobs PROVE JobOK(job[k])'
    <3>1. CASE k = j
      BY Zenon, <1>2, <1>3, <1>6, <1>1, <3>1 DEF JobOK, Comparing
    <3>2. CASE k # j
      <4>1. PICK z : z = job[k]
        BY Zenon
      <4>2. JobOK(z) /\ z = job'[k] /\ (z.pc \in Comparing => info'.ct <= z.ct)
        BY Zenon, <1>3, <1>8, <3>2, <4>1 DEF HashInv
      <4>3. JobOK(z)'
        BY <4>2, <1>6 DEF JobOK, Current
      <4>4. QED
        BY Zenon, <4>2, <4>3 DEF JobOK, Current
    <3>3. QED
      BY Zenon, <3>1, <3>2
  <2>2. QED
    BY Zenon, <2>1
<1>10. \A k \in Jobs : job'[k].pc \in Locked <=> lock' = k
  <2>1. x.pc \notin Locked /\ lock' = lock /\ lock # j
    BY Zenon, <1>1, <1>2 DEF Locked, HashInv
  <2>2. QED
    BY Zenon, <1>3, <2>1 DEF HashInv
<1>11. \A k, l \in Jobs : job'[k].pc \in Comparing /\ job'[l].pc = "set" => job'[l].ct <= job'[k].ct
  <2>1. x.pc \notin Comparing /\ x.pc # "set"
    BY Zenon DEF Comparing
  <2>2. QED
    BY Zenon, <1>3, <2>1 DEF HashInv
<1>12. StoredExact' /\ NoFalseAlarm'
  <2>1. y.pc = "set" /\ Current(y) => y.sum = snapFile /\ ~y.corrupted
    BY Zenon, <1>2 DEF JobOK
  <2>2. QED
    BY <1>4, <1>6, <2>1 DEF StoredExact, NoFalseAlarm, Current, HashInv
<1>13. ReportedExact'
  BY <1>6 DEF HashInv, ReportedExact
<1>14. QED
  BY Zenon, <1>5, <1>6, <1>7, <1>9, <1>10, <1>11, <1>12, <1>13 DEF HashInv

\* SetSnapshotHashInfoToChecksumFile.
LEMMA SetStep == ASSUME HashInv, NEW j \in Jobs, SetSnapshotHashInfoToChecksumFile(j) PROVE HashInv'
<1>1. job[j].pc = "set" /\ job[j] \in JobRecord /\ detected \in BOOLEAN
  BY Zenon DEF SetSnapshotHashInfoToChecksumFile, HashAt, HashInv, HashTypeOK
<1>2. UNCHANGED <<snapFile, ctime, rotted, reply, lock>>
  BY Zenon DEF SetSnapshotHashInfoToChecksumFile, content
<1>3. PICK x : x = [job[j] EXCEPT !.pc = "remain"]
  BY Zenon
<1>4. x \in JobRecord /\ x.ct = job[j].ct /\ x.pc = "remain"
  BY Zenon, <1>1, <1>3 DEF JobRecord, HashLabels
<1>5. job' = [job EXCEPT ![j] = x]
  BY Zenon, <1>3 DEF SetSnapshotHashInfoToChecksumFile, HashGoto, Set
<1>6. \/ info' = [sum |-> job[j].sum, ct |-> job[j].ct, corrupted |-> job[j].corrupted]
      \/ info' = info
  BY Zenon DEF SetSnapshotHashInfoToChecksumFile
<1>7. detected' \in BOOLEAN
  BY Zenon, <1>1 DEF SetSnapshotHashInfoToChecksumFile
<1>8. QED
  BY Zenon, <1>1, <1>2, <1>4, <1>5, <1>6, <1>7, WriteStep

\* DeleteSnapshotHashInfoChecksumFile.
LEMMA DeleteStep == ASSUME HashInv, NEW j \in Jobs, DeleteSnapshotHashInfoChecksumFile(j) PROVE HashInv'
<1>1. job[j].pc = "delete" /\ job[j] \in JobRecord
  BY Zenon DEF DeleteSnapshotHashInfoChecksumFile, HashAt, HashInv, HashTypeOK
<1>2. UNCHANGED <<snapFile, ctime, rotted, reply, lock>> /\ detected' \in BOOLEAN
  BY Zenon DEF DeleteSnapshotHashInfoChecksumFile, content, HashInv, HashTypeOK
<1>3. PICK x : x = [job[j] EXCEPT !.pc = "idle"]
  BY Zenon
<1>4. x \in JobRecord /\ x.ct = job[j].ct /\ x.pc = "idle"
  BY Zenon, <1>1, <1>3 DEF JobRecord, HashLabels
<1>5. job' = [job EXCEPT ![j] = x] /\ info' \in {None, info}
  BY Zenon, <1>3 DEF DeleteSnapshotHashInfoChecksumFile, HashGoto, Set
<1>6. QED
  BY Zenon, <1>1, <1>2, <1>4, <1>5, WriteStep

\* isChangeTimeRemain.
LEMMA RemainStep == ASSUME HashInv, NEW j \in Jobs, isChangeTimeRemain(j) PROVE HashInv'
<1>1. job[j].pc = "remain" /\ job[j] \in JobRecord /\ JobOK(job[j]) /\ lock # j
  BY Zenon DEF isChangeTimeRemain, HashAt, HashInv, HashTypeOK, Locked
<1>2. UNCHANGED <<snapFile, ctime, rotted, info, reply, detected, lock>>
  BY Zenon DEF isChangeTimeRemain, content
<1>3. PICK y : y = job[j]
  BY Zenon
<1>4. PICK x : x = IF y.ct = ctime THEN [y EXCEPT !.pc = "idle"] ELSE [y EXCEPT !.pc = "delete", !.state = "error"]
  BY Zenon
<1>5. job' = [job EXCEPT ![j] = x]
  BY Zenon, <1>3, <1>4 DEF isChangeTimeRemain, HashGoto, Set
<1>6. x \in JobRecord /\ x.ct = y.ct /\ x.pc \in {"idle", "delete"}
  BY Zenon, <1>1, <1>3, <1>4 DEF JobRecord, HashLabels
<1>7. JobOK(x)
  BY Zenon, <1>1, <1>3, <1>6 DEF JobOK, Comparing
<1>8. QED
  BY Zenon, <1>1, <1>2, <1>5, <1>6, <1>7, JobStep DEF Locked, Comparing

\* SnapshotHashCancel only marks the job.
LEMMA CancelStep == ASSUME HashInv, NEW j \in Jobs, SnapshotHashCancel(j) PROVE HashInv'
<1>1. job[j] \in JobRecord /\ JobOK(job[j])
  BY Zenon DEF HashInv, HashTypeOK
<1>2. UNCHANGED <<snapFile, ctime, rotted, info, reply, detected, lock>>
  BY Zenon DEF SnapshotHashCancel, content
<1>3. PICK y : y = job[j]
  BY Zenon
<1>4. PICK x : x = [y EXCEPT !.cancelled = TRUE]
  BY Zenon
<1>5. job' = [job EXCEPT ![j] = x]
  BY Zenon, <1>3, <1>4 DEF SnapshotHashCancel, Set
<1>6. /\ x \in JobRecord /\ x.pc = y.pc /\ x.ct = y.ct /\ x.sum = y.sum /\ x.hashed = y.hashed
      /\ x.corrupted = y.corrupted /\ x.state = y.state
  BY Zenon, <1>1, <1>3, <1>4 DEF JobRecord
<1>7. JobOK(x)
  BY Zenon, <1>1, <1>3, <1>6 DEF JobOK, Current
<1>8. x.pc \in Locked <=> lock' = j
  BY Zenon, <1>2, <1>3, <1>6 DEF HashInv
<1>9. /\ x.pc \in Comparing => \A k \in Jobs \ {j} : job[k].pc = "set" => job[k].ct <= x.ct
      /\ x.pc = "set" => \A k \in Jobs \ {j} : job[k].pc \in Comparing => x.ct <= job[k].ct
  BY Zenon, <1>3, <1>6 DEF HashInv
<1>10. QED
  BY Zenon, <1>2, <1>5, <1>6, <1>7, <1>8, <1>9, JobStep

\* SnapshotHash: a new job has nothing of an earlier one.
LEMMA StartStep == ASSUME HashInv, NEW j \in Jobs, NEW r \in BOOLEAN, SnapshotHash(j, r) PROVE HashInv'
<1>1. job[j].pc = "idle" /\ lock # j /\ ctime \in Nat
  BY Zenon DEF SnapshotHash, HashAt, HashInv, HashTypeOK, Locked
<1>2. UNCHANGED <<snapFile, ctime, rotted, info, reply, detected, lock>>
  BY Zenon DEF SnapshotHash, content
<1>3. PICK x : x = [Idle EXCEPT !.pc = "lock", !.rehash = r]
  BY Zenon
<1>4. job' = [job EXCEPT ![j] = x]
  BY Zenon, <1>3 DEF SnapshotHash, Set
<1>5. x \in JobRecord /\ x.pc = "lock" /\ x.ct = 0 /\ x.sum = <<>> /\ ~x.hashed /\ ~x.corrupted
  <2>1. PICK y : y = Idle
    BY Zenon
  <2>2. y \in JobRecord /\ y.ct = 0 /\ y.sum = <<>> /\ ~y.hashed /\ ~y.corrupted
    BY <2>1 DEF Idle, JobRecord, HashLabels
  <2>3. QED
    BY Zenon, <1>3, <2>1, <2>2 DEF JobRecord, HashLabels
<1>6. JobOK(x)
  BY <1>1, <1>5 DEF JobOK, Comparing
<1>7. QED
  BY Zenon, <1>1, <1>2, <1>4, <1>5, <1>6, JobStep DEF Locked, Comparing

\* Change and Rot: what was read before no longer counts.
LEMMA FileStep ==
  ASSUME HashInv, Change \/ Rot
  PROVE  HashInv'
<1>1. /\ info' = info /\ lock' = lock /\ job' = job /\ reply' = reply
      /\ ctime' \in Nat \ {0} /\ ctime <= ctime' /\ (ctime' = ctime => rotted') /\ ctime \in Nat
      /\ rotted' \in BOOLEAN /\ detected' \in BOOLEAN
  <2>1. ctime \in Nat \ {0} /\ detected \in BOOLEAN
    BY Zenon DEF HashInv, HashTypeOK
  <2>2. CASE Change
    <3>1. ctime' = ctime + 1 /\ rotted' = FALSE /\ detected' = FALSE /\ UNCHANGED <<info, lock, job, reply>>
      BY Zenon, <2>2 DEF Change
    <3>2. rotted' \in BOOLEAN /\ detected' \in BOOLEAN
      BY Zenon, <3>1
    <3>3. QED
      BY <2>1, <3>1, <3>2
  <2>3. CASE Rot
    <3>1. ctime' = ctime /\ rotted' = TRUE /\ detected' = detected /\ UNCHANGED <<info, lock, job, reply>>
      BY Zenon, <2>3 DEF Rot
    <3>2. rotted' \in BOOLEAN /\ detected' \in BOOLEAN
      BY Zenon, <2>1, <3>1
    <3>3. QED
      BY <2>1, <3>1, <3>2
  <2>4. QED
    BY Zenon, <2>2, <2>3
<1>2. snapFile' \in [1..NumBlocks -> Values]
  BY Zenon DEF Change, Rot, HashInv, HashTypeOK
<1>3. HashTypeOK'
  BY Zenon, <1>1, <1>2 DEF HashInv, HashTypeOK
<1>4. info.ct <= ctime /\ reply.ct <= ctime
  BY Zenon DEF HashInv
<1>5. info'.ct <= ctime' /\ reply'.ct <= ctime'
  <2>1. PICK a, b : a = info.ct /\ b = reply.ct
    BY Zenon
  <2>2. a \in Nat
    BY <2>1 DEF HashInv, HashTypeOK, InfoRecord, None
  <2>3. b \in Nat
    BY Zenon, <2>1 DEF HashInv, HashTypeOK
  <2>4. QED
    BY <1>1, <1>4, <2>1, <2>2, <2>3
<1>6. \A k \in Jobs : JobOK(job[k])'
  <2>1. ASSUME NEW k \in Jobs PROVE JobOK(job[k])'
    <3>1. PICK y : y = job[k]
      BY Zenon
    <3>2. JobOK(y) /\ y \in JobRecord
      BY Zenon, <3>1 DEF HashInv, HashTypeOK
    <3>3. y.ct <= ctime' /\ ~Current(y)'
      BY <1>1, <3>2 DEF JobOK, JobRecord, Current
    <3>4. JobOK(y)'
      BY Zenon, <1>1, <3>2, <3>3 DEF JobOK
    <3>5. QED
      BY Zenon, <1>1, <3>1, <3>4 DEF JobOK, Current
  <2>2. QED
    BY Zenon, <2>1
<1>7. StoredExact' /\ NoFalseAlarm' /\ ReportedExact'
  BY <1>1, <1>4, <1>5 DEF StoredExact, NoFalseAlarm, ReportedExact
<1>8. QED
  BY Zenon, <1>1, <1>3, <1>5, <1>6, <1>7 DEF HashInv

\* HashCrash: the checksum file is all that outlives the agent.
LEMMA CrashStep == ASSUME HashInv, HashCrash PROVE HashInv'
<1>1. Idle \in JobRecord /\ Idle.pc = "idle" /\ Idle.ct = 0
  BY DEF Idle, JobRecord, HashLabels
<1>2. /\ job' = [j \in Jobs |-> Idle] /\ lock' = "free"
      /\ UNCHANGED <<snapFile, ctime, rotted, info, reply, detected>>
  BY Zenon DEF HashCrash, content
<1>3. \A k \in Jobs : job'[k] = Idle /\ lock' # k
  BY Zenon, <1>2, HashAssumption
<1>4. job' \in [Jobs -> JobRecord]
  BY Zenon, <1>1, <1>2
<1>5. HashTypeOK'
  BY Zenon, <1>2, <1>4 DEF HashInv, HashTypeOK
<1>6. JobOK(Idle)'
  <2>1. ctime' \in Nat
    BY Zenon, <1>5 DEF HashTypeOK
  <2>2. QED
    BY <1>1, <2>1 DEF JobOK, Comparing
<1>7. \A k \in Jobs : JobOK(job[k])'
  BY Zenon, <1>3, <1>6 DEF JobOK, Current
<1>8. StoredExact' /\ NoFalseAlarm' /\ ReportedExact'
  BY Zenon, <1>2 DEF HashInv, StoredExact, NoFalseAlarm, ReportedExact
<1>9. QED
  BY Zenon, <1>1, <1>2, <1>3, <1>5, <1>7, <1>8 DEF HashInv, Locked, Comparing

\* SnapshotHashStatus: an answer from the checksum file says what the file says.
LEMMA StatusStep == ASSUME HashInv, SnapshotHashStatus PROVE HashInv'
<1>1. UNCHANGED <<snapFile, ctime, rotted, info, detected, job, lock>>
  BY Zenon DEF SnapshotHashStatus, content
<1>2. /\ reply'.ct = ctime
      /\ reply'.state = "complete" /\ reply'.file => info # None /\ info.ct = ctime /\ reply'.sum = info.sum
  BY Zenon DEF SnapshotHashStatus
<1>3. ctime \in Nat /\ StoredExact
  BY Zenon DEF HashInv, HashTypeOK
<1>4. HashTypeOK'
  BY Zenon, <1>1, <1>2, <1>3 DEF HashInv, HashTypeOK
<1>5. \A k \in Jobs : JobOK(job[k])'
  BY Zenon, <1>1 DEF HashInv, JobOK, Current
<1>6. StoredExact' /\ NoFalseAlarm'
  BY Zenon, <1>1 DEF HashInv, StoredExact, NoFalseAlarm
<1>7. ReportedExact'
  BY Zenon, <1>1, <1>2, <1>3 DEF StoredExact, ReportedExact
<1>8. QED
  BY <1>1, <1>2, <1>3, <1>4, <1>5, <1>6, <1>7 DEF HashInv

\* A step that changes none of the variables the invariant is about.
LEMMA HashStutters ==
  ASSUME HashInv, UNCHANGED <<snapFile, ctime, rotted, info, detected, job, lock, reply>>
  PROVE  HashInv'
<1>1. HashTypeOK'
  BY Zenon DEF HashInv, HashTypeOK
<1>2. \A k \in Jobs : JobOK(job[k])'
  BY Zenon DEF HashInv, JobOK, Current
<1>3. StoredExact' /\ NoFalseAlarm' /\ ReportedExact'
  BY Zenon DEF HashInv, StoredExact, NoFalseAlarm, ReportedExact
<1>4. QED
  BY Zenon, <1>1, <1>2, <1>3 DEF HashInv

\* Every step keeps the invariant.
LEMMA HashStep == HashInv /\ [HashNext]_hashVars => HashInv'
<1> SUFFICES ASSUME HashInv, [HashNext]_hashVars PROVE HashInv'
  BY Zenon
<1>1. ASSUME NEW j \in Jobs, Execute(j) PROVE HashInv'
  BY Zenon, <1>1, LockStep, LookupStep, ReadStep, CompareStep, RereadStep, UnlockStep, SetStep, RemainStep, DeleteStep
     DEF Execute
<1>2. CASE Drop \/ UNCHANGED hashVars
  BY Zenon, <1>2, HashStutters DEF Drop, hashVars, content
<1>3. QED
  BY Zenon, <1>1, <1>2, StartStep, CancelStep, StatusStep, FileStep, CrashStep DEF HashNext

\* However the file changes or rots while jobs run, and wherever the agent dies, a
\* checksum with the change time of the file is that of its content, and so is one that
\* SnapshotHashStatus answers from the checksum file.
THEOREM ChecksumsExact == HashSpec => []ChecksumExact
<1>1. HashInv => ChecksumExact
  BY Zenon DEF HashInv, ChecksumExact
<1>2. QED
  BY <1>1, HashStarts, HashStep, PTL DEF HashSpec

-----------------------------------------------------------------------------
\* Jobs one at a time (each member of Jobs stands for any number of jobs, one after the
\* other): a job that begins after a detection ends where it looks the detection up.
LEMMA DetectionStays ==
  ASSUME HashInv, DetectInv, [HashNext]_hashVars, \A j, k \in Jobs : j = k
  PROVE  DetectInv'
<1>1. ctime \in Nat \ {0} /\ None.ct = 0 /\ job \in [Jobs -> JobRecord]
  BY Zenon DEF HashInv, HashTypeOK, None
<1>2. CASE Change
  BY Zenon, <1>2 DEF Change, DetectInv
<1>3. CASE Rot \/ SnapshotHashStatus \/ Drop \/ UNCHANGED hashVars
  <2>1. UNCHANGED <<detected, info, ctime, job>>
    BY Zenon, <1>3 DEF Rot, SnapshotHashStatus, Drop, hashVars, content
  <2>2. QED
    BY Zenon, <2>1 DEF DetectInv
<1>4. CASE HashCrash
  <2>1. UNCHANGED <<detected, info, ctime>> /\ \A k \in Jobs : job'[k] = Idle
    BY Zenon, <1>4 DEF HashCrash, content
  <2>2. Idle.pc = "idle"
    BY Zenon DEF Idle
  <2>3. QED
    BY Zenon, <2>1, <2>2 DEF DetectInv
<1>5. ASSUME NEW j \in Jobs, NEW x, job' = [job EXCEPT ![j] = x], UNCHANGED <<detected, info, ctime>>,
             detected => /\ x.pc \notin {"rehash", "hash", "compare", "reread", "set", "delete"}
                         /\ x.pc = "unlock" => ~x.hashed
                         /\ x.pc \in {"detected", "remain"} => x.ct = ctime
      PROVE  DetectInv'
  <2>1. \A k \in Jobs : job'[k] = x
    BY Zenon, <1>1, <1>5
  <2>2. QED
    BY Zenon, <1>5, <2>1 DEF DetectInv
<1>6. ASSUME NEW j \in Jobs, NEW r \in BOOLEAN, SnapshotHash(j, r) PROVE DetectInv'
  <2>1. PICK x : x = [Idle EXCEPT !.pc = "lock", !.rehash = r]
    BY Zenon
  <2>2. x.pc = "lock"
    BY Zenon, <2>1 DEF Idle
  <2>3. job' = [job EXCEPT ![j] = x] /\ UNCHANGED <<detected, info, ctime>>
    BY Zenon, <1>6, <2>1 DEF SnapshotHash, Set, content
  <2>4. QED
    BY Zenon, <1>5, <2>2, <2>3
<1>7. ASSUME NEW j \in Jobs, LockFile(j) PROVE DetectInv'
  <2>1. PICK x : x = [job[j] EXCEPT !.pc = "detected", !.ct = ctime]
    BY Zenon
  <2>2. x.pc = "detected" /\ x.ct = ctime
    BY Zenon, <1>1, <2>1 DEF JobRecord
  <2>3. job' = [job EXCEPT ![j] = x] /\ UNCHANGED <<detected, info, ctime>>
    BY Zenon, <1>7, <2>1 DEF LockFile, Set, content
  <2>4. QED
    BY Zenon, <1>5, <2>2, <2>3
<1>8. ASSUME NEW j \in Jobs, SnapshotHashCancel(j) PROVE DetectInv'
  <2>1. PICK x : x = [job[j] EXCEPT !.cancelled = TRUE]
    BY Zenon
  <2>2. x.pc = job[j].pc /\ x.ct = job[j].ct /\ x.hashed = job[j].hashed
    BY Zenon, <1>1, <2>1 DEF JobRecord
  <2>3. job' = [job EXCEPT ![j] = x] /\ UNCHANGED <<detected, info, ctime>>
    BY Zenon, <1>8, <2>1 DEF SnapshotHashCancel, Set, content
  <2>4. QED
    BY Zenon, <1>5, <2>2, <2>3 DEF DetectInv
<1>9. ASSUME NEW j \in Jobs, isSilentCorruptionAlreadyDetected(j) PROVE DetectInv'
  <2>1. job[j].pc = "detected" /\ ~job[j].hashed /\ UNCHANGED <<detected, info, ctime>>
    BY Zenon, <1>9 DEF isSilentCorruptionAlreadyDetected, HashAt, content, HashInv, JobOK
  <2>2. PICK x : x = IF info # None /\ info.ct = job[j].ct /\ info.corrupted
                     THEN [job[j] EXCEPT !.pc = "unlock", !.corrupted = TRUE, !.state = "complete"]
                     ELSE [job[j] EXCEPT !.pc = "rehash"]
    BY Zenon
  <2>3. job' = [job EXCEPT ![j] = x]
    BY Zenon, <1>9, <2>2 DEF isSilentCorruptionAlreadyDetected, Set, HashGoto
  <2>4. detected => info # None /\ info.ct = job[j].ct /\ info.corrupted
    BY Zenon, <1>1, <2>1 DEF DetectInv
  <2>5. detected => x.pc = "unlock" /\ ~x.hashed
    BY Zenon, <1>1, <2>1, <2>2, <2>4 DEF JobRecord
  <2>6. QED
    BY Zenon, <1>5, <2>1, <2>3, <2>5
<1>10. ASSUME NEW j \in Jobs, isRehashRequired(j) \/ hashSnapshot(j) \/ Compare(j) \/ Reread(j) PROVE DetectInv'
  <2>1. job[j].pc \in {"rehash", "hash", "compare", "reread"} /\ UNCHANGED <<detected, info, ctime>>
    BY Zenon, <1>10 DEF isRehashRequired, hashSnapshot, Compare, Reread, HashAt, content
  <2>2. QED
    BY Zenon, <2>1 DEF DetectInv
<1>11. ASSUME NEW j \in Jobs, UnlockFile(j) PROVE DetectInv'
  <2>1. job[j].pc = "unlock" /\ UNCHANGED <<detected, info, ctime>>
    BY Zenon, <1>11 DEF UnlockFile, HashAt, content
  <2>2. PICK x : x = IF job[j].state = "complete" /\ job[j].hashed THEN [job[j] EXCEPT !.pc = "set"]
                     ELSE [job[j] EXCEPT !.pc = "idle"]
    BY Zenon
  <2>3. job' = [job EXCEPT ![j] = x]
    BY Zenon, <1>11, <2>2 DEF UnlockFile, Set
  <2>4. detected => x.pc = "idle"
    BY Zenon, <1>1, <2>1, <2>2 DEF DetectInv, JobRecord
  <2>5. QED
    BY Zenon, <1>5, <2>1, <2>3, <2>4
<1>12. ASSUME NEW j \in Jobs, isChangeTimeRemain(j) PROVE DetectInv'
  <2>1. job[j].pc = "remain" /\ UNCHANGED <<detected, info, ctime>>
    BY Zenon, <1>12 DEF isChangeTimeRemain, HashAt, content
  <2>2. PICK x : x = IF job[j].ct = ctime THEN [job[j] EXCEPT !.pc = "idle"]
                     ELSE [job[j] EXCEPT !.pc = "delete", !.state = "error"]
    BY Zenon
  <2>3. job' = [job EXCEPT ![j] = x]
    BY Zenon, <1>12, <2>2 DEF isChangeTimeRemain, Set, HashGoto
  <2>4. detected => x.pc = "idle"
    BY Zenon, <1>1, <2>1, <2>2 DEF DetectInv, JobRecord
  <2>5. QED
    BY Zenon, <1>5, <2>1, <2>3, <2>4
<1>13. ASSUME NEW j \in Jobs, DeleteSnapshotHashInfoChecksumFile(j) PROVE DetectInv'
  <2>1. job[j].pc = "delete" /\ detected' = detected
    BY Zenon, <1>13 DEF DeleteSnapshotHashInfoChecksumFile, HashAt
  <2>2. QED
    BY Zenon, <2>1 DEF DetectInv
<1>14. ASSUME NEW j \in Jobs, SetSnapshotHashInfoToChecksumFile(j) PROVE DetectInv'
  <2>1. job[j].pc = "set" /\ ctime' = ctime /\ ~detected
    BY Zenon, <1>14 DEF SetSnapshotHashInfoToChecksumFile, HashAt, content, DetectInv
  <2>2. PICK x : x = [job[j] EXCEPT !.pc = "remain"]
    BY Zenon
  <2>3. x.pc = "remain" /\ x.ct = job[j].ct
    BY Zenon, <1>1, <2>2 DEF JobRecord
  <2>4. \A k \in Jobs : job'[k] = x
    BY Zenon, <1>1, <1>14, <2>2 DEF SetSnapshotHashInfoToChecksumFile, HashGoto, Set
  <2>5. detected' => info'.ct = job[j].ct /\ info'.corrupted /\ job[j].ct = ctime
    <3>1. CASE UNCHANGED <<info, detected>>
      BY Zenon, <2>1, <3>1
    <3>2. CASE /\ info' = [sum |-> job[j].sum, ct |-> job[j].ct, corrupted |-> job[j].corrupted]
               /\ detected' = (detected \/ (job[j].corrupted /\ job[j].ct = ctime))
      BY Zenon, <2>1, <3>2
    <3>3. QED
      BY Zenon, <1>14, <3>1, <3>2 DEF SetSnapshotHashInfoToChecksumFile
  <2>6. QED
    BY Zenon, <2>1, <2>3, <2>4, <2>5 DEF DetectInv
<1>15. QED
  BY Zenon, <1>2, <1>3, <1>4, <1>6, <1>7, <1>8, <1>9, <1>10, <1>11, <1>12, <1>13, <1>14 DEF HashNext, Execute

\* Silent corruption is recorded only of a file that rotted, and, jobs being run one
\* after the other, once recorded it stays recorded until the snapshot is changed.
THEOREM DetectionHolds ==
  ASSUME \A j, k \in Jobs : j = k
  PROVE  HashSpec => []DetectionSticks
<1>1. HashInit => DetectInv
  BY Zenon DEF HashInit, DetectInv
<1>2. HashInv /\ DetectInv /\ [HashNext]_hashVars => DetectInv'
  BY Zenon, DetectionStays
<1>3. HashInv /\ DetectInv => DetectionSticks
  BY DEF HashInv, HashTypeOK, DetectInv, DetectionSticks, DetectionKept, None
<1>4. QED
  BY <1>1, <1>2, <1>3, HashStarts, HashStep, PTL DEF HashSpec

-----------------------------------------------------------------------------
CloneLabels == {"new", "prepare", "launch", "export", "meta", "revert", "status", "finish", "done"}
CallRecord == [pc : CloneLabels, name : Snapshots \cup {"none"}, port : Nat, err : BOOLEAN,
               result : {"none", "ok", "error"}]

CloneTypeOK ==
    /\ isCloning \in BOOLEAN
    /\ status \in [state : {"none", "in_progress", "complete", "error"}, name : Snapshots \cup {"none"}]
    /\ call \in [Calls -> CallRecord]
    /\ current \in Ports
    /\ receiver \in [Ports -> Snapshots \cup {"none"}]
    /\ cloneFile \in [Snapshots -> Snapshots \cup {"none", "part"}]

AllFree == \A p \in Ports : receiver[p] = "none"

\* What holds of the variables x of one call: the status names what it clones, and the
\* only receiver is the one that it started.
CallOK(x) ==
    /\ x.pc = "prepare" => ~isCloning /\ x.name \in Snapshots
    /\ x.pc \in {"launch", "export", "meta", "revert"} =>
          x.name \in Snapshots /\ status.state = "in_progress" /\ status.name = x.name
    /\ x.pc = "export" => x.port \in Ports /\ receiver[x.port] = x.name /\ \A p \in Ports \ {x.port} : receiver[p] = "none"
    /\ x.pc # "export" => x.pc \in {"new", "done"} \/ AllFree
    /\ x.pc \in {"meta", "revert"} => cloneFile[x.name] = x.name
    /\ x.pc = "status" =>
          status.state = "in_progress" /\ (~x.err => cloneHead = status.name /\ cloneFile[status.name] = status.name)

\* The inductive invariant of calls that do not overlap.
CloneInv ==
    /\ CloneTypeOK
    /\ \A c, d \in Calls : call[c].pc \notin {"new", "done"} /\ call[d].pc \notin {"new", "done"} => c = d
    /\ (\A c \in Calls : call[c].pc \in {"new", "done"}) => ~isCloning /\ AllFree
    /\ \A c \in Calls : CallOK(call[c])
    /\ CloneExact

\* A step of the one call that is pending.
LEMMA CallStep ==
  ASSUME CloneInv, NEW c \in Calls, CloneTypeOK', CloneExact',
         call[c].pc \in {"new", "done"} => \A d \in Calls : call[d].pc \in {"new", "done"},
         \A d \in Calls \ {c} : call'[d] = call[d],
         CallOK(call[c])',
         call'[c].pc \in {"new", "done"} => ~isCloning' /\ AllFree'
  PROVE  CloneInv'
<1>1. \A d \in Calls \ {c} : call[d].pc \in {"new", "done"}
  BY Zenon DEF CloneInv
<1>2. \A d \in Calls \ {c} : CallOK(call[d])'
  BY Zenon, <1>1 DEF CallOK
<1>3. QED
  BY Zenon, <1>1, <1>2 DEF CloneInv

\* The invariant holds at the start.
LEMMA CloneStarts == CloneInit => CloneInv
<1> SUFFICES ASSUME CloneInit PROVE CloneInv
  BY Zenon
<1>1. New \in CallRecord /\ New.pc = "new"
  BY Zenon DEF New, CallRecord, CloneLabels
<1>2. call \in [Calls -> CallRecord] /\ \A c \in Calls : call[c] = New
  BY Zenon, <1>1 DEF CloneInit
<1>3. isCloning = FALSE /\ status = [state |-> "none", name |-> "none"] /\ current = 1
  BY Zenon DEF CloneInit
<1>4. receiver \in [Ports -> Snapshots \cup {"none"}] /\ AllFree
  BY Zenon DEF CloneInit, AllFree
<1>5. cloneFile \in [Snapshots -> Snapshots \cup {"none", "part"}]
  BY Zenon DEF CloneInit
<1>6. current \in Ports /\ isCloning \in BOOLEAN /\ status.state = "none"
      /\ status \in [state : {"none", "in_progress", "complete", "error"}, name : Snapshots \cup {"none"}]
  <2>1. isCloning \in BOOLEAN
    BY Zenon, <1>3
  <2>2. QED
    BY <1>3, <2>1, CloneAssumption DEF Ports
<1>7. CloneTypeOK
  BY Zenon, <1>2, <1>4, <1>5, <1>6 DEF CloneTypeOK
<1>8. CallOK(New) /\ CloneExact
  BY Zenon, <1>1, <1>6 DEF CallOK, CloneExact
<1>9. QED
  BY Zenon, <1>1, <1>2, <1>3, <1>4, <1>7, <1>8 DEF CloneInv

\* Start: with no call pending there is nothing left of an earlier one but the status,
\* the files and the head.
LEMMA CloneStartStep == ASSUME ~Overlap, CloneInv, NEW c \in Calls, NEW n \in Snapshots, Start(c, n) PROVE CloneInv'
<1>1. /\ call[c].pc = "new" /\ call[c] \in CallRecord /\ call \in [Calls -> CallRecord]
      /\ \A d \in Calls : call[d].pc \in {"new", "done"}
  BY Zenon DEF Start, CloneAt, Pending, CloneInv, CloneTypeOK
<1>2. UNCHANGED <<isCloning, status, current, receiver, cloneFile, cloneHead>> /\ ~isCloning /\ AllFree /\ AllFree'
  BY Zenon, <1>1 DEF Start, CloneInv, AllFree
<1>3. PICK y : y = call[c]
  BY Zenon
<1>4. ASSUME NEW x \in CallRecord, call' = [call EXCEPT ![c] = x],
             x.pc = "done" \/ (x.pc = "prepare" /\ x.name \in Snapshots)
      PROVE  CloneInv'
  <2>1. call'[c] = x /\ \A d \in Calls \ {c} : call'[d] = call[d]
    BY Zenon, <1>1, <1>4
  <2>2. CloneTypeOK' /\ CloneExact'
    BY Zenon, <1>2, <1>4 DEF CloneInv, CloneTypeOK, CloneExact
  <2>3. CallOK(call[c])'
    BY Zenon, <1>2, <1>4, <2>1 DEF CallOK
  <2>4. QED
    BY Zenon, <1>1, <1>2, <2>1, <2>2, <2>3, CallStep
<1>5. CASE call' = [call EXCEPT ![c].pc = "prepare", ![c].name = n]
  <2>1. PICK x : x = [y EXCEPT !.pc = "prepare", !.name = n]
    BY Zenon
  <2>2. x \in CallRecord /\ x.pc = "prepare" /\ x.name = n
    BY Zenon, <1>1, <1>3, <2>1 DEF CallRecord, CloneLabels
  <2>3. QED
    BY Zenon, <1>1, <1>3, <1>4, <1>5, <2>1, <2>2
<1>6. CASE call' = [call EXCEPT ![c].pc = "done", ![c].result = "error"]
  <2>1. PICK x : x = [y EXCEPT !.pc = "done", !.result = "error"]
    BY Zenon
  <2>2. x \in CallRecord /\ x.pc = "done"
    BY Zenon, <1>1, <1>3, <2>1 DEF CallRecord, CloneLabels
  <2>3. QED
    BY Zenon, <1>1, <1>3, <1>4, <1>6, <2>1, <2>2
<1>7. QED
  BY Zenon, <1>5, <1>6 DEF Start

\* What is true of a call that has prepared: its variables, and the receivers.
LEMMA FailedStep ==
  ASSUME CloneInv, NEW c \in Calls, call[c].pc \notin {"new", "done"}, Failed(c), status.state = "in_progress",
         UNCHANGED <<isCloning, status>>, current' \in Ports, AllFree',
         receiver' \in [Ports -> Snapshots \cup {"none"}], cloneFile' \in [Snapshots -> Snapshots \cup {"none", "part"}]
  PROVE  CloneInv'
<1>1. PICK y \in CallRecord : y = call[c]
  BY Zenon DEF CloneInv, CloneTypeOK
<1>2. PICK x : x = [y EXCEPT !.pc = "status", !.err = TRUE]
  BY Zenon
<1>3. x \in CallRecord /\ x.pc = "status" /\ x.err
  BY Zenon, <1>1, <1>2 DEF CallRecord, CloneLabels
<1>4. call \in [Calls -> CallRecord]
  BY Zenon DEF CloneInv, CloneTypeOK
<1>5. call' = [call EXCEPT ![c] = x]
  BY Zenon, <1>1, <1>2, <1>4 DEF Failed
<1>6. call'[c] = x /\ call' \in [Calls -> CallRecord] /\ \A d \in Calls \ {c} : call'[d] = call[d]
  BY Zenon, <1>3, <1>4, <1>5
<1>7. CloneTypeOK' /\ CloneExact'
  BY Zenon, <1>6 DEF CloneInv, CloneTypeOK, CloneExact
<1>8. CallOK(call[c])'
  BY Zenon, <1>3, <1>6 DEF CallOK
<1>9. QED
  BY Zenon, <1>3, <1>6, <1>7, <1>8, CallStep

\* A step of a call that goes on to label l and leaves its other variables alone.
LEMMA GoesOn ==
  ASSUME CloneInv, NEW c \in Calls, NEW l \in CloneLabels, call[c].pc \notin {"new", "done"}, CloneGoto(c, l)
  PROVE  /\ call' \in [Calls -> CallRecord] /\ \A d \in Calls \ {c} : call'[d] = call[d]
         /\ call'[c].pc = l /\ call'[c].name = call[c].name /\ call'[c].port = call[c].port /\ call'[c].err = call[c].err
<1>1. PICK y \in CallRecord : y = call[c]
  BY Zenon DEF CloneInv, CloneTypeOK
<1>2. PICK x : x = [y EXCEPT !.pc = l]
  BY Zenon
<1>3. x \in CallRecord /\ x.pc = l /\ x.name = y.name /\ x.port = y.port /\ x.err = y.err
  BY Zenon, <1>1, <1>2 DEF CallRecord
<1>4. call \in [Calls -> CallRecord] /\ call' = [call EXCEPT ![c] = x]
  BY Zenon, <1>1, <1>2 DEF CloneGoto, CloneInv, CloneTypeOK
<1>5. QED
  BY Zenon, <1>1, <1>3, <1>4

\* prepareClone.
LEMMA PrepareStep == ASSUME CloneInv, NEW c \in Calls, prepareClone(c) PROVE CloneInv'
<1>1. /\ call[c].pc = "prepare" /\ CallOK(call[c]) /\ call[c].name \in Snapshots /\ ~isCloning /\ AllFree
  BY Zenon DEF prepareClone, CloneAt, CloneInv, CallOK
<1>2. /\ UNCHANGED <<current, receiver, cloneFile, cloneHead>> /\ CloneGoto(c, "launch")
      /\ isCloning' = TRUE /\ status' = [state |-> "in_progress", name |-> call[c].name]
  BY Zenon, <1>1 DEF prepareClone
<1>3. PICK n \in Snapshots : n = call[c].name
  BY Zenon, <1>1
<1>4. status'.state = "in_progress" /\ status'.name = n
      /\ status' \in [state : {"none", "in_progress", "complete", "error"}, name : Snapshots \cup {"none"}]
  BY Zenon, <1>2, <1>3
<1>5. /\ call' \in [Calls -> CallRecord] /\ \A d \in Calls \ {c} : call'[d] = call[d]
      /\ call'[c].pc = "launch" /\ call'[c].name = n
  BY Zenon, <1>1, <1>2, <1>3, GoesOn DEF CloneLabels
<1>6. CloneTypeOK' /\ CloneExact'
  <2>1. isCloning' \in BOOLEAN
    BY Zenon, <1>2
  <2>2. QED
    BY Zenon, <1>2, <1>4, <1>5, <2>1 DEF CloneInv, CloneTypeOK, CloneExact
<1>7. AllFree'
  BY Zenon, <1>1, <1>2 DEF AllFree
<1>8. CallOK(call[c])'
  BY Zenon, <1>3, <1>4, <1>5, <1>7 DEF CallOK
<1>9. QED
  BY Zenon, <1>1, <1>5, <1>6, <1>8, CallStep

\* nextPort is one of the ports.
LEMMA PortChosen == ASSUME current \in Ports, AllFree PROVE nextPort \in Ports
<1>1. \A q \in Ports : Round(current) <= Round(q)
  BY CloneAssumption DEF Ports, Round
<1>2. \E p \in Ports : Free(p) /\ \A q \in Ports : Free(q) => Round(p) <= Round(q)
  BY Zenon, <1>1 DEF Free, AllFree
<1>3. QED
  BY Zenon, <1>2 DEF nextPort

\* launchReceiver.
LEMMA LaunchStep == ASSUME CloneInv, NEW c \in Calls, launchReceiver(c) PROVE CloneInv'
<1>1. /\ call[c].pc = "launch" /\ call[c].name \in Snapshots /\ AllFree /\ current \in Ports
      /\ status.state = "in_progress" /\ status.name = call[c].name
      /\ call \in [Calls -> CallRecord] /\ receiver \in [Ports -> Snapshots \cup {"none"}]
  BY Zenon DEF launchReceiver, CloneAt, CloneInv, CallOK, CloneTypeOK
<1>2. PICK p \in Ports : p = nextPort
  BY Zenon, <1>1, PortChosen
<1>3. /\ UNCHANGED <<isCloning, status, cloneFile, cloneHead>>
      /\ call' = [call EXCEPT ![c].pc = "export", ![c].port = p]
      /\ receiver' = [receiver EXCEPT ![p] = status.name]
      /\ current' = (p % NumPorts) + 1
  BY Zenon, <1>1, <1>2 DEF launchReceiver, Free, AllFree
<1>4. PICK y \in CallRecord : y = call[c]
  BY Zenon, <1>1
<1>5. PICK x : x = [y EXCEPT !.pc = "export", !.port = p]
  BY Zenon
<1>6. x \in CallRecord /\ x.pc = "export" /\ x.port = p /\ x.name = y.name
  <2>1. p \in Nat
    BY CloneAssumption DEF Ports
  <2>2. QED
    BY Zenon, <1>4, <1>5, <2>1 DEF CallRecord, CloneLabels
<1>7. call' = [call EXCEPT ![c] = x]
  BY Zenon, <1>1, <1>3, <1>4, <1>5
<1>8. call'[c] = x /\ call' \in [Calls -> CallRecord] /\ \A d \in Calls \ {c} : call'[d] = call[d]
  BY Zenon, <1>1, <1>6, <1>7
<1>9. receiver' \in [Ports -> Snapshots \cup {"none"}] /\ receiver'[p] = y.name
      /\ \A q \in Ports \ {p} : receiver'[q] = "none"
  BY Zenon, <1>1, <1>3, <1>4 DEF AllFree
<1>10. current' \in Ports
  <2>1. ASSUME NEW a \in Int, NEW b \in Nat \ {0} PROVE a % b \in 0..(b - 1)
    OBVIOUS
  <2>2. p % NumPorts \in 0..(NumPorts - 1)
    BY <2>1, CloneAssumption DEF Ports
  <2>3. QED
    BY <1>3, <2>2, CloneAssumption DEF Ports
<1>11. CloneTypeOK' /\ CloneExact'
  BY Zenon, <1>1, <1>3, <1>8, <1>9, <1>10 DEF CloneInv, CloneTypeOK, CloneExact
<1>12. CallOK(call[c])'
  BY Zenon, <1>1, <1>3, <1>4, <1>6, <1>8, <1>9 DEF CallOK
<1>13. QED
  BY Zenon, <1>1, <1>6, <1>8, <1>11, <1>12, CallStep

\* ExportVolume: the receiver on the call's port writes the file the call is about.
LEMMA ExportStep == ASSUME CloneInv, NEW c \in Calls, ExportVolume(c) PROVE CloneInv'
<1>1. PICK y \in CallRecord : y = call[c]
  BY Zenon DEF CloneInv, CloneTypeOK
<1>2. /\ y.pc = "export" /\ y.name \in Snapshots /\ status.state = "in_progress" /\ status.name = y.name
      /\ y.port \in Ports /\ receiver[y.port] = y.name /\ \A q \in Ports \ {y.port} : receiver[q] = "none"
      /\ receiver \in [Ports -> Snapshots \cup {"none"}] /\ current \in Ports
      /\ cloneFile \in [Snapshots -> Snapshots \cup {"none", "part"}]
  BY Zenon, <1>1 DEF ExportVolume, CloneAt, CloneInv, CallOK, CloneTypeOK
<1>3. PICK p \in Ports, n \in Snapshots : p = y.port /\ n = y.name
  BY Zenon, <1>2
<1>4. /\ receiver' = [receiver EXCEPT ![p] = "none"]
      /\ UNCHANGED <<isCloning, status, current, cloneHead>>
      /\ \/ cloneFile' = [cloneFile EXCEPT ![n] = n] /\ CloneGoto(c, "meta")
         \/ cloneFile' = [cloneFile EXCEPT ![n] = "part"] /\ Failed(c)
  <2>1. n # "none"
    BY Zenon, CloneAssumption
  <2>2. QED
    BY Zenon, <1>1, <1>2, <1>3, <2>1 DEF ExportVolume
<1>5. receiver' \in [Ports -> Snapshots \cup {"none"}] /\ AllFree'
  BY Zenon, <1>2, <1>3, <1>4 DEF AllFree
<1>6. CASE cloneFile' = [cloneFile EXCEPT ![n] = "part"] /\ Failed(c)
  <2>1. cloneFile' \in [Snapshots -> Snapshots \cup {"none", "part"}]
    BY Zenon, <1>2, <1>6
  <2>2. QED
    BY Zenon, <1>1, <1>2, <1>4, <1>5, <1>6, <2>1, FailedStep
<1>7. CASE cloneFile' = [cloneFile EXCEPT ![n] = n] /\ CloneGoto(c, "meta")
  <2>1. cloneFile' \in [Snapshots -> Snapshots \cup {"none", "part"}] /\ cloneFile'[n] = n
    BY Zenon, <1>2, <1>7
  <2>2. /\ call' \in [Calls -> CallRecord] /\ \A d \in Calls \ {c} : call'[d] = call[d]
        /\ call'[c].pc = "meta" /\ call'[c].name = n
    BY Zenon, <1>1, <1>2, <1>3, <1>7, GoesOn DEF CloneLabels
  <2>3. CloneTypeOK' /\ CloneExact'
    BY Zenon, <1>2, <1>4, <1>5, <2>1, <2>2 DEF CloneInv, CloneTypeOK, CloneExact
  <2>4. CallOK(call[c])'
    BY Zenon, <1>2, <1>3, <1>4, <1>5, <2>1, <2>2 DEF CallOK
  <2>5. QED
    BY Zenon, <1>1, <1>2, <2>2, <2>3, <2>4, CallStep
<1>8. QED
  BY Zenon, <1>4, <1>6, <1>7

\* postCloning: the metafile, and the head that is put on the file.
LEMMA PostStep == ASSUME CloneInv, NEW c \in Calls, CreateNewSnapshotMetafile(c) \/ replicaRevert(c) PROVE CloneInv'
<1>1. PICK y \in CallRecord : y = call[c]
  BY Zenon DEF CloneInv, CloneTypeOK
<1>2. /\ y.pc \in {"meta", "revert"} /\ y.name \in Snapshots /\ status.state = "in_progress" /\ status.name = y.name
      /\ cloneFile[y.name] = y.name /\ AllFree
      /\ receiver \in [Ports -> Snapshots \cup {"none"}] /\ current \in Ports
      /\ cloneFile \in [Snapshots -> Snapshots \cup {"none", "part"}]
  BY Zenon, <1>1 DEF CreateNewSnapshotMetafile, replicaRevert, CloneAt, CloneInv, CallOK, CloneTypeOK
<1>3. UNCHANGED <<isCloning, status, current, receiver, cloneFile>> /\ AllFree'
  BY Zenon, <1>2 DEF CreateNewSnapshotMetafile, replicaRevert, AllFree
<1>4. CASE Failed(c)
  BY Zenon, <1>1, <1>2, <1>3, <1>4, FailedStep
<1>5. ASSUME NEW l \in {"revert", "status"}, CloneGoto(c, l), l = "status" => cloneHead' = status.name
      PROVE  CloneInv'
  <2>1. /\ call' \in [Calls -> CallRecord] /\ \A d \in Calls \ {c} : call'[d] = call[d]
        /\ call'[c].pc = l /\ call'[c].name = y.name
    BY Zenon, <1>1, <1>2, <1>5, GoesOn DEF CloneLabels
  <2>2. CloneTypeOK' /\ CloneExact'
    BY Zenon, <1>2, <1>3, <2>1 DEF CloneInv, CloneTypeOK, CloneExact
  <2>3. CallOK(call[c])'
    BY Zenon, <1>2, <1>3, <1>5, <2>1 DEF CallOK
  <2>4. QED
    BY Zenon, <1>1, <1>2, <1>5, <2>1, <2>2, <2>3, CallStep
<1>6. QED
  BY Zenon, <1>4, <1>5 DEF CreateNewSnapshotMetafile, replicaRevert

\* UpdateStatus: only a call without an error is complete.
LEMMA UpdateStep == ASSUME CloneInv, NEW c \in Calls, UpdateStatus(c) PROVE CloneInv'
<1>1. PICK y \in CallRecord : y = call[c]
  BY Zenon DEF CloneInv, CloneTypeOK
<1>2. /\ y.pc = "status" /\ AllFree /\ (~y.err => cloneHead = status.name /\ cloneFile[status.name] = status.name)
      /\ status \in [state : {"none", "in_progress", "complete", "error"}, name : Snapshots \cup {"none"}]
  BY Zenon, <1>1 DEF UpdateStatus, CloneAt, CloneInv, CallOK, CloneTypeOK
<1>3. /\ UNCHANGED <<isCloning, current, receiver, cloneFile, cloneHead>> /\ AllFree' /\ CloneGoto(c, "finish")
      /\ status' = [status EXCEPT !.state = IF y.err THEN "error" ELSE "complete"]
  BY Zenon, <1>1, <1>2 DEF UpdateStatus, AllFree
<1>4. /\ status' \in [state : {"none", "in_progress", "complete", "error"}, name : Snapshots \cup {"none"}]
      /\ status'.name = status.name /\ (status'.state = "complete" => ~y.err)
  BY Zenon, <1>2, <1>3
<1>5. /\ call' \in [Calls -> CallRecord] /\ \A d \in Calls \ {c} : call'[d] = call[d]
      /\ call'[c].pc = "finish"
  BY Zenon, <1>1, <1>2, <1>3, GoesOn DEF CloneLabels
<1>6. CloneTypeOK' /\ CloneExact'
  BY Zenon, <1>2, <1>3, <1>4, <1>5 DEF CloneInv, CloneTypeOK, CloneExact
<1>7. CallOK(call[c])'
  BY Zenon, <1>3, <1>5 DEF CallOK
<1>8. QED
  BY Zenon, <1>1, <1>2, <1>5, <1>6, <1>7, CallStep

\* FinishClone.
LEMMA FinishStep == ASSUME CloneInv, NEW c \in Calls, FinishClone(c) PROVE CloneInv'
<1>1. PICK y \in CallRecord : y = call[c]
  BY Zenon DEF CloneInv, CloneTypeOK
<1>2. y.pc = "finish" /\ AllFree /\ call \in [Calls -> CallRecord]
  BY Zenon, <1>1 DEF FinishClone, CloneAt, CloneInv, CallOK, CloneTypeOK
<1>3. UNCHANGED <<status, current, receiver, cloneFile, cloneHead>> /\ AllFree' /\ isCloning' = FALSE
  BY Zenon, <1>2 DEF FinishClone, AllFree
<1>4. PICK r \in {"ok", "error"} : call' = [call EXCEPT ![c].pc = "done", ![c].result = r]
  BY Zenon DEF FinishClone
<1>5. PICK x : x = [y EXCEPT !.pc = "done", !.result = r]
  BY Zenon
<1>6. x \in CallRecord /\ x.pc = "done"
  BY Zenon, <1>1, <1>5 DEF CallRecord, CloneLabels
<1>7. call' = [call EXCEPT ![c] = x]
  BY Zenon, <1>1, <1>2, <1>4, <1>5
<1>8. call'[c] = x /\ call' \in [Calls -> CallRecord] /\ \A d \in Calls \ {c} : call'[d] = call[d]
  BY Zenon, <1>2, <1>6, <1>7
<1>9. isCloning' \in BOOLEAN /\ ~isCloning'
  BY Zenon, <1>3
<1>10. CloneTypeOK' /\ CloneExact'
  BY Zenon, <1>3, <1>8, <1>9 DEF CloneInv, CloneTypeOK, CloneExact
<1>11. CallOK(call[c])'
  BY Zenon, <1>6, <1>8 DEF CallOK
<1>12. QED
  BY Zenon, <1>1, <1>2, <1>3, <1>6, <1>8, <1>9, <1>10, <1>11, CallStep

\* CloneCrash: no call is pending afterwards, and no receiver is left.
LEMMA CloneCrashStep == ASSUME CloneInv, CloneCrash PROVE CloneInv'
<1>1. PICK x : x = [New EXCEPT !.pc = "done", !.result = "error"]
  BY Zenon
<1>2. x \in CallRecord /\ x.pc = "done"
  <2>1. PICK y : y = New
    BY Zenon
  <2>2. y \in CallRecord
    BY Zenon, <2>1 DEF New, CallRecord, CloneLabels
  <2>3. QED
    BY Zenon, <1>1, <2>1, <2>2 DEF CallRecord, CloneLabels
<1>3. /\ isCloning' = FALSE /\ status' = [state |-> "none", name |-> "none"] /\ current' = 1
      /\ receiver' = [p \in Ports |-> "none"] /\ UNCHANGED <<cloneFile, cloneHead>>
      /\ call' = [c \in Calls |-> IF c \in Pending THEN x ELSE call[c]]
  BY Zenon, <1>1 DEF CloneCrash
<1>4. /\ call' \in [Calls -> CallRecord] /\ \A c \in Calls : call'[c].pc \in {"new", "done"}
  BY Zenon, <1>2, <1>3 DEF Pending, CloneInv, CloneTypeOK
<1>5. isCloning' \in BOOLEAN /\ ~isCloning'
  BY Zenon, <1>3
<1>6. receiver' \in [Ports -> Snapshots \cup {"none"}] /\ AllFree' /\ current' \in Ports
  BY <1>3, CloneAssumption DEF AllFree, Ports
<1>7. CloneTypeOK' /\ CloneExact'
  BY Zenon, <1>3, <1>4, <1>5, <1>6 DEF CloneInv, CloneTypeOK, CloneExact
<1>8. \A c \in Calls : CallOK(call[c])'
  BY Zenon, <1>4 DEF CallOK
<1>9. QED
  BY Zenon, <1>4, <1>5, <1>6, <1>7, <1>8 DEF CloneInv

\* A clone that is reported complete is there, for calls that are made one after the
\* other: the head is on the snapshot the status names, and its file holds that
\* snapshot of the source, whatever failed and wherever the agent died.
THEOREM ClonesExact ==
  ASSUME ~Overlap
  PROVE  CloneSpec => []CloneExact
<1>1. CloneInv /\ [CloneNext]_cloneVars => CloneInv'
  <2> SUFFICES ASSUME CloneInv, [CloneNext]_cloneVars PROVE CloneInv'
    BY Zenon
  <2>1. CASE UNCHANGED cloneVars
    BY <2>1 DEF cloneVars, CloneInv, CloneTypeOK, CallOK, AllFree, CloneExact
  <2>2. QED
    BY Zenon, <2>1, CloneStartStep, PrepareStep, LaunchStep, ExportStep, PostStep, UpdateStep, FinishStep, CloneCrashStep
       DEF CloneNext, Step
<1>2. CloneInv => CloneExact
  BY Zenon DEF CloneInv
<1>3. QED
  BY <1>1, <1>2, CloneStarts, PTL DEF CloneSpec

-----------------------------------------------------------------------------
\* What snapshot 2 holds once snapshot 1 is folded into it: all of the volume.
Whole == <<2, 1>>

Images == {NoImg, Written(1), Written(2), Whole}
Parents == {NoMeta, 0, 1}
TaskLists == {AllFiles(1, 2), AllFiles(2, 1), Files(2)}
TaskPcs == {"idle", "create", "transfer", "flag", "prepare", "sync", "files", "reload", "verify", "unflag"}
AnyLists == TaskLists \cup {<<>>}
Adds == [pc : TaskPcs, from : Addresses, list : AnyLists]
Syncs == [state : {"none", "in_progress", "complete", "error"}, from : Addresses, list : AnyLists,
          copied : Nat, local : BOOLEAN]

TaskType ==
    /\ mode \in [Addresses -> {"RW", "WO", "out"}]
    /\ img \in [Addresses -> [Disks -> Images]]
    /\ metaParent \in [Addresses -> [Disks -> Parents]]
    /\ removed \in [Addresses -> [Disks -> BOOLEAN]]
    /\ loaded \in [Addresses -> SUBSET Disks]
    /\ head \in [Addresses -> {0, 1, 2}]
    /\ flag \in [Addresses -> BOOLEAN]
    /\ purging \in [Addresses -> {"no", "fold", "replace"}]
    /\ add \in Adds /\ sync \in Syncs

\* A replica of the volume has all its disks, and the first may already be folded, or one.
Full(r) ==
    /\ loaded[r] = Disks /\ metaParent[r][1] = 0 /\ metaParent[r][2] = 1 /\ img[r][2] = Written(2)
    /\ img[r][1] = IF purging[r] = "replace" THEN Whole ELSE Written(1)
Purged(r) ==
    /\ loaded[r] = {2} /\ metaParent[r][1] = NoMeta /\ metaParent[r][2] = 0 /\ img[r][2] = Whole
    /\ img[r][1] = NoImg /\ purging[r] = "no"
SourceOK(r) == mode[r] = "RW" /\ ~flag[r] /\ head[r] = 2 /\ (Full(r) \/ Purged(r))

\* The second disk of the target goes with its parent.
Fresh ==
    /\ head[Target] = 2
    /\ \/ metaParent[Target][2] = 1 /\ img[Target][2] \in {Written(2), Whole}
       \/ metaParent[Target][2] = 0 /\ img[Target][2] = Whole

\* And so does the first, if it is needed.
Rebuilt ==
    /\ Fresh
    /\ metaParent[Target][2] = 1 => metaParent[Target][1] # NoMeta /\ img[Target][1] \in {Written(1), Whole}

\* A transfer in progress copies files of a replica of the volume.
SyncOK ==
    sync.state = "in_progress" =>
        sync.from \in Sources /\ sync.list \in TaskLists /\ sync.copied \in 0..Len(sync.list)

\* What has been copied of the second disk is as the source has it.
CopiedOK ==
    \A i \in 1..sync.copied :
        /\ sync.list[i] = File(2, "img") => img[Target][2] = img[add.from][2]
        /\ sync.list[i] = File(2, "meta") => metaParent[Target][2] = metaParent[add.from][2]

\* AddReplica, step by step: a replica that is being rebuilt is listed and has its flag, so
\* that no purge begins.
AddOK ==
    /\ At("create") => mode[Target] = "out"
    /\ add.pc \in {"transfer", "flag", "prepare", "sync", "files", "reload", "verify"} => mode[Target] = "WO"
    /\ add.pc \in {"flag", "prepare", "sync", "files", "reload", "verify"} => add.from \in Sources
    /\ add.pc \in {"prepare", "sync", "files", "reload", "verify"} => flag[Target] /\ purging[add.from] = "no"
    /\ add.pc \in {"sync", "files"} => head[Target] = 2 /\ add.list \in TaskLists
    /\ add.pc \in {"files", "reload", "verify"} => purging[Target] = "no"
    /\ At("files") =>
          /\ sync.from = add.from /\ sync.list = add.list
          /\ sync.state \in {"in_progress", "complete", "error"}
          /\ sync.state = "in_progress" => CopiedOK
          /\ sync.state = "complete" => Fresh
    /\ add.pc \in {"reload", "verify"} => sync.state # "in_progress" /\ Fresh
    /\ At("verify") => Rebuilt

\* The target: what its images may hold, and what they hold once it is in use.
TargetOK ==
    /\ img[Target][1] # Written(2)
    /\ At("unflag") => mode[Target] = "RW"
    /\ mode[Target] = "RW" =>
          /\ At("unflag") \/ At("idle")
          /\ sync.state # "in_progress" /\ Rebuilt
          /\ purging[Target] = "replace" => img[Target][1] = Whole

TaskInv == TaskType /\ (\A r \in Sources : SourceOK(r)) /\ SyncOK /\ AddOK /\ TargetOK
-----------------------------------------------------------------------------
\* The four images differ.
LEMMA ImagesDiffer ==
    /\ NoImg # Written(1) /\ NoImg # Written(2) /\ NoImg # Whole
    /\ Written(1) # Written(2) /\ Written(1) # Whole /\ Written(2) # Whole
<1>1. NoImg[1] = -1 /\ Written(1)[1] = 1 /\ Written(2)[1] = 2 /\ Written(2)[2] = 0 /\ Whole[1] = 2 /\ Whole[2] = 1
  BY DEF NoImg, Written, Whole
<1>2. QED
  BY <1>1

\* Folding gives all of the volume, if the second disk is not the first again.
LEMMA FoldGives ==
    ASSUME NEW r, img[r][1] \in {Written(1), Whole}, img[r][2] \in {Written(1), Written(2), Whole}
    PROVE  /\ FoldedImage(r) \in {Written(1), Whole}
           /\ img[r][2] # Written(1) => FoldedImage(r) = Whole
<1>1. /\ Written(1)[1] = 1 /\ Written(1)[2] = 1 /\ Written(2)[1] = 2 /\ Written(2)[2] = 0
      /\ Whole[1] = 2 /\ Whole[2] = 1
  BY DEF Written, Whole
<1>2. FoldedImage(r) = <<FoldedImage(r)[1], FoldedImage(r)[2]>>
  BY DEF FoldedImage, Blocks
<1>3. \A b \in {1, 2} : FoldedImage(r)[b] = IF img[r][2][b] # 0 THEN img[r][2][b] ELSE img[r][1][b]
  BY DEF FoldedImage, Blocks
<1>4. CASE img[r][2] = Written(1)
  <2>1. FoldedImage(r)[1] = 1 /\ FoldedImage(r)[2] = 1
    BY Zenon, <1>1, <1>3, <1>4
  <2>2. QED
    BY Zenon, <1>2, <1>4, <2>1 DEF Written
<1>5. CASE img[r][2] \in {Written(2), Whole}
  <2>1. FoldedImage(r)[1] = 2 /\ FoldedImage(r)[2] = 1
    BY <1>1, <1>3, <1>5
  <2>2. QED
    BY Zenon, <1>2, <2>1 DEF Whole
<1>6. QED
  BY Zenon, <1>4, <1>5

-----------------------------------------------------------------------------
\* The task moves on.
LEMMA AddMoves ==
    ASSUME NEW a \in Adds, NEW l \in TaskPcs, NEW t, t = [a EXCEPT !.pc = l]
    PROVE  t \in Adds /\ t.pc = l /\ t.from = a.from /\ t.list = a.list
  BY Zenon DEF Adds

\* The same of the task itself.
LEMMA ToMoves ==
    ASSUME TaskInv, NEW l \in TaskPcs, To(l)
    PROVE  add' \in Adds /\ add'.pc = l /\ add'.from = add.from /\ add'.list = add.list
<1>1. PICK a, t : a = add /\ t = add'
  BY Zenon
<1>2. a \in Adds /\ t = [a EXCEPT !.pc = l]
  BY Zenon, <1>1 DEF To, TaskInv, TaskType
<1>3. t \in Adds /\ t.pc = l /\ t.from = a.from /\ t.list = a.list
  BY Zenon, <1>2, AddMoves
<1>4. QED
  BY Zenon, <1>1, <1>3

\* An entry, or a row, of a table of the replicas' disks changes.
LEMMA EntryChanges ==
    ASSUME NEW S, NEW f \in [Addresses -> [Disks -> S]], NEW r \in Addresses, NEW d \in Disks, NEW x \in S,
           NEW g, g = [f EXCEPT ![r][d] = x]
    PROVE  /\ g \in [Addresses -> [Disks -> S]]
           /\ g[r][d] = x /\ \A e \in Disks : e # d => g[r][e] = f[r][e]
           /\ \A q \in Addresses : q # r => g[q] = f[q]
  BY Zenon

\* The same of a row.
LEMMA RowChanges ==
    ASSUME NEW S, NEW f \in [Addresses -> S], NEW r \in Addresses, NEW x \in S,
           NEW g, g = [f EXCEPT ![r] = x]
    PROVE  g \in [Addresses -> S] /\ g[r] = x /\ \A q \in Addresses : q # r => g[q] = f[q]
  BY Zenon

\* It is ended.
LEMMA NoAddType == NoAdd \in Adds /\ NoAdd.pc = "idle"
<1>1. Target \in Addresses /\ <<>> \in AnyLists /\ "idle" \in TaskPcs
  BY Zenon DEF Addresses, AnyLists, TaskPcs
<1>2. QED
  BY Zenon, <1>1 DEF NoAdd, Adds

\* The other replicas are not the target.
LEMMA NotTarget == ASSUME NEW r \in Sources PROVE r # Target /\ r \in Addresses /\ Target \in Addresses
  BY Zenon, TaskAssumption DEF Addresses

\* A step that does not touch a replica of the volume.
LEMMA SourceKept ==
    ASSUME TaskInv, NEW r \in Sources,
           mode'[r] = mode[r], flag'[r] = flag[r], head'[r] = head[r], loaded'[r] = loaded[r],
           metaParent'[r] = metaParent[r], img'[r] = img[r], purging'[r] = purging[r]
    PROVE  SourceOK(r)'
<1>1. SourceOK(r)
  BY Zenon DEF TaskInv
<1>2. (Full(r) => Full(r)') /\ (Purged(r) => Purged(r)')
  BY Zenon DEF Full, Purged
<1>3. QED
  BY Zenon, <1>1, <1>2 DEF SourceOK

\* A step that touches neither the files, but for the mark of a removed snapshot, nor the
\* agents, nor the task of the rebuild.
LEMMA NothingTouched ==
    ASSUME TaskInv, UNCHANGED <<mode, img, metaParent, loaded, head, flag, sync, purging, add>>,
           removed' \in [Addresses -> [Disks -> BOOLEAN]]
    PROVE  TaskInv'
<1>1. /\ mode' = mode /\ img' = img /\ metaParent' = metaParent /\ loaded' = loaded /\ head' = head
      /\ flag' = flag /\ sync' = sync /\ purging' = purging /\ add' = add
  BY Zenon
<1>2. TaskType'
  BY Zenon, <1>1 DEF TaskInv, TaskType
<1>3. \A r \in Sources : SourceOK(r)'
  BY Zenon, <1>1, SourceKept
<1>4. (Fresh' <=> Fresh) /\ (Rebuilt' <=> Rebuilt) /\ (CopiedOK' <=> CopiedOK) /\ \A l : At(l)' <=> At(l)
  BY Zenon, <1>1 DEF Fresh, Rebuilt, CopiedOK, At
<1>5. SyncOK'
  BY Zenon, <1>1 DEF TaskInv, SyncOK
<1>6. AddOK'
  BY Zenon, <1>1, <1>4 DEF TaskInv, AddOK
<1>7. TargetOK'
  BY Zenon, <1>1, <1>4 DEF TaskInv, TargetOK
<1>8. QED
  BY Zenon, <1>2, <1>3, <1>5, <1>6, <1>7 DEF TaskInv

\* DeleteSnapshot and PurgeSnapshots, as far as they only ask or mark.
LEMMA AskingStep ==
    ASSUME TaskInv, DeleteSnapshot \/ PurgeSnapshots \/ (\E r \in Addresses : markSnapshotAsRemoved(r))
                    \/ UNCHANGED taskVars
    PROVE  TaskInv'
<1>1. removed \in [Addresses -> [Disks -> BOOLEAN]]
  BY Zenon DEF TaskInv, TaskType
<1>2. CASE DeleteSnapshot \/ PurgeSnapshots \/ UNCHANGED taskVars
  BY Zenon, <1>1, <1>2, NothingTouched DEF DeleteSnapshot, PurgeSnapshots, files, agents, taskVars, metas, tasks
<1>3. ASSUME NEW r \in Addresses, markSnapshotAsRemoved(r) PROVE TaskInv'
  <2>1. removed' \in [Addresses -> [Disks -> BOOLEAN]]
    <3>1. 1 \in Disks /\ TRUE \in BOOLEAN
      BY DEF Disks
    <3>2. CASE removed' = [removed EXCEPT ![r][1] = TRUE]
      BY Zenon, <1>1, <3>1, <3>2, EntryChanges
    <3>3. QED
      BY Zenon, <1>1, <1>3, <3>2 DEF markSnapshotAsRemoved
  <2>2. QED
    BY Zenon, <1>3, <2>1, NothingTouched DEF markSnapshotAsRemoved, agents
<1>4. QED
  BY Zenon, <1>2, <1>3

\* A step of a purge leaves the rebuild what it relies on.
LEMMA AddKept ==
    ASSUME TaskInv, UNCHANGED <<mode, head, flag, sync, add>>,
           add.pc \in {"prepare", "sync", "files", "reload", "verify"} => purging'[add.from] = "no",
           add.pc \in {"files", "reload", "verify"} =>
              /\ purging'[Target] = "no" /\ img'[Target] = img[Target] /\ metaParent'[Target] = metaParent[Target]
              /\ img'[add.from][2] = img[add.from][2] /\ metaParent'[add.from][2] = metaParent[add.from][2]
    PROVE  AddOK'
<1>1. mode' = mode /\ head' = head /\ flag' = flag /\ sync' = sync /\ add' = add /\ AddOK
  BY Zenon DEF TaskInv
<1>2. \A l : At(l)' <=> At(l)
  BY Zenon, <1>1 DEF At
<1>3. CASE add.pc \in {"files", "reload", "verify"}
  <2>1. (Fresh' <=> Fresh) /\ (Rebuilt' <=> Rebuilt)
    BY Zenon, <1>1, <1>3 DEF Fresh, Rebuilt
  <2>2. CopiedOK' <=> CopiedOK
    BY Zenon, <1>1, <1>3 DEF CopiedOK
  <2>3. QED
    BY Zenon, <1>1, <1>2, <1>3, <2>1, <2>2 DEF AddOK
<1>4. CASE add.pc \notin {"files", "reload", "verify"}
  <2>1. ~At("files") /\ ~At("verify")
    BY Zenon, <1>4 DEF At
  <2>2. QED
    BY Zenon, <1>1, <1>2, <1>4, <2>1 DEF AddOK
<1>5. QED
  BY Zenon, <1>3, <1>4

\* While a purge may begin, no rebuild relies on the files.
LEMMA NoneRelies ==
    ASSUME TaskInv, NoneRebuilding PROVE add.pc \notin {"prepare", "sync", "files", "reload", "verify"}
<1> SUFFICES ASSUME add.pc \in {"prepare", "sync", "files", "reload", "verify"} PROVE FALSE
  BY Zenon
<1>1. mode[Target] = "WO" /\ flag[Target]
  BY Zenon DEF TaskInv, AddOK
<1>2. Target \in Listed
  BY Zenon, <1>1 DEF Listed, Addresses
<1>3. QED
  BY Zenon, <1>1, <1>2 DEF NoneRebuilding

\* PreparePurge.
LEMMA PreparePurgeStep ==
    ASSUME TaskInv, Race = FALSE, NEW r \in Addresses, PreparePurge(r) PROVE TaskInv'
<1>1. /\ mode' = mode /\ img' = img /\ metaParent' = metaParent /\ removed' = removed /\ loaded' = loaded
      /\ head' = head /\ flag' = flag /\ sync' = sync /\ add' = add
  BY Zenon DEF PreparePurge, files, metas
<1>2. NoneRebuilding
  BY Zenon DEF PreparePurge
<1>3. CASE purging' = purging
  BY Zenon, <1>1, <1>3, NothingTouched DEF TaskInv, TaskType
<1>4. CASE MayPurge(r) /\ purging' = [purging EXCEPT ![r] = "fold"]
  <2>1. /\ purging' \in [Addresses -> {"no", "fold", "replace"}] /\ purging'[r] = "fold"
        /\ \A q \in Addresses : q # r => purging'[q] = purging[q]
    <3>1. purging \in [Addresses -> {"no", "fold", "replace"}] /\ "fold" \in {"no", "fold", "replace"}
      BY Zenon DEF TaskInv, TaskType
    <3>2. QED
      BY Zenon, <1>4, <3>1, RowChanges
  <2>2. TaskType'
    BY Zenon, <1>1, <2>1 DEF TaskInv, TaskType
  <2>3. ASSUME NEW q \in Sources PROVE SourceOK(q)'
    <3>1. q \in Addresses
      BY Zenon, NotTarget
    <3>2. CASE q # r
      BY Zenon, <1>1, <2>1, <3>1, <3>2, SourceKept
    <3>3. CASE q = r
      <4>1. SourceOK(q) /\ purging[q] = "no" /\ 1 \in loaded[q]
        BY Zenon, <1>4, <3>3 DEF TaskInv, MayPurge
      <4>2. Full(q)
        BY <4>1 DEF SourceOK, Purged
      <4>3. Full(q)'
        BY Zenon, <1>1, <2>1, <3>3, <4>1, <4>2 DEF Full
      <4>4. QED
        BY Zenon, <1>1, <4>1, <4>3 DEF SourceOK
    <3>4. QED
      BY Zenon, <3>2, <3>3
  <2>4. SyncOK'
    BY Zenon, <1>1 DEF TaskInv, SyncOK
  <2>5. AddOK'
    BY Zenon, <1>1, <1>2, NoneRelies, AddKept
  <2>6. TargetOK'
    <3>1. (Rebuilt' <=> Rebuilt) /\ \A l : At(l)' <=> At(l)
      BY Zenon, <1>1 DEF Rebuilt, Fresh, At
    <3>2. purging'[Target] = "replace" => purging[Target] = "replace"
      BY Zenon, <2>1 DEF Addresses
    <3>3. QED
      BY Zenon, <1>1, <3>1, <3>2 DEF TaskInv, TargetOK
  <2>7. QED
    BY Zenon, <2>2, <2>3, <2>4, <2>5, <2>6 DEF TaskInv
<1>5. QED
  BY Zenon, <1>3, <1>4 DEF PreparePurge

\* A purging replica is not the source of a rebuild, nor a target that takes files.
LEMMA PurgingApart ==
    ASSUME TaskInv, NEW r \in Addresses, purging[r] # "no"
    PROVE  /\ add.pc \in {"prepare", "sync", "files", "reload", "verify"} => add.from # r /\ add.from \in Addresses
           /\ add.pc \in {"files", "reload", "verify"} => r # Target
<1>1. \A q \in Sources : q \in Addresses
  BY Zenon, NotTarget
<1>2. QED
  BY Zenon, <1>1 DEF TaskInv, AddOK

\* A purge of the target that finds its files gone ends.
LEMMA PurgeLeaves ==
    ASSUME TaskInv, purging[Target] # "no",
           UNCHANGED <<mode, img, metaParent, removed, loaded, head, flag, sync, add>>,
           purging' = [purging EXCEPT ![Target] = "no"]
    PROVE  TaskInv'
<1>1. /\ mode' = mode /\ img' = img /\ metaParent' = metaParent /\ removed' = removed /\ loaded' = loaded
      /\ head' = head /\ flag' = flag /\ sync' = sync /\ add' = add
  BY Zenon
<1>2. Target \in Addresses
  BY Zenon DEF Addresses
<1>3. /\ purging' \in [Addresses -> {"no", "fold", "replace"}] /\ purging'[Target] = "no"
      /\ \A q \in Addresses : q # Target => purging'[q] = purging[q]
  <2>1. purging \in [Addresses -> {"no", "fold", "replace"}] /\ "no" \in {"no", "fold", "replace"}
    BY Zenon DEF TaskInv, TaskType
  <2>2. QED
    BY Zenon, <1>2, <2>1, RowChanges
<1>4. TaskType'
  BY Zenon, <1>1, <1>3 DEF TaskInv, TaskType
<1>5. \A q \in Sources : SourceOK(q)'
  BY Zenon, <1>1, <1>3, NotTarget, SourceKept
<1>6. SyncOK'
  BY Zenon, <1>1 DEF TaskInv, SyncOK
<1>7. add.pc \in {"prepare", "sync", "files", "reload", "verify"} => purging'[add.from] = "no"
  BY Zenon, <1>2, <1>3, PurgingApart DEF TaskInv, AddOK
<1>8. AddOK'
  BY Zenon, <1>1, <1>2, <1>7, PurgingApart, AddKept
<1>9. TargetOK'
  <2>1. (Rebuilt' <=> Rebuilt) /\ \A l : At(l)' <=> At(l)
    BY Zenon, <1>1 DEF Rebuilt, Fresh, At
  <2>2. purging'[Target] # "replace"
    BY Zenon, <1>3
  <2>3. QED
    BY Zenon, <1>1, <2>1, <2>2 DEF TaskInv, TargetOK
<1>10. QED
  BY Zenon, <1>4, <1>5, <1>6, <1>8, <1>9 DEF TaskInv

\* The first image of a replica that is purged changes.
LEMMA FoldStep == ASSUME TaskInv, NEW r \in Addresses, Fold(r) PROVE TaskInv'
<1>1. /\ mode' = mode /\ metaParent' = metaParent /\ removed' = removed /\ loaded' = loaded
      /\ head' = head /\ flag' = flag /\ sync' = sync /\ add' = add
      /\ purging[r] = "fold"
  BY Zenon DEF Fold, metas, tasks
<1>2. /\ img \in [Addresses -> [Disks -> Images]]
      /\ purging \in [Addresses -> {"no", "fold", "replace"}] /\ img[Target][1] # Written(2)
  BY Zenon DEF TaskInv, TaskType, TargetOK
<1>3. 1 \in Disks /\ 2 \in Disks /\ 1 # 2 /\ Target \in Addresses
  BY DEF Disks, Addresses
<1>4. r # Target => img[r][1] = Written(1) /\ img[r][2] = Written(2) /\ Full(r)
  <2>1. SUFFICES ASSUME r # Target PROVE img[r][1] = Written(1) /\ img[r][2] = Written(2) /\ Full(r)
    BY Zenon
  <2>2. SourceOK(r)
    BY Zenon, <2>1 DEF TaskInv, Addresses
  <2>3. QED
    BY Zenon, <1>1, <2>2 DEF SourceOK, Full, Purged
<1>5. CASE (img[r][1] = NoImg \/ img[r][2] = NoImg) /\ img' = img /\ purging' = [purging EXCEPT ![r] = "no"]
  <2>1. r = Target
    BY Zenon, <1>4, <1>5, ImagesDiffer
  <2>2. QED
    BY Zenon, <1>1, <1>5, <2>1, PurgeLeaves
<1>6. CASE /\ ~(img[r][1] = NoImg \/ img[r][2] = NoImg)
           /\ img' = [img EXCEPT ![r][1] = FoldedImage(r)] /\ purging' = [purging EXCEPT ![r] = "replace"]
  <2>1. img[r][1] \in {Written(1), Whole} /\ img[r][2] \in {Written(1), Written(2), Whole}
    <3>1. img[r][1] \in Images /\ img[r][2] \in Images
      BY Zenon, <1>2, <1>3
    <3>2. img[r][1] # Written(2)
      BY Zenon, <1>2, <1>4, ImagesDiffer
    <3>3. QED
      BY Zenon, <1>6, <3>1, <3>2 DEF Images
  <2>2. PICK x : x = FoldedImage(r)
    BY Zenon
  <2>3. x \in {Written(1), Whole} /\ (img[r][2] # Written(1) => x = Whole)
    <3>1. FoldedImage(r) \in {Written(1), Whole} /\ (img[r][2] # Written(1) => FoldedImage(r) = Whole)
      BY <2>1, FoldGives
    <3>2. QED
      BY Zenon, <2>2, <3>1
  <2>4. x \in Images /\ "replace" \in {"no", "fold", "replace"}
    BY Zenon, <2>3 DEF Images
  <2>5. /\ purging' \in [Addresses -> {"no", "fold", "replace"}] /\ purging'[r] = "replace"
        /\ \A q \in Addresses : q # r => purging'[q] = purging[q]
    BY Zenon, <1>2, <1>6, <2>4, RowChanges
  <2>6. PICK g : g = img'
    BY Zenon
  <2>7. g = [img EXCEPT ![r][1] = x]
    BY Zenon, <1>6, <2>2, <2>6
  <2>8. /\ g \in [Addresses -> [Disks -> Images]] /\ g[r][1] = x
        /\ (\A e \in Disks : e # 1 => g[r][e] = img[r][e]) /\ \A q \in Addresses : q # r => g[q] = img[q]
    <3>1. img \in [Addresses -> [Disks -> Images]]
      BY Zenon, <1>2
    <3>2. x \in Images /\ 1 \in Disks
      BY Zenon, <1>3, <2>4
    <3>3. QED
      BY ONLY Zenon, r \in Addresses, <3>1, <3>2, <2>7
  <2>9. /\ img' \in [Addresses -> [Disks -> Images]] /\ img'[r][1] = x /\ img'[r][2] = img[r][2]
        /\ \A q \in Addresses : q # r => img'[q] = img[q]
    BY Zenon, <1>3, <2>6, <2>8
  <2>10. TaskType'
    BY Zenon, <1>1, <2>5, <2>9 DEF TaskInv, TaskType
  <2>11. ASSUME NEW q \in Sources PROVE SourceOK(q)'
    <3>1. q \in Addresses /\ q # Target
      BY Zenon, NotTarget
    <3>2. CASE q # r
      BY Zenon, <1>1, <2>5, <2>9, <3>1, <3>2, SourceKept
    <3>3. CASE q = r
      <4>1. SourceOK(q) /\ Full(q) /\ img[q][2] = Written(2)
        BY Zenon, <1>4, <3>1, <3>3 DEF TaskInv
      <4>2. x = Whole
        BY Zenon, <2>3, <3>3, <4>1, ImagesDiffer
      <4>3. Full(q)'
        BY Zenon, <1>1, <2>5, <2>9, <3>3, <4>1, <4>2 DEF Full
      <4>4. QED
        BY Zenon, <1>1, <4>1, <4>3 DEF SourceOK
    <3>4. QED
      BY Zenon, <3>2, <3>3
  <2>12. SyncOK'
    BY Zenon, <1>1 DEF TaskInv, SyncOK
  <2>13. AddOK'
    <3>1. add.pc \in {"prepare", "sync", "files", "reload", "verify"}
          => purging'[add.from] = "no" /\ add.from \in Addresses /\ add.from # r
      BY Zenon, <1>1, <2>5, PurgingApart DEF TaskInv, AddOK
    <3>2. add.pc \in {"files", "reload", "verify"} => r # Target /\ purging[Target] = "no"
      BY Zenon, <1>1, PurgingApart DEF TaskInv, AddOK
    <3>3. QED
      BY Zenon, <1>1, <1>3, <2>5, <2>9, <3>1, <3>2, AddKept
  <2>14. TargetOK'
    <3>1. \A l : At(l)' <=> At(l)
      BY Zenon, <1>1 DEF At
    <3>2. CASE r # Target
      <4>1. img'[Target] = img[Target] /\ purging'[Target] = purging[Target]
        BY Zenon, <1>3, <2>5, <2>9, <3>2
      <4>2. Rebuilt' <=> Rebuilt
        BY Zenon, <1>1, <4>1 DEF Rebuilt, Fresh
      <4>3. QED
        BY Zenon, <1>1, <3>1, <4>1, <4>2 DEF TaskInv, TargetOK
    <3>3. CASE r = Target
      <4>1. img'[Target][1] # Written(2)
        BY Zenon, <2>3, <2>9, <3>3, ImagesDiffer
      <4>2. ASSUME mode[Target] = "RW" PROVE Rebuilt' /\ img'[Target][1] = Whole
        <5>1. Rebuilt
          BY Zenon, <4>2 DEF TaskInv, TargetOK
        <5>2. img[Target][2] # Written(1)
          BY Zenon, <5>1, ImagesDiffer DEF Rebuilt, Fresh
        <5>3. img'[Target][1] = Whole /\ img'[Target][2] = img[Target][2]
          BY Zenon, <2>3, <2>9, <3>3, <5>2
        <5>4. QED
          BY Zenon, <1>1, <5>1, <5>3 DEF Rebuilt, Fresh
      <4>3. QED
        BY Zenon, <1>1, <3>1, <4>1, <4>2 DEF TaskInv, TargetOK
    <3>4. QED
      BY Zenon, <3>2, <3>3
  <2>15. QED
    BY Zenon, <2>10, <2>11, <2>12, <2>13, <2>14 DEF TaskInv
<1>7. QED
  BY Zenon, <1>5, <1>6 DEF Fold

\* The folded image replaces the second disk.
LEMMA ReplaceStep == ASSUME TaskInv, NEW r \in Addresses, ReplaceDisk(r) PROVE TaskInv'
<1>1. /\ mode' = mode /\ head' = head /\ flag' = flag /\ sync' = sync /\ add' = add
      /\ purging[r] = "replace" /\ purging' = [purging EXCEPT ![r] = "no"]
  BY Zenon DEF ReplaceDisk, tasks
<1>2. /\ img \in [Addresses -> [Disks -> Images]] /\ metaParent \in [Addresses -> [Disks -> Parents]]
      /\ removed \in [Addresses -> [Disks -> BOOLEAN]] /\ loaded \in [Addresses -> SUBSET Disks]
      /\ purging \in [Addresses -> {"no", "fold", "replace"}] /\ img[Target][1] # Written(2)
  BY Zenon DEF TaskInv, TaskType, TargetOK
<1>3. 1 \in Disks /\ 2 \in Disks /\ 1 # 2 /\ Target \in Addresses /\ NoMeta # 1
  BY DEF Disks, Addresses, NoMeta
<1>4. r # Target => SourceOK(r) /\ Full(r) /\ img[r][1] = Whole
  <2>1. SUFFICES ASSUME r # Target PROVE SourceOK(r) /\ Full(r) /\ img[r][1] = Whole
    BY Zenon
  <2>2. SourceOK(r)
    BY Zenon, <2>1 DEF TaskInv, Addresses
  <2>3. Full(r)
    BY Zenon, <1>1, <2>2 DEF SourceOK, Purged
  <2>4. QED
    BY Zenon, <1>1, <2>2, <2>3 DEF Full
<1>5. CASE (img[r][1] = NoImg \/ metaParent[r][2] = NoMeta) /\ UNCHANGED <<img, metas, loaded>>
  <2>1. r = Target
    BY Zenon, <1>3, <1>4, <1>5, ImagesDiffer DEF Full
  <2>2. UNCHANGED <<mode, img, metaParent, removed, loaded, head, flag, sync, add>>
    BY Zenon, <1>1, <1>5 DEF metas
  <2>3. QED
    BY Zenon, <1>1, <2>1, <2>2, PurgeLeaves
<1>6. CASE /\ ~(img[r][1] = NoImg \/ metaParent[r][2] = NoMeta)
           /\ img' = [img EXCEPT ![r] = [d \in Disks |-> IF d = 1 THEN NoImg ELSE img[r][1]]]
           /\ metaParent' = [metaParent EXCEPT ![r] = [d \in Disks |-> IF d = 1 THEN NoMeta ELSE 0]]
           /\ removed' = [removed EXCEPT ![r][1] = FALSE]
           /\ loaded' = [loaded EXCEPT ![r] = @ \ {1}]
  <2>1. /\ purging' \in [Addresses -> {"no", "fold", "replace"}] /\ purging'[r] = "no"
        /\ \A q \in Addresses : q # r => purging'[q] = purging[q]
    <3>1. "no" \in {"no", "fold", "replace"}
      BY Zenon
    <3>2. QED
      BY Zenon, <1>1, <1>2, <3>1, RowChanges
  <2>2. /\ img' \in [Addresses -> [Disks -> Images]] /\ img'[r][1] = NoImg /\ img'[r][2] = img[r][1]
        /\ \A q \in Addresses : q # r => img'[q] = img[q]
    <3>1. PICK x : x = [d \in Disks |-> IF d = 1 THEN NoImg ELSE img[r][1]]
      BY Zenon
    <3>2. img[r][1] \in Images /\ NoImg \in Images
      BY Zenon, <1>2, <1>3 DEF Images
    <3>3. x \in [Disks -> Images] /\ x[1] = NoImg /\ x[2] = img[r][1]
      BY Zenon, <1>3, <3>1, <3>2
    <3>4. img' = [img EXCEPT ![r] = x]
      BY Zenon, <1>6, <3>1
    <3>5. img' \in [Addresses -> [Disks -> Images]] /\ img'[r] = x /\ \A q \in Addresses : q # r => img'[q] = img[q]
      BY Zenon, <1>2, <3>3, <3>4, RowChanges
    <3>6. QED
      BY Zenon, <3>3, <3>5
  <2>3. /\ metaParent' \in [Addresses -> [Disks -> Parents]] /\ metaParent'[r][1] = NoMeta /\ metaParent'[r][2] = 0
        /\ \A q \in Addresses : q # r => metaParent'[q] = metaParent[q]
    <3>1. PICK x : x = [d \in Disks |-> IF d = 1 THEN NoMeta ELSE 0]
      BY Zenon
    <3>2. x \in [Disks -> Parents] /\ x[1] = NoMeta /\ x[2] = 0
      BY Zenon, <1>3, <3>1 DEF Parents
    <3>3. metaParent' = [metaParent EXCEPT ![r] = x]
      BY Zenon, <1>6, <3>1
    <3>4. /\ metaParent' \in [Addresses -> [Disks -> Parents]] /\ metaParent'[r] = x
          /\ \A q \in Addresses : q # r => metaParent'[q] = metaParent[q]
      BY Zenon, <1>2, <3>2, <3>3, RowChanges
    <3>5. QED
      BY Zenon, <3>2, <3>4
  <2>4. removed' \in [Addresses -> [Disks -> BOOLEAN]]
    BY ONLY Zenon, r \in Addresses, <1>2, <1>3, <1>6
  <2>5. /\ loaded' \in [Addresses -> SUBSET Disks] /\ loaded'[r] = loaded[r] \ {1}
        /\ \A q \in Addresses : q # r => loaded'[q] = loaded[q]
    <3>1. loaded[r] \ {1} \in SUBSET Disks
      BY Zenon, <1>2
    <3>2. loaded' = [loaded EXCEPT ![r] = loaded[r] \ {1}]
      BY Zenon, <1>6
    <3>3. QED
      BY Zenon, <1>2, <3>1, <3>2, RowChanges
  <2>6. TaskType'
    BY Zenon, <1>1, <2>1, <2>2, <2>3, <2>4, <2>5 DEF TaskInv, TaskType
  <2>7. ASSUME NEW q \in Sources PROVE SourceOK(q)'
    <3>1. q \in Addresses /\ q # Target
      BY Zenon, NotTarget
    <3>2. CASE q # r
      BY Zenon, <1>1, <2>1, <2>2, <2>3, <2>5, <3>1, <3>2, SourceKept
    <3>3. CASE q = r
      <4>1. SourceOK(q) /\ loaded[q] = Disks /\ img[q][1] = Whole
        BY Zenon, <1>4, <3>1, <3>3 DEF Full
      <4>2. loaded'[q] = {2}
        BY <2>5, <3>3, <4>1 DEF Disks
      <4>3. Purged(q)'
        BY Zenon, <2>1, <2>2, <2>3, <3>3, <4>1, <4>2 DEF Purged
      <4>4. QED
        BY Zenon, <1>1, <4>1, <4>3 DEF SourceOK
    <3>4. QED
      BY Zenon, <3>2, <3>3
  <2>8. SyncOK'
    BY Zenon, <1>1 DEF TaskInv, SyncOK
  <2>9. AddOK'
    <3>1. add.pc \in {"prepare", "sync", "files", "reload", "verify"}
          => purging'[add.from] = "no" /\ add.from \in Addresses /\ add.from # r
      BY Zenon, <1>1, <2>1, PurgingApart DEF TaskInv, AddOK
    <3>2. add.pc \in {"files", "reload", "verify"} => r # Target /\ purging[Target] = "no"
      BY Zenon, <1>1, PurgingApart DEF TaskInv, AddOK
    <3>3. QED
      BY Zenon, <1>1, <1>3, <2>1, <2>2, <2>3, <3>1, <3>2, AddKept
  <2>10. TargetOK'
    <3>1. \A l : At(l)' <=> At(l)
      BY Zenon, <1>1 DEF At
    <3>2. CASE r # Target
      <4>1. img'[Target] = img[Target] /\ metaParent'[Target] = metaParent[Target] /\ purging'[Target] = purging[Target]
        BY Zenon, <1>3, <2>1, <2>2, <2>3, <3>2
      <4>2. Rebuilt' <=> Rebuilt
        BY Zenon, <1>1, <4>1 DEF Rebuilt, Fresh
      <4>3. QED
        BY Zenon, <1>1, <3>1, <4>1, <4>2 DEF TaskInv, TargetOK
    <3>3. CASE r = Target
      <4>1. img'[Target][1] # Written(2) /\ purging'[Target] # "replace"
        BY Zenon, <2>1, <2>2, <3>3, ImagesDiffer
      <4>2. ASSUME mode[Target] = "RW" PROVE Rebuilt'
        <5>1. head[Target] = 2 /\ img[Target][1] = Whole
          BY Zenon, <1>1, <3>3, <4>2 DEF TaskInv, TargetOK, Rebuilt, Fresh
        <5>2. head'[Target] = 2 /\ metaParent'[Target][2] = 0 /\ img'[Target][2] = Whole
          BY Zenon, <1>1, <2>2, <2>3, <3>3, <5>1
        <5>3. metaParent'[Target][2] # 1
          BY <5>2
        <5>4. QED
          BY Zenon, <5>2, <5>3 DEF Rebuilt, Fresh
      <4>3. QED
        BY Zenon, <1>1, <3>1, <4>1, <4>2 DEF TaskInv, TargetOK
    <3>4. QED
      BY Zenon, <3>2, <3>3
  <2>11. QED
    BY Zenon, <2>6, <2>7, <2>8, <2>9, <2>10 DEF TaskInv
<1>7. QED
  BY Zenon, <1>5, <1>6 DEF ReplaceDisk

-----------------------------------------------------------------------------
\* The files of a list, and the files of the second disk among them.
LEMMA ListEntries ==
    ASSUME NEW l \in TaskLists
    PROVE  /\ Len(l) \in Nat
           /\ \A i \in 1..Len(l) : l[i].disk \in Disks /\ l[i].part \in {"img", "meta"}
           /\ \E i \in 1..Len(l) : l[i] = File(2, "img")
           /\ \E i \in 1..Len(l) : l[i] = File(2, "meta")
<1>1. CASE l = Files(2)
  <2>1. Len(l) = 2 /\ l[1] = File(2, "img") /\ l[2] = File(2, "meta")
    BY Zenon, <1>1 DEF Files
  <2>2. QED
    BY <2>1 DEF File, Disks
<1>2. CASE l = AllFiles(1, 2)
  <2>1. /\ Len(l) = 4 /\ l[1] = File(1, "img") /\ l[2] = File(1, "meta")
        /\ l[3] = File(2, "img") /\ l[4] = File(2, "meta")
    BY Zenon, <1>2 DEF AllFiles
  <2>2. QED
    BY <2>1 DEF File, Disks
<1>3. CASE l = AllFiles(2, 1)
  <2>1. /\ Len(l) = 4 /\ l[3] = File(1, "img") /\ l[4] = File(1, "meta")
        /\ l[1] = File(2, "img") /\ l[2] = File(2, "meta")
    BY Zenon, <1>3 DEF AllFiles
  <2>2. QED
    BY <2>1 DEF File, Disks
<1>4. QED
  BY Zenon, <1>1, <1>2, <1>3 DEF TaskLists

\* The transfer goes on: one more file, none of them, or the end.
LEMMA SyncMoves ==
    ASSUME NEW s \in Syncs, NEW t,
           \/ t = [s EXCEPT !.copied = @ + 1]
           \/ t = [s EXCEPT !.local = FALSE, !.copied = 0]
           \/ t = [s EXCEPT !.state = "complete"]
           \/ t = [s EXCEPT !.state = "error"]
    PROVE  t \in Syncs /\ t.from = s.from /\ t.list = s.list
<1>1. s.copied \in Nat /\ s.copied + 1 \in Nat /\ 0 \in Nat
  BY DEF Syncs
<1>2. QED
  BY Zenon, <1>1 DEF Syncs

\* What a step of the transfer has to keep.
LEMMA TransferStep ==
    ASSUME TaskInv, sync.state = "in_progress", UNCHANGED <<mode, loaded, head, flag, purging, add>>,
           TaskType', SyncOK', img'[Target][1] # Written(2),
           \A q \in Sources : img'[q] = img[q] /\ metaParent'[q] = metaParent[q],
           sync'.from = sync.from, sync'.list = sync.list, sync'.state \in {"in_progress", "complete", "error"},
           At("files") => (sync'.state = "in_progress" => CopiedOK') /\ (sync'.state = "complete" => Fresh')
    PROVE  TaskInv'
<1>1. mode' = mode /\ loaded' = loaded /\ head' = head /\ flag' = flag /\ purging' = purging /\ add' = add
  BY Zenon
<1>2. \A q \in Sources : SourceOK(q)'
  BY Zenon, <1>1, SourceKept
<1>3. (\A l : At(l)' <=> At(l)) /\ add.pc \notin {"reload", "verify"} /\ mode[Target] # "RW"
  BY Zenon, <1>1 DEF At, TaskInv, AddOK, TargetOK
<1>4. ~At("verify")
  BY Zenon, <1>3 DEF At
<1>5. AddOK'
  BY Zenon, <1>1, <1>3, <1>4 DEF TaskInv, AddOK
<1>6. TargetOK'
  BY Zenon, <1>1, <1>3 DEF TaskInv, TargetOK
<1>7. QED
  BY Zenon, <1>2, <1>5, <1>6 DEF TaskInv

\* What the files of a replica of the volume may hold.
LEMMA SourceHolds ==
    ASSUME TaskInv, NEW r \in Sources
    PROVE  /\ img[r][1] # Written(2)
           /\ \/ metaParent[r][2] = 1 /\ img[r][2] = Written(2)
              \/ metaParent[r][2] = 0 /\ img[r][2] = Whole
<1>1. SourceOK(r)
  BY Zenon DEF TaskInv
<1>2. img[r][1] \in {NoImg, Whole, Written(1)}
  BY Zenon, <1>1 DEF SourceOK, Full, Purged
<1>3. QED
  BY Zenon, <1>1, <1>2, ImagesDiffer DEF SourceOK, Full, Purged

\* FileSync.
LEMMA FileSyncStep == ASSUME TaskInv, FileSync PROVE TaskInv'
<1>1. /\ mode' = mode /\ loaded' = loaded /\ head' = head /\ flag' = flag /\ purging' = purging /\ add' = add
      /\ sync.state = "in_progress" /\ ~AllCopied
  BY Zenon DEF FileSync, tasks
<1>2. /\ sync.from \in Sources /\ sync.from \in Addresses /\ sync.from # Target /\ Target \in Addresses
      /\ sync.list \in TaskLists /\ sync.copied \in 0..Len(sync.list)
  BY Zenon, <1>1, NotTarget DEF TaskInv, SyncOK
<1>3. /\ img \in [Addresses -> [Disks -> Images]] /\ metaParent \in [Addresses -> [Disks -> Parents]]
      /\ removed \in [Addresses -> [Disks -> BOOLEAN]] /\ sync \in Syncs /\ img[Target][1] # Written(2)
  BY Zenon DEF TaskInv, TaskType, TargetOK
<1>4. sync.copied + 1 \in 1..Len(sync.list)
  BY <1>1, <1>2, ListEntries DEF AllCopied
<1>5. PICK d \in Disks : d = NextFile.disk
  BY Zenon, <1>2, <1>4, ListEntries DEF NextFile
<1>6. NextFile.part \in {"img", "meta"}
  BY Zenon, <1>2, <1>4, ListEntries DEF NextFile
<1>7. /\ sync' \in Syncs /\ sync'.from = sync.from /\ sync'.list = sync.list
      /\ sync'.state = "in_progress" /\ sync'.copied = sync.copied + 1
  <2>1. PICK s, t : s = sync /\ t = sync'
    BY Zenon
  <2>2. s \in Syncs /\ t = [s EXCEPT !.copied = @ + 1]
    BY Zenon, <1>3, <2>1 DEF FileSync
  <2>3. t \in Syncs /\ t.from = s.from /\ t.list = s.list
    BY Zenon, <2>2, SyncMoves
  <2>4. t.state = s.state /\ t.copied = s.copied + 1
    BY Zenon, <2>2 DEF Syncs
  <2>5. QED
    BY Zenon, <1>1, <2>1, <2>3, <2>4
<1>8. SyncOK'
  BY <1>2, <1>4, <1>7, ListEntries DEF SyncOK
<1>9. \A i \in 1..sync'.copied : i \in 1..sync.copied \/ i = sync.copied + 1
  BY <1>2, <1>7, ListEntries
<1>10. ASSUME At("files") PROVE add.from = sync.from /\ CopiedOK
  BY Zenon, <1>1, <1>10 DEF TaskInv, AddOK
<1>11. CASE /\ NextFile.part = "img" /\ UNCHANGED metas
            /\ img' = [img EXCEPT ![Target][d] = img[sync.from][d]]
  <2>1. PICK x, g : x = img[sync.from][d] /\ g = img'
    BY Zenon
  <2>2. x \in Images
    BY Zenon, <1>2, <1>3, <2>1
  <2>3. g = [img EXCEPT ![Target][d] = x]
    BY Zenon, <1>11, <2>1
  <2>4. /\ g \in [Addresses -> [Disks -> Images]] /\ g[Target][d] = x
        /\ (\A e \in Disks : e # d => g[Target][e] = img[Target][e])
        /\ \A q \in Addresses : q # Target => g[q] = img[q]
    BY ONLY Zenon, <1>2, <1>3, <2>2, <2>3, d \in Disks
  <2>5. metaParent' = metaParent /\ removed' = removed
    BY Zenon, <1>11 DEF metas
  <2>6. TaskType'
    BY Zenon, <1>1, <1>7, <2>1, <2>4, <2>5 DEF TaskInv, TaskType
  <2>7. 1 \in Disks /\ 2 \in Disks
    BY DEF Disks
  <2>8. img'[Target][1] # Written(2)
    BY Zenon, <1>2, <1>3, <2>1, <2>4, <2>7, SourceHolds
  <2>9. \A q \in Sources : img'[q] = img[q] /\ metaParent'[q] = metaParent[q]
    BY Zenon, <2>1, <2>4, <2>5, NotTarget
  <2>10. ASSUME At("files") PROVE CopiedOK'
    <3>1. /\ metaParent'[Target] = metaParent[Target] /\ metaParent'[add.from] = metaParent[add.from]
          /\ img'[add.from] = img[add.from] /\ add.from = sync.from /\ add' = add
      BY Zenon, <1>1, <1>2, <1>10, <2>5, <2>9, <2>10
    <3>2. d = 2 => img'[Target][2] = img'[add.from][2]
      BY Zenon, <2>1, <2>4, <3>1
    <3>3. d # 2 => img'[Target][2] = img[Target][2]
      BY Zenon, <2>1, <2>4, <2>7
    <3>4. (NextFile = File(2, "img") => d = 2) /\ NextFile # File(2, "meta")
      BY <1>5, <1>11 DEF File
    <3>5. ASSUME NEW i \in 1..sync'.copied
          PROVE  /\ sync'.list[i] = File(2, "img") => img'[Target][2] = img'[add'.from][2]
                 /\ sync'.list[i] = File(2, "meta") => metaParent'[Target][2] = metaParent'[add'.from][2]
      <4>1. CASE i \in 1..sync.copied
        BY Zenon, <1>7, <1>10, <2>10, <3>1, <3>2, <3>3, <4>1 DEF CopiedOK
      <4>2. CASE i = sync.copied + 1
        BY Zenon, <1>7, <3>1, <3>2, <3>4, <4>2 DEF NextFile
      <4>3. QED
        BY Zenon, <1>9, <4>1, <4>2
    <3>6. QED
      BY Zenon, <3>5 DEF CopiedOK
  <2>11. QED
    BY Zenon, <1>1, <1>7, <1>8, <2>6, <2>8, <2>9, <2>10, TransferStep

<1>12. CASE /\ NextFile.part # "img" /\ img' = img
            /\ metaParent' = [metaParent EXCEPT ![Target][d] = metaParent[sync.from][d]]
            /\ removed' = [removed EXCEPT ![Target][d] = removed[sync.from][d]]
  <2>1. PICK x, g : x = metaParent[sync.from][d] /\ g = metaParent'
    BY Zenon
  <2>2. x \in Parents
    BY Zenon, <1>2, <1>3, <2>1
  <2>3. g = [metaParent EXCEPT ![Target][d] = x]
    BY Zenon, <1>12, <2>1
  <2>4. /\ g \in [Addresses -> [Disks -> Parents]] /\ g[Target][d] = x
        /\ (\A e \in Disks : e # d => g[Target][e] = metaParent[Target][e])
        /\ \A q \in Addresses : q # Target => g[q] = metaParent[q]
    BY ONLY Zenon, <1>2, <1>3, <2>2, <2>3, d \in Disks
  <2>5. removed' \in [Addresses -> [Disks -> BOOLEAN]]
    <3>1. PICK y : y = removed[sync.from][d]
      BY Zenon
    <3>2. y \in BOOLEAN
      BY Zenon, <1>2, <1>3, <3>1
    <3>3. removed' = [removed EXCEPT ![Target][d] = y]
      BY Zenon, <1>12, <3>1
    <3>4. QED
      BY ONLY Zenon, <1>2, <1>3, <3>2, <3>3, d \in Disks
  <2>6. TaskType'
    BY Zenon, <1>1, <1>7, <1>12, <2>1, <2>4, <2>5 DEF TaskInv, TaskType
  <2>7. 1 \in Disks /\ 2 \in Disks
    BY DEF Disks
  <2>8. img'[Target][1] # Written(2)
    BY Zenon, <1>3, <1>12
  <2>9. \A q \in Sources : img'[q] = img[q] /\ metaParent'[q] = metaParent[q]
    BY Zenon, <1>12, <2>1, <2>4, NotTarget
  <2>10. ASSUME At("files") PROVE CopiedOK'
    <3>1. /\ img'[Target] = img[Target] /\ metaParent'[add.from] = metaParent[add.from]
          /\ img'[add.from] = img[add.from] /\ add.from = sync.from /\ add' = add
      BY Zenon, <1>1, <1>2, <1>10, <1>12, <2>9, <2>10
    <3>2. d = 2 => metaParent'[Target][2] = metaParent'[add.from][2]
      BY Zenon, <2>1, <2>4, <3>1
    <3>3. d # 2 => metaParent'[Target][2] = metaParent[Target][2]
      BY Zenon, <2>1, <2>4, <2>7
    <3>4. (NextFile = File(2, "meta") => d = 2) /\ NextFile # File(2, "img")
      BY <1>5, <1>12 DEF File
    <3>5. ASSUME NEW i \in 1..sync'.copied
          PROVE  /\ sync'.list[i] = File(2, "img") => img'[Target][2] = img'[add'.from][2]
                 /\ sync'.list[i] = File(2, "meta") => metaParent'[Target][2] = metaParent'[add'.from][2]
      <4>1. CASE i \in 1..sync.copied
        BY Zenon, <1>7, <1>10, <2>10, <3>1, <3>2, <3>3, <4>1 DEF CopiedOK
      <4>2. CASE i = sync.copied + 1
        BY Zenon, <1>7, <3>1, <3>2, <3>4, <4>2 DEF NextFile
      <4>3. QED
        BY Zenon, <1>9, <4>1, <4>2
    <3>6. QED
      BY Zenon, <3>5 DEF CopiedOK
  <2>11. QED
    BY Zenon, <1>1, <1>7, <1>8, <2>6, <2>8, <2>9, <2>10, TransferStep
<1>13. QED
  BY Zenon, <1>5, <1>11, <1>12 DEF FileSync

\* FallBack.
LEMMA FallBackStep == ASSUME TaskInv, FallBack PROVE TaskInv'
<1>1. /\ mode' = mode /\ loaded' = loaded /\ head' = head /\ flag' = flag /\ purging' = purging /\ add' = add
      /\ sync.state = "in_progress"
  BY Zenon DEF FallBack, tasks
<1>2. /\ img \in [Addresses -> [Disks -> Images]] /\ metaParent \in [Addresses -> [Disks -> Parents]]
      /\ removed \in [Addresses -> [Disks -> BOOLEAN]] /\ sync \in Syncs /\ img[Target][1] # Written(2)
      /\ sync.from \in Sources /\ sync.list \in TaskLists
  BY Zenon, <1>1 DEF TaskInv, TaskType, TargetOK, SyncOK
<1>3. 1 \in Disks /\ 2 \in Disks /\ Target \in Addresses
  BY DEF Disks, Addresses
<1>4. /\ sync' \in Syncs /\ sync'.from = sync.from /\ sync'.list = sync.list
      /\ sync'.state = "in_progress" /\ sync'.copied = 0
  <2>1. PICK s, t : s = sync /\ t = sync'
    BY Zenon
  <2>2. s \in Syncs /\ t = [s EXCEPT !.local = FALSE, !.copied = 0]
    BY Zenon, <1>2, <2>1 DEF FallBack
  <2>3. t \in Syncs /\ t.from = s.from /\ t.list = s.list
    BY Zenon, <2>2, SyncMoves
  <2>4. t.state = s.state /\ t.copied = 0
    BY Zenon, <2>2 DEF Syncs
  <2>5. QED
    BY Zenon, <1>1, <2>1, <2>3, <2>4
<1>5. SyncOK'
  BY <1>2, <1>4, ListEntries DEF SyncOK
<1>6. CopiedOK'
  BY <1>4 DEF CopiedOK
<1>7. /\ img' \in [Addresses -> [Disks -> Images]] /\ metaParent' \in [Addresses -> [Disks -> Parents]]
      /\ removed' \in [Addresses -> [Disks -> BOOLEAN]] /\ img'[Target][1] # Written(2)
      /\ \A q \in Addresses : q # Target => img'[q] = img[q] /\ metaParent'[q] = metaParent[q]
  <2>1. CASE UNCHANGED <<img, metas>>
    BY Zenon, <1>2, <2>1 DEF metas
  <2>2. ASSUME NEW done, NEW f, NEW g, NEW h,
               f = [d \in Disks |-> IF d \in done THEN NoImg ELSE img[Target][d]],
               g = [d \in Disks |-> IF d \in done THEN NoMeta ELSE metaParent[Target][d]],
               h = [d \in Disks |-> IF d \in done THEN FALSE ELSE removed[Target][d]],
               img' = [img EXCEPT ![Target] = f], metaParent' = [metaParent EXCEPT ![Target] = g],
               removed' = [removed EXCEPT ![Target] = h]
        PROVE  <1>7!:
    <3>1. NoImg \in Images /\ NoMeta \in Parents
      BY Zenon DEF Images, Parents
    <3>2. /\ f \in [Disks -> Images] /\ g \in [Disks -> Parents] /\ h \in [Disks -> BOOLEAN]
          /\ f[1] \in {NoImg, img[Target][1]}
      BY Zenon, <1>2, <1>3, <2>2, <3>1
    <3>3. img' \in [Addresses -> [Disks -> Images]] /\ img'[Target] = f /\ \A q \in Addresses : q # Target => img'[q] = img[q]
      BY Zenon, <1>2, <1>3, <2>2, <3>2, RowChanges
    <3>4. /\ metaParent' \in [Addresses -> [Disks -> Parents]]
          /\ \A q \in Addresses : q # Target => metaParent'[q] = metaParent[q]
      BY Zenon, <1>2, <1>3, <2>2, <3>2, RowChanges
    <3>5. removed' \in [Addresses -> [Disks -> BOOLEAN]]
      BY Zenon, <1>2, <1>3, <2>2, <3>2, RowChanges
    <3>6. img'[Target][1] # Written(2)
      BY Zenon, <1>2, <3>2, <3>3, ImagesDiffer
    <3>7. QED
      BY Zenon, <3>3, <3>4, <3>5, <3>6
  <2>3. CASE ~ UNCHANGED <<img, metas>>
    <3>1. PICK done : done = {sync.list[i].disk : i \in 1..sync.copied}
      BY Zenon
    <3>2. PICK f, g, h : /\ f = [d \in Disks |-> IF d \in done THEN NoImg ELSE img[Target][d]]
                         /\ g = [d \in Disks |-> IF d \in done THEN NoMeta ELSE metaParent[Target][d]]
                         /\ h = [d \in Disks |-> IF d \in done THEN FALSE ELSE removed[Target][d]]
      BY Zenon
    <3>3. /\ img' = [img EXCEPT ![Target] = f] /\ metaParent' = [metaParent EXCEPT ![Target] = g]
          /\ removed' = [removed EXCEPT ![Target] = h]
      BY Zenon, <2>3, <3>1, <3>2 DEF FallBack
    <3>4. QED
      BY Zenon, <2>2, <3>2, <3>3
  <2>4. QED
    BY Zenon, <2>1, <2>3
<1>8. TaskType'
  BY Zenon, <1>1, <1>4, <1>7 DEF TaskInv, TaskType
<1>9. \A q \in Sources : img'[q] = img[q] /\ metaParent'[q] = metaParent[q]
  BY Zenon, <1>7, NotTarget
<1>10. QED
  BY Zenon, <1>1, <1>4, <1>5, <1>6, <1>7, <1>8, <1>9, TransferStep

\* FinishRebuild: when all is copied, the second disk is as the source has it.
LEMMA FinishRebuildStep == ASSUME TaskInv, FinishRebuild PROVE TaskInv'
<1>1. /\ mode' = mode /\ loaded' = loaded /\ head' = head /\ flag' = flag /\ purging' = purging /\ add' = add
      /\ img' = img /\ metaParent' = metaParent /\ removed' = removed /\ sync.state = "in_progress"
  BY Zenon DEF FinishRebuild, tasks, files, metas
<1>2. sync \in Syncs /\ sync.from \in Sources /\ sync.list \in TaskLists /\ img[Target][1] # Written(2)
  BY Zenon, <1>1 DEF TaskInv, TaskType, TargetOK, SyncOK
<1>3. PICK s, t : s = sync /\ t = sync'
  BY Zenon
<1>4. s \in Syncs /\ ((AllCopied /\ t = [s EXCEPT !.state = "complete"]) \/ t = [s EXCEPT !.state = "error"])
  BY Zenon, <1>2, <1>3 DEF FinishRebuild
<1>5. t \in Syncs /\ t.from = s.from /\ t.list = s.list
  <2>1. CASE t = [s EXCEPT !.state = "complete"]
    BY Zenon, <1>4, <2>1, SyncMoves
  <2>2. CASE t = [s EXCEPT !.state = "error"]
    BY Zenon, <1>4, <2>2, SyncMoves
  <2>3. QED
    BY Zenon, <1>4, <2>1, <2>2
<1>6. t.state = "error" \/ (AllCopied /\ t.state = "complete")
  BY Zenon, <1>4 DEF Syncs
<1>7. /\ sync' \in Syncs /\ sync'.from = sync.from /\ sync'.list = sync.list
      /\ sync'.state \in {"in_progress", "complete", "error"} /\ sync'.state # "in_progress"
      /\ sync'.state = "complete" => AllCopied
  BY Zenon, <1>3, <1>5, <1>6
<1>8. ASSUME At("files"), AllCopied PROVE Fresh'
  <2>1. add.from = sync.from /\ CopiedOK /\ head[Target] = 2
    BY Zenon, <1>1, <1>8 DEF TaskInv, AddOK, At
  <2>2. \A i \in 1..Len(sync.list) : i \in 1..sync.copied
    BY Zenon, <1>8 DEF AllCopied
  <2>3. img[Target][2] = img[sync.from][2]
    BY Zenon, <1>2, <2>1, <2>2, ListEntries DEF CopiedOK
  <2>4. metaParent[Target][2] = metaParent[sync.from][2]
    BY Zenon, <1>2, <2>1, <2>2, ListEntries DEF CopiedOK
  <2>5. QED
    BY Zenon, <1>1, <1>2, <2>1, <2>3, <2>4, SourceHolds DEF Fresh
<1>9. TaskType' /\ SyncOK'
  BY Zenon, <1>1, <1>7 DEF TaskInv, TaskType, SyncOK
<1>10. QED
  BY Zenon, <1>1, <1>2, <1>7, <1>8, <1>9, TransferStep

-----------------------------------------------------------------------------
\* What a step of the task has to keep: it touches only the target.
LEMMA TaskStep ==
    ASSUME TaskInv, sync' = sync, purging' = purging, TaskType', AddOK', TargetOK',
           \A q \in Sources :
              /\ mode'[q] = mode[q] /\ flag'[q] = flag[q] /\ head'[q] = head[q] /\ loaded'[q] = loaded[q]
              /\ metaParent'[q] = metaParent[q] /\ img'[q] = img[q]
    PROVE  TaskInv'
<1>1. \A q \in Sources : SourceOK(q)'
  BY Zenon, SourceKept
<1>2. SyncOK'
  BY Zenon DEF TaskInv, SyncOK
<1>3. QED
  BY Zenon, <1>1, <1>2 DEF TaskInv

\* Nothing is asked of the target while no task runs, nor before there is a replica to take
\* the files from.
LEMMA AddBegins ==
    ASSUME \/ add'.pc = "idle"
           \/ add'.pc = "create" /\ mode'[Target] = "out"
           \/ add'.pc = "transfer" /\ mode'[Target] = "WO"
           \/ add'.pc = "flag" /\ mode'[Target] = "WO" /\ add'.from \in Sources
           \/ add'.pc = "unflag"
    PROVE  AddOK'
  BY Zenon DEF AddOK, At

\* Nor is anything promised of it.
LEMMA NotInUse ==
    ASSUME TaskInv, img' = img, mode'[Target] # "RW", add'.pc # "unflag" PROVE TargetOK'
  BY Zenon DEF TaskInv, TargetOK, At

\* checkAndResetFailedRebuild.
LEMMA ResetStep == ASSUME TaskInv, checkAndResetFailedRebuild PROVE TaskInv'
<1>1. /\ mode' = mode /\ img' = img /\ metaParent' = metaParent /\ removed' = removed /\ loaded' = loaded
      /\ head' = head /\ sync' = sync /\ purging' = purging /\ mode[Target] = "out"
      /\ flag' = [flag EXCEPT ![Target] = FALSE] /\ To("create")
  BY Zenon DEF checkAndResetFailedRebuild, files, metas, agents
<1>2. "create" \in TaskPcs /\ Target \in Addresses /\ flag \in [Addresses -> BOOLEAN] /\ FALSE \in BOOLEAN
  BY Zenon DEF TaskPcs, Addresses, TaskInv, TaskType
<1>3. add' \in Adds /\ add'.pc = "create"
  BY Zenon, <1>1, <1>2, ToMoves
<1>4. flag' \in [Addresses -> BOOLEAN] /\ \A q \in Addresses : q # Target => flag'[q] = flag[q]
  BY Zenon, <1>1, <1>2, RowChanges
<1>5. TaskType'
  BY Zenon, <1>1, <1>3, <1>4 DEF TaskInv, TaskType
<1>6. AddOK'
  BY Zenon, <1>1, <1>3, AddBegins
<1>7. mode'[Target] # "RW" /\ add'.pc # "unflag"
  BY Zenon, <1>1, <1>3
<1>8. TargetOK'
  BY Zenon, <1>1, <1>7, NotInUse
<1>9. QED
  BY Zenon, <1>1, <1>4, <1>5, <1>6, <1>8, NotTarget, TaskStep

\* ReplicaCreate.
LEMMA CreateStep == ASSUME TaskInv, ReplicaCreate PROVE TaskInv'
<1>1. /\ img' = img /\ metaParent' = metaParent /\ removed' = removed /\ head' = head /\ flag' = flag
      /\ sync' = sync /\ purging' = purging /\ mode' = [mode EXCEPT ![Target] = "WO"] /\ To("transfer")
      /\ loaded' = [loaded EXCEPT ![Target] = {d \in Disks : metaParent[Target][d] # NoMeta}]
  BY Zenon DEF ReplicaCreate, metas, agents
<1>2. /\ "transfer" \in TaskPcs /\ Target \in Addresses /\ mode \in [Addresses -> {"RW", "WO", "out"}]
      /\ "WO" \in {"RW", "WO", "out"} /\ loaded \in [Addresses -> SUBSET Disks]
      /\ {d \in Disks : metaParent[Target][d] # NoMeta} \in SUBSET Disks
  BY Zenon DEF TaskPcs, Addresses, TaskInv, TaskType
<1>3. add' \in Adds /\ add'.pc = "transfer"
  BY Zenon, <1>1, <1>2, ToMoves
<1>4. /\ mode' \in [Addresses -> {"RW", "WO", "out"}] /\ mode'[Target] = "WO"
      /\ \A q \in Addresses : q # Target => mode'[q] = mode[q]
  BY Zenon, <1>1, <1>2, RowChanges
<1>5. loaded' \in [Addresses -> SUBSET Disks] /\ \A q \in Addresses : q # Target => loaded'[q] = loaded[q]
  BY Zenon, <1>1, <1>2, RowChanges
<1>6. TaskType'
  BY Zenon, <1>1, <1>3, <1>4, <1>5 DEF TaskInv, TaskType
<1>7. AddOK'
  BY Zenon, <1>3, <1>4, AddBegins
<1>8. mode'[Target] # "RW" /\ add'.pc # "unflag"
  BY Zenon, <1>3, <1>4
<1>9. TargetOK'
  BY Zenon, <1>1, <1>8, NotInUse
<1>10. QED
  BY Zenon, <1>1, <1>4, <1>5, <1>6, <1>7, <1>9, NotTarget, TaskStep

\* getTransferClients.
LEMMA ClientsStep == ASSUME TaskInv, NEW r \in Sources, getTransferClients(r) PROVE TaskInv'
<1>1. /\ mode' = mode /\ img' = img /\ metaParent' = metaParent /\ removed' = removed /\ loaded' = loaded
      /\ head' = head /\ flag' = flag /\ sync' = sync /\ purging' = purging /\ At("transfer")
  BY Zenon DEF getTransferClients, files, metas, agents
<1>2. mode[Target] = "WO" /\ add \in Adds /\ r \in Addresses /\ "flag" \in TaskPcs
  BY Zenon, <1>1, NotTarget DEF TaskInv, TaskType, AddOK, At, TaskPcs
<1>3. PICK a, t : a = add /\ t = add'
  BY Zenon
<1>4. a \in Adds /\ t = [a EXCEPT !.pc = "flag", !.from = r]
  BY Zenon, <1>2, <1>3 DEF getTransferClients
<1>5. t \in Adds /\ t.pc = "flag" /\ t.from = r
  BY Zenon, <1>2, <1>4 DEF Adds
<1>6. add' \in Adds /\ add'.pc = "flag" /\ add'.from = r
  BY Zenon, <1>3, <1>5
<1>7. TaskType'
  BY Zenon, <1>1, <1>6 DEF TaskInv, TaskType
<1>8. AddOK'
  BY Zenon, <1>1, <1>2, <1>6, AddBegins
<1>9. mode'[Target] # "RW" /\ add'.pc # "unflag"
  BY Zenon, <1>1, <1>2, <1>6
<1>10. TargetOK'
  BY Zenon, <1>1, <1>9, NotInUse
<1>11. QED
  BY Zenon, <1>1, <1>7, <1>8, <1>10, TaskStep

\* SetRebuilding, when no purge has begun since the task asked.
LEMMA SetRebuildingStep == ASSUME TaskInv, Race = FALSE, SetRebuilding PROVE TaskInv'
<1>1. /\ mode' = mode /\ img' = img /\ metaParent' = metaParent /\ removed' = removed /\ loaded' = loaded
      /\ head' = head /\ sync' = sync /\ purging' = purging /\ At("flag") /\ purging[add.from] = "no"
      /\ flag' = [flag EXCEPT ![Target] = TRUE] /\ To("prepare")
  BY Zenon DEF SetRebuilding, files, metas, agents
<1>2. "prepare" \in TaskPcs /\ Target \in Addresses /\ flag \in [Addresses -> BOOLEAN] /\ TRUE \in BOOLEAN
  BY Zenon DEF TaskPcs, Addresses, TaskInv, TaskType
<1>3. mode[Target] = "WO" /\ add.from \in Sources
  BY Zenon, <1>1 DEF TaskInv, AddOK, At
<1>4. add' \in Adds /\ add'.pc = "prepare" /\ add'.from = add.from
  BY Zenon, <1>1, <1>2, ToMoves
<1>5. flag' \in [Addresses -> BOOLEAN] /\ flag'[Target] /\ \A q \in Addresses : q # Target => flag'[q] = flag[q]
  BY Zenon, <1>1, <1>2, RowChanges
<1>6. TaskType'
  BY Zenon, <1>1, <1>4, <1>5 DEF TaskInv, TaskType
<1>7. AddOK'
  BY Zenon, <1>1, <1>3, <1>4, <1>5 DEF AddOK, At
<1>8. mode'[Target] # "RW" /\ add'.pc # "unflag"
  BY Zenon, <1>1, <1>3, <1>4
<1>9. TargetOK'
  BY Zenon, <1>1, <1>8, NotInUse
<1>10. QED
  BY Zenon, <1>1, <1>5, <1>6, <1>7, <1>9, NotTarget, TaskStep

\* PrepareRebuildReplica: the list is that of the replica that was asked, and the head too.
LEMMA PrepareReplicaStep == ASSUME TaskInv, NEW r \in Sources, PrepareRebuildReplica(r) PROVE TaskInv'
<1>1. /\ mode' = mode /\ flag' = flag /\ sync' = sync /\ purging' = purging /\ At("prepare")
      /\ head' = [head EXCEPT ![Target] = head[r]] /\ loaded' = [loaded EXCEPT ![Target] = @ \cap loaded[r]]
  BY Zenon DEF PrepareRebuildReplica, agents
<1>2. /\ Target \in Addresses /\ head \in [Addresses -> {0, 1, 2}] /\ loaded \in [Addresses -> SUBSET Disks]
      /\ img \in [Addresses -> [Disks -> Images]] /\ metaParent \in [Addresses -> [Disks -> Parents]]
      /\ removed \in [Addresses -> [Disks -> BOOLEAN]] /\ img[Target][1] # Written(2)
  BY Zenon DEF Addresses, TaskInv, TaskType, TargetOK
<1>3. head[r] = 2 /\ loaded[r] \in {Disks, {2}}
  BY Zenon DEF TaskInv, SourceOK, Full, Purged
<1>4. /\ mode[Target] = "WO" /\ add.from \in Sources /\ flag[Target] /\ purging[add.from] = "no"
      /\ add \in Adds /\ "sync" \in TaskPcs
  BY Zenon, <1>1 DEF TaskInv, TaskType, AddOK, At, TaskPcs
<1>5. PICK l \in SyncLists(loaded[r]) : add' = [add EXCEPT !.pc = "sync", !.list = l]
  BY Zenon DEF PrepareRebuildReplica
<1>6. l \in TaskLists
  <2>1. {2} # Disks
    BY DEF Disks
  <2>2. CASE loaded[r] = Disks
    BY Zenon, <1>5, <2>2 DEF SyncLists, TaskLists
  <2>3. CASE loaded[r] = {2}
    BY Zenon, <1>5, <2>1, <2>3 DEF SyncLists, TaskLists
  <2>4. QED
    BY Zenon, <1>3, <2>2, <2>3
<1>7. add' \in Adds /\ add'.pc = "sync" /\ add'.from = add.from /\ add'.list = l
  <2>1. PICK a, t : a = add /\ t = add'
    BY Zenon
  <2>2. a \in Adds /\ t = [a EXCEPT !.pc = "sync", !.list = l] /\ l \in AnyLists
    BY Zenon, <1>4, <1>5, <1>6, <2>1 DEF AnyLists
  <2>3. t \in Adds /\ t.pc = "sync" /\ t.from = a.from /\ t.list = l
    BY Zenon, <1>4, <2>2 DEF Adds
  <2>4. QED
    BY Zenon, <2>1, <2>3
<1>8. /\ head' \in [Addresses -> {0, 1, 2}] /\ head'[Target] = 2
      /\ \A q \in Addresses : q # Target => head'[q] = head[q]
  <2>1. head[r] \in {0, 1, 2}
    BY Zenon, <1>3
  <2>2. QED
    BY Zenon, <1>1, <1>2, <1>3, <2>1, RowChanges
<1>9. loaded' \in [Addresses -> SUBSET Disks] /\ \A q \in Addresses : q # Target => loaded'[q] = loaded[q]
  <2>1. PICK x : x = loaded[Target] \cap loaded[r]
    BY Zenon
  <2>2. x \in SUBSET Disks /\ loaded' = [loaded EXCEPT ![Target] = x]
    BY Zenon, <1>1, <1>2, <2>1
  <2>3. QED
    BY Zenon, <1>2, <2>2, RowChanges
<1>10. PICK extra : extra = loaded[Target] \ loaded[r]
  BY Zenon
<1>11. PICK f, g, h : /\ f = [d \in Disks |-> IF d \in extra THEN NoImg ELSE img[Target][d]]
                      /\ g = [d \in Disks |-> IF d \in extra THEN NoMeta ELSE metaParent[Target][d]]
                      /\ h = [d \in Disks |-> IF d \in extra THEN FALSE ELSE removed[Target][d]]
  BY Zenon
<1>12. /\ img' = [img EXCEPT ![Target] = f] /\ metaParent' = [metaParent EXCEPT ![Target] = g]
       /\ removed' = [removed EXCEPT ![Target] = h]
  BY Zenon, <1>10, <1>11 DEF PrepareRebuildReplica
<1>13. /\ f \in [Disks -> Images] /\ g \in [Disks -> Parents] /\ h \in [Disks -> BOOLEAN]
       /\ f[1] \in {NoImg, img[Target][1]}
  <2>1. NoImg \in Images /\ NoMeta \in Parents /\ 1 \in Disks
    BY DEF Images, Parents, Disks
  <2>2. QED
    BY Zenon, <1>2, <1>11, <2>1
<1>14. /\ img' \in [Addresses -> [Disks -> Images]] /\ img'[Target] = f
       /\ \A q \in Addresses : q # Target => img'[q] = img[q]
  BY Zenon, <1>2, <1>12, <1>13, RowChanges
<1>15. /\ metaParent' \in [Addresses -> [Disks -> Parents]]
       /\ \A q \in Addresses : q # Target => metaParent'[q] = metaParent[q]
  BY Zenon, <1>2, <1>12, <1>13, RowChanges
<1>16. removed' \in [Addresses -> [Disks -> BOOLEAN]]
  BY Zenon, <1>2, <1>12, <1>13, RowChanges
<1>17. TaskType'
  BY Zenon, <1>1, <1>7, <1>8, <1>9, <1>14, <1>15, <1>16 DEF TaskInv, TaskType
<1>18. AddOK'
  BY Zenon, <1>1, <1>4, <1>6, <1>7, <1>8 DEF AddOK, At
<1>19. TargetOK'
  <2>1. img'[Target][1] # Written(2)
    BY Zenon, <1>2, <1>13, <1>14, ImagesDiffer
  <2>2. mode'[Target] # "RW" /\ add'.pc # "unflag"
    BY Zenon, <1>1, <1>4, <1>7
  <2>3. QED
    BY Zenon, <2>1, <2>2 DEF TargetOK, At
<1>20. QED
  BY Zenon, <1>1, <1>8, <1>9, <1>14, <1>15, <1>17, <1>18, <1>19, NotTarget, TaskStep

\* PrepareRebuild.
LEMMA PrepareRebuildStep == ASSUME TaskInv, PrepareRebuild PROVE TaskInv'
<1>1. /\ mode' = mode /\ img' = img /\ metaParent' = metaParent /\ removed' = removed /\ loaded' = loaded
      /\ head' = head /\ flag' = flag /\ purging' = purging
      /\ At("sync") /\ purging[Target] = "no" /\ To("files")
  BY Zenon DEF PrepareRebuild, files, metas
<1>2. /\ mode[Target] = "WO" /\ add.from \in Sources /\ flag[Target] /\ purging[add.from] = "no"
      /\ head[Target] = 2 /\ add.list \in TaskLists /\ "files" \in TaskPcs
  BY Zenon, <1>1 DEF TaskInv, AddOK, At, TaskPcs
<1>3. PICK b \in BOOLEAN :
        sync' = [state |-> "in_progress", from |-> add.from, list |-> add.list, copied |-> 0, local |-> b]
  BY Zenon DEF PrepareRebuild
<1>4. /\ sync' \in Syncs /\ sync'.state = "in_progress" /\ sync'.from = add.from /\ sync'.list = add.list
      /\ sync'.copied = 0
  <2>1. add.from \in Addresses /\ add.list \in AnyLists /\ 0 \in Nat
    BY Zenon, <1>2, NotTarget DEF AnyLists
  <2>2. "in_progress" \in {"none", "in_progress", "complete", "error"}
    BY Zenon
  <2>3. QED
    BY Zenon, <1>3, <2>1, <2>2 DEF Syncs
<1>5. add' \in Adds /\ add'.pc = "files" /\ add'.from = add.from /\ add'.list = add.list
  BY Zenon, <1>1, <1>2, ToMoves
<1>6. TaskType'
  BY Zenon, <1>1, <1>4, <1>5 DEF TaskInv, TaskType
<1>7. \A q \in Sources : SourceOK(q)'
  BY Zenon, <1>1, SourceKept
<1>8. SyncOK' /\ CopiedOK'
  BY <1>2, <1>4, ListEntries DEF SyncOK, CopiedOK
<1>9. sync'.state # "complete" /\ mode'[Target] # "RW" /\ add'.pc # "unflag"
  BY Zenon, <1>1, <1>2, <1>4, <1>5
<1>10. AddOK'
  BY Zenon, <1>1, <1>2, <1>4, <1>5, <1>8, <1>9 DEF AddOK, At
<1>11. TargetOK'
  BY Zenon, <1>1, <1>9, NotInUse
<1>12. QED
  BY Zenon, <1>6, <1>7, <1>8, <1>10, <1>11 DEF TaskInv

\* SyncFiles.
LEMMA SyncFilesStep == ASSUME TaskInv, SyncFiles PROVE TaskInv'
<1>1. /\ mode' = mode /\ img' = img /\ metaParent' = metaParent /\ removed' = removed /\ loaded' = loaded
      /\ head' = head /\ flag' = flag /\ sync' = sync /\ purging' = purging
      /\ At("files") /\ sync.state = "complete" /\ To("reload")
  BY Zenon DEF SyncFiles, files, metas, agents
<1>2. /\ mode[Target] = "WO" /\ add.from \in Sources /\ flag[Target] /\ purging[add.from] = "no"
      /\ purging[Target] = "no" /\ Fresh /\ "reload" \in TaskPcs
  BY Zenon, <1>1 DEF TaskInv, AddOK, At, TaskPcs
<1>3. add' \in Adds /\ add'.pc = "reload" /\ add'.from = add.from
  BY Zenon, <1>1, <1>2, ToMoves
<1>4. TaskType'
  BY Zenon, <1>1, <1>3 DEF TaskInv, TaskType
<1>5. Fresh'
  BY Zenon, <1>1, <1>2 DEF Fresh
<1>6. sync'.state # "in_progress" /\ mode'[Target] # "RW" /\ add'.pc # "unflag"
  BY Zenon, <1>1, <1>2, <1>3
<1>7. AddOK'
  BY Zenon, <1>1, <1>2, <1>3, <1>5, <1>6 DEF AddOK, At
<1>8. TargetOK'
  BY Zenon, <1>1, <1>6, NotInUse
<1>9. QED
  BY Zenon, <1>1, <1>4, <1>7, <1>8, TaskStep

\* ReloadReplica: the chain opens, so that the first disk is there if the second needs it.
LEMMA ReloadStep == ASSUME TaskInv, ReloadReplica PROVE TaskInv'
<1>1. /\ mode' = mode /\ img' = img /\ metaParent' = metaParent /\ removed' = removed
      /\ head' = head /\ flag' = flag /\ sync' = sync /\ purging' = purging
      /\ At("reload") /\ Opens(Target) /\ To("verify")
      /\ loaded' = [loaded EXCEPT ![Target] = {d \in Disks : metaParent[Target][d] # NoMeta}]
  BY Zenon DEF ReloadReplica, metas, agents
<1>2. /\ mode[Target] = "WO" /\ add.from \in Sources /\ flag[Target] /\ purging[add.from] = "no"
      /\ purging[Target] = "no" /\ Fresh /\ sync.state # "in_progress" /\ "verify" \in TaskPcs
  BY Zenon, <1>1 DEF TaskInv, AddOK, At, TaskPcs
<1>3. /\ Target \in Addresses /\ loaded \in [Addresses -> SUBSET Disks] /\ img \in [Addresses -> [Disks -> Images]]
      /\ {d \in Disks : metaParent[Target][d] # NoMeta} \in SUBSET Disks /\ img[Target][1] # Written(2)
  BY Zenon DEF Addresses, TaskInv, TaskType, TargetOK
<1>4. add' \in Adds /\ add'.pc = "verify" /\ add'.from = add.from
  BY Zenon, <1>1, <1>2, ToMoves
<1>5. loaded' \in [Addresses -> SUBSET Disks] /\ \A q \in Addresses : q # Target => loaded'[q] = loaded[q]
  BY Zenon, <1>1, <1>3, RowChanges
<1>6. TaskType'
  BY Zenon, <1>1, <1>4, <1>5 DEF TaskInv, TaskType
<1>7. ASSUME metaParent[Target][2] = 1
      PROVE  metaParent[Target][1] # NoMeta /\ img[Target][1] \in {Written(1), Whole}
  <2>1. head[Target] = 2
    BY Zenon, <1>2 DEF Fresh
  <2>2. 1 \in Chain(Target) /\ 1 \in Disks
    BY <1>7, <2>1 DEF Chain, NoMeta, Disks
  <2>3. img[Target][1] # NoImg /\ metaParent[Target][1] # NoMeta /\ img[Target][1] \in Images
    BY Zenon, <1>1, <1>3, <2>2 DEF Opens
  <2>4. QED
    BY Zenon, <1>3, <2>3 DEF Images
<1>8. Fresh' /\ Rebuilt'
  BY Zenon, <1>1, <1>2, <1>7 DEF Fresh, Rebuilt
<1>9. mode'[Target] # "RW" /\ add'.pc # "unflag"
  BY Zenon, <1>1, <1>2, <1>4
<1>10. AddOK'
  BY Zenon, <1>1, <1>2, <1>4, <1>8 DEF AddOK, At
<1>11. TargetOK'
  BY Zenon, <1>1, <1>9, NotInUse
<1>12. QED
  BY Zenon, <1>1, <1>5, <1>6, <1>10, <1>11, NotTarget, TaskStep

\* VerifyRebuildReplica: the target is in use.
LEMMA VerifyStep == ASSUME TaskInv, NEW r \in Sources, VerifyRebuildReplica(r) PROVE TaskInv'
<1>1. /\ img' = img /\ metaParent' = metaParent /\ removed' = removed /\ loaded' = loaded
      /\ head' = head /\ flag' = flag /\ sync' = sync /\ purging' = purging
      /\ At("verify") /\ To("unflag") /\ mode' = [mode EXCEPT ![Target] = "RW"]
  BY Zenon DEF VerifyRebuildReplica, files, metas, agents
<1>2. /\ Target \in Addresses /\ mode \in [Addresses -> {"RW", "WO", "out"}] /\ "RW" \in {"RW", "WO", "out"}
      /\ "unflag" \in TaskPcs /\ img[Target][1] # Written(2)
  BY Zenon DEF Addresses, TaskInv, TaskType, TargetOK, TaskPcs
<1>3. Rebuilt /\ sync.state # "in_progress" /\ purging[Target] = "no"
  BY Zenon, <1>1 DEF TaskInv, AddOK, At
<1>4. add' \in Adds /\ add'.pc = "unflag"
  BY Zenon, <1>1, <1>2, ToMoves
<1>5. /\ mode' \in [Addresses -> {"RW", "WO", "out"}] /\ mode'[Target] = "RW"
      /\ \A q \in Addresses : q # Target => mode'[q] = mode[q]
  BY Zenon, <1>1, <1>2, RowChanges
<1>6. TaskType'
  BY Zenon, <1>1, <1>4, <1>5 DEF TaskInv, TaskType
<1>7. AddOK'
  BY Zenon, <1>4, AddBegins
<1>8. TargetOK'
  <2>1. Rebuilt' /\ purging'[Target] # "replace"
    BY Zenon, <1>1, <1>3 DEF Rebuilt, Fresh
  <2>2. QED
    BY Zenon, <1>1, <1>2, <1>3, <1>4, <1>5, <2>1 DEF TargetOK, At
<1>9. QED
  BY Zenon, <1>1, <1>5, <1>6, <1>7, <1>8, NotTarget, TaskStep

\* The task ends, well or not: what the target holds once it is in use is kept.
LEMMA EndStep == ASSUME TaskInv, ClearRebuilding \/ TaskFails PROVE TaskInv'
<1>1. /\ mode' = mode /\ img' = img /\ metaParent' = metaParent /\ removed' = removed /\ loaded' = loaded
      /\ head' = head /\ sync' = sync /\ purging' = purging /\ add' = NoAdd
      /\ flag' = flag \/ flag' = [flag EXCEPT ![Target] = FALSE]
  BY Zenon DEF ClearRebuilding, TaskFails, files, metas, agents
<1>2. Target \in Addresses /\ flag \in [Addresses -> BOOLEAN] /\ FALSE \in BOOLEAN
  BY Zenon DEF Addresses, TaskInv, TaskType
<1>3. flag' \in [Addresses -> BOOLEAN] /\ \A q \in Addresses : q # Target => flag'[q] = flag[q]
  <2>1. CASE flag' = flag
    BY Zenon, <1>2, <2>1
  <2>2. CASE flag' = [flag EXCEPT ![Target] = FALSE]
    BY Zenon, <1>2, <2>2, RowChanges
  <2>3. QED
    BY Zenon, <1>1, <2>1, <2>2
<1>4. add' \in Adds /\ add'.pc = "idle"
  BY Zenon, <1>1, NoAddType
<1>5. TaskType'
  BY Zenon, <1>1, <1>3, <1>4 DEF TaskInv, TaskType
<1>6. AddOK'
  BY Zenon, <1>4, AddBegins
<1>7. TargetOK'
  <2>1. Rebuilt' <=> Rebuilt
    BY Zenon, <1>1 DEF Rebuilt, Fresh
  <2>2. add'.pc # "unflag"
    BY Zenon, <1>4
  <2>3. QED
    BY Zenon, <1>1, <1>4, <2>1, <2>2 DEF TaskInv, TargetOK, At
<1>8. QED
  BY Zenon, <1>1, <1>3, <1>5, <1>6, <1>7, NotTarget, TaskStep

\* RemoveReplica.
LEMMA RemoveStep == ASSUME TaskInv, RemoveReplica PROVE TaskInv'
<1>1. /\ img' = img /\ metaParent' = metaParent /\ removed' = removed /\ loaded' = loaded
      /\ head' = head /\ flag' = flag /\ sync' = sync /\ purging' = purging /\ add' = add /\ At("idle")
      /\ mode' = [mode EXCEPT ![Target] = "out"]
  BY Zenon DEF RemoveReplica, files, metas, agents, tasks
<1>2. Target \in Addresses /\ mode \in [Addresses -> {"RW", "WO", "out"}] /\ "out" \in {"RW", "WO", "out"}
  BY Zenon DEF Addresses, TaskInv, TaskType
<1>3. /\ mode' \in [Addresses -> {"RW", "WO", "out"}] /\ mode'[Target] = "out"
      /\ \A q \in Addresses : q # Target => mode'[q] = mode[q]
  BY Zenon, <1>1, <1>2, RowChanges
<1>4. TaskType'
  BY Zenon, <1>1, <1>3 DEF TaskInv, TaskType
<1>5. add'.pc = "idle"
  BY Zenon, <1>1 DEF At
<1>6. AddOK'
  BY Zenon, <1>5, AddBegins
<1>7. mode'[Target] # "RW" /\ add'.pc # "unflag"
  BY Zenon, <1>3, <1>5
<1>8. TargetOK'
  BY Zenon, <1>1, <1>7, NotInUse
<1>9. QED
  BY Zenon, <1>1, <1>3, <1>4, <1>6, <1>8, NotTarget, TaskStep

-----------------------------------------------------------------------------
\* Such disks read as the volume that was written.
LEMMA ReadsWhole ==
    ASSUME NEW r, head[r] = 2,
           \/ /\ metaParent[r][2] = 1 /\ metaParent[r][1] # NoMeta
              /\ img[r][2] \in {Written(2), Whole} /\ img[r][1] \in {Written(1), Whole}
           \/ metaParent[r][2] = 0 /\ img[r][2] = Whole
    PROVE  Opens(r) /\ \A b \in Blocks : Read(r, b) = IF Written(2)[b] # 0 THEN Written(2)[b] ELSE Written(1)[b]
<1>1. /\ Written(1)[1] = 1 /\ Written(1)[2] = 1 /\ Written(2)[1] = 2 /\ Written(2)[2] = 0
      /\ Whole[1] = 2 /\ Whole[2] = 1
  BY DEF Written, Whole
<1>2. CASE /\ metaParent[r][2] = 1 /\ metaParent[r][1] # NoMeta
           /\ img[r][2] \in {Written(2), Whole} /\ img[r][1] \in {Written(1), Whole}
  <2>1. Chain(r) = {1, 2} /\ metaParent[r][2] # NoMeta
    BY <1>2 DEF Chain, NoMeta
  <2>2. Opens(r)
    BY Zenon, <1>2, <2>1, ImagesDiffer DEF Opens
  <2>3. img[r][2][1] = 2 /\ img[r][2][2] \in {0, 1} /\ img[r][1][2] = 1
    BY Zenon, <1>1, <1>2
  <2>4. Read(r, 1) = 2 /\ Read(r, 2) = 1
    BY <2>1, <2>3 DEF Read
  <2>5. QED
    BY <1>1, <2>2, <2>4 DEF Blocks
<1>3. CASE metaParent[r][2] = 0 /\ img[r][2] = Whole
  <2>1. Chain(r) = {2} /\ metaParent[r][2] # NoMeta
    BY <1>3 DEF Chain, NoMeta
  <2>2. Opens(r)
    BY Zenon, <1>3, <2>1, ImagesDiffer DEF Opens
  <2>3. Read(r, 1) = 2 /\ Read(r, 2) = 1
    BY Zenon, <1>1, <1>3, <2>1 DEF Read
  <2>4. QED
    BY <1>1, <2>2, <2>3 DEF Blocks
<1>4. QED
  BY Zenon, <1>2, <1>3

\* The invariant implies what is to be shown.
LEMMA TaskInvExact == ASSUME TaskInv PROVE RebuiltExact
<1> SUFFICES ASSUME NEW r \in RW
             PROVE  Opens(r) /\ \A b \in Blocks : Read(r, b) = IF Written(2)[b] # 0 THEN Written(2)[b] ELSE Written(1)[b]
  BY Zenon DEF RebuiltExact
<1>1. r \in Addresses /\ mode[r] = "RW"
  BY Zenon DEF RW
<1>2. CASE r = Target
  <2>1. Rebuilt
    BY Zenon, <1>1, <1>2 DEF TaskInv, TargetOK
  <2>2. QED
    BY Zenon, <1>2, <2>1, ReadsWhole DEF Rebuilt, Fresh
<1>3. CASE r # Target
  <2>1. SourceOK(r)
    BY Zenon, <1>1, <1>3 DEF Addresses, TaskInv
  <2>2. head[r] = 2 /\ (Full(r) => img[r][1] \in {Written(1), Whole} /\ metaParent[r][1] # NoMeta)
    BY <2>1 DEF SourceOK, Full, NoMeta
  <2>3. QED
    BY Zenon, <2>1, <2>2, ReadsWhole DEF SourceOK, Full, Purged
<1>4. QED
  BY Zenon, <1>2, <1>3

\* The invariant holds at the start.
LEMMA TaskInitInv == ASSUME TaskInit PROVE TaskInv
<1>1. /\ 1 \in Disks /\ 2 \in Disks /\ Target \in Addresses /\ Disks = {1, 2} /\ 2 - 1 = 1 /\ 1 - 1 = 0
      /\ NoAdd \in Adds /\ NoAdd.pc = "idle"
  BY NoAddType DEF Disks, Addresses
<1>2. mode \in [Addresses -> {"RW", "WO", "out"}] /\ mode[Target] = "out"
  BY Zenon, <1>1 DEF TaskInit
<1>3. img \in [Addresses -> [Disks -> Images]] /\ img[Target][1] = NoImg
  <2>1. \A r \in Addresses, d \in Disks : (IF r = Target THEN NoImg ELSE Written(d)) \in Images
    BY Zenon, <1>1 DEF Images
  <2>2. QED
    BY Zenon, <1>1, <2>1 DEF TaskInit
<1>4. metaParent \in [Addresses -> [Disks -> Parents]]
  <2>1. \A r \in Addresses, d \in Disks : (IF r = Target THEN NoMeta ELSE d - 1) \in Parents
    BY Zenon, <1>1 DEF Parents
  <2>2. QED
    BY Zenon, <2>1 DEF TaskInit
<1>5. removed \in [Addresses -> [Disks -> BOOLEAN]] /\ flag \in [Addresses -> BOOLEAN]
  BY Zenon DEF TaskInit
<1>6. loaded \in [Addresses -> SUBSET Disks] /\ head \in [Addresses -> {0, 1, 2}]
  BY Zenon DEF TaskInit
<1>7. purging \in [Addresses -> {"no", "fold", "replace"}] /\ add \in Adds /\ add.pc = "idle"
  BY Zenon, <1>1 DEF TaskInit
<1>8. sync \in Syncs /\ sync.state = "none"
  <2>1. /\ "none" \in {"none", "in_progress", "complete", "error"} /\ <<>> \in AnyLists /\ 0 \in Nat
        /\ FALSE \in BOOLEAN /\ sync = [state |-> "none", from |-> Target, list |-> <<>>, copied |-> 0, local |-> FALSE]
    BY Zenon DEF TaskInit, AnyLists
  <2>2. QED
    BY Zenon, <1>1, <2>1 DEF Syncs
<1>9. TaskType
  BY Zenon, <1>2, <1>3, <1>4, <1>5, <1>6, <1>7, <1>8 DEF TaskType
<1>10. ASSUME NEW r \in Sources PROVE SourceOK(r)
  <2>1. r \in Addresses /\ r # Target
    BY Zenon, NotTarget
  <2>2. mode[r] = "RW" /\ ~flag[r] /\ head[r] = 2 /\ loaded[r] = Disks /\ purging[r] = "no"
    BY Zenon, <2>1 DEF TaskInit
  <2>3. metaParent[r][1] = 0 /\ metaParent[r][2] = 1 /\ img[r][1] = Written(1) /\ img[r][2] = Written(2)
    BY Zenon, <1>1, <2>1 DEF TaskInit
  <2>4. Full(r)
    BY Zenon, <2>2, <2>3 DEF Full
  <2>5. QED
    BY Zenon, <2>2, <2>4 DEF SourceOK
<1>11. SyncOK
  BY Zenon, <1>8 DEF SyncOK
<1>12. AddOK
  BY Zenon, <1>7 DEF AddOK, At
<1>13. TargetOK
  <2>1. mode[Target] # "RW" /\ add.pc # "unflag" /\ img[Target][1] # Written(2)
    BY Zenon, <1>2, <1>3, <1>7, ImagesDiffer
  <2>2. QED
    BY Zenon, <2>1 DEF TargetOK, At
<1>14. QED
  BY Zenon, <1>9, <1>10, <1>11, <1>12, <1>13 DEF TaskInv

\* The invariant of the rebuild of a replica, when what a task has asked still holds when it
\* acts on it: what the other replicas hold, what has been copied from them, and what the
\* target holds from the check of its chain on.
THEOREM TaskInvariance == ASSUME Race = FALSE PROVE TaskSpec => []TaskInv
<1>1. TaskInit => TaskInv
  BY Zenon, TaskInitInv
<1>2. TaskInv /\ [TaskNext]_taskVars => TaskInv'
  <2> SUFFICES ASSUME TaskInv, [TaskNext]_taskVars PROVE TaskInv'
    BY Zenon
  <2>1. CASE UNCHANGED taskVars \/ DeleteSnapshot \/ PurgeSnapshots
    BY Zenon, <2>1, AskingStep
  <2>2. CASE \E r \in Addresses : markSnapshotAsRemoved(r) \/ PreparePurge(r) \/ Fold(r) \/ ReplaceDisk(r)
    BY Zenon, <2>2, AskingStep, PreparePurgeStep, FoldStep, ReplaceStep
  <2>3. CASE checkAndResetFailedRebuild \/ ReplicaCreate \/ SetRebuilding \/ PrepareRebuild \/ FileSync
    BY Zenon, <2>3, ResetStep, CreateStep, SetRebuildingStep, PrepareRebuildStep, FileSyncStep
  <2>4. CASE \E r \in Sources : getTransferClients(r) \/ PrepareRebuildReplica(r) \/ VerifyRebuildReplica(r)
    BY Zenon, <2>4, ClientsStep, PrepareReplicaStep, VerifyStep
  <2>5. CASE FallBack \/ FinishRebuild \/ SyncFiles \/ ReloadReplica \/ ClearRebuilding \/ TaskFails \/ RemoveReplica
    BY Zenon, <2>5, FallBackStep, FinishRebuildStep, SyncFilesStep, ReloadStep, EndStep, RemoveStep
  <2>6. QED
    BY Zenon, <2>1, <2>2, <2>3, <2>4, <2>5 DEF TaskNext
<1>3. QED
  BY <1>1, <1>2, PTL DEF TaskSpec

\* A rebuilt replica, like every other in use, reads as the volume that was written, for any
\* number of replicas, rebuilds, purges and faults, when what a task has asked still holds
\* when it acts on it (AddReplica, SyncFiles, PurgeSnapshots).
THEOREM RebuildsExact == ASSUME Race = FALSE PROVE TaskSpec => []RebuiltExact
<1>1. TaskInv => RebuiltExact
  BY Zenon, TaskInvExact
<1>2. QED
  BY <1>1, TaskInvariance, PTL
=============================================================================
