--------------------------- MODULE SnapshotLimits ---------------------------
(***************************************************************************)
(* The limits on the number and on the total size of the snapshots of a    *)
(* volume.  The controller keeps both and checks them before a snapshot is *)
(* taken (canDoSnapshot); every replica keeps a copy of the number and     *)
(* refuses a snapshot beyond it (createDisk), which costs it its place in  *)
(* the volume (handleErrorNoLock).                                         *)
(***************************************************************************)
EXTENDS Integers, FiniteSets, FiniteSetsExt

CONSTANTS LimitReplicas,
          Calls,           \* calls of Snapshot
          Counts, MaxSizes,  \* the limits that may be set
          MaxHead,         \* the head grows up to this size
          MaxSnapshots,    \* snapshots ever taken
          MaxLimitFaults   \* calls to a replica that fail

\* The limits that are set are not negative: one below 0 is below every usage and refused.
ASSUME LimitAssumption ==
    /\ IsFiniteSet(LimitReplicas) /\ Counts \subseteq Nat /\ MaxSizes \subseteq Nat
    /\ MaxHead \in Nat /\ MaxSnapshots \in Nat /\ MaxLimitFaults \in Nat

VARIABLES
    limitMode,   \* "RW" or "ERR"
    disks,       \* of each replica: its snapshots that are not removed, with their sizes
    head,        \* of each replica: the size of its head
    limit,       \* of each replica: snapshotMaxCount
    maxCount, maxSize,     \* the controller's
    call,        \* of each call of Snapshot: "idle", "checked", "taken" or "refused"
    taken, limitFaults,
    reply        \* the last answer to a change of the limits

limitVars == <<limitMode, disks, head, limit, maxCount, maxSize, call, taken, limitFaults, reply>>

Working == {r \in LimitReplicas : limitMode[r] = "RW"}

-----------------------------------------------------------------------------
\* The replica's side.
GetSnapshotCountUsage(r) == Cardinality(disks[r])
\* The sum of the sizes: the units of the snapshots, each with the snapshot it is of.
Units(D) == UNION {{d.id} \X (1..d.size) : d \in D}
GetSnapshotSizeUsage(r) == Cardinality(Units(disks[r]))
getRemainSnapshotCounts(r) == limit[r] - GetSnapshotCountUsage(r)

\* createDisk of a snapshot: the head is its content, and a new one is empty.
CreateDisk(who) ==
    LET able == {r \in who : getRemainSnapshotCounts(r) > 0}
    IN  /\ disks' = [r \in LimitReplicas |-> IF r \in able
                                             THEN disks[r] \cup {[id |-> taken, size |-> head[r]]} ELSE disks[r]]
        /\ head' = [r \in LimitReplicas |-> IF r \in able THEN 0 ELSE head[r]]
        /\ taken' = taken + 1
        /\ limitMode' = [r \in LimitReplicas |-> IF r \in who \ able THEN "ERR" ELSE limitMode[r]]

-----------------------------------------------------------------------------
\* The replicator's side: the largest value among the replicas that answer.
Answers(ok) == ok # {} /\ ok \subseteq Working /\ limitFaults + Cardinality(Working \ ok) <= MaxLimitFaults
CountFaults(ok) == limitFaults' = limitFaults + Cardinality(Working \ ok)

CountUsage(ok) == Max({GetSnapshotCountUsage(r) : r \in ok})
SizeUsage(ok) == Max({GetSnapshotSizeUsage(r) : r \in ok})
GetHeadFileSize(ok) == Max({head[r] : r \in ok})

\* Mutant: the size is not checked.
canDoSnapshotCount(ok) == CountUsage(ok) < maxCount

\* The controller's side.
canDoSnapshot(ok) ==
    /\ CountUsage(ok) < maxCount
    /\ maxSize # 0 => GetHeadFileSize(ok) <= maxSize - SizeUsage(ok)

\* Snapshot up to its first check, under RLock.
BeginSnapshot(c) ==
    /\ call[c] = "idle" /\ taken < MaxSnapshots
    /\ \E ok \in SUBSET Working :
          /\ Answers(ok) /\ CountFaults(ok)
          /\ call' = [call EXCEPT ![c] = IF canDoSnapshot(ok) THEN "checked" ELSE "refused"]
    /\ UNCHANGED <<limitMode, disks, head, limit, maxCount, maxSize, taken, reply>>

\* Its second check and the snapshot, under Lock.
TakeSnapshot(c) ==
    /\ call[c] = "checked" /\ taken < MaxSnapshots
    /\ \E ok \in SUBSET Working :
          /\ Answers(ok) /\ CountFaults(ok)
          /\ IF canDoSnapshot(ok) THEN CreateDisk(Working) /\ call' = [call EXCEPT ![c] = "taken"]
             ELSE call' = [call EXCEPT ![c] = "refused"] /\ UNCHANGED <<limitMode, disks, head, taken>>
    /\ UNCHANGED <<limit, maxCount, maxSize, reply>>

\* SetSnapshotMaxCount: the controller first, then one replica after the other until
\* one fails.
SetSnapshotMaxCount(count) ==
    /\ \E ok \in SUBSET Working, set \in SUBSET Working :
          /\ Answers(ok)
          /\ IF count < CountUsage(ok)
             THEN /\ reply' = [op |-> "count", asked |-> count, ok |-> FALSE]
                  /\ CountFaults(ok)
                  /\ UNCHANGED <<maxCount, limit>>
             ELSE /\ maxCount' = count
                  /\ limit' = [r \in LimitReplicas |-> IF r \in set THEN count ELSE limit[r]]
                  /\ reply' = [op |-> "count", asked |-> count, ok |-> set = Working]
                  /\ limitFaults' = limitFaults + Cardinality(Working \ ok) + (IF set = Working THEN 0 ELSE 1)
                  /\ limitFaults' <= MaxLimitFaults
    /\ UNCHANGED <<limitMode, disks, head, maxSize, call, taken>>

\* SetSnapshotMaxSize: no replica looks at its copy of this one, but one that cannot
\* be told fails the call.
SetSnapshotMaxSize(size) ==
    /\ \E ok \in SUBSET Working, told \in BOOLEAN :
          /\ Answers(ok)
          /\ maxSize' = IF size < SizeUsage(ok) THEN maxSize ELSE size
          /\ size < SizeUsage(ok) => told
          /\ reply' = [op |-> "size", asked |-> size, ok |-> told /\ size >= SizeUsage(ok)]
          /\ limitFaults' = limitFaults + Cardinality(Working \ ok) + (IF told THEN 0 ELSE 1)
          /\ limitFaults' <= MaxLimitFaults
    /\ UNCHANGED <<limitMode, disks, head, limit, maxCount, call, taken>>

\* The snapshot an expansion takes on every replica, under Lock, if the same check
\* allows it; a replica that refuses it did not roll anything back, and is dropped.
ExpandSnapshot ==
    /\ taken < MaxSnapshots
    /\ \E ok \in SUBSET Working : Answers(ok) /\ CountFaults(ok) /\ canDoSnapshot(ok)
    /\ CreateDisk(Working)
    /\ UNCHANGED <<limit, maxCount, maxSize, call, reply>>

\* A snapshot is marked as removed, on one replica after the other.
MarkDiskAsRemoved(r) ==
    /\ \E d \in disks[r] : disks' = [disks EXCEPT ![r] = @ \ {d}]
    /\ UNCHANGED <<limitMode, head, limit, maxCount, maxSize, call, taken, limitFaults, reply>>

\* A write makes the head of every replica larger.
GrowHead ==
    /\ Working # {}
    /\ \A r \in Working : head[r] < MaxHead
    /\ head' = [r \in LimitReplicas |-> IF r \in Working THEN head[r] + 1 ELSE head[r]]
    /\ UNCHANGED <<limitMode, disks, limit, maxCount, maxSize, call, taken, limitFaults, reply>>

-----------------------------------------------------------------------------
LimitInit ==
    /\ limitMode = [r \in LimitReplicas |-> "RW"]
    /\ disks = [r \in LimitReplicas |-> {}] /\ head = [r \in LimitReplicas |-> 0]
    /\ maxCount \in Counts /\ limit = [r \in LimitReplicas |-> maxCount] /\ maxSize \in MaxSizes
    /\ call = [c \in Calls |-> "idle"] /\ taken = 0 /\ limitFaults = 0
    /\ reply = [op |-> "none", asked |-> 0, ok |-> TRUE]

LimitNext ==
    \/ \E c \in Calls : BeginSnapshot(c) \/ TakeSnapshot(c)
    \/ \E n \in Counts : SetSnapshotMaxCount(n)
    \/ \E n \in MaxSizes : SetSnapshotMaxSize(n)
    \/ \E r \in LimitReplicas : MarkDiskAsRemoved(r)
    \/ ExpandSnapshot \/ GrowHead

LimitSpec == LimitInit /\ [][LimitNext]_limitVars

\* Reaching the limit refuses a snapshot; it never costs the volume a replica, with
\* several snapshots on their way and snapshots removed on one replica before the
\* other (canDoSnapshot of the controller comes before the check of createDisk).
NoReplicaRefuses == Working = LimitReplicas

\* The snapshots of no replica take more room than allowed ("Maximum total snapshot
\* size"), nor are there more of them, whenever the limits were changed.
WithinLimits ==
    \A r \in Working : /\ GetSnapshotCountUsage(r) <= maxCount
                  /\ maxSize # 0 => GetSnapshotSizeUsage(r) <= maxSize

\* The snapshots of a replica stay within the limits, and reaching one costs no replica
\* (canDoSnapshot, createDisk, SetSnapshotMaxCount, SetSnapshotMaxSize).
LimitsRight == NoReplicaRefuses /\ WithinLimits

\* A limit of 0 is no limit, so that it can always be set.
NoLimitAccepted == reply.op = "size" /\ reply.asked = 0 => reply.ok
=============================================================================
