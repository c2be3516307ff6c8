----------------------------- MODULE Controller -----------------------------
(***************************************************************************)
(* The I/O path of a volume's controller and the life of its replicas:     *)
(* pkg/controller/control.go, replicator.go, rebuild.go, and the client    *)
(* that drives a rebuild, pkg/sync/sync.go.                                *)
(*                                                                         *)
(* Every frontend request runs in a goroutine of its own.  A request holds *)
(* the controller's lock for reading while it talks to the replicas, lets  *)
(* it go, and, when a replica failed, takes the lock for writing in a      *)
(* second critical section to mark that replica ERR.  Operations on the    *)
(* set of replicas take the lock for writing, so each is one action, which *)
(* waits until no request holds the lock for reading.                      *)
(*                                                                         *)
(* A sector is the 4096 bytes of VolumeSectorSize; its Units are the       *)
(* 512-byte blocks the frontend addresses.  A sector's contents map each   *)
(* unit to a value.                                                        *)
(***************************************************************************)
EXTENDS Integers, FiniteSets

CONSTANTS Replicas,     \* replica addresses
          NoReplica,    \* no address
          InitRW,       \* the replicas the volume was started with
          Sectors, Units, Values,
          Zero,         \* the value of a unit nobody wrote
          Unspecified,  \* the value of a unit whose contents are unspecified
          Clients,      \* the goroutines serving frontend requests
          Shapes,       \* the sets of units that one write may cover
          SnapshotMaxCount,
          MaxSnaps,     \* bound: snapshots taken in a behaviour
          Kinds,        \* bound: the kinds of request the frontend sends
          Pinged,       \* bound: the replicas whose ping may fail
          SectorExclusive,  \* TRUE: the frontend never has two writes to one
                            \* sector in flight; FALSE: only to one unit
          Overtakers        \* the operations that may take the lock between a
                            \* request's RUnlock and its handleError

ASSUME ConstantsAssumption ==
    /\ InitRW \subseteq Replicas /\ InitRW # {}
    /\ NoReplica \notin Replicas
    /\ Sectors # {}
    /\ Units # {}
    /\ Zero \in Values
    /\ Unspecified \notin Values
    /\ Shapes \subseteq SUBSET Units
    /\ SnapshotMaxCount \in Nat
    /\ MaxSnaps \in Nat
    /\ Kinds \subseteq {"read", "write", "unmap"}
    /\ Pinged \subseteq Replicas
    /\ SectorExclusive \in BOOLEAN
    /\ Overtakers \subseteq {"snapshot", "add", "verify"}

Contents == [Units -> Values]
Blank    == [u \in Units |-> Zero]

\* What the client knows of a sector: Unspecified where it may read anything.
Views    == [Units -> Values \cup {Unspecified}]

\* The contents c with the given units replaced by those of b.
Overlay(c, units, b) == [u \in Units |-> IF u \in units THEN b[u] ELSE c[u]]

\* The contents c are ones the client may find in a sector it knows as v.
Match(c, v) == \A u \in Units : v[u] = Unspecified \/ c[u] = v[u]

VARIABLES
    mode,      \* c.replicas and backend.backends: the mode of each address
    data,      \* external: the live contents of each replica's volume
    snap,      \* external: the contents each replica had at its last snapshot
    chain,     \* external: the snapshots each replica holds, by number
    nextSnap,  \* the number the next snapshot gets (a fresh UUID in the code)
    woHead,    \* sectors written to the WO replica since the last snapshot
    task,      \* the sync.AddReplica call in progress
    monErr,    \* replicas whose monitoring goroutine has received an error
    op,        \* the frontend request each client is serving
    vol        \* history: what the acknowledged requests make of the volume

vars == <<mode, data, snap, chain, nextSnap, woHead, task, monErr, op, vol>>

-----------------------------------------------------------------------------
\* Requests

AnySector == CHOOSE s \in Sectors : TRUE

Idle(res) == [pc |-> "idle", kind |-> "none", s |-> AnySector, shape |-> {},
              buf |-> Blank, got |-> FALSE, todo |-> {}, failed |-> {},
              blamed |-> {}, wrapped |-> FALSE, res |-> res]

\* pc: "read"   - holding the lock for reading, about to call backend.ReadAt
\*     "io"     - holding it, waiting for the replicas in todo
\*     "handle" - released it with an error, about to call handleError
\*     "lock"   - blocked in handleError's c.Lock()
\* got: buf holds a whole sector that backend.ReadAt returned
\* failed, blamed: the replicas that failed, those the BackendError names
\* wrapped: the error is no longer a BackendError
Requests ==
    [pc : {"idle", "read", "io", "handle", "lock"},
     kind : {"none", "read", "write", "unmap"},
     s : Sectors, shape : SUBSET Units, buf : Contents, got : BOOLEAN,
     todo : SUBSET Replicas, failed : SUBSET Replicas,
     blamed : SUBSET Replicas, wrapped : BOOLEAN, res : {"none", "ok", "err"}]

RW      == {r \in Replicas : mode[r] = "RW"}
WO      == {r \in Replicas : mode[r] = "WO"}
Active  == RW \cup WO                  \* the writers and the unmappers
Members == {r \in Replicas : mode[r] # "none"}

\* No request holds the lock for reading: c.Lock() can return.
NoReaders  == \A k \in Clients : op[k].pc \notin {"read", "io"}
\* A goroutine blocked in c.Lock() keeps new readers out.
CanRLock   == \A k \in Clients : op[k].pc # "lock"
\* Whether an operation may get the lock ahead of a pending handleError.
MayTakeLock(who) ==
    /\ NoReaders
    /\ who \notin Overtakers =>
           \A k \in Clients : op[k].pc \notin {"handle", "lock"}

InFlight(k, s) == op[k].pc # "idle" /\ op[k].kind = "write" /\ op[k].s = s
Unmapping(k, s) == op[k].pc # "idle" /\ op[k].kind = "unmap" /\ op[k].s = s
Busy(s) == \E k \in Clients : InFlight(k, s) \/ Unmapping(k, s)

\* The frontend (external) sends no write that overlaps one in flight.
FrontendMaySend(s, shape) ==
    \A k \in Clients : InFlight(k, s) \/ Unmapping(k, s) =>
        ~SectorExclusive /\ InFlight(k, s) /\ op[k].shape \cap shape = {}

-----------------------------------------------------------------------------
TaskIdle == [stage |-> "idle", to |-> NoReplica, from |-> NoReplica,
             list |-> {}, complete |-> FALSE, base |-> [s \in Sectors |-> Blank],
             head |-> {}]

Tasks == [stage : {"idle", "added", "sourced", "prepared", "synced"},
          to : Replicas \cup {NoReplica},
          from : Replicas \cup {NoReplica}, list : SUBSET (1 .. MaxSnaps),
          complete : BOOLEAN, base : [Sectors -> Contents],
          head : SUBSET Sectors]

Init ==
    /\ mode = [r \in Replicas |-> IF r \in InitRW THEN "RW" ELSE "none"]
    /\ data = [r \in Replicas |-> [s \in Sectors |-> Blank]]
    /\ snap = [r \in Replicas |-> [s \in Sectors |-> Blank]]
    /\ chain = [r \in Replicas |-> {}]
    /\ nextSnap = 1
    /\ woHead = {}
    /\ task = TaskIdle
    /\ monErr = {}
    /\ op = [k \in Clients |-> Idle("none")]
    /\ vol = [s \in Sectors |-> Blank]

-----------------------------------------------------------------------------
\* WriteAt, ReadAt and UnmapAt: the critical section under RLock

\* replicator: "if !r.backendsAvailable { return 0, ErrNoBackend }".  The error
\* is no BackendError, so handleError hands it to the caller as it is.
NoBackend(k) ==
    /\ op[k].pc = "idle" /\ CanRLock /\ RW = {}
    /\ op' = [op EXCEPT ![k] = Idle("err")]
    /\ UNCHANGED <<mode, data, snap, chain, nextSnap, woHead, task, monErr, vol>>

\* WriteAt.  With a WO replica, a write that is not a whole sector first reads
\* the sector from an RW replica (writeInWOMode).
StartWrite(k, s, shape, v) ==
    /\ "write" \in Kinds
    /\ op[k].pc = "idle" /\ CanRLock /\ RW # {}
    /\ FrontendMaySend(s, shape)
    /\ op' = [op EXCEPT ![k] =
                [Idle("none") EXCEPT
                    !.pc = IF WO # {} /\ shape # Units THEN "read" ELSE "io",
                    !.kind = "write", !.s = s, !.shape = shape,
                    !.buf = [u \in Units |-> v], !.todo = Active]]
    /\ UNCHANGED <<mode, data, snap, chain, nextSnap, woHead, task, monErr, vol>>

\* ReadAt takes the lock for reading.
StartRead(k, s) ==
    /\ "read" \in Kinds
    /\ op[k].pc = "idle" /\ CanRLock /\ RW # {}
    /\ op' = [op EXCEPT ![k] =
                [Idle("none") EXCEPT !.pc = "read", !.kind = "read", !.s = s]]
    /\ UNCHANGED <<mode, data, snap, chain, nextSnap, woHead, task, monErr, vol>>

\* UnmapAt of one sector, refused without an error while a replica is WO.
\* What a sector holds after a discard is unspecified: an older snapshot's
\* contents may show through.
StartUnmap(k, s) ==
    /\ "unmap" \in Kinds
    /\ op[k].pc = "idle" /\ CanRLock
    /\ \/ /\ WO # {}
          /\ op' = [op EXCEPT ![k] = Idle("ok")]
          /\ UNCHANGED vol
       \/ /\ WO = {} /\ RW # {} /\ FrontendMaySend(s, Units)
          /\ op' = [op EXCEPT ![k] =
                      [Idle("none") EXCEPT
                          !.pc = "io", !.kind = "unmap", !.s = s,
                          !.shape = Units, !.todo = Active]]
          /\ vol' = [vol EXCEPT ![s] = [u \in Units |-> Unspecified]]
    /\ UNCHANGED <<mode, data, snap, chain, nextSnap, woHead, task, monErr>>

\* Mutant: ReadAt wraps the error of a read, too.
AfterReadWrapped(o, bad, c) ==
    IF o.kind = "read"
    THEN [o EXCEPT !.pc = "io", !.got = (bad # RW), !.buf = c, !.failed = bad,
                   !.wrapped = (bad # {})]
    ELSE IF bad = {}
    THEN [o EXCEPT !.pc = "io", !.got = TRUE, !.buf = Overlay(c, o.shape, @)]
    ELSE [o EXCEPT !.pc = "handle", !.todo = {}, !.failed = bad, !.wrapped = TRUE]

\* What request o becomes when the replicas in bad failed the read and c is
\* what the read left in the buffer.  The error reports every replica that
\* failed, even when a later one succeeded.  writeInWOMode wraps it, and
\* handleErrorNoLock then no longer recognises it as a BackendError.
AfterRead(o, bad, c) ==
    IF o.kind = "read"
    THEN [o EXCEPT !.pc = "io", !.got = (bad # RW), !.buf = c, !.failed = bad]
    ELSE IF bad = {}
    THEN [o EXCEPT !.pc = "io", !.got = TRUE, !.buf = Overlay(c, o.shape, @)]
    ELSE [o EXCEPT !.pc = "handle", !.todo = {}, !.failed = bad, !.wrapped = TRUE]

\* replicator.ReadAt: try the RW replicas in turn until one succeeds.
ReadAt(k) ==
    /\ op[k].pc = "read"
    /\ \E bad \in SUBSET RW :
         \E c \in IF bad = RW THEN {op[k].buf}
                              ELSE {data[r][op[k].s] : r \in RW \ bad} :
            op' = [op EXCEPT ![k] = AfterRead(@, bad, c)]
    /\ UNCHANGED <<mode, data, snap, chain, nextSnap, woHead, task, monErr, vol>>

\* MultiWriterAt: replica r's goroutine writes.  A failed write may or may not
\* have reached the disk.
ReplicaWrite(k, r) ==
    LET s   == op[k].s
        eff == IF op[k].got THEN Units ELSE op[k].shape
        new == Overlay(data[r][s], eff, op[k].buf)
    IN  /\ op[k].pc = "io" /\ op[k].kind = "write" /\ r \in op[k].todo
        /\ \/ /\ data' = [data EXCEPT ![r][s] = new]
              /\ op' = [op EXCEPT ![k].todo = @ \ {r}]
              /\ woHead' = IF r \in WO THEN woHead \cup {s} ELSE woHead
              /\ task' = IF r \in WO /\ task.stage = "prepared"
                         THEN [task EXCEPT !.head = @ \cup {s}] ELSE task
           \/ /\ data' \in {data, [data EXCEPT ![r][s] = new]}
              /\ op' = [op EXCEPT ![k].todo = @ \ {r},
                                  ![k].failed = @ \cup {r}]
              /\ UNCHANGED <<woHead, task>>
        /\ UNCHANGED <<mode, snap, chain, nextSnap, monErr, vol>>

\* MultiUnmapperAt: replica r's goroutine unmaps.
ReplicaUnmap(k, r) ==
    /\ op[k].pc = "io" /\ op[k].kind = "unmap" /\ r \in op[k].todo
    /\ \/ /\ \E c \in Contents : data' = [data EXCEPT ![r][op[k].s] = c]
          /\ op' = [op EXCEPT ![k].todo = @ \ {r}]
       \/ /\ op' = [op EXCEPT ![k].todo = @ \ {r}, ![k].failed = @ \cup {r}]
          /\ UNCHANGED data
    /\ UNCHANGED <<mode, snap, chain, nextSnap, woHead, task, monErr, vol>>

\* What the client knows once the write of request o returned with res.
Acknowledge(o, res) ==
    vol' = IF o.kind = "write"
           THEN [vol EXCEPT ![o.s] =
                    Overlay(@, o.shape, IF res = "ok" THEN o.buf
                                        ELSE [u \in Units |-> Unspecified])]
           ELSE vol

\* The replicas a BackendError names.  replicator.UnmapAt looks for a
\* MultiWriterError, which MultiUnmapperAt never returns: whoever failed, the
\* error names the first unmapper, an arbitrary active replica.
Blamed(o) ==
    IF o.kind = "unmap" THEN {{r} : r \in Active} ELSE {o.failed}

\* Mutant: the first answer is enough.
FinishIOEarly(k) ==
    /\ op[k].pc = "io"
    /\ op[k].kind # "read" => \E r \in Active : r \notin op[k].todo
    /\ \/ /\ op[k].failed = {}
          /\ Acknowledge(op[k], "ok")
          /\ op' = [op EXCEPT ![k] = Idle("ok")]
       \/ /\ op[k].failed # {}
          /\ \E bad \in Blamed(op[k]) :
                op' = [op EXCEPT ![k].pc = "handle", ![k].blamed = bad]
          /\ UNCHANGED vol
    /\ UNCHANGED <<mode, data, snap, chain, nextSnap, woHead, task, monErr>>

\* Every replica answered: RUnlock, and return unless one failed.
FinishIO(k) ==
    /\ op[k].pc = "io" /\ op[k].todo = {}
    /\ \/ /\ op[k].failed = {}
          /\ Acknowledge(op[k], "ok")
          /\ op' = [op EXCEPT ![k] = Idle("ok")]
       \/ /\ op[k].failed # {}
          /\ \E bad \in Blamed(op[k]) :
                op' = [op EXCEPT ![k].pc = "handle", ![k].blamed = bad]
          /\ UNCHANGED vol
    /\ UNCHANGED <<mode, data, snap, chain, nextSnap, woHead, task, monErr>>

-----------------------------------------------------------------------------
\* handleError: the second critical section of a request that failed

\* Mutant: only a replica that is being rebuilt is marked.
MarkERRIfWO(bad) == [r \in Replicas |-> IF r \in bad /\ mode[r] = "WO"
                                        THEN "ERR" ELSE mode[r]]

\* setReplicaModeNoLock(ERR) on every replica of bad that is still a member.
MarkERR(bad) == [r \in Replicas |-> IF r \in bad /\ mode[r] # "none"
                                    THEN "ERR" ELSE mode[r]]

\* Mutant: handleError polls for the lock instead of queueing for it.
CallLockPolling(k) ==
    /\ op[k].pc = "handle" /\ NoReaders
    /\ op' = [op EXCEPT ![k].pc = "lock"]
    /\ UNCHANGED <<mode, data, snap, chain, nextSnap, woHead, task, monErr, vol>>

\* handleError calls c.Lock(), which keeps new readers out from here on.
CallLock(k) ==
    /\ op[k].pc = "handle"
    /\ op' = [op EXCEPT ![k].pc = "lock"]
    /\ UNCHANGED <<mode, data, snap, chain, nextSnap, woHead, task, monErr, vol>>

\* Mutant: a WO replica counts as a good one.
HandleErrorCountsWO(k) ==
    /\ op[k].pc = "lock" /\ NoReaders
    /\ mode' = IF op[k].wrapped THEN mode ELSE MarkERR(op[k].blamed)
    /\ LET good == ~op[k].wrapped /\ \E r \in Replicas : mode'[r] \in {"RW", "WO"}
           res  == IF good THEN "ok" ELSE "err"
       IN  /\ Acknowledge(op[k], res)
           /\ op' = [op EXCEPT ![k] = Idle(res)]
    /\ UNCHANGED <<data, snap, chain, nextSnap, woHead, task, monErr>>

\* handleErrorNoLock: mark the replicas the error names, and drop the error when
\* an RW replica is left.  An error that is no BackendError is returned as it is.
HandleError(k) ==
    /\ op[k].pc = "lock" /\ NoReaders
    /\ mode' = IF op[k].wrapped THEN mode ELSE MarkERR(op[k].blamed)
    /\ LET good == ~op[k].wrapped /\ \E r \in Replicas : mode'[r] = "RW"
           res  == IF good THEN "ok" ELSE "err"
       IN  /\ Acknowledge(op[k], res)
           /\ op' = [op EXCEPT ![k] = Idle(res)]
    /\ UNCHANGED <<data, snap, chain, nextSnap, woHead, task, monErr>>

-----------------------------------------------------------------------------
\* Snapshots and the set of replicas: critical sections under Lock

\* canDoSnapshot: the largest count among the replicas that answer.
CanDoSnapshot ==
    \E answer \in SUBSET Active :
        /\ answer # {}
        /\ \A r \in answer : Cardinality(chain[r]) < SnapshotMaxCount

\* The replicas in who take snapshot number nextSnap.
TakeSnapshot(who) ==
    /\ nextSnap <= MaxSnaps
    /\ chain' = [r \in Replicas |-> IF r \in who THEN chain[r] \cup {nextSnap}
                                    ELSE chain[r]]
    /\ snap' = [r \in Replicas |-> IF r \in who THEN data[r] ELSE snap[r]]
    /\ woHead' = {}
    /\ nextSnap' = nextSnap + 1

\* Snapshot: a replica that fails to take it becomes ERR.
Snapshot ==
    /\ MayTakeLock("snapshot") /\ CanDoSnapshot
    /\ \E bad \in SUBSET Active :
         /\ TakeSnapshot(Active \ bad)
         /\ mode' = MarkERR(bad)
    /\ UNCHANGED <<data, task, monErr, op, vol>>

\* canAdd: the address is new and no other replica is being rebuilt.
CanAdd(r) == mode[r] = "none" /\ WO = {}

\* addReplica(r, snapshot, WO), the first step of sync.AddReplica.  An address
\* that is a member already is no error: the rebuild starts over on it.  When
\* a replica fails to take the snapshot the call fails and no replica is
\* marked ERR: some hold the snapshot and some do not.
AddReplica(r) ==
    /\ task.stage = "idle" /\ Members # {}
    /\ \/ /\ mode[r] = "WO" /\ NoReaders
          /\ task' = [TaskIdle EXCEPT !.stage = "added", !.to = r]
          /\ UNCHANGED <<mode, snap, chain, nextSnap, woHead>>
       \/ /\ CanAdd(r)
          /\ MayTakeLock("add") /\ CanDoSnapshot
          /\ \/ \E bad \in SUBSET Active :
                  /\ bad # {}
                  /\ TakeSnapshot(Active \ bad)
                  /\ UNCHANGED <<mode, task>>
             \/ /\ TakeSnapshot(Active)
                /\ UNCHANGED <<mode, task>>
             \/ /\ TakeSnapshot(Active \cup {r})
                /\ mode' = [mode EXCEPT ![r] = "WO"]
                /\ task' = [TaskIdle EXCEPT !.stage = "added", !.to = r]
    /\ UNCHANGED <<data, monErr, op, vol>>

\* RemoveReplica; the frontend is up, so the last replica stays.
RemoveReplica(r) ==
    /\ NoReaders
    /\ mode[r] # "none" /\ Cardinality(Members) > 1
    /\ mode' = [mode EXCEPT ![r] = "none"]
    /\ UNCHANGED <<data, snap, chain, nextSnap, woHead, task, monErr, op, vol>>

\* monitorPing (external) reports a failed ping to the monitoring goroutine ...
PingFails(r) ==
    /\ r \in Active \cap Pinged /\ r \notin monErr
    /\ monErr' = monErr \cup {r}
    /\ UNCHANGED <<mode, data, snap, chain, nextSnap, woHead, task, op, vol>>

\* ... which sets the address to ERR, whatever happened to it meanwhile.
Monitoring(r) ==
    /\ r \in monErr /\ NoReaders
    /\ mode' = MarkERR({r})
    /\ monErr' = monErr \ {r}
    /\ UNCHANGED <<data, snap, chain, nextSnap, woHead, task, op, vol>>

-----------------------------------------------------------------------------
\* sync.AddReplica after the replica has been added

\* Mutant: the lack of a source is not an error.
GetTransferClientsAnyway ==
    /\ task.stage = "added" /\ mode[task.to] = "WO"
    /\ \E r \in IF RW = {} THEN {NoReplica} ELSE RW :
         task' = [task EXCEPT !.stage = "sourced", !.from = r]
    /\ UNCHANGED <<mode, data, snap, chain, nextSnap, woHead, monErr, op, vol>>

\* getTransferClients: the source is a replica that is RW now.
GetTransferClients ==
    /\ task.stage = "added" /\ mode[task.to] = "WO"
    /\ \E r \in RW : task' = [task EXCEPT !.stage = "sourced", !.from = r]
    /\ UNCHANGED <<mode, data, snap, chain, nextSnap, woHead, monErr, op, vol>>

\* PrepareRebuildReplica: list the snapshots of an RW replica, which need not
\* be the source, and remove the others from the target.  The files to copy
\* never change again: base is what they make of the volume at the source.
PrepareRebuildReplica ==
    /\ task.stage = "sourced" /\ NoReaders
    /\ mode[task.to] = "WO"
    /\ \E rw \in RW :
         /\ chain' = [chain EXCEPT ![task.to] = @ \cap chain[rw]]
         /\ task' = [task EXCEPT !.stage = "prepared", !.list = chain[rw],
                                 !.complete = chain[rw] \subseteq chain[task.from],
                                 !.base = snap[task.from], !.head = woHead]
    /\ UNCHANGED <<mode, data, snap, nextSnap, woHead, monErr, op, vol>>

\* Mutant: the copied files replace what was written to the target meanwhile.
SyncFilesOverHead ==
    /\ task.stage = "prepared" /\ task.complete
    /\ data' = [data EXCEPT ![task.to] = task.base]
    /\ chain' = [chain EXCEPT ![task.to] = @ \cup task.list]
    /\ task' = [task EXCEPT !.stage = "synced"]
    /\ UNCHANGED <<mode, snap, nextSnap, woHead, monErr, op, vol>>

\* SyncFiles and ReloadReplica: the target's snapshots become the source's;
\* the sectors written to the target since then lie above them.
SyncFiles ==
    /\ task.stage = "prepared" /\ task.complete
    /\ data' = [data EXCEPT ![task.to] =
                  [s \in Sectors |-> IF s \in task.head THEN @[s]
                                     ELSE task.base[s]]]
    /\ chain' = [chain EXCEPT ![task.to] = @ \cup task.list]
    /\ task' = [task EXCEPT !.stage = "synced"]
    /\ UNCHANGED <<mode, snap, nextSnap, woHead, monErr, op, vol>>

\* Mutant: a replica that was not rebuilt yet is verified.
VerifyRebuildReplicaEarly ==
    /\ task.stage # "idle" /\ MayTakeLock("verify")
    /\ mode[task.to] = "WO"
    /\ \E rw \in RW : chain[task.to] = chain[rw]
    /\ mode' = [mode EXCEPT ![task.to] = "RW"]
    /\ task' = TaskIdle
    /\ UNCHANGED <<data, snap, chain, nextSnap, woHead, monErr, op, vol>>

\* VerifyRebuildReplica: a WO replica with the snapshots of an RW replica
\* becomes RW.
VerifyRebuildReplica ==
    /\ task.stage = "synced" /\ MayTakeLock("verify")
    /\ mode[task.to] = "WO"
    /\ \E rw \in RW : chain[task.to] = chain[rw]
    /\ mode' = [mode EXCEPT ![task.to] = "RW"]
    /\ task' = TaskIdle
    /\ UNCHANGED <<data, snap, chain, nextSnap, woHead, monErr, op, vol>>

\* An error in any of its calls, or the death of its process, ends the task.
TaskFails ==
    /\ task.stage # "idle"
    /\ task' = TaskIdle
    /\ UNCHANGED <<mode, data, snap, chain, nextSnap, woHead, monErr, op, vol>>

-----------------------------------------------------------------------------
Request(k) ==
    \/ NoBackend(k)
    \/ \E s \in Sectors : \/ \E shape \in Shapes, v \in Values :
                                StartWrite(k, s, shape, v)
                          \/ StartRead(k, s)
                          \/ StartUnmap(k, s)
    \/ ReadAt(k)
    \/ \E r \in Replicas : ReplicaWrite(k, r) \/ ReplicaUnmap(k, r)
    \/ FinishIO(k)
    \/ CallLock(k)
    \/ HandleError(k)

Rebuild ==
    \/ GetTransferClients \/ PrepareRebuildReplica
    \/ SyncFiles \/ VerifyRebuildReplica \/ TaskFails

Next ==
    \/ \E k \in Clients : Request(k)
    \/ Snapshot
    \/ \E r \in Replicas : \/ AddReplica(r) \/ RemoveReplica(r)
                           \/ PingFails(r)  \/ Monitoring(r)
    \/ Rebuild

Spec == Init /\ [][Next]_vars

\* What a request's own goroutines do once it has been accepted.  A replica
\* answers or its connection times out (pkg/dataconn), a goroutine that can run
\* does run, and a goroutine blocked in c.Lock() keeps new readers out.
Progress(k) ==
    \/ ReadAt(k)
    \/ \E r \in Replicas : ReplicaWrite(k, r) \/ ReplicaUnmap(k, r)
    \/ FinishIO(k)
    \/ CallLock(k)
    \/ HandleError(k)

FairSpec == Spec /\ \A k \in Clients : WF_vars(Progress(k))

-----------------------------------------------------------------------------
\* The types, and what a running sync.AddReplica relies on: its target, and once
\* getTransferClients has returned its source, are replicas.
TypeOK ==
    /\ mode \in [Replicas -> {"none", "RW", "WO", "ERR"}]
    /\ data \in [Replicas -> [Sectors -> Contents]]
    /\ snap \in [Replicas -> [Sectors -> Contents]]
    /\ chain \in [Replicas -> SUBSET (1 .. MaxSnaps)]
    /\ nextSnap \in 1 .. MaxSnaps + 1
    /\ woHead \in SUBSET Sectors
    /\ task \in Tasks
    /\ task.stage # "idle" => task.to \in Replicas
    /\ task.stage = "sourced" => task.from \in Replicas
    /\ monErr \in SUBSET Replicas
    /\ op \in [Clients -> Requests]
    /\ vol \in [Sectors -> Views]

\* Every RW replica holds every acknowledged write: outside the sectors that a
\* request in flight is changing, a replica that may be read has what the
\* volume is known to hold.  A replica that missed a write is ERR, or the write
\* is not acknowledged yet, and a replica is RW again only after a complete
\* rebuild.  (WriteAt, handleErrorNoLock, VerifyRebuildReplica.)
AcknowledgedWritesSafe ==
    \A r \in RW, s \in Sectors : ~Busy(s) => Match(data[r][s], vol[s])

\* handleErrorNoLock: "if we still have a good replica, do not return error".
\* A request fails only when no RW replica is left.
NoErrorWithGoodReplica ==
    [][\A k \in Clients :
          op[k].pc # "idle" /\ op'[k].pc = "idle" /\ op'[k].res = "err" =>
              \A r \in Replicas : mode'[r] # "RW"]_vars

\* A read that succeeds was served by a replica.  handleErrorNoLock drops the
\* error of a read that failed on every RW replica when it finds a replica
\* that became RW after the read.
SuccessfulReadsServed ==
    [][\A k \in Clients :
          op[k].kind = "read" /\ op'[k].pc = "idle" /\ op'[k].res = "ok" =>
              op[k].got]_vars

\* A replica that failed a request is out of use once the error has been
\* handled.  (replicator.UnmapAt, handleErrorNoLock.)
FaultyReplicasMarked ==
    [][\A k \in Clients :
          op[k].pc # "idle" /\ op'[k].pc = "idle" =>
              \A r \in op[k].failed : mode'[r] \in {"ERR", "none"}]_vars

\* The replicated volume is a block device: the requests in flight are those
\* of the controller, the disk is what acknowledged requests make of it, and
\* what WriteAt, ReadAt, UnmapAt and handleError do to the replicas cannot be
\* told from a single disk.
DeviceRequest(o) ==
    [kind |-> o.kind, s |-> o.s, shape |-> o.shape,
     val |-> IF o.kind = "read" THEN o.buf ELSE Overlay(Blank, o.shape, o.buf),
     served |-> o.kind = "read" /\ o.got, res |-> o.res]

Device == INSTANCE BlockDevice WITH
    disk <- vol, req <- [k \in Clients |-> DeviceRequest(op[k])]

\* The replicated volume implements a single disk: every request takes effect at one
\* moment between its call and its return (WriteAt, ReadAt and UnmapAt of control.go).
BehavesAsBlockDevice == Device!Spec

\* Every request returns: no WriteAt, ReadAt or UnmapAt waits for ever, neither
\* for a replica nor for the lock that handleError takes after RUnlock, however
\* many requests keep taking that lock for reading.
RequestsReturn ==
    \A k \in Clients : op[k].pc # "idle" ~> op[k].pc = "idle"

-----------------------------------------------------------------------------
(***************************************************************************)
(* The inductive invariant behind AcknowledgedWritesSafe.  It holds when   *)
(* SectorExclusive is TRUE and neither Snapshot nor AddReplica overtakes   *)
(* handleError.                                                            *)
(***************************************************************************)

\* Replica r has finished its part of the write of client k ...
Wrote(k, r) ==
    op[k].pc \in {"io", "handle", "lock"} /\ ~op[k].wrapped /\ r \notin op[k].todo
\* ... and reported a failure.
Missed(k, r) == ~op[k].wrapped /\ r \in op[k].failed

\* What the client will know of the sector when the write of k has succeeded.
After(k) == Overlay(vol[op[k].s], op[k].shape, op[k].buf)

\* Replica r has what it should have of sector s at this point of the requests.
Good(r, s) ==
    /\ ~Busy(s) => Match(data[r][s], vol[s])
    /\ \A k \in Clients : InFlight(k, s) /\ ~Missed(k, r) =>
           Match(data[r][s], IF Wrote(k, r) THEN After(k) ELSE vol[s])

OneWO == \A r1, r2 \in WO : r1 = r2

Changing(k, s) == InFlight(k, s) \/ Unmapping(k, s)
Exclusive ==
    \A j, k \in Clients, s \in Sectors : Changing(j, s) /\ Changing(k, s) => j = k

RequestOK(k) ==
    /\ op[k].pc = "read" => /\ RW # {}
                            /\ op[k].kind \in {"read", "write"}
                            /\ op[k].failed = {}
                            /\ ~op[k].got
    /\ op[k].pc = "read" /\ op[k].kind = "write" => Active \subseteq op[k].todo
    /\ op[k].wrapped => op[k].pc \in {"handle", "lock"} /\ op[k].kind = "write"
    /\ op[k].pc \in {"handle", "lock"} => op[k].todo = {}
    /\ op[k].kind = "write" /\ op[k].pc \in {"handle", "lock"} /\ ~op[k].wrapped
           => op[k].blamed = op[k].failed
    /\ op[k].kind = "write" /\ op[k].pc # "idle" /\ op[k].got
           => Match(op[k].buf, After(k))
    /\ op[k].kind = "write" /\ op[k].pc = "io" /\ op[k].todo \cap WO # {}
           => op[k].got \/ op[k].shape = Units
    /\ op[k].kind = "unmap" /\ op[k].pc # "idle"
           => \A u \in Units : vol[op[k].s][u] = Unspecified

\* A write that reached the WO replica is among the sectors it holds itself.
ReachedHead(k, head) ==
    op[k].kind = "write" =>
        \A r \in WO : Wrote(k, r) /\ ~Missed(k, r) => op[k].s \in head

Latest == nextSnap - 1

\* The last snapshot of a replica that took it holds every sector that has not
\* been written to the WO replica since.
SnapshotsOK ==
    /\ \A r \in Replicas : chain[r] \subseteq 1 .. Latest
    /\ WO # {} =>
         /\ \A r \in RW : Latest \in chain[r]
         /\ \A r \in Replicas \ WO, s \in Sectors \ woHead :
                Latest \in chain[r] => Match(snap[r][s], vol[s])

WOHeadOK ==
    /\ \A r \in WO, s \in woHead : Good(r, s)
    /\ \A k \in Clients : ReachedHead(k, woHead)

TaskOK ==
    /\ task.stage # "idle" => /\ WO \subseteq {task.to}
                             /\ task.to \notin RW
                             /\ task.list \subseteq 1 .. Latest
    /\ task.stage = "sourced" => task.from # task.to
    /\ task.stage = "prepared" /\ task.complete /\ task.to \in WO =>
          /\ \A s \in Sectors : IF s \in task.head THEN Good(task.to, s)
                                ELSE Match(task.base[s], vol[s])
          /\ \A k \in Clients : ReachedHead(k, task.head)
    /\ task.stage = "synced" /\ task.to \in WO => \A s \in Sectors : Good(task.to, s)

\* The invariant: requests and the replicas they changed agree, and the rebuild
\* in progress, whatever its stage, will leave the WO replica complete.
Inv ==
    /\ TypeOK
    /\ OneWO
    /\ Exclusive
    /\ \A k \in Clients : RequestOK(k)
    /\ \A r \in RW, s \in Sectors : Good(r, s)
    /\ SnapshotsOK
    /\ WOHeadOK
    /\ TaskOK

-----------------------------------------------------------------------------
(***************************************************************************)
(* What BehavesAsBlockDevice needs besides Inv, when VerifyRebuildReplica  *)
(* does not overtake handleError either.                                   *)
(***************************************************************************)

\* A client that is not in WriteAt, ReadAt or UnmapAt has no request.
ClientOK(k) ==
    /\ op[k].pc = "idle" => op[k] = Idle(op[k].res)
    /\ op[k].pc # "idle" => op[k].kind # "none"

\* A read that got nothing was refused by every replica that may still be read.
ReadOK(k) ==
    op[k].kind = "read" =>
        /\ op[k].pc \in {"handle", "lock"} => op[k].blamed = op[k].failed
        /\ op[k].pc \in {"io", "handle", "lock"} /\ ~op[k].got =>
               op[k].failed # {} /\ RW \subseteq op[k].failed

\* Whether or not the write of k failed on replica r, the replica holds, unit by unit,
\* what the sector held before or what is being written.
HalfWritten(k, r) ==
    op[k].pc # "idle" /\ op[k].kind = "write" =>
        \A u \in Units :
            \/ vol[op[k].s][u] \in {Unspecified, data[r][op[k].s][u]}
            \/ u \in op[k].shape /\ data[r][op[k].s][u] = op[k].buf[u]

DeviceInv ==
    \A k \in Clients : ClientOK(k) /\ ReadOK(k) /\ \A r \in RW : HalfWritten(k, r)
=============================================================================
