----------------------------- MODULE MCProgress -----------------------------
(***************************************************************************)
(* What must happen in the end, component by component, on small           *)
(* instances.  The components share no state here: the initial state picks *)
(* the part that runs, under the fairness of that part, and the others     *)
(* stay as they are.                                                       *)
(***************************************************************************)
EXTENDS Integers

CONSTANTS u1, u2,                          \* snapshots
          NoName, MetaFile,                \* of SnapshotPurge
          NoData, Anything, Nobody,        \* of DiffDisk
          Ping, NoReq                      \* of DataConn

VARIABLES
    part,
    fs, store, mem, todo, call, faults, writes, want, kept, wantReb, reply, agent, quiet,
    layers, location, op, rmLock, diskWrites, vol,
    file, buf, cache, reqs, gor, gerr, writer, setting, failed, counterFaults, base, acked,
    loop, phase, messages, seq, msg, applied, up, errs, clientError, ioInflight, age, decremented,
    consumers, monitor, connMode, breaks,
    csize, isExpanding, size, mode, task, device, adder, addSize,
    freezePc, mounted, frozen, freezeLock, source, bind, thawed, running, crashes, toolFaults, gaveUp,
    pc, readers, waiting, lifeMode, lifeDevice, isUp, listeners, dirty, lost, frontErr, result,
    lifeFaults, deviceFaults, rounds,
    backups, hashes, jobState, listPc, adding, adds,
    snapFile, out, known, parent, st, restoring, restorePc, restoreStore, restoreTask, gone, names, calls,
    restoreFaults, restoreCrashes,
    isCloning, status, cloneCall, current, receiver, cloneFile, cloneHead, cloneFaults, cloneCrashes

chainVars   == <<fs, store, mem, todo, call, faults, writes, want, kept, wantReb, reply, agent, quiet>>
diskVars    == <<layers, location, op, rmLock, diskWrites, vol>>
counterVars == <<file, buf, cache, reqs, gor, gerr, writer, setting, failed, counterFaults, base, acked>>
connVars    == <<loop, phase, messages, seq, msg, applied, up, errs, clientError, ioInflight, age, decremented,
                 consumers, monitor, connMode, breaks>>
expandVars  == <<csize, isExpanding, size, mode, task, device, adder, addSize>>
freezeVars  == <<freezePc, mounted, frozen, freezeLock, source, bind, thawed, running, crashes, toolFaults, gaveUp>>
lifeVars    == <<pc, readers, waiting, lifeMode, lifeDevice, isUp, listeners, dirty, lost, frontErr, result,
                 lifeFaults, deviceFaults, rounds>>
listVars    == <<backups, hashes, jobState, listPc, adding, adds>>
restoreVars == <<snapFile, out, known, parent, st, restoring, restorePc, restoreStore, restoreTask, gone, names,
                 calls, restoreFaults, restoreCrashes>>
cloneVars   == <<isCloning, status, cloneCall, current, receiver, cloneFile, cloneHead, cloneFaults, cloneCrashes>>
replicaVars == <<chainVars, diskVars, counterVars>>
engineVars  == <<connVars, expandVars, freezeVars, lifeVars>>
agentVars   == <<listVars, restoreVars, cloneVars>>
mcVars == <<part, replicaVars, engineVars, agentVars>>

-----------------------------------------------------------------------------
\* A purge of two snapshots, and one of a snapshot in which the replica crashes.
Purge == INSTANCE SnapshotPurge WITH
    Snaps <- {u1, u2}, Blocks <- {1}, MaxHead <- 2, MaxWrites <- 0, MaxFaults <- 0, SnapshotMaxCount <- 3,
    UnmapMark <- FALSE, Users <- {TRUE}, Calls <- {"snapshot", "mark", "purge"}
Outage == INSTANCE SnapshotPurge WITH
    Snaps <- {u1}, Blocks <- {1}, MaxHead <- 2, MaxWrites <- 0, MaxFaults <- 1, SnapshotMaxCount <- 3,
    UnmapMark <- FALSE, Users <- {TRUE}, Calls <- {"open", "snapshot", "mark", "purge"}
Disk == INSTANCE DiffDisk WITH
    Sectors <- {1}, Units <- {1, 2}, DiskClients <- {1, 2}, MaxLayers <- 1, MaxDiskWrites <- 2,
    SectorExclusive <- FALSE, Pruning <- FALSE
Counter == INSTANCE RevisionCounter WITH
    CounterWriters <- {1, 2}, Base <- 2, MaxDigits <- 3, MaxCount <- 4, MaxCounterFaults <- 2, SlowEngine <- TRUE

Conn == INSTANCE DataConn WITH
    Clients <- {1}, IO <- {3}, MaxSeq <- 2, MaxBreaks <- 1, OpensFail <- FALSE
Expansion == INSTANCE Expansion WITH
    Replicas <- {"a", "n"}, NewReplica <- "n", Tasks <- {1, 2}, Sizes <- 1..3, SameSize <- FALSE, OverlapAdd <- TRUE
Freeze == INSTANCE SnapshotFreeze WITH
    Callers <- {"s", "t"}, Overlap <- FALSE, MaxCrashes <- 1, MaxToolFaults <- 1
Lifecycle == INSTANCE VolumeLifecycle WITH
    LifeReplicas <- {1, 2}, Overlaps <- {"lock", "fault", "start"}, MaxLifeFaults <- 1, MaxDeviceFaults <- 1,
    MaxRounds <- 2
Lists == INSTANCE JobLists WITH
    JobNames <- {"a", "b"}, Adders <- {"g1"}, Retained <- [complete |-> 1, error |-> 1], MaxJobs <- 2,
    hashJobs <- hashes, jobAdds <- adds
Restore == INSTANCE Restore WITH
    RestoreReplicas <- {1}, RestoreBlocks <- 1, Content <- <<<<1>>, <<2>>>>, MaxNames <- 2, MaxCalls <- 2, MaxFaults <- 1,
    MaxCrashes <- 1, HeadBehind <- FALSE, file <- snapFile, pc <- restorePc, store <- restoreStore,
    task <- restoreTask, faults <- restoreFaults, crashes <- restoreCrashes
Clone == INSTANCE SnapshotClone WITH
    Calls <- {1, 2}, Snapshots <- {"s", "t"}, NumPorts <- 2, Overlap <- TRUE, MaxCloneFaults <- 2,
    MaxCloneCrashes <- 1, call <- cloneCall

-----------------------------------------------------------------------------
\* A part that does not run is in one of its initial states.
MCInit ==
    /\ part \in {"purge", "outage", "disk", "counter", "conn", "expansion", "freeze", "lifecycle",
                 "lists", "restore", "clone"}
    /\ Purge!PurgeInit /\ Disk!DiskInit /\ Counter!CounterInit
    /\ Conn!ConnInit
    /\ Expansion!Init /\ (part # "expansion" => csize = 1 /\ size["n"] = 1)
    /\ Freeze!FreezeInit /\ (part # "freeze" => source)
    /\ Lifecycle!LifeInit /\ Lists!ListInit /\ Restore!RestoreInit /\ Clone!CloneInit

\* A step of one part.
InReplica(A)   == A /\ UNCHANGED <<part, engineVars, agentVars>>
InEngine(A)    == A /\ UNCHANGED <<part, replicaVars, agentVars>>
InAgent(A)     == A /\ UNCHANGED <<part, replicaVars, engineVars>>
InPurge(A)     == part = "purge" /\ InReplica(A) /\ UNCHANGED <<diskVars, counterVars>>
InOutage(A)    == part = "outage" /\ InReplica(A) /\ UNCHANGED <<diskVars, counterVars>>
InDisk(A)      == part = "disk" /\ InReplica(A) /\ UNCHANGED <<chainVars, counterVars>>
InCounter(A)   == part = "counter" /\ InReplica(A) /\ UNCHANGED <<chainVars, diskVars>>
InConn(A)      == part = "conn" /\ InEngine(A) /\ UNCHANGED <<expandVars, freezeVars, lifeVars>>
InExpansion(A) == part = "expansion" /\ InEngine(A) /\ UNCHANGED <<connVars, freezeVars, lifeVars>>
InFreeze(A)    == part = "freeze" /\ InEngine(A) /\ UNCHANGED <<connVars, expandVars, lifeVars>>
InLifecycle(A) == part = "lifecycle" /\ InEngine(A) /\ UNCHANGED <<connVars, expandVars, freezeVars>>
InLists(A)     == part = "lists" /\ InAgent(A) /\ UNCHANGED <<restoreVars, cloneVars>>
InRestore(A)   == part = "restore" /\ InAgent(A) /\ UNCHANGED <<listVars, cloneVars>>
InClone(A)     == part = "clone" /\ InAgent(A) /\ UNCHANGED <<listVars, restoreVars>>

MCNext ==
    \/ InPurge(Purge!PurgeNext) \/ InOutage(Outage!PurgeNext)
    \/ InDisk(Disk!DiskNext) \/ InCounter(Counter!CounterNext)
    \/ InConn(Conn!ConnNext) \/ InExpansion(Expansion!Next)
    \/ InFreeze(Freeze!FreezeNext) \/ InLifecycle(Lifecycle!LifeNext)
    \/ InLists(Lists!ListNext) \/ InRestore(Restore!RestoreNext) \/ InClone(Clone!CloneNext)

\* The fairness of the parts (see Fairness of each module).  One part runs, so that a
\* condition of one part can be stated together with one of every other part.
Weak1 ==
    \/ InPurge(Purge!AgentStep /\ ~Purge!StartPurge) \/ InOutage(Outage!AgentStep /\ ~Outage!StartPurge)
    \/ InDisk(Disk!Advance(1) /\ ~Disk!TakeLock(1))
    \/ InCounter(Counter!ServeCounter \/ Counter!Raise \/ Counter!CloseAcks)
    \/ InConn(\E r \in Conn!Reqs : Conn!TakeRequest(1, r))
    \/ InExpansion(Expansion!Step(1))
    \/ InFreeze(Freeze!SnapshotStep("s"))
    \/ InLifecycle(Lifecycle!WriteBack \/ Lifecycle!WriteAt \/ Lifecycle!handleError)
    \/ InLists(Lists!BackupGet) \/ InRestore(Restore!Store(1)) \/ InClone(Clone!Step(1))
Weak2 ==
    \/ InPurge(Purge!ServeCall) \/ InOutage(Outage!ServeCall)
    \/ InDisk(Disk!Advance(2) /\ ~Disk!TakeLock(2))
    \/ InCounter(Counter!DataDone(1) \/ Counter!DataFails(1) \/ Counter!AnswerClosed(1))
    \/ InConn(\E q \in Conn!Seqs : Conn!TakeResponse(1, q))
    \/ InExpansion(Expansion!Step(2))
    \/ InFreeze(Freeze!SnapshotStep("t"))
    \/ InLifecycle(Lifecycle!DeviceTimeout)
    \/ InLists(Lists!Get) \/ InRestore(Restore!Agent(1)) \/ InClone(Clone!Step(2))
Weak3 ==
    \/ InCounter(Counter!DataDone(2) \/ Counter!DataFails(2) \/ Counter!AnswerClosed(2))
    \/ InConn(\E q \in Conn!Seqs : Conn!WireWrite(1, q))
    \/ InFreeze(Freeze!StartController)
    \/ InLifecycle(Lifecycle!SetReplicaMode \/ Lifecycle!SetReplicaModeNone)
    \/ InLists(Lists!BackupAppend("g1") \/ Lists!BackupRefresh("g1"))
Weak4 == InConn(Conn!TakeError(1)) \/ InLifecycle(Lifecycle!RemoveReplica)
Weak5 == InConn(Conn!Tick(1)) \/ InLifecycle(Lifecycle!StartFrontend)
Weak6 ==
    \/ InConn(Conn!Elapse(1))
    \/ InLifecycle(Lifecycle!shutdownFrontend \/ Lifecycle!ShutdownQueue \/ Lifecycle!shutdownBackend)
Strong1 == InDisk(Disk!TakeLock(1)) \/ InCounter(Counter!Answer(1)) \/ InLifecycle(Lifecycle!WriteRLock)
Strong2 == InDisk(Disk!TakeLock(2)) \/ InCounter(Counter!Answer(2)) \/ InLifecycle(Lifecycle!ShutdownRLock)

MCSpec ==
    /\ MCInit /\ [][MCNext]_mcVars
    /\ WF_mcVars(Weak1) /\ WF_mcVars(Weak2) /\ WF_mcVars(Weak3)
    /\ WF_mcVars(Weak4) /\ WF_mcVars(Weak5) /\ WF_mcVars(Weak6)
    /\ SF_mcVars(Strong1) /\ SF_mcVars(Strong2)

-----------------------------------------------------------------------------
\* I/O returns: a request to the disk, although writes of less than a sector wait for
\* one another (readModifyWrite); a write, also when another one failed and left its
\* answer behind or the counter cannot be stored (initRevisionCounter); and a request of
\* the engine, whether or not the replica answers (ticker of Client.loop).
InIO(i) ==
    \/ part = "disk" /\ op[i].pc # "none"
    \/ part = "counter" /\ writer[i] # "idle"
    \/ part = "conn" /\ i = 1 /\ phase[1][3] = "queued"
Returned(i) ==
    \/ part = "disk" /\ op[i].pc = "none"
    \/ part = "counter" /\ writer[i] = "idle"
    \/ part = "conn" /\ phase[1][3] \in {"ok", "err"}
IOReturns == \A i \in {1, 2} : InIO(i) ~> Returned(i)

\* An expansion ends, and the volume can be expanded again or get a replica
\* (finishExpansion); a frozen file system is thawed, even if the engine dies (Snapshot,
\* StartController); a shutdown ends, whoever else waits for the lock (Shutdown).
VolumeTasksEnd ==
    (\/ part = "expansion" /\ isExpanding
     \/ part = "freeze" /\ ~thawed["volume"]
     \/ part = "lifecycle" /\ pc["shutdown"] = "rlock")
    ~> (\/ part = "expansion" /\ ~isExpanding
        \/ part = "freeze" /\ (thawed["volume"] \/ gaveUp)
        \/ part = "lifecycle" /\ pc["shutdown"] = "done")

\* A purge ends, so that isPurging does not keep rebuilds and later purges away
\* (FinishPurge); a restore ends, with success or with an error, and lets the next one
\* begin (completeBackupRestore); a clone ends, also one that failed, and the agent can
\* clone again (FinishClone).
AgentBusy ==
    \/ part \in {"purge", "outage"} /\ agent.state = "in_progress"
    \/ part = "restore" /\ restoring[1]
    \/ part = "clone" /\ isCloning
AgentTasksEnd == AgentBusy ~> ~AgentBusy

\* The lists of jobs do not grow with the jobs that ended: when no more are added,
\* refresh gets each list down to what is retained.
Converges == Lists!Converges
=============================================================================
