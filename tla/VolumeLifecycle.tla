--------------------------- MODULE VolumeLifecycle ---------------------------
(***************************************************************************)
(* Starting the frontend of a volume and shutting the volume down, while   *)
(* the device writes back what it holds: Shutdown, StartFrontend,          *)
(* RemoveReplica and SetReplicaMode of pkg/controller/control.go, with the *)
(* frontends of pkg/frontend/tgt and pkg/frontend/socket.                  *)
(*                                                                         *)
(* The lock is a sync.RWMutex: who waits for Lock keeps out later readers. *)
(***************************************************************************)
EXTENDS Integers, FiniteSets

CONSTANTS LifeReplicas,
          Overlaps,     \* of "lock", "fault" and "start": what may happen during a shutdown
          MaxLifeFaults, MaxDeviceFaults, MaxRounds

Procs == {"shutdown", "write", "mark", "front", "remove"}

VARIABLES
    pc,            \* of each goroutine
    readers, waiting,      \* the lock: who holds RLock, who waits for Lock
    lifeMode,      \* c.replicas: "RW", "bad" after a failed write, "ERR"; "none" for one that
                   \* is not listed, "closed" once the backend is shut down
    lifeDevice,    \* "down", "up" or "stopping"
    isUp,          \* of the frontend
    listeners,     \* goroutines in startSocketServerListen
    dirty,         \* the device holds data that is not written yet
    lost,          \* the device gave such data up although a replica is good
    frontErr, result,      \* Shutdown: the error of the frontend, and what is returned
    lifeFaults, deviceFaults, rounds

lockVars == <<readers, waiting>>
front == <<lifeDevice, isUp, listeners>>
lifeCounts == <<lifeFaults, deviceFaults, rounds>>
lifeVars == <<pc, lockVars, lifeMode, front, dirty, lost, frontErr, result, lifeCounts>>

Good == {r \in LifeReplicas : lifeMode[r] = "RW"}
Listed == {r \in LifeReplicas : lifeMode[r] \in {"RW", "bad", "ERR"}}
Some(m) == \E r \in LifeReplicas : lifeMode[r] = m
ShuttingDown == pc["shutdown"] # "idle"
Allowed(kind) == kind \in Overlaps \/ ~ShuttingDown

LifeGoto(p, l) == pc' = [pc EXCEPT ![p] = l]

-----------------------------------------------------------------------------
\* sync.RWMutex.  A critical section under Lock is one step.
RLock(p) == waiting = {} /\ readers' = readers \cup {p} /\ UNCHANGED waiting
RUnlock(p) == readers' = readers \ {p} /\ UNCHANGED waiting
Queue(p) == waiting' = waiting \cup {p} /\ UNCHANGED readers
Exclusive(p) == p \in waiting /\ readers = {} /\ waiting' = waiting \ {p} /\ UNCHANGED readers

-----------------------------------------------------------------------------
\* The application writes to the device, which may keep it for a while.
Buffer ==
    /\ lifeDevice = "up" /\ ~dirty /\ pc["write"] = "idle" /\ ~ShuttingDown
    /\ dirty' = TRUE
    /\ UNCHANGED <<pc, lockVars, lifeMode, front, lost, frontErr, result, lifeCounts>>

\* The device writes it back, at the latest when it is stopped.
WriteBack ==
    /\ lifeDevice # "down" /\ dirty /\ pc["write"] = "idle"
    /\ LifeGoto("write", "rlock")
    /\ UNCHANGED <<lockVars, lifeMode, front, dirty, lost, frontErr, result, lifeCounts>>

WriteRLock ==
    /\ pc["write"] = "rlock" /\ RLock("write")
    /\ LifeGoto("write", "backend")
    /\ UNCHANGED <<lifeMode, front, dirty, lost, frontErr, result, lifeCounts>>

\* WriteAt: the write of the backend and RUnlock; an error needs Lock to be handled.
WriteAt ==
    /\ pc["write"] = "backend"
    /\ \E bad \in SUBSET Good :
          /\ bad # {} => Allowed("fault") /\ lifeFaults < MaxLifeFaults
          /\ lifeFaults' = IF bad = {} THEN lifeFaults ELSE lifeFaults + 1
          /\ IF bad = {} /\ Good # {}
             THEN /\ LifeGoto("write", "idle") /\ RUnlock("write")
                  /\ dirty' = FALSE /\ UNCHANGED lost
             ELSE /\ LifeGoto("write", "handle")
                  /\ readers' = readers \ {"write"} /\ waiting' = waiting \cup {"write"}
                  /\ UNCHANGED <<dirty, lost>>
          /\ lifeMode' = [r \in LifeReplicas |-> IF r \in bad THEN "bad" ELSE lifeMode[r]]
    /\ UNCHANGED <<front, frontErr, result, deviceFaults, rounds>>

\* handleError: the replicas that failed become ERR; the rest is good enough.
handleError ==
    /\ pc["write"] = "handle" /\ Exclusive("write")
    /\ lifeMode' = [r \in LifeReplicas |-> IF lifeMode[r] = "bad" THEN "ERR" ELSE lifeMode[r]]
    /\ LifeGoto("write", "idle")
    /\ dirty' = FALSE /\ lost' = (lost \/ (dirty /\ Good = {} /\ Some("closed")))
    /\ UNCHANGED <<front, frontErr, result, lifeCounts>>

\* The device gives up a request that is not answered while it is being stopped.
DeviceTimeout ==
    /\ lifeDevice = "stopping" /\ dirty
    /\ \/ pc["write"] = "rlock" /\ waiting # {}
       \/ pc["write"] = "handle" /\ "shutdown" \in readers
    /\ dirty' = FALSE /\ lost' = (lost \/ Good # {} \/ Some("closed"))
    /\ pc' = [pc EXCEPT !["write"] = IF @ = "rlock" THEN "idle" ELSE @]
    /\ UNCHANGED <<lockVars, lifeMode, front, frontErr, result, lifeCounts>>

-----------------------------------------------------------------------------
\* monitoring and SetReplicaMode: a replica that does not answer becomes ERR.
MonitorFails ==
    /\ pc["mark"] = "idle" /\ Cardinality(Good) > 1 /\ Allowed("lock")
    /\ lifeFaults < MaxLifeFaults /\ lifeFaults' = lifeFaults + 1
    /\ LifeGoto("mark", "lock") /\ Queue("mark")
    /\ UNCHANGED <<lifeMode, front, dirty, lost, frontErr, result, deviceFaults, rounds>>

SetReplicaMode ==
    /\ pc["mark"] = "lock" /\ Exclusive("mark")
    /\ \E r \in Good : lifeMode' = [lifeMode EXCEPT ![r] = "ERR"]
    /\ LifeGoto("mark", "idle")
    /\ UNCHANGED <<front, dirty, lost, frontErr, result, lifeCounts>>

SetReplicaModeNone ==
    /\ pc["mark"] = "lock" /\ Exclusive("mark") /\ Good = {}
    /\ LifeGoto("mark", "idle")
    /\ UNCHANGED <<lifeMode, front, dirty, lost, frontErr, result, lifeCounts>>

WantRemove ==
    /\ pc["remove"] = "idle" /\ Listed # {} /\ Allowed("lock")
    /\ LifeGoto("remove", "lock") /\ Queue("remove")
    /\ UNCHANGED <<lifeMode, front, dirty, lost, frontErr, result, lifeCounts>>

\* The last replica of a volume that is up stays.
RemoveReplica ==
    /\ pc["remove"] = "lock" /\ Exclusive("remove")
    /\ \E r \in LifeReplicas :
          lifeMode' = IF Listed = {r} /\ isUp THEN lifeMode ELSE [lifeMode EXCEPT ![r] = "none"]
    /\ LifeGoto("remove", "idle")
    /\ UNCHANGED <<front, dirty, lost, frontErr, result, lifeCounts>>

-----------------------------------------------------------------------------
\* Startup of the tgt frontend: the socket server first, then the device.
Startup ==
    \/ lifeDevice' = "up" /\ isUp' = TRUE /\ listeners' = listeners + 1 /\ UNCHANGED deviceFaults
    \/ /\ deviceFaults < MaxDeviceFaults /\ deviceFaults' = deviceFaults + 1
       /\ listeners' = listeners + 1 /\ UNCHANGED <<lifeDevice, isUp>>

WantFrontend ==
    /\ pc["front"] = "idle" /\ lifeDevice = "down" /\ Allowed("start") /\ rounds < MaxRounds
    /\ rounds' = rounds + 1
    /\ LifeGoto("front", "lock") /\ Queue("front")
    /\ UNCHANGED <<lifeMode, front, dirty, lost, frontErr, result, lifeFaults, deviceFaults>>

\* StartFrontend for a frontend that is down; a volume without replicas gets none.
StartFrontend ==
    /\ pc["front"] = "lock" /\ Exclusive("front")
    /\ IF Listed # {} THEN Startup ELSE UNCHANGED <<front, deviceFaults>>
    /\ LifeGoto("front", "idle")
    /\ UNCHANGED <<lifeMode, dirty, lost, frontErr, result, lifeFaults, rounds>>

-----------------------------------------------------------------------------
\* Shutdown: shutdownFrontend under RLock, then shutdownBackend under Lock.
BeginShutdown ==
    /\ pc["shutdown"] = "idle" /\ Listed # {}
    /\ "lock" \in Overlaps \/ waiting = {}
    /\ LifeGoto("shutdown", "rlock")
    /\ UNCHANGED <<lockVars, lifeMode, front, dirty, lost, frontErr, result, lifeCounts>>

\* Mutant: the backend is closed before the frontend.
ShutdownRLockBackendFirst ==
    /\ pc["shutdown"] = "rlock" /\ RLock("shutdown")
    /\ lifeMode' = [r \in LifeReplicas |-> "closed"]
    /\ LifeGoto("shutdown", "device")
    /\ lifeDevice' = IF lifeDevice = "up" THEN "stopping" ELSE lifeDevice
    /\ UNCHANGED <<isUp, listeners, dirty, lost, frontErr, result, lifeCounts>>

ShutdownRLock ==
    /\ pc["shutdown"] = "rlock" /\ RLock("shutdown")
    /\ LifeGoto("shutdown", "device")
    /\ lifeDevice' = IF lifeDevice = "up" THEN "stopping" ELSE lifeDevice
    /\ UNCHANGED <<lifeMode, isUp, listeners, dirty, lost, frontErr, result, lifeCounts>>

\* Tgt.Shutdown: the device is stopped once its data is written; that of the socket
\* finds no server to stop (socketServer is never set).
shutdownFrontend ==
    /\ pc["shutdown"] = "device" /\ RUnlock("shutdown")
    /\ \/ /\ lifeDevice # "stopping" \/ (~dirty /\ pc["write"] # "backend")
          /\ lifeDevice' = "down" /\ isUp' = FALSE
          /\ UNCHANGED <<frontErr, deviceFaults>>
       \/ /\ deviceFaults < MaxDeviceFaults /\ deviceFaults' = deviceFaults + 1
          /\ lifeDevice = "stopping" /\ lifeDevice' = "up" /\ frontErr' = TRUE /\ UNCHANGED isUp
    /\ LifeGoto("shutdown", "gap")
    /\ UNCHANGED <<lifeMode, listeners, dirty, lost, result, lifeFaults, rounds>>

ShutdownQueue ==
    /\ pc["shutdown"] = "gap" /\ Queue("shutdown")
    /\ LifeGoto("shutdown", "backend")
    /\ UNCHANGED <<lifeMode, front, dirty, lost, frontErr, result, lifeCounts>>

\* shutdownBackend, and the result: an error of the backend alone is wrapped.
shutdownBackend ==
    /\ pc["shutdown"] = "backend" /\ Exclusive("shutdown")
    /\ \E backErr \in (IF deviceFaults < MaxDeviceFaults THEN BOOLEAN ELSE {FALSE}) :
          /\ deviceFaults' = IF backErr THEN deviceFaults + 1 ELSE deviceFaults
          /\ result' = IF backErr THEN "error" ELSE "nil"
    /\ lifeMode' = [r \in LifeReplicas |-> "closed"]
    /\ LifeGoto("shutdown", "done")
    /\ UNCHANGED <<front, dirty, lost, frontErr, lifeFaults, rounds>>

-----------------------------------------------------------------------------
LifeInit ==
    /\ pc = [p \in Procs |-> "idle"]
    /\ readers = {} /\ waiting = {}
    /\ lifeMode = [r \in LifeReplicas |-> "RW"]
    /\ lifeDevice = "down" /\ isUp = FALSE /\ listeners = 0
    /\ dirty = FALSE /\ lost = FALSE /\ frontErr = FALSE /\ result = "none"
    /\ lifeFaults = 0 /\ deviceFaults = 0 /\ rounds = 0

LifeStep ==
    \/ WriteBack \/ WriteRLock \/ WriteAt \/ handleError \/ DeviceTimeout
    \/ SetReplicaMode \/ SetReplicaModeNone \/ RemoveReplica \/ StartFrontend
    \/ ShutdownRLock \/ shutdownFrontend \/ ShutdownQueue \/ shutdownBackend

LifeNext == Buffer \/ MonitorFails \/ WantRemove \/ WantFrontend \/ BeginShutdown \/ LifeStep

LifeSpec == LifeInit /\ [][LifeNext]_lifeVars

\* Fairness: goroutines that can go on do, Unlock wakes the
\* readers that wait, and the device does not wait for ever.
LifeFairness ==
    /\ WF_lifeVars(WriteBack \/ WriteAt \/ handleError) /\ SF_lifeVars(WriteRLock) /\ WF_lifeVars(DeviceTimeout)
    /\ WF_lifeVars(SetReplicaMode \/ SetReplicaModeNone) /\ WF_lifeVars(RemoveReplica)
    /\ WF_lifeVars(StartFrontend)
    /\ SF_lifeVars(ShutdownRLock) /\ WF_lifeVars(shutdownFrontend \/ ShutdownQueue \/ shutdownBackend)

LifeLiveSpec == LifeSpec /\ LifeFairness

\* What the device still holds when the volume is shut down reaches a replica if
\* there is a good one: the frontend is stopped before the backend is closed, and
\* under a lock its writes can share (Shutdown, shutdownFrontend).
WrittenBack == ~lost

\* A volume that is up has replicas: neither RemoveReplica nor Shutdown takes the last
\* one away from a device in use.
UpHasReplica == isUp => Listed # {}

\* A volume that is up has replicas, and what its device holds at a shutdown reaches a
\* good one (Shutdown, RemoveReplica).
FinalDataKept == WrittenBack /\ UpHasReplica

\* Shutdown that could not stop the frontend does not return nil.
FailureReported == pc["shutdown"] = "done" /\ frontErr => result = "error"

\* A volume that is shut down no longer accepts connections on its socket.
ListenerStopped == pc["shutdown"] = "done" => listeners = 0
=============================================================================
