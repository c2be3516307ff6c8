---------------------------- MODULE SnapshotClone ----------------------------
(***************************************************************************)
(* Cloning a snapshot of another volume into a replica: the calls to one   *)
(* sync agent (SnapshotClone in pkg/sync/rpc/server.go) with the ports its *)
(* receivers take, and the task of pkg/sync/sync.go that makes them.       *)
(***************************************************************************)
EXTENDS Integers, FiniteSets

CONSTANTS Calls,           \* calls of SnapshotClone to the agent
          Snapshots,       \* snapshots of the source volume
          NumPorts,        \* ports of the agent
          Overlap,         \* whether a call is made before the last one returned
          MaxCloneFaults, MaxCloneCrashes

ASSUME CloneAssumption == NumPorts \in Nat \ {0} /\ "none" \notin Snapshots

Ports == 1..NumPorts

VARIABLES
    isCloning,
    status,          \* CloneStatus: [state, name]
    call,            \* of each call: [pc, name, port, err, result]
    current,         \* currentPort
    receiver,        \* processesByPort: the file a receiver writes to, or "none"
    cloneFile,       \* the snapshot files: what the file of a name holds, or "none"
    cloneHead,       \* the snapshot the volume head was put on
    cloneFaults, cloneCrashes

cloneVars == <<isCloning, status, call, current, receiver, cloneFile, cloneHead, cloneFaults, cloneCrashes>>

New == [pc |-> "new", name |-> "none", port |-> 0, err |-> FALSE, result |-> "none"]
CloneAt(c, l) == call[c].pc = l
CloneGoto(c, l) == call' = [call EXCEPT ![c].pc = l]
Failed(c) == call' = [call EXCEPT ![c].pc = "status", ![c].err = TRUE]
Fault == cloneFaults < MaxCloneFaults /\ cloneFaults' = cloneFaults + 1
Pending == {c \in Calls : call[c].pc \notin {"new", "done"}}

-----------------------------------------------------------------------------
\* CloneSnapshot of the task calls the agent; SnapshotClone asks the source first, and
\* what fails there is answered at once.
Start(c, n) ==
    /\ CloneAt(c, "new") /\ (Overlap \/ Pending = {})
    /\ \/ /\ call' = [call EXCEPT ![c].pc = "prepare", ![c].name = n] /\ UNCHANGED cloneFaults
       \/ /\ Fault
          /\ call' = [call EXCEPT ![c].pc = "done", ![c].result = "error"]
    /\ UNCHANGED <<isCloning, status, current, receiver, cloneFile, cloneHead, cloneCrashes>>

prepareClone(c) ==
    /\ CloneAt(c, "prepare")
    /\ IF isCloning THEN Failed(c) /\ UNCHANGED <<isCloning, status>>
       ELSE /\ isCloning' = TRUE
            /\ status' = [state |-> "in_progress", name |-> call[c].name]
            /\ CloneGoto(c, "launch")
    /\ UNCHANGED <<current, receiver, cloneFile, cloneHead, cloneFaults, cloneCrashes>>

\* nextPort goes round the ports once, from the current one.
Free(p) == receiver[p] = "none"
Round(p) == IF p >= current THEN p - current ELSE p - current + NumPorts

nextPort == CHOOSE p \in Ports : Free(p) /\ \A q \in Ports : Free(q) => Round(p) <= Round(q)

\* startCloning: launchReceiver for the file named in the status, then ExportVolume.
launchReceiver(c) ==
    /\ CloneAt(c, "launch")
    /\ IF \A p \in Ports : ~Free(p) THEN Failed(c) /\ UNCHANGED <<current, receiver>>
       ELSE /\ call' = [call EXCEPT ![c].pc = "export", ![c].port = nextPort]
            /\ receiver' = [receiver EXCEPT ![nextPort] = status.name]
            /\ current' = (nextPort % NumPorts) + 1
    /\ UNCHANGED <<isCloning, status, cloneFile, cloneHead, cloneFaults, cloneCrashes>>

\* The source sends the snapshot that was asked for to the port.
ExportVolume(c) ==
    /\ CloneAt(c, "export")
    /\ \/ /\ receiver[call[c].port] # "none"
          /\ cloneFile' = [cloneFile EXCEPT ![receiver[call[c].port]] = call[c].name]
          /\ CloneGoto(c, "meta") /\ UNCHANGED cloneFaults
       \/ /\ receiver[call[c].port] # "none" /\ Fault
          /\ cloneFile' = [cloneFile EXCEPT ![receiver[call[c].port]] = "part"]
          /\ Failed(c)
       \/ /\ receiver[call[c].port] = "none"
          /\ Failed(c) /\ UNCHANGED <<cloneFile, cloneFaults>>
    /\ receiver' = [receiver EXCEPT ![call[c].port] = "none"]
    /\ UNCHANGED <<isCloning, status, current, cloneHead, cloneCrashes>>

\* postCloning: the metafile of the file named in the status, then the replica is
\* reloaded and its head put on that file.
CreateNewSnapshotMetafile(c) ==
    /\ CloneAt(c, "meta")
    /\ (CloneGoto(c, "revert") /\ UNCHANGED cloneFaults) \/ (Fault /\ Failed(c))
    /\ UNCHANGED <<isCloning, status, current, receiver, cloneFile, cloneHead, cloneCrashes>>

replicaRevert(c) ==
    /\ CloneAt(c, "revert")
    /\ \/ cloneHead' = status.name /\ CloneGoto(c, "status") /\ UNCHANGED cloneFaults
       \/ Fault /\ Failed(c) /\ UNCHANGED cloneHead
    /\ UNCHANGED <<isCloning, status, current, receiver, cloneFile, cloneCrashes>>

\* Mutant: the error is not looked at.
UpdateStatusAlways(c) ==
    /\ CloneAt(c, "status")
    /\ status' = [status EXCEPT !.state = "complete"]
    /\ CloneGoto(c, "finish")
    /\ UNCHANGED <<isCloning, current, receiver, cloneFile, cloneHead, cloneFaults, cloneCrashes>>

\* The deferred function writes the status, then FinishClone's error becomes the result.
UpdateStatus(c) ==
    /\ CloneAt(c, "status")
    /\ status' = [status EXCEPT !.state = IF call[c].err THEN "error" ELSE "complete"]
    /\ CloneGoto(c, "finish")
    /\ UNCHANGED <<isCloning, current, receiver, cloneFile, cloneHead, cloneFaults, cloneCrashes>>

FinishClone(c) ==
    /\ CloneAt(c, "finish")
    /\ call' = [call EXCEPT ![c].pc = "done", ![c].result = IF isCloning THEN "ok" ELSE "error"]
    /\ isCloning' = FALSE
    /\ UNCHANGED <<status, current, receiver, cloneFile, cloneHead, cloneFaults, cloneCrashes>>

CloneCrash ==
    /\ cloneCrashes < MaxCloneCrashes /\ cloneCrashes' = cloneCrashes + 1
    /\ isCloning' = FALSE /\ status' = [state |-> "none", name |-> "none"]
    /\ call' = [c \in Calls |-> IF c \in Pending THEN [New EXCEPT !.pc = "done", !.result = "error"] ELSE call[c]]
    /\ current' = 1 /\ receiver' = [p \in Ports |-> "none"]
    /\ UNCHANGED <<cloneFile, cloneHead, cloneFaults>>

-----------------------------------------------------------------------------
CloneInit ==
    /\ isCloning = FALSE /\ status = [state |-> "none", name |-> "none"]
    /\ call = [c \in Calls |-> New]
    /\ current = 1 /\ receiver = [p \in Ports |-> "none"]
    /\ cloneFile = [n \in Snapshots |-> "none"] /\ cloneHead = "none"
    /\ cloneFaults = 0 /\ cloneCrashes = 0

Step(c) ==
    \/ prepareClone(c) \/ launchReceiver(c) \/ ExportVolume(c) \/ CreateNewSnapshotMetafile(c)
    \/ replicaRevert(c) \/ UpdateStatus(c) \/ FinishClone(c)

CloneNext == (\E c \in Calls : (\E n \in Snapshots : Start(c, n)) \/ Step(c)) \/ CloneCrash

CloneSpec == CloneInit /\ [][CloneNext]_cloneVars

\* Fairness: the goroutine of a call goes on.
CloneFairness == \A c \in Calls : WF_cloneVars(Step(c))

CloneLiveSpec == CloneSpec /\ CloneFairness

\* A clone that is reported complete is there: the head is on the snapshot the status
\* names, and its file holds that snapshot of the source, whatever failed before
\* (SnapshotClone, postCloning).
CloneExact == status.state = "complete" => cloneHead = status.name /\ cloneFile[status.name] = status.name

\* "We must be careful not to return a nil error if we failed previously but finished
\* successfully": a call that returns success has cloned.
SuccessTrue == \A c \in Calls : call[c].result = "ok" => ~call[c].err

\* "Replica is cloning snapshot ...": the agent clones one snapshot at a time.
OneClone == Cardinality({c \in Calls : call[c].pc \in {"launch", "export", "meta", "revert"}}) <= 1
=============================================================================
