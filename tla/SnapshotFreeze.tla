--------------------------- MODULE SnapshotFreeze ---------------------------
(***************************************************************************)
(* Freezing the file system of a volume while its snapshot is taken:       *)
(* Snapshot and tryFreeze of pkg/controller/control.go, the helpers of     *)
(* pkg/util/fsfreeze.go, and the two places that clean up after an engine  *)
(* that died or is being shut down.                                        *)
(*                                                                         *)
(* The file system may be mounted by its user (source).  The engine binds  *)
(* that mount to the freeze point and freezes it from there.               *)
(***************************************************************************)
EXTENDS Integers

CONSTANTS Callers,       \* calls of Snapshot that ask for a freeze
          Overlap,       \* TRUE: one call may begin while another one cleans up
          MaxCrashes, MaxToolFaults

VARIABLES
    freezePc,    \* where each call is
    mounted,     \* of each call: its results of tryFreeze
    frozen,
    freezeLock,  \* c.snapshotFreezeLock: the call that holds it, or "free"
    source,      \* TRUE: the user has the volume mounted
    bind,        \* what is mounted at the freeze point: "none", "volume" or "root"
    thawed,      \* of "volume" and "root": FALSE while the file system is frozen
    running,     \* the engine process is up
    crashes, toolFaults,
    gaveUp       \* an unfreeze failed

freezeVars == <<freezePc, mounted, frozen, freezeLock, source, bind, thawed, running, crashes,
                toolFaults, gaveUp>>
engine == <<running, crashes>>
mounts == <<source, bind>>

Quiet == \A c \in Callers : freezePc[c] \in {"idle", "done"}
FreezeGoto(c, l) == freezePc' = [freezePc EXCEPT ![c] = l]
InCall(c, l) == running /\ freezePc[c] = l

\* Any of the external tools may fail.
ToolFails == toolFaults < MaxToolFaults /\ toolFaults' = toolFaults + 1

-----------------------------------------------------------------------------
\* Snapshot up to the lock.  A second freeze at the same time is refused.
Begin(c) ==
    /\ InCall(c, "idle")
    /\ Overlap \/ Quiet
    /\ IF freezeLock = "free" THEN freezeLock' = c /\ FreezeGoto(c, "list")
       ELSE FreezeGoto(c, "done") /\ UNCHANGED freezeLock
    /\ UNCHANGED <<mounted, frozen, mounts, thawed, engine, toolFaults, gaveUp>>

\* tryFreeze: look for a mount of the device.
List(c) ==
    /\ InCall(c, "list")
    /\ \/ FreezeGoto(c, IF source THEN "mount" ELSE "take") /\ UNCHANGED toolFaults
       \/ ToolFails /\ FreezeGoto(c, "unlock")
    /\ UNCHANGED <<mounted, frozen, freezeLock, mounts, thawed, engine, gaveUp>>

\* attemptBindMountFilesystem.  The error for a mount that is there already wraps
\* nil and is nil.  A bind of a source that is gone by now is one of the root.
attemptBindMountFilesystem(c) ==
    /\ InCall(c, "mount")
    /\ \/ /\ FreezeGoto(c, "verify")
          /\ mounted' = [mounted EXCEPT ![c] = TRUE]
          /\ bind' = IF bind # "none" THEN bind ELSE IF source THEN "volume" ELSE "root"
          /\ UNCHANGED toolFaults
       \/ ToolFails /\ FreezeGoto(c, "unlock") /\ UNCHANGED <<mounted, bind>>
    /\ UNCHANGED <<frozen, freezeLock, source, thawed, engine, gaveUp>>

\* Is the device at the freeze point the volume's?  If it is not, the error wraps
\* nil and the snapshot goes on without a freeze.
Verify(c) ==
    /\ InCall(c, "verify")
    /\ \/ FreezeGoto(c, IF bind = "volume" THEN "freeze" ELSE "take") /\ UNCHANGED toolFaults
       \/ ToolFails /\ FreezeGoto(c, "unlock")
    /\ UNCHANGED <<mounted, frozen, freezeLock, mounts, thawed, engine, gaveUp>>

\* fsfreeze -f, which refuses a file system that is frozen.
FreezeFilesystem(c) ==
    /\ InCall(c, "freeze")
    /\ \/ /\ bind # "none" /\ thawed[bind]
          /\ thawed' = [thawed EXCEPT ![bind] = FALSE]
          /\ frozen' = [frozen EXCEPT ![c] = TRUE]
          /\ FreezeGoto(c, "take") /\ UNCHANGED toolFaults
       \/ /\ bind # "none" => ~thawed[bind]
          /\ FreezeGoto(c, "unlock") /\ UNCHANGED <<thawed, frozen, toolFaults>>
       \/ ToolFails /\ FreezeGoto(c, "unlock") /\ UNCHANGED <<thawed, frozen>>
    /\ UNCHANGED <<mounted, freezeLock, mounts, engine, gaveUp>>

\* The snapshot itself, under the lock of the controller; it may fail.
Take(c) ==
    /\ InCall(c, "take")
    /\ FreezeGoto(c, "unlock")
    /\ UNCHANGED <<mounted, frozen, freezeLock, mounts, thawed, engine, toolFaults, gaveUp>>

\* Mutant: no unfreeze when the user has unmounted the volume.
UnlockFreezeIfMounted(c) ==
    /\ InCall(c, "unlock")
    /\ freezeLock' = "free"
    /\ FreezeGoto(c, IF frozen[c] /\ source THEN "unfreeze" ELSE IF mounted[c] THEN "unmount" ELSE "done")
    /\ UNCHANGED <<mounted, frozen, mounts, thawed, engine, toolFaults, gaveUp>>

\* The deferred calls, the last one first.
UnlockFreeze(c) ==
    /\ InCall(c, "unlock")
    /\ freezeLock' = "free"
    /\ FreezeGoto(c, IF frozen[c] THEN "unfreeze" ELSE IF mounted[c] THEN "unmount" ELSE "done")
    /\ UNCHANGED <<mounted, frozen, mounts, thawed, engine, toolFaults, gaveUp>>

\* fsfreeze -u; one that times out is given up.
UnfreezeFilesystem(c) ==
    /\ InCall(c, "unfreeze")
    /\ \/ thawed' = [d \in DOMAIN thawed |-> thawed[d] \/ d = bind] /\ UNCHANGED <<toolFaults, gaveUp>>
       \/ ToolFails /\ gaveUp' = TRUE /\ UNCHANGED thawed
    /\ FreezeGoto(c, IF mounted[c] THEN "unmount" ELSE "done")
    /\ UNCHANGED <<mounted, frozen, freezeLock, mounts, engine>>

\* CleanupMountPoint removes the mount and the directory of the freeze point.
CleanupMountPoint(c) ==
    /\ InCall(c, "unmount")
    /\ \/ bind' = "none" /\ UNCHANGED toolFaults
       \/ ToolFails /\ UNCHANGED bind
    /\ FreezeGoto(c, "done")
    /\ UNCHANGED <<mounted, frozen, freezeLock, source, thawed, engine, gaveUp>>

-----------------------------------------------------------------------------
\* Mutant: only from the user's mount.
UnfreezeFilesystemForDeviceMounted ==
    \/ /\ thawed' = [d \in DOMAIN thawed |-> thawed[d] \/ (source /\ d = "volume")]
       /\ bind' = "none" /\ UNCHANGED <<toolFaults, gaveUp>>
    \/ ToolFails /\ gaveUp' = TRUE /\ UNCHANGED <<thawed, bind>>

\* UnfreezeFilesystemForDevice: from the freeze point, or from the user's mount.
UnfreezeFilesystemForDevice ==
    LET from == IF bind # "none" THEN bind ELSE IF source THEN "volume" ELSE "none"
    IN  \/ /\ thawed' = [d \in DOMAIN thawed |-> thawed[d] \/ d = from]
           /\ bind' = "none" /\ UNCHANGED <<toolFaults, gaveUp>>
        \/ ToolFails /\ gaveUp' = TRUE /\ UNCHANGED <<thawed, bind>>

\* Shutdown of the tgt frontend.
Shutdown ==
    /\ Overlap \/ Quiet
    /\ running
    /\ UnfreezeFilesystemForDevice
    /\ UNCHANGED <<freezePc, mounted, frozen, freezeLock, source, engine>>

\* The engine dies; mounts and frozen file systems stay.
Crash ==
    /\ running /\ crashes < MaxCrashes
    /\ running' = FALSE /\ crashes' = crashes + 1
    /\ freezePc' = [c \in Callers |-> IF freezePc[c] = "idle" THEN "idle" ELSE "done"]
    /\ mounted' = [c \in Callers |-> FALSE] /\ frozen' = [c \in Callers |-> FALSE]
    /\ freezeLock' = "free"
    /\ UNCHANGED <<mounts, thawed, toolFaults, gaveUp>>

\* startController, before it serves anything.
StartController ==
    /\ ~running /\ running' = TRUE
    /\ UnfreezeFilesystemForDevice
    /\ UNCHANGED <<freezePc, mounted, frozen, freezeLock, source, crashes>>

\* The user of the volume mounts it and unmounts it.
UserMounts ==
    /\ source' = ~source
    /\ UNCHANGED <<freezePc, mounted, frozen, freezeLock, bind, thawed, engine, toolFaults, gaveUp>>

-----------------------------------------------------------------------------
FreezeInit ==
    /\ freezePc = [c \in Callers |-> "idle"]
    /\ mounted = [c \in Callers |-> FALSE] /\ frozen = [c \in Callers |-> FALSE]
    /\ freezeLock = "free" /\ source \in BOOLEAN /\ bind = "none"
    /\ thawed = [d \in {"volume", "root"} |-> TRUE]
    /\ running = TRUE /\ crashes = 0 /\ toolFaults = 0 /\ gaveUp = FALSE

SnapshotStep(c) ==
    \/ List(c) \/ attemptBindMountFilesystem(c) \/ Verify(c) \/ FreezeFilesystem(c) \/ Take(c)
    \/ UnlockFreeze(c) \/ UnfreezeFilesystem(c) \/ CleanupMountPoint(c)

FreezeNext ==
    \/ \E c \in Callers : Begin(c) \/ SnapshotStep(c)
    \/ Shutdown \/ Crash \/ StartController \/ UserMounts

FreezeSpec == FreezeInit /\ [][FreezeNext]_freezeVars

\* Fairness: a call in progress goes on, and a dead engine is
\* started again.
FreezeFairness == (\A c \in Callers : WF_freezeVars(SnapshotStep(c))) /\ WF_freezeVars(StartController)

FreezeLiveSpec == FreezeSpec /\ FreezeFairness

\* Once no snapshot is being taken the file system can be written to: however the
\* calls of tryFreeze and of its clean-up failed, and whatever was mounted or died in
\* between, unless the unfreeze itself was given up.
NotLeftFrozen == running /\ Quiet /\ ~gaveUp => thawed["volume"]

\* The root file system of the engine's own container is never frozen, although the
\* source of a bind may be unmounted before it is bound ("the bind mount could refer
\* to the root filesystem").
RootNeverFrozen == thawed["root"]

\* A call that takes its snapshot as frozen does so of a frozen file system.
FrozenWhileTaken == \A c \in Callers : InCall(c, "take") /\ frozen[c] => ~thawed["volume"]

\* The file system can be written to when no snapshot is being taken, it is frozen when
\* one is taken as frozen, and that of the container never is (Snapshot, tryFreeze,
\* attemptBindMountFilesystem).
FreezeRight == NotLeftFrozen /\ RootNeverFrozen /\ FrozenWhileTaken
=============================================================================
