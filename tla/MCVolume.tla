------------------------------ MODULE MCVolume ------------------------------
(***************************************************************************)
(* The operations of the engine on a volume, on small instances.  They     *)
(* share no state here: the initial state picks the part that runs, and    *)
(* the others stay as they are.                                            *)
(***************************************************************************)
EXTENDS Expansion, SnapshotFreeze, SnapshotLimits, VolumeLifecycle, VolumeRevert, VolumeStart, TLC

CONSTANTS u1, u2, u3     \* replicas, or calls

Two == {u1, u2}
Symmetry == Permutations(Two)
MCReplicas == {u1, u2, u3}
MCTasks == {1, 2}
MCSizes == 1..3

VARIABLE part

mcVars == <<part, vars, startVars, freezeVars, limitVars, lifeVars, revertVars>>

-----------------------------------------------------------------------------
\* Three replicas that differ in their sizes and counters or in what salvage compares,
\* or one that differs in all.
BaseProfile == [size |-> 2, sectorSize |-> 1, rebuilding |-> FALSE, counterDisabled |-> FALSE,
                counter |-> 2, modified |-> 4, headSize |-> 2, unmapFlag |-> TRUE]

CounterProfiles ==
    {[BaseProfile EXCEPT !.sectorSize = 2], [BaseProfile EXCEPT !.rebuilding = TRUE],
     [BaseProfile EXCEPT !.counterDisabled = TRUE]}
    \cup {[BaseProfile EXCEPT !.size = s, !.counter = c] : s \in 1..2, c \in 1..2}

SalvageProfiles ==
    {[BaseProfile EXCEPT !.counterDisabled = TRUE, !.modified = t, !.headSize = h] : t \in {1, 2, 4}, h \in {2}}
    \cup {BaseProfile, [BaseProfile EXCEPT !.counterDisabled = TRUE, !.headSize = 1, !.unmapFlag = FALSE]}

BaseRequest == [size |-> 2, current |-> 0, counterDisabled |-> FALSE, salvage |-> FALSE, upgrade |-> FALSE,
                unmapFlag |-> TRUE]

CounterRequests ==
    {BaseRequest, [BaseRequest EXCEPT !.upgrade = TRUE], [BaseRequest EXCEPT !.current = 1],
     [BaseRequest EXCEPT !.current = 2]}
SalvageRequests ==
    {[BaseRequest EXCEPT !.counterDisabled = TRUE, !.salvage = s, !.unmapFlag = u] : s, u \in BOOLEAN}

MCStarts ==
    {[addresses |-> 3, profiles |-> CounterProfiles, requests |-> CounterRequests],
     [addresses |-> 3, profiles |-> SalvageProfiles, requests |-> SalvageRequests],
     [addresses |-> 1, profiles |-> CounterProfiles, requests |-> CounterRequests]}

-----------------------------------------------------------------------------
\* A part that does not run is in one of its initial states.
MCInit ==
    /\ part \in {"expansion", "start", "freeze", "limits", "lifecycle", "revert"}
    /\ Init /\ (part # "expansion" => csize = 1 /\ size[u3] = 1)
    /\ IF part = "start" THEN StartInit
       ELSE /\ replica = <<>> /\ asked = BaseRequest /\ startPc = "connect" /\ available = {}
            /\ startSize = 0 /\ startSector = 0 /\ startMode = <<>>
    /\ FreezeInit /\ (part # "freeze" => source)
    /\ LimitInit /\ (part # "limits" => maxCount = 1 /\ maxSize = 0)
    /\ LifeInit
    /\ RevertInit /\ (part # "revert" => frontend = "up")

MCNext ==
    /\ UNCHANGED part
    /\ \/ /\ part = "expansion" /\ Next
          /\ UNCHANGED <<startVars, freezeVars, limitVars, lifeVars, revertVars>>
       \/ /\ part = "start" /\ StartNext
          /\ UNCHANGED <<vars, freezeVars, limitVars, lifeVars, revertVars>>
       \/ /\ part = "freeze" /\ FreezeNext
          /\ UNCHANGED <<vars, startVars, limitVars, lifeVars, revertVars>>
       \/ /\ part = "limits" /\ LimitNext
          /\ UNCHANGED <<vars, startVars, freezeVars, lifeVars, revertVars>>
       \/ /\ part = "lifecycle" /\ LifeNext
          /\ UNCHANGED <<vars, startVars, freezeVars, limitVars, revertVars>>
       \/ /\ part = "revert" /\ RevertNext
          /\ UNCHANGED <<vars, startVars, freezeVars, limitVars, lifeVars>>

MCSpec == MCInit /\ [][MCNext]_mcVars
=============================================================================
