----------------------------- MODULE VolumeStart -----------------------------
(***************************************************************************)
(* Starting a volume: Start of pkg/controller/control.go, which connects   *)
(* to the replicas at the given addresses and decides which of them are in *)
(* sync.  Replicas are known by their place in the list of addresses.      *)
(*                                                                         *)
(* Start holds the controller's lock; a call to a replica may fail at any  *)
(* point of it, which drops the replica at first and ends Start later on.  *)
(***************************************************************************)
EXTENDS Integers, FiniteSetsExt

CONSTANTS Starts,          \* each: the number of addresses, what the directories of the replicas may
                           \* hold, and what may be asked: volumeSize and volumeCurrentSize, and the
                           \* options of the controller revisionCounterDisabled, salvageRequested,
                           \* isUpgrade and unmapMarkSnapChainRemoved
          Period,          \* lastModifyCheckPeriod
          MaxInt           \* the largest int64

VARIABLES
    replica,     \* of each replica: size, sectorSize, rebuilding, counterDisabled, counter,
                 \* modified, headSize, unmapFlag
    asked,       \* the sizes and the options of this Start
    startPc,     \* the part of Start that comes next; "started" or "failed" after it
    available,   \* availableBackends
    startSize, startSector,   \* c.size, c.sectorSize
    startMode    \* c.replicas: "none" before a replica is listed

startVars == <<replica, asked, startPc, available, startSize, startSector, startMode>>

Profile ==
    [size : Nat, sectorSize : Nat, rebuilding : BOOLEAN, counterDisabled : BOOLEAN, counter : Int,
     modified : 0..MaxInt, headSize : 0..MaxInt, unmapFlag : BOOLEAN]
Request ==
    [size : Nat, current : Nat, counterDisabled : BOOLEAN, salvage : BOOLEAN, upgrade : BOOLEAN, unmapFlag : BOOLEAN]

ASSUME StartAssumption ==
    /\ Period \in Nat \ {0} /\ MaxInt \in Nat
    /\ \A s \in Starts : s.addresses \in Nat /\ s.profiles \subseteq Profile /\ s.requests \subseteq Request

Given == DOMAIN replica
InUse == {r \in Given : startMode[r] = "RW"}

-----------------------------------------------------------------------------
determineCorrectVolumeSize(backendSizes) ==
    IF asked.current = 0 \/ backendSizes = {asked.size} THEN asked.size ELSE asked.current

\* ResetRebuild, for a single address only: a flag left behind by a crash is cleared.
ResetRebuild(reset) == [r \in Given |-> [replica[r] EXCEPT !.rebuilding = @ /\ r \notin reset]]

\* Of the states a replica can be in here, only Rebuilding is neither open nor dirty.
isReplicaInInvalidState(p) == p.rebuilding

\* The first half of Start: connect, find the size, list the replicas.  Calls to the
\* replicas outside reached fail, and so does the second look at the size of lost.
Connect ==
    /\ startPc = "connect"
    /\ \E reached, lost \in SUBSET Given, reset \in {{}} \cup (IF Given = {1} THEN {Given} ELSE {}) :
          LET valid == {r \in reached : ~isReplicaInInvalidState(replica'[r])}
              same  == {r \in valid : replica[r].sectorSize = startSector'}
          IN  /\ replica' = ResetRebuild(reset)
              /\ startSector' = IF valid = {} THEN startSector ELSE replica[Min(valid)].sectorSize
              /\ startSize' = determineCorrectVolumeSize({replica[r].size : r \in same})
              /\ available' = {r \in same \ lost : replica[r].size = startSize'}
              /\ startMode' = [r \in Given |-> IF r \in available' THEN "RW" ELSE "ERR"]
              /\ startPc' = IF available' = {} THEN "failed" ELSE "flag"
    /\ UNCHANGED asked

\* A call that fails ends Start.
CallFails ==
    /\ startPc \in {"flag", "setting", "counter", "salvage", "frontend"}
    /\ startPc' = "failed"
    /\ UNCHANGED <<replica, asked, available, startSize, startSector, startMode>>

\* checkUnmapMarkSnapChainRemoved: a replica that cannot be corrected is dropped.
checkUnmapMarkSnapChainRemoved ==
    /\ startPc = "flag"
    /\ \E failing \in SUBSET {r \in InUse : replica[r].unmapFlag # asked.unmapFlag} :
          /\ replica' = [r \in Given |-> IF r \in InUse \ failing THEN [replica[r] EXCEPT !.unmapFlag = asked.unmapFlag]
                                            ELSE replica[r]]
          /\ startMode' = [r \in Given |-> IF r \in failing THEN "ERR" ELSE startMode[r]]
          /\ startPc' = IF InUse = failing THEN "failed" ELSE IF asked.upgrade THEN "frontend" ELSE "setting"
    /\ UNCHANGED <<asked, available, startSize, startSector>>

checkReplicaRevCounterSettingMatch ==
    /\ startPc = "setting"
    /\ startMode' = [r \in Given |-> IF r \in InUse /\ replica[r].counterDisabled # asked.counterDisabled
                                   THEN "ERR" ELSE startMode[r]]
    /\ startPc' = IF ~asked.counterDisabled THEN "counter" ELSE IF asked.salvage THEN "salvage" ELSE "frontend"
    /\ UNCHANGED <<replica, asked, available, startSize, startSector>>

\* Mutant: the first replica's counter is taken for right.
checkReplicasRevisionCounterFirst ==
    /\ startPc = "counter" /\ InUse # {}
    /\ startMode' = [r \in Given |-> IF r \in InUse /\ replica[r].counter # replica[Min(InUse)].counter
                                     THEN "ERR" ELSE startMode[r]]
    /\ startPc' = "frontend"
    /\ UNCHANGED <<replica, asked, available, startSize, startSector>>

\* The counter is the largest, at least 0.
Expected(r) == replica[r].counter >= 0 /\ \A q \in InUse : replica[q].counter <= replica[r].counter

checkReplicasRevisionCounter ==
    /\ startPc = "counter"
    /\ startMode' = [r \in Given |-> IF r \in InUse /\ ~Expected(r) THEN "ERR" ELSE startMode[r]]
    /\ startPc' = "frontend"
    /\ UNCHANGED <<replica, asked, available, startSize, startSector>>

\* salvageRevisionCounterDisabledReplicas: the first, in the order of the list, of
\* the replicas modified last with the largest head.
Candidates == {r \in InUse : \A q \in InUse : replica[r].modified + Period > replica[q].modified}

Better(r, q) == \/ replica[r].headSize > replica[q].headSize
                \/ replica[r].headSize = replica[q].headSize /\ replica[r].modified > replica[q].modified

Best(r) == r \in Candidates /\ \A q \in Candidates \ {r} : Better(r, q) \/ (~Better(q, r) /\ r < q)

salvageRevisionCounterDisabledReplicas ==
    /\ startPc = "salvage"
    /\ IF InUse = {} THEN startPc' = "failed" /\ UNCHANGED startMode
       ELSE /\ startMode' = [r \in Given |-> IF Best(r) THEN "RW" ELSE "ERR"]
            /\ startPc' = "frontend"
    /\ UNCHANGED <<replica, asked, available, startSize, startSector>>

startFrontend ==
    /\ startPc = "frontend"
    /\ startPc' = "started"
    /\ UNCHANGED <<replica, asked, available, startSize, startSector, startMode>>

\* Start is called again after a failure: the replicas are listed, so nothing is
\* done and nothing is wrong.
StartAgain ==
    /\ startPc = "failed"
    /\ startPc' = "startedAgain"
    /\ UNCHANGED <<replica, asked, available, startSize, startSector, startMode>>

\* Shutdown closes the backends and forgets the replicas.
ShutdownVolume ==
    /\ startPc \in {"failed", "started", "startedAgain"}
    /\ startPc' = "connect"
    /\ available' = {}
    /\ startMode' = [r \in Given |-> "none"]
    /\ UNCHANGED <<replica, asked, startSize, startSector>>

-----------------------------------------------------------------------------
StartInit ==
    /\ \E s \in Starts : replica \in [1..s.addresses -> s.profiles] /\ asked \in s.requests
    /\ startPc = "connect" /\ available = {} /\ startSize = 0 /\ startSector = 0
    /\ startMode = [r \in Given |-> "none"]

StartNext ==
    \/ Connect \/ CallFails \/ checkUnmapMarkSnapChainRemoved \/ checkReplicaRevCounterSettingMatch
    \/ checkReplicasRevisionCounter \/ salvageRevisionCounterDisabledReplicas \/ startFrontend
    \/ StartAgain \/ ShutdownVolume

StartSpec == StartInit /\ [][StartNext]_startVars

-----------------------------------------------------------------------------
\* The replicas a started volume reads from agree on everything that is compared:
\* on the size and the sector size of the volume, and, unless the engine is being
\* upgraded, on the counter of its writes.  None of them is rebuilding.
StartedInSync ==
    startPc = "started" => \A r, q \in InUse :
        /\ replica[r].size = startSize /\ replica[r].sectorSize = startSector /\ ~replica[r].rebuilding
        /\ replica[r].unmapFlag = asked.unmapFlag
        /\ ~asked.counterDisabled /\ ~asked.upgrade => replica[r].counter = replica[q].counter

\* A replica that has seen more writes than another is never given up for it:
\* what was connected and in use before the counters were compared has no larger
\* counter than what is left (checkReplicasRevisionCounter).
NewestKept ==
    startPc = "started" /\ ~asked.counterDisabled /\ ~asked.upgrade => \A r \in InUse, q \in available :
        /\ ~replica[q].counterDisabled /\ replica[q].unmapFlag = asked.unmapFlag
        => replica[q].counter <= replica[r].counter

\* Salvage leaves one replica, modified less than the check period before the last
\* one, and no such replica has a larger head ("find the best replica for salvage
\* recovering, based on lastModifyTime and HeadFileSize").
SalvageBest ==
    startPc = "started" /\ asked.counterDisabled /\ asked.salvage /\ ~asked.upgrade => \E r \in InUse :
        /\ InUse = {r}
        /\ \A q \in available : replica[q].counterDisabled /\ replica[q].unmapFlag = asked.unmapFlag =>
              /\ replica[r].modified + Period > replica[q].modified
              /\ \/ replica[q].headSize <= replica[r].headSize
                 \/ \E p \in available : replica[q].modified + Period <= replica[p].modified

\* The replicas a volume starts with agree on its size, on the sector size and on the
\* counter; a replica with a larger counter is not given up for another one, and
\* salvage picks the largest head of those modified last (Start,
\* checkReplicasRevisionCounter, salvageRevisionCounterDisabledReplicas).
StartedRight == StartedInSync /\ NewestKept /\ SalvageBest
=============================================================================
