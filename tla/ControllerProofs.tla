-------------------------- MODULE ControllerProofs --------------------------
(***************************************************************************)
(* Every RW replica holds every acknowledged write, for every set of       *)
(* replicas, sectors, units, values and clients, provided the frontend     *)
(* never has two writes to one sector in flight and neither a snapshot nor *)
(* an added replica overtakes a handleError; and the types of everything   *)
(* the controller keeps.                                                   *)
(***************************************************************************)
EXTENDS Controller, TLAPS

\* Overlay, the merge writeInWOMode makes, of sectors is a sector.
LEMMA OverlayType ==
    ASSUME NEW V, NEW c \in [Units -> V], NEW b \in [Units -> V], NEW us
    PROVE  Overlay(c, us, b) \in [Units -> V]
BY Zenon DEF Overlay

\* A sector nobody wrote is a sector.
LEMMA BlankType == Blank \in Contents
BY Zenon, ConstantsAssumption DEF Blank, Contents

\* There is a sector for an idle request to name.
LEMMA AnySectorType == AnySector \in Sectors
BY Zenon, ConstantsAssumption DEF AnySector

\* A client that has returned from WriteAt, ReadAt or UnmapAt is a request.
LEMMA IdleType ==
    ASSUME NEW res \in {"none", "ok", "err"}
    PROVE  Idle(res) \in Requests
BY Zenon, BlankType, AnySectorType DEF Idle, Requests

\* Between two calls of sync.AddReplica the task has its type.
LEMMA TaskIdleType == TaskIdle \in Tasks /\ TaskIdle.stage = "idle"
BY Zenon, BlankType DEF TaskIdle, Tasks

\* A volume that has just been started has its types.
LEMMA InitType == Init => TypeOK
BY ConstantsAssumption, BlankType, IdleType, TaskIdleType
DEF Init, TypeOK, Views, Contents, Blank, TaskIdle

\* setReplicaModeNoLock(ERR) keeps the modes modes.
LEMMA MarkERRType ==
    ASSUME TypeOK, NEW bad
    PROVE  MarkERR(bad) \in [Replicas -> {"none", "RW", "WO", "ERR"}]
BY Zenon DEF MarkERR, TypeOK

\* What a returning write tells the client keeps the type of vol.
LEMMA AcknowledgeType ==
    ASSUME TypeOK, NEW k \in Clients, NEW res, Acknowledge(op[k], res)
    PROVE  vol' \in [Sectors -> Views]
<1> DEFINE b == IF res = "ok" THEN op[k].buf ELSE [u \in Units |-> Unspecified]
<1>1. op[k] \in Requests BY Zenon DEF TypeOK
<1>2. b \in Views BY Zenon, <1>1 DEF Requests, Contents, Views
<1>3. \A s \in Sectors : Overlay(vol[s], op[k].shape, b) \in Views
  BY Zenon, <1>2, OverlayType DEF TypeOK, Views
<1> HIDE DEF b
<1>4. vol' = IF op[k].kind = "write"
             THEN [vol EXCEPT ![op[k].s] = Overlay(@, op[k].shape, b)]
             ELSE vol
  BY Zenon DEF Acknowledge, b
<1> QED BY Zenon, <1>1, <1>3, <1>4 DEF TypeOK, Requests

\* The replicas a BackendError names are replicas.
LEMMA BlameType ==
    ASSUME NEW o \in Requests, NEW bad \in SUBSET Replicas
    PROVE  [o EXCEPT !.pc = "handle", !.blamed = bad] \in Requests
BY Zenon DEF Requests

\* A request is a request after backend.ReadAt.
LEMMA AfterReadType ==
    ASSUME NEW o \in Requests, NEW bad \in SUBSET Replicas, NEW c \in Contents
    PROVE  AfterRead(o, bad, c) \in Requests
<1>1. CASE o.kind = "read"
  <2> DEFINE g == (bad # RW)
  <2>1. g \in BOOLEAN BY Zenon
  <2>2. AfterRead(o, bad, c) = [o EXCEPT !.pc = "io", !.got = g, !.buf = c, !.failed = bad]
    BY Zenon, <1>1 DEF AfterRead
  <2> HIDE DEF g
  <2> QED BY Zenon, <2>1, <2>2 DEF Requests
<1>2. CASE o.kind # "read" /\ bad = {}
  <2> DEFINE b == Overlay(c, o.shape, o.buf)
  <2>1. b \in Contents BY Zenon, OverlayType DEF Requests, Contents
  <2>2. AfterRead(o, bad, c) = [o EXCEPT !.pc = "io", !.got = TRUE, !.buf = b]
    BY Zenon, <1>2 DEF AfterRead
  <2> HIDE DEF b
  <2> QED BY Zenon, <2>1, <2>2 DEF Requests
<1>3. CASE o.kind # "read" /\ bad # {}
  <2>1. AfterRead(o, bad, c) =
          [o EXCEPT !.pc = "handle", !.todo = {}, !.failed = bad, !.wrapped = TRUE]
    BY Zenon, <1>3 DEF AfterRead
  <2> QED BY Zenon, <2>1 DEF Requests
<1> QED BY Zenon, <1>1, <1>2, <1>3

\* Every step of the controller and of sync.AddReplica preserves the types.
LEMMA StepType == TypeOK /\ [Next]_vars => TypeOK'
<1> SUFFICES ASSUME TypeOK, [Next]_vars PROVE TypeOK' BY Zenon
<1> USE ConstantsAssumption
<1>r. \A k \in Clients : op[k] \in Requests BY Zenon DEF TypeOK
<1>o. op \in [Clients -> Requests] BY Zenon DEF TypeOK
<1>a. Active \in SUBSET Replicas /\ RW \in SUBSET Replicas BY Zenon DEF Active, RW, WO
<1>1. ASSUME NEW k \in Clients, NoBackend(k) PROVE TypeOK'
  BY Zenon, <1>1, IdleType DEF NoBackend, TypeOK
<1>2. ASSUME NEW k \in Clients, NEW s \in Sectors, NEW shape \in Shapes,
             NEW v \in Values, StartWrite(k, s, shape, v)
      PROVE  TypeOK'
  <2> DEFINE o == [Idle("none") EXCEPT
                    !.pc = IF WO # {} /\ shape # Units THEN "read" ELSE "io",
                    !.kind = "write", !.s = s, !.shape = shape,
                    !.buf = [u \in Units |-> v], !.todo = Active]
  <2>1. o \in Requests
    BY ZenonT(30), <1>a, IdleType DEF Requests, Contents
  <2> QED BY Zenon, <1>2, <2>1 DEF StartWrite, TypeOK
<1>3. ASSUME NEW k \in Clients, NEW s \in Sectors, StartRead(k, s)
      PROVE  TypeOK'
  <2> DEFINE o == [Idle("none") EXCEPT !.pc = "read", !.kind = "read", !.s = s]
  <2>1. o \in Requests BY Zenon, IdleType DEF Requests
  <2> QED BY Zenon, <1>3, <2>1 DEF StartRead, TypeOK
<1>4. ASSUME NEW k \in Clients, NEW s \in Sectors, StartUnmap(k, s)
      PROVE  TypeOK'
  <2> DEFINE o == [Idle("none") EXCEPT
                          !.pc = "io", !.kind = "unmap", !.s = s,
                          !.shape = Units, !.todo = Active]
  <2>1. o \in Requests BY Zenon, <1>a, IdleType DEF Requests
  <2>2. [u \in Units |-> Unspecified] \in Views BY Zenon DEF Views
  <2>3. vol' \in [Sectors -> Views]
    BY Zenon, <1>4, <2>2 DEF StartUnmap, TypeOK
  <2>4. op' \in [Clients -> Requests]
    BY <1>4, <2>1, IdleType DEF StartUnmap, TypeOK
  <2> QED BY Zenon, <1>4, <2>3, <2>4 DEF StartUnmap, TypeOK
<1>5. ASSUME NEW k \in Clients, ReadAt(k) PROVE TypeOK'
  <2>1. PICK bad \in SUBSET RW :
         \E c \in IF bad = RW THEN {op[k].buf}
                              ELSE {data[r][op[k].s] : r \in RW \ bad} :
            op' = [op EXCEPT ![k] = AfterRead(@, bad, c)]
    BY Zenon, <1>5 DEF ReadAt
  <2>a. op[k].buf \in Contents /\ op[k].s \in Sectors BY Zenon, <1>r DEF Requests
  <2>b. \A r \in RW : data[r][op[k].s] \in Contents BY <2>a DEF TypeOK, RW
  <2>2. PICK c \in Contents : op' = [op EXCEPT ![k] = AfterRead(@, bad, c)]
    BY Zenon, <2>1, <2>a, <2>b
  <2>4. bad \in SUBSET Replicas BY Zenon DEF RW
  <2>5. AfterRead(op[k], bad, c) \in Requests
    BY Zenon, <2>4, <1>r, AfterReadType
  <2> QED BY Zenon, <1>5, <2>2, <2>5 DEF ReadAt, TypeOK
<1>6. ASSUME NEW k \in Clients, NEW r \in Replicas, ReplicaWrite(k, r)
      PROVE  TypeOK'
  <2> DEFINE s   == op[k].s
             eff == IF op[k].got THEN Units ELSE op[k].shape
             new == Overlay(data[r][s], eff, op[k].buf)
  <2>1. s \in Sectors /\ new \in Contents
    <3>1. s \in Sectors /\ op[k].buf \in Contents BY Zenon, <1>r DEF Requests
    <3>2. data[r][s] \in Contents BY <3>1 DEF TypeOK
    <3> QED BY Zenon, <3>1, <3>2, OverlayType DEF Contents
  <2>2. data' \in {data, [data EXCEPT ![r][s] = new]}
    BY Zenon, <1>6 DEF ReplicaWrite
  <2>3. data' \in [Replicas -> [Sectors -> Contents]]
    <3>1. data \in [Replicas -> [Sectors -> Contents]] BY Zenon DEF TypeOK
    <3> HIDE DEF s, new
    <3> QED BY <2>1, <2>2, <3>1
  <2>4. op' \in [Clients -> Requests]
    <3>1. op' \in {[op EXCEPT ![k].todo = @ \ {r}],
                  [op EXCEPT ![k].todo = @ \ {r}, ![k].failed = @ \cup {r}]}
      BY Zenon, <1>6 DEF ReplicaWrite
    <3> QED BY <1>o, <3>1 DEF Requests
  <2>5. woHead' \in SUBSET Sectors
    BY <1>6, <2>1 DEF ReplicaWrite, TypeOK
  <2>6. task' = task \/ task' = [task EXCEPT !.head = @ \cup {s}]
    BY Zenon, <1>6 DEF ReplicaWrite
  <2>7. /\ task' \in Tasks
        /\ task'.stage = task.stage /\ task'.to = task.to /\ task'.from = task.from
    <3>1. task \in Tasks BY Zenon DEF TypeOK
    <3> HIDE DEF s
    <3> QED BY <2>1, <2>6, <3>1 DEF Tasks
  <2> QED BY Zenon, <1>6, <2>3, <2>4, <2>5, <2>7 DEF ReplicaWrite, TypeOK
<1>7. ASSUME NEW k \in Clients, NEW r \in Replicas, ReplicaUnmap(k, r)
      PROVE  TypeOK'
  <2>1. op' \in [Clients -> Requests]
    <3>1. op' \in {[op EXCEPT ![k].todo = @ \ {r}],
                  [op EXCEPT ![k].todo = @ \ {r}, ![k].failed = @ \cup {r}]}
      BY Zenon, <1>7 DEF ReplicaUnmap
    <3> QED BY <1>o, <3>1 DEF Requests
  <2>2. op[k].s \in Sectors BY Zenon, <1>r DEF Requests
  <2>3. data' \in [Replicas -> [Sectors -> Contents]]
    <3>1. data \in [Replicas -> [Sectors -> Contents]] BY Zenon DEF TypeOK
    <3> QED BY <1>7, <2>2, <3>1 DEF ReplicaUnmap
  <2> QED BY Zenon, <1>7, <2>1, <2>3 DEF ReplicaUnmap, TypeOK
<1>8. ASSUME NEW k \in Clients, FinishIO(k) PROVE TypeOK'
  <2>1. vol' \in [Sectors -> Views]
    BY Zenon, <1>8, AcknowledgeType DEF FinishIO, TypeOK
  <2>2. \A bad \in Blamed(op[k]) : bad \in SUBSET Replicas
    <3>1. op[k].failed \in SUBSET Replicas BY Zenon, <1>r DEF Requests
    <3> QED BY Zenon, <3>1, <1>a DEF Blamed
  <2>3. op' \in [Clients -> Requests]
    <3>1. CASE op' = [op EXCEPT ![k] = Idle("ok")]
      BY Zenon, <3>1, IdleType DEF TypeOK
    <3>2. CASE \E bad \in Blamed(op[k]) :
                  op' = [op EXCEPT ![k].pc = "handle", ![k].blamed = bad]
      <4>1. PICK bad \in SUBSET Replicas :
                  op' = [op EXCEPT ![k].pc = "handle", ![k].blamed = bad]
        BY Zenon, <3>2, <2>2
      <4>2. [op[k] EXCEPT !.pc = "handle", !.blamed = bad] \in Requests
        BY Zenon, <1>r, BlameType
      <4>3. op' = [op EXCEPT ![k] = [op[k] EXCEPT !.pc = "handle", !.blamed = bad]]
        BY Zenon, <4>1
      <4> QED BY Zenon, <1>o, <4>2, <4>3
    <3> QED BY Zenon, <1>8, <3>1, <3>2 DEF FinishIO
  <2> QED BY Zenon, <1>8, <2>1, <2>3 DEF FinishIO, TypeOK
<1>9. ASSUME NEW k \in Clients, CallLock(k) PROVE TypeOK'
  <2>1. op' \in [Clients -> Requests]
    BY <1>9, <1>o DEF CallLock, Requests
  <2> QED BY Zenon, <1>9, <2>1 DEF CallLock, TypeOK
<1>10. ASSUME NEW k \in Clients, HandleError(k) PROVE TypeOK'
  <2>1. PICK res \in {"ok", "err"} : /\ Acknowledge(op[k], res)
                                    /\ op' = [op EXCEPT ![k] = Idle(res)]
    BY Zenon, <1>10 DEF HandleError
  <2>2. vol' \in [Sectors -> Views] BY Zenon, <2>1, AcknowledgeType
  <2>3. op' \in [Clients -> Requests] BY Zenon, <2>1, IdleType DEF TypeOK
  <2>4. mode' \in [Replicas -> {"none", "RW", "WO", "ERR"}]
    BY Zenon, <1>10, MarkERRType DEF HandleError, TypeOK
  <2> QED BY Zenon, <1>10, <2>2, <2>3, <2>4 DEF HandleError, TypeOK
<1>t. ASSUME NEW who \in SUBSET Replicas, TakeSnapshot(who)
      PROVE  /\ chain' \in [Replicas -> SUBSET (1 .. MaxSnaps)]
             /\ snap' \in [Replicas -> [Sectors -> Contents]]
             /\ woHead' \in SUBSET Sectors
             /\ nextSnap' \in 1 .. MaxSnaps + 1
  BY <1>t DEF TakeSnapshot, TypeOK
<1>11. ASSUME Snapshot PROVE TypeOK'
  <2>1. PICK bad \in SUBSET Active : TakeSnapshot(Active \ bad) /\ mode' = MarkERR(bad)
    BY Zenon, <1>11 DEF Snapshot
  <2>2. Active \ bad \in SUBSET Replicas BY Zenon, <1>a
  <2> QED BY Zenon, <1>11, <1>t, <2>1, <2>2, MarkERRType DEF Snapshot, TypeOK
<1>12. ASSUME NEW r \in Replicas, AddReplica(r) PROVE TypeOK'
  <2> DEFINE t == [TaskIdle EXCEPT !.stage = "added", !.to = r]
  <2>1. t \in Tasks /\ t.stage = "added" /\ t.to = r
    BY Zenon, TaskIdleType DEF Tasks
  <2>2. CASE \E who \in SUBSET Replicas : TakeSnapshot(who)
    <3>1. mode' \in [Replicas -> {"none", "RW", "WO", "ERR"}]
      BY Zenon, <1>12 DEF AddReplica, TypeOK
    <3>2. task' = task \/ task' = t BY Zenon, <1>12 DEF AddReplica
    <3> HIDE DEF t
    <3> QED BY Zenon, <1>12, <1>t, <2>1, <2>2, <3>1, <3>2 DEF AddReplica, TypeOK
  <2>3. CASE UNCHANGED <<mode, snap, chain, nextSnap, woHead>>
    <3>1. task' = task \/ task' = t BY Zenon, <1>12 DEF AddReplica
    <3> HIDE DEF t
    <3> QED BY Zenon, <1>12, <2>1, <2>3, <3>1 DEF AddReplica, TypeOK
  <2> QED BY Zenon, <1>12, <1>a, <2>2, <2>3 DEF AddReplica
<1>13. ASSUME NEW r \in Replicas, RemoveReplica(r) PROVE TypeOK'
  BY Zenon, <1>13 DEF RemoveReplica, TypeOK
<1>14. ASSUME NEW r \in Replicas, PingFails(r) PROVE TypeOK'
  BY Zenon, <1>14 DEF PingFails, TypeOK
<1>15. ASSUME NEW r \in Replicas, Monitoring(r) PROVE TypeOK'
  BY Zenon, <1>15, MarkERRType DEF Monitoring, TypeOK
<1>16. ASSUME GetTransferClients PROVE TypeOK'
  <2>1. PICK r \in RW : task' = [task EXCEPT !.stage = "sourced", !.from = r]
    BY Zenon, <1>16 DEF GetTransferClients
  <2>2. task' \in Tasks /\ task'.from = r /\ task'.to = task.to /\ r \in Replicas
    BY Zenon, <2>1 DEF TypeOK, Tasks, RW
  <2> QED BY Zenon, <1>16, <2>2 DEF GetTransferClients, TypeOK
<1>17. ASSUME PrepareRebuildReplica PROVE TypeOK'
  <2>1. PICK rw \in RW :
         /\ chain' = [chain EXCEPT ![task.to] = @ \cap chain[rw]]
         /\ task' = [task EXCEPT !.stage = "prepared", !.list = chain[rw],
                                 !.complete = chain[rw] \subseteq chain[task.from],
                                 !.base = snap[task.from], !.head = woHead]
    BY Zenon, <1>17 DEF PrepareRebuildReplica
  <2>2. /\ rw \in Replicas /\ task.from \in Replicas /\ task.to \in Replicas
        /\ chain[rw] \in SUBSET (1 .. MaxSnaps)
        /\ snap[task.from] \in [Sectors -> Contents]
    BY Zenon, <1>17 DEF PrepareRebuildReplica, TypeOK, RW
  <2>3. /\ task' \in Tasks /\ task'.to = task.to
        /\ task'.stage = "prepared"
    BY Zenon, <2>1, <2>2 DEF TypeOK, Tasks
  <2>4. chain' \in [Replicas -> SUBSET (1 .. MaxSnaps)]
    BY Zenon, <2>1, <2>2 DEF TypeOK
  <2> QED BY Zenon, <1>17, <2>2, <2>3, <2>4 DEF PrepareRebuildReplica, TypeOK
<1>18. ASSUME SyncFiles PROVE TypeOK'
  <2>1. /\ task.to \in Replicas /\ task.list \in SUBSET (1 .. MaxSnaps)
        /\ task.base \in [Sectors -> Contents]
    BY Zenon, <1>18 DEF SyncFiles, TypeOK, Tasks
  <2>2. data' \in [Replicas -> [Sectors -> Contents]]
    BY Zenon, <1>18, <2>1 DEF SyncFiles, TypeOK
  <2>3. chain' \in [Replicas -> SUBSET (1 .. MaxSnaps)]
    BY Zenon, <1>18, <2>1 DEF SyncFiles, TypeOK
  <2>4. task' \in Tasks /\ task'.to = task.to /\ task'.stage = "synced"
    BY Zenon, <1>18 DEF SyncFiles, TypeOK, Tasks
  <2> QED BY Zenon, <1>18, <2>1, <2>2, <2>3, <2>4 DEF SyncFiles, TypeOK
<1>19. ASSUME VerifyRebuildReplica PROVE TypeOK'
  BY Zenon, <1>19, TaskIdleType DEF VerifyRebuildReplica, TypeOK
<1>20. ASSUME TaskFails PROVE TypeOK'
  BY Zenon, <1>20, TaskIdleType DEF TaskFails, TypeOK
<1>21. ASSUME UNCHANGED vars PROVE TypeOK'
  BY Zenon, <1>21 DEF vars, TypeOK
<1> QED
  BY Zenon, <1>1, <1>2, <1>3, <1>4, <1>5, <1>6, <1>7, <1>8, <1>9, <1>10, <1>11, <1>12,
     <1>13, <1>14, <1>15, <1>16, <1>17, <1>18, <1>19, <1>20, <1>21
  DEF Next, Request, Rebuild

\* Every variable keeps its type, whatever the constants: in particular a rebuild
\* past getTransferClients has a source and a target.
THEOREM TypeCorrect == Spec => []TypeOK
BY InitType, StepType, PTL DEF Spec

-----------------------------------------------------------------------------
\* Contents and what the client knows of them

\* A write to a replica that matches the volume makes it match the new volume.
LEMMA MatchOverlay ==
    ASSUME NEW c, NEW v, NEW us, NEW b, Match(c, v)
    PROVE  Match(Overlay(c, us, b), Overlay(v, us, b))
BY Zenon DEF Match, Overlay

\* A whole sector replaces whatever the replica held.
LEMMA MatchWhole ==
    ASSUME NEW c, NEW v, NEW b, Match(b, v)
    PROVE  Match(Overlay(c, Units, b), v)
BY Zenon DEF Match, Overlay

\* A write of all units makes the volume what was written.
LEMMA MatchAligned ==
    ASSUME NEW v, NEW b
    PROVE  Match(b, Overlay(v, Units, b))
BY Zenon DEF Match, Overlay

\* A write that failed leaves its units unspecified: less is known.
LEMMA MatchForget ==
    ASSUME NEW c, NEW v, NEW us, NEW b,
           Match(c, v) \/ Match(c, Overlay(v, us, b))
    PROVE  Match(c, Overlay(v, us, [u \in Units |-> Unspecified]))
BY Zenon DEF Match, Overlay

-----------------------------------------------------------------------------
\* How Good changes with a step of client k

\* The other clients' requests are left alone.
OnlyBy(k) == \A j \in Clients : j # k => op'[j] = op[j]

\* A sector client k is not changing, on a replica nobody changed.
LEMMA GoodElsewhere ==
    ASSUME NEW k \in Clients, OnlyBy(k), NEW r, NEW s,
           data'[r][s] = data[r][s], vol'[s] = vol[s],
           ~Changing(k, s), ~Changing(k, s)', Good(r, s)
    PROVE  Good(r, s)'
<1>1. \A j \in Clients : /\ InFlight(j, s)' <=> InFlight(j, s)
                         /\ Unmapping(j, s)' <=> Unmapping(j, s)
  BY Zenon DEF OnlyBy, Changing, InFlight, Unmapping
<1>2. Busy(s)' <=> Busy(s) BY Zenon, <1>1 DEF Busy
<1>3. ASSUME NEW j \in Clients, InFlight(j, s)'
      PROVE  /\ j # k /\ InFlight(j, s) /\ op[j].s = s /\ op'[j] = op[j]
             /\ Missed(j, r)' <=> Missed(j, r)
             /\ Wrote(j, r)' <=> Wrote(j, r)
             /\ After(j)' = After(j)
  <2>1. j # k /\ op'[j] = op[j] /\ InFlight(j, s) /\ op[j].s = s
    BY Zenon, <1>1, <1>3 DEF OnlyBy, Changing, InFlight
  <2> QED BY Zenon, <2>1 DEF Missed, Wrote, After
<1> QED BY Zenon, <1>2, <1>3 DEF Good

\* The sector client k is changing.
LEMMA GoodHere ==
    ASSUME NEW k \in Clients, NEW r, NEW s \in Sectors, Exclusive', Changing(k, s)',
           InFlight(k, s)' /\ ~Missed(k, r)' =>
               Match(data'[r][s], IF Wrote(k, r)' THEN After(k)' ELSE vol'[s])
    PROVE  Good(r, s)'
<1>1. Busy(s)' BY Zenon DEF Busy, Changing
<1>2. \A j \in Clients : InFlight(j, s)' => j = k BY Zenon DEF Exclusive, Changing
<1> QED BY Zenon, <1>1, <1>2 DEF Good

\* The sector client k has changed.
LEMMA GoodDone ==
    ASSUME NEW k \in Clients, OnlyBy(k), NEW r, NEW s \in Sectors, Exclusive,
           Changing(k, s), ~Changing(k, s)', Match(data'[r][s], vol'[s])
    PROVE  Good(r, s)'
<1>1. \A j \in Clients : ~InFlight(j, s)'
  BY Zenon DEF OnlyBy, Exclusive, Changing, InFlight, Unmapping
<1> QED BY Zenon, <1>1 DEF Good

\* A step without effect on requests, on the volume and on the replica.
LEMMA GoodSame ==
    ASSUME NEW r, NEW s, op' = op, vol' = vol, data'[r][s] = data[r][s], Good(r, s)
    PROVE  Good(r, s)'
BY Zenon DEF Good, Busy, InFlight, Unmapping, Missed, Wrote, After

-----------------------------------------------------------------------------
\* What a step of a request has to keep

\* No other request changes the sector that client k begins to change.
LEMMA ExclusiveKept ==
    ASSUME NEW k \in Clients, OnlyBy(k), Exclusive,
           \A s \in Sectors : Changing(k, s)' =>
               \/ Changing(k, s)
               \/ \A j \in Clients : ~Changing(j, s)
    PROVE  Exclusive'
<1>1. \A j \in Clients, s \in Sectors : j # k => (Changing(j, s)' <=> Changing(j, s))
  BY Zenon DEF OnlyBy, Changing, InFlight, Unmapping
<1> QED BY Zenon, <1>1 DEF Exclusive

\* The requests of the other clients keep what is known of them when the mode
\* of no replica changes under a reader and no sector they change is changed.
LEMMA RequestKept ==
    ASSUME NEW j \in Clients, op'[j] = op[j], RequestOK(j),
           mode' = mode \/ op[j].pc \notin {"read", "io"},
           Changing(j, op[j].s) => vol'[op[j].s] = vol[op[j].s]
    PROVE  RequestOK(j)'
<1>1. CASE mode' = mode
  <2>1. RW' = RW /\ WO' = WO /\ Active' = Active BY Zenon, <1>1 DEF Active, RW, WO
  <2> QED BY Zenon, <2>1 DEF RequestOK, After, Changing, InFlight, Unmapping
<1>2. CASE op[j].pc \notin {"read", "io"}
  BY Zenon, <1>2 DEF RequestOK, After, Changing, InFlight, Unmapping
<1> QED BY Zenon, <1>1, <1>2

\* A request step that leaves the snapshots and the rebuild alone keeps Inv
\* when it keeps Good and forgets no write outside of the WO replica's head.
LEMMA RequestStep ==
    ASSUME Inv, TypeOK', RW' \subseteq RW, WO' \subseteq WO,
           UNCHANGED <<snap, chain, nextSnap, woHead, task>>,
           Exclusive', \A k \in Clients : RequestOK(k)',
           \A r \in RW' \cup WO', s \in Sectors : Good(r, s) => Good(r, s)',
           \A head \in {woHead, task.head}, s \in Sectors, c \in Contents :
               /\ WO' # {} /\ s \notin head
               /\ \A j \in Clients : ReachedHead(j, head)
               /\ Match(c, vol[s])
               => Match(c, vol'[s]),
           \A j \in Clients, r \in WO' :
               op'[j].kind = "write" /\ Wrote(j, r)' /\ ~Missed(j, r)' =>
                   /\ op[j].kind = "write" /\ op'[j].s = op[j].s
                   /\ Wrote(j, r) /\ ~Missed(j, r)
    PROVE  Inv'
<1>1. OneWO' BY Zenon DEF Inv, OneWO
<1>2. \A r \in RW', s \in Sectors : Good(r, s)' BY Zenon DEF Inv
<1>3. ASSUME NEW j \in Clients, NEW head \in {woHead, task.head}, ReachedHead(j, head)
      PROVE  \A r \in WO' : op'[j].kind = "write" /\ Wrote(j, r)' /\ ~Missed(j, r)'
                                => op'[j].s \in head
  BY Zenon, <1>3 DEF ReachedHead
<1>4. SnapshotsOK'
  <2>1. WO' # {} => WO' = WO BY Zenon DEF Inv, OneWO
  <2>2. Latest' = Latest BY Zenon DEF Latest
  <2>3. \A r \in Replicas : (chain[r] \subseteq 1 .. Latest)'
    BY Zenon, <2>2 DEF Inv, SnapshotsOK
  <2>4. ASSUME WO' # {}, NEW r \in RW' PROVE Latest' \in chain'[r]
    BY Zenon, <2>1, <2>2, <2>4 DEF Inv, SnapshotsOK
  <2>5. ASSUME WO' # {}, NEW r \in Replicas \ WO', NEW s \in Sectors \ woHead',
               Latest' \in chain'[r]
        PROVE  Match(snap'[r][s], vol'[s])
    <3>1. Match(snap[r][s], vol[s]) BY Zenon, <2>1, <2>2, <2>5 DEF Inv, SnapshotsOK
    <3>2. snap[r][s] \in Contents BY DEF Inv, TypeOK
    <3> QED BY Zenon, <2>5, <3>1, <3>2 DEF Inv, WOHeadOK
  <2>6. WO' # {} =>
         /\ \A r \in RW' : Latest' \in chain'[r]
         /\ \A r \in Replicas \ WO', s \in Sectors \ woHead' :
                Latest' \in chain'[r] => Match(snap'[r][s], vol'[s])
    BY Zenon, <2>4, <2>5
  <2> QED BY Zenon, <2>3, <2>6 DEF SnapshotsOK, Match
<1>5. WOHeadOK'
  <2>1. \A r \in WO', s \in woHead' : Good(r, s)'
    BY Zenon DEF Inv, WOHeadOK, TypeOK
  <2>2. \A j \in Clients : ReachedHead(j, woHead)'
    BY Zenon, <1>3 DEF Inv, WOHeadOK, ReachedHead
  <2> QED BY Zenon, <2>1, <2>2 DEF WOHeadOK
<1>6. TaskOK'
  <2>1. task'.stage # "idle" => /\ WO' \subseteq {task'.to}
                               /\ task'.to \notin RW'
                               /\ task'.list \subseteq 1 .. Latest'
    BY Zenon DEF Inv, TaskOK, Latest
  <2>2. task'.stage = "sourced" => task'.from # task'.to
    BY Zenon DEF Inv, TaskOK
  <2>3. ASSUME task.stage = "prepared", task.complete, task.to \in WO'
        PROVE  /\ \A s \in Sectors : IF s \in task.head THEN Good(task.to, s)'
                                     ELSE Match(task.base[s], vol'[s])
               /\ \A j \in Clients : ReachedHead(j, task.head)'
    <3>1. /\ \A s \in Sectors : IF s \in task.head THEN Good(task.to, s)
                                ELSE Match(task.base[s], vol[s])
          /\ \A j \in Clients : ReachedHead(j, task.head)
      BY Zenon, <2>3 DEF Inv, TaskOK
    <3>2. \A j \in Clients : ReachedHead(j, task.head)'
      BY Zenon, <1>3, <3>1 DEF ReachedHead
    <3>3. ASSUME NEW s \in Sectors
          PROVE  IF s \in task.head THEN Good(task.to, s)'
                 ELSE Match(task.base[s], vol'[s])
      <4>1. task.base[s] \in Contents BY Zenon DEF Inv, TypeOK, Tasks
      <4> QED BY Zenon, <2>3, <3>1, <4>1
    <3> QED BY Zenon, <3>2, <3>3
  <2>4. ASSUME task.stage = "synced", task.to \in WO', NEW s \in Sectors
        PROVE  Good(task.to, s)'
    BY Zenon, <2>4 DEF Inv, TaskOK
  <2> QED BY Zenon, <2>1, <2>2, <2>3, <2>4 DEF TaskOK, Match
<1> QED BY Zenon, <1>1, <1>2, <1>4, <1>5, <1>6 DEF Inv

-----------------------------------------------------------------------------
\* The steps of a request, by what it is doing to its sector

\* Client k changes no sector before or after the step: it reads, or it is
\* turned away.
LEMMA QuietStep ==
    ASSUME Inv, TypeOK', NEW k \in Clients, OnlyBy(k),
           UNCHANGED <<data, snap, chain, nextSnap, woHead, task, vol>>,
           RW' \subseteq RW, WO' \subseteq WO, mode' = mode \/ NoReaders,
           op[k].pc = "idle" \/ op[k].kind \notin {"write", "unmap"},
           op'[k].pc = "idle" \/ op'[k].kind \notin {"write", "unmap"},
           RequestOK(k)'
    PROVE  Inv'
<1>1. \A s \in Sectors : ~Changing(k, s) /\ ~Changing(k, s)'
  BY Zenon DEF Changing, InFlight, Unmapping
<1>2. Exclusive' BY Zenon, <1>1, ExclusiveKept DEF Inv
<1>3. \A j \in Clients : RequestOK(j)'
  <2>1. ASSUME NEW j \in Clients, j # k PROVE RequestOK(j)'
    BY Zenon, <2>1, RequestKept DEF Inv, OnlyBy, NoReaders
  <2> QED BY Zenon, <2>1
<1>4. \A r \in RW' \cup WO', s \in Sectors : Good(r, s) => Good(r, s)'
  BY Zenon, <1>1, GoodElsewhere
<1>5. \A j \in Clients, r \in WO' :
          op'[j].kind = "write" /\ Wrote(j, r)' /\ ~Missed(j, r)' =>
              /\ op[j].kind = "write" /\ op'[j].s = op[j].s
              /\ Wrote(j, r) /\ ~Missed(j, r)
  BY Zenon DEF OnlyBy, Wrote, Missed
<1> QED BY Zenon, <1>2, <1>3, <1>4, <1>5, RequestStep

\* Client k begins to change sector s0 and has written to no replica yet.
LEMMA BeginStep ==
    ASSUME Inv, TypeOK', NEW k \in Clients, OnlyBy(k), NEW s0 \in Sectors,
           UNCHANGED <<mode, data, snap, chain, nextSnap, woHead, task>>,
           op[k].pc = "idle", Changing(k, s0)', op'[k].s = s0,
           \A j \in Clients : ~Changing(j, s0),
           \A s \in Sectors : s # s0 => vol'[s] = vol[s],
           \A c \in Contents : Match(c, vol[s0]) => Match(c, vol'[s0]),
           \A r \in Active : ~Wrote(k, r)',
           RequestOK(k)'
    PROVE  Inv'
<1>1. RW' = RW /\ WO' = WO BY Zenon DEF RW, WO
<1>2. \A s \in Sectors : s # s0 => ~Changing(k, s) /\ ~Changing(k, s)'
  BY Zenon DEF Changing, InFlight, Unmapping
<1>3. Exclusive' BY Zenon, <1>2, ExclusiveKept DEF Inv
<1>4. \A j \in Clients : RequestOK(j)'
  <2>1. ASSUME NEW j \in Clients, j # k PROVE RequestOK(j)'
    <3>1. op[j].s \in Sectors BY Zenon DEF Inv, TypeOK, Requests
    <3>2. Changing(j, op[j].s) => vol'[op[j].s] = vol[op[j].s] BY Zenon, <3>1
    <3> QED BY Zenon, <2>1, <3>2, RequestKept DEF Inv, OnlyBy
  <2> QED BY Zenon, <2>1
<1>5. ASSUME NEW r \in RW \cup WO, NEW s \in Sectors, Good(r, s) PROVE Good(r, s)'
  <2>1. CASE s = s0
    <3>1. ~Busy(s0) BY Zenon DEF Busy, Changing
    <3>2. data[r][s0] \in Contents BY ZenonT(30), <1>5 DEF Inv, TypeOK, RW, WO
    <3>3. Match(data'[r][s0], vol'[s0]) BY Zenon, <1>5, <2>1, <3>1, <3>2 DEF Good
    <3>4. ~Wrote(k, r)' BY Zenon DEF Active
    <3> QED BY Zenon, <1>3, <2>1, <3>3, <3>4, GoodHere
  <2>2. CASE s # s0 BY Zenon, <1>2, <1>5, <2>2, GoodElsewhere
  <2> QED BY Zenon, <2>1, <2>2
<1>6. \A j \in Clients, r \in WO' :
          op'[j].kind = "write" /\ Wrote(j, r)' /\ ~Missed(j, r)' =>
              /\ op[j].kind = "write" /\ op'[j].s = op[j].s
              /\ Wrote(j, r) /\ ~Missed(j, r)
  BY Zenon, <1>1 DEF OnlyBy, Wrote, Missed, Active
<1>7. \A s \in Sectors, c \in Contents : Match(c, vol[s]) => Match(c, vol'[s])
  BY Zenon
<1> QED BY Zenon, <1>1, <1>3, <1>4, <1>5, <1>6, <1>7, RequestStep

\* Client k goes on with the change of its sector; the volume the client knows
\* and the modes stay as they are.
LEMMA BusyStep ==
    ASSUME Inv, TypeOK', NEW k \in Clients, OnlyBy(k),
           UNCHANGED <<mode, snap, chain, nextSnap, woHead, task, vol>>,
           op[k].pc # "idle", op'[k].pc # "idle", op[k].kind \in {"write", "unmap"},
           op'[k].kind = op[k].kind, op'[k].s = op[k].s,
           \A r \in Replicas, s \in Sectors :
               s # op[k].s => data'[r][s] = data[r][s],
           RequestOK(k)',
           \A r \in Active :
               op[k].kind = "write" /\ ~Missed(k, r)' /\ Good(r, op[k].s) =>
                   Match(data'[r][op[k].s],
                         IF Wrote(k, r)' THEN After(k)' ELSE vol[op[k].s]),
           \A r \in WO : Wrote(k, r)' /\ ~Missed(k, r)' /\ op[k].kind = "write" =>
                   Wrote(k, r) /\ ~Missed(k, r)
    PROVE  Inv'
<1> DEFINE s0 == op[k].s
<1>0. s0 \in Sectors BY Zenon DEF Inv, TypeOK, Requests
<1>1. RW' = RW /\ WO' = WO BY Zenon DEF RW, WO
<1>2. /\ Changing(k, s0) /\ Changing(k, s0)'
      /\ \A s \in Sectors : s # s0 => ~Changing(k, s) /\ ~Changing(k, s)'
  BY Zenon DEF Changing, InFlight, Unmapping
<1>3. Exclusive' BY Zenon, <1>2, ExclusiveKept DEF Inv
<1>4. \A j \in Clients : RequestOK(j)'
  <2>1. ASSUME NEW j \in Clients, j # k PROVE RequestOK(j)'
    BY Zenon, <2>1, RequestKept DEF Inv, OnlyBy
  <2> QED BY Zenon, <2>1
<1>5. ASSUME NEW r \in RW \cup WO, NEW s \in Sectors, Good(r, s) PROVE Good(r, s)'
  <2>1. CASE s = s0
    <3>1. r \in Active BY Zenon DEF Active
    <3>2. InFlight(k, s0)' => op[k].kind = "write" BY Zenon DEF InFlight
    <3> QED BY Zenon, <1>2, <1>3, <1>5, <2>1, <3>1, <3>2, GoodHere
  <2>2. CASE s # s0
    <3>1. r \in Replicas BY Zenon DEF RW, WO
    <3> QED BY Zenon, <1>2, <1>5, <2>2, <3>1, GoodElsewhere
  <2> QED BY Zenon, <2>1, <2>2
<1>6. \A j \in Clients, r \in WO' :
          op'[j].kind = "write" /\ Wrote(j, r)' /\ ~Missed(j, r)' =>
              /\ op[j].kind = "write" /\ op'[j].s = op[j].s
              /\ Wrote(j, r) /\ ~Missed(j, r)
  <2>1. ASSUME NEW j \in Clients, j # k, NEW r \in WO'
        PROVE  op'[j].kind = "write" /\ Wrote(j, r)' /\ ~Missed(j, r)' =>
                  /\ op[j].kind = "write" /\ op'[j].s = op[j].s
                  /\ Wrote(j, r) /\ ~Missed(j, r)
    BY Zenon, <2>1 DEF OnlyBy, Wrote, Missed
  <2> QED BY Zenon, <1>1, <2>1
<1> QED BY Zenon, <1>1, <1>3, <1>4, <1>5, <1>6, RequestStep

\* The request of client k returns: every replica still in use matches what the
\* client now knows of the sector, and either the client knows less than before
\* or the write has reached the WO replica.
LEMMA EndStep ==
    ASSUME Inv, TypeOK', NEW k \in Clients, OnlyBy(k),
           UNCHANGED <<data, snap, chain, nextSnap, woHead, task>>,
           RW' \subseteq RW, WO' \subseteq WO, mode' = mode \/ NoReaders,
           op[k].pc # "idle", op[k].kind \in {"write", "unmap"},
           op'[k].pc = "idle", RequestOK(k)',
           \A s \in Sectors : s # op[k].s => vol'[s] = vol[s],
           \A r \in RW' \cup WO' :
               Good(r, op[k].s) => Match(data[r][op[k].s], vol'[op[k].s]),
           \/ \A c \in Contents : Match(c, vol[op[k].s]) => Match(c, vol'[op[k].s])
           \/ op[k].kind = "write" /\ \A r \in WO' : Wrote(k, r) /\ ~Missed(k, r)
    PROVE  Inv'
<1> DEFINE s0 == op[k].s
<1>0. s0 \in Sectors BY Zenon DEF Inv, TypeOK, Requests
<1>1. /\ Changing(k, s0)
      /\ \A s \in Sectors : /\ s # s0 => ~Changing(k, s)
                            /\ ~Changing(k, s)'
  BY Zenon DEF Changing, InFlight, Unmapping
<1>2. Exclusive' BY Zenon, <1>1, ExclusiveKept DEF Inv
<1>3. \A j \in Clients : RequestOK(j)'
  <2>1. ASSUME NEW j \in Clients, j # k PROVE RequestOK(j)'
    <3>1. op[j].s \in Sectors BY Zenon DEF Inv, TypeOK, Requests
    <3>2. Changing(j, op[j].s) => vol'[op[j].s] = vol[op[j].s]
      BY Zenon, <1>0, <1>1, <2>1, <3>1 DEF Inv, Exclusive
    <3> QED BY Zenon, <2>1, <3>2, RequestKept DEF Inv, OnlyBy, NoReaders
  <2> QED BY Zenon, <2>1
<1>4. ASSUME NEW r \in RW' \cup WO', NEW s \in Sectors, Good(r, s) PROVE Good(r, s)'
  <2>1. CASE s = s0 BY Zenon, <1>1, <1>4, <2>1, GoodDone DEF Inv
  <2>2. CASE s # s0 BY Zenon, <1>1, <1>4, <2>2, GoodElsewhere
  <2> QED BY Zenon, <2>1, <2>2
<1>5. \A j \in Clients, r \in WO' :
          op'[j].kind = "write" /\ Wrote(j, r)' /\ ~Missed(j, r)' =>
              /\ op[j].kind = "write" /\ op'[j].s = op[j].s
              /\ Wrote(j, r) /\ ~Missed(j, r)
  BY Zenon DEF OnlyBy, Wrote, Missed
<1>6. ASSUME NEW head \in {woHead, task.head}, NEW s \in Sectors, NEW c \in Contents,
             WO' # {}, s \notin head, \A j \in Clients : ReachedHead(j, head),
             Match(c, vol[s])
      PROVE  Match(c, vol'[s])
  <2>1. CASE s # s0 BY Zenon, <1>6, <2>1
  <2>2. CASE op[k].kind = "write" /\ \A r \in WO' : Wrote(k, r) /\ ~Missed(k, r)
    <3>1. s0 \in head BY Zenon, <1>6, <2>2 DEF ReachedHead
    <3> QED BY Zenon, <1>6, <2>1, <3>1
  <2> QED BY Zenon, <1>6, <2>1, <2>2
<1> QED BY Zenon, <1>2, <1>3, <1>4, <1>5, <1>6, RequestStep

\* Nothing is claimed of a request that has returned.
LEMMA IdleOK ==
    ASSUME NEW k \in Clients, NEW res, op'[k] = Idle(res)
    PROVE  RequestOK(k)' /\ op'[k].pc = "idle"
<1>1. /\ Idle(res).pc = "idle" /\ Idle(res).kind = "none"
      /\ Idle(res).wrapped = FALSE
  BY Zenon DEF Idle
<1> QED BY Zenon, <1>1 DEF RequestOK

\* Only the mode of a replica that stays a member changes, and only to ERR.
LEMMA MarkERRShrinks ==
    ASSUME TypeOK, NEW bad, mode' = MarkERR(bad)
    PROVE  RW' \subseteq RW /\ WO' \subseteq WO /\ (RW' \cup WO') \cap bad = {}
BY Zenon DEF MarkERR, RW, WO, TypeOK

-----------------------------------------------------------------------------
\* One lemma per action of a request

\* A request refused with ErrNoBackend changes no replica.
LEMMA NoBackendInv ==
    ASSUME Inv, TypeOK', NEW k \in Clients, NoBackend(k)
    PROVE  Inv'
<1>1. OnlyBy(k) /\ op'[k] = Idle("err")
  BY Zenon DEF NoBackend, OnlyBy, Inv, TypeOK
<1> QED BY Zenon, <1>1, IdleOK, QuietStep DEF NoBackend, RW, WO

\* ReadAt taking the lock preserves the invariant.
LEMMA StartReadInv ==
    ASSUME Inv, TypeOK', NEW k \in Clients, NEW s \in Sectors, StartRead(k, s)
    PROVE  Inv'
<1> DEFINE o == [Idle("none") EXCEPT !.pc = "read", !.kind = "read", !.s = s]
<1>1. OnlyBy(k) /\ op'[k] = o
  BY Zenon DEF StartRead, OnlyBy, Inv, TypeOK
<1>2. /\ o.pc = "read" /\ o.kind = "read" /\ o.failed = {} /\ o.got = FALSE
      /\ o.wrapped = FALSE
  BY Zenon DEF Idle
<1> HIDE DEF o
<1>3. RW' = RW /\ WO' = WO /\ RW # {} BY Zenon DEF StartRead, RW, WO
<1>4. RequestOK(k)' BY Zenon, <1>1, <1>2, <1>3 DEF RequestOK
<1> QED BY Zenon, <1>1, <1>2, <1>3, <1>4, QuietStep DEF StartRead

\* FrontendMaySend with SectorExclusive: nobody is changing the sector.
LEMMA NobodyChanges ==
    ASSUME SectorExclusive, NEW s, NEW shape, FrontendMaySend(s, shape)
    PROVE  \A j \in Clients : ~Changing(j, s)
BY Zenon DEF FrontendMaySend, Changing

\* WriteAt taking the lock: the sector becomes busy, and the frontend
\* lets no other request change it.
LEMMA StartWriteInv ==
    ASSUME SectorExclusive, Inv, TypeOK', NEW k \in Clients, NEW s \in Sectors,
           NEW shape \in Shapes, NEW v \in Values, StartWrite(k, s, shape, v)
    PROVE  Inv'
<1> DEFINE o == [Idle("none") EXCEPT
                    !.pc = IF WO # {} /\ shape # Units THEN "read" ELSE "io",
                    !.kind = "write", !.s = s, !.shape = shape,
                    !.buf = [u \in Units |-> v], !.todo = Active]
<1>1. OnlyBy(k) /\ op'[k] = o
  BY Zenon DEF StartWrite, OnlyBy, Inv, TypeOK
<1>2. /\ o.pc = IF WO # {} /\ shape # Units THEN "read" ELSE "io"
      /\ o.kind = "write" /\ o.failed = {} /\ o.got = FALSE /\ o.shape = shape
      /\ o.wrapped = FALSE /\ o.todo = Active /\ o.s = s
  BY Zenon DEF Idle
<1> HIDE DEF o
<1>3. mode' = mode /\ RW' = RW /\ RW # {} /\ WO' = WO /\ Active' = Active
  BY Zenon DEF StartWrite, WO, RW, Active
<1>4. RequestOK(k)'
  BY Zenon, <1>1, <1>2, <1>3 DEF RequestOK, Active
<1>5. Changing(k, s)' /\ op'[k].s = s
  BY Zenon, <1>1, <1>2 DEF Changing, InFlight
<1>6. \A r \in Active : ~Wrote(k, r)' BY Zenon, <1>1, <1>2 DEF Wrote
<1> QED
  BY Zenon, <1>1, <1>4, <1>5, <1>6, NobodyChanges, BeginStep DEF StartWrite

\* UnmapAt taking the lock: from here on the sector is unspecified.
LEMMA StartUnmapInv ==
    ASSUME SectorExclusive, Inv, TypeOK', NEW k \in Clients, NEW s \in Sectors,
           StartUnmap(k, s)
    PROVE  Inv'
<1>1. CASE op' = [op EXCEPT ![k] = Idle("ok")] /\ vol' = vol
  <2>1. OnlyBy(k) /\ op'[k] = Idle("ok") BY Zenon, <1>1 DEF OnlyBy, Inv, TypeOK
  <2> QED BY Zenon, <1>1, <2>1, IdleOK, QuietStep DEF StartUnmap, RW, WO
<1> DEFINE o == [Idle("none") EXCEPT !.pc = "io", !.kind = "unmap", !.s = s,
                          !.shape = Units, !.todo = Active]
<1>2. CASE /\ FrontendMaySend(s, Units)
           /\ op' = [op EXCEPT ![k] = o]
           /\ vol' = [vol EXCEPT ![s] = [u \in Units |-> Unspecified]]
  <2>1. OnlyBy(k) /\ op'[k] = o
    BY Zenon, <1>2 DEF OnlyBy, Inv, TypeOK
  <2>2. /\ o.pc = "io" /\ o.kind = "unmap" /\ o.wrapped = FALSE /\ o.s = s
        /\ o.todo = Active
    BY Zenon DEF Idle
  <2> HIDE DEF o
  <2>3. /\ vol'[s] = [u \in Units |-> Unspecified]
        /\ \A x \in Sectors : x # s => vol'[x] = vol[x]
    BY Zenon, <1>2 DEF Inv, TypeOK
  <2>4. RequestOK(k)' BY Zenon, <2>1, <2>2, <2>3 DEF RequestOK
  <2>5. Changing(k, s)' /\ op'[k].s = s BY Zenon, <2>1, <2>2 DEF Changing, Unmapping
  <2>6. \A c \in Contents : Match(c, vol'[s]) BY Zenon, <2>3 DEF Match
  <2>7. \A r \in Active : ~Wrote(k, r)' BY Zenon, <2>1, <2>2 DEF Wrote
  <2> QED
    BY Zenon, <1>2, <2>1, <2>3, <2>4, <2>5, <2>6, <2>7, NobodyChanges, BeginStep
    DEF StartUnmap
<1> QED BY Zenon, <1>1, <1>2 DEF StartUnmap

\* backend.ReadAt: an RW replica returns the sector as it is before the
\* write, so the buffer merged by writeInWOMode is the sector after it.
LEMMA ReadAtInv ==
    ASSUME Inv, TypeOK', NEW k \in Clients, ReadAt(k)
    PROVE  Inv'
<1> DEFINE s0 == op[k].s
<1>1. PICK bad \in SUBSET RW :
         \E c \in IF bad = RW THEN {op[k].buf}
                              ELSE {data[r][s0] : r \in RW \ bad} :
            op' = [op EXCEPT ![k] = AfterRead(@, bad, c)]
  BY Zenon DEF ReadAt
<1>2. op[k] \in Requests /\ op[k].buf \in Contents /\ s0 \in Sectors
  BY Zenon DEF Inv, TypeOK, Requests
<1>3. \A r \in RW : data[r][s0] \in Contents BY Zenon, <1>2 DEF Inv, TypeOK, RW
<1>4. PICK c \in Contents :
         /\ op' = [op EXCEPT ![k] = AfterRead(@, bad, c)]
         /\ bad # RW => \E r \in RW : c = data[r][s0]
  BY Zenon, <1>1, <1>2, <1>3
<1>5. OnlyBy(k) /\ op'[k] = AfterRead(op[k], bad, c)
  BY Zenon, <1>4 DEF OnlyBy, Inv, TypeOK
<1>6. bad \in SUBSET Replicas BY Zenon DEF RW
<1>n. PICK n : n = AfterRead(op[k], bad, c) BY Zenon
<1>o. PICK o \in Requests : o = op[k] BY Zenon, <1>2
<1>p. /\ n.kind = o.kind /\ n.s = o.s /\ n.shape = o.shape
      /\ o.kind = "read" => n.pc = "io" /\ n.wrapped = o.wrapped
      /\ o.kind # "read" /\ bad = {} =>
            /\ n.pc = "io" /\ n.buf = Overlay(c, o.shape, o.buf)
            /\ n.todo = o.todo /\ n.failed = o.failed
            /\ n.wrapped = o.wrapped
      /\ o.kind # "read" /\ bad # {} =>
            /\ n.pc = "handle" /\ n.todo = {} /\ n.wrapped = TRUE
            /\ n.buf = o.buf /\ n.got = o.got
  <2>0. n = AfterRead(o, bad, c) BY Zenon, <1>n, <1>o
  <2>1. CASE o.kind = "read"
    BY Zenon, <2>0, <2>1 DEF AfterRead, Requests
  <2>2. CASE o.kind # "read" /\ bad = {}
    BY Zenon, <2>0, <2>2 DEF AfterRead, Requests
  <2>3. CASE o.kind # "read" /\ bad # {}
    BY Zenon, <2>0, <2>3 DEF AfterRead, Requests
  <2> QED BY Zenon, <2>1, <2>2, <2>3
<1>7. /\ n.kind = op[k].kind /\ n.s = op[k].s /\ n.shape = op[k].shape
      /\ op[k].kind = "read" => n.pc = "io" /\ n.wrapped = op[k].wrapped
      /\ op[k].kind # "read" /\ bad = {} =>
            /\ n.pc = "io" /\ n.buf = Overlay(c, op[k].shape, op[k].buf)
            /\ n.todo = op[k].todo /\ n.failed = op[k].failed
            /\ n.wrapped = op[k].wrapped
      /\ op[k].kind # "read" /\ bad # {} =>
            /\ n.pc = "handle" /\ n.todo = {} /\ n.wrapped = TRUE
            /\ n.buf = op[k].buf /\ n.got = op[k].got
  BY Zenon, <1>o, <1>p
<1>8. op'[k] = n BY Zenon, <1>5, <1>n
<1>9. RequestOK(k) /\ op[k].pc = "read" BY Zenon DEF Inv, ReadAt
<1>m. RW' = RW /\ WO' = WO /\ Active' = Active BY Zenon DEF ReadAt, RW, WO, Active
<1>10. op[k].wrapped = FALSE
  BY Zenon, <1>9, <1>2 DEF RequestOK, Requests
<1>11. CASE op[k].kind = "read"
  <2>1. RequestOK(k)' BY Zenon, <1>7, <1>8, <1>10, <1>11 DEF RequestOK
  <2> QED BY Zenon, <1>5, <1>7, <1>8, <1>11, <1>m, <2>1, QuietStep DEF ReadAt
<1>12. CASE op[k].kind # "read"
  <2>1. op[k].kind = "write" /\ op[k].failed = {} /\ Active \subseteq op[k].todo
    BY Zenon, <1>9, <1>12 DEF RequestOK
  <2>2. InFlight(k, s0) /\ \A r : ~Wrote(k, r) /\ ~Missed(k, r)
    BY Zenon, <1>9, <2>1 DEF InFlight, Wrote, Missed
  <2>3. \A r \in Active : ~Wrote(k, r)'
    BY Zenon, <1>7, <1>8, <2>1 DEF Wrote
  <2>4. \A r : Good(r, s0) => Match(data[r][s0], vol[s0])
    BY Zenon, <2>2 DEF Good
  <2>5. RequestOK(k)'
    <3>1. CASE bad = {}
      <4>1. Match(c, vol[s0])
        <5>1. RW # {} BY Zenon, <1>9 DEF RequestOK
        <5>2. PICK r \in RW : c = data[r][s0] BY Zenon, <1>4, <3>1, <5>1
        <5>3. s0 \in Sectors BY Zenon, <1>2
        <5>4. Good(r, s0) BY Zenon, <5>2, <5>3 DEF Inv
        <5> QED BY Zenon, <2>4, <5>2, <5>4
      <4>2. After(k)' = Overlay(vol[s0], op[k].shape, n.buf)
        BY Zenon, <1>7, <1>8 DEF After, ReadAt
      <4>3. n.buf = Overlay(c, op[k].shape, op[k].buf)
        BY Zenon, <1>7, <1>12, <3>1
      <4>4. Match(n.buf, After(k)')
        BY Zenon, <4>1, <4>2, <4>3 DEF Match, Overlay
      <4>5. n.got = TRUE BY Zenon, <1>2, <1>n, <1>12, <3>1 DEF AfterRead, Requests
      <4> QED
        BY Zenon, <1>7, <1>8, <1>10, <1>12, <2>1, <3>1, <4>4, <4>5 DEF RequestOK, Match
    <3>2. CASE bad # {}
      BY Zenon, <1>7, <1>8, <1>9, <1>12, <2>1, <3>2 DEF RequestOK
    <3> QED BY Zenon, <3>1, <3>2
  <2>6. op'[k].kind = op[k].kind /\ op'[k].s = s0 /\ op'[k].pc # "idle"
    BY Zenon, <1>7, <1>8, <1>12
  <2>7. /\ UNCHANGED <<mode, data, snap, chain, nextSnap, woHead, task, vol>>
        /\ \A r \in WO : r \in Active
    BY Zenon DEF ReadAt, Active
  <2> QED
    BY Zenon, <1>5, <1>9, <2>1, <2>3, <2>4, <2>5, <2>6, <2>7, BusyStep
<1> QED BY Zenon, <1>11, <1>12

\* A replica unmaps a sector whose contents are unspecified by now.
LEMMA ReplicaUnmapInv ==
    ASSUME Inv, TypeOK', NEW k \in Clients, NEW r0 \in Replicas, ReplicaUnmap(k, r0)
    PROVE  Inv'
<1> DEFINE s0 == op[k].s
<1>1. op[k] \in Requests /\ s0 \in Sectors BY Zenon DEF Inv, TypeOK, Requests
<1>2. op' \in {[op EXCEPT ![k].todo = @ \ {r0}],
               [op EXCEPT ![k].todo = @ \ {r0}, ![k].failed = @ \cup {r0}]}
  BY Zenon DEF ReplicaUnmap
<1>3. OnlyBy(k) BY Zenon, <1>2 DEF OnlyBy, Inv, TypeOK
<1>4. op'[k] \in {[op[k] EXCEPT !.todo = @ \ {r0}],
                  [op[k] EXCEPT !.todo = @ \ {r0}, !.failed = @ \cup {r0}]}
  BY Zenon, <1>2 DEF Inv, TypeOK
<1>5. /\ op'[k].pc = op[k].pc /\ op'[k].kind = op[k].kind /\ op'[k].s = s0
      /\ op'[k].wrapped = op[k].wrapped
  BY Zenon, <1>1, <1>4 DEF Requests
<1>6. RequestOK(k) /\ op[k].pc = "io" /\ op[k].kind = "unmap"
  BY Zenon DEF Inv, ReplicaUnmap
<1>7. RequestOK(k)' BY Zenon, <1>5, <1>6 DEF RequestOK, ReplicaUnmap
<1>8. \A r \in Replicas, s \in Sectors : s # s0 => data'[r][s] = data[r][s]
  <2>1. data \in [Replicas -> [Sectors -> Contents]] BY Zenon DEF Inv, TypeOK
  <2>2. data' = data \/ \E c : data' = [data EXCEPT ![r0][s0] = c]
    BY Zenon DEF ReplicaUnmap
  <2> HIDE DEF s0
  <2> QED BY <1>1, <2>1, <2>2
<1> QED BY Zenon, <1>3, <1>5, <1>6, <1>7, <1>8, BusyStep DEF ReplicaUnmap

\* Queueing for the lock in handleError changes no replica.
LEMMA CallLockInv ==
    ASSUME Inv, TypeOK', NEW k \in Clients, CallLock(k)
    PROVE  Inv'
<1>1. op[k] \in Requests BY Zenon DEF Inv, TypeOK
<1>2. OnlyBy(k) /\ op'[k] = [op[k] EXCEPT !.pc = "lock"]
  BY Zenon DEF CallLock, OnlyBy, Inv, TypeOK
<1>3. /\ op'[k].pc = "lock" /\ op'[k].kind = op[k].kind /\ op'[k].s = op[k].s
      /\ op'[k].shape = op[k].shape /\ op'[k].buf = op[k].buf
      /\ op'[k].got = op[k].got /\ op'[k].wrapped = op[k].wrapped
      /\ op'[k].blamed = op[k].blamed /\ op'[k].todo = op[k].todo
      /\ op'[k].failed = op[k].failed
  BY Zenon, <1>1, <1>2 DEF Requests
<1>4. RequestOK(k) /\ op[k].pc = "handle" BY Zenon DEF Inv, CallLock
<1>5. After(k)' = After(k) /\ vol' = vol BY Zenon, <1>3 DEF After, CallLock
<1>6. RequestOK(k)' BY Zenon, <1>3, <1>4, <1>5 DEF RequestOK
<1>7. CASE op[k].kind \notin {"write", "unmap"}
  BY Zenon, <1>2, <1>3, <1>6, <1>7, QuietStep DEF CallLock, RW, WO
<1>8. CASE op[k].kind \in {"write", "unmap"}
  <2>1. \A r : /\ Wrote(k, r)' <=> Wrote(k, r)
               /\ Missed(k, r)' <=> Missed(k, r)
    BY Zenon, <1>3, <1>4 DEF Wrote, Missed
  <2>2. \A r \in Active :
            op[k].kind = "write" /\ ~Missed(k, r)' /\ Good(r, op[k].s) =>
                Match(data[r][op[k].s],
                      IF Wrote(k, r)' THEN After(k)' ELSE vol[op[k].s])
    BY Zenon, <1>4, <1>5, <2>1 DEF Good, InFlight
  <2> QED BY Zenon, <1>2, <1>3, <1>4, <1>6, <1>8, <2>1, <2>2, BusyStep DEF CallLock
<1> QED BY Zenon, <1>7, <1>8

\* The effect of a request that returns on what the client knows.
LEMMA AcknowledgeEffect ==
    ASSUME TypeOK, NEW k \in Clients, NEW res, Acknowledge(op[k], res)
    PROVE  /\ op[k].kind # "write" => vol' = vol
           /\ \A s \in Sectors : s # op[k].s => vol'[s] = vol[s]
           /\ op[k].kind = "write" /\ res = "ok" => vol'[op[k].s] = After(k)
           /\ op[k].kind = "write" /\ res # "ok" =>
                 vol'[op[k].s] = Overlay(vol[op[k].s], op[k].shape,
                                         [u \in Units |-> Unspecified])
<1>1. op[k].s \in Sectors BY Zenon DEF TypeOK, Requests
<1> QED BY Zenon, <1>1 DEF Acknowledge, After, TypeOK

\* RUnlock: without an error every active replica has the write.
LEMMA FinishIOInv ==
    ASSUME Inv, TypeOK', NEW k \in Clients, FinishIO(k)
    PROVE  Inv'
<1> DEFINE s0 == op[k].s
<1>1. op[k] \in Requests /\ s0 \in Sectors BY Zenon DEF Inv, TypeOK, Requests
<1>2. RequestOK(k) /\ op[k].pc = "io" /\ op[k].todo = {} BY Zenon DEF Inv, FinishIO
<1>3. op[k].wrapped = FALSE BY Zenon, <1>1, <1>2 DEF RequestOK, Requests
<1>m. UNCHANGED <<mode, data, snap, chain, nextSnap, woHead, task>> /\ RW' = RW /\ WO' = WO
  BY Zenon DEF FinishIO, RW, WO
<1>4. CASE /\ op[k].failed = {}
           /\ Acknowledge(op[k], "ok")
           /\ op' = [op EXCEPT ![k] = Idle("ok")]
  <2>1. OnlyBy(k) /\ op'[k] = Idle("ok") BY Zenon, <1>4 DEF OnlyBy, Inv, TypeOK
  <2>2. RequestOK(k)' /\ op'[k].pc = "idle" BY Zenon, <2>1, IdleOK
  <2>3. /\ op[k].kind # "write" => vol' = vol
        /\ \A s \in Sectors : s # s0 => vol'[s] = vol[s]
        /\ op[k].kind = "write" => vol'[s0] = After(k)
    BY Zenon, <1>4, AcknowledgeEffect DEF Inv
  <2>4. CASE op[k].kind \notin {"write", "unmap"}
    BY Zenon, <1>m, <2>1, <2>2, <2>3, <2>4, QuietStep
  <2>5. CASE op[k].kind = "write"
    <3>1. \A r : Wrote(k, r) /\ ~Missed(k, r)
      BY Zenon, <1>2, <1>3, <1>4 DEF Wrote, Missed
    <3>2. InFlight(k, s0) BY Zenon, <1>2, <2>5 DEF InFlight
    <3>3. \A r : Good(r, s0) => Match(data[r][s0], vol'[s0])
      BY Zenon, <2>3, <2>5, <3>1, <3>2 DEF Good
    <3> QED BY Zenon, <1>2, <1>m, <2>1, <2>2, <2>3, <2>5, <3>1, <3>3, EndStep
  <2>6. CASE op[k].kind = "unmap"
    <3>1. \A c : Match(c, vol'[s0]) BY Zenon, <1>2, <2>3, <2>6 DEF RequestOK, Match
    <3> QED BY Zenon, <1>2, <1>m, <2>1, <2>2, <2>3, <2>6, <3>1, EndStep
  <2> QED BY Zenon, <2>4, <2>5, <2>6
<1>5. ASSUME NEW bad \in Blamed(op[k]),
             op' = [op EXCEPT ![k].pc = "handle", ![k].blamed = bad], vol' = vol
      PROVE  Inv'
  <2>1. OnlyBy(k) /\ op'[k] = [op[k] EXCEPT !.pc = "handle", !.blamed = bad]
    BY Zenon, <1>5 DEF OnlyBy, Inv, TypeOK
  <2>2. /\ op'[k].pc = "handle" /\ op'[k].kind = op[k].kind /\ op'[k].s = op[k].s
        /\ op'[k].shape = op[k].shape /\ op'[k].buf = op[k].buf
        /\ op'[k].got = op[k].got /\ op'[k].wrapped = op[k].wrapped
        /\ op'[k].blamed = bad /\ op'[k].todo = op[k].todo
        /\ op'[k].failed = op[k].failed
    BY Zenon, <1>1, <2>1 DEF Requests
  <2>3. op[k].kind = "write" => bad = op[k].failed BY Zenon, <1>5 DEF Blamed
  <2>4. After(k)' = After(k) BY Zenon, <1>5, <2>2 DEF After
  <2>5. RequestOK(k)' BY Zenon, <1>2, <1>3, <1>5, <2>2, <2>3, <2>4 DEF RequestOK
  <2>6. CASE op[k].kind \notin {"write", "unmap"}
    BY Zenon, <1>5, <1>m, <2>1, <2>2, <2>5, <2>6, QuietStep
  <2>7. CASE op[k].kind \in {"write", "unmap"}
    <3>1. \A r : /\ Wrote(k, r)' <=> Wrote(k, r)
                 /\ Missed(k, r)' <=> Missed(k, r)
      BY Zenon, <1>2, <2>2 DEF Wrote, Missed
    <3>2. \A r \in Active :
              op[k].kind = "write" /\ ~Missed(k, r)' /\ Good(r, s0) =>
                  Match(data[r][s0], IF Wrote(k, r)' THEN After(k)' ELSE vol[s0])
      BY Zenon, <1>2, <2>4, <3>1 DEF Good, InFlight
    <3> QED BY Zenon, <1>2, <1>5, <1>m, <2>1, <2>2, <2>5, <2>7, <3>1, <3>2, BusyStep
  <2> QED BY Zenon, <2>6, <2>7
<1> QED BY Zenon, <1>4, <1>5 DEF FinishIO

\* handleErrorNoLock marks every replica that missed the write, and only
\* then is the write acknowledged.
LEMMA HandleErrorInv ==
    ASSUME Inv, TypeOK', NEW k \in Clients, HandleError(k)
    PROVE  Inv'
<1> DEFINE s0 == op[k].s
<1>1. op[k] \in Requests /\ s0 \in Sectors BY Zenon DEF Inv, TypeOK, Requests
<1>2. RequestOK(k) /\ op[k].pc = "lock" BY Zenon DEF Inv, HandleError
<1>3. PICK res : /\ op[k].wrapped => res # "ok"
                 /\ Acknowledge(op[k], res) /\ op' = [op EXCEPT ![k] = Idle(res)]
  BY Zenon DEF HandleError
<1>4. OnlyBy(k) /\ op'[k] = Idle(res) BY Zenon, <1>3 DEF OnlyBy, Inv, TypeOK
<1>5. RequestOK(k)' /\ op'[k].pc = "idle" BY Zenon, <1>4, IdleOK
<1>6. /\ op[k].kind # "write" => vol' = vol
      /\ \A s \in Sectors : s # op[k].s => vol'[s] = vol[s]
      /\ op[k].kind = "write" /\ res = "ok" => vol'[s0] = After(k)
      /\ op[k].kind = "write" /\ res # "ok" =>
            vol'[s0] = Overlay(vol[s0], op[k].shape, [u \in Units |-> Unspecified])
  BY Zenon, <1>3, AcknowledgeEffect DEF Inv
<1>7. /\ UNCHANGED <<data, snap, chain, nextSnap, woHead, task>>
      /\ RW' \subseteq RW /\ WO' \subseteq WO /\ NoReaders
      /\ ~op[k].wrapped => (RW' \cup WO') \cap op[k].blamed = {}
  <2>1. CASE op[k].wrapped
    BY Zenon, <2>1 DEF HandleError, RW, WO
  <2>2. CASE ~op[k].wrapped
    BY Zenon, <2>2, MarkERRShrinks DEF HandleError, Inv
  <2> QED BY Zenon, <2>1, <2>2
<1>8. CASE op[k].kind \notin {"write", "unmap"}
  BY Zenon, <1>4, <1>5, <1>6, <1>7, <1>8, QuietStep
<1>9. CASE op[k].kind = "unmap"
  <2>1. \A c : Match(c, vol'[s0]) BY Zenon, <1>2, <1>6, <1>9 DEF RequestOK, Match
  <2> QED BY Zenon, <1>2, <1>4, <1>5, <1>6, <1>7, <1>9, <2>1, EndStep
<1>10. CASE op[k].kind = "write" /\ op[k].wrapped
  <2>1. \A r : ~Wrote(k, r) /\ ~Missed(k, r) BY Zenon, <1>10 DEF Wrote, Missed
  <2>2. \A c : Match(c, vol[s0]) => Match(c, vol'[s0])
    BY Zenon, <1>3, <1>6, <1>10, MatchForget
  <2>3. InFlight(k, s0) BY Zenon, <1>2, <1>10 DEF InFlight
  <2>4. \A r : Good(r, s0) => Match(data[r][s0], vol'[s0])
    BY Zenon, <2>1, <2>2, <2>3 DEF Good
  <2> QED BY Zenon, <1>2, <1>4, <1>5, <1>6, <1>7, <1>10, <2>2, <2>4, EndStep
<1>11. CASE op[k].kind = "write" /\ ~op[k].wrapped
  <2>1. op[k].todo = {} /\ op[k].blamed = op[k].failed
    BY Zenon, <1>2, <1>11 DEF RequestOK
  <2>2. \A r \in RW' \cup WO' : Wrote(k, r) /\ ~Missed(k, r)
    BY Zenon, <1>2, <1>7, <1>11, <2>1 DEF Wrote, Missed
  <2>3. InFlight(k, s0) BY Zenon, <1>2, <1>11 DEF InFlight
  <2>4. \A r \in RW' \cup WO' : Good(r, s0) => Match(data[r][s0], After(k))
    BY Zenon, <2>2, <2>3 DEF Good
  <2>5. \A c : Match(c, After(k)) => Match(c, vol'[s0])
    <3>1. CASE res = "ok" BY Zenon, <1>6, <1>11, <3>1
    <3>2. CASE res # "ok" BY <1>6, <1>11, <3>2, MatchForget DEF After
    <3> QED BY Zenon, <3>1, <3>2
  <2> QED BY Zenon, <1>2, <1>4, <1>5, <1>6, <1>7, <1>11, <2>2, <2>4, <2>5, EndStep
<1> QED BY Zenon, <1>8, <1>9, <1>10, <1>11

\* The step that puts a write on a replica, and the one that adds a sector to
\* the heads of the WO replica.
LEMMA ReplicaWriteInv ==
    ASSUME Inv, TypeOK', NEW k \in Clients, NEW r0 \in Replicas, ReplicaWrite(k, r0)
    PROVE  Inv'
<1>0. PICK s0 \in Sectors : s0 = op[k].s BY Zenon DEF Inv, TypeOK, Requests
<1> DEFINE eff == IF op[k].got THEN Units ELSE op[k].shape
           new == Overlay(data[r0][s0], eff, op[k].buf)
<1>1. op[k] \in Requests BY Zenon DEF Inv, TypeOK
<1>2. /\ RequestOK(k) /\ op[k].pc = "io" /\ op[k].kind = "write" /\ r0 \in op[k].todo
      /\ InFlight(k, s0)
  BY Zenon, <1>0 DEF Inv, ReplicaWrite, InFlight
<1>3. op[k].wrapped = FALSE BY Zenon, <1>1, <1>2 DEF RequestOK, Requests
<1>4. /\ UNCHANGED <<mode, snap, chain, nextSnap, vol>>
      /\ RW' = RW /\ WO' = WO /\ Active' = Active /\ Latest' = Latest
  BY Zenon DEF ReplicaWrite, RW, WO, Active, Latest
<1>5. /\ op' \in {[op EXCEPT ![k].todo = @ \ {r0}],
                  [op EXCEPT ![k].todo = @ \ {r0}, ![k].failed = @ \cup {r0}]}
  BY Zenon DEF ReplicaWrite
<1>6. OnlyBy(k) BY Zenon, <1>5 DEF OnlyBy, Inv, TypeOK
<1>7. op'[k] \in {[op[k] EXCEPT !.todo = @ \ {r0}],
                  [op[k] EXCEPT !.todo = @ \ {r0}, !.failed = @ \cup {r0}]}
  BY Zenon, <1>5 DEF Inv, TypeOK
<1>8. /\ op'[k].pc = op[k].pc /\ op'[k].kind = op[k].kind /\ op'[k].s = op[k].s
      /\ op'[k].shape = op[k].shape /\ op'[k].buf = op[k].buf
      /\ op'[k].got = op[k].got /\ op'[k].wrapped = op[k].wrapped
      /\ op'[k].todo = op[k].todo \ {r0}
      /\ op'[k].failed \in {op[k].failed, op[k].failed \cup {r0}}
  BY Zenon, <1>1, <1>7 DEF Requests
<1>9. After(k)' = After(k) BY Zenon, <1>4, <1>8 DEF After
<1>10. RequestOK(k)' BY Zenon, <1>2, <1>3, <1>4, <1>8, <1>9 DEF RequestOK
<1>11. \A j \in Clients : RequestOK(j)'
  <2>1. ASSUME NEW j \in Clients, j # k PROVE RequestOK(j)'
    BY Zenon, <1>4, <1>6, <2>1, RequestKept DEF Inv, OnlyBy
  <2> QED BY Zenon, <1>10, <2>1
<1>12. /\ Changing(k, s0) /\ Changing(k, s0)'
       /\ \A s \in Sectors : s # s0 => ~Changing(k, s) /\ ~Changing(k, s)'
  BY Zenon, <1>0, <1>2, <1>8 DEF Changing, InFlight, Unmapping
<1>13. Exclusive' BY Zenon, <1>6, <1>12, ExclusiveKept DEF Inv
<1>14. PICK ok \in BOOLEAN :
        /\ ok => /\ data' = [data EXCEPT ![r0][s0] = new]
                 /\ op' = [op EXCEPT ![k].todo = @ \ {r0}]
                 /\ woHead' = IF r0 \in WO THEN woHead \cup {s0} ELSE woHead
                 /\ task' = IF r0 \in WO /\ task.stage = "prepared"
                            THEN [task EXCEPT !.head = @ \cup {s0}] ELSE task
        /\ ~ok => /\ data' \in {data, [data EXCEPT ![r0][s0] = new]}
                  /\ op' = [op EXCEPT ![k].todo = @ \ {r0}, ![k].failed = @ \cup {r0}]
                  /\ UNCHANGED <<woHead, task>>
  <2>1. CASE /\ data' = [data EXCEPT ![r0][s0] = new]
             /\ op' = [op EXCEPT ![k].todo = @ \ {r0}]
             /\ woHead' = IF r0 \in WO THEN woHead \cup {s0} ELSE woHead
             /\ task' = IF r0 \in WO /\ task.stage = "prepared"
                        THEN [task EXCEPT !.head = @ \cup {s0}] ELSE task
    <3> WITNESS TRUE \in BOOLEAN
    <3> QED BY Zenon, <2>1
  <2>2. CASE /\ data' \in {data, [data EXCEPT ![r0][s0] = new]}
             /\ op' = [op EXCEPT ![k].todo = @ \ {r0}, ![k].failed = @ \cup {r0}]
             /\ UNCHANGED <<woHead, task>>
    <3> WITNESS FALSE \in BOOLEAN
    <3> QED BY Zenon, <2>2
  <2> QED BY Zenon, <1>0, <2>1, <2>2 DEF ReplicaWrite
<1>15. data \in [Replicas -> [Sectors -> Contents]] BY Zenon DEF Inv, TypeOK
<1>16. /\ \A r \in Replicas, s \in Sectors :
             r # r0 \/ s # s0 => data'[r][s] = data[r][s]
       /\ ok => data'[r0][s0] = new
  <2> HIDE DEF new
  <2> QED BY <1>1, <1>14, <1>15
<1>17. /\ ok => op'[k].failed = op[k].failed
       /\ ~ok => r0 \in op'[k].failed
  <2>1. CASE ok
    <3>1. op'[k] = [op[k] EXCEPT !.todo = @ \ {r0}]
      BY Zenon, <1>14, <2>1 DEF Inv, TypeOK
    <3> QED BY Zenon, <1>1, <2>1, <3>1 DEF Requests
  <2>2. CASE ~ok
    <3>1. op'[k] = [op[k] EXCEPT !.todo = @ \ {r0}, !.failed = @ \cup {r0}]
      BY Zenon, <1>14, <2>2 DEF Inv, TypeOK
    <3> QED BY ZenonT(30), <1>1, <2>2, <3>1 DEF Requests
  <2> QED BY Zenon, <2>1, <2>2
<1> HIDE DEF new
<1>18. /\ ~Wrote(k, r0) /\ Wrote(k, r0)'
       /\ ok => (Missed(k, r0)' <=> Missed(k, r0))
       /\ ~ok => Missed(k, r0)'
       /\ \A r : r # r0 => /\ Wrote(k, r)' <=> Wrote(k, r)
                           /\ Missed(k, r)' <=> Missed(k, r)
  BY Zenon, <1>2, <1>3, <1>8, <1>17 DEF Wrote, Missed
\* The write took place on a replica that was good, or was of a whole sector.
<1>19. ASSUME ok, Match(data[r0][s0], vol[s0]) \/ op[k].got \/ op[k].shape = Units
       PROVE  Match(new, After(k))
  <2>1. CASE op[k].got
    <3>1. Match(op[k].buf, After(k)) BY Zenon, <1>2, <2>1 DEF RequestOK
    <3> QED BY Zenon, <2>1, <3>1, MatchWhole DEF new
  <2>2. CASE ~op[k].got /\ op[k].shape = Units
    <3>1. Match(op[k].buf, After(k)) BY Zenon, <1>0, <2>2, MatchAligned DEF After
    <3> QED BY Zenon, <2>2, <3>1, MatchWhole DEF new
  <2>3. CASE ~op[k].got /\ Match(data[r0][s0], vol[s0])
    BY Zenon, <1>0, <2>3, MatchOverlay DEF new, After
  <2> QED BY Zenon, <1>19, <2>1, <2>2, <2>3
<1>20. ASSUME NEW r \in RW \cup WO, NEW s \in Sectors, Good(r, s) PROVE Good(r, s)'
  <2>1. CASE s # s0
    <3>1. data'[r][s] = data[r][s] BY Zenon, <1>16, <2>1 DEF RW, WO
    <3> QED BY Zenon, <1>4, <1>6, <1>12, <1>20, <2>1, <3>1, GoodElsewhere
  <2>2. CASE s = s0 /\ r # r0
    <3>1. data'[r][s] = data[r][s] BY Zenon, <1>1, <1>16, <2>2 DEF RW, WO
    <3>2. ~Missed(k, r) => Match(data[r][s0], IF Wrote(k, r) THEN After(k) ELSE vol[s0])
      BY Zenon, <1>2, <1>20, <2>2 DEF Good
    <3>3. ~Missed(k, r)' =>
            Match(data'[r][s0], IF Wrote(k, r)' THEN After(k)' ELSE vol'[s0])
      BY Zenon, <1>4, <1>9, <1>18, <2>2, <3>1, <3>2
    <3> QED BY Zenon, <1>12, <1>13, <2>2, <3>3, GoodHere
  <2>3. CASE s = s0 /\ r = r0
    <3>1. ~Missed(k, r0) => Match(data[r0][s0], vol[s0])
      BY Zenon, <1>2, <1>18, <1>20, <2>3 DEF Good
    <3>2. ~Missed(k, r0)' => Match(data'[r0][s0], After(k)')
      BY Zenon, <1>9, <1>16, <1>18, <1>19, <3>1
    <3> QED BY Zenon, <1>12, <1>13, <1>18, <2>3, <3>2, GoodHere
  <2> QED BY Zenon, <2>1, <2>2, <2>3
<1>21. ASSUME ok, r0 \in WO PROVE Good(r0, s0)'
  <2>1. op[k].got \/ op[k].shape = Units BY Zenon, <1>2, <1>21 DEF RequestOK
  <2>2. Match(data'[r0][s0], After(k)') BY Zenon, <1>9, <1>16, <1>19, <1>21, <2>1
  <2> QED BY Zenon, <1>1, <1>12, <1>13, <1>18, <2>2, GoodHere
<1>22. ASSUME NEW h, NEW h2, h \subseteq h2, ok /\ r0 \in WO => s0 \in h2,
              \A j \in Clients : ReachedHead(j, h)
       PROVE  \A j \in Clients, r \in WO :
                  op'[j].kind = "write" /\ Wrote(j, r)' /\ ~Missed(j, r)'
                      => op'[j].s \in h2
  <2>1. ASSUME NEW j \in Clients, j # k, NEW r \in WO, op'[j].kind = "write",
               Wrote(j, r)', ~Missed(j, r)'
        PROVE  op'[j].s \in h2
    BY Zenon, <1>6, <1>22, <2>1 DEF OnlyBy, ReachedHead, Wrote, Missed
  <2>2. ASSUME NEW r \in WO, Wrote(k, r)', ~Missed(k, r)'
        PROVE  s0 \in h2
    BY Zenon, <1>0, <1>2, <1>18, <1>22, <2>2 DEF ReachedHead
  <2> QED BY Zenon, <1>0, <1>8, <2>1, <2>2
<1>23. WOHeadOK'
  <2>1. ASSUME NEW r \in WO', NEW s \in woHead' PROVE Good(r, s)'
    <3>1. CASE s \in woHead
      BY Zenon, <1>4, <1>20, <2>1, <3>1 DEF Inv, WOHeadOK, TypeOK
    <3>2. CASE s \notin woHead
      <4>1. ok /\ r0 \in WO /\ s = s0 BY Zenon, <1>14, <2>1, <3>2
      <4>2. r = r0 BY Zenon, <1>4, <2>1, <4>1 DEF Inv, OneWO
      <4> QED BY Zenon, <1>21, <4>1, <4>2
    <3> QED BY Zenon, <3>1, <3>2
  <2>2. \A j \in Clients : ReachedHead(j, woHead)'
    <3>1. woHead \subseteq woHead' /\ (ok /\ r0 \in WO => s0 \in woHead')
      BY Zenon, <1>14
    <3> QED BY Zenon, <1>4, <1>22, <3>1 DEF Inv, WOHeadOK, ReachedHead
  <2> QED BY Zenon, <2>1, <2>2 DEF WOHeadOK
<1>24. /\ task'.stage = task.stage /\ task'.to = task.to /\ task'.from = task.from
       /\ task'.list = task.list /\ task'.complete = task.complete
       /\ task'.base = task.base /\ task.head \subseteq task'.head
       /\ ok /\ r0 \in WO /\ task.stage = "prepared" => s0 \in task'.head
       /\ \A s \in task'.head \ task.head : ok /\ r0 \in WO /\ s = s0
  <2>1. task \in Tasks BY Zenon DEF Inv, TypeOK
  <2> QED BY <1>14, <2>1 DEF Tasks
<1>25. TaskOK'
  <2>1. ASSUME task.stage = "prepared", task.complete, task.to \in WO
        PROVE  /\ \A s \in Sectors : IF s \in task'.head THEN Good(task.to, s)'
                                     ELSE Match(task.base[s], vol[s])
               /\ \A j \in Clients : ReachedHead(j, task.head)'
    <3>1. /\ \A s \in Sectors : IF s \in task.head THEN Good(task.to, s)
                                ELSE Match(task.base[s], vol[s])
          /\ \A j \in Clients : ReachedHead(j, task.head)
      BY Zenon, <2>1 DEF Inv, TaskOK
    <3>2. \A j \in Clients : ReachedHead(j, task.head)'
      BY Zenon, <1>4, <1>22, <1>24, <2>1, <3>1 DEF ReachedHead
    <3>3. ASSUME NEW s \in Sectors
          PROVE  IF s \in task'.head THEN Good(task.to, s)'
                 ELSE Match(task.base[s], vol[s])
      <4>1. CASE s \in task.head BY Zenon, <1>20, <1>24, <2>1, <3>1, <4>1
      <4>2. CASE s \in task'.head \ task.head
        <5>1. ok /\ r0 \in WO /\ s = s0 BY Zenon, <1>24, <4>2
        <5>2. task.to = r0 BY Zenon, <2>1, <5>1 DEF Inv, OneWO
        <5> QED BY Zenon, <1>21, <1>24, <4>2, <5>1, <5>2
      <4>3. CASE s \notin task'.head BY Zenon, <1>24, <3>1, <4>3
      <4> QED BY Zenon, <4>1, <4>2, <4>3
    <3> QED BY Zenon, <3>2, <3>3
  <2>2. ASSUME task.stage = "synced", task.to \in WO, NEW s \in Sectors
        PROVE  Good(task.to, s)'
    BY Zenon, <1>20, <1>24, <2>2 DEF Inv, TaskOK
  <2>3. /\ task.stage # "idle" => /\ WO \subseteq {task.to} /\ task.to \notin RW
                                  /\ task.list \subseteq 1 .. Latest
        /\ task.stage = "sourced" => task.from # task.to
    BY Zenon DEF Inv, TaskOK
  <2> QED BY Zenon, <1>4, <1>24, <2>1, <2>2, <2>3 DEF TaskOK
<1>26. SnapshotsOK'
  <2>1. woHead \subseteq woHead' BY Zenon, <1>14
  <2> QED BY Zenon, <1>4, <2>1 DEF Inv, SnapshotsOK
<1>27. OneWO' BY Zenon, <1>4 DEF Inv, OneWO
<1>28. \A r \in RW', s \in Sectors : Good(r, s)' BY Zenon, <1>4, <1>20 DEF Inv
<1> QED BY Zenon, <1>11, <1>13, <1>23, <1>25, <1>26, <1>27, <1>28 DEF Inv

-----------------------------------------------------------------------------
\* The operations on the set of replicas and the rebuild

\* Replicas leave the volume or become ERR.
LEMMA ShrinkStep ==
    ASSUME Inv, TypeOK', NoReaders, RW' \subseteq RW, WO' \subseteq WO,
           UNCHANGED <<data, snap, chain, nextSnap, woHead, task, op, vol>>
    PROVE  Inv'
<1>1. Exclusive' BY Zenon DEF Inv, Exclusive, Changing, InFlight, Unmapping
<1>2. \A j \in Clients : RequestOK(j)' BY Zenon, RequestKept DEF Inv, NoReaders
<1>3. \A r \in RW' \cup WO', s \in Sectors : Good(r, s) => Good(r, s)'
  BY Zenon, GoodSame
<1>4. \A j \in Clients, r \in WO' : /\ Wrote(j, r)' <=> Wrote(j, r)
                                    /\ Missed(j, r)' <=> Missed(j, r)
  BY Zenon DEF Wrote, Missed
<1> QED BY Zenon, <1>1, <1>2, <1>3, <1>4, RequestStep

\* Only the rebuild and the monitoring change.
LEMMA TaskStep ==
    ASSUME Inv, TypeOK', TaskOK',
           UNCHANGED <<mode, data, snap, chain, nextSnap, woHead, op, vol>>
    PROVE  Inv'
<1>1. RW' = RW /\ WO' = WO /\ Latest' = Latest BY Zenon DEF RW, WO, Latest
<1>2. Exclusive' BY Zenon DEF Inv, Exclusive, Changing, InFlight, Unmapping
<1>3. \A j \in Clients : RequestOK(j)' BY Zenon, RequestKept DEF Inv
<1>4. \A r, s : Good(r, s) => Good(r, s)' BY Zenon, GoodSame
<1>5. SnapshotsOK' BY Zenon, <1>1 DEF Inv, SnapshotsOK
<1>6. WOHeadOK'
  <2>1. \A j \in Clients : ReachedHead(j, woHead)'
    BY Zenon, <1>1 DEF Inv, WOHeadOK, ReachedHead, Wrote, Missed
  <2> QED BY Zenon, <1>1, <1>4, <2>1 DEF Inv, WOHeadOK
<1>7. OneWO' BY Zenon, <1>1 DEF Inv, OneWO
<1> QED BY Zenon, <1>1, <1>2, <1>3, <1>4, <1>5, <1>6, <1>7 DEF Inv

\* A task that has just begun, or none.
LEMMA FreshTask ==
    ASSUME NEW r, WO' = {r}, r \notin RW', Latest' \in Int,
           task' = [TaskIdle EXCEPT !.stage = "added", !.to = r]
    PROVE  TaskOK'
<1>1. task'.stage = "added" /\ task'.to = r /\ task'.list = {} BY Zenon DEF TaskIdle
<1> QED BY Zenon, <1>1 DEF TaskOK

\* Ending sync.AddReplica, by success or by failure, preserves the invariant.
LEMMA NoTask ==
    ASSUME task' = TaskIdle
    PROVE  TaskOK'
<1>1. task'.stage = "idle" BY Zenon DEF TaskIdle
<1> QED BY Zenon, <1>1 DEF TaskOK

\* Without a request between its RUnlock and its handleError no request is in
\* flight when an operation takes the lock.
LEMMA AllIdle ==
    ASSUME TypeOK, NEW who, who \notin Overtakers, MayTakeLock(who)
    PROVE  \A j \in Clients : op[j].pc = "idle"
<1>1. \A j \in Clients : op[j].pc \in {"idle", "read", "io", "handle", "lock"}
  BY Zenon DEF TypeOK, Requests
<1> QED BY Zenon, <1>1 DEF MayTakeLock, NoReaders

\* A snapshot, with or without a replica that joins as WO.  The replicas in who
\* take it; whoever is in use afterwards has taken it.
LEMMA SnapshotStep ==
    ASSUME Inv, TypeOK', \A j \in Clients : op[j].pc = "idle",
           NEW who \in SUBSET Replicas, TakeSnapshot(who),
           UNCHANGED <<data, op, vol>>,
           RW' \subseteq RW, OneWO', TaskOK',
           WO' # {} => RW' \subseteq who /\ who \ WO' \subseteq RW
    PROVE  Inv'
<1>1. Exclusive' BY Zenon DEF Inv, Exclusive, Changing, InFlight, Unmapping
<1>2. \A j \in Clients : RequestOK(j)' BY Zenon, RequestKept DEF Inv
<1>3. \A r, s : Good(r, s) => Good(r, s)' BY Zenon, GoodSame
<1>4. /\ nextSnap \in Int /\ Latest' = nextSnap /\ Latest = nextSnap - 1
      /\ woHead' = {}
      /\ \A r \in Replicas :
            /\ chain'[r] = IF r \in who THEN chain[r] \cup {nextSnap} ELSE chain[r]
            /\ snap'[r] = IF r \in who THEN data[r] ELSE snap[r]
            /\ chain[r] \subseteq 1 .. (nextSnap - 1)
  <2>1. nextSnap \in 1 .. MaxSnaps + 1 BY Zenon DEF Inv, TypeOK
  <2>2. nextSnap \in Int BY <2>1, ConstantsAssumption
  <2>3. nextSnap' = nextSnap + 1 /\ woHead' = {} BY Zenon DEF TakeSnapshot
  <2>4. Latest' = nextSnap /\ Latest = nextSnap - 1 BY <2>2, <2>3 DEF Latest
  <2>5. ASSUME NEW r \in Replicas
        PROVE  /\ chain'[r] = IF r \in who THEN chain[r] \cup {nextSnap} ELSE chain[r]
               /\ snap'[r] = IF r \in who THEN data[r] ELSE snap[r]
    BY Zenon DEF TakeSnapshot
  <2>6. \A r \in Replicas : chain[r] \subseteq 1 .. (nextSnap - 1)
    BY Zenon DEF Inv, SnapshotsOK, Latest
  <2> QED BY Zenon, <2>2, <2>3, <2>4, <2>5, <2>6
<1>5. nextSnap >= 1
  <2>1. nextSnap \in 1 .. MaxSnaps + 1 BY Zenon DEF Inv, TypeOK
  <2> QED BY <2>1, ConstantsAssumption
<1>6. SnapshotsOK'
  <2>0. \A r \in Replicas : \A n \in chain[r] : n \in Int /\ 1 <= n /\ n <= nextSnap - 1
    <3>1. ASSUME NEW r \in Replicas, NEW n \in chain[r] PROVE n \in 1 .. (nextSnap - 1)
      <4>1. chain[r] \subseteq 1 .. (nextSnap - 1) BY Zenon, <1>4
      <4> QED BY Zenon, <4>1
    <3>2. nextSnap \in Int BY Zenon, <1>4
    <3> QED BY <3>1, <3>2
  <2>1. ASSUME NEW r \in Replicas PROVE chain'[r] \subseteq 1 .. Latest'
    <3>1. ASSUME NEW n \in chain'[r] PROVE n \in 1 .. nextSnap
      <4>1. n \in chain[r] \/ n = nextSnap BY Zenon, <1>4
      <4> QED BY <1>4, <1>5, <2>0, <4>1
    <3> QED BY Zenon, <1>4, <3>1
  <2>2. ASSUME WO' # {}, NEW r \in RW' PROVE Latest' \in chain'[r]
    BY Zenon, <1>4, <2>2 DEF RW
  <2>3. ASSUME WO' # {}, NEW r \in Replicas \ WO', NEW s \in Sectors,
               Latest' \in chain'[r]
        PROVE  Match(snap'[r][s], vol'[s])
    <3>1. r \in who
      <4>1. nextSnap \notin chain[r] BY <1>4, <2>0
      <4> QED BY Zenon, <1>4, <2>3, <4>1
    <3>2. r \in RW BY Zenon, <2>3, <3>1
    <3>3. ~Busy(s) BY Zenon DEF Busy, InFlight, Unmapping
    <3>4. Match(data[r][s], vol[s]) BY Zenon, <3>2, <3>3 DEF Inv, Good
    <3> QED BY Zenon, <1>4, <3>1, <3>4
  <2> QED BY Zenon, <2>1, <2>2, <2>3 DEF SnapshotsOK, Match
<1>7. WOHeadOK'
  <2>1. \A j \in Clients : ReachedHead(j, woHead)' BY Zenon DEF ReachedHead, Wrote
  <2> QED BY Zenon, <1>4, <2>1 DEF WOHeadOK
<1> QED BY Zenon, <1>1, <1>2, <1>3, <1>6, <1>7 DEF Inv

\* Snapshot: with no handleError pending, every replica that takes the
\* snapshot and stays RW has all the acknowledged writes in it.
LEMMA SnapshotInv ==
    ASSUME Inv, TypeOK', "snapshot" \notin Overtakers, Snapshot
    PROVE  Inv'
<1>1. \A j \in Clients : op[j].pc = "idle" BY Zenon, AllIdle DEF Snapshot, Inv
<1>2. PICK bad \in SUBSET Active : TakeSnapshot(Active \ bad) /\ mode' = MarkERR(bad)
  BY Zenon DEF Snapshot
<1>3. /\ RW' \subseteq RW /\ WO' \subseteq WO /\ (RW' \cup WO') \cap bad = {}
      /\ UNCHANGED <<data, task, op, vol>>
  BY Zenon, <1>2, MarkERRShrinks DEF Snapshot, Inv
<1>4. WO \ bad \subseteq WO' BY Zenon, <1>2 DEF MarkERR, WO
<1>5. OneWO' BY Zenon, <1>3 DEF Inv, OneWO
<1>6. /\ Active \ bad \in SUBSET Replicas
      /\ RW' \subseteq Active \ bad /\ (Active \ bad) \ WO' \subseteq RW
  BY Zenon, <1>3, <1>4 DEF Active, RW, WO
<1>7. TaskOK'
  <2>1. /\ Latest \in Int /\ Latest' = Latest + 1
    <3>1. nextSnap \in 1 .. MaxSnaps + 1 BY Zenon DEF Inv, TypeOK
    <3>2. nextSnap \in Int BY <3>1, ConstantsAssumption
    <3>3. nextSnap' = nextSnap + 1 BY Zenon, <1>2 DEF TakeSnapshot
    <3> QED BY <3>2, <3>3 DEF Latest
  <2>2. \A r, s : Good(r, s) => Good(r, s)' BY Zenon, <1>3, GoodSame
  <2>3. \A j \in Clients : ReachedHead(j, task.head)'
    BY Zenon, <1>1, <1>3 DEF ReachedHead, Wrote
  <2>4. task'.stage # "idle" => /\ WO' \subseteq {task'.to}
                               /\ task'.to \notin RW'
                               /\ task'.list \subseteq 1 .. Latest'
    <3>1. SUFFICES ASSUME task.stage # "idle"
                   PROVE  /\ WO' \subseteq {task.to} /\ task.to \notin RW'
                          /\ task.list \subseteq 1 .. Latest'
      BY Zenon, <1>3
    <3>2. /\ WO \subseteq {task.to} /\ task.to \notin RW
          /\ task.list \subseteq 1 .. Latest
      BY Zenon, <3>1 DEF Inv, TaskOK
    <3>3. 1 .. Latest \subseteq 1 .. Latest' BY <2>1
    <3> QED BY Zenon, <1>3, <3>2, <3>3
  <2> QED BY Zenon, <1>3, <2>2, <2>3, <2>4 DEF Inv, TaskOK
<1> QED BY Zenon, <1>1, <1>2, <1>3, <1>5, <1>6, <1>7, SnapshotStep

\* addReplica: the new WO replica starts from a snapshot all RW replicas took.
LEMMA AddReplicaInv ==
    ASSUME Inv, TypeOK', "add" \notin Overtakers, NEW r \in Replicas, AddReplica(r)
    PROVE  Inv'
<1>0. Latest' \in Int BY DEF Latest, TypeOK
<1>1. CASE /\ mode[r] = "WO"
           /\ task' = [TaskIdle EXCEPT !.stage = "added", !.to = r]
           /\ UNCHANGED <<mode, snap, chain, nextSnap, woHead>>
  <2>1. WO' = {r} /\ r \notin RW' BY Zenon, <1>1 DEF Inv, OneWO, WO, RW
  <2>2. TaskOK' BY Zenon, <1>0, <1>1, <2>1, FreshTask
  <2> QED BY Zenon, <1>1, <2>2, TaskStep DEF AddReplica
<1>2. CASE mode[r] = "none" /\ WO = {} /\ MayTakeLock("add")
  <2>1. \A j \in Clients : op[j].pc = "idle" BY Zenon, <1>2, AllIdle DEF Inv
  <2>2. Active = RW /\ Active \in SUBSET Replicas BY Zenon, <1>2 DEF Active, RW
  <2>3. UNCHANGED <<data, op, vol>> BY Zenon DEF AddReplica
  <2>4. ASSUME NEW bad \in SUBSET Active, TakeSnapshot(Active \ bad),
               UNCHANGED <<mode, task>>
        PROVE  Inv'
    <3>1. RW' = RW /\ WO' = {} BY Zenon, <1>2, <2>4 DEF RW, WO
    <3>2. OneWO' BY Zenon, <3>1 DEF OneWO
    <3>3. TaskOK'
      <4>1. task.stage = "idle" BY Zenon DEF AddReplica
      <4> QED BY Zenon, <2>4, <4>1 DEF TaskOK
    <3>4. Active \ bad \in SUBSET Replicas BY Zenon, <2>2
    <3> QED BY Zenon, <2>1, <2>3, <2>4, <3>1, <3>2, <3>3, <3>4, SnapshotStep
  <2>5. CASE /\ TakeSnapshot(Active \cup {r})
             /\ mode' = [mode EXCEPT ![r] = "WO"]
             /\ task' = [TaskIdle EXCEPT !.stage = "added", !.to = r]
    <3>1. RW' = RW /\ WO' = {r} /\ r \notin RW'
      BY <1>2, <2>5 DEF RW, WO, Inv, TypeOK
    <3>2. OneWO' BY Zenon, <3>1 DEF OneWO
    <3>3. TaskOK' BY Zenon, <1>0, <2>5, <3>1, FreshTask
    <3>4. Active \cup {r} \in SUBSET Replicas BY Zenon, <2>2
    <3> QED BY Zenon, <2>1, <2>2, <2>3, <2>5, <3>1, <3>2, <3>3, <3>4, SnapshotStep
  <2>6. Active \ {} = Active BY Zenon
  <2> QED BY Zenon, <1>2, <2>4, <2>5, <2>6 DEF AddReplica
<1> QED BY Zenon, <1>1, <1>2 DEF AddReplica, CanAdd

\* RemoveReplica only takes replicas away.
LEMMA RemoveReplicaInv ==
    ASSUME Inv, TypeOK', NEW r \in Replicas, RemoveReplica(r)
    PROVE  Inv'
<1>1. RW' \subseteq RW /\ WO' \subseteq WO
  BY Zenon DEF RemoveReplica, RW, WO, Inv, TypeOK
<1> QED BY ZenonT(30), <1>1, ShrinkStep DEF RemoveReplica

\* The monitoring goroutine only takes a replica out of use.
LEMMA MonitoringInv ==
    ASSUME Inv, TypeOK', NEW r \in Replicas, Monitoring(r)
    PROVE  Inv'
<1>1. RW' \subseteq RW /\ WO' \subseteq WO
  BY Zenon, MarkERRShrinks DEF Monitoring, Inv
<1> QED BY Zenon, <1>1, ShrinkStep DEF Monitoring

\* The task is left alone and so is all that it depends on.
LEMMA TaskKept ==
    ASSUME Inv, UNCHANGED <<mode, data, nextSnap, task, op, vol>>
    PROVE  TaskOK'
<1>1. RW' = RW /\ WO' = WO /\ Latest' = Latest BY Zenon DEF RW, WO, Latest
<1>2. \A r, s : Good(r, s) => Good(r, s)' BY Zenon, GoodSame
<1>3. \A j \in Clients : ReachedHead(j, task.head) => ReachedHead(j, task.head)'
  BY Zenon, <1>1 DEF ReachedHead, Wrote, Missed
<1> QED BY Zenon, <1>1, <1>2, <1>3 DEF Inv, TaskOK

\* A failed ping by itself changes no replica.
LEMMA PingFailsInv ==
    ASSUME Inv, TypeOK', NEW r \in Replicas, PingFails(r)
    PROVE  Inv'
BY Zenon, TaskKept, TaskStep DEF PingFails

\* A step that changes nothing preserves the invariant.
LEMMA StutterInv ==
    ASSUME Inv, TypeOK', UNCHANGED vars
    PROVE  Inv'
BY Zenon, TaskKept, TaskStep DEF vars

\* A failed sync.AddReplica leaves its target WO.
LEMMA TaskFailsInv ==
    ASSUME Inv, TypeOK', TaskFails
    PROVE  Inv'
BY Zenon, NoTask, TaskStep DEF TaskFails

\* getTransferClients picks an RW replica, which is not the WO target.
LEMMA GetTransferClientsInv ==
    ASSUME Inv, TypeOK', GetTransferClients
    PROVE  Inv'
<1>1. PICK r \in RW : task' = [task EXCEPT !.stage = "sourced", !.from = r]
  BY Zenon DEF GetTransferClients
<1>2. /\ task'.stage = "sourced" /\ task'.from = r /\ task'.to = task.to
      /\ task'.list = task.list
  <2>1. task \in Tasks BY Zenon DEF Inv, TypeOK
  <2> QED BY Zenon, <1>1, <2>1 DEF Tasks
<1>3. RW' = RW /\ WO' = WO /\ Latest' = Latest
  BY Zenon DEF GetTransferClients, RW, WO, Latest
<1>4. TaskOK'
  <2>1. /\ WO \subseteq {task.to} /\ task.to \notin RW /\ task.list \subseteq 1 .. Latest
    BY Zenon DEF GetTransferClients, Inv, TaskOK
  <2> QED BY Zenon, <1>2, <1>3, <2>1 DEF TaskOK
<1> QED BY Zenon, <1>4, TaskStep DEF GetTransferClients

\* The files to copy hold every sector that is not in the target's head: the
\* source holds the last snapshot, because the RW replica that was listed does.
LEMMA PrepareRebuildReplicaInv ==
    ASSUME Inv, TypeOK', PrepareRebuildReplica
    PROVE  Inv'
<1>0. PICK to \in Replicas, from \in Replicas : to = task.to /\ from = task.from
  BY Zenon DEF PrepareRebuildReplica, Inv, TypeOK
<1>1. PICK rw \in RW :
         /\ chain' = [chain EXCEPT ![to] = @ \cap chain[rw]]
         /\ task' = [task EXCEPT !.stage = "prepared", !.list = chain[rw],
                                 !.complete = chain[rw] \subseteq chain[from],
                                 !.base = snap[from], !.head = woHead]
  BY Zenon, <1>0 DEF PrepareRebuildReplica
<1>2. /\ task'.stage = "prepared" /\ task'.list = chain[rw] /\ task'.to = to
      /\ task'.complete => chain[rw] \subseteq chain[from]
      /\ task'.base = snap[from] /\ task'.head = woHead
  <2>1. task \in Tasks BY Zenon DEF Inv, TypeOK
  <2> QED BY Zenon, <1>0, <1>1, <2>1 DEF Tasks
<1>3. /\ UNCHANGED <<mode, data, snap, nextSnap, woHead, op, vol>>
      /\ RW' = RW /\ WO' = WO /\ Latest' = Latest
      /\ task.stage = "sourced" /\ to \in WO /\ rw \in Replicas
  BY Zenon, <1>0 DEF PrepareRebuildReplica, RW, WO, Latest
<1>4. /\ WO \subseteq {to} /\ to \notin RW /\ from # to
  BY Zenon, <1>0, <1>3 DEF Inv, TaskOK
<1>5. \A r \in Replicas : /\ chain'[r] \subseteq chain[r]
                          /\ r # to => chain'[r] = chain[r]
  BY ZenonT(30), <1>0, <1>1 DEF Inv, TypeOK
<1>6. /\ \A r \in Replicas : chain[r] \subseteq 1 .. Latest
      /\ \A r \in RW : Latest \in chain[r]
      /\ \A r \in Replicas \ WO, s \in Sectors \ woHead :
             Latest \in chain[r] => Match(snap[r][s], vol[s])
  BY Zenon, <1>3 DEF Inv, SnapshotsOK
<1>7. SnapshotsOK'
  <2>1. \A r \in Replicas : chain'[r] \subseteq 1 .. Latest BY Zenon, <1>5, <1>6
  <2>2. \A r \in RW : Latest \in chain'[r] BY Zenon, <1>4, <1>5, <1>6 DEF RW
  <2>3. \A r \in Replicas \ WO, s \in Sectors \ woHead :
            Latest \in chain'[r] => Match(snap[r][s], vol[s])
    BY Zenon, <1>3, <1>5, <1>6
  <2> QED BY Zenon, <1>3, <2>1, <2>2, <2>3 DEF SnapshotsOK
<1>8. \A r, s : Good(r, s) => Good(r, s)' BY Zenon, <1>3, GoodSame
<1>9. \A j \in Clients : ReachedHead(j, woHead)'
  BY Zenon, <1>3 DEF Inv, WOHeadOK, ReachedHead, Wrote, Missed
<1>10. \A r \in WO, s \in woHead : Good(r, s)' BY Zenon, <1>8 DEF Inv, WOHeadOK
<1>11. TaskOK'
  <2>1. ASSUME task'.complete, NEW s \in Sectors \ woHead
        PROVE  Match(snap[from][s], vol[s])
    <3>1. Latest \in chain[from] BY Zenon, <1>2, <1>6, <2>1
    <3>2. from \notin WO BY Zenon, <1>4
    <3> QED BY Zenon, <1>6, <3>1, <3>2
  <2>2. \A j \in Clients : ReachedHead(j, task.head)'
    BY Zenon, <1>2, <1>3, <1>9 DEF ReachedHead
  <2>3. task'.list \subseteq 1 .. Latest BY Zenon, <1>2, <1>3, <1>6
  <2>4. ASSUME task'.complete, NEW s \in Sectors
        PROVE  IF s \in task'.head THEN Good(task.to, s)'
               ELSE Match(task'.base[s], vol[s])
    <3>1. CASE s \in woHead
      <4>1. Good(to, s)' BY Zenon, <1>3, <1>10, <3>1
      <4> QED BY Zenon, <1>2, <3>1, <4>1
    <3>2. CASE s \notin woHead BY Zenon, <1>2, <2>1, <2>4, <3>2
    <3> QED BY Zenon, <3>1, <3>2
  <2> QED BY Zenon, <1>2, <1>3, <1>4, <2>2, <2>3, <2>4 DEF TaskOK
<1>12. WOHeadOK' BY Zenon, <1>3, <1>9, <1>10 DEF WOHeadOK
<1>13. Exclusive' BY ZenonT(30), <1>3 DEF Inv, Exclusive, Changing, InFlight, Unmapping
<1>14. \A j \in Clients : RequestOK(j)' BY Zenon, <1>3, RequestKept DEF Inv
<1>15. OneWO' BY Zenon, <1>3 DEF Inv, OneWO
<1> QED
  BY Zenon, <1>3, <1>7, <1>8, <1>11, <1>12, <1>13, <1>14, <1>15 DEF Inv

\* The copied files below the target's head make the target complete.
LEMMA SyncFilesInv ==
    ASSUME Inv, TypeOK', SyncFiles
    PROVE  Inv'
<1>0. PICK to \in Replicas : to = task.to
  BY Zenon DEF SyncFiles, Inv, TypeOK
<1>1. /\ UNCHANGED <<mode, snap, nextSnap, woHead, op, vol>>
      /\ RW' = RW /\ WO' = WO /\ Latest' = Latest
      /\ task.stage = "prepared" /\ task.complete
  BY Zenon DEF SyncFiles, RW, WO, Latest
<1>2. /\ WO \subseteq {to} /\ to \notin RW /\ task.list \subseteq 1 .. Latest
  BY Zenon, <1>0, <1>1 DEF Inv, TaskOK
<1>3. /\ task'.stage = "synced" /\ task'.to = to /\ task'.list = task.list
  <2>1. task \in Tasks BY Zenon DEF Inv, TypeOK
  <2> QED BY Zenon, <1>0, <2>1 DEF SyncFiles, Tasks
<1>4. /\ \A r \in Replicas : r # to => data'[r] = data[r] /\ chain'[r] = chain[r]
      /\ chain'[to] = chain[to] \cup task.list
      /\ \A s \in Sectors : data'[to][s] = IF s \in task.head THEN data[to][s]
                                           ELSE task.base[s]
  BY Zenon, <1>0 DEF SyncFiles, Inv, TypeOK
<1>5. \A r \in Replicas, s \in Sectors : r # to /\ Good(r, s) => Good(r, s)'
  BY Zenon, <1>1, <1>4, GoodSame
<1>6. ASSUME to \in WO, NEW s \in Sectors PROVE Good(to, s)'
  <2>1. /\ IF s \in task.head THEN Good(to, s) ELSE Match(task.base[s], vol[s])
        /\ \A j \in Clients : ReachedHead(j, task.head)
    BY Zenon, <1>0, <1>1, <1>6 DEF Inv, TaskOK
  <2>2. CASE s \in task.head
    BY Zenon, <1>1, <1>4, <2>1, <2>2, GoodSame
  <2>3. CASE s \notin task.head
    <3>1. Match(data'[to][s], vol'[s]) BY Zenon, <1>1, <1>4, <2>1, <2>3
    <3>2. ASSUME NEW j \in Clients, InFlight(j, s)', ~Missed(j, to)'
          PROVE  ~Wrote(j, to)'
      BY Zenon, <1>1, <1>6, <2>1, <2>3, <3>2 DEF InFlight, Missed, Wrote, ReachedHead
    <3> QED BY Zenon, <3>1, <3>2 DEF Good
  <2> QED BY Zenon, <2>2, <2>3
<1>7. SnapshotsOK'
  <2>1. \A r \in Replicas : chain[r] \subseteq 1 .. Latest
    BY Zenon DEF Inv, SnapshotsOK
  <2>2. \A r \in Replicas : chain'[r] \subseteq 1 .. Latest BY Zenon, <1>2, <1>4, <2>1
  <2>3. ASSUME WO # {}
        PROVE  /\ \A r \in RW : Latest \in chain'[r]
               /\ \A r \in Replicas \ WO, s \in Sectors \ woHead :
                     Latest \in chain'[r] => Match(snap[r][s], vol[s])
    <3>1. WO = {to} BY Zenon, <1>2, <2>3
    <3>2. /\ \A r \in RW : Latest \in chain[r]
          /\ \A r \in Replicas \ WO, s \in Sectors \ woHead :
                Latest \in chain[r] => Match(snap[r][s], vol[s])
      BY Zenon, <2>3 DEF Inv, SnapshotsOK
    <3>3. \A r \in RW : r \in Replicas /\ r # to BY Zenon, <1>2 DEF RW
    <3> QED BY Zenon, <1>4, <3>1, <3>2, <3>3
  <2> QED BY Zenon, <1>1, <2>2, <2>3 DEF SnapshotsOK
<1>8. WOHeadOK'
  <2>1. \A j \in Clients : ReachedHead(j, woHead)'
    BY Zenon, <1>1 DEF Inv, WOHeadOK, ReachedHead, Wrote, Missed
  <2>2. \A r \in WO, s \in woHead : Good(r, s)' BY Zenon, <1>2, <1>6 DEF Inv, TypeOK
  <2> QED BY Zenon, <1>1, <2>1, <2>2 DEF WOHeadOK
<1>9. TaskOK' BY Zenon, <1>1, <1>2, <1>3, <1>6 DEF TaskOK
<1>10. Exclusive' BY ZenonT(30), <1>1 DEF Inv, Exclusive, Changing, InFlight, Unmapping
<1>11. \A j \in Clients : RequestOK(j)' BY Zenon, <1>1, RequestKept DEF Inv
<1>12. OneWO' BY Zenon, <1>1 DEF Inv, OneWO
<1>13. \A r \in RW, s \in Sectors : Good(r, s)'
  BY Zenon, <1>2, <1>5 DEF Inv, RW
<1> QED
  BY Zenon, <1>1, <1>7, <1>8, <1>9, <1>10, <1>11, <1>12, <1>13 DEF Inv

\* VerifyRebuildReplica: the replica it makes RW has every sector.
LEMMA VerifyRebuildReplicaInv ==
    ASSUME Inv, TypeOK', VerifyRebuildReplica
    PROVE  Inv'
<1>0. PICK to \in Replicas : to = task.to
  BY Zenon DEF VerifyRebuildReplica, Inv, TypeOK
<1>1. /\ UNCHANGED <<data, snap, chain, nextSnap, woHead, op, vol>>
      /\ task.stage = "synced" /\ to \in WO /\ NoReaders /\ Latest' = Latest
  BY Zenon, <1>0 DEF VerifyRebuildReplica, WO, MayTakeLock, Latest
<1>2. RW' = RW \cup {to} /\ WO' = {}
  <2>1. mode' = [mode EXCEPT ![to] = "RW"] BY Zenon, <1>0 DEF VerifyRebuildReplica
  <2>2. WO = {to} BY Zenon, <1>1 DEF Inv, OneWO
  <2> QED BY Zenon, <2>1, <2>2 DEF RW, WO, Inv, TypeOK
<1>3. \A r, s : Good(r, s) => Good(r, s)' BY Zenon, <1>1, GoodSame
<1>4. \A s \in Sectors : Good(to, s) BY Zenon, <1>0, <1>1 DEF Inv, TaskOK
<1>5. \A r \in RW', s \in Sectors : Good(r, s)' BY ZenonT(30), <1>2, <1>3, <1>4 DEF Inv
<1>6. SnapshotsOK' BY Zenon, <1>1, <1>2 DEF Inv, SnapshotsOK
<1>7. WOHeadOK'
  <2>1. \A j \in Clients : ReachedHead(j, woHead)' BY Zenon, <1>2 DEF ReachedHead
  <2> QED BY Zenon, <1>2, <2>1 DEF WOHeadOK
<1>8. TaskOK' BY Zenon, NoTask DEF VerifyRebuildReplica
<1>9. Exclusive' BY ZenonT(30), <1>1 DEF Inv, Exclusive, Changing, InFlight, Unmapping
<1>10. \A j \in Clients : RequestOK(j)' BY Zenon, <1>1, RequestKept DEF Inv, NoReaders
<1>11. OneWO' BY Zenon, <1>2 DEF OneWO
<1> QED BY Zenon, <1>5, <1>6, <1>7, <1>8, <1>9, <1>10, <1>11 DEF Inv

-----------------------------------------------------------------------------
\* A volume that has just been started satisfies the invariant.
LEMMA InitInv == Init => Inv
<1> SUFFICES ASSUME Init PROVE Inv BY Zenon
<1>1. TypeOK BY Zenon, InitType
<1>2. \A k \in Clients : /\ op[k].pc = "idle" /\ op[k].kind = "none"
                         /\ op[k].wrapped = FALSE
  BY Zenon DEF Init, Idle
<1>3. WO = {} BY Zenon DEF Init, WO
<1>4. \A r \in Replicas, s \in Sectors : Good(r, s)
  BY Zenon, <1>2 DEF Init, Good, Match, InFlight
<1>5. Exclusive BY Zenon, <1>2 DEF Exclusive, Changing, InFlight, Unmapping
<1>6. \A k \in Clients : RequestOK(k) BY Zenon, <1>2 DEF RequestOK
<1>7. SnapshotsOK BY Zenon, <1>3 DEF Init, SnapshotsOK
<1>8. WOHeadOK BY Zenon, <1>2, <1>3 DEF WOHeadOK, ReachedHead
<1>9. TaskOK BY Zenon, TaskIdleType DEF Init, TaskOK
<1>10. OneWO BY Zenon, <1>3 DEF OneWO
<1> QED BY Zenon, <1>1, <1>4, <1>5, <1>6, <1>7, <1>8, <1>9, <1>10 DEF Inv, RW

\* Every step keeps the invariant.
LEMMA StepInv ==
    ASSUME SectorExclusive, "snapshot" \notin Overtakers, "add" \notin Overtakers,
           Inv, [Next]_vars
    PROVE  Inv'
<1>1. TypeOK' BY Zenon, StepType DEF Inv
<1>2. CASE \E k \in Clients : Request(k)
  BY Zenon, <1>1, <1>2, NoBackendInv, StartWriteInv, StartReadInv, StartUnmapInv,
     ReadAtInv, ReplicaWriteInv, ReplicaUnmapInv, FinishIOInv, CallLockInv, HandleErrorInv
  DEF Request
<1>3. CASE Rebuild
  BY Zenon, <1>1, <1>3, GetTransferClientsInv, PrepareRebuildReplicaInv, SyncFilesInv,
     VerifyRebuildReplicaInv, TaskFailsInv
  DEF Rebuild
<1>4. CASE \E r \in Replicas : \/ AddReplica(r) \/ RemoveReplica(r)
                               \/ PingFails(r)  \/ Monitoring(r)
  BY Zenon, <1>1, <1>4, AddReplicaInv, RemoveReplicaInv, PingFailsInv, MonitoringInv
<1>5. CASE Snapshot BY Zenon, <1>1, <1>5, SnapshotInv
<1>6. CASE UNCHANGED vars BY Zenon, <1>1, <1>6, StutterInv
<1> QED BY Zenon, <1>2, <1>3, <1>4, <1>5, <1>6 DEF Next

\* The inductive invariant holds in every reachable state: whatever WriteAt,
\* UnmapAt, Snapshot and the steps of sync.AddReplica do, every RW replica is
\* complete and the WO replica will be when its rebuild has finished.
THEOREM InvariantHolds ==
    ASSUME SectorExclusive, "snapshot" \notin Overtakers, "add" \notin Overtakers
    PROVE  Spec => []Inv
BY InitInv, StepInv, PTL DEF Spec

\* Every RW replica holds every acknowledged write (WriteAt, handleErrorNoLock
\* and VerifyRebuildReplica), whatever the number of replicas, clients, sectors
\* and snapshots, and whatever fails.
THEOREM WritesSafe ==
    ASSUME SectorExclusive, "snapshot" \notin Overtakers, "add" \notin Overtakers
    PROVE  Spec => []AcknowledgedWritesSafe
<1>1. Inv => AcknowledgedWritesSafe BY Zenon DEF Inv, AcknowledgedWritesSafe, Good
<1> QED BY <1>1, InvariantHolds, PTL
=============================================================================
