----------------------- MODULE ControllerDeviceProofs -----------------------
(***************************************************************************)
(* What the requests of the frontend return, and that the controller with  *)
(* its replicas implements BlockDevice, for every set of replicas,         *)
(* sectors, units, values and clients.                                     *)
(***************************************************************************)
EXTENDS ControllerProofs

-----------------------------------------------------------------------------
\* Requests that return

\* The steps that take no part in a request leave the requests alone.
LEMMA OtherStepsKeepRequests ==
    ASSUME Snapshot \/ Rebuild \/ \E r \in Replicas : \/ AddReplica(r) \/ RemoveReplica(r)
                                                      \/ PingFails(r)  \/ Monitoring(r)
    PROVE  op' = op /\ vol' = vol
BY Zenon DEF Snapshot, Rebuild, AddReplica, RemoveReplica, PingFails, Monitoring, GetTransferClients,
   PrepareRebuildReplica, SyncFiles, VerifyRebuildReplica, TaskFails

\* A step of one request leaves the others alone.
LEMMA RequestStepsKeepOthers ==
    ASSUME TypeOK, NEW k \in Clients, Request(k)
    PROVE  OnlyBy(k)
<1>1. \E o : op' = [op EXCEPT ![k] = o]
  <2>1. CASE NoBackend(k) BY Zenon, <2>1 DEF NoBackend
  <2>2. CASE \E s \in Sectors : \/ \E shape \in Shapes, v \in Values : StartWrite(k, s, shape, v)
                                \/ StartRead(k, s) \/ StartUnmap(k, s)
    BY Zenon, <2>2 DEF StartWrite, StartRead, StartUnmap
  <2>3. CASE ReadAt(k) BY Zenon, <2>3 DEF ReadAt
  <2>4. CASE \E r \in Replicas : ReplicaWrite(k, r) \/ ReplicaUnmap(k, r)
    BY Zenon, <2>4 DEF ReplicaWrite, ReplicaUnmap
  <2>5. CASE FinishIO(k) BY Zenon, <2>5 DEF FinishIO
  <2>6. CASE CallLock(k) \/ HandleError(k) BY Zenon, <2>6 DEF CallLock, HandleError
  <2> QED BY Zenon, <2>1, <2>2, <2>3, <2>4, <2>5, <2>6 DEF Request
<1> QED BY Zenon, <1>1 DEF OnlyBy, TypeOK

\* What a replica's answer changes of a request.
LEMMA ReplicaAnswers ==
    ASSUME TypeOK, NEW k \in Clients, NEW r \in Replicas, ReplicaWrite(k, r) \/ ReplicaUnmap(k, r)
    PROVE  /\ op'[k].pc = "io" /\ op[k].pc = "io"
           /\ op'[k].kind = op[k].kind /\ op[k].kind \in {"write", "unmap"}
           /\ op'[k].s = op[k].s /\ op'[k].shape = op[k].shape /\ op'[k].buf = op[k].buf
           /\ op'[k].got = op[k].got /\ op'[k].wrapped = op[k].wrapped /\ op'[k].res = op[k].res
           /\ UNCHANGED <<mode, vol>>
<1>1. op[k] \in Requests /\ op \in [Clients -> Requests] BY Zenon DEF TypeOK
<1>2. /\ op[k].pc = "io" /\ op[k].kind \in {"write", "unmap"} /\ UNCHANGED <<mode, vol>>
      /\ op' \in {[op EXCEPT ![k].todo = @ \ {r}],
                  [op EXCEPT ![k].todo = @ \ {r}, ![k].failed = @ \cup {r}]}
  BY Zenon DEF ReplicaWrite, ReplicaUnmap
<1>3. op'[k] \in {[op[k] EXCEPT !.todo = @ \ {r}],
                  [op[k] EXCEPT !.todo = @ \ {r}, !.failed = @ \cup {r}]}
  BY Zenon, <1>1, <1>2
<1> QED BY Zenon, <1>1, <1>2, <1>3 DEF Requests

\* A request whose replicas have answered returns, or has an error to handle.
LEMMA Answered ==
    ASSUME TypeOK, NEW k \in Clients, FinishIO(k)
    PROVE  /\ op[k].pc = "io" /\ UNCHANGED <<mode, data>>
           /\ \/ op[k].failed = {} /\ op'[k] = Idle("ok") /\ Acknowledge(op[k], "ok")
              \/ /\ op[k].failed # {} /\ vol' = vol
                 /\ op'[k].pc = "handle" /\ op'[k].blamed \in Blamed(op[k])
                 /\ op'[k].kind = op[k].kind /\ op'[k].failed = op[k].failed
                 /\ op'[k].s = op[k].s /\ op'[k].shape = op[k].shape /\ op'[k].buf = op[k].buf
                 /\ op'[k].got = op[k].got /\ op'[k].wrapped = op[k].wrapped /\ op'[k].res = op[k].res
<1>1. op[k] \in Requests /\ op \in [Clients -> Requests] BY Zenon DEF TypeOK
<1>2. CASE op[k].failed = {} BY Zenon, <1>1, <1>2 DEF FinishIO
<1>3. CASE op[k].failed # {}
  <2>1. PICK bad \in Blamed(op[k]) : op' = [op EXCEPT ![k].pc = "handle", ![k].blamed = bad]
    BY Zenon, <1>3 DEF FinishIO
  <2>2. op'[k] = [op[k] EXCEPT !.pc = "handle", !.blamed = bad] BY Zenon, <1>1, <2>1
  <2>3. /\ op'[k].pc = "handle" /\ op'[k].blamed = bad
        /\ op'[k].kind = op[k].kind /\ op'[k].failed = op[k].failed
        /\ op'[k].s = op[k].s /\ op'[k].shape = op[k].shape /\ op'[k].buf = op[k].buf
        /\ op'[k].got = op[k].got /\ op'[k].wrapped = op[k].wrapped /\ op'[k].res = op[k].res
    BY Zenon, <1>1, <2>2 DEF Requests
  <2> QED BY Zenon, <1>3, <2>3 DEF FinishIO
<1> QED BY Zenon, <1>2, <1>3

\* A request returns when every replica has answered without an error, or from
\* handleError.
LEMMA Returning ==
    ASSUME TypeOK, [Next]_vars, NEW k \in Clients, op[k].pc # "idle", op'[k].pc = "idle"
    PROVE  \/ FinishIO(k) /\ op[k].failed = {} /\ op'[k] = Idle("ok")
           \/ HandleError(k)
<1>1. op'[k] # op[k] BY Zenon
<1>2. Request(k)
  BY Zenon, <1>1, OtherStepsKeepRequests, RequestStepsKeepOthers DEF Next, vars, OnlyBy
<1>3. op[k] \in Requests BY Zenon DEF TypeOK
<1>4. ~NoBackend(k) BY Zenon DEF NoBackend
<1>5. ~\E s \in Sectors : \/ \E shape \in Shapes, v \in Values : StartWrite(k, s, shape, v)
                          \/ StartRead(k, s) \/ StartUnmap(k, s)
  BY Zenon DEF StartWrite, StartRead, StartUnmap
<1>6. ~ReadAt(k)
  <2> SUFFICES ASSUME ReadAt(k) PROVE FALSE BY Zenon
  <2>1. PICK bad, c : op' = [op EXCEPT ![k] = AfterRead(@, bad, c)] BY Zenon DEF ReadAt
  <2>2. op'[k] = AfterRead(op[k], bad, c) BY Zenon, <2>1 DEF TypeOK
  <2>3. AfterRead(op[k], bad, c).pc \in {"io", "handle"} BY Zenon, <1>3 DEF AfterRead, Requests
  <2> QED BY Zenon, <2>2, <2>3
<1>7. ~\E r \in Replicas : ReplicaWrite(k, r) \/ ReplicaUnmap(k, r)
  BY Zenon, ReplicaAnswers
<1>8. ~CallLock(k) BY <1>3 DEF CallLock, TypeOK, Requests
<1>9. FinishIO(k) => op[k].failed = {} /\ op'[k] = Idle("ok")
  BY Zenon, Answered
<1> QED BY Zenon, <1>2, <1>4, <1>5, <1>6, <1>7, <1>8, <1>9 DEF Request

-----------------------------------------------------------------------------
\* The error of a request

\* With writes of whole sectors writeInWOMode reads nothing and wraps no error.
Unwrapped == \A k \in Clients : /\ ~op[k].wrapped
                                /\ op[k].pc = "read" => op[k].kind = "read"

\* WriteAt of whole sectors wraps no error.
LEMMA StepUnwrapped ==
    ASSUME Shapes \subseteq {Units}, TypeOK, Unwrapped, [Next]_vars
    PROVE  Unwrapped'
<1>1. CASE op' = op BY Zenon, <1>1 DEF Unwrapped
<1>2. ASSUME NEW k \in Clients, Request(k) PROVE Unwrapped'
  <2> SUFFICES ~op'[k].wrapped /\ (op'[k].pc = "read" => op'[k].kind = "read")
    BY Zenon, <1>2, RequestStepsKeepOthers DEF Unwrapped, OnlyBy
  <2>r. op[k] \in Requests /\ op \in [Clients -> Requests] BY Zenon DEF TypeOK
  <2>u. op[k].wrapped = FALSE /\ (op[k].pc = "read" => op[k].kind = "read") BY Zenon, <2>r DEF Unwrapped, Requests
  <2>i. \A res : Idle(res).wrapped = FALSE /\ Idle(res).pc = "idle" BY Zenon DEF Idle
  <2>1. CASE NoBackend(k) BY Zenon, <2>1, <2>r, <2>i DEF NoBackend
  <2>2. ASSUME NEW s \in Sectors, NEW shape \in Shapes, NEW v \in Values, StartWrite(k, s, shape, v)
        PROVE  op'[k].wrapped = FALSE /\ op'[k].pc = "io"
    <3>1. shape = Units BY Zenon
    <3> QED BY Zenon, <2>2, <3>1, <2>r DEF StartWrite, Idle
  <2>3. ASSUME NEW s \in Sectors, StartRead(k, s)
        PROVE  op'[k].wrapped = FALSE /\ op'[k].kind = "read"
    BY Zenon, <2>3, <2>r DEF StartRead, Idle
  <2>4. ASSUME NEW s \in Sectors, StartUnmap(k, s)
        PROVE  op'[k].wrapped = FALSE /\ op'[k].pc \in {"idle", "io"}
    <3> DEFINE o == [Idle("none") EXCEPT !.pc = "io", !.kind = "unmap", !.s = s,
                          !.shape = Units, !.todo = Active]
    <3>1. op'[k] \in {Idle("ok"), o} BY Zenon, <2>4, <2>r DEF StartUnmap
    <3>2. o.wrapped = FALSE /\ o.pc = "io" BY Zenon DEF Idle
    <3> QED BY Zenon, <3>1, <3>2, <2>i
  <2>5. CASE ReadAt(k)
    <3>1. PICK bad, c : op' = [op EXCEPT ![k] = AfterRead(@, bad, c)] BY Zenon, <2>5 DEF ReadAt
    <3>2. op'[k] = AfterRead(op[k], bad, c) BY Zenon, <3>1, <2>r
    <3>3. op[k].kind = "read" BY Zenon, <2>5, <2>u DEF ReadAt
    <3> QED BY Zenon, <3>2, <3>3, <2>r, <2>u DEF AfterRead, Requests
  <2>6. ASSUME NEW r \in Replicas, ReplicaWrite(k, r) \/ ReplicaUnmap(k, r)
        PROVE  op'[k].wrapped = FALSE /\ op'[k].pc = "io"
    BY Zenon, <2>6, <2>u, ReplicaAnswers
  <2>7. CASE FinishIO(k) BY <2>7, <2>u, <2>i, Answered
  <2>8. CASE CallLock(k) BY Zenon, <2>8, <2>r, <2>u DEF CallLock, Requests
  <2>9. CASE HandleError(k)
    <3>1. \E res : op'[k] = Idle(res) BY Zenon, <2>9, <2>r DEF HandleError
    <3> QED BY Zenon, <3>1, <2>i
  <2> QED BY Zenon, <1>2, <2>1, <2>2, <2>3, <2>4, <2>5, <2>6, <2>7, <2>8, <2>9 DEF Request
<1> QED BY Zenon, <1>1, <1>2, OtherStepsKeepRequests DEF Next, vars

\* handleErrorNoLock: "if we still have a good replica, do not return error", when the
\* frontend writes whole sectors only.  (What else may return an error is that of the
\* read in writeInWOMode.)
THEOREM ErrorsOnlyWithoutReplica ==
    ASSUME Shapes \subseteq {Units}
    PROVE  Spec => NoErrorWithGoodReplica
<1>1. Init => TypeOK /\ Unwrapped
  BY InitType DEF Init, Unwrapped, Idle
<1>2. TypeOK /\ Unwrapped /\ [Next]_vars => (TypeOK /\ Unwrapped)'
  BY Zenon, StepType, StepUnwrapped
<1>3. ASSUME TypeOK, Unwrapped, [Next]_vars, NEW k \in Clients,
             op[k].pc # "idle", op'[k].pc = "idle", op'[k].res = "err"
      PROVE  \A r \in Replicas : mode'[r] # "RW"
  <2>1. Idle("ok").res = "ok" BY Zenon DEF Idle
  <2>2. HandleError(k) BY Zenon, <1>3, <2>1, Returning
  <2>3. op'[k] = Idle(IF \E r \in Replicas : mode'[r] = "RW" THEN "ok" ELSE "err")
    BY Zenon, <2>2, <1>3 DEF HandleError, Unwrapped, TypeOK
  <2> QED BY Zenon, <1>3, <2>1, <2>3
<1>4. TypeOK /\ Unwrapped /\ [Next]_vars =>
        [\A k \in Clients :
          op[k].pc # "idle" /\ op'[k].pc = "idle" /\ op'[k].res = "err" =>
              \A r \in Replicas : mode'[r] # "RW"]_vars
  BY Zenon, <1>3
<1> QED BY <1>1, <1>2, <1>4, PTL DEF Spec, NoErrorWithGoodReplica

-----------------------------------------------------------------------------
\* The requests as the client sees them

ClientInv(k) == ClientOK(k) /\ ReadOK(k) /\ \A r \in RW : HalfWritten(k, r)

\* A client whose request has returned.
LEMMA IdleClient ==
    ASSUME NEW k \in Clients, NEW res, op'[k] = Idle(res)
    PROVE  ClientInv(k)'
<1>1. Idle(res).pc = "idle" /\ Idle(res).kind = "none" /\ Idle(res).res = res BY Zenon DEF Idle
<1> QED BY Zenon, <1>1 DEF ClientInv, ClientOK, ReadOK, HalfWritten

\* A request in flight keeps its client's invariant when another request goes on.
LEMMA OtherClients ==
    ASSUME Inv, Inv', NEW k \in Clients, OnlyBy(k), RW' \subseteq RW,
           \A r \in RW', s \in Sectors :
               \/ data'[r][s] = data[r][s] /\ vol'[s] = vol[s]
               \/ Changing(k, s) \/ Changing(k, s)',
           NEW j \in Clients, j # k, ClientInv(j)
    PROVE  ClientInv(j)'
<1>1. op'[j] = op[j] BY Zenon DEF OnlyBy
<1>2. ClientOK(j)' /\ ReadOK(j)'
  <2>1. ClientOK(j)' BY Zenon, <1>1 DEF ClientInv, ClientOK
  <2>2. ReadOK(j)' BY Zenon, <1>1 DEF ClientInv, ReadOK
  <2> QED BY Zenon, <2>1, <2>2
<1>3. ASSUME NEW r \in RW' PROVE HalfWritten(j, r)'
  <2> SUFFICES ASSUME op[j].pc # "idle", op[j].kind = "write" PROVE HalfWritten(j, r)'
    BY Zenon, <1>1 DEF HalfWritten
  <2>1. PICK s \in Sectors : s = op[j].s BY Zenon DEF Inv, TypeOK, Requests
  <2>2. Changing(j, s) /\ Changing(j, s)' BY <1>1, <2>1 DEF Changing, InFlight
  <2>3. ~Changing(k, s) /\ ~Changing(k, s)' BY Zenon, <2>2 DEF Inv, Exclusive
  <2>4. data'[r][s] = data[r][s] /\ vol'[s] = vol[s] BY Zenon, <1>3, <2>3
  <2>5. HalfWritten(j, r) BY Zenon, <1>3 DEF ClientInv
  <2> QED BY Zenon, <1>1, <2>1, <2>4, <2>5 DEF HalfWritten
<1> QED BY Zenon, <1>2, <1>3 DEF ClientInv

\* Steps that take no part in a request, and give no RW replica other contents.
LEMMA QuietClients ==
    ASSUME DeviceInv, op' = op, vol' = vol, RW' \subseteq RW, \A r \in RW' : data'[r] = data[r]
    PROVE  DeviceInv'
<1> SUFFICES ASSUME NEW k \in Clients PROVE ClientOK(k)' /\ ReadOK(k)' /\ \A r \in RW' : HalfWritten(k, r)'
  BY Zenon DEF DeviceInv
<1>1. ClientOK(k)' BY Zenon DEF DeviceInv, ClientOK
<1>2. ReadOK(k)' BY Zenon DEF DeviceInv, ReadOK
<1>3. \A r \in RW' : HalfWritten(k, r)' BY DEF DeviceInv, HalfWritten
<1> QED BY Zenon, <1>1, <1>2, <1>3

\* WriteAt, ReadAt and UnmapAt being called.
LEMMA StartClient ==
    ASSUME SectorExclusive, Inv, Inv', NEW k \in Clients, NEW s \in Sectors, DeviceInv,
           \/ \E shape \in Shapes, v \in Values : StartWrite(k, s, shape, v)
           \/ StartRead(k, s) \/ StartUnmap(k, s)
    PROVE  ClientInv(k)'
<1>r. op \in [Clients -> Requests] BY Zenon DEF Inv, TypeOK
<1>1. ASSUME NEW shape \in Shapes, NEW v \in Values, StartWrite(k, s, shape, v)
      PROVE  ClientInv(k)'
  <2> DEFINE o == [Idle("none") EXCEPT
                    !.pc = IF WO # {} /\ shape # Units THEN "read" ELSE "io",
                    !.kind = "write", !.s = s, !.shape = shape,
                    !.buf = [u \in Units |-> v], !.todo = Active]
  <2>1. op'[k] = o /\ RW' = RW /\ UNCHANGED <<data, vol>> BY Zenon, <1>1, <1>r DEF StartWrite, RW
  <2>2. o.pc # "idle" /\ o.kind = "write" /\ o.s = s BY Zenon DEF Idle
  <2> HIDE DEF o
  <2>3. ~Busy(s) BY Zenon, <1>1 DEF StartWrite, FrontendMaySend, Busy
  <2>4. \A r \in RW : Match(data[r][s], vol[s]) BY Zenon, <2>3 DEF Inv, Good
  <2>5. \A r \in RW' : HalfWritten(k, r)' BY Zenon, <2>1, <2>2, <2>4 DEF HalfWritten, Match
  <2> QED BY Zenon, <2>1, <2>2, <2>5 DEF ClientInv, ClientOK, ReadOK
<1>2. CASE StartRead(k, s)
  <2> DEFINE o == [Idle("none") EXCEPT !.pc = "read", !.kind = "read", !.s = s]
  <2>1. op'[k] = o BY Zenon, <1>2, <1>r DEF StartRead
  <2>2. o.pc = "read" /\ o.kind = "read" BY Zenon DEF Idle
  <2> QED BY Zenon, <2>1, <2>2 DEF ClientInv, ClientOK, ReadOK, HalfWritten
<1>3. CASE StartUnmap(k, s)
  <2> DEFINE o == [Idle("none") EXCEPT !.pc = "io", !.kind = "unmap", !.s = s,
                          !.shape = Units, !.todo = Active]
  <2>1. op'[k] \in {Idle("ok"), o} BY Zenon, <1>3, <1>r DEF StartUnmap
  <2>2. o.pc = "io" /\ o.kind = "unmap" BY Zenon DEF Idle
  <2>3. CASE op'[k] = o BY Zenon, <2>2, <2>3 DEF ClientInv, ClientOK, ReadOK, HalfWritten
  <2> QED BY Zenon, <2>1, <2>3, IdleClient
<1> QED BY Zenon, <1>1, <1>2, <1>3

\* What ReadAt of the backend returns is in the buffer.
LEMMA ReadAtStep ==
    ASSUME TypeOK, NEW k \in Clients, ReadAt(k)
    PROVE  \E bad \in SUBSET RW, c \in Contents :
              /\ op[k].pc = "read" /\ op'[k] = AfterRead(op[k], bad, c)
              /\ IF bad = RW THEN c = op[k].buf ELSE \E r \in RW : c = data[r][op[k].s]
<1>1. PICK bad \in SUBSET RW :
         \E c \in IF bad = RW THEN {op[k].buf}
                              ELSE {data[r][op[k].s] : r \in RW \ bad} :
            op' = [op EXCEPT ![k] = AfterRead(@, bad, c)]
  BY Zenon DEF ReadAt
<1>2. op[k].buf \in Contents /\ op[k].s \in Sectors BY Zenon DEF TypeOK, Requests
<1>3. \A r \in RW : data[r][op[k].s] \in Contents BY Zenon, <1>2 DEF TypeOK, RW
<1>4. PICK c \in Contents :
         /\ op' = [op EXCEPT ![k] = AfterRead(@, bad, c)]
         /\ IF bad = RW THEN c = op[k].buf ELSE \E r \in RW : c = data[r][op[k].s]
  BY Zenon, <1>1, <1>2, <1>3
<1>5. op'[k] = AfterRead(op[k], bad, c) BY Zenon, <1>4 DEF TypeOK
<1> QED BY Zenon, <1>4, <1>5 DEF ReadAt

\* The parts of a request after backend.ReadAt that the client can tell.
LEMMA AfterReadParts ==
    ASSUME NEW o \in Requests, NEW bad, NEW c, NEW n, n = AfterRead(o, bad, c)
    PROVE  /\ n.pc \in {"io", "handle"} /\ n.kind = o.kind /\ n.s = o.s /\ n.shape = o.shape /\ n.res = o.res
           /\ o.kind = "read" => n.pc = "io" /\ n.got = (bad # RW) /\ n.buf = c /\ n.failed = bad
           /\ o.kind # "read" => n.buf \in {o.buf, Overlay(c, o.shape, o.buf)}
<1>1. CASE o.kind = "read"
  <2> DEFINE g == (bad # RW)
  <2>1. n = [o EXCEPT !.pc = "io", !.got = g, !.buf = c, !.failed = bad] BY Zenon, <1>1 DEF AfterRead
  <2> HIDE DEF g
  <2>2. /\ n.pc = "io" /\ n.kind = o.kind /\ n.s = o.s /\ n.shape = o.shape /\ n.res = o.res
        /\ n.got = g /\ n.buf = c /\ n.failed = bad
    BY Zenon, <2>1 DEF Requests
  <2> QED BY Zenon, <1>1, <2>2 DEF g
<1>2. CASE o.kind # "read" /\ bad = {}
  <2> DEFINE b == Overlay(c, o.shape, o.buf)
  <2>1. n = [o EXCEPT !.pc = "io", !.got = TRUE, !.buf = b] BY Zenon, <1>2 DEF AfterRead
  <2> HIDE DEF b
  <2> QED BY Zenon, <1>2, <2>1 DEF Requests, b
<1>3. CASE o.kind # "read" /\ bad # {}
  <2>1. n = [o EXCEPT !.pc = "handle", !.todo = {}, !.failed = bad, !.wrapped = TRUE]
    BY Zenon, <1>3 DEF AfterRead
  <2> QED BY Zenon, <1>3, <2>1 DEF Requests
<1> QED BY Zenon, <1>1, <1>2, <1>3

\* What a returning request tells the client concerns the sector it was writing.
LEMMA AcknowledgeWhere ==
    ASSUME TypeOK, NEW k \in Clients, NEW res, Acknowledge(op[k], res), op[k].pc # "idle",
           NEW s \in Sectors
    PROVE  vol'[s] = vol[s] \/ Changing(k, s)
<1>1. op[k].s \in Sectors BY Zenon DEF TypeOK, Requests
<1>2. op[k].kind = "write" /\ s = op[k].s => Changing(k, s) BY Zenon DEF Changing, InFlight
<1>3. op[k].kind = "write" /\ s # op[k].s => vol'[s] = vol[s] BY Zenon, <1>1 DEF Acknowledge, TypeOK
<1>4. op[k].kind # "write" => vol' = vol BY Zenon DEF Acknowledge
<1> QED BY Zenon, <1>2, <1>3, <1>4

\* A request changes nothing but the sector it writes or unmaps, and makes no replica RW.
LEMMA RequestWhere ==
    ASSUME TypeOK, NEW k \in Clients, Request(k)
    PROVE  /\ RW' \subseteq RW
           /\ \A r \in Replicas, s \in Sectors :
                 \/ data'[r][s] = data[r][s] /\ vol'[s] = vol[s]
                 \/ Changing(k, s) \/ Changing(k, s)'
<1> DEFINE Same == UNCHANGED <<mode, data, vol>>
           Here == \A r \in Replicas, s \in Sectors :
                      \/ data'[r][s] = data[r][s] /\ vol'[s] = vol[s]
                      \/ Changing(k, s) \/ Changing(k, s)'
<1>s. Same => RW' \subseteq RW /\ Here BY Zenon DEF RW
<1>r. op \in [Clients -> Requests] /\ op[k] \in Requests BY Zenon DEF TypeOK
<1>1. ASSUME NoBackend(k) \/ ReadAt(k) \/ CallLock(k) PROVE RW' \subseteq RW /\ Here
  BY Zenon, <1>1, <1>s DEF NoBackend, ReadAt, CallLock
<1>2. ASSUME NEW s \in Sectors, \/ \E shape \in Shapes, v \in Values : StartWrite(k, s, shape, v)
                                \/ StartRead(k, s)
      PROVE  Same
  BY Zenon, <1>2 DEF StartWrite, StartRead
<1>3. ASSUME NEW s0 \in Sectors, StartUnmap(k, s0) PROVE RW' \subseteq RW /\ Here
  <2>1. CASE vol' = vol BY Zenon, <1>3, <1>s, <2>1 DEF StartUnmap
  <2>2. CASE vol' # vol
    <3> DEFINE o == [Idle("none") EXCEPT !.pc = "io", !.kind = "unmap", !.s = s0,
                          !.shape = Units, !.todo = Active]
    <3>1. /\ op' = [op EXCEPT ![k] = o] /\ UNCHANGED <<mode, data>>
          /\ vol' = [vol EXCEPT ![s0] = [u \in Units |-> Unspecified]]
      BY Zenon, <1>3, <2>2 DEF StartUnmap
    <3>2. o.pc = "io" /\ o.kind = "unmap" /\ o.s = s0 BY Zenon DEF Idle
    <3> HIDE DEF o
    <3>3. op'[k] = o BY Zenon, <3>1, <1>r
    <3>4. Changing(k, s0)' BY Zenon, <3>2, <3>3 DEF Changing, Unmapping
    <3>5. \A s \in Sectors : s # s0 => vol'[s] = vol[s] BY Zenon, <3>1 DEF TypeOK
    <3>6. RW' = RW BY Zenon, <3>1 DEF RW
    <3> QED BY Zenon, <3>1, <3>4, <3>5, <3>6
  <2> QED BY Zenon, <2>1, <2>2
<1>4. ASSUME NEW r0 \in Replicas, ReplicaWrite(k, r0) \/ ReplicaUnmap(k, r0)
      PROVE  RW' \subseteq RW /\ Here
  <2>1. op[k].pc = "io" /\ op[k].kind \in {"write", "unmap"} /\ UNCHANGED <<mode, vol>>
    BY Zenon, <1>4, ReplicaAnswers
  <2>2. Changing(k, op[k].s) BY Zenon, <2>1 DEF Changing, InFlight, Unmapping
  <2>3. data' = data \/ \E c : data' = [data EXCEPT ![r0][op[k].s] = c]
    BY Zenon, <1>4 DEF ReplicaWrite, ReplicaUnmap
  <2>4. \A r \in Replicas, s \in Sectors : s # op[k].s => data'[r][s] = data[r][s]
    BY <2>3 DEF TypeOK
  <2>5. RW' = RW BY Zenon, <2>1 DEF RW
  <2> QED BY Zenon, <2>1, <2>2, <2>4, <2>5
<1>5. ASSUME FinishIO(k) PROVE RW' \subseteq RW /\ Here
  <2>1. RW' = RW /\ data' = data BY Zenon, <1>5 DEF FinishIO, RW
  <2>2. op[k].pc = "io" /\ (vol' = vol \/ Acknowledge(op[k], "ok")) BY Zenon, <1>5 DEF FinishIO
  <2> QED BY Zenon, <2>1, <2>2, AcknowledgeWhere
<1>6. ASSUME HandleError(k) PROVE RW' \subseteq RW /\ Here
  <2>1. RW' \subseteq RW /\ data' = data
    <3>1. mode' = mode \/ mode' = MarkERR(op[k].blamed) BY Zenon, <1>6 DEF HandleError
    <3>2. mode' = mode => RW' = RW BY Zenon DEF RW
    <3> QED BY Zenon, <1>6, <3>1, <3>2, MarkERRShrinks DEF HandleError
  <2>2. op[k].pc = "lock" /\ \E res : Acknowledge(op[k], res) BY Zenon, <1>6 DEF HandleError
  <2> QED BY Zenon, <2>1, <2>2, AcknowledgeWhere
<1> HIDE DEF Same, Here
<1>7. RW' \subseteq RW /\ Here
  BY Zenon, <1>s, <1>1, <1>2, <1>3, <1>4, <1>5, <1>6 DEF Request
<1> QED BY Zenon, <1>7 DEF Here

\* Every step of a request keeps what the clients know of their requests.
LEMMA RequestClients ==
    ASSUME SectorExclusive, Inv, Inv', DeviceInv, NEW k \in Clients, Request(k)
    PROVE  DeviceInv'
<1>t. TypeOK /\ TypeOK' BY Zenon DEF Inv
<1>r. op \in [Clients -> Requests] /\ op[k] \in Requests BY Zenon, <1>t DEF TypeOK
<1>w. RW' \subseteq RW BY Zenon, <1>t, RequestWhere
<1>c. ClientOK(k) /\ ReadOK(k) /\ \A r \in RW : HalfWritten(k, r) BY Zenon DEF DeviceInv
<1>q. RequestOK(k) BY Zenon DEF Inv
<1>1. ASSUME NoBackend(k) PROVE ClientInv(k)'
  <2>1. op'[k] = Idle("err") BY Zenon, <1>1, <1>r DEF NoBackend
  <2> QED BY Zenon, <2>1, IdleClient
<1>2. ASSUME NEW s \in Sectors, \/ \E shape \in Shapes, v \in Values : StartWrite(k, s, shape, v)
                                \/ StartRead(k, s) \/ StartUnmap(k, s)
      PROVE  ClientInv(k)'
  BY Zenon, <1>2, StartClient
<1>3. ASSUME ReadAt(k) PROVE ClientInv(k)'
  <2>1. PICK bad \in SUBSET RW, c \in Contents :
              /\ op[k].pc = "read" /\ op'[k] = AfterRead(op[k], bad, c)
              /\ IF bad = RW THEN c = op[k].buf ELSE \E r \in RW : c = data[r][op[k].s]
    BY Zenon, <1>3, <1>t, ReadAtStep
  <2>n. PICK n : n = AfterRead(op[k], bad, c) BY Zenon
  <2>2. /\ n.pc \in {"io", "handle"} /\ n.kind = op[k].kind /\ n.s = op[k].s /\ n.shape = op[k].shape
        /\ op[k].kind = "read" => n.pc = "io" /\ n.got = (bad # RW) /\ n.buf = c /\ n.failed = bad
        /\ op[k].kind # "read" => n.buf \in {op[k].buf, Overlay(c, op[k].shape, op[k].buf)}
    BY <1>r, <2>n, AfterReadParts
  <2>3. UNCHANGED <<mode, data, vol>> /\ RW' = RW /\ RW # {} /\ op'[k] = n
    BY Zenon, <1>3, <1>q, <2>1, <2>n DEF ReadAt, RW, RequestOK
  <2>4. ClientOK(k)' BY Zenon, <1>c, <2>1, <2>2, <2>3 DEF ClientOK
  <2>5. ReadOK(k)' BY Zenon, <2>2, <2>3 DEF ReadOK
  <2>6. ASSUME op[k].kind = "write", NEW r \in RW PROVE HalfWritten(k, r)'
    <3>1. HalfWritten(k, r) /\ op[k].pc # "idle" BY Zenon, <1>c, <2>1
    <3>2. \A u \in Units : u \in op[k].shape => n.buf[u] = op[k].buf[u]
      BY Zenon, <2>2, <2>6 DEF Overlay
    <3>3. op'[k].kind = "write" /\ op'[k].s = op[k].s /\ op'[k].shape = op[k].shape /\ op'[k].buf = n.buf
      BY Zenon, <2>2, <2>3, <2>6
    <3> QED BY Zenon, <2>3, <2>6, <3>1, <3>2, <3>3 DEF HalfWritten
  <2>7. \A r \in RW' : HalfWritten(k, r)' BY Zenon, <2>2, <2>3, <2>6 DEF HalfWritten
  <2> QED BY Zenon, <2>4, <2>5, <2>7 DEF ClientInv
<1>4. ASSUME NEW r0 \in Replicas, ReplicaWrite(k, r0) \/ ReplicaUnmap(k, r0) PROVE ClientInv(k)'
  <2>1. /\ op'[k].pc = "io" /\ op[k].pc = "io"
        /\ op'[k].kind = op[k].kind /\ op[k].kind \in {"write", "unmap"}
        /\ op'[k].s = op[k].s /\ op'[k].shape = op[k].shape /\ op'[k].buf = op[k].buf
        /\ UNCHANGED <<mode, vol>>
    BY Zenon, <1>4, <1>t, ReplicaAnswers
  <2>2. ClientOK(k)' /\ ReadOK(k)' BY Zenon, <2>1 DEF ClientOK, ReadOK
  <2>3. ASSUME op[k].kind = "write", NEW r \in RW PROVE HalfWritten(k, r)'
    <3> DEFINE s == op[k].s
               eff == IF op[k].got THEN Units ELSE op[k].shape
               new == Overlay(data[r0][s], eff, op[k].buf)
    <3>1. data' \in {data, [data EXCEPT ![r0][s] = new]}
      BY Zenon, <1>4, <2>3 DEF ReplicaWrite, ReplicaUnmap
    <3>2. s \in Sectors /\ r \in Replicas BY Zenon, <1>r DEF Requests, RW
    <3>3. data'[r][s] = data[r][s] \/ (r = r0 /\ data'[r][s] = new)
      BY <3>1, <3>2, <1>t DEF TypeOK
    <3>4. HalfWritten(k, r) BY Zenon, <1>c
    <3>5. op[k].got => Match(op[k].buf, Overlay(vol[s], op[k].shape, op[k].buf))
      BY Zenon, <1>q, <2>1, <2>3 DEF RequestOK, After
    <3>6. ASSUME NEW u \in Units
          PROVE  \/ vol[s][u] \in {Unspecified, data'[r][s][u]}
                 \/ u \in op[k].shape /\ data'[r][s][u] = op[k].buf[u]
      <4>1. \/ vol[s][u] \in {Unspecified, data[r][s][u]}
            \/ u \in op[k].shape /\ data[r][s][u] = op[k].buf[u]
        BY Zenon, <2>1, <2>3, <3>4 DEF HalfWritten
      <4>2. op[k].got /\ u \notin op[k].shape => vol[s][u] \in {Unspecified, op[k].buf[u]}
        BY Zenon, <3>5 DEF Match, Overlay
      <4>3. new[u] = IF u \in eff THEN op[k].buf[u] ELSE data[r0][s][u] BY Zenon DEF Overlay
      <4> HIDE DEF new
      <4> QED BY Zenon, <3>3, <4>1, <4>2, <4>3
    <3> HIDE DEF s
    <3> QED BY Zenon, <2>1, <2>3, <3>6 DEF HalfWritten, s
  <2>4. \A r \in RW' : HalfWritten(k, r)' BY Zenon, <1>w, <2>1, <2>3 DEF HalfWritten
  <2> QED BY Zenon, <2>2, <2>4 DEF ClientInv
<1>5. ASSUME FinishIO(k) PROVE ClientInv(k)'
  <2>1. CASE op'[k] = Idle("ok") BY Zenon, <2>1, IdleClient
  <2>2. CASE op'[k] # Idle("ok")
    <3>1. /\ op[k].pc = "io" /\ UNCHANGED <<mode, data, vol>>
          /\ op'[k].pc = "handle" /\ op'[k].blamed \in Blamed(op[k])
          /\ op'[k].kind = op[k].kind /\ op'[k].failed = op[k].failed
          /\ op'[k].s = op[k].s /\ op'[k].shape = op[k].shape /\ op'[k].buf = op[k].buf
          /\ op'[k].got = op[k].got
      BY Zenon, <1>5, <1>t, <2>2, Answered
    <3>2. ClientOK(k)' BY Zenon, <1>c, <3>1 DEF ClientOK
    <3>3. ReadOK(k)' BY Zenon, <1>c, <1>w, <3>1 DEF ReadOK, Blamed
    <3>4. \A r \in RW' : HalfWritten(k, r)' BY Zenon, <1>c, <1>w, <3>1 DEF HalfWritten
    <3> QED BY Zenon, <3>2, <3>3, <3>4 DEF ClientInv
  <2> QED BY Zenon, <2>1, <2>2
<1>6. ASSUME CallLock(k) PROVE ClientInv(k)'
  <2>1. /\ op[k].pc = "handle" /\ op'[k] = [op[k] EXCEPT !.pc = "lock"] /\ UNCHANGED <<mode, data, vol>>
    BY Zenon, <1>6, <1>r DEF CallLock
  <2>2. /\ op'[k].pc = "lock" /\ op'[k].kind = op[k].kind /\ op'[k].failed = op[k].failed
        /\ op'[k].s = op[k].s /\ op'[k].shape = op[k].shape /\ op'[k].buf = op[k].buf
        /\ op'[k].got = op[k].got /\ op'[k].blamed = op[k].blamed
    BY Zenon, <1>r, <2>1 DEF Requests
  <2>3. ClientOK(k)' BY Zenon, <1>c, <2>1, <2>2 DEF ClientOK
  <2>4. ReadOK(k)' BY Zenon, <1>c, <1>w, <2>1, <2>2 DEF ReadOK
  <2>5. \A r \in RW' : HalfWritten(k, r)' BY <1>c, <1>w, <2>1, <2>2 DEF HalfWritten
  <2> QED BY Zenon, <2>3, <2>4, <2>5 DEF ClientInv
<1>7. ASSUME HandleError(k) PROVE ClientInv(k)'
  <2>1. \E res : op'[k] = Idle(res) BY Zenon, <1>7, <1>r DEF HandleError
  <2> QED BY Zenon, <2>1, IdleClient
<1>8. ClientInv(k)'
  BY Zenon, <1>1, <1>2, <1>3, <1>4, <1>5, <1>6, <1>7 DEF Request
<1>9. ASSUME NEW j \in Clients, j # k PROVE ClientInv(j)'
  <2>1. ClientInv(j) BY Zenon DEF DeviceInv, ClientInv
  <2>2. OnlyBy(k) BY Zenon, <1>t, RequestStepsKeepOthers
  <2>3. \A r \in RW', s \in Sectors :
            \/ data'[r][s] = data[r][s] /\ vol'[s] = vol[s]
            \/ Changing(k, s) \/ Changing(k, s)'
    BY Zenon, <1>t, RequestWhere DEF RW
  <2> QED BY Zenon, <1>9, <1>w, <2>1, <2>2, <2>3, OtherClients
<1> QED BY Zenon, <1>8, <1>9 DEF DeviceInv, ClientInv

\* Every step keeps what the clients know of their requests, when nothing takes the lock
\* between a request's RUnlock and its handleError.
LEMMA StepDevice ==
    ASSUME SectorExclusive, Overtakers = {}, Inv, Inv', DeviceInv, [Next]_vars
    PROVE  DeviceInv'
<1>t. TypeOK BY Zenon DEF Inv
<1>m. \A bad : mode' = MarkERR(bad) => RW' \subseteq RW BY Zenon, <1>t, MarkERRShrinks
<1>1. CASE Snapshot
  <2>1. RW' \subseteq RW /\ data' = data BY Zenon, <1>1, <1>m DEF Snapshot
  <2> QED BY Zenon, <1>1, <2>1, QuietClients, OtherStepsKeepRequests
<1>2. ASSUME NEW r \in Replicas, AddReplica(r) \/ RemoveReplica(r) PROVE DeviceInv'
  <2>1. mode' \in {mode, [mode EXCEPT ![r] = "WO"], [mode EXCEPT ![r] = "none"]} /\ data' = data
    BY Zenon, <1>2 DEF AddReplica, RemoveReplica
  <2>2. RW' \subseteq RW BY Zenon, <1>t, <2>1 DEF RW, TypeOK
  <2> QED BY Zenon, <1>2, <2>1, <2>2, QuietClients, OtherStepsKeepRequests
<1>3. ASSUME NEW r \in Replicas, PingFails(r) \/ Monitoring(r) PROVE DeviceInv'
  <2>1. RW' \subseteq RW /\ data' = data BY Zenon, <1>3, <1>m DEF PingFails, Monitoring, RW
  <2> QED BY Zenon, <1>3, <2>1, QuietClients, OtherStepsKeepRequests
<1>4. CASE GetTransferClients \/ PrepareRebuildReplica \/ TaskFails
  <2>1. mode' = mode /\ data' = data
    BY Zenon, <1>4 DEF GetTransferClients, PrepareRebuildReplica, TaskFails
  <2>2. RW' = RW BY Zenon, <2>1 DEF RW
  <2> QED BY Zenon, <1>4, <2>1, <2>2, QuietClients, OtherStepsKeepRequests DEF Rebuild
<1>5. CASE SyncFiles
  <2>1. RW' = RW BY Zenon, <1>5 DEF SyncFiles, RW
  <2>2. task.to \notin RW BY Zenon, <1>5 DEF SyncFiles, Inv, TaskOK
  <2>3. \A r \in RW : data'[r] = data[r] BY Zenon, <1>5, <1>t, <2>2 DEF SyncFiles, RW, TypeOK
  <2> QED BY Zenon, <1>5, <2>1, <2>3, QuietClients, OtherStepsKeepRequests DEF Rebuild
<1>6. CASE VerifyRebuildReplica
  <2>1. \A k \in Clients : op[k].pc \notin {"read", "io", "handle", "lock"}
    BY Zenon, <1>6 DEF VerifyRebuildReplica, MayTakeLock, NoReaders
  <2>2. \A k \in Clients : op[k].pc = "idle" BY Zenon, <1>t, <2>1 DEF TypeOK, Requests
  <2>3. op' = op BY Zenon, <1>6 DEF VerifyRebuildReplica
  <2>4. \A k \in Clients : ClientOK(k)' BY Zenon, <2>3 DEF DeviceInv, ClientOK
  <2>5. \A k \in Clients : ReadOK(k)' /\ \A r \in RW' : HalfWritten(k, r)'
    BY Zenon, <2>2, <2>3 DEF ReadOK, HalfWritten
  <2> QED BY Zenon, <2>4, <2>5 DEF DeviceInv
<1>7. CASE UNCHANGED vars
  <2>1. op' = op /\ vol' = vol /\ data' = data /\ mode' = mode BY Zenon, <1>7 DEF vars
  <2>2. RW' = RW BY Zenon, <2>1 DEF RW
  <2> QED BY Zenon, <2>1, <2>2, QuietClients
<1> QED BY Zenon, <1>1, <1>2, <1>3, <1>4, <1>5, <1>6, <1>7, RequestClients DEF Next, Rebuild

\* What the clients know of their requests holds from the start of the volume on.
LEMMA DeviceInvariant ==
    ASSUME SectorExclusive, Overtakers = {}
    PROVE  Spec => [](Inv /\ DeviceInv)
<1>1. Init => Inv /\ DeviceInv
  <2>1. \A k \in Clients : Init => /\ op[k] = Idle("none") /\ op[k].pc = "idle" /\ op[k].kind = "none"
                                   /\ op[k].res = "none"
    BY DEF Init, Idle
  <2> QED BY Zenon, <2>1, InitInv DEF DeviceInv, ClientOK, ReadOK, HalfWritten
<1>2. Inv /\ DeviceInv /\ [Next]_vars => (Inv /\ DeviceInv)'
  BY Zenon, StepInv, StepDevice
<1> QED BY <1>1, <1>2, PTL DEF Spec

\* handleErrorNoLock drops the errors of a read only when a replica served it.
LEMMA ReturnedRead ==
    ASSUME Inv, DeviceInv, [Next]_vars, NEW k \in Clients, op[k].kind = "read",
           op'[k].pc = "idle", op'[k].res = "ok"
    PROVE  op[k].got
<1>t. TypeOK BY Zenon DEF Inv
<1>c. ClientOK(k) /\ ReadOK(k) /\ RequestOK(k) BY Zenon DEF DeviceInv, Inv
<1>1. op[k].pc # "idle"
  <2>1. \A res : Idle(res).kind = "none" BY Zenon DEF Idle
  <2> QED BY Zenon, <1>c, <2>1 DEF ClientOK
<1>2. CASE FinishIO(k) /\ op[k].failed = {} BY Zenon, <1>2, <1>c DEF FinishIO, ReadOK
<1>3. CASE HandleError(k)
  <2> SUFFICES ASSUME ~op[k].got PROVE FALSE BY Zenon
  <2>1. op[k].pc = "lock" /\ RW \subseteq op[k].blamed BY Zenon, <1>c, <1>3 DEF HandleError, ReadOK
  <2>2. ~op[k].wrapped BY Zenon, <1>c DEF RequestOK
  <2>3. mode' = MarkERR(op[k].blamed) BY Zenon, <1>3, <2>2 DEF HandleError
  <2>4. \A r \in Replicas : mode'[r] # "RW" BY Zenon, <2>1, <2>3, <1>t DEF MarkERR, RW, TypeOK
  <2>5. op'[k] = Idle("err") BY Zenon, <1>3, <2>4, <1>t DEF HandleError, TypeOK
  <2> QED BY <2>5 DEF Idle
<1> QED BY Zenon, <1>t, <1>1, <1>2, <1>3, Returning

\* A read that returns without an error was served by a replica, although handleErrorNoLock
\* drops the errors of a read when it finds an RW replica, when VerifyRebuildReplica does
\* not come between the read and its handleError.
THEOREM ReadsAreServed ==
    ASSUME SectorExclusive, Overtakers = {}
    PROVE  Spec => SuccessfulReadsServed
<1>1. Inv /\ DeviceInv /\ [Next]_vars =>
        [\A k \in Clients :
          op[k].kind = "read" /\ op'[k].pc = "idle" /\ op'[k].res = "ok" => op[k].got]_vars
  BY Zenon, ReturnedRead
<1> QED BY <1>1, DeviceInvariant, PTL DEF Spec, SuccessfulReadsServed

-----------------------------------------------------------------------------
\* The refinement of BlockDevice

DeviceRequests == [k \in Clients |-> DeviceRequest(op[k])]

\* The parts of a request of the device.
LEMMA DeviceRequestParts ==
    ASSUME NEW o, NEW d, d = DeviceRequest(o)
    PROVE  /\ d.kind = o.kind /\ d.s = o.s /\ d.shape = o.shape /\ d.res = o.res
           /\ d.served = (o.kind = "read" /\ o.got)
           /\ d.val = IF o.kind = "read" THEN o.buf ELSE Overlay(Blank, o.shape, o.buf)
BY Zenon DEF DeviceRequest

\* A client without a request is a free client of the device.
LEMMA FreeIdle ==
    ASSUME NEW res
    PROVE  DeviceRequest(Idle(res)) = Device!Free(res)
<1>1. /\ Idle(res).kind = "none" /\ Idle(res).s = AnySector /\ Idle(res).shape = {} /\ Idle(res).buf = Blank
      /\ Idle(res).got = FALSE /\ Idle(res).res = res
  BY Zenon DEF Idle
<1>2. Overlay(Blank, {}, Blank) = Blank BY Zenon DEF Overlay, Blank
<1>3. DeviceRequest(Idle(res)) = [kind |-> "none", s |-> AnySector, shape |-> {}, val |-> Blank,
                                  served |-> FALSE, res |-> res]
  BY Zenon, <1>1, <1>2 DEF DeviceRequest
<1> QED BY Zenon, <1>3 DEF Device!Free, AnySector, Blank

\* A step of one client changes that client's request of the device.
LEMMA DeviceRequestsStep ==
    ASSUME TypeOK, TypeOK', NEW k \in Clients, OnlyBy(k)
    PROVE  /\ DeviceRequests' = [DeviceRequests EXCEPT ![k] = DeviceRequest(op'[k])]
           /\ DeviceRequests[k] = DeviceRequest(op[k])
BY Zenon DEF DeviceRequests, OnlyBy, TypeOK

\* A step that the client cannot tell.
LEMMA Unnoticed ==
    ASSUME TypeOK, TypeOK', NEW k \in Clients, OnlyBy(k), vol' = vol,
           op'[k].kind = op[k].kind, op'[k].s = op[k].s, op'[k].shape = op[k].shape,
           op'[k].buf = op[k].buf, op'[k].got = op[k].got, op'[k].res = op[k].res
    PROVE  UNCHANGED <<vol, DeviceRequests>>
<1>1. DeviceRequest(op'[k]) = DeviceRequest(op[k]) BY Zenon DEF DeviceRequest
<1> QED BY Zenon, <1>1, DeviceRequestsStep DEF DeviceRequests

\* A request that is sent.
LEMMA Issued ==
    ASSUME TypeOK, TypeOK', NEW k \in Clients, OnlyBy(k), ClientOK(k), op[k].pc = "idle",
           NEW kind \in {"read", "write", "unmap"}, NEW s \in Sectors, NEW shape \in SUBSET Units,
           NEW b \in Contents, NEW o, op'[k] = o, o.kind = kind, o.s = s, o.shape = shape,
           o.buf = b, o.got = FALSE, o.res = "none",
           vol' = IF kind = "unmap" THEN [vol EXCEPT ![s] = [u \in Units |-> Unspecified]] ELSE vol
    PROVE  Device!Next
<1> DEFINE val == IF kind = "read" THEN b ELSE Overlay(Blank, shape, b)
<1>1. val \in [Units -> Values] BY Zenon, BlankType, OverlayType DEF Contents
<1>2. DeviceRequest(o) = [Device!Free("none") EXCEPT !.kind = kind, !.s = s, !.shape = shape, !.val = val]
  <2> DEFINE d == [kind |-> kind, s |-> s, shape |-> shape, val |-> val, served |-> FALSE, res |-> "none"]
  <2> HIDE DEF val
  <2>1. [Device!Free("none") EXCEPT !.kind = kind, !.s = s, !.shape = shape, !.val = val] = d
    <3>1. Device!Free("none") = [kind |-> "none", s |-> AnySector, shape |-> {}, val |-> Blank,
                                 served |-> FALSE, res |-> "none"]
      BY Zenon DEF Device!Free, AnySector, Blank
    <3>2. PICK e : e = Device!Free("none") BY Zenon
    <3>3. e = [kind |-> "none", s |-> AnySector, shape |-> {}, val |-> Blank, served |-> FALSE, res |-> "none"]
      BY Zenon, <3>1, <3>2
    <3>4. PICK f : f = [e EXCEPT !.kind = kind, !.s = s, !.shape = shape, !.val = val] BY Zenon
    <3>5. DOMAIN e = {"kind", "s", "shape", "val", "served", "res"} /\ e.served = FALSE /\ e.res = "none"
      BY Zenon, <3>3
    <3>6. f = [x \in {"kind", "s", "shape", "val", "served", "res"} |-> f[x]] BY Zenon, <3>4, <3>5
    <3>7. f.kind = kind /\ f.s = s /\ f.shape = shape /\ f.val = val /\ f.served = FALSE /\ f.res = "none"
      BY Zenon, <3>4, <3>5
    <3>8. f = d BY Zenon, <3>6, <3>7
    <3> QED BY Zenon, <3>2, <3>4, <3>8
  <2>2. (IF o.kind = "read" THEN o.buf ELSE Overlay(Blank, o.shape, o.buf)) = val BY Zenon DEF val
  <2>3. (o.kind = "read" /\ o.got) = FALSE BY Zenon
  <2>4. DeviceRequest(o) = d BY Zenon, <2>2, <2>3 DEF DeviceRequest
  <2> QED BY Zenon, <2>1, <2>4
<1> HIDE DEF val
<1>3. DeviceRequests[k].kind = "none"
  <2>1. DeviceRequests[k] = DeviceRequest(op[k]) BY Zenon, DeviceRequestsStep
  <2>2. op[k].kind = "none" BY DEF ClientOK, Idle
  <2> QED BY Zenon, <2>1, <2>2, DeviceRequestParts
<1>4. DeviceRequests' = [DeviceRequests EXCEPT ![k] =
          [Device!Free("none") EXCEPT !.kind = kind, !.s = s, !.shape = shape, !.val = val]]
  BY <1>2, DeviceRequestsStep
<1>5. Device!Issue(k)
  <2>1. \E kd \in {"read", "write", "unmap"}, x \in Sectors, sh \in SUBSET Units, v \in [Units -> Values] :
           /\ DeviceRequests' = [DeviceRequests EXCEPT ![k] =
                  [Device!Free("none") EXCEPT !.kind = kd, !.s = x, !.shape = sh, !.val = v]]
           /\ vol' = IF kd = "unmap" THEN [vol EXCEPT ![x] = [u \in Units |-> Unspecified]] ELSE vol
    BY Zenon, <1>1, <1>4
  <2> QED BY Zenon, <1>3, <2>1 DEF Device!Issue, Device!Sector, DeviceRequests
<1>6. DeviceRequests' # DeviceRequests
  <2>1. DeviceRequests'[k].kind = kind BY Zenon, <1>4 DEF DeviceRequests, Device!Free
  <2> QED BY Zenon, <1>3, <2>1
<1> QED BY Zenon, <1>5, <1>6 DEF Device!Next, DeviceRequests

\* A request that is turned away.
LEMMA TurnedAway ==
    ASSUME TypeOK, TypeOK', NEW k \in Clients, OnlyBy(k), ClientOK(k), op[k].pc = "idle",
           NEW res \in {"ok", "err"}, op'[k] = Idle(res), vol' = vol
    PROVE  Device!Next \/ UNCHANGED <<vol, DeviceRequests>>
<1>1. DeviceRequests[k].kind = "none"
  <2>1. DeviceRequests[k] = DeviceRequest(op[k]) BY Zenon, DeviceRequestsStep
  <2>2. op[k].kind = "none" BY DEF ClientOK, Idle
  <2> QED BY Zenon, <2>1, <2>2, DeviceRequestParts
<1>2. DeviceRequests' = [DeviceRequests EXCEPT ![k] = Device!Free(res)] BY Zenon, DeviceRequestsStep, FreeIdle
<1>3. Device!TurnAway(k) BY Zenon, <1>1, <1>2 DEF Device!TurnAway, DeviceRequests
<1> QED BY Zenon, <1>3 DEF Device!Next, DeviceRequests

\* A request that returns, with what Acknowledge tells the client.
LEMMA ReturnStep ==
    ASSUME TypeOK, TypeOK', NEW k \in Clients, OnlyBy(k), ClientOK(k), op[k].pc # "idle",
           NEW res \in {"ok", "err"}, op'[k] = Idle(res), Acknowledge(op[k], res),
           op[k].kind = "read" /\ res = "ok" => op[k].got
    PROVE  Device!Next
<1>1. PICK d : d = DeviceRequest(op[k]) BY Zenon
<1>2. DeviceRequests[k] = d BY Zenon, <1>1, DeviceRequestsStep
<1>3. /\ d.kind = op[k].kind /\ d.s = op[k].s /\ d.shape = op[k].shape
      /\ d.served = (op[k].kind = "read" /\ op[k].got)
      /\ d.val = IF op[k].kind = "read" THEN op[k].buf ELSE Overlay(Blank, op[k].shape, op[k].buf)
  BY <1>1, DeviceRequestParts
<1>4. d.kind # "none" /\ (d.kind = "read" /\ res = "ok" => d.served) BY Zenon, <1>3 DEF ClientOK
<1>5. DeviceRequests' = [DeviceRequests EXCEPT ![k] = Device!Free(res)] BY Zenon, DeviceRequestsStep, FreeIdle
<1>6. ASSUME d.kind = "write" PROVE vol' = Device!Written(d, res)
  <2>1. PICK b : b = IF res = "ok" THEN op[k].buf ELSE [u \in Units |-> Unspecified] BY Zenon
  <2>2. vol' = [vol EXCEPT ![op[k].s] = Overlay(@, op[k].shape, b)] BY Zenon, <1>3, <1>6, <2>1 DEF Acknowledge
  <2>3. \A u \in op[k].shape \cap Units : b[u] = IF res = "ok" THEN d.val[u] ELSE Unspecified
    BY Zenon, <1>3, <1>6, <2>1 DEF Overlay
  <2>4. Overlay(vol[op[k].s], op[k].shape, b) =
           [u \in Units |-> IF u \notin op[k].shape THEN vol[op[k].s][u]
                            ELSE IF res = "ok" THEN d.val[u] ELSE Unspecified]
    BY Zenon, <2>3 DEF Overlay
  <2> QED BY Zenon, <1>3, <2>2, <2>4 DEF Device!Written
<1>7. d.kind # "write" => vol' = vol BY Zenon, <1>3 DEF Acknowledge
<1>8. Device!Return(k)
  BY Zenon, <1>2, <1>4, <1>5, <1>6, <1>7 DEF Device!Return, DeviceRequests
<1>9. DeviceRequests' # DeviceRequests
  <2>1. DeviceRequests'[k].kind = "none" BY <1>5 DEF DeviceRequests, Device!Free
  <2> QED BY Zenon, <1>2, <1>4, <2>1
<1> QED BY Zenon, <1>8, <1>9 DEF Device!Next, DeviceRequests

\* Unit by unit, a replica that may be read holds what the disk or a write in flight holds.
LEMMA ReplicaHoldsDisk ==
    ASSUME Inv, DeviceInv, NEW r \in RW, NEW s \in Sectors, NEW u \in Units
    PROVE  \/ vol[s][u] \in {data[r][s][u], Unspecified}
           \/ \E j \in Clients : /\ op[j].kind = "write" /\ op[j].s = s /\ u \in op[j].shape
                                 /\ op[j].buf[u] = data[r][s][u]
<1>1. CASE \E j \in Clients : InFlight(j, s)
  <2>1. PICK j \in Clients : InFlight(j, s) BY Zenon, <1>1
  <2>2. HalfWritten(j, r) BY Zenon DEF DeviceInv
  <2> QED BY Zenon, <2>1, <2>2 DEF HalfWritten, InFlight
<1>2. CASE \E j \in Clients : Unmapping(j, s)
  <2>1. PICK j \in Clients : Unmapping(j, s) BY Zenon, <1>2
  <2>2. RequestOK(j) BY Zenon DEF Inv
  <2> QED BY Zenon, <2>1, <2>2 DEF RequestOK, Unmapping
<1>3. CASE ~Busy(s)
  <2>1. Match(data[r][s], vol[s]) BY Zenon, <1>3 DEF Inv, Good
  <2> QED BY Zenon, <2>1 DEF Match
<1> QED BY Zenon, <1>1, <1>2, <1>3 DEF Busy

\* A read picks its data from a replica.
LEMMA Served ==
    ASSUME Inv, Inv', DeviceInv, NEW k \in Clients, OnlyBy(k), vol' = vol, NEW r \in RW,
           op[k].kind = "read", ~op[k].got, op'[k].kind = op[k].kind, op'[k].s = op[k].s,
           op'[k].shape = op[k].shape, op'[k].res = op[k].res,
           op'[k].buf = data[r][op[k].s], op'[k].got
    PROVE  Device!Next
<1>t. TypeOK /\ TypeOK' BY Zenon DEF Inv
<1>r. op[k] \in Requests /\ op[k].s \in Sectors /\ r \in Replicas BY Zenon, <1>t DEF TypeOK, Requests, RW
<1> DEFINE c == data[r][op[k].s]
<1>1. c \in [Units -> Values] BY <1>t, <1>r DEF TypeOK, Contents
<1>2. DeviceRequests[k] = DeviceRequest(op[k]) BY Zenon, <1>t, DeviceRequestsStep
<1>3. DeviceRequests[k].kind = "read" /\ DeviceRequests[k].s = op[k].s /\ ~DeviceRequests[k].served
  BY Zenon, <1>2, DeviceRequestParts
<1>4. DeviceRequests' = [DeviceRequests EXCEPT ![k] = [DeviceRequest(op[k]) EXCEPT !.val = c, !.served = TRUE]]
  <2>1. op'[k].buf = c BY Zenon
  <2> HIDE DEF c
  <2>2. (op'[k].kind = "read" /\ op'[k].got) = TRUE BY Zenon
  <2>3. PICK n : n = DeviceRequest(op'[k]) BY Zenon
  <2>4. n = [kind |-> op[k].kind, s |-> op[k].s, shape |-> op[k].shape, val |-> c, served |-> TRUE, res |-> op[k].res]
    BY Zenon, <2>1, <2>2, <2>3 DEF DeviceRequest
  <2>5. PICK d : d = DeviceRequest(op[k]) BY Zenon
  <2>6. /\ d = [x \in {"kind", "s", "shape", "val", "served", "res"} |-> d[x]]
        /\ d.kind = op[k].kind /\ d.s = op[k].s /\ d.shape = op[k].shape /\ d.res = op[k].res
    BY Zenon, <2>5 DEF DeviceRequest
  <2>7. n = [d EXCEPT !.val = c, !.served = TRUE]
    <3>1. PICK f : f = [d EXCEPT !.val = c, !.served = TRUE] BY Zenon
    <3>2. /\ f = [x \in {"kind", "s", "shape", "val", "served", "res"} |-> f[x]]
          /\ f.kind = op[k].kind /\ f.s = op[k].s /\ f.shape = op[k].shape /\ f.val = c
          /\ f.served = TRUE /\ f.res = op[k].res
      BY Zenon, <2>6, <3>1
    <3>3. n = f BY Zenon, <2>4, <3>2
    <3> QED BY Zenon, <3>1, <3>3
  <2>8. DeviceRequests' = [DeviceRequests EXCEPT ![k] = n] BY Zenon, <1>t, <2>3, DeviceRequestsStep
  <2> QED BY Zenon, <2>5, <2>7, <2>8
<1>5. DeviceRequests' = [DeviceRequests EXCEPT ![k].val = c, ![k].served = TRUE]
  <2>1. PICK d : d = DeviceRequests BY Zenon
  <2>2. d = [j \in Clients |-> d[j]] BY Zenon, <2>1 DEF DeviceRequests
  <2> HIDE DEF c
  <2>3. [d EXCEPT ![k] = [d[k] EXCEPT !.val = c, !.served = TRUE]] = [d EXCEPT ![k].val = c, ![k].served = TRUE]
    BY Zenon, <2>2
  <2> QED BY Zenon, <1>2, <1>4, <2>1, <2>3
<1>6. ASSUME NEW u \in Units
      PROVE  \/ vol[DeviceRequests[k].s][u] \in {c[u], Unspecified}
             \/ \E j \in Clients : /\ DeviceRequests[j].kind = "write" /\ DeviceRequests[j].s = DeviceRequests[k].s
                                   /\ u \in DeviceRequests[j].shape /\ DeviceRequests[j].val[u] = c[u]
  <2>1. CASE vol[op[k].s][u] \in {c[u], Unspecified} BY Zenon, <1>3, <2>1
  <2>2. CASE \E j \in Clients : /\ op[j].kind = "write" /\ op[j].s = op[k].s /\ u \in op[j].shape
                                /\ op[j].buf[u] = c[u]
    <3>1. PICK j \in Clients : /\ op[j].kind = "write" /\ op[j].s = op[k].s /\ u \in op[j].shape
                              /\ op[j].buf[u] = c[u]
      BY Zenon, <2>2
    <3>2. PICK d : d = DeviceRequest(op[j]) BY Zenon
    <3>3. DeviceRequests[j] = d BY Zenon, <3>2 DEF DeviceRequests
    <3>4. d.kind = "write" /\ d.s = op[k].s /\ d.shape = op[j].shape /\ d.val = Overlay(Blank, op[j].shape, op[j].buf)
      BY <3>1, <3>2, DeviceRequestParts
    <3>5. d.val[u] = c[u] BY Zenon, <3>1, <3>4 DEF Overlay
    <3> QED BY Zenon, <1>3, <3>1, <3>3, <3>4, <3>5
  <2>3. \/ vol[op[k].s][u] \in {c[u], Unspecified}
        \/ \E j \in Clients : /\ op[j].kind = "write" /\ op[j].s = op[k].s /\ u \in op[j].shape
                              /\ op[j].buf[u] = c[u]
    BY <1>r, ReplicaHoldsDisk
  <2> HIDE DEF c
  <2> QED BY Zenon, <2>1, <2>2, <2>3
<1> HIDE DEF c
<1>7. Device!Serve(k)
  BY Zenon, <1>1, <1>3, <1>5, <1>6 DEF Device!Serve, Device!Sector, DeviceRequests
<1>8. DeviceRequests' # DeviceRequests
  <2>1. DeviceRequests'[k].served = TRUE
    <3>1. PICK d : d = DeviceRequest(op'[k]) BY Zenon
    <3>2. d.served = (op'[k].kind = "read" /\ op'[k].got) BY Zenon, <3>1, DeviceRequestParts
    <3>3. (op'[k].kind = "read" /\ op'[k].got) = TRUE BY Zenon
    <3> QED BY Zenon, <3>1, <3>2, <3>3 DEF DeviceRequests
  <2> QED BY Zenon, <1>3, <2>1
<1> QED BY Zenon, <1>7, <1>8 DEF Device!Next, DeviceRequests

\* Every step of a request is a step of the device, or one the clients cannot tell.
LEMMA RequestRefines ==
    ASSUME Inv, Inv', DeviceInv, NEW k \in Clients, Request(k)
    PROVE  Device!Next \/ UNCHANGED <<vol, DeviceRequests>>
<1>t. TypeOK /\ TypeOK' BY Zenon DEF Inv
<1>r. op \in [Clients -> Requests] /\ op[k] \in Requests BY Zenon, <1>t DEF TypeOK
<1>o. OnlyBy(k) BY Zenon, <1>t, RequestStepsKeepOthers
<1>c. ClientOK(k) /\ ReadOK(k) /\ RequestOK(k) BY Zenon DEF DeviceInv, Inv
<1> DEFINE Goal == Device!Next \/ UNCHANGED <<vol, DeviceRequests>>
<1>1. ASSUME NoBackend(k) PROVE Goal
  <2>1. op'[k] = Idle("err") /\ op[k].pc = "idle" /\ vol' = vol BY Zenon, <1>1, <1>r DEF NoBackend
  <2> QED BY Zenon, <1>t, <1>o, <1>c, <2>1, TurnedAway
<1>2. ASSUME NEW s \in Sectors, NEW shape \in Shapes, NEW v \in Values, StartWrite(k, s, shape, v) PROVE Goal
  <2>1. PICK o : o = op'[k] BY Zenon
  <2>2. PICK b \in Contents : b = [u \in Units |-> v] BY Zenon DEF Contents
  <2>3. o.kind = "write" /\ o.s = s /\ o.shape = shape /\ o.buf = b /\ o.got = FALSE /\ o.res = "none"
    BY Zenon, <1>2, <1>r, <2>1, <2>2 DEF StartWrite, Idle
  <2>4. op[k].pc = "idle" /\ vol' = vol /\ shape \in SUBSET Units
    BY Zenon, <1>2, ConstantsAssumption DEF StartWrite
  <2> QED BY Zenon, <1>t, <1>o, <1>c, <2>1, <2>3, <2>4, Issued
<1>3. ASSUME NEW s \in Sectors, StartRead(k, s) PROVE Goal
  <2>1. PICK o : o = op'[k] BY Zenon
  <2>2. o.kind = "read" /\ o.s = s /\ o.shape = {} /\ o.buf = Blank /\ o.got = FALSE /\ o.res = "none"
    BY Zenon, <1>3, <1>r, <2>1 DEF StartRead, Idle
  <2>3. op[k].pc = "idle" /\ vol' = vol BY Zenon, <1>3 DEF StartRead
  <2> QED BY Zenon, <1>t, <1>o, <1>c, <2>1, <2>2, <2>3, BlankType, Issued
<1>4. ASSUME NEW s \in Sectors, StartUnmap(k, s) PROVE Goal
  <2>1. op[k].pc = "idle" BY Zenon, <1>4 DEF StartUnmap
  <2>2. CASE op' = [op EXCEPT ![k] = Idle("ok")] /\ vol' = vol
    <3>1. op'[k] = Idle("ok") BY Zenon, <1>r, <2>2
    <3> QED BY Zenon, <1>t, <1>o, <1>c, <2>1, <2>2, <3>1, TurnedAway
  <2>3. CASE /\ op' = [op EXCEPT ![k] = [Idle("none") EXCEPT !.pc = "io", !.kind = "unmap", !.s = s,
                                                              !.shape = Units, !.todo = Active]]
             /\ vol' = [vol EXCEPT ![s] = [u \in Units |-> Unspecified]]
    <3>1. PICK o : o = op'[k] BY Zenon
    <3>2. o.kind = "unmap" /\ o.s = s /\ o.shape = Units /\ o.buf = Blank /\ o.got = FALSE /\ o.res = "none"
      BY Zenon, <1>r, <2>3, <3>1 DEF Idle
    <3> QED BY Zenon, <1>t, <1>o, <1>c, <2>1, <2>3, <3>1, <3>2, BlankType, Issued
  <2> QED BY Zenon, <1>4, <2>2, <2>3 DEF StartUnmap
<1>5. ASSUME ReadAt(k) PROVE Goal
  <2>1. PICK bad \in SUBSET RW, c \in Contents :
              /\ op[k].pc = "read" /\ op'[k] = AfterRead(op[k], bad, c)
              /\ IF bad = RW THEN c = op[k].buf ELSE \E r \in RW : c = data[r][op[k].s]
    BY Zenon, <1>5, <1>t, ReadAtStep
  <2>n. PICK n : n = AfterRead(op[k], bad, c) BY Zenon
  <2>2. /\ n.kind = op[k].kind /\ n.s = op[k].s /\ n.shape = op[k].shape /\ n.res = op[k].res
        /\ op[k].kind = "read" => n.got = (bad # RW) /\ n.buf = c
        /\ op[k].kind # "read" => n.buf \in {op[k].buf, Overlay(c, op[k].shape, op[k].buf)}
    BY <1>r, <2>n, AfterReadParts
  <2>3. vol' = vol /\ op'[k] = n /\ ~op[k].got BY Zenon, <1>5, <1>c, <2>1, <2>n DEF ReadAt, RequestOK
  <2>4. CASE op[k].kind = "read" /\ bad # RW
    <3>1. PICK r \in RW : c = data[r][op[k].s] BY Zenon, <2>1, <2>4
    <3> QED BY Zenon, <1>o, <2>2, <2>3, <2>4, <3>1, Served
  <2>5. CASE op[k].kind = "read" /\ bad = RW
    <3>1. n.buf = op[k].buf /\ n.got = FALSE BY Zenon, <2>1, <2>2, <2>5
    <3>2. op[k].got = FALSE BY Zenon, <1>r, <2>3 DEF Requests
    <3> QED BY Zenon, <1>t, <1>o, <2>2, <2>3, <3>1, <3>2, Unnoticed
  <2>6. CASE op[k].kind # "read"
    <3>1. Overlay(Blank, op[k].shape, n.buf) = Overlay(Blank, op[k].shape, op[k].buf)
      BY Zenon, <2>2, <2>6 DEF Overlay
    <3>2. (n.kind = "read" /\ n.got) = FALSE /\ (op[k].kind = "read" /\ op[k].got) = FALSE BY Zenon, <2>2, <2>6
    <3>3. DeviceRequest(op'[k]) = DeviceRequest(op[k]) BY Zenon, <2>2, <2>3, <2>6, <3>1, <3>2 DEF DeviceRequest
    <3> QED BY Zenon, <1>t, <1>o, <2>3, <3>3, DeviceRequestsStep DEF DeviceRequests
  <2> QED BY Zenon, <2>4, <2>5, <2>6
<1>6. ASSUME NEW r \in Replicas, ReplicaWrite(k, r) \/ ReplicaUnmap(k, r) PROVE Goal
  BY Zenon, <1>t, <1>o, <1>6, ReplicaAnswers, Unnoticed
<1>7. ASSUME FinishIO(k) PROVE Goal
  <2>1. CASE op[k].failed = {} /\ op'[k] = Idle("ok") /\ Acknowledge(op[k], "ok")
    <3>1. op[k].pc = "io" BY Zenon, <1>7 DEF FinishIO
    <3>2. op[k].kind = "read" => op[k].got BY Zenon, <1>c, <2>1, <3>1 DEF ReadOK
    <3> QED BY Zenon, <1>t, <1>o, <1>c, <2>1, <3>1, <3>2, ReturnStep
  <2>2. CASE ~(op[k].failed = {} /\ op'[k] = Idle("ok") /\ Acknowledge(op[k], "ok"))
    BY Zenon, <1>t, <1>o, <1>7, <2>2, Answered, Unnoticed
  <2> QED BY Zenon, <2>1, <2>2
<1>8. ASSUME CallLock(k) PROVE Goal
  <2>1. op'[k] = [op[k] EXCEPT !.pc = "lock"] /\ vol' = vol BY Zenon, <1>8, <1>r DEF CallLock
  <2>2. /\ op'[k].kind = op[k].kind /\ op'[k].s = op[k].s /\ op'[k].shape = op[k].shape
        /\ op'[k].buf = op[k].buf /\ op'[k].got = op[k].got /\ op'[k].res = op[k].res
    BY Zenon, <1>r, <2>1 DEF Requests
  <2> QED BY Zenon, <1>t, <1>o, <2>1, <2>2, Unnoticed
<1>9. ASSUME HandleError(k) PROVE Goal
  <2>1. PICK res \in {"ok", "err"} : op'[k] = Idle(res) /\ Acknowledge(op[k], res)
    BY Zenon, <1>9, <1>r DEF HandleError
  <2>2. op[k].pc # "idle" BY Zenon, <1>9 DEF HandleError
  <2>3. Idle(res).pc = "idle" /\ Idle(res).res = res BY Zenon DEF Idle
  <2>4. [Next]_vars BY Zenon DEF Next
  <2>5. op[k].kind = "read" /\ res = "ok" => op[k].got BY Zenon, <2>1, <2>3, <2>4, ReturnedRead
  <2> QED BY Zenon, <1>t, <1>o, <1>c, <2>1, <2>2, <2>5, ReturnStep
<1> QED BY Zenon, <1>1, <1>2, <1>3, <1>4, <1>5, <1>6, <1>7, <1>8, <1>9 DEF Request

\* The replicated volume is one disk to its clients: WriteAt, ReadAt and UnmapAt take
\* effect at one moment each, whatever replicas fail, are added, are rebuilt or are removed
\* meanwhile, for any number of replicas, sectors, clients and snapshots, when the frontend
\* keeps writes to one sector apart and no one takes the controller's lock between a
\* request's RUnlock and its handleError.
THEOREM ImplementsBlockDevice ==
    ASSUME SectorExclusive, Overtakers = {}
    PROVE  Spec => BehavesAsBlockDevice
<1>1. Init => Device!Init
  <2> SUFFICES ASSUME Init PROVE Device!Init BY Zenon
  <2>1. \A k \in Clients : DeviceRequest(op[k]) = Device!Free("none") BY Zenon, FreeIdle DEF Init
  <2>2. vol = [s \in Sectors |-> [u \in Units |-> Zero]] BY Zenon DEF Init, Blank
  <2> QED BY Zenon, <2>1, <2>2 DEF Device!Init
<1>2. Inv /\ DeviceInv /\ Inv' /\ [Next]_vars => [Device!Next]_<<vol, DeviceRequests>>
  <2> SUFFICES ASSUME Inv, DeviceInv, Inv', [Next]_vars PROVE Device!Next \/ UNCHANGED <<vol, DeviceRequests>>
    BY Zenon
  <2>1. CASE op' = op /\ vol' = vol BY Zenon, <2>1 DEF DeviceRequests
  <2> QED BY Zenon, <2>1, RequestRefines, OtherStepsKeepRequests DEF Next, vars
<1> QED BY <1>1, <1>2, DeviceInvariant, PTL DEF Spec, BehavesAsBlockDevice, Device!Spec, DeviceRequests
=============================================================================
