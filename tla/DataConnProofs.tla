--------------------------- MODULE DataConnProofs ---------------------------
(***************************************************************************)
(* Proofs about the data connections and the timeouts they share, for any  *)
(* number of clients, requests and failures.                               *)
(*                                                                         *)
(* SharedTimeouts: the count of consumers is exact, and the last one waits *)
(* for the long timeout.                                                   *)
(*                                                                         *)
(* DataConn: its clients implement SharedTimeouts, so that none is counted *)
(* twice, counted down twice or forgotten; what a client stores as its     *)
(* error answers every later request; and a request that succeeds was      *)
(* carried out once.                                                       *)
(***************************************************************************)
EXTENDS SharedTimeouts, DataConn, FiniteSetTheorems, TLAPS

TimeoutsTypeOK ==
    /\ state \in [Consumers -> {"out", "in", "timedOut", "left"}]
    /\ waited \in [Consumers -> 0..2]

TimeoutsInv == TimeoutsTypeOK /\ ConsumersCounted

-----------------------------------------------------------------------------
\* The consumers that are in are finitely many.
LEMMA InFinite == IsFiniteSet(In) /\ Cardinality(In) \in Nat
  BY Zenon, ConsumersAssumption, FS_Subset, FS_CardinalityType DEF In

\* The count holds at the start.
LEMMA TimeoutsInitInv == TimeoutsInit => TimeoutsInv
<1> SUFFICES ASSUME TimeoutsInit PROVE TimeoutsInv
  BY Zenon
<1>1. In = {}
  BY Zenon DEF TimeoutsInit, In
<1>2. QED
  BY <1>1, FS_EmptySet DEF TimeoutsInit, TimeoutsInv, TimeoutsTypeOK, ConsumersCounted

\* A consumer that comes in is counted (Increment).
LEMMA CountedIn ==
  ASSUME TimeoutsInv, NEW c \in Consumers, Increment(c)
  PROVE  TimeoutsInv'
<1>1. c \notin In /\ In' = In \cup {c}
  BY Zenon DEF Increment, In, TimeoutsInv, TimeoutsTypeOK
<1>2. Cardinality(In') = Cardinality(In) + 1
  BY Zenon, <1>1, InFinite, FS_AddElement
<1>3. TimeoutsTypeOK'
  BY Zenon DEF Increment, TimeoutsInv, TimeoutsTypeOK
<1>4. QED
  BY Zenon, <1>2, <1>3 DEF Increment, TimeoutsInv, ConsumersCounted

\* A consumer that is no longer in is counted down once.
LEMMA CountedOut ==
  ASSUME TimeoutsInv, NEW c \in Consumers, NEW to \in {"timedOut", "left"},
         state[c] = "in", state' = [state EXCEPT ![c] = to], numConsumers' = numConsumers - 1,
         waited' = [waited EXCEPT ![c] = 0]
  PROVE  TimeoutsInv'
<1>1. c \in In /\ In' = In \ {c}
  BY Zenon DEF In, TimeoutsInv, TimeoutsTypeOK
<1>2. Cardinality(In') = Cardinality(In) - 1
  BY Zenon, <1>1, InFinite, FS_RemoveElement
<1>3. TimeoutsTypeOK'
  BY DEF TimeoutsInv, TimeoutsTypeOK
<1>4. QED
  BY Zenon, <1>2, <1>3 DEF TimeoutsInv, ConsumersCounted

\* Every step keeps the count exact.
LEMMA TimeoutsStep == TimeoutsInv /\ [TimeoutsNext]_timeoutVars => TimeoutsInv'
<1> SUFFICES ASSUME TimeoutsInv, [TimeoutsNext]_timeoutVars PROVE TimeoutsInv'
  BY Zenon
<1>1. ASSUME NEW c \in Consumers, Increment(c) PROVE TimeoutsInv'
  BY Zenon, <1>1, CountedIn
<1>2. ASSUME NEW c \in Consumers, Wait(c) \/ Progress(c) PROVE TimeoutsInv'
  <2>1. In' = In
    BY Zenon, <1>2 DEF Wait, Progress, In
  <2>2. TimeoutsTypeOK'
    BY <1>2 DEF Wait, Progress, TimeoutsInv, TimeoutsTypeOK
  <2>3. QED
    BY Zenon, <1>2, <2>1, <2>2 DEF Wait, Progress, TimeoutsInv, ConsumersCounted
<1>3. ASSUME NEW c \in Consumers, CheckAndDecrement(c) PROVE TimeoutsInv'
  BY Zenon, <1>3, CountedOut DEF CheckAndDecrement
<1>4. ASSUME NEW c \in Consumers, Decrement(c) PROVE TimeoutsInv'
  BY Zenon, <1>4, CountedOut DEF Decrement
<1>5. ASSUME NEW c \in Consumers, Leave(c) PROVE TimeoutsInv'
  <2>1. In' = In
    BY Zenon, <1>5 DEF Leave, In, TimeoutsInv, TimeoutsTypeOK
  <2>2. QED
    BY Zenon, <1>5, <2>1 DEF Leave, TimeoutsInv, TimeoutsTypeOK, ConsumersCounted
<1>6. CASE UNCHANGED timeoutVars
  BY Zenon, <1>6 DEF timeoutVars, TimeoutsInv, TimeoutsTypeOK, ConsumersCounted, In
<1>7. QED
  BY Zenon, <1>1, <1>2, <1>3, <1>4, <1>5, <1>6 DEF TimeoutsNext

\* numConsumers is the number of consumers that are in, however they leave: it is
\* never decremented twice for one of them (Decrement, CheckAndDecrement).
THEOREM TimeoutsCounted == TimeoutsSpec => []ConsumersCounted
<1>1. TimeoutsInv => ConsumersCounted
  BY Zenon DEF TimeoutsInv
<1>2. QED
  BY TimeoutsInitInv, TimeoutsStep, <1>1, PTL DEF TimeoutsSpec

\* A consumer that has not waited for the long timeout leaves another one behind
\* when it gives up.
LEMMA LastStep ==
  ASSUME TimeoutsInv, [TimeoutsNext]_timeoutVars, NEW c \in Consumers,
         state[c] = "in", state'[c] = "timedOut", waited[c] < 2
  PROVE  \E d \in Consumers \ {c} : state'[d] = "in"
<1>1. CheckAndDecrement(c)
  BY Zenon DEF TimeoutsInv, TimeoutsTypeOK, TimeoutsNext, timeoutVars, Increment, Wait, Progress,
         CheckAndDecrement, Decrement, Leave
<1>2. numConsumers > 1
  BY <1>1 DEF CheckAndDecrement, Exceeded, TimeoutsInv, TimeoutsTypeOK
<1>3. c \in In /\ Cardinality(In \ {c}) = Cardinality(In) - 1 /\ IsFiniteSet(In \ {c})
  BY Zenon, InFinite, FS_RemoveElement DEF In
<1>4. In \ {c} # {}
  BY <1>2, <1>3, FS_EmptySet, InFinite DEF TimeoutsInv, ConsumersCounted
<1>5. PICK d \in In \ {c} : TRUE
  BY Zenon, <1>4
<1>6. QED
  BY Zenon, <1>1, <1>5 DEF CheckAndDecrement, In, TimeoutsInv, TimeoutsTypeOK

\* The last consumer waits for the long timeout, for any number of them
\* (CheckAndDecrement).
THEOREM TimeoutsLastWaits == TimeoutsSpec => LastWaitsLong
<1>1. TimeoutsInv /\ [TimeoutsNext]_timeoutVars
      => [\A c \in Consumers : state[c] = "in" /\ state'[c] = "timedOut" /\ waited[c] < 2
             => \E d \in Consumers \ {c} : state'[d] = "in"]_timeoutVars
  BY Zenon, LastStep
<1>2. QED
  BY TimeoutsInitInv, TimeoutsStep, <1>1, PTL DEF TimeoutsSpec, LastWaitsLong

-----------------------------------------------------------------------------
ConnTypeOK ==
    /\ loop \in [Clients -> {"none", "runs", "closing", "ended"}]
    /\ decremented \in [Clients -> BOOLEAN]
    /\ clientError \in [Clients -> BOOLEAN]
    /\ age \in [Clients -> 0..2]
    /\ ioInflight \in [Clients -> Int]
    /\ DOMAIN messages = Clients
    /\ consumers \in Int

\* The inductive invariant: a client whose ticker has counted it down has failed, and
\* a client that has failed waits for nothing, so its ticker counts nothing any more.
ConnInv ==
    /\ ConnTypeOK
    /\ \A c \in Clients : decremented[c] => loop[c] # "none" /\ clientError[c]
    /\ \A c \in Clients : clientError[c] => ioInflight[c] = 0 /\ \A q \in Seqs : messages[c][q] = NoReq

Bystanders == <<loop, decremented, age, ioInflight, clientError, messages, consumers>>

-----------------------------------------------------------------------------
\* The invariant holds at the start.
LEMMA ConnStarts == ConnInit => ConnInv
  BY DEF ConnInit, ConnInv, ConnTypeOK

\* handleClientError leaves nothing pending.
LEMMA ConnFail ==
  ASSUME ConnInv, NEW c \in Clients, Fail(c), UNCHANGED loop,
         decremented' \in [Clients -> BOOLEAN], consumers' \in Int,
         \A d \in Clients : decremented'[d] => decremented[d] \/ (d = c /\ loop[c] # "none")
  PROVE  ConnInv'
<1>1. clientError' = [clientError EXCEPT ![c] = TRUE] /\ ioInflight' = [ioInflight EXCEPT ![c] = 0]
  BY Zenon DEF Fail
<1>2. DOMAIN messages' = Clients /\ \A q \in Seqs : messages'[c][q] = NoReq
  BY Zenon DEF Fail, ConnInv, ConnTypeOK
<1>3. \A d \in Clients \ {c} : messages'[d] = messages[d]
  BY Zenon DEF Fail, ConnInv, ConnTypeOK
<1>4. ConnTypeOK'
  BY <1>1, <1>2 DEF Fail, ConnInv, ConnTypeOK
<1>5. QED
  BY <1>1, <1>2, <1>3, <1>4 DEF ConnInv, ConnTypeOK

\* Every step preserves the invariant.
LEMMA ConnStep == ConnInv /\ [ConnNext]_connVars => ConnInv'
<1> SUFFICES ASSUME ConnInv, [ConnNext]_connVars PROVE ConnInv'
  BY Zenon
<1>1. ASSUME NEW c \in Clients, Create(c) PROVE ConnInv'
  BY <1>1 DEF Create, ConnInv, ConnTypeOK, clientVars
<1>2. ASSUME NEW c \in Clients, Close(c) PROVE ConnInv'
  BY Zenon, <1>2 DEF Close, ConnInv, ConnTypeOK, clientVars
<1>3. ASSUME NEW c \in Clients, NEW r \in Reqs, TakeRequest(c, r) PROVE ConnInv'
  <2>1. CASE clientError[c]
    BY <1>3, <2>1 DEF TakeRequest, ConnInv, ConnTypeOK
  <2>2. CASE ~clientError[c]
    <3>1. ConnTypeOK'
      BY <1>3, <2>2 DEF TakeRequest, ConnInv, ConnTypeOK
    <3>2. QED
      BY <1>3, <2>2, <3>1 DEF TakeRequest, ConnInv, ConnTypeOK
  <2>3. QED
    BY Zenon, <2>1, <2>2
<1>4. ASSUME NEW c \in Clients, NEW q \in Seqs, TakeResponse(c, q) PROVE ConnInv'
  <2>1. CASE messages[c][q] = NoReq
    BY <1>4, <2>1 DEF TakeResponse, ConnInv, ConnTypeOK
  <2>2. CASE messages[c][q] # NoReq
    <3>1. ~clientError[c]
      BY Zenon, <2>2 DEF ConnInv
    <3>2. ConnTypeOK'
      BY <1>4, <2>2 DEF TakeResponse, ConnInv, ConnTypeOK
    <3>3. QED
      BY <1>4, <2>2, <3>1, <3>2 DEF TakeResponse, ConnInv, ConnTypeOK
  <2>3. QED
    BY Zenon, <2>1, <2>2
<1>5. ASSUME NEW c \in Clients, TakeError(c) PROVE ConnInv'
  BY Zenon, <1>5, ConnFail DEF TakeError, ConnInv, ConnTypeOK
<1>6. ASSUME NEW c \in Clients, Tick(c) PROVE ConnInv'
  BY <1>6, ConnFail DEF Tick, Running, ConnInv, ConnTypeOK
<1>7. ASSUME NEW c \in Clients, End(c) PROVE ConnInv'
  BY <1>7 DEF End, ConnInv, ConnTypeOK, clientVars
<1>8. ASSUME NEW c \in Clients, Elapse(c) PROVE ConnInv'
  BY <1>8 DEF Elapse, ConnInv, ConnTypeOK
<1>9. CASE UNCHANGED Bystanders
  BY Zenon, <1>9 DEF Bystanders, ConnInv, ConnTypeOK
<1>10. ASSUME NEW c \in Clients, Break(c) \/ SendPing(c) \/ PingDone(c) PROVE UNCHANGED Bystanders
  BY Zenon, <1>10 DEF Break, SendPing, PingDone, Bystanders, clientVars
<1>11. ASSUME NEW c \in Clients, NEW r \in IO, Request(c, r) \/ Returned(c, r) PROVE UNCHANGED Bystanders
  BY Zenon, <1>11 DEF Request, Returned, Bystanders, clientVars
<1>12. ASSUME NEW c \in Clients, NEW q \in Seqs, WireWrite(c, q) \/ Serve(c, q) \/ WireRead(c, q)
       PROVE  UNCHANGED Bystanders
  BY Zenon, <1>12 DEF WireWrite, Serve, WireRead, Bystanders
<1>13. CASE UNCHANGED connVars
  BY Zenon, <1>9, <1>13 DEF connVars, Bystanders
<1>14. QED
  BY Zenon, <1>1, <1>2, <1>3, <1>4, <1>5, <1>6, <1>7, <1>8, <1>9, <1>10, <1>11, <1>12, <1>13
     DEF ConnNext, LoopStep

-----------------------------------------------------------------------------
\* The refinement.  The consumers' states and what they have waited, as the
\* instance ST of DataConn defines them.
StateOf == [c \in Clients |-> IF loop[c] = "none" THEN "out"
                              ELSE IF loop[c] = "ended" THEN "left"
                              ELSE IF decremented[c] THEN "timedOut" ELSE "in"]
WaitedOf == [c \in Clients |-> IF loop[c] = "ended" \/ decremented[c] THEN 0 ELSE age[c]]

\* What concerns no timeout is a stuttering step.
LEMMA TimeoutsStutter ==
  ASSUME UNCHANGED <<loop, decremented, age, consumers>>
  PROVE  UNCHANGED ST!timeoutVars
  BY Zenon DEF ST!timeoutVars

\* Activity of a client starts its time anew.
LEMMA TimeoutsProgress ==
  ASSUME ConnInv, NEW c \in Clients, UNCHANGED <<loop, decremented, consumers>>,
         age' = [age EXCEPT ![c] = 0]
  PROVE  ST!Progress(c) \/ UNCHANGED ST!timeoutVars
<1>1. StateOf' = StateOf
  BY Zenon DEF StateOf
<1>2. CASE WaitedOf[c] = 0
  <2>1. WaitedOf' = WaitedOf
    BY Zenon, <1>2 DEF WaitedOf, ConnInv, ConnTypeOK
  <2>2. QED
    BY Zenon, <1>1, <2>1 DEF ST!timeoutVars, StateOf, WaitedOf
<1>3. CASE WaitedOf[c] # 0
  <2>1. WaitedOf' = [WaitedOf EXCEPT ![c] = 0]
    BY Zenon, <1>3 DEF WaitedOf, ConnInv, ConnTypeOK
  <2>2. QED
    BY Zenon, <1>1, <1>3, <2>1 DEF ST!Progress, StateOf, WaitedOf
<1>4. QED
  BY Zenon, <1>2, <1>3

\* A client that is created comes in as a consumer (Increment at the head of loop).
LEMMA TimeoutsCreate == ASSUME ConnInv, NEW c \in Clients, Create(c) PROVE ST!Increment(c)
<1>1. StateOf[c] = "out" /\ StateOf' = [StateOf EXCEPT ![c] = "in"]
  <2>1. /\ loop[c] = "none" /\ ~decremented[c] /\ UNCHANGED decremented
        /\ loop' = [loop EXCEPT ![c] = "runs"]
    BY Zenon DEF Create, ConnInv
  <2>2. loop'[c] = "runs" /\ \A d \in Clients \ {c} : loop'[d] = loop[d]
    BY Zenon, <2>1 DEF ConnInv, ConnTypeOK
  <2>3. QED
    BY Zenon, <2>1, <2>2 DEF StateOf
<1>2. WaitedOf' = WaitedOf
  BY Zenon DEF Create, WaitedOf, ConnInv, ConnTypeOK, clientVars
<1>3. QED
  BY Zenon, <1>1, <1>2 DEF Create, ST!Increment, StateOf, WaitedOf

\* Time that passes with I/O in flight is time a consumer waits.
LEMMA TimeoutsElapse == ASSUME ConnInv, NEW c \in Clients, Elapse(c) PROVE ST!Wait(c)
<1>1. StateOf' = StateOf
  BY Zenon DEF Elapse, StateOf
<1>2. ~decremented[c] /\ loop[c] \in {"runs", "closing"} /\ age[c] < 2
  BY DEF Elapse, Running, ConnInv, ConnTypeOK
<1>3. StateOf[c] = "in" /\ WaitedOf[c] < 2 /\ WaitedOf' = [WaitedOf EXCEPT ![c] = @ + 1]
  BY ZenonT(20), <1>2 DEF Elapse, StateOf, WaitedOf, ConnInv, ConnTypeOK
<1>4. QED
  BY Zenon, <1>1, <1>3 DEF Elapse, ST!Wait, StateOf, WaitedOf

\* The ticker of loop counts a client down that is still counted.
LEMMA TimeoutsTick == ASSUME ConnInv, NEW c \in Clients, Tick(c) PROVE ST!CheckAndDecrement(c)
<1>1. ~decremented[c] /\ loop[c] \in {"runs", "closing"}
  BY DEF Tick, Running, ConnInv, ConnTypeOK
<1>2. StateOf[c] = "in" /\ StateOf' = [StateOf EXCEPT ![c] = "timedOut"]
  BY Zenon, <1>1 DEF Tick, StateOf, ConnInv, ConnTypeOK
<1>3. WaitedOf[c] = age[c] /\ WaitedOf' = [WaitedOf EXCEPT ![c] = 0]
  BY Zenon, <1>1 DEF Tick, Fail, WaitedOf, ConnInv, ConnTypeOK
<1>4. QED
  BY Zenon, <1>2, <1>3 DEF Tick, ST!CheckAndDecrement, StateOf, WaitedOf

\* The end of loop counts the client down unless its ticker has.
LEMMA TimeoutsEnd == ASSUME ConnInv, NEW c \in Clients, End(c) PROVE ST!Decrement(c) \/ ST!Leave(c)
<1>1. StateOf' = [StateOf EXCEPT ![c] = "left"] /\ WaitedOf' = [WaitedOf EXCEPT ![c] = 0]
  BY Zenon DEF End, StateOf, WaitedOf, ConnInv, ConnTypeOK, clientVars
<1>2. CASE decremented[c]
  <2>1. StateOf[c] = "timedOut" /\ WaitedOf[c] = 0
    BY Zenon, <1>2 DEF End, StateOf, WaitedOf
  <2>2. WaitedOf' = WaitedOf
    BY Zenon, <1>1, <2>1 DEF WaitedOf
  <2>3. QED
    BY Zenon, <1>1, <1>2, <2>1, <2>2 DEF End, ST!Leave, StateOf, WaitedOf
<1>3. CASE ~decremented[c]
  <2>1. StateOf[c] = "in"
    BY Zenon, <1>3 DEF End, StateOf
  <2>2. QED
    BY Zenon, <1>1, <1>3, <2>1 DEF End, ST!Decrement, StateOf, WaitedOf
<1>4. QED
  BY Zenon, <1>2, <1>3

\* Every step of the connections is a step of the shared timeouts or leaves them alone.
LEMMA TimeoutsSimulated ==
  ConnInv /\ [ConnNext]_connVars => [ST!TimeoutsNext]_(ST!timeoutVars)
<1> SUFFICES ASSUME ConnInv, [ConnNext]_connVars PROVE ST!TimeoutsNext \/ UNCHANGED ST!timeoutVars
  BY Zenon
<1>1. ASSUME NEW c \in Clients, Create(c) PROVE ST!TimeoutsNext
  BY Zenon, <1>1, TimeoutsCreate DEF ST!TimeoutsNext
<1>2. ASSUME NEW c \in Clients, Elapse(c) PROVE ST!TimeoutsNext
  BY Zenon, <1>2, TimeoutsElapse DEF ST!TimeoutsNext
<1>3. ASSUME NEW c \in Clients, Tick(c) PROVE ST!TimeoutsNext
  BY Zenon, <1>3, TimeoutsTick DEF ST!TimeoutsNext
<1>4. ASSUME NEW c \in Clients, End(c) PROVE ST!TimeoutsNext
  BY Zenon, <1>4, TimeoutsEnd DEF ST!TimeoutsNext
<1>5. ASSUME NEW c \in Clients, TakeError(c) PROVE ST!TimeoutsNext \/ UNCHANGED ST!timeoutVars
  BY Zenon, <1>5, TimeoutsProgress DEF TakeError, Fail, ST!TimeoutsNext
<1>6. ASSUME NEW c \in Clients, NEW r \in Reqs, TakeRequest(c, r)
      PROVE  ST!TimeoutsNext \/ UNCHANGED ST!timeoutVars
  <2>1. UNCHANGED <<loop, decremented, consumers>>
    BY Zenon, <1>6 DEF TakeRequest
  <2>2. age' = age \/ age' = [age EXCEPT ![c] = 0]
    BY Zenon, <1>6 DEF TakeRequest, ConnInv, ConnTypeOK
  <2>3. QED
    BY Zenon, <2>1, <2>2, TimeoutsStutter, TimeoutsProgress DEF ST!TimeoutsNext
<1>7. ASSUME NEW c \in Clients, NEW q \in Seqs, TakeResponse(c, q)
      PROVE  ST!TimeoutsNext \/ UNCHANGED ST!timeoutVars
  <2>1. UNCHANGED <<loop, decremented, consumers>>
    BY Zenon, <1>7 DEF TakeResponse
  <2>2. age' = age \/ age' = [age EXCEPT ![c] = 0]
    BY Zenon, <1>7 DEF TakeResponse, ConnInv, ConnTypeOK
  <2>3. QED
    BY Zenon, <2>1, <2>2, TimeoutsStutter, TimeoutsProgress DEF ST!TimeoutsNext
<1>8. ASSUME NEW c \in Clients, Close(c) PROVE UNCHANGED ST!timeoutVars
  <2>1. StateOf' = StateOf /\ WaitedOf' = WaitedOf
    BY Zenon, <1>8 DEF Close, StateOf, WaitedOf, ConnInv, ConnTypeOK, clientVars
  <2>2. QED
    BY Zenon, <1>8, <2>1 DEF Close, ST!timeoutVars, StateOf, WaitedOf
<1>9. ASSUME NEW c \in Clients, Break(c) \/ SendPing(c) \/ PingDone(c) PROVE UNCHANGED ST!timeoutVars
  BY Zenon, <1>9, TimeoutsStutter DEF Break, SendPing, PingDone, clientVars
<1>10. ASSUME NEW c \in Clients, NEW r \in IO, Request(c, r) \/ Returned(c, r)
       PROVE  UNCHANGED ST!timeoutVars
  BY Zenon, <1>10, TimeoutsStutter DEF Request, Returned, clientVars
<1>11. ASSUME NEW c \in Clients, NEW q \in Seqs, WireWrite(c, q) \/ Serve(c, q) \/ WireRead(c, q)
       PROVE  UNCHANGED ST!timeoutVars
  BY Zenon, <1>11, TimeoutsStutter DEF WireWrite, Serve, WireRead
<1>12. CASE UNCHANGED connVars
  BY Zenon, <1>12, TimeoutsStutter DEF connVars
<1>13. QED
  BY Zenon, <1>1, <1>2, <1>3, <1>4, <1>5, <1>6, <1>7, <1>8, <1>9, <1>10, <1>11, <1>12 DEF ConnNext, LoopStep

\* The clients implement the shared timeouts: each is counted once while its loop runs
\* and has not timed out, whatever fails and in whatever order (loop,
\* handleClientError, CheckAndDecrement).
THEOREM ConnUsesTimeouts == ConnSpec => TimeoutsUsed
<1>1. ConnInit => ST!TimeoutsInit
  BY Zenon DEF ConnInit, ST!TimeoutsInit
<1>2. QED
  BY ConnStarts, ConnStep, TimeoutsSimulated, <1>1, PTL DEF ConnSpec, TimeoutsUsed, ST!TimeoutsSpec

-----------------------------------------------------------------------------
\* The requests and their answers.
Phases == {"new", "queued", "pending", "ok", "err"}
Places == {"none", "send", "wire", "reply", "refused", "resp", "respErr"}
Messages == [r : Reqs \cup {NoReq}, at : Places]

\* What holds of one client, of the values p, m, s, g, a and n of phase, messages, seq,
\* msg, applied and ioInflight: a number stands for the request its message was made
\* from, no two messages are made from the same I/O, and no I/O is carried out before
\* its message arrives or after its answer is sent.
ChanOK(p, m, s, g, a, n) ==
    /\ \A q \in Seqs : m[q] # NoReq => p[m[q]] = "pending" /\ g[q].r = m[q] /\ q <= s
    /\ \A q \in Seqs : q > s => g[q].r = NoReq
    /\ \A q \in Seqs : g[q].r = NoReq => g[q].at = "none"
    /\ \A q, k \in Seqs : m[q] # NoReq /\ m[q] = m[k] => q = k
    /\ \A q, k \in Seqs : g[q].r \in IO /\ g[q].r = g[k].r => q = k
    /\ \A r \in IO : p[r] \in {"new", "queued"} => a[r] = 0 /\ \A q \in Seqs : g[q].r # r
    /\ \A r \in IO : p[r] = "ok" => a[r] = 1
    /\ \A q \in Seqs : g[q].r \in IO => /\ g[q].at \in {"send", "wire"} => a[g[q].r] = 0
                                        /\ g[q].at \in {"reply", "resp"} => a[g[q].r] = 1
    /\ n = Cardinality({r \in IO : p[r] = "pending"})

ChanTyped(p, m, s, g, a, n) ==
    /\ p \in [Reqs -> Phases]
    /\ m \in [Seqs -> Reqs \cup {NoReq}]
    /\ s \in Nat
    /\ g \in [Seqs -> Messages]
    /\ a \in [Reqs -> 0..1]
    /\ n \in Int

\* The inductive invariant: every client is as ChanOK says.
ChanInv ==
    /\ phase \in [Clients -> [Reqs -> Phases]]
    /\ messages \in [Clients -> [Seqs -> Reqs \cup {NoReq}]]
    /\ seq \in [Clients -> Nat]
    /\ msg \in [Clients -> [Seqs -> Messages]]
    /\ applied \in [Clients -> [Reqs -> 0..1]]
    /\ ioInflight \in [Clients -> Int]
    /\ \A c \in Clients : ChanOK(phase[c], messages[c], seq[c], msg[c], applied[c], ioInflight[c])

\* What a client waits for is finite, and one more or one less when a request is sent
\* or answered.
LEMMA WaitCounts ==
  ASSUME NEW p \in [Reqs -> Phases], NEW x \in [Reqs -> Phases], NEW r \in IO,
         p[r] # "pending", x[r] = "pending", \A k \in IO \ {r} : x[k] = p[k]
  PROVE  Cardinality({k \in IO : x[k] = "pending"}) = Cardinality({k \in IO : p[k] = "pending"}) + 1
<1> DEFINE P == {k \in IO : p[k] = "pending"}
           X == {k \in IO : x[k] = "pending"}
<1>1. IsFiniteSet(P)
  BY Zenon, ConnAssumption, FS_Subset
<1>2. X = P \cup {r} /\ r \notin P
  OBVIOUS
<1>3. Cardinality(P \cup {r}) = Cardinality(P) + 1
  BY Zenon, <1>1, <1>2, FS_AddElement
<1>4. QED
  BY Zenon, <1>2, <1>3

\* Where the other requests are does not matter to the count.
LEMMA WaitSame ==
  ASSUME NEW p \in [Reqs -> Phases], NEW x \in [Reqs -> Phases],
         \A k \in IO : x[k] = "pending" <=> p[k] = "pending"
  PROVE  Cardinality({k \in IO : x[k] = "pending"}) = Cardinality({k \in IO : p[k] = "pending"})
<1>1. {k \in IO : x[k] = "pending"} = {k \in IO : p[k] = "pending"}
  BY Zenon
<1>2. QED
  BY Zenon, <1>1

\* A message that moves stays the message of its request.
LEMMA MessageMoves ==
  ASSUME NEW g \in [Seqs -> Messages], NEW q \in Seqs, NEW v \in Places,
         NEW y, y = g[q], NEW x, x = [y EXCEPT !.at = v],
         NEW h, h = [g EXCEPT ![q] = x]
  PROVE  /\ h \in [Seqs -> Messages] /\ h[q].at = v
         /\ \A k \in Seqs : h[k].r = g[k].r
         /\ \A k \in Seqs \ {q} : h[k].at = g[k].at
<1>1. x \in Messages /\ x.r = y.r /\ x.at = v
  BY Zenon DEF Messages
<1>2. QED
  BY Zenon, <1>1

\* A request that is put into the queue has no number yet.
LEMMA ChanQueues ==
  ASSUME NEW p, NEW m, NEW s, NEW g, NEW a, NEW n,
         ChanTyped(p, m, s, g, a, n), ChanOK(p, m, s, g, a, n),
         NEW r \in Reqs, p[r] \in {"new", "ok"}, r \in IO => p[r] = "new",
         NEW x, x = [p EXCEPT ![r] = "queued"]
  PROVE  ChanTyped(x, m, s, g, a, n) /\ ChanOK(x, m, s, g, a, n)
<1>1. x \in [Reqs -> Phases] /\ x[r] = "queued" /\ \A k \in Reqs \ {r} : x[k] = p[k]
  BY Zenon DEF ChanTyped, Phases
<1>2. n = Cardinality({k \in IO : x[k] = "pending"})
  BY Zenon, <1>1, WaitSame DEF ChanTyped, ChanOK, Reqs
<1>3. \A q \in Seqs : m[q] # NoReq => x[m[q]] = "pending"
  BY Zenon, <1>1 DEF ChanTyped, ChanOK
<1>4. QED
  BY Zenon, <1>1, <1>2, <1>3 DEF ChanTyped, ChanOK, Reqs

\* A request that is answered before it is sent never reaches the replica.
LEMMA ChanRefuses ==
  ASSUME NEW p, NEW m, NEW s, NEW g, NEW a, NEW n,
         ChanTyped(p, m, s, g, a, n), ChanOK(p, m, s, g, a, n),
         NEW r \in Reqs, p[r] = "queued",
         NEW x, x = [p EXCEPT ![r] = "err"]
  PROVE  ChanTyped(x, m, s, g, a, n) /\ ChanOK(x, m, s, g, a, n)
<1>1. x \in [Reqs -> Phases] /\ x[r] = "err" /\ \A k \in Reqs \ {r} : x[k] = p[k]
  BY Zenon DEF ChanTyped, Phases
<1>2. n = Cardinality({k \in IO : x[k] = "pending"})
  BY Zenon, <1>1, WaitSame DEF ChanTyped, ChanOK, Reqs
<1>3. \A q \in Seqs : m[q] # NoReq => x[m[q]] = "pending"
  BY Zenon, <1>1 DEF ChanTyped, ChanOK
<1>4. QED
  BY Zenon, <1>1, <1>2, <1>3 DEF ChanTyped, ChanOK, Reqs

\* A request is sent under a number no message has had (the else branch of
\* handleRequest).
LEMMA ChanSends ==
  ASSUME NEW p, NEW m, NEW s, NEW g, NEW a, NEW n,
         ChanTyped(p, m, s, g, a, n), ChanOK(p, m, s, g, a, n),
         NEW r \in Reqs, p[r] = "queued", s < MaxSeq,
         NEW x, x = [p EXCEPT ![r] = "pending"],
         NEW w, w = [m EXCEPT ![s + 1] = r],
         NEW h, h = [g EXCEPT ![s + 1] = [r |-> r, at |-> "send"]],
         NEW i, i = IF r = Ping THEN n ELSE n + 1
  PROVE  ChanTyped(x, w, s + 1, h, a, i) /\ ChanOK(x, w, s + 1, h, a, i)
<1>1. x \in [Reqs -> Phases] /\ x[r] = "pending" /\ \A k \in Reqs \ {r} : x[k] = p[k]
  BY Zenon DEF ChanTyped, Phases
<1>2. PICK t : t = s + 1
  BY Zenon
<1>3. t \in Seqs /\ t \in Nat /\ t > s
  BY <1>2, ConnAssumption DEF ChanTyped, Seqs
<1>4. PICK y : y = [r |-> r, at |-> "send"]
  BY Zenon
<1>5. y \in Messages /\ y.r = r /\ y.at = "send"
  BY Zenon, <1>4 DEF Messages, Places
<1>6. h \in [Seqs -> Messages] /\ h[t] = y /\ \A k \in Seqs \ {t} : h[k] = g[k]
  BY Zenon, <1>2, <1>3, <1>4, <1>5 DEF ChanTyped
<1>7. w \in [Seqs -> Reqs \cup {NoReq}] /\ w[t] = r /\ \A k \in Seqs \ {t} : w[k] = m[k]
  BY Zenon, <1>2, <1>3 DEF ChanTyped
<1>8. i \in Int /\ i = Cardinality({k \in IO : x[k] = "pending"})
  <2>1. CASE r = Ping
    <3>1. \A k \in IO : x[k] = p[k]
      BY Zenon, <1>1, <2>1, ConnAssumption DEF Reqs
    <3>2. Cardinality({k \in IO : x[k] = "pending"}) = Cardinality({k \in IO : p[k] = "pending"})
      BY Zenon, <1>1, <3>1, WaitSame DEF ChanTyped
    <3>3. QED
      BY Zenon, <2>1, <3>2 DEF ChanTyped, ChanOK
  <2>2. CASE r # Ping
    <3>1. r \in IO /\ i = n + 1
      BY Zenon, <2>2 DEF Reqs
    <3>2. Cardinality({k \in IO : x[k] = "pending"}) = Cardinality({k \in IO : p[k] = "pending"}) + 1
      BY Zenon, <1>1, <3>1, WaitCounts DEF ChanTyped, Reqs
    <3>3. QED
      BY <2>2, <3>2 DEF ChanTyped, ChanOK
  <2>3. QED
    BY Zenon, <2>1, <2>2
<1>9. r # NoReq
  BY Zenon, ConnAssumption DEF Reqs
<1>10. \A q \in Seqs : q # t => m[q] # r
  BY Zenon, <1>9 DEF ChanOK
<1>11. r \in IO => \A q \in Seqs : g[q].r # r
  BY Zenon DEF ChanOK
<1>12. ChanTyped(x, w, t, h, a, i)
  BY Zenon, <1>1, <1>3, <1>6, <1>7, <1>8 DEF ChanTyped
<1>13. ChanOK(x, w, t, h, a, i)
  <2>1. ASSUME NEW q \in Seqs, w[q] # NoReq PROVE x[w[q]] = "pending" /\ h[q].r = w[q] /\ q <= t
    <3>1. CASE q = t
      BY <3>1, <1>1, <1>3, <1>5, <1>6, <1>7
    <3>2. CASE q # t
      <4>1. w[q] = m[q] /\ m[q] # r /\ h[q] = g[q] /\ m[q] \in Reqs
        BY Zenon, <2>1, <3>2, <1>6, <1>7, <1>10 DEF ChanTyped
      <4>2. p[m[q]] = "pending" /\ g[q].r = m[q] /\ q <= s
        BY Zenon, <2>1, <4>1 DEF ChanOK
      <4>3. q <= t
        BY <4>2, <1>2 DEF Seqs, ChanTyped
      <4>4. QED
        BY Zenon, <4>1, <4>2, <4>3, <1>1
    <3>3. QED
      BY Zenon, <3>1, <3>2
  <2>2. ASSUME NEW q \in Seqs, q > t PROVE h[q].r = NoReq
    <3>1. q # t /\ q > s
      BY <2>2, <1>2 DEF Seqs, ChanTyped
    <3>2. QED
      BY Zenon, <3>1, <1>6 DEF ChanOK
  <2>3. \A q \in Seqs : h[q].r = NoReq => h[q].at = "none"
    BY Zenon, <1>5, <1>6, <1>9 DEF ChanOK
  <2>4. \A q, k \in Seqs : w[q] # NoReq /\ w[q] = w[k] => q = k
    BY Zenon, <1>7, <1>10 DEF ChanOK
  <2>5. \A q, k \in Seqs : h[q].r \in IO /\ h[q].r = h[k].r => q = k
    BY <1>5, <1>6, <1>11 DEF ChanOK
  <2>6. \A k \in IO : x[k] \in {"new", "queued"} => a[k] = 0 /\ \A q \in Seqs : h[q].r # k
    BY <1>1, <1>5, <1>6 DEF ChanOK, Reqs
  <2>7. \A k \in IO : x[k] = "ok" => a[k] = 1
    BY Zenon, <1>1 DEF ChanOK, Reqs
  <2>8. ASSUME NEW q \in Seqs, h[q].r \in IO
        PROVE  /\ h[q].at \in {"send", "wire"} => a[h[q].r] = 0
               /\ h[q].at \in {"reply", "resp"} => a[h[q].r] = 1
    <3>1. CASE q = t
      BY Zenon, <2>8, <3>1, <1>5, <1>6 DEF ChanOK
    <3>2. CASE q # t
      BY Zenon, <2>8, <3>2, <1>6 DEF ChanOK
    <3>3. QED
      BY Zenon, <3>1, <3>2
  <2>9. QED
    BY Zenon, <2>1, <2>2, <2>3, <2>4, <2>5, <2>6, <2>7, <2>8, <1>8 DEF ChanOK
<1>14. QED
  BY Zenon, <1>2, <1>12, <1>13

\* After handleClientError the client waits for nothing.
LEMMA ChanFails ==
  ASSUME NEW p, NEW m, NEW s, NEW g, NEW a, NEW n,
         ChanTyped(p, m, s, g, a, n), ChanOK(p, m, s, g, a, n),
         NEW x, x = [r \in Reqs |-> IF p[r] = "pending" THEN "err" ELSE p[r]],
         NEW w, w = [q \in Seqs |-> NoReq]
  PROVE  ChanTyped(x, w, s, g, a, 0) /\ ChanOK(x, w, s, g, a, 0)
<1>1. x \in [Reqs -> Phases] /\ w \in [Seqs -> Reqs \cup {NoReq}]
  BY Zenon DEF ChanTyped, Phases
<1>2. {k \in IO : x[k] = "pending"} = {}
  BY Zenon DEF ChanTyped, Reqs
<1>3. Cardinality({k \in IO : x[k] = "pending"}) = 0
  BY Zenon, <1>2, FS_EmptySet
<1>4. \A k \in IO : x[k] \in {"new", "queued", "ok"} => x[k] = p[k]
  BY Zenon DEF Reqs
<1>5. ChanOK(x, w, s, g, a, 0)
  BY Zenon, <1>3, <1>4 DEF ChanOK
<1>6. QED
  BY <1>1, <1>5 DEF ChanTyped

\* What handleResponse does: it answers the request r of number q with v.
Answered(p, m, g, n, q, r, v, x, w, h, i) ==
    /\ r = m[q] /\ r # NoReq /\ g[q].at \in {"resp", "respErr"}
    /\ v \in {"ok", "err"} /\ (v = "ok" => g[q].at = "resp")
    /\ x = [p EXCEPT ![r] = v]
    /\ w = [m EXCEPT ![q] = NoReq]
    /\ h = [g EXCEPT ![q].at = "none"]
    /\ i = IF r = Ping THEN n ELSE n - 1

\* An answer completes the request its number stands for, which the replica carried
\* out if the answer is not an error (handleResponse).
LEMMA ChanAnswers ==
  ASSUME NEW p, NEW m, NEW s, NEW g, NEW a, NEW n,
         ChanTyped(p, m, s, g, a, n), ChanOK(p, m, s, g, a, n),
         NEW q \in Seqs, NEW r, NEW v, NEW x, NEW w, NEW h, NEW i,
         Answered(p, m, g, n, q, r, v, x, w, h, i)
  PROVE  ChanTyped(x, w, s, h, a, i) /\ ChanOK(x, w, s, h, a, i)
<1>1. /\ r = m[q] /\ r # NoReq /\ g[q].at \in {"resp", "respErr"}
      /\ v \in {"ok", "err"} /\ (v = "ok" => g[q].at = "resp")
      /\ x = [p EXCEPT ![r] = v] /\ w = [m EXCEPT ![q] = NoReq]
  BY Zenon DEF Answered
<1>1a. h = [g EXCEPT ![q].at = "none"] /\ i = IF r = Ping THEN n ELSE n - 1
  BY Zenon DEF Answered
<1>2. r \in Reqs /\ p[r] = "pending" /\ g[q].r = r
  BY <1>1 DEF ChanTyped, ChanOK
<1>3. x \in [Reqs -> Phases] /\ x[r] = v /\ \A k \in Reqs \ {r} : x[k] = p[k]
  BY Zenon, <1>1, <1>2 DEF ChanTyped, Phases
<1>4. w \in [Seqs -> Reqs \cup {NoReq}] /\ w[q] = NoReq /\ \A k \in Seqs \ {q} : w[k] = m[k]
  BY Zenon, <1>1 DEF ChanTyped
<1>5. /\ h \in [Seqs -> Messages] /\ h[q].at = "none"
      /\ \A k \in Seqs : h[k].r = g[k].r
      /\ \A k \in Seqs \ {q} : h[k].at = g[k].at
  <2>1. "none" \in Places /\ g \in [Seqs -> Messages]
    BY Zenon DEF Places, ChanTyped
  <2>2. PICK y : y = g[q]
    BY Zenon
  <2>3. PICK z : z = [y EXCEPT !.at = "none"]
    BY Zenon
  <2>4. h = [g EXCEPT ![q] = z]
    BY Zenon, <1>1a, <2>2, <2>3
  <2>5. QED
    BY <2>1, <2>2, <2>3, <2>4, MessageMoves
<1>6. i \in Int /\ i = Cardinality({k \in IO : x[k] = "pending"})
  <2>1. CASE r = Ping
    <3>1. \A k \in IO : x[k] = p[k]
      BY Zenon, <1>3, <2>1, ConnAssumption DEF Reqs
    <3>2. Cardinality({k \in IO : x[k] = "pending"}) = Cardinality({k \in IO : p[k] = "pending"})
      BY Zenon, <1>3, <3>1, WaitSame DEF ChanTyped
    <3>3. QED
      BY Zenon, <1>1a, <2>1, <3>2 DEF ChanTyped, ChanOK
  <2>2. CASE r # Ping
    <3>1. r \in IO /\ i = n - 1
      BY Zenon, <1>1a, <1>2, <2>2 DEF Reqs
    <3>2. Cardinality({k \in IO : p[k] = "pending"}) = Cardinality({k \in IO : x[k] = "pending"}) + 1
      <4>1. x[r] # "pending" /\ \A k \in IO \ {r} : p[k] = x[k]
        BY Zenon, <1>1, <1>3 DEF Reqs
      <4>2. p \in [Reqs -> Phases]
        BY Zenon DEF ChanTyped
      <4>3. QED
        BY Zenon, <1>2, <1>3, <3>1, <4>1, <4>2, WaitCounts
    <3>3. IsFiniteSet({k \in IO : x[k] = "pending"})
      BY Zenon, ConnAssumption, FS_Subset
    <3>4. Cardinality({k \in IO : x[k] = "pending"}) \in Nat
      BY Zenon, <3>3, FS_CardinalityType
    <3>5. n = Cardinality({k \in IO : p[k] = "pending"})
      BY Zenon DEF ChanOK
    <3>6. QED
      BY <3>1, <3>2, <3>4, <3>5
  <2>3. QED
    BY Zenon, <2>1, <2>2
<1>7. \A k \in Seqs : k # q => m[k] # r
  BY Zenon, <1>1 DEF ChanOK
<1>8. ChanTyped(x, w, s, h, a, i)
  BY Zenon, <1>3, <1>4, <1>5, <1>6 DEF ChanTyped
<1>9. r \in IO /\ v = "ok" => a[r] = 1
  BY Zenon, <1>1, <1>2 DEF ChanOK
<1>10. ChanOK(x, w, s, h, a, i)
  <2>1. ASSUME NEW k \in Seqs, w[k] # NoReq PROVE x[w[k]] = "pending" /\ h[k].r = w[k] /\ k <= s
    <3>1. k # q /\ w[k] = m[k] /\ m[k] # r /\ m[k] \in Reqs
      BY Zenon, <2>1, <1>4, <1>7 DEF ChanTyped
    <3>2. p[m[k]] = "pending" /\ g[k].r = m[k] /\ k <= s
      BY Zenon, <2>1, <3>1 DEF ChanOK
    <3>3. QED
      BY Zenon, <3>1, <3>2, <1>3, <1>5
  <2>2. \A k \in Seqs : k > s => h[k].r = NoReq
    BY Zenon, <1>5 DEF ChanOK
  <2>3. \A k \in Seqs : h[k].r = NoReq => h[k].at = "none"
    BY Zenon, <1>5 DEF ChanOK
  <2>4. \A k, l \in Seqs : w[k] # NoReq /\ w[k] = w[l] => k = l
    BY <1>4 DEF ChanOK
  <2>5. \A k, l \in Seqs : h[k].r \in IO /\ h[k].r = h[l].r => k = l
    BY <1>5 DEF ChanOK
  <2>6. \A k \in IO : x[k] \in {"new", "queued"} => a[k] = 0 /\ \A l \in Seqs : h[l].r # k
    BY <1>1, <1>3, <1>5 DEF ChanOK, Reqs
  <2>7. \A k \in IO : x[k] = "ok" => a[k] = 1
    BY Zenon, <1>3, <1>9 DEF ChanOK, Reqs
  <2>8. ASSUME NEW k \in Seqs, h[k].r \in IO
        PROVE  /\ h[k].at \in {"send", "wire"} => a[h[k].r] = 0
               /\ h[k].at \in {"reply", "resp"} => a[h[k].r] = 1
    <3>1. CASE k = q
      BY Zenon, <1>5, <3>1
    <3>2. CASE k # q
      <4>1. h[k].r = g[k].r /\ h[k].at = g[k].at
        BY Zenon, <1>5, <3>2
      <4>2. QED
        BY Zenon, <2>8, <4>1 DEF ChanOK
    <3>3. QED
      BY Zenon, <3>1, <3>2
  <2>9. QED
    BY Zenon, <2>1, <2>2, <2>3, <2>4, <2>5, <2>6, <2>7, <2>8, <1>6 DEF ChanOK
<1>11. QED
  BY Zenon, <1>8, <1>10

\* Messages move on, or are lost.
LEMMA ChanMoves ==
  ASSUME NEW p, NEW m, NEW s, NEW g, NEW a, NEW n,
         ChanTyped(p, m, s, g, a, n), ChanOK(p, m, s, g, a, n),
         NEW h \in [Seqs -> Messages],
         \A q \in Seqs : /\ h[q].r = g[q].r
                         /\ g[q].at = "none" => h[q].at = "none"
                         /\ h[q].at \in {"send", "wire"} => g[q].at \in {"send", "wire"}
                         /\ h[q].at \in {"reply", "resp"} => g[q].at \in {"reply", "resp"}
  PROVE  ChanTyped(p, m, s, h, a, n) /\ ChanOK(p, m, s, h, a, n)
<1>1. ChanTyped(p, m, s, h, a, n)
  BY Zenon DEF ChanTyped
<1>2. ChanOK(p, m, s, h, a, n)
  BY DEF ChanOK
<1>3. QED
  BY Zenon, <1>1, <1>2

\* A request arrives at the replica once, before any answer to it (Server.handle).
LEMMA ChanServes ==
  ASSUME NEW p, NEW m, NEW s, NEW g, NEW a, NEW n,
         ChanTyped(p, m, s, g, a, n), ChanOK(p, m, s, g, a, n),
         NEW q \in Seqs, g[q].at = "wire",
         NEW h, h = [g EXCEPT ![q].at = "reply"],
         NEW b, b = [a EXCEPT ![g[q].r] = IF g[q].r = Ping THEN 0 ELSE @ + 1]
  PROVE  ChanTyped(p, m, s, h, b, n) /\ ChanOK(p, m, s, h, b, n)
<1>1. PICK r : r = g[q].r
  BY Zenon
<1>2. r \in Reqs
  <2>1. r # NoReq
    BY Zenon, <1>1 DEF ChanOK
  <2>2. g[q] \in Messages
    BY Zenon DEF ChanTyped
  <2>3. QED
    BY Zenon, <1>1, <2>1, <2>2 DEF Messages
<1>3. /\ h \in [Seqs -> Messages] /\ h[q].at = "reply"
      /\ \A k \in Seqs : h[k].r = g[k].r
      /\ \A k \in Seqs \ {q} : h[k].at = g[k].at
  <2>1. "reply" \in Places /\ g \in [Seqs -> Messages]
    BY Zenon DEF Places, ChanTyped
  <2>2. PICK y : y = g[q]
    BY Zenon
  <2>3. PICK z : z = [y EXCEPT !.at = "reply"]
    BY Zenon
  <2>4. h = [g EXCEPT ![q] = z]
    BY Zenon, <2>2, <2>3
  <2>5. QED
    BY <2>1, <2>2, <2>3, <2>4, MessageMoves
<1>4. r \in IO => a[r] = 0
  BY Zenon, <1>1 DEF ChanOK
<1>5. b \in [Reqs -> 0..1] /\ (r \in IO => b[r] = 1) /\ \A k \in Reqs \ {r} : b[k] = a[k]
  BY <1>1, <1>2, <1>4, ConnAssumption DEF ChanTyped, Reqs
<1>6. ChanTyped(p, m, s, h, b, n)
  BY Zenon, <1>3, <1>5 DEF ChanTyped
<1>7. r \in IO => \A k \in Seqs \ {q} : g[k].r # r
  BY Zenon, <1>1 DEF ChanOK
<1>8. r \in IO => p[r] \notin {"new", "queued", "ok"}
  BY <1>1, <1>4 DEF ChanOK
<1>9. ChanOK(p, m, s, h, b, n)
  <2>1. \A k \in IO : p[k] \in {"new", "queued"} => b[k] = 0 /\ \A l \in Seqs : h[l].r # k
    BY <1>3, <1>5, <1>8 DEF ChanOK, Reqs
  <2>2. \A k \in IO : p[k] = "ok" => b[k] = 1
    BY Zenon, <1>5, <1>8 DEF ChanOK, Reqs
  <2>3. ASSUME NEW k \in Seqs, h[k].r \in IO
        PROVE  /\ h[k].at \in {"send", "wire"} => b[h[k].r] = 0
               /\ h[k].at \in {"reply", "resp"} => b[h[k].r] = 1
    <3>1. CASE k = q
      BY Zenon, <2>3, <3>1, <1>1, <1>3, <1>5
    <3>2. CASE k # q
      <4>1. h[k].r = g[k].r /\ h[k].at = g[k].at /\ g[k].r # r /\ g[k].r \in Reqs
        BY Zenon, <2>3, <3>2, <1>1, <1>3, <1>7 DEF Reqs, ChanOK
      <4>2. QED
        BY <2>3, <4>1, <1>5 DEF ChanOK
    <3>3. QED
      BY Zenon, <3>1, <3>2
  <2>4. \A k \in Seqs : h[k].r = NoReq => h[k].at = "none"
    BY <1>1, <1>2, <1>3, ConnAssumption DEF ChanOK, Reqs
  <2>5. QED
    BY <1>3, <2>1, <2>2, <2>3, <2>4 DEF ChanOK
<1>10. QED
  BY Zenon, <1>6, <1>9

\* A client at a time.
LEMMA ChanStep ==
  ASSUME ChanInv, NEW c \in Clients,
         NEW p, NEW m, NEW s, NEW g, NEW a, NEW n,
         ChanTyped(p, m, s, g, a, n), ChanOK(p, m, s, g, a, n),
         phase' = [phase EXCEPT ![c] = p], messages' = [messages EXCEPT ![c] = m],
         seq' = [seq EXCEPT ![c] = s], msg' = [msg EXCEPT ![c] = g],
         applied' = [applied EXCEPT ![c] = a], ioInflight' = [ioInflight EXCEPT ![c] = n]
  PROVE  ChanInv'
<1>1. /\ phase' \in [Clients -> [Reqs -> Phases]]
      /\ messages' \in [Clients -> [Seqs -> Reqs \cup {NoReq}]]
      /\ seq' \in [Clients -> Nat]
  BY Zenon DEF ChanInv, ChanTyped
<1>2. /\ msg' \in [Clients -> [Seqs -> Messages]]
      /\ applied' \in [Clients -> [Reqs -> 0..1]]
      /\ ioInflight' \in [Clients -> Int]
  BY Zenon DEF ChanInv, ChanTyped
<1>3. ASSUME NEW d \in Clients
      PROVE  ChanOK(phase'[d], messages'[d], seq'[d], msg'[d], applied'[d], ioInflight'[d])
  <2>1. CASE d = c
    BY Zenon, <2>1 DEF ChanInv
  <2>2. CASE d # c
    BY Zenon, <2>2 DEF ChanInv
  <2>3. QED
    BY Zenon, <2>1, <2>2
<1>4. QED
  BY Zenon, <1>1, <1>2, <1>3 DEF ChanInv

\* A step that changes only where the requests of a client are.
LEMMA PhaseStep ==
  ASSUME ChanInv, NEW c \in Clients, NEW x,
         ChanTyped(x, messages[c], seq[c], msg[c], applied[c], ioInflight[c]), ChanOK(x, messages[c], seq[c], msg[c], applied[c], ioInflight[c]),
         phase' = [phase EXCEPT ![c] = x], UNCHANGED <<messages, seq, msg, applied, ioInflight>>
  PROVE  ChanInv'
<1>1. phase' \in [Clients -> [Reqs -> Phases]]
  BY Zenon DEF ChanInv, ChanTyped
<1>2. ASSUME NEW d \in Clients
      PROVE  ChanOK(phase'[d], messages'[d], seq'[d], msg'[d], applied'[d], ioInflight'[d])
  <2>1. CASE d = c
    BY Zenon, <2>1 DEF ChanInv
  <2>2. CASE d # c
    BY Zenon, <2>2 DEF ChanInv
  <2>3. QED
    BY Zenon, <2>1, <2>2
<1>3. QED
  BY Zenon, <1>1, <1>2 DEF ChanInv

\* A step that changes only where the messages of a client are.
LEMMA MessageStep ==
  ASSUME ChanInv, NEW c \in Clients, NEW h,
         ChanTyped(phase[c], messages[c], seq[c], h, applied[c], ioInflight[c]), ChanOK(phase[c], messages[c], seq[c], h, applied[c], ioInflight[c]),
         msg' = [msg EXCEPT ![c] = h], UNCHANGED <<phase, messages, seq, applied, ioInflight>>
  PROVE  ChanInv'
<1>1. msg' \in [Clients -> [Seqs -> Messages]]
  BY Zenon DEF ChanInv, ChanTyped
<1>2. ASSUME NEW d \in Clients
      PROVE  ChanOK(phase'[d], messages'[d], seq'[d], msg'[d], applied'[d], ioInflight'[d])
  <2>1. CASE d = c
    BY Zenon, <2>1 DEF ChanInv
  <2>2. CASE d # c
    BY Zenon, <2>2 DEF ChanInv
  <2>3. QED
    BY Zenon, <2>1, <2>2
<1>3. QED
  BY Zenon, <1>1, <1>2 DEF ChanInv

\* What the invariant says of a client.
LEMMA ChanOf ==
  ASSUME ChanInv, NEW c \in Clients
  PROVE  /\ ChanTyped(phase[c], messages[c], seq[c], msg[c], applied[c], ioInflight[c])
         /\ ChanOK(phase[c], messages[c], seq[c], msg[c], applied[c], ioInflight[c])
         /\ phase = [phase EXCEPT ![c] = phase[c]] /\ messages = [messages EXCEPT ![c] = messages[c]]
         /\ seq = [seq EXCEPT ![c] = seq[c]] /\ msg = [msg EXCEPT ![c] = msg[c]]
         /\ applied = [applied EXCEPT ![c] = applied[c]]
         /\ ioInflight = [ioInflight EXCEPT ![c] = ioInflight[c]]
<1>1. ChanTyped(phase[c], messages[c], seq[c], msg[c], applied[c], ioInflight[c])
  BY Zenon DEF ChanInv, ChanTyped
<1>2. ChanOK(phase[c], messages[c], seq[c], msg[c], applied[c], ioInflight[c])
  BY Zenon DEF ChanInv
<1>3. QED
  BY Zenon, <1>1, <1>2 DEF ChanInv

\* The invariant holds at the start.
LEMMA ChanStarts == ConnInit => ChanInv
<1> SUFFICES ASSUME ConnInit PROVE ChanInv
  BY Zenon
<1>1. PICK y : y = [r |-> NoReq, at |-> "none"]
  BY Zenon
<1>2. y \in Messages /\ y.r = NoReq /\ y.at = "none"
  BY Zenon, <1>1 DEF Messages, Places
<1>3. msg = [c \in Clients |-> [q \in Seqs |-> y]]
  BY Zenon, <1>1 DEF ConnInit
<1>4. ASSUME NEW c \in Clients
      PROVE  ChanOK(phase[c], messages[c], seq[c], msg[c], applied[c], ioInflight[c])
  <2>1. {r \in IO : phase[c][r] = "pending"} = {}
    BY Zenon DEF ConnInit, Reqs
  <2>2. Cardinality({r \in IO : phase[c][r] = "pending"}) = 0
    BY Zenon, <2>1, FS_EmptySet
  <2>3. \A q \in Seqs : messages[c][q] = NoReq /\ msg[c][q] = y
    BY <1>3 DEF ConnInit
  <2>4. \A r \in IO : phase[c][r] = "new" /\ applied[c][r] = 0
    BY Zenon DEF ConnInit, Reqs
  <2>5. ioInflight[c] = 0
    BY Zenon DEF ConnInit
  <2>6. QED
    BY Zenon, <1>2, <2>2, <2>3, <2>4, <2>5, ConnAssumption DEF ChanOK, Reqs
<1>5. phase \in [Clients -> [Reqs -> Phases]] /\ applied \in [Clients -> [Reqs -> 0..1]]
  BY DEF ConnInit, Phases
<1>6. messages \in [Clients -> [Seqs -> Reqs \cup {NoReq}]] /\ msg \in [Clients -> [Seqs -> Messages]]
  BY Zenon, <1>2, <1>3 DEF ConnInit
<1>7. seq \in [Clients -> Nat] /\ ioInflight \in [Clients -> Int]
  BY DEF ConnInit
<1>8. QED
  BY Zenon, <1>4, <1>5, <1>6, <1>7 DEF ChanInv

\* A request of the controller or a ping is queued.
LEMMA QueueStep ==
  ASSUME ChanInv, NEW c \in Clients, NEW r \in Reqs,
         phase[c][r] \in {"new", "ok"}, r \in IO => phase[c][r] = "new",
         phase' = [phase EXCEPT ![c][r] = "queued"],
         UNCHANGED <<messages, seq, msg, applied, ioInflight>>
  PROVE  ChanInv'
<1>0. /\ ChanTyped(phase[c], messages[c], seq[c], msg[c], applied[c], ioInflight[c])
       /\ ChanOK(phase[c], messages[c], seq[c], msg[c], applied[c], ioInflight[c])
  BY Zenon, ChanOf
<1>1. PICK x : x = [phase[c] EXCEPT ![r] = "queued"]
  BY Zenon
<1>2. /\ ChanTyped(x, messages[c], seq[c], msg[c], applied[c], ioInflight[c])
      /\ ChanOK(x, messages[c], seq[c], msg[c], applied[c], ioInflight[c])
  BY Zenon, <1>1, <1>0, ChanQueues
<1>3. phase' = [phase EXCEPT ![c] = x]
  BY Zenon, <1>1
<1>4. QED
  BY Zenon, <1>2, <1>3, PhaseStep

\* The loop takes a request.
LEMMA TakeRequestStep ==
  ASSUME ChanInv, NEW c \in Clients, NEW r \in Reqs, TakeRequest(c, r)
  PROVE  ChanInv'
<1>0. /\ ChanTyped(phase[c], messages[c], seq[c], msg[c], applied[c], ioInflight[c])
       /\ ChanOK(phase[c], messages[c], seq[c], msg[c], applied[c], ioInflight[c])
  BY Zenon, ChanOf
<1>0a. /\ messages = [messages EXCEPT ![c] = messages[c]] /\ seq = [seq EXCEPT ![c] = seq[c]]
       /\ msg = [msg EXCEPT ![c] = msg[c]] /\ applied = [applied EXCEPT ![c] = applied[c]]
       /\ ioInflight = [ioInflight EXCEPT ![c] = ioInflight[c]]
  BY Zenon, ChanOf
<1>1. phase[c][r] = "queued" /\ UNCHANGED applied
  BY Zenon DEF TakeRequest
<1>2. CASE clientError[c]
  <2>1. PICK x : x = [phase[c] EXCEPT ![r] = "err"]
    BY Zenon
  <2>2. /\ ChanTyped(x, messages[c], seq[c], msg[c], applied[c], ioInflight[c])
        /\ ChanOK(x, messages[c], seq[c], msg[c], applied[c], ioInflight[c])
    BY Zenon, <1>1, <2>1, <1>0, ChanRefuses
  <2>4. phase' = [phase EXCEPT ![c] = x] /\ UNCHANGED <<messages, seq, msg, ioInflight>>
    BY Zenon, <1>2, <2>1 DEF TakeRequest
  <2>5. QED
    BY Zenon, <1>1, <2>2, <2>4, PhaseStep
<1>3. CASE ~clientError[c]
  <2>1. PICK x : x = [phase[c] EXCEPT ![r] = "pending"]
    BY Zenon
  <2>2. PICK w : w = [messages[c] EXCEPT ![seq[c] + 1] = r]
    BY Zenon
  <2>3. PICK h : h = [msg[c] EXCEPT ![seq[c] + 1] = [r |-> r, at |-> "send"]]
    BY Zenon
  <2>4. PICK i : i = IF r = Ping THEN ioInflight[c] ELSE ioInflight[c] + 1
    BY Zenon
  <2>5. PICK t : t = seq[c] + 1
    BY Zenon
  <2>6. phase' = [phase EXCEPT ![c] = x] /\ messages' = [messages EXCEPT ![c] = w]
    BY Zenon, <1>3, <2>1, <2>2 DEF TakeRequest
  <2>7. msg' = [msg EXCEPT ![c] = h] /\ seq' = [seq EXCEPT ![c] = t] /\ seq[c] < MaxSeq
    BY Zenon, <1>3, <2>3, <2>5 DEF TakeRequest
  <2>8. ioInflight' = [ioInflight EXCEPT ![c] = i]
    BY <1>3, <2>4 DEF TakeRequest, ChanInv
  <2>9. ChanTyped(x, w, t, h, applied[c], i) /\ ChanOK(x, w, t, h, applied[c], i)
    BY <1>1, <2>1, <2>2, <2>3, <2>4, <2>5, <2>7, <1>0, ChanSends
  <2>10. applied' = [applied EXCEPT ![c] = applied[c]]
    BY Zenon, <1>1, <1>0a
  <2>11. QED
    BY Zenon, <2>6, <2>7, <2>8, <2>9, <2>10, ChanStep
<1>4. QED
  BY Zenon, <1>2, <1>3

\* The client fails.
LEMMA FailStep ==
  ASSUME ChanInv, NEW c \in Clients, Fail(c), UNCHANGED <<seq, msg, applied>>
  PROVE  ChanInv'
<1>0. /\ ChanTyped(phase[c], messages[c], seq[c], msg[c], applied[c], ioInflight[c])
       /\ ChanOK(phase[c], messages[c], seq[c], msg[c], applied[c], ioInflight[c])
  BY Zenon, ChanOf
<1>0a. /\ messages = [messages EXCEPT ![c] = messages[c]] /\ seq = [seq EXCEPT ![c] = seq[c]]
       /\ msg = [msg EXCEPT ![c] = msg[c]] /\ applied = [applied EXCEPT ![c] = applied[c]]
       /\ ioInflight = [ioInflight EXCEPT ![c] = ioInflight[c]]
  BY Zenon, ChanOf
<1>1. PICK x : x = [r \in Reqs |-> IF phase[c][r] = "pending" THEN "err" ELSE phase[c][r]]
  BY Zenon
<1>2. PICK w : w = [q \in Seqs |-> NoReq]
  BY Zenon
<1>3. phase' = [phase EXCEPT ![c] = x] /\ messages' = [messages EXCEPT ![c] = w]
  BY Zenon, <1>1, <1>2 DEF Fail
<1>4. ioInflight' = [ioInflight EXCEPT ![c] = 0]
  BY Zenon DEF Fail
<1>5. ChanTyped(x, w, seq[c], msg[c], applied[c], 0) /\ ChanOK(x, w, seq[c], msg[c], applied[c], 0)
  BY Zenon, <1>1, <1>2, <1>0, ChanFails
<1>6. /\ seq' = [seq EXCEPT ![c] = seq[c]] /\ msg' = [msg EXCEPT ![c] = msg[c]]
      /\ applied' = [applied EXCEPT ![c] = applied[c]]
  BY Zenon, <1>0a
<1>7. QED
  BY Zenon, <1>3, <1>4, <1>5, <1>6, ChanStep

\* A message is written to the connection, or given up.
LEMMA WireWriteStep ==
  ASSUME ChanInv, NEW c \in Clients, NEW q \in Seqs, WireWrite(c, q)
  PROVE  ChanInv'
<1>1. PICK v : v = IF up[c] /\ messages[c][q] # NoReq THEN "wire" ELSE "none"
  BY Zenon
<1>2. PICK y : y = msg[c][q]
  BY Zenon
<1>3. PICK z : z = [y EXCEPT !.at = v]
  BY Zenon
<1>4. PICK h : h = [msg[c] EXCEPT ![q] = z]
  BY Zenon
<1>5. /\ msg' = [msg EXCEPT ![c] = h] /\ y.at = "send"
      /\ UNCHANGED <<phase, messages, seq, applied, ioInflight>>
  BY Zenon, <1>1, <1>2, <1>3, <1>4 DEF WireWrite
<1>6. v \in Places /\ msg[c] \in [Seqs -> Messages]
  BY Zenon, <1>1 DEF Places, ChanInv
<1>7. /\ h \in [Seqs -> Messages] /\ h[q].at = v
      /\ \A k \in Seqs : h[k].r = msg[c][k].r
      /\ \A k \in Seqs \ {q} : h[k].at = msg[c][k].at
  BY <1>2, <1>3, <1>4, <1>6, MessageMoves
<1>8. /\ ChanTyped(phase[c], messages[c], seq[c], msg[c], applied[c], ioInflight[c])
      /\ ChanOK(phase[c], messages[c], seq[c], msg[c], applied[c], ioInflight[c])
  BY Zenon, ChanOf
<1>9. \A k \in Seqs : /\ h[k].r = msg[c][k].r
                      /\ msg[c][k].at = "none" => h[k].at = "none"
                      /\ h[k].at \in {"send", "wire"} => msg[c][k].at \in {"send", "wire"}
                      /\ h[k].at \in {"reply", "resp"} => msg[c][k].at \in {"reply", "resp"}
  BY Zenon, <1>1, <1>2, <1>5, <1>7
<1>10. /\ ChanTyped(phase[c], messages[c], seq[c], h, applied[c], ioInflight[c])
       /\ ChanOK(phase[c], messages[c], seq[c], h, applied[c], ioInflight[c])
  BY Zenon, <1>7, <1>8, <1>9, ChanMoves
<1>11. QED
  BY Zenon, <1>5, <1>10, MessageStep

\* An answer is read from the connection.
LEMMA WireReadStep ==
  ASSUME ChanInv, NEW c \in Clients, NEW q \in Seqs, WireRead(c, q)
  PROVE  ChanInv'
<1>1. PICK v : v = IF msg[c][q].at = "reply" THEN "resp" ELSE "respErr"
  BY Zenon
<1>2. PICK y : y = msg[c][q]
  BY Zenon
<1>3. PICK z : z = [y EXCEPT !.at = v]
  BY Zenon
<1>4. PICK h : h = [msg[c] EXCEPT ![q] = z]
  BY Zenon
<1>5. /\ msg' = [msg EXCEPT ![c] = h] /\ y.at \in {"reply", "refused"}
      /\ UNCHANGED <<phase, messages, seq, applied, ioInflight>>
  BY Zenon, <1>1, <1>2, <1>3, <1>4 DEF WireRead
<1>6. v \in Places /\ msg[c] \in [Seqs -> Messages]
  BY Zenon, <1>1 DEF Places, ChanInv
<1>7. /\ h \in [Seqs -> Messages] /\ h[q].at = v
      /\ \A k \in Seqs : h[k].r = msg[c][k].r
      /\ \A k \in Seqs \ {q} : h[k].at = msg[c][k].at
  BY <1>2, <1>3, <1>4, <1>6, MessageMoves
<1>8. /\ ChanTyped(phase[c], messages[c], seq[c], msg[c], applied[c], ioInflight[c])
      /\ ChanOK(phase[c], messages[c], seq[c], msg[c], applied[c], ioInflight[c])
  BY Zenon, ChanOf
<1>9. \A k \in Seqs : /\ h[k].r = msg[c][k].r
                      /\ msg[c][k].at = "none" => h[k].at = "none"
                      /\ h[k].at \in {"send", "wire"} => msg[c][k].at \in {"send", "wire"}
                      /\ h[k].at \in {"reply", "resp"} => msg[c][k].at \in {"reply", "resp"}
  BY Zenon, <1>1, <1>2, <1>5, <1>7
<1>10. /\ ChanTyped(phase[c], messages[c], seq[c], h, applied[c], ioInflight[c])
       /\ ChanOK(phase[c], messages[c], seq[c], h, applied[c], ioInflight[c])
  BY Zenon, <1>7, <1>8, <1>9, ChanMoves
<1>11. QED
  BY Zenon, <1>5, <1>10, MessageStep

\* What is on a connection that breaks is lost.
LEMMA BreakStep ==
  ASSUME ChanInv, NEW c \in Clients, Break(c)
  PROVE  ChanInv'
<1>1. PICK h : h = [q \in Seqs |-> IF msg[c][q].at \in {"wire", "reply", "refused"}
                                   THEN [msg[c][q] EXCEPT !.at = "none"] ELSE msg[c][q]]
  BY Zenon
<1>2. msg' = [msg EXCEPT ![c] = h] /\ UNCHANGED <<phase, messages, seq, applied, ioInflight>>
  BY Zenon, <1>1 DEF Break
<1>3. ASSUME NEW q \in Seqs
      PROVE  h[q] \in Messages /\ h[q].r = msg[c][q].r /\ h[q].at \in {"none", msg[c][q].at}
  <2>1. PICK y : y = msg[c][q]
    BY Zenon
  <2>2. y \in Messages
    BY Zenon, <2>1 DEF ChanInv
  <2>3. h[q] = IF y.at \in {"wire", "reply", "refused"} THEN [y EXCEPT !.at = "none"] ELSE y
    BY Zenon, <1>1, <2>1
  <2>4. h[q] \in Messages /\ h[q].r = y.r /\ h[q].at \in {"none", y.at}
    BY Zenon, <2>2, <2>3 DEF Messages, Places
  <2>5. QED
    BY Zenon, <2>1, <2>4
<1>4. h \in [Seqs -> Messages]
  BY Zenon, <1>1, <1>3
<1>5. /\ ChanTyped(phase[c], messages[c], seq[c], msg[c], applied[c], ioInflight[c])
      /\ ChanOK(phase[c], messages[c], seq[c], msg[c], applied[c], ioInflight[c])
  BY Zenon, ChanOf
<1>6. \A k \in Seqs : /\ h[k].r = msg[c][k].r
                      /\ msg[c][k].at = "none" => h[k].at = "none"
                      /\ h[k].at \in {"send", "wire"} => msg[c][k].at \in {"send", "wire"}
                      /\ h[k].at \in {"reply", "resp"} => msg[c][k].at \in {"reply", "resp"}
  BY Zenon, <1>3
<1>7. /\ ChanTyped(phase[c], messages[c], seq[c], h, applied[c], ioInflight[c])
      /\ ChanOK(phase[c], messages[c], seq[c], h, applied[c], ioInflight[c])
  BY Zenon, <1>4, <1>5, <1>6, ChanMoves
<1>8. QED
  BY Zenon, <1>2, <1>7, MessageStep

\* The server carries a request out, or refuses it.
LEMMA ServeStep ==
  ASSUME ChanInv, NEW c \in Clients, NEW q \in Seqs, Serve(c, q)
  PROVE  ChanInv'
<1>1. /\ ChanTyped(phase[c], messages[c], seq[c], msg[c], applied[c], ioInflight[c])
      /\ ChanOK(phase[c], messages[c], seq[c], msg[c], applied[c], ioInflight[c])
  BY Zenon, ChanOf
<1>2. msg[c][q].at = "wire" /\ UNCHANGED <<phase, messages, seq, ioInflight>>
  BY Zenon DEF Serve
<1>3. CASE /\ msg' = [msg EXCEPT ![c][q].at = "reply"]
           /\ applied' = [applied EXCEPT ![c][msg[c][q].r] = IF msg[c][q].r = Ping THEN 0 ELSE @ + 1]
  <2>1. PICK h : h = [msg[c] EXCEPT ![q].at = "reply"]
    BY Zenon
  <2>2. PICK b : b = [applied[c] EXCEPT ![msg[c][q].r] = IF msg[c][q].r = Ping THEN 0 ELSE @ + 1]
    BY Zenon
  <2>3. msg' = [msg EXCEPT ![c] = h] /\ applied' = [applied EXCEPT ![c] = b]
    BY Zenon, <1>3, <2>1, <2>2
  <2>4. /\ ChanTyped(phase[c], messages[c], seq[c], h, b, ioInflight[c])
        /\ ChanOK(phase[c], messages[c], seq[c], h, b, ioInflight[c])
    BY Zenon, <1>1, <1>2, <2>1, <2>2, ChanServes
  <2>5. /\ phase' = [phase EXCEPT ![c] = phase[c]] /\ messages' = [messages EXCEPT ![c] = messages[c]]
        /\ seq' = [seq EXCEPT ![c] = seq[c]] /\ ioInflight' = [ioInflight EXCEPT ![c] = ioInflight[c]]
    BY Zenon, <1>2, ChanOf
  <2>6. QED
    BY Zenon, <2>3, <2>4, <2>5, ChanStep
<1>4. CASE msg' = [msg EXCEPT ![c][q].at = "refused"] /\ UNCHANGED applied
  <2>1. PICK y : y = msg[c][q]
    BY Zenon
  <2>2. PICK z : z = [y EXCEPT !.at = "refused"]
    BY Zenon
  <2>3. PICK h : h = [msg[c] EXCEPT ![q] = z]
    BY Zenon
  <2>4. msg' = [msg EXCEPT ![c] = h]
    BY Zenon, <1>4, <2>1, <2>2, <2>3
  <2>5. "refused" \in Places /\ msg[c] \in [Seqs -> Messages]
    BY Zenon DEF Places, ChanInv
  <2>6. /\ h \in [Seqs -> Messages] /\ h[q].at = "refused"
        /\ \A k \in Seqs : h[k].r = msg[c][k].r
        /\ \A k \in Seqs \ {q} : h[k].at = msg[c][k].at
    BY <2>1, <2>2, <2>3, <2>5, MessageMoves
  <2>7. \A k \in Seqs : /\ h[k].r = msg[c][k].r
                        /\ msg[c][k].at = "none" => h[k].at = "none"
                        /\ h[k].at \in {"send", "wire"} => msg[c][k].at \in {"send", "wire"}
                        /\ h[k].at \in {"reply", "resp"} => msg[c][k].at \in {"reply", "resp"}
    BY Zenon, <1>2, <2>6
  <2>8. /\ ChanTyped(phase[c], messages[c], seq[c], h, applied[c], ioInflight[c])
        /\ ChanOK(phase[c], messages[c], seq[c], h, applied[c], ioInflight[c])
    BY Zenon, <1>1, <2>6, <2>7, ChanMoves
  <2>9. QED
    BY Zenon, <1>2, <1>4, <2>4, <2>8, MessageStep
<1>5. QED
  BY Zenon, <1>3, <1>4 DEF Serve

\* The loop takes an answer.
LEMMA TakeResponseStep ==
  ASSUME ChanInv, NEW c \in Clients, NEW q \in Seqs, TakeResponse(c, q)
  PROVE  ChanInv'
<1>1. /\ ChanTyped(phase[c], messages[c], seq[c], msg[c], applied[c], ioInflight[c])
      /\ ChanOK(phase[c], messages[c], seq[c], msg[c], applied[c], ioInflight[c])
  BY Zenon, ChanOf
<1>2. PICK h : h = [msg[c] EXCEPT ![q].at = "none"]
  BY Zenon
<1>3. /\ msg' = [msg EXCEPT ![c] = h] /\ UNCHANGED <<seq, applied>>
      /\ msg[c][q].at \in {"resp", "respErr"}
  BY Zenon, <1>2 DEF TakeResponse
<1>4. CASE messages[c][q] = NoReq
  <2>1. PICK y : y = msg[c][q]
    BY Zenon
  <2>2. PICK z : z = [y EXCEPT !.at = "none"]
    BY Zenon
  <2>3. h = [msg[c] EXCEPT ![q] = z]
    BY Zenon, <1>2, <2>1, <2>2
  <2>4. "none" \in Places /\ msg[c] \in [Seqs -> Messages]
    BY Zenon DEF Places, ChanInv
  <2>5. /\ h \in [Seqs -> Messages] /\ h[q].at = "none"
        /\ \A k \in Seqs : h[k].r = msg[c][k].r
        /\ \A k \in Seqs \ {q} : h[k].at = msg[c][k].at
    BY <2>1, <2>2, <2>3, <2>4, MessageMoves
  <2>6. \A k \in Seqs : /\ h[k].r = msg[c][k].r
                        /\ msg[c][k].at = "none" => h[k].at = "none"
                        /\ h[k].at \in {"send", "wire"} => msg[c][k].at \in {"send", "wire"}
                        /\ h[k].at \in {"reply", "resp"} => msg[c][k].at \in {"reply", "resp"}
    BY Zenon, <2>5
  <2>7. /\ ChanTyped(phase[c], messages[c], seq[c], h, applied[c], ioInflight[c])
        /\ ChanOK(phase[c], messages[c], seq[c], h, applied[c], ioInflight[c])
    BY Zenon, <1>1, <2>5, <2>6, ChanMoves
  <2>8. UNCHANGED <<phase, messages, ioInflight>>
    BY Zenon, <1>4 DEF TakeResponse
  <2>9. QED
    BY Zenon, <1>3, <2>7, <2>8, MessageStep
<1>5. CASE messages[c][q] # NoReq
  <2>1. PICK v \in {"ok", "err"} : v = IF msg[c][q].at = "resp" /\ ~clientError[c] THEN "ok" ELSE "err"
    BY Zenon
  <2>2. PICK x : x = [phase[c] EXCEPT ![messages[c][q]] = v]
    BY Zenon
  <2>3. PICK w : w = [messages[c] EXCEPT ![q] = NoReq]
    BY Zenon
  <2>4. PICK i : i = IF messages[c][q] = Ping THEN ioInflight[c] ELSE ioInflight[c] - 1
    BY Zenon
  <2>5. phase' = [phase EXCEPT ![c] = x] /\ messages' = [messages EXCEPT ![c] = w]
    BY Zenon, <1>5, <2>1, <2>2, <2>3 DEF TakeResponse
  <2>6. ioInflight' = [ioInflight EXCEPT ![c] = i]
    BY Zenon, <1>5, <2>4 DEF TakeResponse
  <2>7. v = "ok" => msg[c][q].at = "resp"
    BY Zenon, <2>1
  <2>8. ChanTyped(x, w, seq[c], h, applied[c], i) /\ ChanOK(x, w, seq[c], h, applied[c], i)
    <3>1. PICK p : p = phase[c]
      BY Zenon
    <3>2. PICK m : m = messages[c]
      BY Zenon
    <3>3. PICK g : g = msg[c]
      BY Zenon
    <3>4. PICK n : n = ioInflight[c]
      BY Zenon
    <3>4a. PICK r : r = m[q]
      BY Zenon
    <3>5. /\ ChanTyped(p, m, seq[c], g, applied[c], n) /\ ChanOK(p, m, seq[c], g, applied[c], n)
          /\ m[q] # NoReq /\ g[q].at \in {"resp", "respErr"}
      BY Zenon, <1>1, <1>3, <1>5, <3>1, <3>2, <3>3, <3>4
    <3>6. v \in {"ok", "err"} /\ (v = "ok" => g[q].at = "resp")
      BY Zenon, <2>1, <2>7, <3>3
    <3>7. x = [p EXCEPT ![r] = v] /\ w = [m EXCEPT ![q] = NoReq]
      BY Zenon, <2>2, <2>3, <3>1, <3>2, <3>4a
    <3>8. h = [g EXCEPT ![q].at = "none"] /\ i = IF r = Ping THEN n ELSE n - 1
      BY Zenon, <1>2, <2>4, <3>2, <3>3, <3>4, <3>4a
    <3>9. QED
      <4>1. Answered(p, m, g, n, q, r, v, x, w, h, i)
        BY Zenon, <3>5, <3>6, <3>7, <3>8, <3>4a DEF Answered
      <4>2. QED
        BY Zenon, <3>5, <4>1, ChanAnswers
  <2>9. seq' = [seq EXCEPT ![c] = seq[c]] /\ applied' = [applied EXCEPT ![c] = applied[c]]
    BY Zenon, <1>3, ChanOf
  <2>10. QED
    BY Zenon, <1>3, <2>5, <2>6, <2>8, <2>9, ChanStep
<1>6. QED
  BY Zenon, <1>4, <1>5

\* Every step preserves the invariant.
LEMMA ChanNext == ChanInv /\ [ConnNext]_connVars => ChanInv'
<1> SUFFICES ASSUME ChanInv, [ConnNext]_connVars PROVE ChanInv'
  BY Zenon
<1>1. CASE UNCHANGED <<phase, messages, seq, msg, applied, ioInflight>>
  BY Zenon, <1>1 DEF ChanInv
<1>2. ASSUME NEW c \in Clients, Create(c) \/ Close(c) \/ End(c) \/ Elapse(c) \/ PingDone(c) PROVE ChanInv'
  BY Zenon, <1>1, <1>2 DEF Create, Close, End, Elapse, PingDone, clientVars
<1>3. ASSUME NEW c \in Clients, NEW r \in Reqs, TakeRequest(c, r) PROVE ChanInv'
  BY Zenon, <1>3, TakeRequestStep
<1>4. ASSUME NEW c \in Clients, NEW q \in Seqs, TakeResponse(c, q) PROVE ChanInv'
  BY Zenon, <1>4, TakeResponseStep
<1>5. ASSUME NEW c \in Clients, TakeError(c) \/ Tick(c) PROVE ChanInv'
  <2>1. Fail(c) /\ UNCHANGED <<seq, msg, applied>>
    BY Zenon, <1>5 DEF TakeError, Tick
  <2>2. QED
    BY Zenon, <2>1, FailStep
<1>6. ASSUME NEW c \in Clients, Break(c) PROVE ChanInv'
  BY Zenon, <1>6, BreakStep
<1>7. ASSUME NEW c \in Clients, SendPing(c) PROVE ChanInv'
  <2>1. Ping \in Reqs /\ Ping \notin IO
    BY Zenon, ConnAssumption DEF Reqs
  <2>2. /\ phase[c][Ping] \in {"new", "ok"} /\ phase' = [phase EXCEPT ![c][Ping] = "queued"]
        /\ UNCHANGED <<messages, seq, msg, applied, ioInflight>>
    BY Zenon, <1>7 DEF SendPing
  <2>3. QED
    BY Zenon, <2>1, <2>2, QueueStep
<1>8. ASSUME NEW c \in Clients, NEW r \in IO, Request(c, r) \/ Returned(c, r) PROVE ChanInv'
  <2>1. CASE Request(c, r)
    <3>1. r \in Reqs
      BY Zenon DEF Reqs
    <3>2. /\ phase[c][r] = "new" /\ phase' = [phase EXCEPT ![c][r] = "queued"]
          /\ UNCHANGED <<messages, seq, msg, applied, ioInflight>>
      BY Zenon, <2>1 DEF Request
    <3>3. QED
      BY Zenon, <3>1, <3>2, QueueStep
  <2>2. CASE Returned(c, r)
    BY Zenon, <1>1, <2>2 DEF Returned, clientVars
  <2>3. QED
    BY Zenon, <1>8, <2>1, <2>2
<1>9. ASSUME NEW c \in Clients, NEW q \in Seqs, WireWrite(c, q) \/ Serve(c, q) \/ WireRead(c, q)
      PROVE  ChanInv'
  BY Zenon, <1>9, WireWriteStep, ServeStep, WireReadStep
<1>10. CASE UNCHANGED connVars
  BY Zenon, <1>1, <1>10 DEF connVars
<1>11. QED
  BY Zenon, <1>2, <1>3, <1>4, <1>5, <1>6, <1>7, <1>8, <1>9, <1>10 DEF ConnNext, LoopStep

\* A request that succeeds was carried out by the replica, once, whatever is lost, late
\* or answered out of order; and the loop counts exactly the I/O it waits for
\* (Client.loop, handleRequest, handleResponse, handleClientError).
THEOREM AnswersAreMatched == ConnSpec => []AnswersMatch
<1>1. ChanInv => AnswersMatch
  <2> SUFFICES ASSUME ChanInv PROVE AnswersMatch
    BY Zenon
  <2>1. ASSUME NEW c \in Clients, NEW r \in IO
        PROVE  applied[c][r] <= 1 /\ (phase[c][r] = "ok" => applied[c][r] = 1)
    <3>1. applied[c][r] \in 0..1
      BY Zenon DEF ChanInv, Reqs
    <3>2. phase[c][r] = "ok" => applied[c][r] = 1
      BY Zenon DEF ChanInv, ChanOK
    <3>3. QED
      BY <3>1, <3>2
  <2>2. ASSUME NEW c \in Clients PROVE ioInflight[c] = Cardinality(Pending(c) \cap IO)
    <3>1. Pending(c) \cap IO = {r \in IO : phase[c][r] = "pending"}
      BY Zenon DEF Pending, Reqs
    <3>2. ioInflight[c] = Cardinality({r \in IO : phase[c][r] = "pending"})
      BY Zenon DEF ChanInv, ChanOK
    <3>3. QED
      BY Zenon, <3>1, <3>2
  <2>3. QED
    BY Zenon, <2>1, <2>2 DEF AnswersMatch, AnsweredOnce, InflightExact
<1>2. QED
  BY ChanStarts, ChanNext, <1>1, PTL DEF ConnSpec

-----------------------------------------------------------------------------
\* Only an answer to a pending request makes it succeed, and a client that has failed
\* has none.
LEMMA ErrorKept == ConnInv /\ ChanInv /\ [ConnNext]_connVars => [ErrorStays]_connVars
<1> SUFFICES ASSUME ConnInv, ChanInv, ConnNext PROVE ErrorStays
  BY Zenon
<1> SUFFICES ASSUME NEW d \in Clients, NEW r \in Reqs, clientError[d] \/ decremented[d], phase[d][r] # "ok"
             PROVE  phase'[d][r] # "ok"
  BY Zenon DEF ErrorStays
<1>1. clientError[d] /\ \A q \in Seqs : messages[d][q] = NoReq
  BY Zenon DEF ConnInv
<1>2. CASE UNCHANGED phase
  BY Zenon, <1>2
<1>3. ASSUME NEW c \in Clients, NEW k \in Reqs, NEW v, v # "ok", phase' = [phase EXCEPT ![c][k] = v]
      PROVE  phase'[d][r] # "ok"
  <2>1. CASE c = d /\ k = r
    BY Zenon, <1>3, <2>1 DEF ChanInv
  <2>2. CASE ~(c = d /\ k = r)
    BY Zenon, <1>3, <2>2 DEF ChanInv
  <2>3. QED
    BY Zenon, <2>1, <2>2
<1>4. ASSUME NEW c \in Clients, NEW k \in Reqs, TakeRequest(c, k) PROVE phase'[d][r] # "ok"
  BY <1>3, <1>4 DEF TakeRequest
<1>5. ASSUME NEW c \in Clients, NEW q \in Seqs, TakeResponse(c, q) PROVE phase'[d][r] # "ok"
  <2>1. CASE c = d
    BY Zenon, <1>1, <1>2, <1>5, <2>1 DEF TakeResponse
  <2>2. CASE c # d
    <3>1. phase'[d] = phase[d]
      BY Zenon, <1>5, <2>2 DEF TakeResponse, ChanInv
    <3>2. QED
      BY Zenon, <3>1
  <2>3. QED
    BY Zenon, <2>1, <2>2
<1>6. ASSUME NEW c \in Clients, TakeError(c) \/ Tick(c) PROVE phase'[d][r] # "ok"
  <2>1. phase' = [phase EXCEPT ![c] = [k \in Reqs |-> IF @[k] = "pending" THEN "err" ELSE @[k]]]
    BY Zenon, <1>6 DEF TakeError, Tick, Fail
  <2>2. CASE c = d
    BY Zenon, <2>1, <2>2 DEF ChanInv
  <2>3. CASE c # d
    BY Zenon, <2>1, <2>3 DEF ChanInv
  <2>4. QED
    BY Zenon, <2>2, <2>3
<1>7. ASSUME NEW c \in Clients, SendPing(c) PROVE phase'[d][r] # "ok"
  BY Zenon, <1>3, <1>7 DEF SendPing, Reqs
<1>8. ASSUME NEW c \in Clients, NEW k \in IO, Request(c, k) \/ Returned(c, k) PROVE phase'[d][r] # "ok"
  BY <1>2, <1>3, <1>8 DEF Request, Returned, Reqs, clientVars
<1>9. ASSUME NEW c \in Clients, NEW q \in Seqs, WireWrite(c, q) \/ Serve(c, q) \/ WireRead(c, q)
      PROVE  UNCHANGED phase
  BY Zenon, <1>9 DEF WireWrite, Serve, WireRead
<1>10. ASSUME NEW c \in Clients, Create(c) \/ Close(c) \/ End(c) \/ Elapse(c) \/ Break(c) \/ PingDone(c)
       PROVE  UNCHANGED phase
  BY Zenon, <1>10 DEF Create, Close, End, Elapse, Break, PingDone, clientVars
<1>11. QED
  BY Zenon, <1>2, <1>4, <1>5, <1>6, <1>7, <1>8, <1>9, <1>10 DEF ConnNext, LoopStep

\* After an error or a timeout no request of the client succeeds any more, not even one
\* whose late answer still arrives (handleClientError).
THEOREM ErrorsStick == ConnSpec => ErrorSticks
  BY ConnStarts, ConnStep, ChanStarts, ChanNext, ErrorKept, PTL DEF ConnSpec, ErrorSticks
=============================================================================
