------------------------------ MODULE DataConn ------------------------------
(***************************************************************************)
(* The data connections between the engine and its replicas: the client    *)
(* and the server of pkg/dataconn, the pings of pkg/backend/remote, and    *)
(* the timeouts the clients share.                                         *)
(*                                                                         *)
(* A client is an event loop over requests, responses, errors of its       *)
(* connections and a ticker.  Requests go out over several connections and *)
(* are served by a goroutine each, so that nothing keeps their order.      *)
(***************************************************************************)
EXTENDS Integers, Sequences, FiniteSets

CONSTANTS Clients,      \* one for each replica
          IO,           \* the reads, writes and discards of a client
          Ping,         \* its ping
          NoReq,
          MaxSeq,       \* bound: sequence numbers
          MaxBreaks,    \* bound: connections that fail
          OpensFail     \* Factory.Create may fail after NewClient

ASSUME ConnAssumption == IsFiniteSet(IO) /\ Ping \notin IO /\ NoReq \notin IO \cup {Ping} /\ MaxSeq \in Nat

Reqs == IO \cup {Ping}

VARIABLES
    loop,      \* the loop of each client: "none", "runs", "ended", or "closing"
               \* once Close has been called
    phase,     \* of a request: "new", "queued", "pending", "ok", "err"
    messages,  \* c.messages: the request each sequence number stands for
    seq,       \* c.seq
    msg,       \* the request a message was made from, and where the message is:
               \* "none", "send", "wire", "reply" (ok), "refused" (error), "resp",
               \* "respErr"
    applied,   \* history: how often the replica has carried out a request
    up,        \* whether the connections work
    errs,      \* a transport error waits in c.responses
    clientError, ioInflight,
    age,       \* time since the last activity: 0, 1 (short timeout), 2 (long)
    decremented,
    consumers,
    monitor,   \* monitorPing: "none", "wait", "ping", "failed", "closed"
    connMode,  \* whether the controller uses the replica
    breaks

connVars == <<loop, phase, messages, seq, msg, applied, up, errs, clientError, ioInflight, age,
              decremented, consumers, monitor, connMode, breaks>>

clientVars == <<phase, messages, seq, msg, ioInflight, age, clientError>>

Seqs == 1..MaxSeq

\* The clients as consumers of the shared timeouts.
ST == INSTANCE SharedTimeouts WITH
          Consumers <- Clients, numConsumers <- consumers,
          state  <- [c \in Clients |-> IF loop[c] = "none" THEN "out"
                                       ELSE IF loop[c] = "ended" THEN "left"
                                       ELSE IF decremented[c] THEN "timedOut" ELSE "in"],
          waited <- [c \in Clients |-> IF loop[c] = "ended" \/ decremented[c] THEN 0 ELSE age[c]]

Running(c) == loop[c] \in {"runs", "closing"}

\* The sequence number under which a request is pending.
SeqOf(c, r) == CHOOSE q \in Seqs : messages[c][q] = r

Pending(c) == {r \in Reqs : phase[c][r] = "pending"}

-----------------------------------------------------------------------------
\* The life of a client

\* Factory.Create: NewClient starts the loop, which increments the count of
\* consumers; then the replica is opened.  If that fails the client is left as it
\* is.
Create(c) ==
    /\ loop[c] = "none"
    /\ loop' = [loop EXCEPT ![c] = "runs"]
    /\ consumers' = consumers + 1
    /\ \/ /\ monitor' = [monitor EXCEPT ![c] = "wait"]
          /\ connMode' = [connMode EXCEPT ![c] = "RW"]
       \/ OpensFail /\ UNCHANGED <<monitor, connMode>>
    /\ UNCHANGED <<clientVars, applied, up, errs, decremented, breaks>>

\* An operation puts its request into the queue.  The controller sends nothing to
\* a replica that has failed; it uses a new number for every request.
Request(c, r) ==
    /\ r \in IO /\ connMode[c] = "RW" /\ Running(c)
    /\ phase[c][r] = "new"
    /\ phase' = [phase EXCEPT ![c][r] = "queued"]
    /\ UNCHANGED <<loop, messages, seq, msg, ioInflight, age, clientError, applied, up, errs, decremented,
                   consumers, monitor, connMode, breaks>>

\* The operation returns; an error makes the controller drop the replica.
Returned(c, r) ==
    /\ r \in IO /\ phase[c][r] = "err" /\ connMode[c] = "RW"
    /\ connMode' = [connMode EXCEPT ![c] = "ERR"]
    /\ UNCHANGED <<loop, clientVars, applied, up, errs, decremented, consumers, monitor, breaks>>

\* RemoveBackend, with no I/O in flight: monitoring is stopped and the client is
\* closed.
Close(c) ==
    /\ loop[c] = "runs" /\ connMode[c] # "none"
    /\ \A r \in IO : phase[c][r] \notin {"queued", "pending"}
    /\ connMode' = [connMode EXCEPT ![c] = "gone"]
    /\ loop' = [loop EXCEPT ![c] = "closing"]
    /\ up' = [up EXCEPT ![c] = FALSE]
    /\ errs' = [errs EXCEPT ![c] = TRUE]
    /\ monitor' = [monitor EXCEPT ![c] = IF @ = "wait" THEN "closed" ELSE @]
    /\ UNCHANGED <<clientVars, applied, decremented, consumers, breaks>>

-----------------------------------------------------------------------------
\* The loop of the client

\* Mutant: the error is not stored.
FailForgets(c) ==
    /\ UNCHANGED clientError
    /\ phase' = [phase EXCEPT ![c] = [r \in Reqs |-> IF @[r] = "pending" THEN "err" ELSE @[r]]]
    /\ messages' = [messages EXCEPT ![c] = [q \in Seqs |-> NoReq]]
    /\ ioInflight' = [ioInflight EXCEPT ![c] = 0]
    /\ age' = [age EXCEPT ![c] = 0]

\* handleClientError: everything in flight is answered with the error.
Fail(c) ==
    /\ clientError' = [clientError EXCEPT ![c] = TRUE]
    /\ phase' = [phase EXCEPT ![c] = [r \in Reqs |-> IF @[r] = "pending" THEN "err" ELSE @[r]]]
    /\ messages' = [messages EXCEPT ![c] = [q \in Seqs |-> NoReq]]
    /\ ioInflight' = [ioInflight EXCEPT ![c] = 0]
    /\ age' = [age EXCEPT ![c] = 0]

\* A request is answered with the stored error, or sent under the next number.
TakeRequest(c, r) ==
    /\ Running(c) /\ phase[c][r] = "queued"
    /\ \/ /\ clientError[c]
          /\ phase' = [phase EXCEPT ![c][r] = "err"]
          /\ UNCHANGED <<messages, seq, msg, ioInflight, age>>
       \/ /\ ~clientError[c] /\ seq[c] < MaxSeq
          /\ phase' = [phase EXCEPT ![c][r] = "pending"]
          /\ seq' = [seq EXCEPT ![c] = @ + 1]
          /\ messages' = [messages EXCEPT ![c][seq[c] + 1] = r]
          /\ msg' = [msg EXCEPT ![c][seq[c] + 1] = [r |-> r, at |-> "send"]]
          /\ IF r = Ping THEN UNCHANGED <<ioInflight, age>>
             ELSE /\ ioInflight' = [ioInflight EXCEPT ![c] = @ + 1]
                  /\ age' = [age EXCEPT ![c] = IF ioInflight[c] = 0 THEN 0 ELSE @]
    /\ UNCHANGED <<loop, clientError, applied, up, errs, decremented, consumers, monitor, connMode, breaks>>

\* Mutant: a response that is an error completes the request like any other.
TakeResponseAnyType(c, q) ==
    LET r == messages[c][q]
    IN  /\ Running(c) /\ msg[c][q].at \in {"resp", "respErr"}
        /\ msg' = [msg EXCEPT ![c][q].at = "none"]
        /\ IF r = NoReq THEN UNCHANGED <<phase, messages, ioInflight, age>>
           ELSE /\ phase' = [phase EXCEPT ![c][r] = IF ~clientError[c] THEN "ok" ELSE "err"]
                /\ messages' = [messages EXCEPT ![c][q] = NoReq]
                /\ ioInflight' = [ioInflight EXCEPT ![c] = IF r = Ping THEN @ ELSE @ - 1]
                /\ age' = [age EXCEPT ![c] = IF r = Ping THEN @ ELSE 0]
        /\ UNCHANGED <<loop, seq, clientError, applied, up, errs, decremented, consumers, monitor, connMode,
                       breaks>>

\* A response completes the request its number stands for; one whose request is no
\* longer pending is dropped.
TakeResponse(c, q) ==
    LET r == messages[c][q]
    IN  /\ Running(c) /\ msg[c][q].at \in {"resp", "respErr"}
        /\ msg' = [msg EXCEPT ![c][q].at = "none"]
        /\ IF r = NoReq THEN UNCHANGED <<phase, messages, ioInflight, age>>
           ELSE /\ phase' = [phase EXCEPT ![c][r] = IF msg[c][q].at = "resp" /\ ~clientError[c] THEN "ok" ELSE "err"]
                /\ messages' = [messages EXCEPT ![c][q] = NoReq]
                /\ ioInflight' = [ioInflight EXCEPT ![c] = IF r = Ping THEN @ ELSE @ - 1]
                /\ age' = [age EXCEPT ![c] = IF r = Ping THEN @ ELSE 0]
        /\ UNCHANGED <<loop, seq, clientError, applied, up, errs, decremented, consumers, monitor, connMode,
                       breaks>>

TakeError(c) ==
    /\ Running(c) /\ errs[c]
    /\ errs' = [errs EXCEPT ![c] = FALSE]
    /\ Fail(c)
    /\ UNCHANGED <<loop, seq, msg, applied, up, decremented, consumers, monitor, connMode, breaks>>

\* The ticker, when the time since the last activity exceeds a timeout.
Tick(c) ==
    /\ Running(c) /\ ioInflight[c] > 0
    /\ ST!Exceeded(age[c], consumers) > 0
    /\ consumers' = consumers - 1
    /\ decremented' = [decremented EXCEPT ![c] = TRUE]
    /\ Fail(c)
    /\ UNCHANGED <<loop, seq, msg, applied, up, errs, monitor, connMode, breaks>>

\* Mutant: a client that has timed out is counted down again.
EndTwice(c) ==
    /\ loop[c] = "closing"
    /\ loop' = [loop EXCEPT ![c] = "ended"]
    /\ consumers' = consumers - 1
    /\ UNCHANGED <<clientVars, applied, up, errs, decremented, monitor, connMode, breaks>>

\* The loop ends; what is in flight or queued stays unanswered.
End(c) ==
    /\ loop[c] = "closing"
    /\ loop' = [loop EXCEPT ![c] = "ended"]
    /\ consumers' = IF decremented[c] THEN consumers ELSE consumers - 1
    /\ UNCHANGED <<clientVars, applied, up, errs, decremented, monitor, connMode, breaks>>

\* Time passes while I/O is in flight.
Elapse(c) ==
    /\ Running(c) /\ ioInflight[c] > 0 /\ age[c] < 2
    /\ age' = [age EXCEPT ![c] = @ + 1]
    /\ UNCHANGED <<loop, phase, messages, seq, msg, ioInflight, clientError, applied, up, errs, decremented,
                   consumers, monitor, connMode, breaks>>

-----------------------------------------------------------------------------
\* The wires and the server

\* A writer goroutine writes a message.  One that was answered with an error in
\* the meantime goes out as an error, which the server ignores.
WireWrite(c, q) ==
    /\ msg[c][q].at = "send" /\ loop[c] # "ended"
    /\ msg' = [msg EXCEPT ![c][q].at = IF up[c] /\ messages[c][q] # NoReq THEN "wire" ELSE "none"]
    /\ errs' = [errs EXCEPT ![c] = @ \/ ~up[c]]
    /\ UNCHANGED <<loop, phase, messages, seq, ioInflight, age, clientError, applied, up, decremented,
                   consumers, monitor, connMode, breaks>>

\* A goroutine of the server carries the request out and answers.
Serve(c, q) ==
    /\ msg[c][q].at = "wire"
    /\ \/ /\ msg' = [msg EXCEPT ![c][q].at = "reply"]
          /\ applied' = [applied EXCEPT ![c][msg[c][q].r] = IF msg[c][q].r = Ping THEN 0 ELSE @ + 1]
       \/ /\ msg' = [msg EXCEPT ![c][q].at = "refused"]
          /\ UNCHANGED applied
    /\ UNCHANGED <<loop, phase, messages, seq, ioInflight, age, clientError, up, errs, decremented,
                   consumers, monitor, connMode, breaks>>

\* The response arrives at the client, if the connection still works.
WireRead(c, q) ==
    /\ msg[c][q].at \in {"reply", "refused"} /\ up[c]
    /\ msg' = [msg EXCEPT ![c][q].at = IF @ = "reply" THEN "resp" ELSE "respErr"]
    /\ UNCHANGED <<loop, phase, messages, seq, ioInflight, age, clientError, applied, up, errs, decremented,
                   consumers, monitor, connMode, breaks>>

\* A connection fails, or the server closes it: what is on it is lost, and the
\* readers report an error.
Break(c) ==
    /\ breaks < MaxBreaks /\ up[c] /\ Running(c)
    /\ breaks' = breaks + 1
    /\ up' = [up EXCEPT ![c] = FALSE]
    /\ errs' = [errs EXCEPT ![c] = TRUE]
    /\ msg' = [msg EXCEPT ![c] = [q \in Seqs |-> IF @[q].at \in {"wire", "reply", "refused"}
                                                 THEN [@[q] EXCEPT !.at = "none"] ELSE @[q]]]
    /\ UNCHANGED <<loop, phase, messages, seq, ioInflight, age, clientError, applied, decremented,
                   consumers, monitor, connMode>>

-----------------------------------------------------------------------------
\* monitorPing

SendPing(c) ==
    /\ monitor[c] = "wait" /\ phase[c][Ping] \in {"new", "ok"}
    /\ seq[c] + Cardinality({r \in IO : phase[c][r] \in {"new", "queued"}}) < MaxSeq
    /\ monitor' = [monitor EXCEPT ![c] = "ping"]
    /\ phase' = [phase EXCEPT ![c][Ping] = "queued"]
    /\ UNCHANGED <<loop, messages, seq, msg, ioInflight, age, clientError, applied, up, errs, decremented,
                   consumers, connMode, breaks>>

\* A ping that fails is reported to the loop, and to the controller, which marks
\* the replica.
PingDone(c) ==
    /\ monitor[c] = "ping" /\ phase[c][Ping] \in {"ok", "err"}
    /\ \/ /\ phase[c][Ping] = "ok"
          /\ monitor' = [monitor EXCEPT ![c] = "wait"]
          /\ UNCHANGED <<errs, connMode>>
       \/ /\ phase[c][Ping] = "err"
          /\ monitor' = [monitor EXCEPT ![c] = "failed"]
          /\ errs' = [errs EXCEPT ![c] = TRUE]
          /\ connMode' = [connMode EXCEPT ![c] = IF @ = "RW" THEN "ERR" ELSE @]
    /\ UNCHANGED <<loop, clientVars, applied, up, decremented, consumers, breaks>>

-----------------------------------------------------------------------------
ConnInit ==
    /\ loop = [c \in Clients |-> "none"]
    /\ phase = [c \in Clients |-> [r \in Reqs |-> "new"]]
    /\ messages = [c \in Clients |-> [q \in Seqs |-> NoReq]]
    /\ seq = [c \in Clients |-> 0]
    /\ msg = [c \in Clients |-> [q \in Seqs |-> [r |-> NoReq, at |-> "none"]]]
    /\ applied = [c \in Clients |-> [r \in Reqs |-> 0]]
    /\ up = [c \in Clients |-> TRUE]
    /\ errs = [c \in Clients |-> FALSE]
    /\ clientError = [c \in Clients |-> FALSE]
    /\ ioInflight = [c \in Clients |-> 0]
    /\ age = [c \in Clients |-> 0]
    /\ decremented = [c \in Clients |-> FALSE]
    /\ consumers = 0
    /\ monitor = [c \in Clients |-> "none"]
    /\ connMode = [c \in Clients |-> "none"]
    /\ breaks = 0

LoopStep(c) == \/ \E r \in Reqs : TakeRequest(c, r)
               \/ \E q \in Seqs : TakeResponse(c, q)
               \/ TakeError(c) \/ Tick(c) \/ End(c)

ConnNext ==
    \E c \in Clients :
        \/ Create(c) \/ Close(c) \/ LoopStep(c) \/ Elapse(c) \/ Break(c) \/ SendPing(c) \/ PingDone(c)
        \/ \E r \in IO : Request(c, r) \/ Returned(c, r)
        \/ \E q \in Seqs : WireWrite(c, q) \/ Serve(c, q) \/ WireRead(c, q)

ConnSpec == ConnInit /\ [][ConnNext]_connVars

\* A request that succeeds was carried out by the replica, once; no answer to
\* another request, and no late one, completes it (sequence numbers).
AnsweredOnce ==
    \A c \in Clients, r \in IO : applied[c][r] <= 1 /\ (phase[c][r] = "ok" => applied[c][r] = 1)

\* The loop counts exactly the I/O it waits for: with too small a count a hung
\* replica is never noticed, with too large a one an idle one times out.
InflightExact ==
    \A c \in Clients : ioInflight[c] = Cardinality(Pending(c) \cap IO)

\* A request that succeeds was carried out once, and the loop counts the I/O it waits
\* for (Client.loop).
AnswersMatch == AnsweredOnce /\ InflightExact

\* "also stores the error so that future requests/responses get errored
\* immediately": after an error or a timeout no request of the client succeeds any
\* more, not even one whose late answer still arrives (handleClientError).
ErrorStays ==
    \A c \in Clients, r \in Reqs :
        (clientError[c] \/ decremented[c]) /\ phase[c][r] # "ok" => phase'[c][r] # "ok"
ErrorSticks == [][ErrorStays]_connVars

\* The clients use the shared timeouts as they are meant to be used (Client.loop,
\* Factory.Create).
TimeoutsUsed == ST!TimeoutsSpec

\* "The last goroutine should time out more slowly": a client that has not waited
\* for the long timeout gives up only if another client has not failed.
LastReplicaWaitsLong ==
    [][\A c \in Clients : ~decremented[c] /\ decremented'[c] /\ age[c] < 2
           => \E d \in Clients \ {c} : Running(d) /\ ~clientError[d]]_connVars

\* Fairness: the goroutines of the client go on and time
\* passes; nothing is assumed of the replica or of the network.
ConnFairness ==
    \A c \in Clients :
        /\ WF_connVars(\E r \in Reqs : TakeRequest(c, r))
        /\ WF_connVars(\E q \in Seqs : TakeResponse(c, q)) /\ WF_connVars(\E q \in Seqs : WireWrite(c, q))
        /\ WF_connVars(TakeError(c)) /\ WF_connVars(Tick(c)) /\ WF_connVars(Elapse(c))

ConnLiveSpec == ConnSpec /\ ConnFairness
=============================================================================
