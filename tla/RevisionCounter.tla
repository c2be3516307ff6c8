--------------------------- MODULE RevisionCounter ---------------------------
(***************************************************************************)
(* The revision counter of a replica: pkg/replica/revision_counter.go, and *)
(* the part of WriteAt and UnmapAt of replica.go that uses it.             *)
(*                                                                         *)
(* Every write asks a goroutine, over revisionCounterReqChan, to store the *)
(* counter plus one while it writes its data, and waits for an answer on   *)
(* revisionCounterAckChan before it returns.  The channels carry no name:  *)
(* a write takes whatever answer comes.  The engine compares the counters  *)
(* of the replicas when it starts, to find out which of them missed a      *)
(* write, and sets the counter of a rebuilt replica.                       *)
(***************************************************************************)
EXTENDS Integers, Sequences, FiniteSets

CONSTANTS CounterWriters,
          Base, MaxDigits,  \* digits of the counter's text and their number (10 and 20)
          MaxCount,         \* bound: values of the counter
          MaxCounterFaults, \* bound: failed writes and restarts
          SlowEngine        \* TRUE: the engine sets the counter only when the
                            \* goroutine waits for a request

VARIABLES
    file,     \* revision.counter: MaxDigits characters, -1 for a zero byte
    buf,      \* revisionCounterBuf, which every write of the file goes through
    cache,    \* r.revisionCache
    reqs,     \* requests sent and not taken
    gor,      \* the goroutine of initRevisionCounter
    gerr,     \* the error it is about to send
    writer,   \* where each writer is
    setting,  \* the value SetRevisionCounter has stored and not yet cached; -1 if none
    failed,   \* some call has returned an error to the engine
    counterFaults,
    base, acked   \* history: the counter last set or read, the writes acknowledged since

counterVars == <<file, buf, cache, reqs, gor, gerr, writer, setting, failed, counterFaults, base, acked>>

-----------------------------------------------------------------------------
\* strconv.FormatInt
Length(n) == CHOOSE l \in 1..MaxDigits : n < Base^l /\ (l = 1 \/ n >= Base^(l - 1))
Digits(n) == [k \in 1..Length(n) |-> (n \div Base^(Length(n) - k)) % Base]

\* writeRevisionCounter: the digits over what the buffer held, and zero bytes
\* after them.
Written(n) == [k \in 1..MaxDigits |-> IF k <= Length(n) THEN Digits(n)[k] ELSE -1]

\* readRevisionCounter: the text without its zero bytes, parsed.
Parsed(f) ==
    LET len == Cardinality({k \in 1..MaxDigits : f[k] # -1})
    IN  CHOOSE n \in 0..(Base^MaxDigits) : n < Base^len /\ \A k \in 1..len : f[k] = (n \div Base^(len - k)) % Base

\* A counter that is written and read is the same.
ASSUME CounterAssumption ==
    /\ MaxCount \in Nat \ {0} /\ SlowEngine \in BOOLEAN
    /\ \A n \in 0..MaxCount : Parsed(Written(n)) = n

-----------------------------------------------------------------------------
\* WriteAt, UnmapAt: the request for the counter is sent by a goroutine.
CountWrite(w) ==
    /\ writer[w] = "idle" /\ ~failed /\ setting = -1
    /\ cache + reqs + 1 < MaxCount
    /\ writer' = [writer EXCEPT ![w] = "data"]
    /\ reqs' = reqs + 1
    /\ UNCHANGED <<file, buf, cache, gor, gerr, setting, failed, counterFaults, base, acked>>

\* The data are written; a failed write returns at once, its request stays.
DataDone(w) ==
    /\ writer[w] = "data"
    /\ writer' = [writer EXCEPT ![w] = "ack"]
    /\ UNCHANGED <<file, buf, cache, reqs, gor, gerr, setting, failed, counterFaults, base, acked>>

DataFails(w) ==
    /\ writer[w] = "data" /\ counterFaults < MaxCounterFaults
    /\ writer' = [writer EXCEPT ![w] = "idle"]
    /\ failed' = TRUE
    /\ counterFaults' = counterFaults + 1
    /\ UNCHANGED <<file, buf, cache, reqs, gor, gerr, setting, base, acked>>

\* The goroutine takes a request and stores the counter plus one.
ServeCounter ==
    /\ gor = "wait" /\ reqs > 0
    /\ reqs' = reqs - 1
    /\ gor' = "send"
    /\ buf' = Written(cache + 1)
    /\ \/ file' = buf' /\ gerr' = FALSE /\ UNCHANGED counterFaults
       \/ /\ counterFaults < MaxCounterFaults
          /\ gerr' = TRUE /\ counterFaults' = counterFaults + 1 /\ UNCHANGED file
    /\ UNCHANGED <<cache, writer, setting, failed, base, acked>>

\* Mutant: the error of the goroutine is dropped.
AnswerNoError(w) ==
    /\ gor = "send" /\ writer[w] = "ack"
    /\ writer' = [writer EXCEPT ![w] = "idle"]
    /\ gor' = IF gerr THEN "close" ELSE "add"
    /\ acked' = acked + 1
    /\ UNCHANGED <<file, buf, cache, reqs, gerr, setting, failed, counterFaults, base>>

\* Some writer that waits for an answer gets it.
Answer(w) ==
    /\ gor = "send" /\ writer[w] = "ack"
    /\ writer' = [writer EXCEPT ![w] = "idle"]
    /\ gor' = IF gerr THEN "close" ELSE "add"
    /\ failed' = (failed \/ gerr)
    /\ acked' = IF gerr THEN acked ELSE acked + 1
    /\ UNCHANGED <<file, buf, cache, reqs, gerr, setting, counterFaults, base>>

\* Only then is the cached counter raised, or the channel closed.
Raise ==
    /\ gor = "add"
    /\ cache' = cache + 1
    /\ gor' = "wait"
    /\ UNCHANGED <<file, buf, reqs, gerr, writer, setting, failed, counterFaults, base, acked>>

\* Mutant: the goroutine returns without closing the channel.
CloseAcksNot == FALSE /\ UNCHANGED counterVars

CloseAcks ==
    /\ gor = "close"
    /\ gor' = "closed"
    /\ UNCHANGED <<file, buf, cache, reqs, gerr, writer, setting, failed, counterFaults, base, acked>>

\* A closed channel answers with no error.
AnswerClosed(w) ==
    /\ gor = "closed" /\ writer[w] = "ack"
    /\ writer' = [writer EXCEPT ![w] = "idle"]
    /\ acked' = acked + 1
    /\ UNCHANGED <<file, buf, cache, reqs, gor, gerr, setting, failed, counterFaults, base>>

\* SetRevisionCounter, with no I/O pending: the file, then the cache.
SetRevisionCounter(n) ==
    /\ setting = -1 /\ ~failed
    /\ \A w \in CounterWriters : writer[w] = "idle"
    /\ SlowEngine => gor = "wait" /\ reqs = 0
    /\ buf' = Written(n) /\ file' = buf'
    /\ setting' = n
    /\ UNCHANGED <<cache, reqs, gor, gerr, writer, failed, counterFaults, base, acked>>

SetCache ==
    /\ setting # -1
    /\ cache' = setting
    /\ base' = setting
    /\ acked' = 0
    /\ setting' = -1
    /\ UNCHANGED <<file, buf, reqs, gor, gerr, writer, failed, counterFaults>>

\* The replica process ends and is started again: initRevisionCounter reads the
\* file, and a new goroutine waits, on new channels.
Restart ==
    /\ counterFaults < MaxCounterFaults
    /\ counterFaults' = counterFaults + 1
    /\ cache' = Parsed(file)
    /\ buf' = [k \in 1..MaxDigits |-> -1]
    /\ reqs' = 0 /\ gor' = "wait" /\ gerr' = FALSE
    /\ writer' = [w \in CounterWriters |-> "idle"]
    /\ setting' = -1 /\ failed' = FALSE
    /\ base' = Parsed(file) /\ acked' = 0
    /\ UNCHANGED file

-----------------------------------------------------------------------------
CounterInit ==
    /\ buf = [k \in 1..MaxDigits |-> -1] /\ file = Written(0)
    /\ cache = 0 /\ reqs = 0 /\ gor = "wait" /\ gerr = FALSE
    /\ writer = [w \in CounterWriters |-> "idle"]
    /\ setting = -1 /\ failed = FALSE /\ counterFaults = 0
    /\ base = 0 /\ acked = 0

CounterNext ==
    \/ \E w \in CounterWriters : \/ CountWrite(w) \/ DataDone(w) \/ DataFails(w) \/ Answer(w) \/ AnswerClosed(w)
    \/ ServeCounter \/ Raise \/ CloseAcks \/ SetCache \/ Restart
    \/ \E n \in 0..(MaxCount - 1) : SetRevisionCounter(n)

CounterSpec == CounterInit /\ [][CounterNext]_counterVars

\* No call has failed, none is in progress, and the goroutine waits.
Quiet == /\ ~failed /\ setting = -1 /\ gor = "wait" /\ reqs = 0
         /\ \A w \in CounterWriters : writer[w] = "idle"

\* As long as no call has returned an error, the stored counter has counted every
\* acknowledged write: a crash at any point leaves a counter that is not behind
\* what the engine was told (WriteAt waits for the answer of the goroutine).
AckedWritesCounted ==
    ~failed /\ setting = -1 => Parsed(file) >= base + acked

\* Where no I/O is pending, the cached counter, which the engine reads, is the
\* stored one, and both are exactly the counter that was set or read at the start
\* plus the writes acknowledged since (SetRevisionCounter: "there is no pending
\* IO").
QuietCounterExact ==
    Quiet => cache = Parsed(file) /\ cache = base + acked

\* Every acknowledged write is counted in the file, and without I/O the counter is
\* exact, in memory and in the file (initRevisionCounter, SetRevisionCounter).
WritesCounted == AckedWritesCounted /\ QuietCounterExact

\* Fairness: the goroutine and the requests go on.
CounterFairness ==
    /\ WF_counterVars(ServeCounter \/ Raise \/ CloseAcks)
    /\ \A w \in CounterWriters : /\ WF_counterVars(DataDone(w) \/ DataFails(w) \/ AnswerClosed(w))
                           /\ SF_counterVars(Answer(w))

CounterLiveSpec == CounterSpec /\ CounterFairness
=============================================================================
