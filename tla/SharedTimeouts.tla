--------------------------- MODULE SharedTimeouts ---------------------------
(***************************************************************************)
(* pkg/util/shared_timeouts.go: the timeouts the connections to the        *)
(* replicas of a volume share.  A consumer that has waited longer than the *)
(* short timeout gives up if another consumer is left; the last one waits  *)
(* for the long timeout.                                                   *)
(***************************************************************************)
EXTENDS Integers, FiniteSets

CONSTANT Consumers
ASSUME ConsumersAssumption == IsFiniteSet(Consumers)

VARIABLES state,         \* of each consumer: out, in, timedOut, left
          waited,        \* how long it has waited: 0, 1 longer than the short
                         \* timeout, 2 longer than the long one
          numConsumers

timeoutVars == <<state, waited, numConsumers>>

In == {c \in Consumers : state[c] = "in"}

\* Mutant: the last consumer is not told from the others.
ExceededAny(duration, n) == duration

\* The timeout that is exceeded, as 0 (none), 1 or 2, for a number of consumers.
Exceeded(duration, n) ==
    IF duration = 2 THEN 2 ELSE IF duration = 1 /\ n > 1 THEN 1 ELSE 0

Increment(c) ==
    /\ state[c] = "out"
    /\ state' = [state EXCEPT ![c] = "in"]
    /\ numConsumers' = numConsumers + 1
    /\ UNCHANGED waited

Wait(c) ==
    /\ state[c] = "in" /\ waited[c] < 2
    /\ waited' = [waited EXCEPT ![c] = @ + 1]
    /\ UNCHANGED <<state, numConsumers>>

Progress(c) ==
    /\ waited[c] # 0
    /\ waited' = [waited EXCEPT ![c] = 0]
    /\ UNCHANGED <<state, numConsumers>>

CheckAndDecrement(c) ==
    /\ state[c] = "in"
    /\ Exceeded(waited[c], numConsumers) > 0
    /\ state' = [state EXCEPT ![c] = "timedOut"]
    /\ numConsumers' = numConsumers - 1
    /\ waited' = [waited EXCEPT ![c] = 0]

\* Mutant: a consumer that has timed out is counted down once more.
DecrementAgain(c) ==
    /\ state[c] \in {"in", "timedOut"}
    /\ state' = [state EXCEPT ![c] = "left"]
    /\ numConsumers' = numConsumers - 1
    /\ waited' = [waited EXCEPT ![c] = 0]

Decrement(c) ==
    /\ state[c] = "in"
    /\ state' = [state EXCEPT ![c] = "left"]
    /\ numConsumers' = numConsumers - 1
    /\ waited' = [waited EXCEPT ![c] = 0]

Leave(c) ==
    /\ state[c] = "timedOut"
    /\ state' = [state EXCEPT ![c] = "left"]
    /\ UNCHANGED <<waited, numConsumers>>

TimeoutsInit ==
    /\ state = [c \in Consumers |-> "out"]
    /\ waited = [c \in Consumers |-> 0]
    /\ numConsumers = 0

TimeoutsNext ==
    \E c \in Consumers : \/ Increment(c) \/ Wait(c) \/ Progress(c)
                         \/ CheckAndDecrement(c) \/ Decrement(c) \/ Leave(c)

TimeoutsSpec == TimeoutsInit /\ [][TimeoutsNext]_timeoutVars

\* numConsumers counts the consumers that are neither gone nor timed out, so it
\* is never negative and never too large ("Ensure we always decrement").
ConsumersCounted == numConsumers = Cardinality(In)

\* "It is fine for some of the goroutines to time out quickly.  The last goroutine
\* should time out more slowly": a consumer that has not waited for the long
\* timeout gives up only if it leaves another one behind.
LastWaitsLong ==
    [][\A c \in Consumers : state[c] = "in" /\ state'[c] = "timedOut" /\ waited[c] < 2
           => \E d \in Consumers \ {c} : state'[d] = "in"]_timeoutVars
=============================================================================
