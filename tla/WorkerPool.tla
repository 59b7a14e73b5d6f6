---------------------------- MODULE WorkerPool ----------------------------
(***************************************************************************)
(* mapWithConcurrency() and mapWithAdaptiveConcurrency() of                *)
(* src/map-with-concurrency.ts.                                            *)
(*                                                                         *)
(* A worker takes the next item, waits for a slot when the limit adapts,   *)
(* and calls fn().  A call that rejects ends its worker and rejects the    *)
(* whole, while the other workers go on.                                   *)
(***************************************************************************)
EXTENDS Integers, Sequences, FiniteSets, SequencesExt, FiniteSetsExt

CONSTANTS
    PoolSize,           \* items.length
    MaxLimit            \* concurrency, or options.max

ASSUME PoolAssumption == PoolSize \in Nat \ {0} /\ MaxLimit \in Nat \ {0}

PoolItem == 1 .. PoolSize

VARIABLES
    adaptive,           \* which of the two functions
    limit,              \* calls allowed in flight
    nextItem,           \* index
    flying,             \* items whose call is in flight
    parked,             \* items whose worker waits for a slot, in wake order
    results,            \* results[i], 0 for a hole
    verdict             \* the promise of the caller

poolVars == <<adaptive, limit, nextItem, flying, parked, results, verdict>>

Workers == Min({MaxLimit, PoolSize})

\* release() wakes the whole line: those that find a slot fly, the others park again.
Take(inFlight, line, bound) ==
    LET admitted == Max({0, Min({Len(line), bound - Cardinality(inFlight)})})
    IN  /\ flying' = inFlight \cup ToSet(SubSeq(line, 1, admitted))
        /\ parked' = SubSeq(line, admitted + 1, Len(line))

PoolInit ==
    /\ adaptive \in BOOLEAN
    /\ limit \in IF adaptive THEN 1 .. MaxLimit ELSE {MaxLimit}
    /\ nextItem = Workers + 1
    /\ flying = 1 .. Min({limit, Workers})
    /\ parked = [k \in 1 .. Workers - Min({limit, Workers}) |-> limit + k]
    /\ results = [i \in PoolItem |-> 0]
    /\ verdict = "pending"

\* A mistake for the runs to notice: the limit may fall to nothing.
HalvedFreely(slow) == IF slow THEN limit \div 2 ELSE Min({MaxLimit, limit + 1})

\* Slower than targetLatencyMs: halved.  Faster: one more.
Adapted(slow) == IF slow THEN Max({1, limit \div 2}) ELSE Min({MaxLimit, limit + 1})

\* The worker of item i is free: it takes the next item, before the workers its
\* release() woke look for a slot again.
NextFor(i) ==
    /\ nextItem' = IF nextItem <= PoolSize THEN nextItem + 1 ELSE nextItem
    /\ LET own == IF nextItem <= PoolSize THEN <<nextItem>> ELSE <<>>
           slots == limit' - Cardinality(flying \ {i})
       IN  IF own # <<>> /\ slots > 0
           THEN Take((flying \ {i}) \cup {nextItem}, parked, limit')
           ELSE Take(flying \ {i}, own \o parked, limit')

CallResolves(i) ==
    /\ i \in flying
    /\ results' = [results EXCEPT ![i] = i]
    /\ \E slow \in BOOLEAN : limit' = IF adaptive THEN Adapted(slow) ELSE limit
    /\ NextFor(i)
    /\ verdict' = IF verdict = "pending" /\ flying' = {} /\ parked' = <<>>
                  THEN "resolved" ELSE verdict
    /\ UNCHANGED adaptive

\* The worker ends; release() still wakes the others.
CallRejects(i) ==
    /\ i \in flying
    /\ verdict' = IF verdict = "pending" THEN "rejected" ELSE verdict
    /\ Take(flying \ {i}, parked, limit)
    /\ UNCHANGED <<adaptive, limit, nextItem, results>>

PoolNext == \E i \in PoolItem : CallResolves(i) \/ CallRejects(i)

PoolSpec == PoolInit /\ [][PoolNext]_poolVars

-----------------------------------------------------------------------------
\* No wake-up is lost and no item taken twice or left out: an item is in flight,
\* parked beside a call that will wake it, answered, rejected or still to come,
\* and the promise resolves with a result in every place.
PoolExact ==
    /\ Cardinality(flying) <= MaxLimit
    /\ parked # <<>> => flying # {}
    /\ \A k \in DOMAIN parked : parked[k] < nextItem /\ parked[k] \notin flying /\ results[parked[k]] = 0
    /\ \A i \in flying : i < nextItem /\ results[i] = 0
    /\ verdict = "resolved" => \A i \in PoolItem : results[i] = i
    /\ verdict = "pending" => flying # {}
=============================================================================
