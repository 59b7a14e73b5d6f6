---------------------------- MODULE FeeEstimator ----------------------------
(***************************************************************************)
(* Fees: FeeEstimator.estimateFee() and getLedgerFeeStats() of             *)
(* src/fee-estimator.ts, and StreamsModule.estimateFee() of src/streams.ts *)
(* with the cache it puts before them.                                     *)
(*                                                                         *)
(* A fee is the price level of the moment the node simulates, which may be *)
(* long before its answer arrives: an entry is stamped with the arrival,   *)
(* fetchedAt.  fetch() answers or rejects, it does not throw.  The         *)
(* reactions to a promise run before the next event.                       *)
(***************************************************************************)
EXTENDS Integers, FiniteSets

CONSTANTS
    Operation,          \* operations whose fee is asked for, a cacheKey each
    AskCount,           \* calls of estimateFee(), numbered as they are made
    StatsCalls,         \* bound: calls of getLedgerFeeStats()
    FeeTtl,             \* cacheTtlMs
    MinRefetchInterval, \* minRefetchIntervalMs
    FeeClock            \* bound: ticks

ASSUME FeeAssumption ==
    /\ {AskCount, StatsCalls, FeeTtl, MinRefetchInterval, FeeClock} \subseteq Nat
    /\ FeeTtl > 0
    /\ {"any", "none"} \cap Operation = {}

Ask == 1 .. AskCount
NoAsk == 0
Never == 0 - FeeTtl - MinRefetchInterval - FeeClock

VARIABLES
    ticks,
    ask,                \* of a call: idle, building, fetching, joined or done
    operation,          \* of a call: its cacheKey
    madeAt,             \* of a call: when it was made
    fetcher,            \* of an operation: the call whose fetch is in flight, or NoAsk
    simulated,          \* of an operation: when the node simulated for that fetch, or Never
    cache,              \* of an operation: the estimator's entry
    estimates,          \* of an operation: the entry of feeEstimateCache
    lastSuccess, lastError,
    fee,                \* what a call was answered
    counted,            \* calls whose own simulation counted the instructions
    stats, statsInFlight, statsAsked

estimatorVars == <<fetcher, simulated, cache, lastSuccess, lastError>>
statsVars == <<stats, statsInFlight, statsAsked>>
feeVars == <<ticks, ask, operation, madeAt, estimatorVars, estimates, fee, counted, statsVars>>

\* A fee is known by the operation it was fetched for, the moment the node read
\* it and the time its answer took; baseFee, which takes the place of any fee, is
\* not.
StandIn == [for |-> "any", read |-> Never, took |-> 0]
NoFee == [for |-> "none", read |-> Never, took |-> 0]
Empty == [value |-> NoFee, at |-> Never]

FeeInit ==
    /\ ticks = 0
    /\ ask = [a \in Ask |-> "idle"]
    /\ operation \in [Ask -> Operation]
    /\ madeAt = [a \in Ask |-> 0]
    /\ fetcher = [o \in Operation |-> NoAsk]
    /\ simulated = [o \in Operation |-> Never]
    /\ cache = [o \in Operation |-> Empty]
    /\ estimates = [o \in Operation |-> Empty]
    /\ lastSuccess = Never /\ lastError = FALSE
    /\ fee = [a \in Ask |-> NoFee]
    /\ counted = {}
    /\ stats = Never /\ statsInFlight = FALSE /\ statsAsked = 0

\* A mistake for the runs to notice: an entry lives a moment longer.
RecentStill(at) == ticks - at <= FeeTtl

Recent(at) == ticks - at < FeeTtl

-----------------------------------------------------------------------------
(* StreamsModule.estimateFee()                                             *)

\* The answers of the calls in S, which leave their value in feeEstimateCache.
Answer(S, value) ==
    /\ ask' = [a \in Ask |-> IF a \in S THEN "done" ELSE ask[a]]
    /\ fee' = [a \in Ask |-> IF a \in S THEN value ELSE fee[a]]
    /\ estimates' = [o \in Operation |->
                       IF \E a \in S : operation[a] = o
                       THEN [value |-> value, at |-> ticks] ELSE estimates[o]]

\* The call looks into its own cache first.
EstimateFee(a) ==
    /\ ask[a] = "idle" /\ \A b \in 1 .. a - 1 : ask[b] # "idle"
    /\ madeAt' = [madeAt EXCEPT ![a] = ticks]
    /\ LET cached == estimates[operation[a]]
       IN  IF Recent(cached.at)
           THEN /\ ask' = [ask EXCEPT ![a] = "done"]
                /\ fee' = [fee EXCEPT ![a] = cached.value]
           ELSE ask' = [ask EXCEPT ![a] = "building"] /\ UNCHANGED fee
    /\ UNCHANGED <<ticks, operation, estimatorVars, estimates, counted, statsVars>>

\* The transaction cannot be built.
BuildingFails(a) ==
    /\ ask[a] = "building"
    /\ ask' = [ask EXCEPT ![a] = "failed"]
    /\ UNCHANGED <<ticks, operation, madeAt, estimatorVars, estimates, fee, counted, statsVars>>

-----------------------------------------------------------------------------
(* FeeEstimator.estimateFee()                                              *)

\* A hit, a fetch to share, the last fee of whichever operation within the
\* interval (an error when the last fetch failed), or a fetch.
AskEstimator(a) ==
    /\ ask[a] = "building"
    /\ LET o == operation[a]
       IN  IF Recent(cache[o].at)
           THEN Answer({a}, cache[o].value) /\ UNCHANGED fetcher
           ELSE IF fetcher[o] # NoAsk
           THEN /\ ask' = [ask EXCEPT ![a] = "joined"]
                /\ UNCHANGED <<fee, estimates, fetcher>>
           ELSE IF ticks - lastSuccess < MinRefetchInterval
           THEN /\ IF lastError
                   THEN ask' = [ask EXCEPT ![a] = "failed"] /\ UNCHANGED <<fee, estimates>>
                   ELSE Answer({a}, StandIn)
                /\ UNCHANGED fetcher
           ELSE /\ ask' = [ask EXCEPT ![a] = "fetching"]
                /\ fetcher' = [fetcher EXCEPT ![o] = a]
                /\ UNCHANGED <<fee, estimates>>
    /\ UNCHANGED <<ticks, operation, madeAt, simulated, cache, lastSuccess, lastError, counted, statsVars>>

Sharing(o) == {a \in Ask : operation[a] = o /\ ask[a] \in {"fetching", "joined"}}

\* The node simulates for the fetch in flight; its answer is on the way.
NodeSimulates(o) ==
    /\ fetcher[o] # NoAsk /\ simulated[o] = Never
    /\ simulated' = [simulated EXCEPT ![o] = ticks]
    /\ UNCHANGED <<ticks, ask, operation, madeAt, fetcher, cache, lastSuccess, lastError,
                   estimates, fee, counted, statsVars>>

\* The entry is stamped with the arrival of the answer.  Only the call that
\* fetched knows the instructions.
FeeArrives(o) ==
    /\ simulated[o] # Never
    /\ LET value == [for |-> o, read |-> simulated[o], took |-> ticks - simulated[o]]
       IN  /\ Answer(Sharing(o), value)
           /\ cache' = [cache EXCEPT ![o] = [value |-> value, at |-> ticks]]
    /\ lastSuccess' = ticks /\ lastError' = FALSE
    /\ counted' = counted \cup {fetcher[o]}
    /\ fetcher' = [fetcher EXCEPT ![o] = NoAsk]
    /\ simulated' = [simulated EXCEPT ![o] = Never]
    /\ UNCHANGED <<ticks, operation, madeAt, statsVars>>

\* The last fee of whichever operation stands in for it.
FeeFails(o) ==
    /\ fetcher[o] # NoAsk
    /\ Answer(Sharing(o), StandIn)
    /\ lastError' = TRUE
    /\ fetcher' = [fetcher EXCEPT ![o] = NoAsk]
    /\ simulated' = [simulated EXCEPT ![o] = Never]
    /\ UNCHANGED <<ticks, operation, madeAt, cache, lastSuccess, counted, statsVars>>

-----------------------------------------------------------------------------
(* getLedgerFeeStats(), whose fetch is shared, too                         *)

GetLedgerFeeStats ==
    /\ statsAsked < StatsCalls
    /\ statsAsked' = statsAsked + 1
    /\ statsInFlight' = (statsInFlight \/ ~Recent(stats))
    /\ UNCHANGED <<ticks, ask, operation, madeAt, estimatorVars, estimates, fee, counted, stats>>

StatsArrive ==
    /\ statsInFlight
    /\ statsInFlight' = FALSE
    /\ stats' = ticks
    /\ UNCHANGED <<ticks, ask, operation, madeAt, estimatorVars, estimates, fee, counted, statsAsked>>

\* The stats fetched last, however old, or an error.
StatsFail ==
    /\ statsInFlight
    /\ statsInFlight' = FALSE
    /\ UNCHANGED <<ticks, ask, operation, madeAt, estimatorVars, estimates, fee, counted, stats, statsAsked>>

FeeTick ==
    /\ ticks < FeeClock
    /\ ticks' = ticks + 1
    /\ UNCHANGED <<ask, operation, madeAt, estimatorVars, estimates, fee, counted, statsVars>>

EstimateNext ==
    \/ \E a \in Ask : EstimateFee(a) \/ BuildingFails(a) \/ AskEstimator(a)
    \/ \E o \in Operation : NodeSimulates(o) \/ FeeArrives(o) \/ FeeFails(o)
StatsNext == GetLedgerFeeStats \/ StatsArrive \/ StatsFail

FeeNext == EstimateNext \/ StatsNext \/ FeeTick

FeeSpec == FeeInit /\ [][FeeNext]_feeVars

-----------------------------------------------------------------------------
\* Two caches with the same time to live, one before the other, and each counts
\* from when it was filled, the first from the arrival of the answer (fetchedAt,
\* fee-estimator.ts:444-446): an estimate that was simulated for the operation is,
\* when it is asked for, older than twice the time to live by no more than its
\* answer was on the way, whatever was shared or failed meanwhile, and what the
\* estimator remembers for an operation was simulated for it.
EstimateAge ==
    /\ \A a \in Ask : fee[a].for = operation[a] =>
         madeAt[a] - fee[a].read <= 2 * (FeeTtl - 1) + fee[a].took
    /\ \A o \in Operation : cache[o] # Empty => cache[o].value.for = o
=============================================================================
