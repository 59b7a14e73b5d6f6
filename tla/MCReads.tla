------------------------------ MODULE MCReads ------------------------------
(***************************************************************************)
(* The ways of reading, checked in one run: the indexer's subscriptions,   *)
(* its queries and its SSE stream, the caches of the modules, the fee      *)
(* estimator, the memo cache, the arithmetic on a stream and the walks     *)
(* over pages.  They share no state with one another, so a behaviour is a  *)
(* behaviour of one of them, the scenario, and the others stay in an       *)
(* initial state.  The fee statistics are a scenario of their own.         *)
(***************************************************************************)
EXTENDS IndexerSubscription, ReadCaches, FeeEstimator, LruMemoCache, StreamMath, PagedReads,
        StreamsBatchRead, IndexerQuery, SseSubscription

VARIABLE scenario

readsVars ==
    <<scenario, vars, cacheVars, feeVars, memoVars, mathVars, walkVars, batchReadVars, queryVars, sseVars>>

\* A component whose turn it is not starts in one state only.
ReadsInit ==
    /\ scenario \in {"subscription", "cache", "fee", "stats", "memo", "math",
                     "walk", "batchread", "query", "sse"}
    /\ Init /\ MemoInit /\ SseInit
    /\ CachesInit /\ (scenario = "cache" \/ kind = "ledger")
    /\ FeeInit
    /\ operation[1] = CHOOSE o \in Operation : TRUE   \* they are interchangeable
    /\ scenario = "fee" \/ operation = [a \in Ask |-> operation[1]]
    /\ MathInit
    /\ scenario = "math" \/ (stream.ratePerSecond = 1 /\ stream.startTime = 0 /\ stream.endTime = 0)
    /\ WalkInit
    /\ scenario = "walk" \/ (walk = "all" /\ items = <<>> /\ cursors)
    /\ BatchReadInit
    /\ scenario = "batchread" \/ (asked = <<>> /\ chunkSize = 1 /\ maxConcurrency = 1)
    /\ QueryInit
    /\ scenario = "query" \/ (~persist /\ pagination = {} /\ ~callerAborted)

SubscriptionDoes(A) ==
    scenario = "subscription" /\ A
    /\ UNCHANGED <<scenario, cacheVars, feeVars, memoVars, mathVars, walkVars, batchReadVars, queryVars, sseVars>>
CacheDoes(A) ==
    scenario = "cache" /\ A
    /\ UNCHANGED <<scenario, vars, feeVars, memoVars, mathVars, walkVars, batchReadVars, queryVars, sseVars>>
FeeDoes(A) ==
    scenario = "fee" /\ A
    /\ UNCHANGED <<scenario, vars, cacheVars, memoVars, mathVars, walkVars, batchReadVars, queryVars, sseVars>>
StatsDo(A) ==
    scenario = "stats" /\ A
    /\ UNCHANGED <<scenario, vars, cacheVars, memoVars, mathVars, walkVars, batchReadVars, queryVars, sseVars>>
MemoDoes(A) ==
    scenario = "memo" /\ A
    /\ UNCHANGED <<scenario, vars, cacheVars, feeVars, mathVars, walkVars, batchReadVars, queryVars, sseVars>>
MathDoes(A) ==
    scenario = "math" /\ A
    /\ UNCHANGED <<scenario, vars, cacheVars, feeVars, memoVars, walkVars, batchReadVars, queryVars, sseVars>>
WalkDoes(A) ==
    scenario = "walk" /\ A
    /\ UNCHANGED <<scenario, vars, cacheVars, feeVars, memoVars, mathVars, batchReadVars, queryVars, sseVars>>
BatchReadDoes(A) ==
    scenario = "batchread" /\ A
    /\ UNCHANGED <<scenario, vars, cacheVars, feeVars, memoVars, mathVars, walkVars, queryVars, sseVars>>
QueryDoes(A) ==
    scenario = "query" /\ A
    /\ UNCHANGED <<scenario, vars, cacheVars, feeVars, memoVars, mathVars, walkVars, batchReadVars, sseVars>>
SseDoes(A) ==
    scenario = "sse" /\ A
    /\ UNCHANGED <<scenario, vars, cacheVars, feeVars, memoVars, mathVars, walkVars, batchReadVars, queryVars>>

\* Estimates and statistics have nothing in common but the clock.
ReadsNext ==
    \/ SubscriptionDoes(Next)
    \/ CacheDoes(CachesNext)
    \/ FeeDoes(EstimateNext \/ FeeTick)
    \/ StatsDo(StatsNext \/ FeeTick)
    \/ MemoDoes(MemoNext)
    \/ MathDoes(MathNext)
    \/ WalkDoes(WalkNext)
    \/ BatchReadDoes(BatchReadNext)
    \/ QueryDoes(QueryNext)
    \/ SseDoes(SseNext)

\* Fairness of IndexerSubscription, where it is its turn.
FairReadsSpec ==
    /\ ReadsInit /\ [][ReadsNext]_readsVars
    /\ \A s \in Sub : SF_readsVars(SubscriptionDoes(ReconnectTimer(s)))
    /\ \A s \in Sub, k \in Socket :
        /\ WF_readsVars(SubscriptionDoes(\/ SocketOpen(s, k)
                                         \/ readyState[k] = "connecting" /\ SocketClose(s, k)))
        /\ WF_readsVars(SubscriptionDoes(readyState[k] = "closing" /\ SocketClose(s, k)))
    /\ \A k \in Socket : WF_readsVars(SubscriptionDoes(DetachedClose(k)))

\* Reopens of IndexerSubscription, where it is its turn.
SubscriptionReopens == scenario = "subscription" => Reopens
=============================================================================
