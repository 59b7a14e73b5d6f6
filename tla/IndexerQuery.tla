---------------------------- MODULE IndexerQuery ----------------------------
(***************************************************************************)
(* One query() of the GraphQL indexer (src/indexer.ts), with the persisted *)
(* query protocol: the hash of the text goes first, and the text only when *)
(* the server does not know it.  A timer and the caller's signal abort the *)
(* fetch; neither is there any more when the body is read.                 *)
(***************************************************************************)
EXTENDS Naturals, Sequences

VARIABLES
    persist,            \* options.persist !== false
    pagination,         \* the paging arguments of fetchStreamsBySender()
    queryPhase,         \* "idle", "hashing", "fetching", "reading", "settled"
    requests,           \* requests sent: "hash" and "text"
    fetchTimer, abortListener, fetchAborted,
    callerAborted,
    destroyed,          \* cleanup() of the indexer
    unknownHash,        \* history: the server has said that it does not know it
    answer,             \* how query() settled
    metrics             \* history: what onQueryMetric() was told

queryVars == <<persist, pagination, queryPhase, requests, fetchTimer, abortListener, fetchAborted,
               callerAborted, destroyed, unknownHash, answer, metrics>>

requestVars == <<fetchTimer, abortListener, fetchAborted>>

PagingArgument == {"first", "last", "afterCursor", "beforeCursor"}

QueryInit ==
    /\ persist \in BOOLEAN
    /\ pagination \in SUBSET PagingArgument
    /\ queryPhase = "idle"
    /\ requests = <<>>
    /\ fetchTimer = FALSE /\ abortListener = FALSE /\ fetchAborted = FALSE
    /\ callerAborted \in BOOLEAN
    /\ destroyed = FALSE
    /\ unknownHash = FALSE
    /\ answer = "none"
    /\ metrics = <<>>

\* query() tells the metric callback once, whichever way it ends.
SettleQuery(how) ==
    /\ queryPhase' = "settled"
    /\ answer' = how
    /\ metrics' = Append(metrics, how = "data")

\* fetchWithTimeout(): a signal that is aborted already rejects before anything
\* is sent.
ExecuteRequest(body) ==
    IF callerAborted
    THEN SettleQuery("aborted") /\ UNCHANGED <<requests, requestVars>>
    ELSE /\ requests' = Append(requests, body)
         /\ fetchTimer' = TRUE /\ abortListener' = TRUE /\ fetchAborted' = FALSE
         /\ queryPhase' = "fetching"
         /\ UNCHANGED <<answer, metrics>>

\* fetchStreamsBySender(): forward or backward, never both.
PagingRefused ==
    \/ {"afterCursor", "beforeCursor"} \subseteq pagination
    \/ {"first", "last"} \subseteq pagination
    \/ {"beforeCursor", "first"} \subseteq pagination
    \/ {"afterCursor", "last"} \subseteq pagination

\* The variables sent with the query.
PagingVariables ==
    IF "beforeCursor" \in pagination \/ "last" \in pagination
    THEN pagination \cap {"last", "beforeCursor"} ELSE pagination \cap {"first", "afterCursor"}

\* Refused arguments never reach query(): nothing is sent and no metric emitted.
FetchStreamsRefused ==
    /\ queryPhase = "idle" /\ PagingRefused
    /\ queryPhase' = "settled" /\ answer' = "refused"
    /\ UNCHANGED <<persist, pagination, requests, requestVars, callerAborted, destroyed, unknownHash, metrics>>

\* queryInternal(): a destroyed indexer rejects; a persisted query waits for the
\* hash of its text.
QueryStarts ==
    /\ queryPhase = "idle" /\ ~PagingRefused
    /\ IF destroyed THEN SettleQuery("destroyed") /\ UNCHANGED <<requests, requestVars>>
       ELSE IF persist THEN queryPhase' = "hashing" /\ UNCHANGED <<requests, requestVars, answer, metrics>>
       ELSE ExecuteRequest("text")
    /\ UNCHANGED <<persist, pagination, callerAborted, destroyed, unknownHash>>

Hashed ==
    /\ queryPhase = "hashing"
    /\ ExecuteRequest("hash")
    /\ UNCHANGED <<persist, pagination, callerAborted, destroyed, unknownHash>>

CallerAborts ==
    /\ ~callerAborted
    /\ callerAborted' = TRUE
    /\ fetchAborted' = (fetchAborted \/ abortListener)
    /\ UNCHANGED <<persist, pagination, queryPhase, requests, fetchTimer, abortListener, destroyed,
                   unknownHash, answer, metrics>>

FetchTimesOut ==
    /\ fetchTimer
    /\ fetchTimer' = FALSE /\ fetchAborted' = TRUE
    /\ UNCHANGED <<persist, pagination, queryPhase, requests, abortListener, callerAborted, destroyed,
                   unknownHash, answer, metrics>>

\* The finally block of fetchWithTimeout().
FetchOver == fetchTimer' = FALSE /\ abortListener' = FALSE /\ UNCHANGED fetchAborted

\* A timeout is told from the caller's abort by the caller's signal alone.
FetchRejects ==
    /\ queryPhase = "fetching"
    /\ SettleQuery(IF fetchAborted /\ ~callerAborted THEN "timeout"
                   ELSE IF fetchAborted THEN "aborted" ELSE "failed")
    /\ FetchOver
    /\ UNCHANGED <<persist, pagination, requests, callerAborted, destroyed, unknownHash>>

\* A mistake for the runs to notice: only a fetch that rejects is tidied up.
RespondsUntidily(ok) ==
    /\ queryPhase = "fetching" /\ ~fetchAborted
    /\ IF ok THEN queryPhase' = "reading" /\ UNCHANGED <<answer, metrics>> ELSE SettleQuery("failed")
    /\ UNCHANGED <<persist, pagination, requests, requestVars, callerAborted, destroyed, unknownHash>>

FetchResponds(ok) ==
    /\ queryPhase = "fetching" /\ ~fetchAborted
    /\ FetchOver
    /\ IF ok THEN queryPhase' = "reading" /\ UNCHANGED <<answer, metrics>> ELSE SettleQuery("failed")
    /\ UNCHANGED <<persist, pagination, requests, callerAborted, destroyed, unknownHash>>

\* The body: data, errors, or that the hash is not known, which sends the text
\* with the hash, once.
BodyRead(body) ==
    /\ queryPhase = "reading"
    /\ unknownHash' = (unknownHash \/ body = "unknown")
    /\ IF body = "unknown" /\ persist /\ requests = <<"hash">>
       THEN ExecuteRequest("text")
       ELSE SettleQuery(IF body = "data" THEN "data" ELSE "failed") /\ UNCHANGED <<requests, requestVars>>
    /\ UNCHANGED <<persist, pagination, callerAborted, destroyed>>

DestroyIndexer ==
    /\ ~destroyed
    /\ destroyed' = TRUE
    /\ UNCHANGED <<persist, pagination, queryPhase, requests, requestVars, callerAborted, unknownHash,
                   answer, metrics>>

QueryNext ==
    \/ FetchStreamsRefused \/ QueryStarts \/ Hashed \/ CallerAborts \/ FetchTimesOut \/ FetchRejects
    \/ \E ok \in BOOLEAN : FetchResponds(ok)
    \/ \E body \in {"data", "errors", "unknown"} : BodyRead(body)
    \/ DestroyIndexer

QuerySpec == QueryInit /\ [][QueryNext]_queryVars

-----------------------------------------------------------------------------
\* Whenever the timer, the caller's abort, the answer and cleanup() come: the
\* text is sent only to a server that does not know its hash, the timer and the
\* listener live as long as a fetch, a timeout is not blamed on a caller who
\* aborted, and the metric is emitted once and says what the caller was told.
QueryTidy ==
    /\ persist /\ "text" \in {requests[k] : k \in DOMAIN requests} => unknownHash /\ requests[1] = "hash"
    /\ Len(requests) <= 2
    /\ queryPhase # "fetching" => ~fetchTimer /\ ~abortListener
    /\ queryPhase = "fetching" => fetchTimer \/ fetchAborted
    /\ callerAborted /\ queryPhase = "fetching" => fetchAborted
    /\ queryPhase = "settled" /\ answer # "refused" => metrics = <<answer = "data">>
    /\ queryPhase # "settled" \/ answer = "refused" => metrics = <<>>
    /\ ~PagingRefused => PagingVariables = pagination
=============================================================================
