----------------------------- MODULE HookReads -----------------------------
(***************************************************************************)
(* A hook of packages/react (or of src/react/hooks.ts) that reads: it asks *)
(* for what its arguments name, the arguments change while answers are     *)
(* under way, and what it shows is what the component renders.             *)
(*   "keyed"   useStream, useStreamedTotal, useFactoryStreamCount, ...     *)
(*   "polled"  useWithdrawableAmount, which also reads at an interval and, *)
(*             between the answers, takes the amount ahead at their rate   *)
(*   "effect"  useFeeEstimate and useStreamBalance of src/react/hooks.ts   *)
(*   "offset"  useStreamsBySender, useStreamsByRecipient                   *)
(*   "cursor"  useStreamList                                               *)
(* NoKey stands for arguments that name nothing and for a client that is   *)
(* not ready.  Handlers run in the latest render.                          *)
(***************************************************************************)
EXTENDS Naturals, Sequences

CONSTANTS
    ReadKey, NoKey,   \* what can be asked for
    HookPageLimit,        \* options.limit
    Rows,             \* how many rows each list has
    MaxVersion,       \* bound on how often the chain changes
    MaxRequests       \* bound on the requests under way

ASSUME ReadConstants ==
    /\ NoKey \notin ReadKey
    /\ {HookPageLimit, Rows} \subseteq Nat \ {0}
    /\ {MaxVersion, MaxRequests} \subseteq Nat

VARIABLES
    hook, asked,
    requests,     \* those sent and not answered, oldest first; a stale one does
                  \* not hold requestIdRef.current, or its effect is unmounted
    shown,        \* what the hook returns: one value, or the rows of a list
    loading, failed,
    offset,       \* offset, or cursor (0: undefined)
    hasMore,
    version,      \* of what is on the chain
    landed,       \* history: a first page for these arguments was shown
    \* of "polled" alone; lastSampleRef.current is the amount last read, which was
    \* shown then: both are set and cleared together
    rate,         \* ratePerSecond: what the two samples were read for, {}: null
    ahead,        \* the rate at which the amount shown was taken ahead of its sample
    switched      \* history: the arguments went from one stream straight to another

tickerVars == <<rate, ahead, switched>>
hookReadVars ==
    <<hook, asked, requests, shown, loading, failed, offset, hasMore, version, landed, tickerVars>>

Keyed == hook \in {"keyed", "polled"}
Paged == hook \in {"offset", "cursor"}

HookReadsInit ==
    /\ hook \in {"keyed", "polled", "effect", "offset", "cursor"}
    /\ asked = NoKey
    /\ requests = <<>>
    /\ shown = <<>> /\ loading = FALSE /\ failed = FALSE
    /\ offset = 0 /\ hasMore = FALSE
    /\ version = 0 /\ landed = FALSE
    /\ rate = {} /\ ahead = {} /\ switched = FALSE

\* ++requestIdRef.current, or the cleanup of an effect
Superseded == [i \in DOMAIN requests |-> [requests[i] EXCEPT !.stale = TRUE]]

\* After those before, a request for the page of k from row from, or k's value.
Send(before, k, from, append) ==
    /\ Len(requests) < MaxRequests
    /\ requests' = Append(before, [stale |-> FALSE, key |-> k, from |-> from,
                                   append |-> append, read |-> FALSE, value |-> <<>>])
OnlySupersede == requests' = Superseded

\* fetch() of the keyed hooks: the id is taken before anything is looked at.  The
\* sample and the rate go when there is nothing to ask for, and only then.
FetchKeyed(k, silent) ==
    /\ failed' = FALSE
    /\ UNCHANGED <<offset, hasMore>>
    /\ \/ /\ k = NoKey /\ shown' = <<>> /\ loading' = FALSE /\ OnlySupersede
          /\ rate' = {} /\ ahead' = {}
       \/ /\ k # NoKey /\ loading' = (loading \/ ~silent)
          /\ Send(Superseded, k, 0, FALSE)
          /\ UNCHANGED <<shown, rate, ahead>>

\* The effects of useFeeEstimate, which clears the error at once, and of
\* useStreamBalance, which does so with its first answer: their cleanup marks the
\* one before unmounted.
FetchEffect(k) ==
    /\ UNCHANGED <<offset, hasMore>>
    /\ \/ k = NoKey /\ shown' = <<>> /\ loading' = FALSE /\ failed' = FALSE /\ OnlySupersede
       \/ /\ k # NoKey /\ loading' = TRUE /\ failed' \in {FALSE, failed}
          /\ Send(Superseded, k, 0, FALSE)
          /\ UNCHANGED shown

\* fetchPage(): without an address it returns before it takes an id.
FetchPage(k, from, append) ==
    /\ UNCHANGED hasMore
    /\ \/ k = NoKey /\ shown' = <<>> /\ loading' = FALSE /\ UNCHANGED <<requests, failed>>
       \/ /\ k # NoKey /\ loading' = TRUE /\ failed' = FALSE
          /\ Send(Superseded, k, from, append)
          /\ UNCHANGED shown

\* The effect of useStreamList.
FetchList(k) ==
    /\ shown' = <<>> /\ offset' = 0 /\ hasMore' = FALSE
    /\ \/ k = NoKey /\ OnlySupersede /\ UNCHANGED <<loading, failed>>
       \/ k # NoKey /\ loading' = TRUE /\ failed' = FALSE /\ Send(Superseded, k, 0, FALSE)

\* The component renders with other arguments.
ArgumentsChange(k) ==
    /\ k # asked /\ asked' = k
    /\ \/ Keyed /\ FetchKeyed(k, FALSE)
       \/ /\ \/ hook = "effect" /\ FetchEffect(k)
             \/ hook = "offset" /\ offset' = 0 /\ FetchPage(k, 0, FALSE)
             \/ hook = "cursor" /\ FetchList(k)
          /\ UNCHANGED <<rate, ahead>>
    /\ landed' = FALSE
    /\ switched' = (hook = "polled" /\ k # NoKey /\ (switched \/ asked # NoKey))
    /\ UNCHANGED <<hook, version>>

\* refetch(), and the silent one of an interval or of a page seen again.
Refetch(silent) ==
    /\ \/ Keyed /\ (silent => hook = "polled") /\ FetchKeyed(asked, silent)
       \/ ~silent /\ hook = "offset" /\ offset' = 0 /\ FetchPage(asked, 0, FALSE) /\ UNCHANGED <<rate, ahead>>
    /\ UNCHANGED <<hook, asked, version, landed, switched>>

\* The interval of useStreamBalance: its requests share the effect's flag.
PollBalance ==
    /\ hook = "effect" /\ asked # NoKey
    /\ UNCHANGED <<hook, asked, shown, loading, failed, offset, hasMore, version, landed, tickerVars>>
    /\ Send(requests, asked, 0, FALSE)

LoadMoreByOffset ==
    /\ hook = "offset" /\ ~loading /\ hasMore
    /\ offset + HookPageLimit <= Rows /\ Len(shown) <= Rows   \* bounds
    /\ offset' = offset + HookPageLimit
    /\ FetchPage(asked, offset + HookPageLimit, TRUE)
    /\ UNCHANGED <<hook, asked, version, landed, tickerVars>>

LoadMoreByCursor ==
    /\ hook = "cursor" /\ asked # NoKey /\ ~loading /\ hasMore /\ offset # 0
    /\ loading' = TRUE
    /\ Send(Superseded, asked, offset, TRUE)
    /\ UNCHANGED <<hook, asked, shown, failed, offset, hasMore, version, landed, tickerVars>>

\* The node reads what request i asks for, at some moment before it answers.
NodeAnswers(i) ==
    /\ ~requests[i].read
    /\ LET r == requests[i]
           size == IF r.from >= Rows THEN 0
                   ELSE IF r.from + HookPageLimit <= Rows THEN HookPageLimit ELSE Rows - r.from
       IN  requests' = [requests EXCEPT ![i].read = TRUE, ![i].value =
               IF Paged THEN [n \in 1 .. size |-> [key |-> r.key, at |-> r.from + n]]
                        ELSE <<[key |-> r.key, at |-> version]>>]
    /\ UNCHANGED <<hook, asked, shown, loading, failed, offset, hasMore, version, landed, tickerVars>>

Without(i) == SubSeq(requests, 1, i - 1) \o SubSeq(requests, i + 1, Len(requests))

\* A mistake for the runs to notice: .then() does not look at the id.
LandsAnyway(i) ==
    LET r == requests[i] IN
    /\ r.read
    /\ requests' = Without(i)
    /\ loading' = FALSE /\ landed' = TRUE
    /\ shown' = IF r.append THEN shown \o r.value ELSE r.value
    /\ UNCHANGED <<hook, asked, failed, offset, hasMore, version, tickerVars>>

\* ratePerSecond after an answer for k: from it and the last sample, if there is
\* one; a smaller amount, or no time between the two, keeps the rate.
RatesAfter(k) ==
    IF hook = "polled" /\ shown # <<>> THEN {rate, {shown[1].key, k}} ELSE {rate}

\* .then(): an answer to a request that is no longer the latest is dropped.
AnswerLands(i) ==
    LET r == requests[i] IN
    /\ r.read
    /\ requests' = Without(i)
    /\ \/ r.stale /\ UNCHANGED <<shown, loading, failed, offset, hasMore, landed, rate, ahead>>
       \/ /\ ~r.stale
          /\ loading' = FALSE
          /\ landed' = (landed \/ ~r.append)
          /\ shown' = IF r.append THEN shown \o r.value ELSE r.value
          /\ failed' = (failed /\ hook # "effect")
          /\ offset' = IF hook # "cursor" THEN offset
                       ELSE IF r.from + HookPageLimit < Rows THEN r.from + HookPageLimit ELSE 0
          /\ hasMore' = IF hook = "offset" THEN Len(r.value) = HookPageLimit
                        ELSE IF hook = "cursor" THEN r.from + HookPageLimit < Rows ELSE hasMore
          /\ rate' \in RatesAfter(r.key) /\ ahead' = {}
    /\ UNCHANGED <<hook, asked, version, switched>>

\* .catch()
RequestFails(i) ==
    /\ requests' = Without(i)
    /\ \/ requests[i].stale /\ UNCHANGED <<loading, failed>>
       \/ ~requests[i].stale /\ loading' = FALSE /\ failed' = TRUE
    /\ UNCHANGED <<hook, asked, shown, offset, hasMore, version, landed, tickerVars>>

\* The live ticker: the last sample and what has accrued at the rate since, shown
\* when it is more.
LiveTick ==
    /\ hook = "polled" /\ asked # NoKey /\ shown # <<>>
    /\ rate # {} /\ rate # ahead
    /\ ahead' = rate
    /\ UNCHANGED <<hook, asked, requests, shown, loading, failed, offset, hasMore, version, landed,
                   rate, switched>>

ChainChanges ==
    /\ ~Paged /\ version < MaxVersion /\ version' = version + 1
    /\ UNCHANGED <<hook, asked, requests, shown, loading, failed, offset, hasMore, landed, tickerVars>>

HookReadsNext ==
    \/ \E k \in ReadKey \cup {NoKey} : ArgumentsChange(k)
    \/ \E silent \in BOOLEAN : Refetch(silent)
    \/ PollBalance \/ LoadMoreByOffset \/ LoadMoreByCursor
    \/ \E i \in DOMAIN requests : NodeAnswers(i) \/ AnswerLands(i) \/ RequestFails(i)
    \/ ChainChanges \/ LiveTick

HookReadsSpec == HookReadsInit /\ [][HookReadsNext]_hookReadVars

-----------------------------------------------------------------------------
\* A hook that is not loading and reports no error shows what it was asked
\* for, whatever came back late; useStreamList shows the rows once each, in
\* order and without a gap.  The code leaves two exceptions.  The silent read
\* after a failed one hides the error, not the old amount.  And the offset
\* hooks do so only once a first page has landed: they let an answer for the
\* last address land when there is none any more, and after a failed first
\* page loadMore() appends to the rows of the last address.  The rate that
\* useWithdrawableAmount returns, and at which it takes the amount ahead, is of
\* samples of the stream asked for, but not after it was asked for one stream
\* straight after another: the sample and the rate of the last one stay, and
\* the first answer makes a rate of the two amounts.
ShownAsAsked ==
    /\ (IF hook = "offset" THEN landed /\ asked # NoKey ELSE ~loading /\ ~failed) =>
          \/ \A n \in DOMAIN shown : shown[n].key = asked
          \/ hook = "polled" /\ \E i \in DOMAIN requests : ~requests[i].stale
    /\ hook = "cursor" => \A n \in DOMAIN shown : shown[n].at = n
    /\ hook = "polled" => rate \cup ahead \subseteq {asked} \/ switched
=============================================================================
