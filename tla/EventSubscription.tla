------------------------- MODULE EventSubscription --------------------------
(***************************************************************************)
(* subscribeToStream() of src/events.ts: a loop that polls getEvents() for *)
(* one contract, with two repairs that run beside it.  replayGap() fetches *)
(* events again when the contract's sequence numbers jump, and             *)
(* backfillLedgerGap() when the ledger numbers do (LedgerGapDetector of    *)
(* src/indexer.ts).  The three share one window of recent event ids.       *)
(*                                                                         *)
(* The contract's events are 1, 2, ...; event e carries sequence number e  *)
(* and lies in ledger EventLedger[e].  The RPC node answers from the       *)
(* ledgers closed so far; it may not know cursors, and one that lags may   *)
(* leave events out of its answer to a poll.                               *)
(***************************************************************************)
EXTENDS Integers, Sequences, FiniteSets, SequencesExt

CONSTANTS
    EventLedger,     \* ledger of every event of the contract, in order
    FirstLedger,     \* latest ledger when the subscription starts
    LastLedger,      \* bound: the chain closes no ledger after it
    PageLimit,       \* `limit` of a poll
    BackfillLimit,   \* `limit` of a repair
    DedupWindow,     \* handlers.dedupWindowSize
    MaxFailures,     \* handlers.maxConsecutiveFailures
    Nodes,           \* the RPC nodes: whether they return cursors, and the events they may leave out
    RpcFails,        \* whether requests may fail
    None             \* undefined, or no request in flight

Event == DOMAIN EventLedger

ASSUME EventAssumption ==
    /\ EventLedger \in Seq(Nat \ {0})
    /\ \A d, e \in Event : d < e => EventLedger[d] <= EventLedger[e]
    /\ FirstLedger \in Nat \ {0} /\ LastLedger \in Nat
    /\ PageLimit \in Nat \ {0} /\ BackfillLimit \in Nat \ {0}
    /\ DedupWindow \in Nat /\ MaxFailures \in Nat \ {0}
    /\ Nodes \subseteq [cursor : BOOLEAN, hides : SUBSET Event]
    /\ RpcFails \in BOOLEAN
    /\ None \notin Int

VARIABLES
    node,            \* the node the subscription talks to
    head,            \* the latest closed ledger
    pc,              \* the poll loop: waiting for its timer, awaiting an answer, or over
    startLedger, lastStartLedger, ledgerSeeded,
    cursor,          \* the last event before the next page, or None
    consecutiveFailures,
    stopped,
    unsubscribed,    \* handlers = {}
    currentLedger,   \* of ledgerGapDetector, 0 before the first event
    lastSequence,    \* 0 before the first event
    recentIds,
    replay,          \* the getEvents() of replayGap() in flight, or None
    backfill,        \* the getEvents() of backfillLedgerGap() in flight, or None
    log              \* history: events handed to the application's handlers

pollVars == <<pc, startLedger, lastStartLedger, ledgerSeeded, cursor, consecutiveFailures>>
streamVars == <<currentLedger, lastSequence, recentIds, replay, backfill, log>>
vars == <<node, head, pollVars, stopped, unsubscribed, streamVars>>

Init ==
    /\ node \in Nodes
    /\ head = FirstLedger
    /\ pc = "waiting"
    /\ startLedger = 0 /\ lastStartLedger = 0 /\ ledgerSeeded = FALSE
    /\ cursor = None
    /\ consecutiveFailures = 0
    /\ stopped = FALSE /\ unsubscribed = FALSE
    /\ currentLedger = 0 /\ lastSequence = 0
    /\ recentIds = <<>>
    /\ replay = None /\ backfill = None
    /\ log = <<>>

-----------------------------------------------------------------------------
(* The RPC node.                                                           *)

\* The events of S in order, at most limit of them.
Page(S, limit) ==
    LET rank(e) == Cardinality({d \in S : d <= e})
        size == IF Cardinality(S) < limit THEN Cardinality(S) ELSE limit
    IN  [i \in 1 .. size |-> CHOOSE e \in S : rank(e) = i]

Closed(e) == EventLedger[e] <= head
From(ledger) == {e \in Event : Closed(e) /\ EventLedger[e] >= ledger}
After(c) == {e \in Event : Closed(e) /\ e > c}

-----------------------------------------------------------------------------
(* Handling one event: st collects what the handlers change.               *)

\* RecentIdWindow.seen()
Seen(st, e) == e \in Range(st.recent)

Remember(st, e) ==
    LET longer == Append(st.recent, e) IN
    [st EXCEPT !.recent = IF Len(longer) > DedupWindow THEN Tail(longer) ELSE longer]

\* A mistake for the runs to notice: handlers run after unsubscribe().
DispatchAlways(st, e) ==
    IF Seen(st, e) THEN st ELSE [Remember(st, e) EXCEPT !.log = Append(@, e)]

Dispatch(st, e) ==
    IF Seen(st, e) THEN st
    ELSE [Remember(st, e) EXCEPT
            !.log = IF unsubscribed THEN @ ELSE Append(@, e)]

\* LedgerGapDetector.observe(), and the backfill a gap starts.
Observe(st, e) ==
    LET ledger == EventLedger[e]
        gap == st.ledger # 0 /\ ledger > st.ledger + 1
    IN  [st EXCEPT
            !.ledger = IF ledger > @ THEN ledger ELSE @,
            !.backfill = IF gap /\ @ = None
                         THEN [expected |-> st.ledger + 1, actual |-> ledger] ELSE @]

\* The check of the sequence number of an event just dispatched, and the
\* replay a gap starts.
CheckSequence(st, e) ==
    LET gap == st.sequence # 0 /\ e # st.sequence + 1 IN
    [st EXCEPT
        !.sequence = e,
        !.replay = IF gap /\ @ = None /\ lastStartLedger > 0
                   THEN [expected |-> st.sequence, actual |-> e, from |-> lastStartLedger]
                   ELSE @]

Polled(st, e) ==
    LET observed == Observe(st, e) IN
    IF Seen(observed, e) THEN observed ELSE CheckSequence(Dispatch(observed, e), e)

\* A page, event by event: by poll(), and what a repair has missed.
PolledPage(st, page) == FoldLeft(Polled, st, page)
DispatchPage(st, page) == FoldLeft(Dispatch, st, page)

Stream == [ledger |-> currentLedger, sequence |-> lastSequence, recent |-> recentIds,
           replay |-> replay, backfill |-> backfill, log |-> log]

SetStream(st) ==
    /\ currentLedger' = st.ledger
    /\ lastSequence' = st.sequence
    /\ recentIds' = st.recent
    /\ replay' = st.replay
    /\ backfill' = st.backfill
    /\ log' = st.log

-----------------------------------------------------------------------------
(* The poll loop                                                           *)

\* The chain closes a ledger.
CloseLedger ==
    /\ head < LastLedger
    /\ head' = head + 1
    /\ UNCHANGED <<node, pollVars, stopped, unsubscribed, streamVars>>

\* The timer fires; unsubscribe() cleared it if the subscription is over.
Poll ==
    /\ pc = "waiting" /\ ~stopped
    /\ pc' = IF ~ledgerSeeded /\ cursor = None THEN "seeding" ELSE "fetching"
    /\ UNCHANGED <<node, head, startLedger, lastStartLedger, ledgerSeeded, cursor,
                   consecutiveFailures, stopped, unsubscribed, streamVars>>

Seed ==
    /\ pc = "seeding"
    /\ startLedger' = head
    /\ lastStartLedger' = head
    /\ ledgerSeeded' = TRUE
    /\ pc' = "fetching"
    /\ UNCHANGED <<node, head, cursor, consecutiveFailures, stopped, unsubscribed, streamVars>>

\* A mistake for the runs to notice: a failed poll is the last one.
ScheduleAfterSuccess ==
    pc' = IF stopped' \/ consecutiveFailures' > 0 THEN "over" ELSE "waiting"

\* The end of a poll: the next one is scheduled unless the subscription is over.
Schedule == pc' = IF stopped' THEN "over" ELSE "waiting"

\* A mistake for the runs to notice: the cursor of the answer is not kept.
AdvanceByLedgerOnly(last) ==
    /\ cursor' = None
    /\ startLedger' = head + 1
    /\ UNCHANGED lastStartLedger

\* Where the next poll starts: after the last event of the node's answer or,
\* if the node returns no cursor, after its latest ledger.
Advance(last) ==
    IF node.cursor
    THEN cursor' = last /\ UNCHANGED <<startLedger, lastStartLedger>>
    ELSE cursor' = None /\ startLedger' = head + 1 /\ lastStartLedger' = head

Fetch ==
    /\ pc = "fetching"
    /\ \E missing \in SUBSET node.hides :
          LET reach == IF cursor # None THEN After(cursor) ELSE From(startLedger)
              page == Page(reach, PageLimit)
              answer == Page(ToSet(page) \ missing, PageLimit)
              last == IF page # <<>> THEN page[Len(page)]
                      ELSE Cardinality({e \in Event : Closed(e)})
          IN  /\ SetStream(PolledPage(Stream, answer))
              /\ Advance(last)
    /\ consecutiveFailures' = 0
    /\ UNCHANGED <<node, head, ledgerSeeded, stopped, unsubscribed>>
    /\ Schedule

\* getLatestLedger() or getEvents() fails.
PollFails ==
    /\ RpcFails
    /\ pc \in {"seeding", "fetching"}
    /\ consecutiveFailures' = consecutiveFailures + 1
    /\ stopped' = (stopped \/ consecutiveFailures' >= MaxFailures)
    /\ UNCHANGED <<node, head, startLedger, lastStartLedger, ledgerSeeded, cursor, unsubscribed,
                   streamVars>>
    /\ Schedule

-----------------------------------------------------------------------------
(* The repairs                                                             *)

ReplayGap ==
    /\ replay # None
    /\ LET fetched == Page(From(replay.from), BackfillLimit)
           missed == Page({e \in ToSet(fetched) : e > replay.expected /\ e < replay.actual}, BackfillLimit)
       IN  SetStream([DispatchPage(Stream, missed) EXCEPT !.replay = None])
    /\ UNCHANGED <<node, head, pollVars, stopped, unsubscribed>>

BackfillLedgerGap ==
    /\ backfill # None
    /\ LET fetched == Page(From(backfill.expected), BackfillLimit)
           missed == Page({e \in ToSet(fetched) : EventLedger[e] < backfill.actual}, BackfillLimit)
       IN  SetStream([DispatchPage(Stream, missed) EXCEPT !.backfill = None])
    /\ UNCHANGED <<node, head, pollVars, stopped, unsubscribed>>

ReplayFails ==
    /\ RpcFails
    /\ replay # None
    /\ replay' = None
    /\ UNCHANGED <<node, head, pollVars, stopped, unsubscribed, currentLedger, lastSequence,
                   recentIds, backfill, log>>

BackfillFails ==
    /\ RpcFails
    /\ backfill # None
    /\ backfill' = None
    /\ UNCHANGED <<node, head, pollVars, stopped, unsubscribed, currentLedger, lastSequence,
                   recentIds, replay, log>>

-----------------------------------------------------------------------------
Unsubscribe ==
    /\ ~unsubscribed
    /\ unsubscribed' = TRUE
    /\ stopped' = TRUE
    /\ pc' = IF pc = "waiting" THEN "over" ELSE pc
    /\ UNCHANGED <<node, head, startLedger, lastStartLedger, ledgerSeeded, cursor,
                   consecutiveFailures, streamVars>>

Next ==
    \/ CloseLedger
    \/ Poll \/ Seed \/ Fetch \/ PollFails
    \/ ReplayGap \/ BackfillLedgerGap \/ ReplayFails \/ BackfillFails
    \/ Unsubscribe

Spec == Init /\ [][Next]_vars

\* Timers fire and requests fail or are answered.
Fairness ==
    /\ WF_vars(Poll) /\ WF_vars(PollFails \/ Seed) /\ WF_vars(PollFails \/ Fetch)
    /\ WF_vars(ReplayFails \/ ReplayGap) /\ WF_vars(BackfillFails \/ BackfillLedgerGap)

FairSpec == Spec /\ Fairness

-----------------------------------------------------------------------------
\* With a window that holds every event, the poll loop and the two repairs,
\* which fetch the same events again and answer in any order, hand each event
\* to the application at most once.
AtMostOnce ==
    DedupWindow >= Cardinality(Event) => IsInjective(log)

\* With cursors and a node that leaves nothing out, the application sees the
\* events from the ledger the subscription started at in order, without a hole:
\* the repairs, which ledgers without events start all the time, never disturb.
GaplessOrder ==
    node.cursor /\ node.hides = {} =>
        \A i \in DOMAIN log :
            log[i] = i + Cardinality({e \in Event : EventLedger[e] < lastStartLedger})

\* Each event once, and in order where the node allows it; and the failures in a
\* row that stop the subscription are counted no further.
DeliveredExactly ==
    /\ AtMostOnce
    /\ GaplessOrder
    /\ consecutiveFailures <= MaxFailures

\* Once unsubscribe() has returned no handler runs, although a poll and both
\* repairs may still be waiting for their answers.
SilentAfterUnsubscribe == [][unsubscribed => log' = log]_vars

\* With cursors and a node that leaves nothing out, a subscription delivers
\* every event from its first ledger on, or has been stopped.
EventuallyDelivered ==
    \A e \in Event :
        node.cursor /\ node.hides = {} /\ ledgerSeeded
            /\ Closed(e) /\ EventLedger[e] >= lastStartLedger
            ~> stopped \/ \E i \in DOMAIN log : log[i] = e

\* replayGap(): "Re-fetch events from the last known ledger and dispatch any
\* missed events".  Without cursors, the last known ledger is the latest one of
\* the previous answer, which is past the events the page limit cut off.
GapsHealed ==
    replay = None /\ backfill = None /\ ~unsubscribed =>
        \A i \in DOMAIN log : \A e \in log[1] .. log[i] : \E j \in DOMAIN log : log[j] = e
=============================================================================
