------------------------------ MODULE MCFeeds ------------------------------
(***************************************************************************)
(* What an application is shown, checked in one run: the polled feed of    *)
(* events, the subscriptions on top of it, the React hooks that read and   *)
(* change streams, and the reducer of the transaction history.  They share *)
(* no state with one another here, so a behaviour is a behaviour of one of *)
(* them, the scenario, and the others stay in an initial state.            *)
(***************************************************************************)
EXTENDS MCEventSubscription, EventListeners, HookReads, HookMutations, TransactionHistory

VARIABLE scenario

feedsVars ==
    <<scenario, vars, listenerVars, hookReadVars, mutationVars, historyVars>>

\* A component whose turn it is not starts in one state only.
FeedsInit ==
    /\ scenario \in {"poll", "feed", "cliff", "reads", "mutations", "history"}
    /\ Init
    /\ scenario = "poll" \/ node = CHOOSE n \in Nodes : TRUE
    /\ ListenersInit /\ HistoryInit
    /\ HookReadsInit
    /\ scenario = "reads" \/ hook = "effect"
    /\ MutationsInit
    /\ scenario = "mutations" \/ form = "plain"

PollDoes(A) ==
    scenario = "poll" /\ A
    /\ UNCHANGED <<scenario, listenerVars, hookReadVars, mutationVars, historyVars>>
FeedDoes(A) ==
    scenario = "feed" /\ A
    /\ UNCHANGED <<scenario, vars, hookReadVars, mutationVars, historyVars>>
CliffDoes(A) ==
    scenario = "cliff" /\ A
    /\ UNCHANGED <<scenario, vars, hookReadVars, mutationVars, historyVars>>
ReadsDo(A) ==
    scenario = "reads" /\ A
    /\ UNCHANGED <<scenario, vars, listenerVars, mutationVars, historyVars>>
MutationsDo(A) ==
    scenario = "mutations" /\ A
    /\ UNCHANGED <<scenario, vars, listenerVars, hookReadVars, historyVars>>
HistoryDoes(A) ==
    scenario = "history" /\ A
    /\ UNCHANGED <<scenario, vars, listenerVars, hookReadVars, mutationVars>>

FeedsNext ==
    \/ PollDoes(Next)
    \/ FeedDoes(FeedNext)
    \/ CliffDoes(CliffNext)
    \/ ReadsDo(HookReadsNext)
    \/ MutationsDo(MutationsNext)
    \/ HistoryDoes(HistoryNext)

\* Fairness of EventSubscription, where it is the poll loop's turn.
FairFeedsSpec ==
    /\ FeedsInit /\ [][FeedsNext]_feedsVars
    /\ WF_feedsVars(PollDoes(Poll))
    /\ WF_feedsVars(PollDoes(PollFails \/ Seed))
    /\ WF_feedsVars(PollDoes(PollFails \/ Fetch))
    /\ WF_feedsVars(PollDoes(ReplayFails \/ ReplayGap))
    /\ WF_feedsVars(PollDoes(BackfillFails \/ BackfillLedgerGap))

\* EventuallyDelivered of EventSubscription, where its loop runs.
PollDelivers == scenario = "poll" => EventuallyDelivered
=============================================================================
