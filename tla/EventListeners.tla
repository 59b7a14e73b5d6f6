--------------------------- MODULE EventListeners ---------------------------
(***************************************************************************)
(* Who hears of the events of a stream: StreamsModule.subscribe() and      *)
(* subscribeToStreams() (streams.ts), whose address lookups are over after *)
(* they have returned; onStreamEvent() with its cliff timer and the        *)
(* decoding of an event for the handlers (events.ts); and useStreamEvents  *)
(* (React), which subscribes for the stream that is shown.  How the events *)
(* of one stream are polled is the matter of EventSubscription: here, an   *)
(* event of a stream just comes to whoever polls the stream.               *)
(***************************************************************************)
EXTENDS Integers

CONSTANTS
    Listener,      \* subscriptions that can be asked for
    NoListener,
    FeedStream,    \* streams
    NoStream,
    CliffTime,     \* options.cliffTime
    MaxFeedClock   \* bound of the clock

ASSUME ListenerAssumption ==
    /\ NoListener \notin Listener /\ NoStream \notin FeedStream
    /\ CliffTime \in Nat /\ MaxFeedClock \in Nat

VARIABLES
    askedFor,       \* streams each subscription was asked for, {} if it was not
    several,     \* those asked for by subscribeToStreams()
    resolving,   \* subscriptions whose addresses are being looked up
    ended,       \* subscriptions that were unsubscribed
    polled,      \* streams each subscription polls, in the inner subscriptions
    hookListener, \* subscriptionRef of the hook
    shownStream, \* the stream the component shows
    heard,       \* the last callback that ran: subscription, stream and kind
    noted,       \* what the poll loop made of the last event
    failures,    \* subscriptions whose onError ran
    cliff,       \* the cliff listener: off, waiting, fired or ended
    feedClock

listenerVars == <<askedFor, several, resolving, ended, polled, hookListener, shownStream,
                  heard, noted, failures, cliff, feedClock>>
keptByFeed == <<askedFor, several, resolving, ended, polled, hookListener, shownStream,
                failures, cliff, feedClock>>
effectVars == <<hookListener, shownStream>>
toldVars == <<heard, noted>>
cliffVars == <<cliff, feedClock>>
listeningVars == <<askedFor, several, resolving, ended, polled, effectVars, toldVars, failures>>

\* Kinds the application gave a handler for; there are others.
Handled == {"withdrawn"}
Kinds == Handled \cup {"paused", "unheard of"}

\* The sequence number of an event: missing, of the wrong type, or there.
FeedEvent == [kind : Kinds, sequence : {"none", "bad", "good"}, readable : BOOLEAN]

NothingNoted == "nothing"
NothingHeard == [who |-> NoListener, stream |-> NoStream, kind |-> "none"]

ListenersInit ==
    /\ askedFor = [l \in Listener |-> {}] /\ polled = [l \in Listener |-> {}]
    /\ several = {} /\ resolving = {} /\ ended = {} /\ failures = {}
    /\ hookListener = NoListener /\ shownStream = NoStream
    /\ heard = NothingHeard /\ noted = NothingNoted
    /\ cliff = "off" /\ feedClock = 0

-----------------------------------------------------------------------------
\* subscribe() and subscribeToStreams() return at once, and look the addresses up.
Subscribing(l, S) ==
    /\ askedFor[l] = {}
    /\ askedFor' = [askedFor EXCEPT ![l] = S]
    /\ resolving' = resolving \cup {l}

Subscribe(l, s) ==
    /\ Subscribing(l, {s})
    /\ UNCHANGED <<several, ended, polled, effectVars, toldVars, failures, cliffVars>>

SubscribeToStreams(l, S) ==
    /\ Subscribing(l, S)
    /\ several' = several \cup {l}
    /\ UNCHANGED <<ended, polled, effectVars, toldVars, failures, cliffVars>>

\* A mistake for the runs to notice: unsubscribe() meanwhile is not looked at.
ResolvedIgnoringStop(l, found) ==
    /\ l \in resolving
    /\ resolving' = resolving \ {l}
    /\ polled' = [polled EXCEPT ![l] = found]
    /\ failures' = IF found # askedFor[l] THEN failures \cup {l} ELSE failures
    /\ UNCHANGED <<askedFor, several, ended, effectVars, toldVars, cliffVars>>

(* The addresses are there, of the streams that exist.  The inner          *)
(* subscription is kept, or ended at once when unsubscribe() came before;  *)
(* the handlers of subscribe() were taken away then, but those of          *)
(* subscribeToStreams() still hear of the streams that were not found.     *)
AddressesResolved(l, found) ==
    /\ l \in resolving
    /\ resolving' = resolving \ {l}
    /\ polled' = [polled EXCEPT ![l] = IF l \in ended THEN {} ELSE found]
    /\ failures' = IF found # askedFor[l] /\ (l \notin ended \/ l \in several)
                   THEN failures \cup {l} ELSE failures
    /\ UNCHANGED <<askedFor, several, ended, effectVars, toldVars, cliffVars>>

Ended(l) ==
    /\ ended' = ended \cup {l}
    /\ polled' = [polled EXCEPT ![l] = {}]

Unsubscribing(l) ==
    /\ askedFor[l] # {} /\ l \notin ended /\ l # hookListener
    /\ Ended(l)
    /\ UNCHANGED <<askedFor, several, resolving, effectVars, toldVars, failures, cliffVars>>

-----------------------------------------------------------------------------
(* dispatchEvent(): a kind nobody handles is read for its sequence alone;  *)
(* decoding throws before the handler runs, a handler after it was told;   *)
(* dispatchIsolated() then reads the sequence by itself.                   *)
Tells(e) == e.kind \in Handled /\ e.sequence # "bad" /\ e.readable
SequenceOf(e) == IF e.sequence = "good" THEN "sequence" ELSE NothingNoted

EventComes(l, s, e) ==
    /\ s \in polled[l]
    /\ heard' = IF Tells(e) THEN [who |-> l, stream |-> s, kind |-> e.kind] ELSE heard
    /\ noted' = SequenceOf(e)
    /\ UNCHANGED keptByFeed

-----------------------------------------------------------------------------
(* The effect of useStreamEvents runs when the stream, the client or the   *)
(* callbacks change, and when the component goes away: the old             *)
(* subscription is ended first.                                            *)
EffectRuns(s) ==
    /\ shownStream' = s
    /\ IF hookListener # NoListener THEN Ended(hookListener) ELSE UNCHANGED <<ended, polled>>
    /\ IF s = NoStream
       THEN hookListener' = NoListener /\ UNCHANGED <<askedFor, resolving>>
       ELSE \E l \in Listener : hookListener' = l /\ Subscribing(l, {s})
    /\ UNCHANGED <<several, toldVars, failures, cliffVars>>

-----------------------------------------------------------------------------
(* onStreamEvent(): a cancellation is an ordinary subscription; the cliff  *)
(* is a timer of its own, checked at once and then in intervals.           *)
CheckCliff == cliff' = IF feedClock >= CliffTime THEN "fired" ELSE "waiting"

OnCliffReached ==
    /\ cliff = "off"
    /\ CheckCliff
    /\ UNCHANGED <<listeningVars, feedClock>>

CliffTimer ==
    /\ cliff = "waiting"
    /\ CheckCliff
    /\ UNCHANGED <<listeningVars, feedClock>>

CliffStopped ==
    /\ cliff = "waiting"
    /\ cliff' = "ended"
    /\ UNCHANGED <<listeningVars, feedClock>>

FeedTick ==
    /\ feedClock < MaxFeedClock /\ feedClock' = feedClock + 1
    /\ UNCHANGED <<listeningVars, cliff>>

FeedNext ==
    \/ \E l \in Listener, s \in FeedStream : Subscribe(l, s)
    \/ \E l \in Listener, S \in SUBSET FeedStream : S # {} /\ SubscribeToStreams(l, S)
    \/ \E l \in resolving : \E found \in SUBSET askedFor[l] : AddressesResolved(l, found)
    \/ \E l \in Listener : Unsubscribing(l)
    \/ \E l \in Listener : \E s \in polled[l], e \in FeedEvent : EventComes(l, s, e)
    \/ \E s \in FeedStream \cup {NoStream} : EffectRuns(s)

CliffNext == OnCliffReached \/ CliffTimer \/ CliffStopped \/ FeedTick
ListenersNext == FeedNext \/ CliffNext

ListenersSpec == ListenersInit /\ [][ListenersNext]_listenerVars

-----------------------------------------------------------------------------
(* unsubscribe() may come before the addresses do (streams.ts:1745): no    *)
(* inner subscription is left polling for one that was ended, and the      *)
(* subscription the hook holds is the one for the stream that is shown     *)
(* (useStreamEvents.ts:32).                                                *)
NobodyLeftPolling ==
    /\ \A l \in ended : polled[l] = {}
    /\ \A l \in Listener : polled[l] \subseteq askedFor[l]
    /\ hookListener # NoListener =>
          hookListener \notin ended /\ askedFor[hookListener] = {shownStream}
    /\ hookListener = NoListener <=> shownStream = NoStream
    /\ heard # NothingHeard => heard.stream \in askedFor[heard.who] /\ heard.kind \in Handled
    /\ cliff = "fired" => feedClock >= CliffTime
=============================================================================
