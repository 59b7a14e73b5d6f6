------------------------ MODULE IndexerSubscription ------------------------
(***************************************************************************)
(* GraphQLIndexer.subscribe() of src/indexer.ts on its WebSocket path: the *)
(* subscriptions of one indexer, each with its reconnect timer, heartbeat  *)
(* and graphql-transport-ws handshake.  Handlers run to completion.        *)
(*                                                                         *)
(* onError may call unsubscribe(): a handler that reports an error goes on *)
(* with the subscription as that call left it.                             *)
(***************************************************************************)
EXTENDS Naturals, FiniteSets

CONSTANTS
    Sub,                    \* subscriptions, each made at most once
    Socket,                 \* pool of WebSocket objects, reused once dropped
    MaxReconnectAttempts,   \* options.maxReconnectAttempts
    Heartbeat,              \* options.heartbeatIntervalMs > 0
    ConstructorThrows,      \* subscriptions for which new WebSocket() may throw
    None                    \* null

ASSUME IndexerAssumption ==
    /\ MaxReconnectAttempts \in Nat
    /\ Heartbeat \in BOOLEAN
    /\ ConstructorThrows \subseteq Sub
    /\ None \notin Socket \cup Sub

VARIABLES
    isDestroyed,
    activeSubscriptions,
    phase,              \* of a subscription: "new", "live", or "unsubscribed"
    ws,                 \* of a subscription: its socket, or None
    reconnectAttempts, reconnectTimer,
    heartbeatInterval, heartbeatTimeout, awaitingPong,
    readyState,         \* of a socket
    owner,              \* the subscription a socket's handlers belong to, or None once detached
    handshake           \* of a socket: "none", "init" once connection_init is sent, "subscribed"

reconnectVars == <<reconnectAttempts, reconnectTimer>>
heartbeatVars == <<heartbeatInterval, heartbeatTimeout, awaitingPong>>
socketVars == <<readyState, owner, handshake>>
vars == <<isDestroyed, activeSubscriptions, phase, ws, reconnectVars, heartbeatVars, socketVars>>

Init ==
    /\ isDestroyed = FALSE
    /\ activeSubscriptions = {}
    /\ phase = [s \in Sub |-> "new"]
    /\ ws = [s \in Sub |-> None]
    /\ reconnectAttempts = [s \in Sub |-> 0]
    /\ reconnectTimer = [s \in Sub |-> FALSE]
    /\ heartbeatInterval = [s \in Sub |-> FALSE]
    /\ heartbeatTimeout = [s \in Sub |-> FALSE]
    /\ awaitingPong = [s \in Sub |-> FALSE]
    /\ readyState = [k \in Socket |-> "closed"]
    /\ owner = [k \in Socket |-> None]
    /\ handshake = [k \in Socket |-> "none"]

-----------------------------------------------------------------------------
Free(k) == readyState[k] = "closed" /\ \A s \in Sub : ws[s] # k

\* The handlers of socket k run for s, which is neither gone nor on the way out.
Handles(s, k) == owner[k] = s /\ phase[s] = "live" /\ ~isDestroyed

Off(f, S) == [s \in Sub |-> IF s \in S THEN FALSE ELSE f[s]]

StopHeartbeat(S) ==
    /\ heartbeatInterval' = Off(heartbeatInterval, S)
    /\ heartbeatTimeout' = Off(heartbeatTimeout, S)
    /\ awaitingPong' = Off(awaitingPong, S)

\* close() on the sockets of K, with their handlers detached; rs and os are the
\* ready states and owners these sockets otherwise have.
Drop(K, rs, os) ==
    /\ readyState' = [k \in Socket |-> IF k \in K /\ rs[k] # "closed" THEN "closing" ELSE rs[k]]
    /\ owner' = [k \in Socket |-> IF k \in K THEN None ELSE os[k]]
    /\ UNCHANGED handshake

\* A mistake for the runs to notice: a pending reconnection is not cancelled.
EndKeepsTimer(S, rs, os) ==
    /\ phase' = [s \in Sub |-> IF s \in S THEN "unsubscribed" ELSE phase[s]]
    /\ StopHeartbeat(S)
    /\ Drop({ws[s] : s \in S} \cap Socket, rs, os)
    /\ ws' = [s \in Sub |-> IF s \in S THEN None ELSE ws[s]]
    /\ activeSubscriptions' = activeSubscriptions \ S
    /\ UNCHANGED reconnectTimer

\* unsubscribe() of the subscriptions S.
End(S, rs, os) ==
    /\ phase' = [s \in Sub |-> IF s \in S THEN "unsubscribed" ELSE phase[s]]
    /\ reconnectTimer' = Off(reconnectTimer, S)
    /\ StopHeartbeat(S)
    /\ Drop({ws[s] : s \in S} \cap Socket, rs, os)
    /\ ws' = [s \in Sub |-> IF s \in S THEN None ELSE ws[s]]
    /\ activeSubscriptions' = activeSubscriptions \ S

\* openSocket() for s; the constructor may throw, which is reported and ends it.
OpenSocket(s) ==
    \/ \E k \in Socket :
        /\ Free(k)
        /\ ws' = [ws EXCEPT ![s] = k]
        /\ readyState' = [readyState EXCEPT ![k] = "connecting"]
        /\ owner' = [owner EXCEPT ![k] = s]
        /\ handshake' = [handshake EXCEPT ![k] = "none"]
    \/ /\ s \in ConstructorThrows
       /\ UNCHANGED <<ws, socketVars>>

\* A mistake for the runs to notice: an attempt that is counted but never made.
ScheduleReconnectNever(s) ==
    /\ reconnectAttempts[s] < MaxReconnectAttempts
    /\ reconnectAttempts' = [reconnectAttempts EXCEPT ![s] = @ + 1]
    /\ UNCHANGED reconnectTimer

\* scheduleReconnect() for s, which is live.
ScheduleReconnect(s) ==
    /\ reconnectAttempts[s] < MaxReconnectAttempts
    /\ reconnectAttempts' = [reconnectAttempts EXCEPT ![s] = @ + 1]
    /\ reconnectTimer' = [reconnectTimer EXCEPT ![s] = TRUE]

-----------------------------------------------------------------------------
Subscribe(s) ==
    /\ ~isDestroyed
    /\ phase[s] = "new"
    /\ phase' = [phase EXCEPT ![s] = "live"]
    /\ activeSubscriptions' = activeSubscriptions \cup {s}
    /\ OpenSocket(s)
    /\ UNCHANGED <<isDestroyed, reconnectVars, heartbeatVars>>

\* onopen
SocketOpen(s, k) ==
    /\ readyState[k] = "connecting" /\ Handles(s, k)
    /\ readyState' = [readyState EXCEPT ![k] = "open"]
    /\ handshake' = [handshake EXCEPT ![k] = "init"]
    /\ reconnectAttempts' = [reconnectAttempts EXCEPT ![s] = 0]
    /\ heartbeatInterval' = [heartbeatInterval EXCEPT ![s] = Heartbeat]
    /\ heartbeatTimeout' = Off(heartbeatTimeout, {s})
    /\ awaitingPong' = Off(awaitingPong, {s})
    /\ UNCHANGED <<isDestroyed, activeSubscriptions, phase, ws, reconnectTimer, owner>>

\* connection_ack: the queued subscribe message is sent once.
Ack(s, k) ==
    /\ readyState[k] = "open" /\ Handles(s, k)
    /\ handshake[k] = "init"
    /\ handshake' = [handshake EXCEPT ![k] = "subscribed"]
    /\ UNCHANGED <<isDestroyed, activeSubscriptions, phase, ws, reconnectVars, heartbeatVars,
                   readyState, owner>>

Pong(s, k) ==
    /\ readyState[k] = "open" /\ Handles(s, k)
    /\ awaitingPong[s]
    /\ awaitingPong' = Off(awaitingPong, {s})
    /\ heartbeatTimeout' = Off(heartbeatTimeout, {s})
    /\ UNCHANGED <<isDestroyed, activeSubscriptions, phase, ws, reconnectVars,
                   heartbeatInterval, socketVars>>

\* The peer starts to close, or the handshake fails: onerror only reports.
SocketFails(k) ==
    /\ readyState[k] \in {"connecting", "open"}
    /\ readyState' = [readyState EXCEPT ![k] = "closing"]
    /\ UNCHANGED <<isDestroyed, activeSubscriptions, phase, ws, reconnectVars, heartbeatVars,
                   owner, handshake>>

\* onclose: report, then schedule the reconnection or, when the attempts are
\* used up, tear the subscription down.
SocketClose(s, k) ==
    /\ readyState[k] # "closed" /\ Handles(s, k)
    /\ LET rs == [readyState EXCEPT ![k] = "closed"]
           os == [owner EXCEPT ![k] = None]
       IN  \/ /\ ScheduleReconnect(s)
              /\ StopHeartbeat({s})
              /\ Drop({}, rs, os)
              /\ UNCHANGED <<activeSubscriptions, phase, ws>>
           \/ /\ End({s}, rs, os)
              /\ UNCHANGED reconnectAttempts
    /\ UNCHANGED isDestroyed

\* A detached socket closes.
DetachedClose(k) ==
    /\ readyState[k] = "closing" /\ owner[k] = None
    /\ readyState' = [readyState EXCEPT ![k] = "closed"]
    /\ UNCHANGED <<isDestroyed, activeSubscriptions, phase, ws, reconnectVars, heartbeatVars,
                   owner, handshake>>

ReconnectTimer(s) ==
    /\ reconnectTimer[s]
    /\ reconnectTimer' = Off(reconnectTimer, {s})
    /\ OpenSocket(s)
    /\ UNCHANGED <<isDestroyed, activeSubscriptions, phase, reconnectAttempts, heartbeatVars>>

HeartbeatTick(s, k) ==
    /\ heartbeatInterval[s] /\ ~awaitingPong[s]
    /\ owner[k] = s /\ readyState[k] = "open"
    /\ awaitingPong' = [awaitingPong EXCEPT ![s] = TRUE]
    /\ heartbeatTimeout' = [heartbeatTimeout EXCEPT ![s] = TRUE]
    /\ UNCHANGED <<isDestroyed, activeSubscriptions, phase, ws, reconnectVars,
                   heartbeatInterval, socketVars>>

\* A mistake for the runs to notice: the dead socket keeps its handlers.
HeartbeatExpiresAttached(s) ==
    /\ heartbeatTimeout[s] /\ awaitingPong[s]
    /\ ScheduleReconnect(s)
    /\ StopHeartbeat({s})
    /\ ws' = [ws EXCEPT ![s] = None]
    /\ UNCHANGED <<isDestroyed, activeSubscriptions, phase, socketVars>>

\* handleHeartbeatTimeout(): the dead socket is detached, as its onclose may
\* never come, and the reconnection is scheduled here.
HeartbeatExpires(s) ==
    /\ heartbeatTimeout[s] /\ awaitingPong[s]
    /\ \/ /\ ScheduleReconnect(s)
          /\ StopHeartbeat({s})
          /\ Drop({ws[s]} \cap Socket, readyState, owner)
          /\ ws' = [ws EXCEPT ![s] = None]
          /\ UNCHANGED <<activeSubscriptions, phase>>
       \/ /\ reconnectAttempts[s] >= MaxReconnectAttempts
          /\ End({s}, readyState, owner)
          /\ UNCHANGED reconnectAttempts
    /\ UNCHANGED isDestroyed

Unsubscribe(s) ==
    /\ phase[s] = "live"
    /\ End({s}, readyState, owner)
    /\ UNCHANGED <<isDestroyed, reconnectAttempts>>

Cleanup ==
    /\ ~isDestroyed
    /\ isDestroyed' = TRUE
    /\ End(activeSubscriptions, readyState, owner)
    /\ UNCHANGED reconnectAttempts

Next ==
    \/ \E s \in Sub : Subscribe(s) \/ ReconnectTimer(s) \/ HeartbeatExpires(s) \/ Unsubscribe(s)
    \/ \E s \in Sub, k \in Socket :
          SocketOpen(s, k) \/ Ack(s, k) \/ Pong(s, k) \/ SocketClose(s, k) \/ HeartbeatTick(s, k)
    \/ \E k \in Socket : SocketFails(k) \/ DetachedClose(k)
    \/ Cleanup

Spec == Init /\ [][Next]_vars

\* Timers fire, handshakes end and closing sockets close.  A timer that fires
\* finds a socket: that another subscription has used up the pool is a bound of
\* the model, hence the strong fairness.
Fairness ==
    /\ \A s \in Sub : SF_vars(ReconnectTimer(s))
    /\ \A s \in Sub, k \in Socket :
        /\ WF_vars(SocketOpen(s, k) \/ (readyState[k] = "connecting" /\ SocketClose(s, k)))
        /\ WF_vars(readyState[k] = "closing" /\ SocketClose(s, k))
    /\ \A k \in Socket : WF_vars(DetachedClose(k))

FairSpec == Spec /\ Fairness

-----------------------------------------------------------------------------
Attached(s) == {k \in Socket : owner[k] = s}

\* onclose and the heartbeat timeout both schedule reconnections, yet a live
\* subscription always has exactly one way on: one attached socket, its
\* current one, or one pending timer, unless the constructor throws.
OneTransport ==
    \A s \in activeSubscriptions \ ConstructorThrows :
        IF reconnectTimer[s] THEN Attached(s) = {} ELSE Attached(s) = {ws[s]}

\* Whatever ended it, a subscription that is over has no socket that could
\* still call it, no timer and no heartbeat, and is forgotten by the indexer;
\* cleanup() leaves no subscription.
NothingLeftBehind ==
    /\ \A s \in Sub :
        /\ phase[s] # "live" =>
            /\ Attached(s) = {} /\ ws[s] = None
            /\ ~reconnectTimer[s] /\ ~heartbeatInterval[s] /\ ~heartbeatTimeout[s]
        /\ s \in activeSubscriptions <=> phase[s] = "live"
    /\ isDestroyed => activeSubscriptions = {}

\* A heartbeat timeout only ever hits the socket that was pinged: while a pong
\* is awaited the current socket is attached and has been open.
TimeoutHitsPingedSocket ==
    \A s \in Sub :
        heartbeatTimeout[s] =>
            /\ awaitingPong[s]
            /\ ws[s] \in Attached(s)
            /\ readyState[ws[s]] \in {"open", "closing"}

\* Reconnections and heartbeats of one subscription never meet, and their number
\* is bounded.
TransportExact ==
    /\ OneTransport
    /\ TimeoutHitsPingedSocket
    /\ \A s \in Sub : reconnectAttempts[s] <= MaxReconnectAttempts

\* A live subscription that lost its socket opens another one or is over,
\* unless the constructor throws.
Reopens ==
    \A s \in Sub \ ConstructorThrows :
        phase[s] = "live" /\ Attached(s) = {}
            ~> phase[s] = "unsubscribed" \/ Attached(s) # {}
=============================================================================
