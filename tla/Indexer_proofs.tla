--------------------------- MODULE Indexer_proofs ---------------------------
(***************************************************************************)
(* The subscriptions and queries of the GraphQL indexer, for any number of *)
(* subscriptions, sockets and reconnection attempts.                       *)
(*                                                                         *)
(* The invariant of the subscriptions is that of their ownership: a socket *)
(* that still has handlers is open or on its way, and is the current one   *)
(* of a live subscription.  With it, what ends a subscription finds every  *)
(* socket that could call it, and a timer never meets an attached socket.  *)
(***************************************************************************)
EXTENDS IndexerSubscription, IndexerQuery, SseSubscription, SequenceTheorems, TLAPS

ReadyStates == {"connecting", "open", "closing", "closed"}

IndexerTypes ==
    /\ isDestroyed \in BOOLEAN /\ activeSubscriptions \subseteq Sub
    /\ phase \in [Sub -> {"new", "live", "unsubscribed"}]
    /\ ws \in [Sub -> Socket \cup {None}]
    /\ readyState \in [Socket -> ReadyStates]
    /\ owner \in [Socket -> Sub \cup {None}]

TimerTypes ==
    /\ reconnectAttempts \in [Sub -> Nat]
    /\ reconnectTimer \in [Sub -> BOOLEAN]
    /\ heartbeatInterval \in [Sub -> BOOLEAN]
    /\ heartbeatTimeout \in [Sub -> BOOLEAN]
    /\ awaitingPong \in [Sub -> BOOLEAN]

\* No two subscriptions have a socket in common, and one with handlers is the
\* current one of its owner, live and not closed.
OwnersExact ==
    /\ \A s, t \in Sub : ws[s] = ws[t] /\ ws[s] # None => s = t
    /\ \A k \in Socket : owner[k] # None =>
          ws[owner[k]] = k /\ phase[owner[k]] = "live" /\ readyState[k] # "closed"

\* What a subscription that is not live has left: nothing.
EndedExact ==
    /\ \A s \in Sub : phase[s] # "live" =>
          /\ ws[s] = None
          /\ ~reconnectTimer[s] /\ ~heartbeatInterval[s] /\ ~heartbeatTimeout[s]
    /\ \A s \in Sub : s \in activeSubscriptions <=> phase[s] = "live"
    /\ isDestroyed => activeSubscriptions = {}

\* A timer and an attached socket exclude one another, and one of the two is
\* there; a pong is awaited from an attached socket that was open.
TimersExact ==
    /\ \A s \in Sub : reconnectAttempts[s] <= MaxReconnectAttempts
    /\ \A s \in Sub : reconnectTimer[s] => \A k \in Socket : owner[k] # s
    /\ \A s \in Sub \ ConstructorThrows : phase[s] = "live" /\ ~reconnectTimer[s] =>
          ws[s] \in Socket /\ owner[ws[s]] = s
    /\ \A s \in Sub : heartbeatTimeout[s] =>
          /\ awaitingPong[s] /\ ws[s] \in Socket
          /\ owner[ws[s]] = s /\ readyState[ws[s]] \in {"open", "closing"}

IndexerInv == IndexerTypes /\ TimerTypes /\ OwnersExact /\ EndedExact /\ TimersExact

USE IndexerAssumption

LEMMA InitIndexer == Init => IndexerInv
<1> SUFFICES ASSUME Init PROVE IndexerInv
  OBVIOUS
<1>1. IndexerTypes
  BY DEF Init, IndexerTypes, ReadyStates
<1>2. TimerTypes
  BY DEF Init, TimerTypes
<1>3. OwnersExact
  BY DEF Init, OwnersExact
<1>4. EndedExact
  BY DEF Init, EndedExact
<1>5. TimersExact
  BY DEF Init, TimersExact
<1> QED BY <1>1, <1>2, <1>3, <1>4, <1>5 DEF IndexerInv

\* unsubscribe() of the subscriptions S, in a handler that has detached some of
\* their sockets, leaves the others as they were.
LEMMA EndKeepsIndexer ==
  ASSUME IndexerInv, NEW S \in SUBSET Sub, NEW rs, NEW os, End(S, rs, os),
         rs \in [Socket -> ReadyStates], os \in [Socket -> Sub \cup {None}],
         \A k \in Socket : os[k] = owner[k] \/ (os[k] = None /\ owner[k] \in S),
         \A k \in Socket : os[k] # None => rs[k] = readyState[k],
         UNCHANGED reconnectAttempts,
         isDestroyed' \in BOOLEAN,
         isDestroyed' => isDestroyed \/ activeSubscriptions \subseteq S
  PROVE  IndexerInv'
<1>1. /\ \A s \in Sub : phase'[s] = IF s \in S THEN "unsubscribed" ELSE phase[s]
      /\ \A s \in Sub : ws'[s] = IF s \in S THEN None ELSE ws[s]
      /\ \A s \in Sub : reconnectTimer'[s] = IF s \in S THEN FALSE ELSE reconnectTimer[s]
      /\ \A s \in Sub : heartbeatInterval'[s] = IF s \in S THEN FALSE ELSE heartbeatInterval[s]
      /\ \A s \in Sub : heartbeatTimeout'[s] = IF s \in S THEN FALSE ELSE heartbeatTimeout[s]
      /\ \A s \in Sub : awaitingPong'[s] = IF s \in S THEN FALSE ELSE awaitingPong[s]
  BY DEF End, Off, StopHeartbeat
<1>2. activeSubscriptions' = activeSubscriptions \ S
  BY DEF End
<1> DEFINE K == {ws[s] : s \in S} \cap Socket
<1>3. /\ \A k \in Socket : readyState'[k] = IF k \in K /\ rs[k] # "closed" THEN "closing" ELSE rs[k]
      /\ \A k \in Socket : owner'[k] = IF k \in K THEN None ELSE os[k]
      /\ readyState' \in [Socket -> ReadyStates] /\ owner' \in [Socket -> Sub \cup {None}]
  BY DEF End, Drop, ReadyStates
<1>4. \A k \in Socket : k \in K <=> \E s \in S : ws[s] = k
  OBVIOUS
<1> HIDE DEF K
\* Whoever keeps a socket is not among those that end, and keeps it whole.
<1>5. ASSUME NEW k \in Socket, owner'[k] # None
      PROVE  /\ owner'[k] = owner[k] /\ owner[k] \in Sub \ S /\ readyState'[k] = readyState[k]
             /\ ws'[owner[k]] = ws[owner[k]]
  <2>1. k \notin K /\ os[k] = owner[k] /\ os[k] # None /\ owner'[k] = owner[k]
    BY <1>3, <1>5
  <2>2. owner[k] \in Sub /\ ws[owner[k]] = k
    BY <2>1 DEF IndexerInv, IndexerTypes, OwnersExact
  <2>3. owner[k] \notin S
    BY <1>4, <2>1, <2>2
  <2> QED BY <1>1, <1>3, <2>1, <2>2, <2>3
\* And a socket of a subscription that stays is not dropped.
<1>6. ASSUME NEW s \in Sub \ S, ws[s] \in Socket, owner[ws[s]] = s
      PROVE  owner'[ws[s]] = s /\ readyState'[ws[s]] = readyState[ws[s]] /\ ws'[s] = ws[s]
  <2>1. ws[s] \notin K
    BY <1>4, <1>6 DEF IndexerInv, OwnersExact
  <2>2. os[ws[s]] = s /\ s # None
    BY <1>6
  <2> QED BY <1>1, <1>3, <1>6, <2>1, <2>2
<1>7. IndexerTypes'
  <2>1. phase' \in [Sub -> {"new", "live", "unsubscribed"}] /\ ws' \in [Sub -> Socket \cup {None}]
    BY DEF End, IndexerInv, IndexerTypes
  <2> QED BY <1>2, <1>3, <2>1 DEF IndexerInv, IndexerTypes
<1>8. TimerTypes'
  BY DEF End, Off, StopHeartbeat, IndexerInv, TimerTypes
<1>9. OwnersExact'
  BY <1>1, <1>5 DEF IndexerInv, OwnersExact
<1>10. EndedExact'
  <2>1. EndedExact
    BY DEF IndexerInv
  <2>2. ASSUME NEW s \in Sub, phase'[s] # "live"
        PROVE  ws'[s] = None /\ ~reconnectTimer'[s] /\ ~heartbeatInterval'[s] /\ ~heartbeatTimeout'[s]
    BY <1>1, <2>1, <2>2 DEF EndedExact
  <2>3. ASSUME NEW s \in Sub PROVE s \in activeSubscriptions' <=> phase'[s] = "live"
    BY <1>1, <1>2, <2>1 DEF EndedExact
  <2>4. isDestroyed' => activeSubscriptions' = {}
    BY <1>2, <2>1 DEF EndedExact
  <2> QED BY <2>2, <2>3, <2>4 DEF EndedExact
<1>11. TimersExact'
  <2>0. TimersExact /\ OwnersExact /\ reconnectAttempts' = reconnectAttempts
    BY DEF IndexerInv
  <2>1. ASSUME NEW s \in Sub, reconnectTimer'[s], NEW k \in Socket, owner'[k] = s PROVE FALSE
    <3>1. owner[k] = s /\ s \notin S
      BY <1>5, <2>1
    <3>2. reconnectTimer[s]
      BY <1>1, <2>1, <3>1
    <3> QED BY <2>0, <2>1, <3>1, <3>2 DEF TimersExact
  <2>2. ASSUME NEW s \in Sub \ ConstructorThrows, phase'[s] = "live", ~reconnectTimer'[s]
        PROVE  ws'[s] \in Socket /\ owner'[ws'[s]] = s
    <3>1. s \notin S /\ ws[s] \in Socket /\ owner[ws[s]] = s
      BY <1>1, <2>0, <2>2 DEF TimersExact
    <3> QED BY <1>6, <3>1
  <2>3. ASSUME NEW s \in Sub, heartbeatTimeout'[s]
        PROVE  /\ awaitingPong'[s] /\ ws'[s] \in Socket
               /\ owner'[ws'[s]] = s /\ readyState'[ws'[s]] \in {"open", "closing"}
    <3>1. /\ s \notin S /\ awaitingPong[s] /\ ws[s] \in Socket /\ owner[ws[s]] = s
          /\ readyState[ws[s]] \in {"open", "closing"}
      BY <1>1, <2>0, <2>3 DEF TimersExact
    <3>2. owner'[ws[s]] = s /\ readyState'[ws[s]] = readyState[ws[s]] /\ ws'[s] = ws[s]
      BY <1>6, <3>1
    <3>3. awaitingPong'[s] = awaitingPong[s]
      BY <1>1, <3>1
    <3> QED BY <3>1, <3>2, <3>3
  <2> QED BY <2>0, <2>1, <2>2, <2>3 DEF TimersExact
<1> QED BY <1>7, <1>8, <1>9, <1>10, <1>11 DEF IndexerInv


\* openSocket() for a subscription that has no socket attached: a socket no
\* other subscription has, or none where the constructor throws.
LEMMA OpenKeepsIndexer ==
  ASSUME IndexerInv, NEW s \in Sub, OpenSocket(s), \A k \in Socket : owner[k] # s,
         ~isDestroyed, UNCHANGED <<isDestroyed, reconnectAttempts, heartbeatVars>>,
         phase' \in [Sub -> {"new", "live", "unsubscribed"}],
         \A t \in Sub : phase'[t] = IF t = s THEN "live" ELSE phase[t],
         activeSubscriptions' = activeSubscriptions \cup {s},
         reconnectTimer' \in [Sub -> BOOLEAN],
         \A t \in Sub : reconnectTimer'[t] = IF t = s THEN FALSE ELSE reconnectTimer[t]
  PROVE  IndexerInv'
<1>0. /\ IndexerTypes /\ TimerTypes /\ OwnersExact /\ EndedExact /\ TimersExact
      /\ UNCHANGED <<heartbeatInterval, heartbeatTimeout, awaitingPong>>
  BY DEF IndexerInv, heartbeatVars
<1>1. ~heartbeatTimeout[s]
  BY <1>0 DEF TimersExact
<1>2. TimerTypes'
  BY <1>0 DEF TimerTypes
<1>3. CASE s \in ConstructorThrows /\ UNCHANGED <<ws, socketVars>>
  <2>1. UNCHANGED <<ws, readyState, owner>> /\ s \in ConstructorThrows
    BY <1>3 DEF socketVars
  <2>2. IndexerTypes'
    BY <1>0, <2>1 DEF IndexerTypes
  <2>3. OwnersExact'
    BY <1>0, <2>1 DEF OwnersExact, IndexerTypes
  <2>4. EndedExact'
    BY <1>0, <2>1 DEF EndedExact
  <2>5. TimersExact'
    <3>1. UNCHANGED <<reconnectAttempts, heartbeatTimeout, awaitingPong>> /\ TimersExact
      BY <1>0
    <3>2. ASSUME NEW t \in Sub, reconnectTimer'[t] PROVE \A k \in Socket : owner'[k] # t
      BY <2>1, <3>1, <3>2 DEF TimersExact
    <3>3. ASSUME NEW t \in Sub \ ConstructorThrows, phase'[t] = "live", ~reconnectTimer'[t]
          PROVE  ws'[t] \in Socket /\ owner'[ws'[t]] = t
      <4>1. t # s /\ phase[t] = "live" /\ ~reconnectTimer[t]
        BY <2>1, <3>3
      <4>2. ws[t] \in Socket /\ owner[ws[t]] = t
        BY <3>1, <4>1 DEF TimersExact
      <4> QED BY <2>1, <4>2
    <3>4. ASSUME NEW t \in Sub, heartbeatTimeout'[t]
          PROVE  /\ awaitingPong'[t] /\ ws'[t] \in Socket
                 /\ owner'[ws'[t]] = t /\ readyState'[ws'[t]] \in {"open", "closing"}
      BY <2>1, <3>1, <3>4 DEF TimersExact
    <3> QED BY <3>1, <3>2, <3>3, <3>4 DEF TimersExact
  <2> QED BY <1>2, <2>2, <2>3, <2>4, <2>5 DEF IndexerInv
<1>4. ASSUME NEW k \in Socket, Free(k),
             ws' = [ws EXCEPT ![s] = k], readyState' = [readyState EXCEPT ![k] = "connecting"],
             owner' = [owner EXCEPT ![k] = s]
      PROVE  IndexerInv'
  <2>1. /\ \A t \in Sub : ws'[t] = IF t = s THEN k ELSE ws[t]
        /\ \A l \in Socket : owner'[l] = IF l = k THEN s ELSE owner[l]
        /\ \A l \in Socket : readyState'[l] = IF l = k THEN "connecting" ELSE readyState[l]
    BY <1>0, <1>4 DEF IndexerTypes
  <2>2. \A t \in Sub : ws[t] # k
    BY <1>4 DEF Free
  <2>3. IndexerTypes'
    BY <1>0, <1>4 DEF IndexerTypes, ReadyStates
  <2>4. OwnersExact'
    <3>1. ASSUME NEW t \in Sub, NEW u \in Sub, ws'[t] = ws'[u], ws'[t] # None PROVE t = u
      BY <1>0, <2>1, <2>2, <3>1 DEF OwnersExact
    <3>2. ASSUME NEW l \in Socket, owner'[l] # None
          PROVE  ws'[owner'[l]] = l /\ phase'[owner'[l]] = "live" /\ readyState'[l] # "closed"
      <4>1. CASE l = k
        BY <2>1, <4>1
      <4>2. CASE l # k
        <5>1. owner'[l] = owner[l] /\ owner[l] # s /\ owner[l] \in Sub
          BY <1>0, <2>1, <3>2, <4>2 DEF IndexerTypes
        <5> QED BY <1>0, <2>1, <3>2, <4>2, <5>1 DEF OwnersExact
      <4> QED BY <4>1, <4>2
    <3> QED BY <3>1, <3>2 DEF OwnersExact
  <2>5. EndedExact'
    BY <1>0, <2>1 DEF EndedExact
  <2>6. TimersExact'
    <3>1. ASSUME NEW t \in Sub, reconnectTimer'[t], NEW l \in Socket PROVE owner'[l] # t
      <4>1. t # s /\ reconnectTimer[t]
        BY <3>1
      <4> QED BY <1>0, <2>1, <4>1 DEF TimersExact
    <3>2. ASSUME NEW t \in Sub \ ConstructorThrows, phase'[t] = "live", ~reconnectTimer'[t]
          PROVE  ws'[t] \in Socket /\ owner'[ws'[t]] = t
      <4>1. CASE t = s
        BY <2>1, <4>1
      <4>2. CASE t # s
        <5>1. ws[t] \in Socket /\ owner[ws[t]] = t /\ ws[t] # k /\ ws'[t] = ws[t]
          BY <1>0, <2>1, <2>2, <3>2, <4>2 DEF TimersExact
        <5> QED BY <2>1, <5>1
      <4> QED BY <4>1, <4>2
    <3>3. ASSUME NEW t \in Sub, heartbeatTimeout'[t]
          PROVE  /\ awaitingPong'[t] /\ ws'[t] \in Socket
                 /\ owner'[ws'[t]] = t /\ readyState'[ws'[t]] \in {"open", "closing"}
      <4>1. heartbeatTimeout[t] /\ t # s
        BY <1>0, <1>1, <3>3
      <4>2. /\ awaitingPong[t] /\ ws[t] \in Socket /\ owner[ws[t]] = t /\ ws[t] # k
            /\ readyState[ws[t]] \in {"open", "closing"} /\ ws'[t] = ws[t]
        BY <1>0, <2>1, <2>2, <4>1 DEF TimersExact
      <4> QED BY <1>0, <2>1, <4>2
    <3> QED BY <1>0, <3>1, <3>2, <3>3 DEF TimersExact
  <2> QED BY <1>2, <2>3, <2>4, <2>5, <2>6 DEF IndexerInv
<1> QED BY <1>3, <1>4 DEF OpenSocket

\* An event of a socket that has handlers moves nothing but its ready state,
\* open or closing, and the heartbeat of its subscription.
LEMMA EventKeepsIndexer ==
  ASSUME IndexerInv, NEW k \in Socket, readyState[k] # "closed",
         UNCHANGED <<isDestroyed, activeSubscriptions, phase, ws, reconnectTimer, owner>>,
         NEW state \in {"open", "closing"}, readyState' = [readyState EXCEPT ![k] = state],
         TimerTypes',
         \A s \in Sub : reconnectAttempts'[s] \in {0, reconnectAttempts[s]},
         \A s \in Sub : owner[k] # s => heartbeatInterval'[s] = heartbeatInterval[s],
         \A s \in Sub : heartbeatTimeout'[s] => awaitingPong'[s],
         \A s \in Sub : heartbeatTimeout'[s] =>
             heartbeatTimeout[s] \/ (owner[k] = s /\ state = "open")
  PROVE  IndexerInv'
<1>0. /\ IndexerTypes /\ TimerTypes /\ OwnersExact /\ EndedExact /\ TimersExact
      /\ \A l \in Socket : readyState'[l] = IF l = k THEN state ELSE readyState[l]
      /\ \A s \in Sub : owner[k] = s => s # None /\ ws[s] = k /\ phase[s] = "live"
  BY DEF IndexerInv, IndexerTypes, OwnersExact
<1>1. IndexerTypes'
  BY <1>0 DEF IndexerTypes, ReadyStates
<1>2. OwnersExact'
  BY <1>0 DEF OwnersExact
<1>3. EndedExact'
  BY <1>0 DEF EndedExact, TimerTypes
<1>4. TimersExact'
  <2>1. \A s \in Sub : reconnectAttempts'[s] <= MaxReconnectAttempts
    BY <1>0 DEF TimersExact
  <2>2. ASSUME NEW s \in Sub, heartbeatTimeout'[s]
        PROVE  /\ awaitingPong'[s] /\ ws'[s] \in Socket
               /\ owner'[ws'[s]] = s /\ readyState'[ws'[s]] \in {"open", "closing"}
    BY <1>0, <2>2 DEF TimersExact
  <2> QED BY <1>0, <2>1, <2>2 DEF TimersExact
<1> QED BY <1>1, <1>2, <1>3, <1>4 DEF IndexerInv

\* The reconnection of a subscription whose last socket has lost its handlers.
LEMMA ScheduleKeepsIndexer ==
  ASSUME IndexerInv, NEW s \in Sub, phase[s] = "live", ScheduleReconnect(s), StopHeartbeat({s}),
         UNCHANGED <<isDestroyed, activeSubscriptions, phase>>, IndexerTypes',
         \A t \in Sub : ws'[t] = ws[t] \/ (t = s /\ ws'[t] = None),
         \A k \in Socket : IF owner[k] = s THEN owner'[k] = None
                                           ELSE owner'[k] = owner[k] /\ readyState'[k] = readyState[k]
  PROVE  IndexerInv'
<1>0. /\ IndexerTypes /\ TimerTypes /\ OwnersExact /\ EndedExact /\ TimersExact
      /\ s # None /\ reconnectAttempts[s] < MaxReconnectAttempts
      /\ \A t \in Sub : t # s => ws'[t] = ws[t]
      /\ \A t \in Sub : t # None
      /\ \A k \in Socket : owner'[k] # None =>
           /\ owner'[k] = owner[k] /\ owner[k] \in Sub /\ owner[k] # s
           /\ ws'[owner[k]] = ws[owner[k]] /\ readyState'[k] = readyState[k]
  BY DEF IndexerInv, ScheduleReconnect, IndexerTypes
<1>1. /\ \A t \in Sub : reconnectTimer'[t] = IF t = s THEN TRUE ELSE reconnectTimer[t]
      /\ \A t \in Sub : reconnectAttempts'[t] = IF t = s THEN reconnectAttempts[s] + 1 ELSE reconnectAttempts[t]
      /\ \A t \in Sub : heartbeatInterval'[t] = IF t = s THEN FALSE ELSE heartbeatInterval[t]
      /\ \A t \in Sub : heartbeatTimeout'[t] = IF t = s THEN FALSE ELSE heartbeatTimeout[t]
      /\ \A t \in Sub : awaitingPong'[t] = IF t = s THEN FALSE ELSE awaitingPong[t]
  <2>1. /\ \A t \in Sub : reconnectTimer'[t] = IF t = s THEN TRUE ELSE reconnectTimer[t]
        /\ \A t \in Sub : reconnectAttempts'[t] = IF t = s THEN reconnectAttempts[s] + 1 ELSE reconnectAttempts[t]
    BY <1>0 DEF ScheduleReconnect, TimerTypes
  <2> QED BY <2>1 DEF StopHeartbeat, Off
<1>2. TimerTypes'
  <2>1. reconnectAttempts' \in [Sub -> Nat] /\ reconnectTimer' \in [Sub -> BOOLEAN]
    BY <1>0 DEF ScheduleReconnect, TimerTypes
  <2>2. /\ heartbeatInterval' \in [Sub -> BOOLEAN] /\ heartbeatTimeout' \in [Sub -> BOOLEAN]
        /\ awaitingPong' \in [Sub -> BOOLEAN]
    BY <1>0 DEF StopHeartbeat, Off, TimerTypes
  <2> QED BY <2>1, <2>2 DEF TimerTypes
<1>3. OwnersExact'
  BY <1>0 DEF OwnersExact
<1>4. EndedExact'
  BY <1>0, <1>1 DEF EndedExact
<1>5. TimersExact'
  <2>1. \A t \in Sub : reconnectAttempts'[t] <= MaxReconnectAttempts
    <3>1. reconnectAttempts[s] + 1 <= MaxReconnectAttempts
      BY <1>0 DEF TimerTypes
    <3> QED BY <1>0, <1>1, <3>1 DEF TimersExact
  <2>2. ASSUME NEW t \in Sub, reconnectTimer'[t], NEW k \in Socket PROVE owner'[k] # t
    <3>1. t = s \/ reconnectTimer[t]
      BY <1>1, <2>2
    <3> QED BY <1>0, <3>1 DEF TimersExact
  <2>3. ASSUME NEW t \in Sub \ ConstructorThrows, phase'[t] = "live", ~reconnectTimer'[t]
        PROVE  ws'[t] \in Socket /\ owner'[ws'[t]] = t
    <3>1. t # s /\ ws[t] \in Socket /\ owner[ws[t]] = t /\ ws'[t] = ws[t]
      BY <1>0, <1>1, <2>3 DEF TimersExact
    <3> QED BY <3>1
  <2>4. ASSUME NEW t \in Sub, heartbeatTimeout'[t]
        PROVE  /\ awaitingPong'[t] /\ ws'[t] \in Socket
               /\ owner'[ws'[t]] = t /\ readyState'[ws'[t]] \in {"open", "closing"}
    <3>1. /\ t # s /\ awaitingPong[t] /\ ws[t] \in Socket /\ owner[ws[t]] = t
          /\ readyState[ws[t]] \in {"open", "closing"} /\ ws'[t] = ws[t]
      BY <1>0, <1>1, <2>4 DEF TimersExact
    <3>2. awaitingPong'[t] = awaitingPong[t]
      BY <1>1, <3>1
    <3> QED BY <3>1, <3>2
  <2> QED BY <2>1, <2>2, <2>3, <2>4 DEF TimersExact
<1> QED BY <1>2, <1>3, <1>4, <1>5 DEF IndexerInv

LEMMA StepKeepsIndexer == IndexerInv /\ [Next]_vars => IndexerInv'
<1> SUFFICES ASSUME IndexerInv, [Next]_vars PROVE IndexerInv'
  OBVIOUS
<1>0. /\ IndexerTypes /\ TimerTypes /\ OwnersExact /\ EndedExact /\ TimersExact
      /\ \A k \in Socket : owner[k] # None => owner[k] \in Sub /\ ws[owner[k]] = k
  BY DEF IndexerInv, IndexerTypes, OwnersExact
<1>1. ASSUME NEW s \in Sub, Subscribe(s) PROVE IndexerInv'
  <2>1. \A k \in Socket : owner[k] # s
    BY <1>0, <1>1 DEF Subscribe, OwnersExact
  <2>2. ~reconnectTimer[s] /\ UNCHANGED <<reconnectAttempts, reconnectTimer, heartbeatVars, isDestroyed>>
    BY <1>0, <1>1 DEF Subscribe, EndedExact, reconnectVars
  <2>3. /\ phase' \in [Sub -> {"new", "live", "unsubscribed"}]
        /\ \A t \in Sub : phase'[t] = IF t = s THEN "live" ELSE phase[t]
    BY <1>0, <1>1 DEF Subscribe, IndexerTypes
  <2>4. /\ reconnectTimer' \in [Sub -> BOOLEAN]
        /\ \A t \in Sub : reconnectTimer'[t] = IF t = s THEN FALSE ELSE reconnectTimer[t]
    <3>1. reconnectTimer' = reconnectTimer /\ reconnectTimer[s] = FALSE
      BY <1>0, <2>2 DEF TimerTypes
    <3> QED BY <1>0, <3>1 DEF TimerTypes
  <2>5. OpenSocket(s) /\ ~isDestroyed /\ activeSubscriptions' = activeSubscriptions \cup {s}
    BY <1>1 DEF Subscribe
  <2> QED BY <2>1, <2>2, <2>3, <2>4, <2>5, OpenKeepsIndexer
<1>2. ASSUME NEW s \in Sub, ReconnectTimer(s) PROVE IndexerInv'
  <2>1. /\ reconnectTimer[s] /\ OpenSocket(s)
        /\ UNCHANGED <<isDestroyed, activeSubscriptions, phase, reconnectAttempts, heartbeatVars>>
    BY <1>2 DEF ReconnectTimer
  <2>2. phase[s] = "live" /\ s \in activeSubscriptions /\ ~isDestroyed
    BY <1>0, <2>1 DEF EndedExact
  <2>3. \A k \in Socket : owner[k] # s
    BY <1>0, <2>1 DEF TimersExact
  <2>4. /\ phase' \in [Sub -> {"new", "live", "unsubscribed"}]
        /\ \A t \in Sub : phase'[t] = IF t = s THEN "live" ELSE phase[t]
        /\ activeSubscriptions' = activeSubscriptions \cup {s}
    BY <1>0, <2>1, <2>2 DEF IndexerTypes
  <2>5. /\ reconnectTimer' \in [Sub -> BOOLEAN]
        /\ \A t \in Sub : reconnectTimer'[t] = IF t = s THEN FALSE ELSE reconnectTimer[t]
    BY <1>0, <1>2 DEF ReconnectTimer, Off, TimerTypes
  <2> QED BY <2>1, <2>2, <2>3, <2>4, <2>5, OpenKeepsIndexer
<1>3. ASSUME NEW s \in Sub, NEW k \in Socket, SocketClose(s, k) PROVE IndexerInv'
  <2> DEFINE rs == [readyState EXCEPT ![k] = "closed"]
             os == [owner EXCEPT ![k] = None]
  <2>1. /\ owner[k] = s /\ phase[s] = "live" /\ isDestroyed' = isDestroyed
        /\ \A l \in Socket : owner[l] = s <=> l = k
    BY <1>0, <1>3 DEF SocketClose, Handles
  <2>2. /\ rs \in [Socket -> ReadyStates] /\ os \in [Socket -> Sub \cup {None}]
        /\ \A l \in Socket : os[l] = IF l = k THEN None ELSE owner[l]
        /\ \A l \in Socket : l # k => rs[l] = readyState[l]
    BY <1>0 DEF IndexerTypes, ReadyStates
  <2>3. CASE /\ ScheduleReconnect(s) /\ StopHeartbeat({s}) /\ Drop({}, rs, os)
             /\ UNCHANGED <<activeSubscriptions, phase, ws>>
    <3>1. owner' \in [Socket -> Sub \cup {None}] /\ readyState' \in [Socket -> ReadyStates]
          /\ \A l \in Socket : owner'[l] = os[l] /\ readyState'[l] = rs[l]
      BY <2>2, <2>3 DEF Drop
    <3> HIDE DEF rs, os
    <3>2. IndexerTypes'
      BY <1>0, <2>1, <2>3, <3>1 DEF IndexerTypes
    <3>3. \A l \in Socket : IF owner[l] = s THEN owner'[l] = None
                            ELSE owner'[l] = owner[l] /\ readyState'[l] = readyState[l]
      BY <2>1, <2>2, <3>1
    <3> QED BY <2>1, <2>3, <3>2, <3>3, ScheduleKeepsIndexer
  <2>4. CASE End({s}, rs, os) /\ UNCHANGED reconnectAttempts
    <3> HIDE DEF rs, os
    <3>1. \A l \in Socket : os[l] = owner[l] \/ (os[l] = None /\ owner[l] \in {s})
      BY <2>1, <2>2
    <3>2. \A l \in Socket : os[l] # None => rs[l] = readyState[l]
      BY <2>2
    <3>3. isDestroyed' \in BOOLEAN
      BY <1>0, <2>1 DEF IndexerTypes
    <3> QED BY <2>1, <2>2, <2>4, <3>1, <3>2, <3>3, EndKeepsIndexer
  <2> QED BY <1>3, <2>3, <2>4 DEF SocketClose
<1>4. ASSUME NEW s \in Sub, HeartbeatExpires(s) PROVE IndexerInv'
  <2>1. /\ phase[s] = "live" /\ ws[s] \in Socket /\ isDestroyed' = isDestroyed
        /\ \A k \in Socket : owner[k] = s <=> k = ws[s]
    BY <1>0, <1>4 DEF HeartbeatExpires, TimersExact, EndedExact
  <2>2. CASE /\ ScheduleReconnect(s) /\ StopHeartbeat({s})
             /\ Drop({ws[s]} \cap Socket, readyState, owner)
             /\ ws' = [ws EXCEPT ![s] = None] /\ UNCHANGED <<activeSubscriptions, phase>>
    <3>1. /\ owner' \in [Socket -> Sub \cup {None}] /\ readyState' \in [Socket -> ReadyStates]
          /\ \A k \in Socket : owner'[k] = IF k = ws[s] THEN None ELSE owner[k]
          /\ \A k \in Socket : k # ws[s] => readyState'[k] = readyState[k]
      BY <1>0, <2>1, <2>2 DEF Drop, IndexerTypes, ReadyStates
    <3>2. ws' \in [Sub -> Socket \cup {None}] /\ \A t \in Sub : ws'[t] = IF t = s THEN None ELSE ws[t]
      BY <1>0, <2>2 DEF IndexerTypes
    <3>3. IndexerTypes'
      BY <1>0, <2>1, <2>2, <3>1, <3>2 DEF IndexerTypes
    <3>4. \A k \in Socket : IF owner[k] = s THEN owner'[k] = None
                            ELSE owner'[k] = owner[k] /\ readyState'[k] = readyState[k]
      BY <2>1, <3>1
    <3> QED BY <2>1, <2>2, <3>2, <3>3, <3>4, ScheduleKeepsIndexer
  <2>3. CASE End({s}, readyState, owner) /\ UNCHANGED reconnectAttempts
    BY <1>0, <2>1, <2>3, EndKeepsIndexer DEF IndexerTypes
  <2> QED BY <1>4, <2>2, <2>3 DEF HeartbeatExpires
<1>5. ASSUME NEW s \in Sub, Unsubscribe(s) PROVE IndexerInv'
  BY <1>0, <1>5, EndKeepsIndexer DEF Unsubscribe, IndexerTypes
<1>6. CASE Cleanup
  BY <1>0, <1>6, EndKeepsIndexer DEF Cleanup, IndexerTypes
<1>7. ASSUME NEW s \in Sub, NEW k \in Socket, SocketOpen(s, k) PROVE IndexerInv'
  <2>1. /\ owner[k] = s /\ readyState[k] # "closed" /\ readyState' = [readyState EXCEPT ![k] = "open"]
        /\ UNCHANGED <<isDestroyed, activeSubscriptions, phase, ws, reconnectTimer, owner>>
    BY <1>7 DEF SocketOpen, Handles
  <2>2. TimerTypes'
    BY <1>0, <1>7 DEF SocketOpen, Off, TimerTypes
  <2>3. /\ \A t \in Sub : reconnectAttempts'[t] = IF t = s THEN 0 ELSE reconnectAttempts[t]
        /\ \A t \in Sub : t # s => heartbeatInterval'[t] = heartbeatInterval[t]
        /\ \A t \in Sub : heartbeatTimeout'[t] = IF t = s THEN FALSE ELSE heartbeatTimeout[t]
        /\ \A t \in Sub : awaitingPong'[t] = IF t = s THEN FALSE ELSE awaitingPong[t]
    BY <1>0, <1>7 DEF SocketOpen, Off, TimerTypes
  <2>4. \A t \in Sub : heartbeatTimeout'[t] => heartbeatTimeout[t] /\ awaitingPong'[t]
    BY <1>0, <2>3 DEF TimersExact
  <2> QED BY <2>1, <2>2, <2>3, <2>4, EventKeepsIndexer
<1>8. ASSUME NEW s \in Sub, NEW k \in Socket, Pong(s, k) PROVE IndexerInv'
  <2>1. /\ owner[k] = s /\ readyState[k] = "open" /\ readyState' = [readyState EXCEPT ![k] = "open"]
        /\ UNCHANGED <<isDestroyed, activeSubscriptions, phase, ws, reconnectAttempts, reconnectTimer,
                       heartbeatInterval, owner>>
    BY <1>0, <1>8 DEF Pong, Handles, IndexerTypes, socketVars, reconnectVars
  <2>2. TimerTypes'
    BY <1>0, <1>8, <2>1 DEF Pong, Off, TimerTypes
  <2>3. /\ \A t \in Sub : heartbeatTimeout'[t] = IF t = s THEN FALSE ELSE heartbeatTimeout[t]
        /\ \A t \in Sub : awaitingPong'[t] = IF t = s THEN FALSE ELSE awaitingPong[t]
    BY <1>8 DEF Pong, Off
  <2>4. \A t \in Sub : heartbeatTimeout'[t] => heartbeatTimeout[t] /\ awaitingPong'[t]
    BY <1>0, <2>3 DEF TimersExact
  <2> QED BY <2>1, <2>2, <2>4, EventKeepsIndexer
<1>9. ASSUME NEW s \in Sub, NEW k \in Socket, HeartbeatTick(s, k) PROVE IndexerInv'
  <2>1. /\ owner[k] = s /\ readyState[k] = "open" /\ readyState' = [readyState EXCEPT ![k] = "open"]
        /\ UNCHANGED <<isDestroyed, activeSubscriptions, phase, ws, reconnectAttempts, reconnectTimer,
                       heartbeatInterval, owner>>
    BY <1>0, <1>9 DEF HeartbeatTick, IndexerTypes, socketVars, reconnectVars
  <2>2. TimerTypes'
    BY <1>0, <1>9, <2>1 DEF HeartbeatTick, TimerTypes
  <2>3. /\ \A t \in Sub : heartbeatTimeout'[t] = IF t = s THEN TRUE ELSE heartbeatTimeout[t]
        /\ \A t \in Sub : awaitingPong'[t] = IF t = s THEN TRUE ELSE awaitingPong[t]
    BY <1>0, <1>9 DEF HeartbeatTick, TimerTypes
  <2>4. \A t \in Sub : heartbeatTimeout'[t] => (heartbeatTimeout[t] \/ t = s) /\ awaitingPong'[t]
    BY <1>0, <2>3 DEF TimersExact
  <2> QED BY <2>1, <2>2, <2>4, EventKeepsIndexer
<1>10. ASSUME NEW k \in Socket, SocketFails(k) PROVE IndexerInv'
  <2>1. /\ readyState[k] # "closed" /\ readyState' = [readyState EXCEPT ![k] = "closing"]
        /\ UNCHANGED <<isDestroyed, activeSubscriptions, phase, ws, reconnectAttempts, reconnectTimer,
                       heartbeatInterval, heartbeatTimeout, awaitingPong, owner>>
    BY <1>10 DEF SocketFails, reconnectVars, heartbeatVars
  <2>2. TimerTypes'
    BY <1>0, <2>1 DEF TimerTypes
  <2>3. \A t \in Sub : heartbeatTimeout'[t] => heartbeatTimeout[t] /\ awaitingPong'[t]
    BY <1>0, <2>1 DEF TimersExact
  <2> QED BY <2>1, <2>2, <2>3, EventKeepsIndexer
<1>11. ASSUME NEW k \in Socket, DetachedClose(k) PROVE IndexerInv'
  <2>1. /\ owner[k] = None
        /\ \A l \in Socket : readyState'[l] = IF l = k THEN "closed" ELSE readyState[l]
        /\ readyState' \in [Socket -> ReadyStates]
        /\ UNCHANGED <<isDestroyed, activeSubscriptions, phase, ws, reconnectAttempts, reconnectTimer,
                       heartbeatInterval, heartbeatTimeout, awaitingPong, owner>>
    BY <1>0, <1>11 DEF DetachedClose, reconnectVars, heartbeatVars, IndexerTypes, ReadyStates
  <2>2. IndexerTypes' /\ TimerTypes'
    BY <1>0, <2>1 DEF IndexerTypes, TimerTypes
  <2>3. OwnersExact'
    BY <1>0, <2>1 DEF OwnersExact
  <2>4. EndedExact'
    BY <1>0, <2>1 DEF EndedExact
  <2>5. TimersExact'
    <3>1. \A s \in Sub : s # None
      OBVIOUS
    <3>2. ASSUME NEW s \in Sub, heartbeatTimeout[s]
          PROVE  /\ awaitingPong[s] /\ ws[s] \in Socket
                 /\ owner[ws[s]] = s /\ readyState'[ws[s]] \in {"open", "closing"}
      BY <1>0, <2>1, <3>1, <3>2 DEF TimersExact
    <3> QED BY <1>0, <2>1, <3>2 DEF TimersExact
  <2> QED BY <2>2, <2>3, <2>4, <2>5 DEF IndexerInv
<1>12. ASSUME UNCHANGED <<isDestroyed, activeSubscriptions, phase, ws, reconnectVars, heartbeatVars,
                          readyState, owner>>
       PROVE  IndexerInv'
  BY <1>12 DEF IndexerInv, IndexerTypes, TimerTypes, OwnersExact, EndedExact, TimersExact,
               reconnectVars, heartbeatVars
<1>13. ASSUME NEW s \in Sub, NEW k \in Socket, Ack(s, k) PROVE IndexerInv'
  BY <1>12, <1>13 DEF Ack
<1>14. CASE UNCHANGED vars
  BY <1>12, <1>14 DEF vars, socketVars
<1> QED BY <1>1, <1>2, <1>3, <1>4, <1>5, <1>6, <1>7, <1>8, <1>9, <1>10, <1>11, <1>13, <1>14 DEF Next

\* GraphQLIndexer.subscribe(): for any number of subscriptions and sockets,
\* however handshakes, losses, heartbeats and unsubscriptions interleave, what is
\* over has no socket that could still call it, no timer and no heartbeat, and
\* cleanup() leaves no subscription.
THEOREM NothingEverLeftBehind == Spec => []NothingLeftBehind
<1>1. IndexerInv => NothingLeftBehind
  <2> SUFFICES ASSUME IndexerInv PROVE NothingLeftBehind
    OBVIOUS
  <2>1. OwnersExact /\ EndedExact
    BY DEF IndexerInv
  <2>2. \A s \in Sub : phase[s] # "live" => Attached(s) = {}
    BY <2>1 DEF OwnersExact, Attached
  <2> QED BY <2>1, <2>2 DEF EndedExact, NothingLeftBehind
<1> QED BY InitIndexer, StepKeepsIndexer, <1>1, PTL DEF Spec

\* A live subscription has one attached socket, its current one, or one pending
\* timer, unless the constructor throws; a heartbeat timeout hits the socket that
\* was pinged, and the attempts stay within their bound, whatever the bound.
THEOREM TransportAlwaysExact == Spec => []TransportExact
<1>1. IndexerInv => TransportExact
  <2> SUFFICES ASSUME IndexerInv PROVE TransportExact
    OBVIOUS
  <2>1. OwnersExact /\ EndedExact /\ TimersExact
    BY DEF IndexerInv
  <2>2. OneTransport
    <3> SUFFICES ASSUME NEW s \in activeSubscriptions \ ConstructorThrows
                 PROVE  IF reconnectTimer[s] THEN Attached(s) = {} ELSE Attached(s) = {ws[s]}
      BY DEF OneTransport
    <3>1. s \in Sub \ ConstructorThrows /\ phase[s] = "live"
      BY <2>1 DEF IndexerInv, IndexerTypes, EndedExact
    <3>2. \A k \in Attached(s) : k = ws[s]
      BY <2>1, <3>1 DEF OwnersExact, Attached
    <3>3. reconnectTimer[s] => Attached(s) = {}
      BY <2>1, <3>1 DEF TimersExact, Attached
    <3>4. ~reconnectTimer[s] => ws[s] \in Attached(s)
      BY <2>1, <3>1 DEF TimersExact, Attached
    <3> QED BY <3>2, <3>3, <3>4
  <2>3. TimeoutHitsPingedSocket
    BY <2>1 DEF TimersExact, TimeoutHitsPingedSocket, Attached
  <2> QED BY <2>1, <2>2, <2>3 DEF TimersExact, TransportExact
<1> QED BY InitIndexer, StepKeepsIndexer, <1>1, PTL DEF Spec

-----------------------------------------------------------------------------
(* Where there is no WebSocket: the stream of server-sent events           *)

\* The lines of the chunk in hand follow those that were passed, up to the last
\* that was read whole; after "[DONE]" nothing more is to come.
SseInv ==
    /\ sent \in 0 .. 2 * Lines /\ received \in 0 .. sent
    /\ passed \in Seq(Nat) /\ toDispatch \in Seq(Nat)
    /\ toDispatch # <<>> => ssePhase = "dispatching"
    /\ Len(passed) < Lines
    /\ \A k \in 1 .. Len(passed) : passed[k] = k
    /\ \A k \in 1 .. Len(toDispatch) : toDispatch[k] = Len(passed) + k
    /\ \/ Len(passed) + Len(toDispatch) = received \div 2
       \/ toDispatch = <<>> /\ received = 2 * Lines

LEMMA StepKeepsSse == SseInv /\ [SseNext]_sseVars => SseInv'
<1> SUFFICES ASSUME SseInv, [SseNext]_sseVars PROVE SseInv'
  OBVIOUS
<1>0. Lines \in Nat /\ Lines >= 1
  BY SseAssumption
<1>1. CASE ServerWrites
  BY <1>0, <1>1 DEF ServerWrites, SseInv
<1>2. ASSUME NEW upTo \in 1 .. 2 * Lines, ChunkRead(upTo) PROVE SseInv'
  <2> DEFINE more == (upTo \div 2) - (received \div 2)
  <2>1. /\ received' = upTo /\ toDispatch' = [k \in 1 .. more |-> (received \div 2) + k]
        /\ toDispatch = <<>> /\ upTo \in received + 1 .. sent
        /\ ssePhase' = "dispatching" /\ sent' = sent /\ passed' = passed
    BY <1>2 DEF ChunkRead, SseInv
  <2>2. /\ received \in Nat /\ upTo \in Nat /\ received < upTo /\ upTo <= 2 * Lines
        /\ received \div 2 \in Nat /\ upTo \div 2 \in Nat /\ received \div 2 <= upTo \div 2
    BY <1>0, <2>1 DEF SseInv
  <2>3. Len(passed) = received \div 2 /\ Len(passed) \in Nat
    BY <1>0, <2>1, <2>2 DEF SseInv
  <2>4. more \in Nat /\ (received \div 2) + more = upTo \div 2
    BY <2>2
  <2> HIDE DEF more
  <2>5. /\ toDispatch' \in Seq(Nat) /\ Len(toDispatch') = more
        /\ \A k \in 1 .. more : toDispatch'[k] = Len(passed) + k
    BY <2>1, <2>2, <2>3, <2>4
  <2> QED BY <1>0, <2>1, <2>2, <2>3, <2>4, <2>5 DEF SseInv
<1>3. CASE LineDispatched
  <2>1. /\ toDispatch # <<>> /\ ssePhase = "dispatching" /\ ssePhase' = ssePhase
        /\ sent' = sent /\ received' = received
    BY <1>3 DEF LineDispatched
  <2>2. /\ Len(passed) \in Nat /\ Len(toDispatch) \in Nat /\ Len(toDispatch) >= 1
        /\ Head(toDispatch) = Len(passed) + 1 /\ received \in Nat /\ received <= 2 * Lines
        /\ Len(passed) + Len(toDispatch) = received \div 2
    BY <1>0, <2>1 DEF SseInv
  <2>3. CASE Head(toDispatch) = Lines
    <3>1. toDispatch' = <<>> /\ passed' = passed
      BY <1>3, <2>3 DEF LineDispatched
    <3>2. received = 2 * Lines
      BY <1>0, <2>2, <2>3
    <3> QED BY <2>1, <3>1, <3>2 DEF SseInv
  <2>4. CASE Head(toDispatch) # Lines
    <3>1. toDispatch' = Tail(toDispatch) /\ passed' = Append(passed, Head(toDispatch))
      BY <1>3, <2>4 DEF LineDispatched
    <3>2. /\ passed' \in Seq(Nat) /\ Len(passed') = Len(passed) + 1
          /\ \A k \in 1 .. Len(passed') : passed'[k] = k
      BY <2>2, <3>1 DEF SseInv
    <3>3. /\ toDispatch' \in Seq(Nat) /\ Len(toDispatch') = Len(toDispatch) - 1
          /\ \A k \in 1 .. Len(toDispatch') : toDispatch'[k] = Len(passed') + k
      BY <2>1, <2>2, <3>1, <3>2 DEF SseInv
    <3>4. Len(passed') < Lines
      BY <1>0, <2>2, <2>4, <3>2 DEF SseInv
    <3>5. Len(passed') + Len(toDispatch') = received' \div 2
      <4>1. Len(passed') + Len(toDispatch') = Len(passed) + Len(toDispatch)
        BY <2>2, <3>2, <3>3
      <4> QED BY <2>1, <2>2, <4>1
    <3> QED BY <2>1, <3>2, <3>3, <3>4, <3>5 DEF SseInv
  <2> QED BY <2>3, <2>4
<1>4. ASSUME UNCHANGED <<sent, received, toDispatch, passed>>, toDispatch = <<>> \/ UNCHANGED ssePhase
      PROVE  SseInv'
  BY <1>4 DEF SseInv
<1>5. ASSUME NEW ok \in BOOLEAN, SseResponds(ok) PROVE SseInv'
  BY <1>4, <1>5 DEF SseResponds, SseInv
<1>6. CASE ChunkDispatched
  BY <1>4, <1>6 DEF ChunkDispatched
<1>7. CASE ReadEnds
  BY <1>4, <1>7 DEF ReadEnds, SseInv
<1>8. CASE SseUnsubscribe
  BY <1>4, <1>8 DEF SseUnsubscribe
<1>9. CASE UNCHANGED sseVars
  BY <1>4, <1>9 DEF sseVars
<1> QED BY <1>1, <1>2, <1>3, <1>5, <1>6, <1>7, <1>8, <1>9 DEF SseNext

\* The reader of subscribe() without WebSocket: for any number of lines, cut into
\* chunks anywhere, each is passed whole, once and in order.
THEOREM LinesAlwaysExact == SseSpec => []LinesExact
<1>1. SseInit => SseInv
  <2> SUFFICES ASSUME SseInit PROVE SseInv
    OBVIOUS
  <2>1. sent = 0 /\ received = 0 /\ passed = <<>> /\ toDispatch = <<>> /\ 0 \div 2 = 0
    BY DEF SseInit
  <2> QED BY <2>1, SseAssumption DEF SseInv
<1>2. SseInv => LinesExact
  <2> SUFFICES ASSUME SseInv PROVE LinesExact
    OBVIOUS
  <2>1. Lines \in Nat /\ Len(passed) \in Nat /\ Len(toDispatch) \in Nat /\ received \in Nat
    BY SseAssumption DEF SseInv
  <2>2. 2 * Len(passed) <= received
    BY <2>1 DEF SseInv
  <2>3. passed = [k \in 1 .. Len(passed) |-> k]
    BY DEF SseInv
  <2> QED BY <2>2, <2>3 DEF SseInv, LinesExact
<1> QED BY <1>1, <1>2, StepKeepsSse, PTL DEF SseSpec

-----------------------------------------------------------------------------
(* query() and the persisted query protocol                                *)

QueryTypes ==
    /\ persist \in BOOLEAN /\ callerAborted \in BOOLEAN /\ unknownHash \in BOOLEAN
    /\ fetchTimer \in BOOLEAN /\ abortListener \in BOOLEAN /\ fetchAborted \in BOOLEAN
    /\ pagination \subseteq PagingArgument
    /\ queryPhase \in {"idle", "hashing", "fetching", "reading", "settled"}

\* The text follows the hash only where the server has refused the hash, and a
\* request is there as long as an answer is awaited.
RequestsExact ==
    /\ \/ requests = <<>>
       \/ persist /\ requests = <<"hash">>
       \/ ~persist /\ requests = <<"text">>
       \/ persist /\ requests = <<"hash", "text">> /\ unknownHash
    /\ queryPhase = "hashing" => persist
    /\ queryPhase \in {"idle", "hashing"} => requests = <<>>
    /\ queryPhase \in {"fetching", "reading"} => requests # <<>>

\* The timer and the listener are there during a fetch and at no other time.
FetchExact ==
    /\ queryPhase # "fetching" => ~fetchTimer /\ ~abortListener
    /\ queryPhase = "fetching" => /\ abortListener /\ (fetchTimer \/ fetchAborted)
                                  /\ callerAborted => fetchAborted

AnswerExact ==
    IF queryPhase = "settled" /\ answer # "refused"
    THEN metrics = <<answer = "data">> ELSE metrics = <<>>

QueryInv == QueryTypes /\ RequestsExact /\ FetchExact /\ AnswerExact

LEMMA AppendTo == ASSUME NEW x, NEW y PROVE Append(<<>>, x) = <<x>> /\ Append(<<y>>, x) = <<y, x>>
<1> DEFINE S == {x, y}
<1>1. <<>> \in Seq(S) /\ <<y>> \in Seq(S) /\ x \in S
  OBVIOUS
<1>2. Append(<<>>, x) = <<x>>
  BY <1>1
<1>3. Append(<<y>>, x) = <<y, x>>
  <2>1. /\ Append(<<y>>, x) \in Seq(S) /\ Len(Append(<<y>>, x)) = 2
        /\ Append(<<y>>, x)[1] = y /\ Append(<<y>>, x)[2] = x
    BY <1>1
  <2>2. <<y, x>> \in Seq(S) /\ Len(<<y, x>>) = 2 /\ <<y, x>>[1] = y /\ <<y, x>>[2] = x
    OBVIOUS
  <2>3. \A i \in 1 .. 2 : i = 1 \/ i = 2
    OBVIOUS
  <2> HIDE DEF S
  <2> QED BY <2>1, <2>2, <2>3, SeqEqual
<1> QED BY <1>2, <1>3

\* query() settles with one of its own answers: none of them is "refused".
LEMMA SettleKeepsQuery ==
  ASSUME QueryInv, queryPhase # "settled", NEW how, how # "refused", SettleQuery(how),
         QueryTypes', UNCHANGED <<persist, requests>>, unknownHash => unknownHash',
         ~fetchTimer', ~abortListener'
  PROVE  QueryInv'
<1>1. queryPhase' = "settled" /\ answer' = how /\ metrics' = <<how = "data">>
  BY DEF SettleQuery, QueryInv, AnswerExact
<1>2. RequestsExact'
  BY <1>1 DEF QueryInv, RequestsExact
<1>3. FetchExact' /\ AnswerExact'
  BY <1>1 DEF FetchExact, AnswerExact
<1> QED BY <1>2, <1>3 DEF QueryInv

\* A request that may be sent is, unless the caller has aborted.
LEMMA RequestKeepsQuery ==
  ASSUME QueryInv, queryPhase \in {"idle", "hashing", "reading"}, NEW body, ExecuteRequest(body),
         UNCHANGED <<persist, pagination, callerAborted>>, unknownHash' \in BOOLEAN,
         unknownHash => unknownHash',
         \/ requests = <<>> /\ body = (IF persist THEN "hash" ELSE "text")
         \/ requests = <<"hash">> /\ persist /\ body = "text" /\ unknownHash'
  PROVE  QueryInv'
<1>1. CASE callerAborted
  <2>1. /\ SettleQuery("aborted") /\ UNCHANGED <<requests, fetchTimer, abortListener, fetchAborted>>
        /\ ~fetchTimer /\ ~abortListener /\ queryPhase' = "settled"
    BY <1>1 DEF ExecuteRequest, SettleQuery, requestVars, QueryInv, FetchExact
  <2>2. QueryTypes'
    BY <2>1 DEF QueryInv, QueryTypes
  <2> QED BY <2>1, <2>2, SettleKeepsQuery
<1>2. CASE ~callerAborted
  <2>1. /\ requests' = Append(requests, body) /\ fetchTimer' = TRUE /\ abortListener' = TRUE
        /\ fetchAborted' = FALSE /\ queryPhase' = "fetching" /\ answer' = answer /\ metrics' = metrics
    BY <1>2 DEF ExecuteRequest
  <2>2. QueryTypes'
    BY <2>1 DEF QueryInv, QueryTypes
  <2>3. /\ requests = <<>> => requests' = <<body>>
        /\ requests = <<"hash">> => requests' = <<"hash", body>>
    BY <2>1, AppendTo
  <2>4. RequestsExact'
    BY <2>1, <2>3 DEF RequestsExact
  <2>5. FetchExact'
    BY <1>2, <2>1 DEF FetchExact
  <2>6. AnswerExact'
    BY <2>1 DEF QueryInv, AnswerExact
  <2> QED BY <2>2, <2>4, <2>5, <2>6 DEF QueryInv
<1> QED BY <1>1, <1>2

LEMMA StepKeepsQuery == QueryInv /\ [QueryNext]_queryVars => QueryInv'
<1> SUFFICES ASSUME QueryInv, [QueryNext]_queryVars PROVE QueryInv'
  OBVIOUS
<1>0. QueryTypes /\ RequestsExact /\ FetchExact /\ AnswerExact
  BY DEF QueryInv
<1>1. CASE FetchStreamsRefused
  <2>1. /\ queryPhase = "idle" /\ queryPhase' = "settled" /\ answer' = "refused"
        /\ UNCHANGED <<persist, pagination, requests, fetchTimer, abortListener, fetchAborted,
                       callerAborted, unknownHash, metrics>>
    BY <1>1 DEF FetchStreamsRefused, requestVars
  <2>2. QueryTypes'
    BY <1>0, <2>1 DEF QueryTypes
  <2>3. RequestsExact' /\ FetchExact'
    BY <1>0, <2>1 DEF RequestsExact, FetchExact
  <2>4. AnswerExact'
    BY <1>0, <2>1 DEF AnswerExact
  <2> QED BY <2>2, <2>3, <2>4 DEF QueryInv
<1>2. CASE QueryStarts
  <2>1. /\ queryPhase = "idle" /\ UNCHANGED <<persist, pagination, callerAborted, destroyed, unknownHash>>
        /\ requests = <<>> /\ ~fetchTimer /\ ~abortListener
    BY <1>0, <1>2 DEF QueryStarts, RequestsExact, FetchExact
  <2>2. CASE SettleQuery("destroyed") /\ UNCHANGED <<requests, requestVars>>
    <3>1. UNCHANGED <<requests, fetchTimer, abortListener, fetchAborted>> /\ queryPhase' = "settled"
      BY <2>2 DEF requestVars, SettleQuery
    <3>2. QueryTypes'
      BY <1>0, <2>1, <3>1 DEF QueryTypes
    <3> QED BY <2>1, <2>2, <3>1, <3>2, SettleKeepsQuery
  <2>3. CASE persist /\ queryPhase' = "hashing" /\ UNCHANGED <<requests, requestVars, answer, metrics>>
    <3>1. UNCHANGED <<requests, fetchTimer, abortListener, fetchAborted, answer, metrics>>
      BY <2>3 DEF requestVars
    <3>2. QueryTypes'
      BY <1>0, <2>1, <2>3, <3>1 DEF QueryTypes
    <3>3. RequestsExact' /\ FetchExact'
      BY <1>0, <2>1, <2>3, <3>1 DEF RequestsExact, FetchExact
    <3>4. AnswerExact'
      BY <1>0, <2>1, <2>3, <3>1 DEF AnswerExact
    <3> QED BY <3>2, <3>3, <3>4 DEF QueryInv
  <2>4. CASE ~persist /\ ExecuteRequest("text")
    <3>1. unknownHash' \in BOOLEAN
      BY <1>0, <2>1 DEF QueryTypes
    <3> QED BY <2>1, <2>4, <3>1, RequestKeepsQuery
  <2> QED BY <1>2, <2>2, <2>3, <2>4 DEF QueryStarts
<1>3. CASE Hashed
  <2>1. /\ queryPhase = "hashing" /\ ExecuteRequest("hash") /\ persist /\ requests = <<>>
        /\ UNCHANGED <<persist, pagination, callerAborted, unknownHash>> /\ unknownHash' \in BOOLEAN
    BY <1>0, <1>3 DEF Hashed, RequestsExact, QueryTypes
  <2> QED BY <2>1, RequestKeepsQuery
<1>4. CASE CallerAborts
  <2>1. /\ callerAborted' = TRUE /\ fetchAborted' = (fetchAborted \/ abortListener)
        /\ UNCHANGED <<persist, pagination, queryPhase, requests, fetchTimer, abortListener,
                       unknownHash, answer, metrics>>
    BY <1>4 DEF CallerAborts
  <2>2. QueryTypes'
    BY <1>0, <2>1 DEF QueryTypes
  <2>3. RequestsExact'
    BY <1>0, <2>1 DEF RequestsExact
  <2>4. FetchExact'
    BY <1>0, <2>1 DEF FetchExact
  <2>5. AnswerExact'
    BY <1>0, <2>1 DEF AnswerExact
  <2> QED BY <2>2, <2>3, <2>4, <2>5 DEF QueryInv
<1>5. CASE FetchTimesOut
  <2>1. /\ fetchTimer /\ fetchTimer' = FALSE /\ fetchAborted' = TRUE
        /\ UNCHANGED <<persist, pagination, queryPhase, requests, abortListener, callerAborted,
                       unknownHash, answer, metrics>>
    BY <1>5 DEF FetchTimesOut
  <2>2. QueryTypes'
    BY <1>0, <2>1 DEF QueryTypes
  <2>3. RequestsExact'
    BY <1>0, <2>1 DEF RequestsExact
  <2>4. FetchExact'
    BY <1>0, <2>1 DEF FetchExact
  <2>5. AnswerExact'
    BY <1>0, <2>1 DEF AnswerExact
  <2> QED BY <2>2, <2>3, <2>4, <2>5 DEF QueryInv
<1>6. CASE FetchRejects
  <2> DEFINE how == IF fetchAborted /\ ~callerAborted THEN "timeout"
                    ELSE IF fetchAborted THEN "aborted" ELSE "failed"
  <2>1. /\ queryPhase = "fetching" /\ SettleQuery(how) /\ queryPhase' = "settled" /\ how # "refused"
        /\ fetchTimer' = FALSE /\ abortListener' = FALSE /\ fetchAborted' = fetchAborted
        /\ UNCHANGED <<persist, pagination, requests, callerAborted, unknownHash>>
    BY <1>6 DEF FetchRejects, FetchOver, SettleQuery
  <2>2. QueryTypes'
    BY <1>0, <2>1 DEF QueryTypes
  <2> HIDE DEF how
  <2> QED BY <2>1, <2>2, SettleKeepsQuery
<1>7. ASSUME NEW ok \in BOOLEAN, FetchResponds(ok) PROVE QueryInv'
  <2>1. /\ queryPhase = "fetching" /\ fetchTimer' = FALSE /\ abortListener' = FALSE
        /\ fetchAborted' = fetchAborted
        /\ UNCHANGED <<persist, pagination, requests, callerAborted, unknownHash>>
    BY <1>7 DEF FetchResponds, FetchOver
  <2>2. CASE queryPhase' = "reading" /\ UNCHANGED <<answer, metrics>>
    <3>1. QueryTypes'
      BY <1>0, <2>1, <2>2 DEF QueryTypes
    <3>2. RequestsExact' /\ FetchExact'
      BY <1>0, <2>1, <2>2 DEF RequestsExact, FetchExact
    <3>3. AnswerExact'
      BY <1>0, <2>1, <2>2 DEF AnswerExact
    <3> QED BY <3>1, <3>2, <3>3 DEF QueryInv
  <2>3. CASE SettleQuery("failed")
    <3>1. QueryTypes'
      BY <1>0, <2>1, <2>3 DEF QueryTypes, SettleQuery
    <3> QED BY <2>1, <2>3, <3>1, SettleKeepsQuery
  <2> QED BY <1>7, <2>2, <2>3 DEF FetchResponds
<1>8. ASSUME NEW body \in {"data", "errors", "unknown"}, BodyRead(body) PROVE QueryInv'
  <2>1. /\ queryPhase = "reading" /\ unknownHash' = (unknownHash \/ body = "unknown")
        /\ UNCHANGED <<persist, pagination, callerAborted>>
        /\ ~fetchTimer /\ ~abortListener /\ unknownHash' \in BOOLEAN
    BY <1>0, <1>8 DEF BodyRead, FetchExact
  <2>2. CASE body = "unknown" /\ persist /\ requests = <<"hash">> /\ ExecuteRequest("text")
    BY <2>1, <2>2, RequestKeepsQuery
  <2>3. CASE /\ SettleQuery(IF body = "data" THEN "data" ELSE "failed")
             /\ UNCHANGED <<requests, requestVars>>
    <3> DEFINE how == IF body = "data" THEN "data" ELSE "failed"
    <3>1. /\ SettleQuery(how) /\ how # "refused" /\ queryPhase' = "settled"
          /\ UNCHANGED <<requests, fetchTimer, abortListener, fetchAborted>>
      BY <2>3 DEF SettleQuery, requestVars
    <3>2. QueryTypes'
      BY <1>0, <2>1, <3>1 DEF QueryTypes
    <3> HIDE DEF how
    <3> QED BY <2>1, <3>1, <3>2, SettleKeepsQuery
  <2> QED BY <1>8, <2>2, <2>3 DEF BodyRead
<1>9. CASE UNCHANGED <<persist, pagination, queryPhase, requests, fetchTimer, abortListener,
                       fetchAborted, callerAborted, unknownHash, answer, metrics>>
  BY <1>0, <1>9 DEF QueryInv, QueryTypes, RequestsExact, FetchExact, AnswerExact
<1>10. CASE DestroyIndexer
  BY <1>9, <1>10 DEF DestroyIndexer, requestVars
<1>11. CASE UNCHANGED queryVars
  BY <1>9, <1>11 DEF queryVars
<1> QED BY <1>1, <1>2, <1>3, <1>4, <1>5, <1>6, <1>7, <1>8, <1>10, <1>11 DEF QueryNext

\* GraphQLIndexer.query(): whenever the timer, the caller's abort, the answers and
\* cleanup() come, the text is sent only to a server that does not know its hash,
\* nothing of a fetch outlives it, and one metric says what the caller was told.
THEOREM QueryAlwaysTidy == QuerySpec => []QueryTidy
<1>1. QueryInit => QueryInv
  <2> SUFFICES ASSUME QueryInit PROVE QueryInv
    OBVIOUS
  <2>1. QueryTypes
    BY DEF QueryInit, QueryTypes
  <2>2. RequestsExact
    BY DEF QueryInit, RequestsExact
  <2>3. FetchExact
    BY DEF QueryInit, FetchExact
  <2>4. AnswerExact
    BY DEF QueryInit, AnswerExact
  <2> QED BY <2>1, <2>2, <2>3, <2>4 DEF QueryInv
<1>2. QueryInv => QueryTidy
  <2> SUFFICES ASSUME QueryInv PROVE QueryTidy
    OBVIOUS
  <2>1. persist /\ "text" \in {requests[k] : k \in DOMAIN requests} => unknownHash /\ requests[1] = "hash"
    <3> SUFFICES ASSUME persist, NEW k \in DOMAIN requests, requests[k] = "text"
                 PROVE  unknownHash /\ requests[1] = "hash"
      OBVIOUS
    <3>1. requests # <<>> /\ requests # <<"hash">>
      OBVIOUS
    <3> QED BY <3>1 DEF QueryInv, RequestsExact
  <2>2. Len(requests) <= 2
    BY DEF QueryInv, RequestsExact
  <2>3. ~PagingRefused => PagingVariables = pagination
    BY DEF QueryInv, QueryTypes, PagingRefused, PagingVariables, PagingArgument
  <2>4. /\ queryPhase # "fetching" => ~fetchTimer /\ ~abortListener
        /\ queryPhase = "fetching" => fetchTimer \/ fetchAborted
        /\ callerAborted /\ queryPhase = "fetching" => fetchAborted
    BY DEF QueryInv, FetchExact
  <2>5. /\ queryPhase = "settled" /\ answer # "refused" => metrics = <<answer = "data">>
        /\ queryPhase # "settled" \/ answer = "refused" => metrics = <<>>
    BY DEF QueryInv, AnswerExact
  <2> QED BY <2>1, <2>2, <2>3, <2>4, <2>5 DEF QueryTidy
<1> QED BY <1>1, <1>2, StepKeepsQuery, PTL DEF QuerySpec

=============================================================================
