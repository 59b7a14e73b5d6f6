-------------------------- MODULE WebSocketRelayer --------------------------
(***************************************************************************)
(* The WebSocket relayer of src/relayer/WebSocketRelayer.ts.               *)
(*                                                                         *)
(* The class is a monitor without threads: its asynchronous methods        *)
(* (connect, attemptReconnect, send) suspend at every `await` and are      *)
(* serialised by a hand-made FIFO lock.  A task is one call of such a      *)
(* method, named by what it serves: a Call is a connect() that started a   *)
(* connection, a socket is the reconnection its loss started, a number is  *)
(* the message being sent.  pc[t] is the await at which task t stands.     *)
(*                                                                         *)
(* JavaScript runs the continuations of settled promises before the next   *)
(* socket event or timer; Quiet is that rule.  The application may call    *)
(* the relayer at any time, from such a continuation too.                  *)
(***************************************************************************)
EXTENDS Naturals, Sequences, FiniteSets

CONSTANTS
    Call,                   \* connect() calls in flight at the same time
    Socket,                 \* pool of WebSocket objects, reused once closed
    MsgCount,               \* messages the application sends, 1 .. MsgCount
    MaxReconnectAttempts,   \* options.maxReconnectAttempts
    MaxPendingMessages,     \* options.maxPendingMessages
    ConstructorThrows,      \* whether new WebSocket() throws once the pool is used up
    OfflineTtl,             \* options.offlineBufferTtlMs > 0
    Heartbeat,              \* options.heartbeatIntervalMs > 0
    UserOps,                \* the methods the application uses
    None                    \* JavaScript's null

Msg == 1 .. MsgCount
Task == Call \cup Socket \cup Msg

ASSUME RelayerAssumption ==
    /\ MsgCount \in Nat
    /\ MaxReconnectAttempts \in Nat
    /\ MaxPendingMessages \in Nat \ {0}
    /\ ConstructorThrows \in BOOLEAN
    /\ OfflineTtl \in BOOLEAN
    /\ Heartbeat \in BOOLEAN
    /\ UserOps \subseteq {"connect", "send", "disconnect", "destroy"}
    /\ Call \cap Socket = {}
    /\ (Call \cup Socket) \cap Nat = {}
    /\ None \notin Task

VARIABLES
    ws,                 \* the current socket, or None
    readyState,         \* of every socket
    attached,           \* the event handlers still attached to a socket
    settled,            \* whether a socket's connection promise is settled
    owner,              \* the task that awaits that promise
    pc,                 \* where each task stands
    isLocked, lockQueue,
    isDestroyed, reconnectEnabled, reconnectExhausted, reconnectAttempts,
    connectPromise,     \* the connect() whose promise later ones share
    offlineQueue,
    heartbeatInterval, heartbeatTimeout, awaitingPong,
    stateTransition,    \* the last transition emitted
    accepted,           \* messages handed to send() so far
    wire                \* history: messages written to a socket, in order

socketVars == <<readyState, attached, settled, owner>>
lockVars == <<pc, isLocked, lockQueue>>
flagVars == <<isDestroyed, reconnectEnabled, reconnectExhausted, reconnectAttempts>>
heartbeatVars == <<heartbeatInterval, heartbeatTimeout, awaitingPong>>
msgVars == <<offlineQueue, accepted, wire>>
vars == <<ws, socketVars, lockVars, flagVars, connectPromise, heartbeatVars,
          msgVars, stateTransition>>

Events == {"open", "message", "close", "error"}
ReadyStates == {"connecting", "open", "closing", "closed"}
Transitions == {"connecting", "connected", "disconnected", "reconnecting", "destroyed"}

\* "queued" and "granted" are the two sides of await acquireLock(), "backoff"
\* and "opening" the other awaits under the lock, "settled" a task whose
\* connection promise has settled, "returning" a connect() that released the
\* lock and has not yet cleared connectPromise.
PCs == {"idle", "queued", "granted", "backoff", "opening", "settled", "returning"}

Init ==
    /\ ws = None
    /\ readyState = [s \in Socket |-> "closed"]
    /\ attached = [s \in Socket |-> {}]
    /\ settled = [s \in Socket |-> TRUE]
    /\ owner = [s \in Socket |-> None]
    /\ pc = [t \in Task |-> "idle"]
    /\ isLocked = FALSE
    /\ lockQueue = <<>>
    /\ isDestroyed = FALSE
    /\ reconnectEnabled = TRUE
    /\ reconnectExhausted = FALSE
    /\ reconnectAttempts = 0
    /\ connectPromise = None
    /\ offlineQueue = <<>>
    /\ heartbeatInterval = FALSE
    /\ heartbeatTimeout = FALSE
    /\ awaitingPong = FALSE
    /\ stateTransition = "disconnected"
    /\ accepted = 0
    /\ wire = <<>>

-----------------------------------------------------------------------------
(* Conditions on the state.                                                *)

\* No continuation is ready to run.
Quiet == \A t \in Task : pc[t] \notin {"granted", "settled", "returning"}

IsOpen(w, rs) == w # None /\ rs[w] = "open"
Connected == IsOpen(ws, readyState)

MayReconnect(w) ==
    /\ ~isDestroyed
    /\ reconnectEnabled
    /\ reconnectAttempts < MaxReconnectAttempts
    /\ ~IsOpen(w, readyState)

IsPermanentlyDown(w) ==
    /\ ~isDestroyed
    /\ reconnectEnabled
    /\ reconnectAttempts >= MaxReconnectAttempts
    /\ ~IsOpen(w, readyState)

\* A WebSocket object nothing refers to any more; constructing one takes it.
Free(s) == readyState[s] = "closed" /\ attached[s] = {} /\ pc[s] = "idle" /\ ws # s

-----------------------------------------------------------------------------
(* The lock, and the parts the handlers share.                             *)

\* acquireLock() by the tasks of ts, one after the other, when the tasks
\* otherwise stand at p.
AcquireFrom(p, ts) ==
    LET granted == IF isLocked \/ ts = <<>> THEN {} ELSE {ts[1]}
        waiting == IF granted = {} THEN ts ELSE Tail(ts)
    IN  /\ isLocked' = (isLocked \/ ts # <<>>)
        /\ lockQueue' = lockQueue \o waiting
        /\ pc' = [t \in Task |->
                    IF t \in granted THEN "granted"
                    ELSE IF \E i \in DOMAIN waiting : waiting[i] = t THEN "queued"
                    ELSE p[t]]

\* The positions once the promise of socket s has settled: the task that
\* awaits it can go on.
AfterSettling(s) == IF settled[s] THEN pc ELSE [pc EXCEPT ![owner[s]] = "settled"]

\* A mistake for the runs to notice: the lock is free while it is handed over.
ReleaseAndUnlock(t, p) ==
    /\ isLocked' = FALSE
    /\ pc' = [u \in Task |-> IF u = t THEN p
                             ELSE IF lockQueue # <<>> /\ u = Head(lockQueue) THEN "granted"
                             ELSE pc[u]]
    /\ lockQueue' = IF lockQueue = <<>> THEN <<>> ELSE Tail(lockQueue)

\* releaseLock() by task t, which goes on to p.
Release(t, p) ==
    \/ /\ lockQueue = <<>>
       /\ isLocked' = FALSE
       /\ pc' = [pc EXCEPT ![t] = p]
       /\ UNCHANGED lockQueue
    \/ /\ lockQueue # <<>>
       /\ lockQueue' = Tail(lockQueue)
       /\ pc' = [pc EXCEPT ![t] = p, ![Head(lockQueue)] = "granted"]
       /\ UNCHANGED isLocked

StopHeartbeat ==
    /\ heartbeatInterval' = FALSE
    /\ heartbeatTimeout' = FALSE
    /\ awaitingPong' = FALSE

\* establishConnection() up to its await, for task t.  A constructor that
\* throws rejects the promise and leaves `ws` as it was.
EstablishConnection(t) ==
    \/ \E s \in Socket :
        /\ Free(s)
        /\ ws' = s
        /\ readyState' = [readyState EXCEPT ![s] = "connecting"]
        /\ attached' = [attached EXCEPT ![s] = Events]
        /\ settled' = [settled EXCEPT ![s] = FALSE]
        /\ owner' = [owner EXCEPT ![s] = t]
        /\ pc' = [pc EXCEPT ![t] = "opening"]
        /\ UNCHANGED <<isLocked, lockQueue>>
    \/ /\ ConstructorThrows
       /\ \A s \in Socket : ~Free(s)
       /\ pc' = [pc EXCEPT ![t] = "settled"]
       /\ UNCHANGED <<ws, socketVars, isLocked, lockQueue>>

\* _queueMessage(m): the oldest message makes room.
Queue(m) ==
    offlineQueue' = IF Len(offlineQueue) >= MaxPendingMessages
                    THEN Append(Tail(offlineQueue), m)
                    ELSE Append(offlineQueue, m)

\* What attemptReconnect() and the close handlers do when they give up.
GiveUp(w) ==
    /\ reconnectExhausted' = (reconnectExhausted \/ IsPermanentlyDown(w))
    /\ stateTransition' = "disconnected"

-----------------------------------------------------------------------------
(* connect()                                                               *)

Connect(c) ==
    /\ "connect" \in UserOps
    /\ ~isDestroyed
    /\ reconnectEnabled' = TRUE
    /\ reconnectExhausted' = FALSE
    /\ reconnectAttempts' = 0
    /\ \/ /\ connectPromise # None
          /\ UNCHANGED <<connectPromise, lockVars>>
       \/ /\ connectPromise = None
          /\ pc[c] = "idle"
          /\ connectPromise' = c
          /\ AcquireFrom(pc, <<c>>)
    /\ UNCHANGED <<ws, socketVars, isDestroyed, heartbeatVars, msgVars, stateTransition>>

DoConnect(c) ==
    /\ pc[c] = "granted"
    /\ \/ /\ Connected
          /\ Release(c, "returning")
          /\ UNCHANGED <<ws, socketVars, stateTransition>>
       \/ /\ ~Connected
          /\ stateTransition' = "connecting"
          /\ EstablishConnection(c)
    /\ UNCHANGED <<flagVars, connectPromise, heartbeatVars, msgVars>>

\* The finally blocks of doConnect() and attemptReconnect() once the
\* connection promise has settled.
AfterOpening(t) ==
    /\ pc[t] = "settled"
    /\ Release(t, IF t \in Call THEN "returning" ELSE "idle")
    /\ UNCHANGED <<ws, socketVars, flagVars, connectPromise, heartbeatVars, msgVars,
                   stateTransition>>

ConnectReturns(c) ==
    /\ pc[c] = "returning"
    /\ pc' = [pc EXCEPT ![c] = "idle"]
    /\ connectPromise' = IF connectPromise = c THEN None ELSE connectPromise
    /\ UNCHANGED <<ws, socketVars, isLocked, lockQueue, flagVars, heartbeatVars, msgVars,
                   stateTransition>>

-----------------------------------------------------------------------------
(* attemptReconnect(), started by the loss of socket t                     *)

\* A mistake for the runs to notice: the early return keeps the lock.
ReconnectKeepsLock(t) ==
    /\ pc[t] = "granted"
    /\ \/ /\ MayReconnect(ws)
          /\ reconnectAttempts' = reconnectAttempts + 1
          /\ stateTransition' = "reconnecting"
          /\ pc' = [pc EXCEPT ![t] = "backoff"]
          /\ UNCHANGED reconnectExhausted
       \/ /\ ~MayReconnect(ws)
          /\ GiveUp(ws)
          /\ pc' = [pc EXCEPT ![t] = "idle"]
          /\ UNCHANGED reconnectAttempts
    /\ UNCHANGED <<ws, socketVars, isLocked, lockQueue, isDestroyed, reconnectEnabled,
                   connectPromise, heartbeatVars, msgVars>>

Reconnect(t) ==
    /\ pc[t] = "granted"
    /\ \/ /\ MayReconnect(ws)
          /\ reconnectAttempts' = reconnectAttempts + 1
          /\ stateTransition' = "reconnecting"
          /\ pc' = [pc EXCEPT ![t] = "backoff"]
          /\ UNCHANGED <<isLocked, lockQueue, reconnectExhausted>>
       \/ /\ ~MayReconnect(ws)
          /\ GiveUp(ws)
          /\ Release(t, "idle")
          /\ UNCHANGED reconnectAttempts
    /\ UNCHANGED <<ws, socketVars, isDestroyed, reconnectEnabled, connectPromise,
                   heartbeatVars, msgVars>>

BackoffEnds(t) ==
    /\ Quiet
    /\ pc[t] = "backoff"
    /\ \/ /\ isDestroyed \/ ~reconnectEnabled
          /\ Release(t, "idle")
          /\ UNCHANGED <<ws, socketVars>>
       \/ /\ ~isDestroyed /\ reconnectEnabled
          /\ EstablishConnection(t)
    /\ UNCHANGED <<flagVars, connectPromise, heartbeatVars, msgVars, stateTransition>>

\* A mistake for the runs to notice: giving up is not announced.
LoseConnectionQuietly(s, p) ==
    /\ ws' = None
    /\ StopHeartbeat
    /\ AcquireFrom(p, IF MayReconnect(None) THEN <<s>> ELSE <<>>)
    /\ UNCHANGED <<reconnectExhausted, stateTransition>>

\* The tail of onclose and of handleHeartbeatTimeout for socket s, which leaves
\* the relayer without a current socket; the tasks otherwise stand at p.
LoseConnection(s, p) ==
    /\ ws' = None
    /\ StopHeartbeat
    /\ \/ /\ MayReconnect(None)
          /\ AcquireFrom(p, <<s>>)
          /\ UNCHANGED <<reconnectExhausted, stateTransition>>
       \/ /\ ~MayReconnect(None)
          /\ GiveUp(None)
          /\ AcquireFrom(p, <<>>)

-----------------------------------------------------------------------------
(* Socket events                                                           *)

\* A mistake for the runs to notice: what is flushed stays in the queue.
SocketOpenKeepsQueue(s) ==
    /\ Quiet
    /\ readyState[s] = "connecting" /\ ~settled[s] /\ "open" \in attached[s]
    /\ readyState' = [readyState EXCEPT ![s] = "open"]
    /\ settled' = [settled EXCEPT ![s] = TRUE]
    /\ reconnectAttempts' = 0
    /\ reconnectExhausted' = FALSE
    /\ heartbeatInterval' = Heartbeat
    /\ heartbeatTimeout' = FALSE
    /\ awaitingPong' = FALSE
    /\ AcquireFrom(AfterSettling(s), IF ws = s THEN offlineQueue ELSE <<>>)
    /\ stateTransition' = "connected"
    /\ UNCHANGED <<ws, attached, owner, isDestroyed, reconnectEnabled, connectPromise, msgVars>>

\* onopen.  flushPendingMessages() starts one send() per message that has not
\* expired: each waits for the lock, or is queued again when the socket that
\* opened is no longer the current one.
SocketOpen(s) ==
    /\ Quiet
    /\ readyState[s] = "connecting" /\ ~settled[s] /\ "open" \in attached[s]
    /\ readyState' = [readyState EXCEPT ![s] = "open"]
    /\ settled' = [settled EXCEPT ![s] = TRUE]
    /\ reconnectAttempts' = 0
    /\ reconnectExhausted' = FALSE
    /\ heartbeatInterval' = Heartbeat
    /\ heartbeatTimeout' = FALSE
    /\ awaitingPong' = FALSE
    /\ \E expired \in 0 .. IF OfflineTtl THEN Len(offlineQueue) ELSE 0 :
          LET kept == SubSeq(offlineQueue, expired + 1, Len(offlineQueue))
          IN  \/ /\ IsOpen(ws, readyState')
                 /\ offlineQueue' = <<>>
                 /\ AcquireFrom(AfterSettling(s), kept)
              \/ /\ ~IsOpen(ws, readyState')
                 /\ offlineQueue' = kept
                 /\ AcquireFrom(AfterSettling(s), <<>>)
    /\ stateTransition' = "connected"
    /\ UNCHANGED <<ws, attached, owner, isDestroyed, reconnectEnabled, connectPromise,
                   accepted, wire>>

\* onerror: a handshake that failed or was aborted.  onclose follows as an
\* event of its own, and continuations run between the two.
SocketError(s) ==
    /\ Quiet
    /\ readyState[s] \in {"connecting", "closing"}
    /\ ~settled[s] /\ "error" \in attached[s]
    /\ readyState' = [readyState EXCEPT ![s] = "closing"]
    /\ settled' = [settled EXCEPT ![s] = TRUE]
    /\ AcquireFrom(AfterSettling(s), <<>>)
    /\ UNCHANGED <<ws, attached, owner, flagVars, connectPromise, heartbeatVars, msgVars,
                   stateTransition>>

\* The peer starts the closing handshake of an open socket.
PeerCloses(s) ==
    /\ Quiet
    /\ readyState[s] = "open"
    /\ readyState' = [readyState EXCEPT ![s] = "closing"]
    /\ UNCHANGED <<ws, attached, settled, owner, lockVars, flagVars, connectPromise,
                   heartbeatVars, msgVars, stateTransition>>

\* A mistake for the runs to notice: onclose leaves the promise unsettled.
SocketCloseUnsettled(s) ==
    /\ Quiet
    /\ readyState[s] \in {"connecting", "open", "closing"}
    /\ readyState' = [readyState EXCEPT ![s] = "closed"]
    /\ attached' = [attached EXCEPT ![s] = {}]
    /\ IF "close" \in attached[s] THEN LoseConnection(s, pc)
       ELSE UNCHANGED <<ws, lockVars, reconnectExhausted, heartbeatVars, stateTransition>>
    /\ UNCHANGED <<settled, owner, isDestroyed, reconnectEnabled, reconnectAttempts,
                   connectPromise, msgVars>>

\* The connection ends.  onclose, when attached, clears `ws` whichever socket
\* is current, and starts a reconnection or gives up.
SocketClose(s) ==
    /\ Quiet
    /\ readyState[s] \in {"connecting", "open", "closing"}
    /\ readyState' = [readyState EXCEPT ![s] = "closed"]
    /\ attached' = [attached EXCEPT ![s] = {}]
    /\ \/ /\ "close" \notin attached[s]
          /\ UNCHANGED <<ws, settled, lockVars, reconnectExhausted, heartbeatVars,
                         stateTransition>>
       \/ /\ "close" \in attached[s]
          /\ settled' = [settled EXCEPT ![s] = TRUE]
          /\ LoseConnection(s, AfterSettling(s))
    /\ UNCHANGED <<owner, isDestroyed, reconnectEnabled, reconnectAttempts, connectPromise,
                   msgVars>>

\* onmessage while a pong is awaited: any frame, on any attached socket,
\* counts as one.
Frame(s) ==
    /\ Quiet
    /\ readyState[s] = "open" /\ "message" \in attached[s]
    /\ awaitingPong
    /\ awaitingPong' = FALSE
    /\ heartbeatTimeout' = FALSE
    /\ UNCHANGED <<ws, socketVars, lockVars, flagVars, connectPromise, heartbeatInterval,
                   msgVars, stateTransition>>

-----------------------------------------------------------------------------
(* Heartbeat timers                                                        *)

HeartbeatTick ==
    /\ Quiet
    /\ heartbeatInterval
    /\ Connected /\ ~awaitingPong
    /\ awaitingPong' = TRUE
    /\ heartbeatTimeout' = TRUE
    /\ UNCHANGED <<ws, socketVars, lockVars, flagVars, connectPromise, heartbeatInterval,
                   msgVars, stateTransition>>

\* handleHeartbeatTimeout(): the socket is detached first, as its onclose may
\* never come.
HeartbeatExpires ==
    /\ Quiet
    /\ heartbeatTimeout /\ awaitingPong /\ ws # None
    /\ readyState' = [readyState EXCEPT ![ws] = "closing"]
    /\ attached' = [attached EXCEPT ![ws] = {}]
    /\ \/ /\ isDestroyed
          /\ ws' = None
          /\ StopHeartbeat
          /\ UNCHANGED <<lockVars, reconnectExhausted, stateTransition>>
       \/ /\ ~isDestroyed
          /\ LoseConnection(ws, pc)
    /\ UNCHANGED <<settled, owner, isDestroyed, reconnectEnabled, reconnectAttempts,
                   connectPromise, msgVars>>

-----------------------------------------------------------------------------
(* send()                                                                  *)

\* A mistake for the runs to notice: a connected socket is written to at once.
SendUnlocked(m) ==
    /\ "send" \in UserOps
    /\ m = accepted + 1
    /\ accepted' = m
    /\ IF isDestroyed \/ reconnectExhausted THEN UNCHANGED <<offlineQueue, wire>>
       ELSE IF Connected THEN wire' = Append(wire, m) /\ UNCHANGED offlineQueue
       ELSE Queue(m) /\ UNCHANGED wire
    /\ UNCHANGED <<ws, socketVars, lockVars, flagVars, connectPromise, heartbeatVars,
                   stateTransition>>

Send(m) ==
    /\ "send" \in UserOps
    /\ m = accepted + 1
    /\ accepted' = m
    /\ \/ /\ isDestroyed \/ reconnectExhausted
          /\ UNCHANGED <<offlineQueue, lockVars>>
       \/ /\ ~isDestroyed /\ ~reconnectExhausted /\ ~Connected
          /\ Queue(m)
          /\ UNCHANGED lockVars
       \/ /\ ~isDestroyed /\ ~reconnectExhausted /\ Connected
          /\ AcquireFrom(pc, <<m>>)
          /\ UNCHANGED offlineQueue
    /\ UNCHANGED <<ws, socketVars, flagVars, connectPromise, heartbeatVars, wire,
                   stateTransition>>

SendLocked(m) ==
    /\ pc[m] = "granted"
    /\ \/ /\ isDestroyed \/ reconnectExhausted
          /\ UNCHANGED <<offlineQueue, wire>>
       \/ /\ ~isDestroyed /\ ~reconnectExhausted /\ ~Connected
          /\ Queue(m)
          /\ UNCHANGED wire
       \/ /\ ~isDestroyed /\ ~reconnectExhausted /\ Connected
          /\ wire' = Append(wire, m)
          /\ UNCHANGED offlineQueue
    /\ Release(m, "idle")
    /\ UNCHANGED <<ws, socketVars, flagVars, connectPromise, heartbeatVars, accepted,
                   stateTransition>>

-----------------------------------------------------------------------------
(* disconnect() and destroy()                                              *)

\* A mistake for the runs to notice: the relayer stays exhausted.
DisconnectStaysExhausted ==
    /\ "disconnect" \in UserOps
    /\ reconnectEnabled' = FALSE
    /\ reconnectAttempts' = 0
    /\ connectPromise' = None
    /\ StopHeartbeat
    /\ readyState' = [s \in Socket |->
                        IF s = ws THEN "closing" ELSE readyState[s]]
    /\ ws' = None
    /\ stateTransition' = "disconnected"
    /\ UNCHANGED <<attached, settled, owner, lockVars, isDestroyed, reconnectExhausted, msgVars>>

Disconnect ==
    /\ "disconnect" \in UserOps
    /\ reconnectEnabled' = FALSE
    /\ reconnectAttempts' = 0
    /\ reconnectExhausted' = FALSE
    /\ connectPromise' = None
    /\ StopHeartbeat
    /\ readyState' = [s \in Socket |->
                        IF s = ws THEN "closing" ELSE readyState[s]]
    /\ ws' = None
    /\ stateTransition' = "disconnected"
    /\ UNCHANGED <<attached, settled, owner, lockVars, isDestroyed, msgVars>>

\* The tasks that wait for the lock are forgotten with lockQueue.
Destroy ==
    /\ "destroy" \in UserOps
    /\ isDestroyed' = TRUE
    /\ reconnectEnabled' = FALSE
    /\ reconnectExhausted' = TRUE
    /\ reconnectAttempts' = MaxReconnectAttempts
    /\ connectPromise' = None
    /\ offlineQueue' = <<>>
    /\ StopHeartbeat
    /\ readyState' = [s \in Socket |->
                        IF s = ws THEN "closing" ELSE readyState[s]]
    /\ attached' = [s \in Socket |-> IF s = ws THEN attached[s] \cap {"open"} ELSE attached[s]]
    /\ ws' = None
    /\ stateTransition' = "destroyed"
    /\ isLocked' = FALSE
    /\ lockQueue' = <<>>
    /\ UNCHANGED <<settled, owner, pc, accepted, wire>>

-----------------------------------------------------------------------------
Next ==
    \/ \E c \in Call : Connect(c) \/ DoConnect(c) \/ ConnectReturns(c)
    \/ \E s \in Socket : Reconnect(s) \/ BackoffEnds(s)
    \/ \E t \in Call \cup Socket : AfterOpening(t)
    \/ \E s \in Socket :
          SocketOpen(s) \/ SocketError(s) \/ PeerCloses(s) \/ SocketClose(s) \/ Frame(s)
    \/ HeartbeatTick \/ HeartbeatExpires
    \/ \E m \in Msg : Send(m) \/ SendLocked(m)
    \/ Disconnect \/ Destroy

Spec == Init /\ [][Next]_vars

\* What the platform guarantees: continuations run, a backoff timer fires, a
\* handshake ends and a closing socket closes.  An open socket may stay open.
Fairness ==
    /\ \A c \in Call : WF_vars(DoConnect(c)) /\ WF_vars(ConnectReturns(c))
    /\ \A s \in Socket :
        /\ WF_vars(Reconnect(s))
        /\ WF_vars(BackoffEnds(s))
        /\ WF_vars(SocketOpen(s) \/ SocketError(s) \/ (readyState[s] # "open" /\ SocketClose(s)))
        /\ WF_vars(readyState[s] = "closing" /\ SocketClose(s))
    /\ \A t \in Call \cup Socket : WF_vars(AfterOpening(t))
    /\ \A m \in Msg : WF_vars(SendLocked(m))

FairSpec == Spec /\ Fairness

-----------------------------------------------------------------------------
(* Safety                                                                  *)

\* The types, with the two bounds the code keeps on its counters: attempts
\* never exceed maxReconnectAttempts, the offline queue maxPendingMessages.
TypeOK ==
    /\ ws \in Socket \cup {None}
    /\ readyState \in [Socket -> ReadyStates]
    /\ attached \in [Socket -> SUBSET Events]
    /\ settled \in [Socket -> BOOLEAN]
    /\ owner \in [Socket -> Call \cup Socket \cup {None}]
    /\ pc \in [Task -> PCs]
    /\ isLocked \in BOOLEAN
    /\ lockQueue \in Seq(Task)
    /\ isDestroyed \in BOOLEAN
    /\ reconnectEnabled \in BOOLEAN
    /\ reconnectExhausted \in BOOLEAN
    /\ reconnectAttempts \in 0 .. MaxReconnectAttempts
    /\ connectPromise \in Call \cup {None}
    /\ offlineQueue \in Seq(Msg) /\ Len(offlineQueue) <= MaxPendingMessages
    /\ heartbeatInterval \in BOOLEAN
    /\ heartbeatTimeout \in BOOLEAN
    /\ awaitingPong \in BOOLEAN
    /\ stateTransition \in Transitions
    /\ accepted \in 0 .. MsgCount
    /\ wire \in Seq(Msg)

Holds(t) == pc[t] \in {"granted", "backoff", "opening", "settled"}
Waiting == {lockQueue[i] : i \in DOMAIN lockQueue}

\* acquireLock/releaseLock exclude one another: at most one task is between
\* them, even though destroy() resets the lock under the task that holds it.
LockExclusion == \A t, u \in Task : Holds(t) /\ Holds(u) => t = u

\* No task is forgotten: until destroy(), the lock is taken exactly while some
\* task holds it, and every task that waits for it is queued, once.
LockQueueExact ==
    ~isDestroyed =>
        /\ isLocked <=> \E t \in Task : Holds(t)
        /\ lockQueue # <<>> => isLocked
        /\ \A t \in Task : pc[t] = "queued" <=> t \in Waiting
        /\ \A i, j \in DOMAIN lockQueue : lockQueue[i] = lockQueue[j] => i = j

\* A message is never left in the offline queue of a relayer that is connected:
\* send() queues only while the socket is down and onopen flushes everything.
NothingStranded == Connected => offlineQueue = <<>>

Idle == Quiet /\ \A t \in Task : ~Holds(t)

\* The relayer never goes silent half way: when the application was last told
\* of a connection or an attempt, the relayer is connected, at work, or will
\* still hear the close of a socket.
NeverSilent ==
    /\ Idle /\ ~Connected /\ ~isDestroyed
    /\ stateTransition \in {"connecting", "connected", "reconnecting"}
    => \E s \in Socket : "close" \in attached[s]

\* send() refuses messages only when the relayer really is down for good:
\* reconnectExhausted, which late events also touch, never survives an open
\* connection, a new connect() or a disconnect().
ExhaustedMeansDown ==
    reconnectExhausted /\ ~isDestroyed =>
        /\ reconnectEnabled
        /\ reconnectAttempts = MaxReconnectAttempts
        /\ ~Connected

\* What send() does with a message: it is kept for a connection to come, as long
\* as there is room, or refused for good, and neither when the relayer is up.
SendTruthful ==
    /\ NothingStranded
    /\ ExhaustedMeansDown
    /\ Len(offlineQueue) <= MaxPendingMessages

\* Messages reach the wire in the order the application sent them, although
\* each passes the offline queue or the lock queue, or both in turn.
WireInOrder == \A i, j \in DOMAIN wire : i < j => wire[i] < wire[j]

\* The relayer implements a channel that may lose messages but neither repeats
\* nor invents them.
Channel == INSTANCE MessageChannel WITH
    fresh <- (accepted + 1) .. MsgCount,
    pending <- {m \in Msg : pc[m] # "idle" \/ \E i \in DOMAIN offlineQueue : offlineQueue[i] = m}

ImplementsChannel == Channel!ChannelSpec

-----------------------------------------------------------------------------
(* Liveness                                                                *)

\* Every connect() returns and every send() returns: no task waits for ever
\* for the lock or for a socket.
CallsReturn == \A t \in Call \cup Msg : pc[t] # "idle" ~> pc[t] = "idle"

-----------------------------------------------------------------------------
(* What the comments of the source say, which the code does not keep.      *)

\* shouldAttemptReconnect(): "only reconnect if not already connected or
\* reconnecting".  A late onclose of an older socket clears `ws`, and the
\* relayer opens a second socket beside one that is open.
ReconnectOnlyWhenDown ==
    [][\A t \in Socket :
        pc[t] = "backoff" /\ pc'[t] = "opening" =>
            \A s \in Socket : readyState[s] = "open" => attached[s] = {}]_vars

\* handleHeartbeatTimeout(): "drive the reconnect ourselves instead of waiting
\* on" the dead socket.  A timeout left over from an older socket detaches one
\* that is still connecting, whose connect() then never returns.
ConnectReturnsWithHeartbeat == \A c \in Call : pc[c] # "idle" ~> pc[c] = "idle"
=============================================================================
