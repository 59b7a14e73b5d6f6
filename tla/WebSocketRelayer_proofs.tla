---------------------- MODULE WebSocketRelayer_proofs -----------------------
(***************************************************************************)
(* The hand-made lock of the relayer is a lock, for any number of calls,   *)
(* sockets and messages and all bounds: its state is well typed, at most   *)
(* one task is inside, and until destroy() no task that waits is lost.     *)
(*                                                                         *)
(* The invariant has three parts.  LockOK speaks of the lock alone.        *)
(* SocketOK ties the tasks to the sockets: a promise settles only for the  *)
(* task inside that awaits it, and a socket whose loss may still be        *)
(* noticed has not started its reconnection.  MessageOK ties them to the   *)
(* messages: what is queued offline is not being sent.                     *)
(***************************************************************************)
EXTENDS WebSocketRelayer, SequenceTheorems, TLAPS

LockOK ==
    /\ LockExclusion
    /\ ~isDestroyed => (isLocked <=> \E t \in Task : Holds(t))
    /\ lockQueue # <<>> => isLocked /\ ~isDestroyed
    /\ \A i \in DOMAIN lockQueue : pc[lockQueue[i]] = "queued"
    /\ \A i, j \in DOMAIN lockQueue : lockQueue[i] = lockQueue[j] => i = j
    /\ ~isDestroyed => \A t \in Task : pc[t] = "queued" => t \in Waiting

SocketOK ==
    /\ \A s \in Socket : attached[s] # {} => pc[s] = "idle"
    /\ ws # None => attached[ws] = Events
    /\ \A s \in Socket : ~settled[s] => owner[s] \in Call \cup Socket /\ pc[owner[s]] = "opening"
    /\ \A s, u \in Socket : ~settled[s] /\ ~settled[u] => s = u

MessageOK ==
    /\ isDestroyed => offlineQueue = <<>>
    /\ \A i, j \in DOMAIN offlineQueue : offlineQueue[i] = offlineQueue[j] => i = j
    /\ \A i \in DOMAIN offlineQueue : pc[offlineQueue[i]] = "idle" /\ offlineQueue[i] <= accepted
    /\ \A m \in Msg : m > accepted => pc[m] = "idle"

\* TypeOK in four parts, as most actions disturb only one or two of them.
SocketTypes ==
    /\ ws \in Socket \cup {None}
    /\ readyState \in [Socket -> ReadyStates]
    /\ attached \in [Socket -> SUBSET Events]
    /\ settled \in [Socket -> BOOLEAN]
    /\ owner \in [Socket -> Call \cup Socket \cup {None}]

LockTypes == pc \in [Task -> PCs] /\ isLocked \in BOOLEAN /\ lockQueue \in Seq(Task)

FlagTypes ==
    /\ isDestroyed \in BOOLEAN /\ reconnectEnabled \in BOOLEAN /\ reconnectExhausted \in BOOLEAN
    /\ connectPromise \in Call \cup {None} /\ stateTransition \in Transitions
    /\ heartbeatInterval \in BOOLEAN /\ heartbeatTimeout \in BOOLEAN /\ awaitingPong \in BOOLEAN

CountTypes ==
    /\ reconnectAttempts \in 0 .. MaxReconnectAttempts
    /\ offlineQueue \in Seq(Msg) /\ Len(offlineQueue) <= MaxPendingMessages
    /\ accepted \in 0 .. MsgCount
    /\ wire \in Seq(Msg)

RelayerInv == TypeOK /\ LockOK /\ SocketOK /\ MessageOK

USE RelayerAssumption

Holding == {"granted", "backoff", "opening", "settled"}

-----------------------------------------------------------------------------
(* The lock                                                                *)

\* acquireLock() by tasks that are not yet in the lock's hands keeps it exact,
\* also when the same handler has just settled a connection promise.
LEMMA AcquireKeepsLock ==
  ASSUME LockOK, lockQueue \in Seq(Task), isLocked \in BOOLEAN, pc \in [Task -> PCs],
         NEW p \in [Task -> PCs],
         \A t \in Task : p[t] # pc[t] => pc[t] \in Holding /\ p[t] \in Holding,
         NEW ts \in Seq(Task),
         ts # <<>> => ~isDestroyed,
         \A i, j \in DOMAIN ts : ts[i] = ts[j] => i = j,
         \A i \in DOMAIN ts : pc[ts[i]] = "idle",
         AcquireFrom(p, ts), isDestroyed' = isDestroyed
  PROVE  LockOK' /\ lockQueue' \in Seq(Task) /\ isLocked' \in BOOLEAN /\ pc' \in [Task -> PCs]
<1> DEFINE granted == IF isLocked \/ ts = <<>> THEN {} ELSE {ts[1]}
           waiting == IF granted = {} THEN ts ELSE Tail(ts)
<1>1. waiting \in Seq(Task) /\ granted \subseteq Task
  OBVIOUS
<1>0. \/ granted = {} /\ waiting = ts
      \/ /\ granted = {ts[1]} /\ ts # <<>> /\ ~isLocked
         /\ 1 \in DOMAIN ts
         /\ \A i \in DOMAIN waiting : i \in Nat /\ i # 0 /\ i + 1 \in DOMAIN ts
                                      /\ waiting[i] = ts[i + 1]
  <2>1. CASE isLocked \/ ts = <<>>
    BY <2>1
  <2>2. CASE ~(isLocked \/ ts = <<>>)
    <3>1. granted = {ts[1]} /\ waiting = Tail(ts)
      BY <2>2
    <3>2. 1 \in DOMAIN ts
      BY <2>2
    <3>3. \A i \in DOMAIN Tail(ts) : i \in Nat /\ i # 0 /\ i + 1 \in DOMAIN ts
                                     /\ Tail(ts)[i] = ts[i + 1]
      BY <2>2
    <3> QED BY <2>2, <3>1, <3>2, <3>3
  <2> QED BY <2>1, <2>2
<1>2. /\ isLocked' = (isLocked \/ ts # <<>>)
      /\ lockQueue' = lockQueue \o waiting
      /\ pc' = [t \in Task |-> IF t \in granted THEN "granted"
                               ELSE IF \E i \in DOMAIN waiting : waiting[i] = t THEN "queued"
                               ELSE p[t]]
  BY DEF AcquireFrom
<1>9. granted # {} => ~isLocked /\ ~isDestroyed /\ \A t \in Task : pc[t] \notin Holding
  BY DEF LockOK, Holds, Holding
<1>18. ts # <<>> => granted # {} \/ isLocked
  OBVIOUS
<1> HIDE DEF granted, waiting
<1>3. lockQueue' \in Seq(Task) /\ isLocked' \in BOOLEAN /\ pc' \in [Task -> PCs]
  BY <1>1, <1>2 DEF PCs
<1>4. \A t \in Task : p[t] \in Holding <=> pc[t] \in Holding
  OBVIOUS
<1>5. \A i \in DOMAIN waiting : waiting[i] \in Task /\ pc[waiting[i]] = "idle"
  BY <1>0, <1>1
<1>6. \A i, j \in DOMAIN waiting : waiting[i] = waiting[j] => i = j
  <2>1. CASE waiting = ts
    BY <2>1
  <2>2. CASE \A i \in DOMAIN waiting : i \in Nat /\ i # 0 /\ i + 1 \in DOMAIN ts
                                       /\ waiting[i] = ts[i + 1]
    <3> SUFFICES ASSUME NEW i \in DOMAIN waiting, NEW j \in DOMAIN waiting,
                        waiting[i] = waiting[j]
                 PROVE  i = j
      OBVIOUS
    <3>1. i + 1 = j + 1
      BY <2>2
    <3> QED BY <2>2, <3>1
  <2> QED BY <1>0, <2>1, <2>2
<1>7. \A t \in granted : pc[t] = "idle" /\ \A i \in DOMAIN waiting : waiting[i] # t
  <2> SUFFICES ASSUME NEW t \in granted
               PROVE  pc[t] = "idle" /\ \A i \in DOMAIN waiting : waiting[i] # t
    OBVIOUS
  <2>1. /\ t = ts[1] /\ 1 \in DOMAIN ts
        /\ \A i \in DOMAIN waiting : i \in Nat /\ i # 0 /\ i + 1 \in DOMAIN ts
                                     /\ waiting[i] = ts[i + 1]
    BY <1>0
  <2>2. \A i \in DOMAIN waiting : i + 1 # 1
    BY <2>1
  <2> QED BY <2>1, <2>2
<1>8. \A t \in Task : pc'[t] \in Holding <=> pc[t] \in Holding \/ t \in granted
  BY <1>2, <1>4, <1>5 DEF Holding
<1>10. \A i \in DOMAIN lockQueue :
          /\ lockQueue[i] \in Task /\ pc[lockQueue[i]] = "queued"
          /\ lockQueue[i] \notin granted
          /\ \A j \in DOMAIN waiting : waiting[j] # lockQueue[i]
  BY <1>5, <1>7 DEF LockOK
<1>11. /\ DOMAIN lockQueue' = 1 .. Len(lockQueue) + Len(waiting)
       /\ waiting = <<>> => lockQueue' = lockQueue
       /\ \A i \in DOMAIN lockQueue' :
            \/ i \in DOMAIN lockQueue /\ lockQueue'[i] = lockQueue[i]
            \/ i - Len(lockQueue) \in DOMAIN waiting /\ lockQueue'[i] = waiting[i - Len(lockQueue)]
       /\ \A i \in DOMAIN lockQueue : i \in DOMAIN lockQueue' /\ lockQueue'[i] = lockQueue[i]
       /\ \A i \in DOMAIN waiting : Len(lockQueue) + i \in DOMAIN lockQueue'
                                    /\ lockQueue'[Len(lockQueue) + i] = waiting[i]
  BY <1>1, <1>2
<1>12. LockExclusion'
  BY <1>0, <1>8, <1>9 DEF LockOK, LockExclusion, Holds, Holding
<1>13. ~isDestroyed' => (isLocked' <=> \E t \in Task : pc'[t] \in Holding)
  BY <1>0, <1>1, <1>2, <1>8, <1>18 DEF LockOK, Holds, Holding
<1>14. lockQueue' # <<>> => isLocked' /\ ~isDestroyed'
  <2>1. ts = <<>> => waiting = <<>>
    BY <1>0
  <2>2. CASE lockQueue # <<>>
    BY <1>2, <2>2 DEF LockOK
  <2>3. CASE lockQueue = <<>>
    BY <1>2, <1>11, <2>1, <2>3
  <2> QED BY <2>2, <2>3
<1>15. \A i \in DOMAIN lockQueue' : pc'[lockQueue'[i]] = "queued"
  <2> SUFFICES ASSUME NEW i \in DOMAIN lockQueue' PROVE pc'[lockQueue'[i]] = "queued"
    OBVIOUS
  <2>1. CASE i \in DOMAIN lockQueue /\ lockQueue'[i] = lockQueue[i]
    <3>1. p[lockQueue[i]] = "queued"
      BY <1>10, <2>1 DEF Holding
    <3> QED BY <1>2, <1>10, <2>1, <3>1
  <2>2. CASE i - Len(lockQueue) \in DOMAIN waiting /\ lockQueue'[i] = waiting[i - Len(lockQueue)]
    BY <1>2, <1>5, <1>7, <2>2
  <2> QED BY <1>11, <2>1, <2>2
<1>16. \A i, j \in DOMAIN lockQueue' : lockQueue'[i] = lockQueue'[j] => i = j
  <2> SUFFICES ASSUME NEW i \in DOMAIN lockQueue', NEW j \in DOMAIN lockQueue',
                      lockQueue'[i] = lockQueue'[j]
               PROVE  i = j
    OBVIOUS
  <2>1. i \in Nat /\ j \in Nat /\ Len(lockQueue) \in Nat
    BY <1>1, <1>11
  <2>2. CASE i \in DOMAIN lockQueue /\ lockQueue'[i] = lockQueue[i]
    <3>1. ASSUME j - Len(lockQueue) \in DOMAIN waiting, lockQueue'[j] = waiting[j - Len(lockQueue)]
          PROVE  FALSE
      <4>1. waiting[j - Len(lockQueue)] = lockQueue[i]
        BY <2>2, <3>1
      <4> QED BY <1>10, <2>2, <3>1, <4>1
    <3>2. j \in DOMAIN lockQueue /\ lockQueue'[j] = lockQueue[j]
      BY <1>11, <3>1
    <3> QED BY <2>2, <3>2 DEF LockOK
  <2>3. CASE i - Len(lockQueue) \in DOMAIN waiting /\ lockQueue'[i] = waiting[i - Len(lockQueue)]
    <3>3. ASSUME j \in DOMAIN lockQueue, lockQueue'[j] = lockQueue[j] PROVE FALSE
      <4>1. waiting[i - Len(lockQueue)] = lockQueue[j]
        BY <2>3, <3>3
      <4> QED BY <1>10, <2>3, <3>3, <4>1
    <3>1. j - Len(lockQueue) \in DOMAIN waiting /\ lockQueue'[j] = waiting[j - Len(lockQueue)]
      BY <1>11, <3>3
    <3>2. i - Len(lockQueue) = j - Len(lockQueue)
      BY <1>6, <2>3, <3>1
    <3> QED BY <2>1, <3>2
  <2> QED BY <1>11, <2>2, <2>3
<1>17. ~isDestroyed' => \A t \in Task : pc'[t] = "queued" => t \in Waiting'
  <2> SUFFICES ASSUME ~isDestroyed, NEW t \in Task, pc'[t] = "queued" PROVE t \in Waiting'
    OBVIOUS
  <2>1. CASE \E i \in DOMAIN waiting : waiting[i] = t
    BY <1>11, <2>1 DEF Waiting
  <2>2. CASE ~\E i \in DOMAIN waiting : waiting[i] = t
    <3>1. pc[t] = "queued"
      BY <1>2, <2>2 DEF Holding
    <3>2. t \in Waiting
      BY <3>1 DEF LockOK
    <3> QED BY <1>11, <3>2 DEF Waiting
  <2> QED BY <2>1, <2>2
<1> QED
  BY <1>3, <1>12, <1>13, <1>14, <1>15, <1>16, <1>17 DEF LockOK, Holds, Holding

\* What acquireLock() does to the tasks: only those of ts move.
LEMMA AcquireMoves ==
  ASSUME NEW p, NEW ts \in Seq(Task), AcquireFrom(p, ts)
  PROVE  /\ \A t \in Task : pc'[t] = p[t] \/ \E i \in DOMAIN ts : ts[i] = t
         /\ ts = <<>> => \A t \in Task : pc'[t] = p[t]
<1> DEFINE granted == IF isLocked \/ ts = <<>> THEN {} ELSE {ts[1]}
           waiting == IF granted = {} THEN ts ELSE Tail(ts)
<1>1. pc' = [t \in Task |-> IF t \in granted THEN "granted"
                            ELSE IF \E i \in DOMAIN waiting : waiting[i] = t THEN "queued"
                            ELSE p[t]]
  BY DEF AcquireFrom
<1>2. \A t \in granted : \E i \in DOMAIN ts : ts[i] = t
  <2>1. ts # <<>> => 1 \in DOMAIN ts
    OBVIOUS
  <2> QED BY <2>1
<1>3. \A i \in DOMAIN waiting : \E j \in DOMAIN ts : ts[j] = waiting[i]
  <2>1. CASE granted = {}
    BY <2>1
  <2>2. CASE granted # {}
    <3>1. waiting = Tail(ts) /\ ts # <<>>
      BY <2>2
    <3>2. \A i \in DOMAIN Tail(ts) : i + 1 \in DOMAIN ts /\ Tail(ts)[i] = ts[i + 1]
      BY <3>1
    <3> QED BY <3>1, <3>2
  <2> QED BY <2>1, <2>2
<1> HIDE DEF granted, waiting
<1>4. \A t \in Task : pc'[t] = p[t] \/ \E i \in DOMAIN ts : ts[i] = t
  BY <1>1, <1>2, <1>3
<1> QED BY <1>4

\* releaseLock() by the task inside keeps the lock exact: the first task that
\* waits, if there is one, is inside next.
LEMMA ReleaseKeepsLock ==
  ASSUME LockOK, lockQueue \in Seq(Task), isLocked \in BOOLEAN, pc \in [Task -> PCs],
         NEW t \in Task, Holds(t), NEW q \in {"idle", "returning"},
         Release(t, q), isDestroyed' = isDestroyed
  PROVE  /\ LockOK' /\ lockQueue' \in Seq(Task) /\ isLocked' \in BOOLEAN /\ pc' \in [Task -> PCs]
         /\ pc'[t] = q
         /\ \A u \in Task : u # t => pc'[u] = pc[u] \/ (pc[u] = "queued" /\ pc'[u] = "granted")
<1>0. pc[t] \in Holding /\ \A u \in Task : pc[u] \in Holding => u = t
  BY DEF LockOK, LockExclusion, Holds, Holding
<1>1. CASE lockQueue = <<>>
  <2>1. isLocked' = FALSE /\ lockQueue' = <<>> /\ pc' = [pc EXCEPT ![t] = q]
    BY <1>1 DEF Release
  <2>2. pc' \in [Task -> PCs] /\ pc'[t] = q /\ \A u \in Task : u # t => pc'[u] = pc[u]
    BY <2>1 DEF PCs
  <2>3. \A u \in Task : pc'[u] \notin Holding
    BY <1>0, <2>2 DEF Holding
  <2>4. ~isDestroyed => \A u \in Task : pc'[u] # "queued"
    BY <1>1, <2>2 DEF LockOK, Waiting
  <2>5. DOMAIN lockQueue' = {}
    BY <2>1
  <2>6. LockExclusion'
    BY <2>3 DEF LockExclusion, Holds, Holding
  <2>7. LockOK'
    BY <2>1, <2>3, <2>4, <2>5, <2>6 DEF LockOK, Holds, Holding
  <2>8. lockQueue' \in Seq(Task)
    BY <1>1, <2>1
  <2>9. isLocked' \in BOOLEAN
    BY <2>1
  <2> QED BY <2>2, <2>7, <2>8, <2>9
<1>2. CASE lockQueue # <<>>
  <2> DEFINE h == Head(lockQueue)
  <2>1. /\ isLocked' = isLocked /\ lockQueue' = Tail(lockQueue)
        /\ pc' = [pc EXCEPT ![t] = q, ![h] = "granted"]
    BY <1>2 DEF Release
  <2>2. /\ 1 \in DOMAIN lockQueue /\ h = lockQueue[1] /\ lockQueue' \in Seq(Task)
        /\ \A i \in DOMAIN lockQueue' : /\ i \in Nat /\ i # 0 /\ i + 1 \in DOMAIN lockQueue
                                        /\ lockQueue'[i] = lockQueue[i + 1]
        /\ \A i \in DOMAIN lockQueue : i # 1 => i - 1 \in DOMAIN lockQueue'
                                                /\ lockQueue'[i - 1] = lockQueue[i]
    BY <1>2, <2>1
  <2>3. h \in Task /\ pc[h] = "queued" /\ h # t
    BY <1>0, <2>2 DEF LockOK, Holding
  <2> HIDE DEF h
  <2>4. /\ pc' \in [Task -> PCs] /\ pc'[t] = q /\ pc'[h] = "granted"
        /\ \A u \in Task : u # t /\ u # h => pc'[u] = pc[u]
    BY <2>1, <2>3 DEF PCs
  <2>5. \A u \in Task : pc'[u] \in Holding <=> u = h
    BY <1>0, <2>3, <2>4 DEF Holding
  <2>6. isLocked /\ ~isDestroyed
    BY <1>2 DEF LockOK
  <2>7. \A i \in DOMAIN lockQueue' : lockQueue'[i] # h
    <3> SUFFICES ASSUME NEW i \in DOMAIN lockQueue', lockQueue'[i] = h PROVE FALSE
      OBVIOUS
    <3>1. i + 1 = 1
      BY <2>2 DEF LockOK
    <3> QED BY <2>2, <3>1
  <2>8. \A i \in DOMAIN lockQueue' : pc'[lockQueue'[i]] = "queued"
    <3> SUFFICES ASSUME NEW i \in DOMAIN lockQueue' PROVE pc'[lockQueue'[i]] = "queued"
      OBVIOUS
    <3>1. lockQueue'[i] \in Task /\ pc[lockQueue'[i]] = "queued"
      BY <2>2 DEF LockOK
    <3>2. lockQueue'[i] # t
      BY <1>0, <3>1 DEF Holding
    <3> QED BY <2>4, <2>7, <3>1, <3>2
  <2>9. \A i, j \in DOMAIN lockQueue' : lockQueue'[i] = lockQueue'[j] => i = j
    <3> SUFFICES ASSUME NEW i \in DOMAIN lockQueue', NEW j \in DOMAIN lockQueue',
                        lockQueue'[i] = lockQueue'[j]
                 PROVE  i = j
      OBVIOUS
    <3>1. i + 1 = j + 1
      BY <2>2 DEF LockOK
    <3> QED BY <2>2, <3>1
  <2>10. \A u \in Task : pc'[u] = "queued" => u \in Waiting'
    <3> SUFFICES ASSUME NEW u \in Task, pc'[u] = "queued" PROVE u \in Waiting'
      OBVIOUS
    <3>1. u # h /\ u # t /\ pc[u] = "queued"
      BY <2>4
    <3>2. PICK i \in DOMAIN lockQueue : lockQueue[i] = u
      BY <2>6, <3>1 DEF LockOK, Waiting
    <3>3. i # 1
      BY <2>2, <3>1, <3>2
    <3> QED BY <2>2, <3>2, <3>3 DEF Waiting
  <2>11. LockExclusion'
    BY <2>5 DEF LockExclusion, Holds, Holding
  <2>12. isLocked' /\ ~isDestroyed' /\ \E u \in Task : pc'[u] \in Holding
    BY <2>1, <2>3, <2>5, <2>6
  <2>13. LockOK'
    BY <2>8, <2>9, <2>10, <2>11, <2>12 DEF LockOK, Holds, Holding
  <2>14. isLocked' \in BOOLEAN
    BY <2>1
  <2> QED BY <2>2, <2>3, <2>4, <2>13, <2>14
<1> QED BY <1>1, <1>2

\* A task that stays inside, or that is in none of the lock's hands before and
\* after, leaves the lock as it is.
LEMMA MoveKeepsLock ==
  ASSUME LockOK, pc \in [Task -> PCs], NEW t \in Task, NEW q \in PCs,
         \/ pc[t] \in Holding /\ q \in Holding
         \/ pc[t] = "returning" /\ q = "idle",
         pc' = [pc EXCEPT ![t] = q],
         UNCHANGED <<isLocked, lockQueue, isDestroyed>>
  PROVE  LockOK' /\ pc' \in [Task -> PCs]
<1>1. pc' \in [Task -> PCs] /\ pc'[t] = q /\ \A u \in Task : u # t => pc'[u] = pc[u]
  OBVIOUS
<1>2. \A u \in Task : pc'[u] \in Holding <=> pc[u] \in Holding
  BY <1>1 DEF Holding
<1>3. \A u \in Task : pc'[u] = "queued" <=> pc[u] = "queued"
  BY <1>1 DEF Holding
<1>4. LockExclusion'
  BY <1>2 DEF LockOK, LockExclusion, Holds, Holding
<1>5. ~isDestroyed' => (isLocked' <=> \E u \in Task : pc'[u] \in Holding)
  BY <1>2 DEF LockOK, Holds, Holding
<1>6. \A i \in DOMAIN lockQueue' : pc'[lockQueue'[i]] = "queued"
  BY <1>1, <1>3 DEF LockOK, Holding
<1>7. ~isDestroyed' => \A u \in Task : pc'[u] = "queued" => u \in Waiting'
  BY <1>3 DEF LockOK, Waiting
<1> QED BY <1>1, <1>4, <1>5, <1>6, <1>7 DEF LockOK, Holds, Holding

-----------------------------------------------------------------------------
(* The parts the actions share                                             *)

\* The parts together are the type invariant, before a step and after it.
LEMMA TypeParts ==
  /\ TypeOK <=> SocketTypes /\ LockTypes /\ FlagTypes /\ CountTypes
  /\ TypeOK' <=> SocketTypes' /\ LockTypes' /\ FlagTypes' /\ CountTypes'
  BY DEF TypeOK, SocketTypes, LockTypes, FlagTypes, CountTypes

\* Both ends of the range of reconnectAttempts.
LEMMA Zero == {0, MaxReconnectAttempts} \subseteq 0 .. MaxReconnectAttempts
  OBVIOUS

\* What a step owes to the parts of the invariant whose variables it leaves
\* alone.
LEMMA UndisturbedSocketTypes ==
  ASSUME SocketTypes, UNCHANGED <<ws, socketVars>> PROVE SocketTypes'
  BY DEF SocketTypes, socketVars

LEMMA UndisturbedCountTypes ==
  ASSUME CountTypes, UNCHANGED <<reconnectAttempts, msgVars>> PROVE CountTypes'
  BY DEF CountTypes, msgVars

LEMMA UndisturbedLock ==
  ASSUME LockOK, UNCHANGED <<lockVars, isDestroyed>> PROVE LockOK'
<1> USE DEF lockVars
<1>1. LockExclusion'
  BY DEF LockOK, LockExclusion, Holds
<1>2. Waiting' = Waiting
  BY DEF Waiting
<1>3. \A t \in Task : Holds(t)' <=> Holds(t)
  BY DEF Holds
<1> QED BY <1>1, <1>2, <1>3 DEF LockOK

\* The relayer starts with a free lock, closed sockets and no messages.
LEMMA InitInv == Init => RelayerInv
<1> SUFFICES ASSUME Init PROVE RelayerInv
  OBVIOUS
<1>1. TypeOK
  <2>1. CountTypes
    BY DEF Init, CountTypes
  <2>2. LockTypes
    <3>1. lockQueue \in Seq(Task) /\ pc \in [Task -> PCs]
      BY DEF Init, PCs
    <3>2. isLocked \in BOOLEAN
      BY DEF Init
    <3> QED BY <3>1, <3>2 DEF LockTypes
  <2>3. SocketTypes
    BY DEF Init, SocketTypes, ReadyStates
  <2>4. FlagTypes
    BY DEF Init, FlagTypes, Transitions
  <2> QED BY <2>1, <2>2, <2>3, <2>4, TypeParts
<1>2. LockOK
  BY DEF Init, LockOK, LockExclusion, Holds, Waiting
<1>3. SocketOK
  BY DEF Init, SocketOK
<1>4. MessageOK
  BY DEF Init, MessageOK, Task
<1> QED BY <1>1, <1>2, <1>3, <1>4 DEF RelayerInv

\* Messages are tasks of their own, apart from calls and sockets.
LEMMA Tasks ==
  /\ Call \subseteq Task /\ Socket \subseteq Task /\ Msg \subseteq Task
  /\ \A m \in Msg : m \in Nat /\ m \notin Call \cup Socket
  BY DEF Task, Msg

\* Settling a promise moves at most its owner, from one await inside the lock
\* to the next, and then no other promise is pending.
LEMMA SettlingMoves ==
  ASSUME RelayerInv, NEW s \in Socket
  PROVE  /\ AfterSettling(s) \in [Task -> PCs]
         /\ \A t \in Task : \/ AfterSettling(s)[t] = pc[t]
                            \/ pc[t] = "opening" /\ AfterSettling(s)[t] = "settled"
         /\ \A u \in Socket : ~settled[u] /\ u # s => AfterSettling(s)[owner[u]] = "opening"
<1>1. CASE settled[s]
  BY <1>1 DEF AfterSettling, RelayerInv, TypeOK, SocketOK
<1>2. CASE ~settled[s]
  <2>1. owner[s] \in Task /\ pc[owner[s]] = "opening"
    BY <1>2, Tasks DEF RelayerInv, SocketOK
  <2>2. \A u \in Socket : ~settled[u] => u = s
    BY <1>2 DEF RelayerInv, SocketOK
  <2> QED BY <1>2, <2>1, <2>2 DEF AfterSettling, RelayerInv, TypeOK, PCs
<1> QED BY <1>1, <1>2

\* The flush of onopen: the task inside goes on and the kept messages queue up
\* for the lock; without messages only the former happens.
LEMMA AcquireAfterSettling ==
  ASSUME RelayerInv, NEW s \in Socket, NEW ts \in Seq(Task),
         ts # <<>> => ~isDestroyed,
         \A i, j \in DOMAIN ts : ts[i] = ts[j] => i = j,
         \A i \in DOMAIN ts : pc[ts[i]] = "idle",
         AcquireFrom(AfterSettling(s), ts), isDestroyed' = isDestroyed
  PROVE  /\ LockOK' /\ lockQueue' \in Seq(Task) /\ isLocked' \in BOOLEAN /\ pc' \in [Task -> PCs]
         /\ \A t \in Task : pc[t] = "idle" /\ (\A i \in DOMAIN ts : ts[i] # t) => pc'[t] = "idle"
         /\ \A u \in Socket : ~settled[u] /\ u # s => pc'[owner[u]] = "opening"
<1>1. /\ AfterSettling(s) \in [Task -> PCs]
      /\ \A t \in Task : AfterSettling(s)[t] # pc[t] =>
            pc[t] \in Holding /\ AfterSettling(s)[t] \in Holding
  BY SettlingMoves DEF Holding
<1>2. LockOK' /\ lockQueue' \in Seq(Task) /\ isLocked' \in BOOLEAN /\ pc' \in [Task -> PCs]
  BY <1>1, AcquireKeepsLock DEF RelayerInv, TypeOK
<1>3. \A t \in Task : pc'[t] = AfterSettling(s)[t] \/ \E i \in DOMAIN ts : ts[i] = t
  BY AcquireMoves
<1>4. \A t \in Task : pc[t] = "idle" /\ (\A i \in DOMAIN ts : ts[i] # t) => pc'[t] = "idle"
  BY <1>3, SettlingMoves
<1>5. ASSUME NEW u \in Socket, ~settled[u], u # s PROVE pc'[owner[u]] = "opening"
  <2>1. owner[u] \in Task /\ pc[owner[u]] = "opening" /\ AfterSettling(s)[owner[u]] = "opening"
    BY <1>5, Tasks, SettlingMoves DEF RelayerInv, SocketOK
  <2> QED BY <1>3, <2>1
<1> QED BY <1>2, <1>4, <1>5

\* The same for a loss of connection, after which only the lost socket queues.
LEMMA LoseConnectionKeeps ==
  ASSUME RelayerInv, NEW s \in Socket, attached[s] # {},
         NEW p, p = pc \/ p = AfterSettling(s),
         LoseConnection(s, p), isDestroyed' = isDestroyed
  PROVE  /\ LockOK' /\ lockQueue' \in Seq(Task) /\ isLocked' \in BOOLEAN /\ pc' \in [Task -> PCs]
         /\ \A t \in Task : pc[t] = "idle" /\ t # s => pc'[t] = "idle"
         /\ \A u \in Socket : ~settled[u] /\ (u # s \/ p = pc) => pc'[owner[u]] = "opening"
         /\ ws' = None /\ reconnectExhausted' \in BOOLEAN /\ stateTransition' \in Transitions
         /\ heartbeatInterval' = FALSE /\ heartbeatTimeout' = FALSE /\ awaitingPong' = FALSE
<1>1. PICK ts \in {<<>>, <<s>>} : AcquireFrom(p, ts) /\ (ts # <<>> => ~isDestroyed)
  BY DEF LoseConnection, MayReconnect
<1>2. ts \in Seq(Task) /\ \A i \in DOMAIN ts : i = 1 /\ ts[i] = s
  <2>1. CASE ts = <<>>
    BY <2>1
  <2>2. CASE ts = <<s>>
    BY <2>2, Tasks
  <2> QED BY <1>1, <2>1, <2>2
<1>3. pc[s] = "idle"
  BY DEF RelayerInv, SocketOK
<1>4. /\ p \in [Task -> PCs]
      /\ \A t \in Task : p[t] # pc[t] => pc[t] \in Holding /\ p[t] \in Holding
  BY SettlingMoves DEF Holding, RelayerInv, TypeOK
<1>5. LockOK' /\ lockQueue' \in Seq(Task) /\ isLocked' \in BOOLEAN /\ pc' \in [Task -> PCs]
  BY <1>1, <1>2, <1>3, <1>4, AcquireKeepsLock DEF RelayerInv, TypeOK
<1>6. \A t \in Task : pc'[t] = p[t] \/ t = s
  BY <1>1, <1>2, AcquireMoves
<1>7. \A t \in Task : pc[t] = "idle" /\ t # s => pc'[t] = "idle"
  BY <1>4, <1>6 DEF Holding
<1>8. ASSUME NEW u \in Socket, ~settled[u], u # s \/ p = pc PROVE pc'[owner[u]] = "opening"
  <2>1. owner[u] \in Task /\ pc[owner[u]] = "opening" /\ p[owner[u]] = "opening"
    BY <1>8, Tasks, SettlingMoves DEF RelayerInv, SocketOK
  <2> QED BY <1>3, <1>6, <2>1
<1>9. ws' = None /\ heartbeatInterval' = FALSE /\ heartbeatTimeout' = FALSE /\ awaitingPong' = FALSE
  BY DEF LoseConnection, StopHeartbeat
<1>10. reconnectExhausted' \in BOOLEAN /\ stateTransition' \in Transitions
  BY DEF LoseConnection, GiveUp, RelayerInv, TypeOK, Transitions, IsPermanentlyDown
<1> QED BY <1>5, <1>7, <1>8, <1>9, <1>10

-----------------------------------------------------------------------------
(* The actions                                                             *)

\* connect() takes or awaits the lock.
LEMMA ConnectKeeps ==
  ASSUME RelayerInv, NEW c \in Call, Connect(c) PROVE RelayerInv'
<1>1. CASE connectPromise # None
  <2>1. UNCHANGED <<connectPromise, lockVars>>
    BY <1>1 DEF Connect
  <2>2. TypeOK'
    <3>1. SocketTypes' /\ CountTypes'
      BY TypeParts, UndisturbedSocketTypes, Zero DEF Connect, CountTypes, msgVars, RelayerInv
    <3>2. LockTypes'
      BY <2>1, TypeParts DEF LockTypes, lockVars, RelayerInv
    <3>3. FlagTypes'
      BY <2>1, TypeParts DEF FlagTypes, Connect, heartbeatVars, RelayerInv
    <3> QED BY <3>1, <3>2, <3>3, TypeParts
  <2>3. LockOK'
    BY <2>1, UndisturbedLock DEF Connect, RelayerInv
  <2>4. SocketOK'
    BY <2>1 DEF Connect, RelayerInv, SocketOK, socketVars, lockVars
  <2>5. MessageOK'
    BY <2>1 DEF Connect, RelayerInv, MessageOK, msgVars, lockVars
  <2> QED BY <2>2, <2>3, <2>4, <2>5 DEF RelayerInv
<1>2. CASE connectPromise = None
  <2>1. pc[c] = "idle" /\ connectPromise' = c /\ AcquireFrom(pc, <<c>>) /\ ~isDestroyed
    BY <1>2 DEF Connect
  <2>2. /\ <<c>> \in Seq(Task)
        /\ \A i \in DOMAIN <<c>> : i = 1 /\ <<c>>[i] = c
    BY Tasks
  <2>3. isDestroyed' = isDestroyed
    BY DEF Connect
  <2>4. LockOK' /\ lockQueue' \in Seq(Task) /\ isLocked' \in BOOLEAN /\ pc' \in [Task -> PCs]
    BY <2>1, <2>2, <2>3, AcquireKeepsLock DEF RelayerInv, TypeOK
  <2>5. \A t \in Task : t # c => pc'[t] = pc[t]
    <3> DEFINE ts == <<c>>
    <3>1. ts \in Seq(Task) /\ AcquireFrom(pc, ts) /\ \A i \in DOMAIN ts : ts[i] = c
      BY <2>1, <2>2
    <3> HIDE DEF ts
    <3> QED BY <3>1, AcquireMoves
  <2>6. TypeOK'
    <3>1. SocketTypes' /\ CountTypes'
      BY TypeParts, UndisturbedSocketTypes, Zero DEF Connect, CountTypes, msgVars, RelayerInv
    <3>2. FlagTypes'
      BY <2>1, TypeParts DEF FlagTypes, Connect, heartbeatVars, RelayerInv
    <3> QED BY <2>4, <3>1, <3>2, TypeParts DEF LockTypes
  <2>7. SocketOK'
    <3>1. \A s \in Socket : s # c
      OBVIOUS
    <3>2. \A s \in Socket : ~settled[s] => pc'[owner[s]] = "opening"
      BY <2>1, <2>5, Tasks DEF RelayerInv, SocketOK
    <3> QED BY <2>5, <3>1, <3>2, Tasks DEF Connect, RelayerInv, SocketOK, socketVars
  <2>8. MessageOK'
    <3>1. \A m \in Msg : m # c
      BY Tasks
    <3>2. \A i \in DOMAIN offlineQueue : offlineQueue[i] \in Msg
      BY DEF RelayerInv, TypeOK
    <3> QED BY <2>3, <2>5, <3>1, <3>2, Tasks DEF Connect, RelayerInv, MessageOK, msgVars
  <2> QED BY <2>4, <2>6, <2>7, <2>8 DEF RelayerInv
<1> QED BY <1>1, <1>2

\* What a step owes to the messages it leaves alone.
LEMMA MessagesUndisturbed ==
  ASSUME RelayerInv, UNCHANGED <<isDestroyed, offlineQueue, accepted>>,
         \A m \in Msg : pc[m] = "idle" => pc'[m] = "idle"
  PROVE  MessageOK'
<1>1. \A i \in DOMAIN offlineQueue : offlineQueue[i] \in Msg
  BY DEF RelayerInv, TypeOK
<1> QED BY <1>1 DEF RelayerInv, MessageOK

\* establishConnection() keeps the invariant for a task inside that is not yet
\* awaiting a connection.
LEMMA EstablishKeeps ==
  ASSUME RelayerInv, NEW t \in Call \cup Socket, pc[t] \in {"granted", "backoff"},
         EstablishConnection(t), UNCHANGED <<isDestroyed, offlineQueue, accepted>>
  PROVE  /\ LockOK' /\ SocketOK' /\ MessageOK'
         /\ SocketTypes' /\ LockTypes'
<1>0. t \in Task /\ pc[t] \in Holding /\ pc \in [Task -> PCs]
  BY Tasks DEF Holding, RelayerInv, TypeOK
<1>1. \A u \in Task : pc[u] # "opening"
  BY <1>0 DEF RelayerInv, LockOK, LockExclusion, Holds
<1>2. \A s \in Socket : settled[s]
  BY <1>1, Tasks DEF RelayerInv, SocketOK, TypeOK
<1>3. PICK q \in {"opening", "settled"} :
        pc' = [pc EXCEPT ![t] = q] /\ UNCHANGED <<isLocked, lockQueue>>
  BY DEF EstablishConnection
<1>4. LockOK' /\ LockTypes'
  <2>1. LockOK' /\ pc' \in [Task -> PCs]
    BY <1>0, <1>3, MoveKeepsLock DEF RelayerInv, Holding, PCs
  <2> QED BY <1>3, <2>1, TypeParts DEF LockTypes, RelayerInv
<1>5. pc'[t] = q /\ \A u \in Task : u # t => pc'[u] = pc[u]
  BY <1>0, <1>3
<1>6. MessageOK'
  BY <1>5, Tasks, MessagesUndisturbed
<1>7. CASE \E s \in Socket :
        /\ Free(s)
        /\ ws' = s
        /\ readyState' = [readyState EXCEPT ![s] = "connecting"]
        /\ attached' = [attached EXCEPT ![s] = Events]
        /\ settled' = [settled EXCEPT ![s] = FALSE]
        /\ owner' = [owner EXCEPT ![s] = t]
        /\ pc' = [pc EXCEPT ![t] = "opening"]
  <2>1. PICK s \in Socket :
        /\ Free(s)
        /\ ws' = s
        /\ readyState' = [readyState EXCEPT ![s] = "connecting"]
        /\ attached' = [attached EXCEPT ![s] = Events]
        /\ settled' = [settled EXCEPT ![s] = FALSE]
        /\ owner' = [owner EXCEPT ![s] = t]
        /\ pc' = [pc EXCEPT ![t] = "opening"]
    BY <1>7
  <2>2. pc[s] = "idle" /\ s # t
    BY <2>1 DEF Free
  <2>3. /\ readyState' \in [Socket -> ReadyStates] /\ attached' \in [Socket -> SUBSET Events]
        /\ settled' \in [Socket -> BOOLEAN] /\ owner' \in [Socket -> Call \cup Socket \cup {None}]
        /\ attached'[s] = Events /\ \A u \in Socket : u # s => attached'[u] = attached[u]
        /\ owner'[s] = t /\ pc'[t] = "opening"
        /\ ~settled'[s] /\ \A u \in Socket : u # s => settled'[u]
    BY <1>0, <1>2, <2>1 DEF RelayerInv, TypeOK, ReadyStates
  <2>4. \A u \in Socket : attached'[u] # {} => pc'[u] = "idle"
    BY <1>0, <1>5, <2>2, <2>3, Tasks DEF RelayerInv, SocketOK
  <2>5. SocketOK'
    BY <2>1, <2>3, <2>4 DEF SocketOK
  <2>6. SocketTypes'
    BY <2>1, <2>3 DEF SocketTypes
  <2> QED BY <1>4, <1>6, <2>5, <2>6
<1>8. CASE UNCHANGED <<ws, socketVars>>
  <2>1. UNCHANGED <<ws, readyState, attached, settled, owner>>
    BY <1>8 DEF socketVars
  <2>2. \A u \in Socket : attached[u] # {} => pc'[u] = "idle"
    BY <1>0, <1>5, Tasks DEF RelayerInv, SocketOK
  <2>3. SocketOK'
    BY <1>2, <2>1, <2>2 DEF RelayerInv, SocketOK
  <2>4. SocketTypes'
    BY <1>8, TypeParts, UndisturbedSocketTypes DEF RelayerInv
  <2> QED BY <1>4, <1>6, <2>3, <2>4
<1> QED BY <1>7, <1>8 DEF EstablishConnection

\* A task inside releases the lock and is done with it; the rest of the
\* invariant follows when the step leaves sockets and messages alone.
LEMMA ReleaseKeeps ==
  ASSUME RelayerInv, NEW t \in Call \cup Socket, Holds(t), pc[t] # "opening",
         NEW q \in {"idle", "returning"}, Release(t, q),
         UNCHANGED <<ws, socketVars, isDestroyed, msgVars>>
  PROVE  LockOK' /\ LockTypes' /\ SocketTypes' /\ SocketOK' /\ MessageOK'
<1>0. t \in Task /\ isDestroyed' = isDestroyed /\ LockTypes
  BY Tasks, TypeParts DEF RelayerInv
<1>1. /\ LockOK' /\ LockTypes'
      /\ pc'[t] = q
      /\ \A u \in Task : u # t => pc'[u] = pc[u] \/ (pc[u] = "queued" /\ pc'[u] = "granted")
  BY <1>0, ReleaseKeepsLock DEF LockTypes, RelayerInv
<1>2. pc[t] # "idle"
  BY DEF Holds
<1>3. SocketTypes'
  BY TypeParts, UndisturbedSocketTypes DEF RelayerInv
<1>4. SocketOK'
  <2>1. \A s \in Socket : attached[s] # {} => pc'[s] = "idle"
    BY <1>1, <1>2, Tasks DEF RelayerInv, SocketOK
  <2>2. \A s \in Socket : ~settled[s] => pc'[owner[s]] = "opening"
    BY <1>1, Tasks DEF RelayerInv, SocketOK
  <2> QED BY <2>1, <2>2 DEF RelayerInv, SocketOK, socketVars
<1>5. MessageOK'
  BY <1>1, Tasks, MessagesUndisturbed DEF msgVars
<1> QED BY <1>1, <1>3, <1>4, <1>5

\* doConnect() under the lock: the socket is open already, or a new one opens.
LEMMA DoConnectKeeps ==
  ASSUME RelayerInv, NEW c \in Call, DoConnect(c) PROVE RelayerInv'
<1>1. FlagTypes' /\ CountTypes'
  <2>1. stateTransition' \in Transitions
    BY TypeParts DEF DoConnect, Transitions, FlagTypes, RelayerInv
  <2> QED BY <2>1, TypeParts, UndisturbedCountTypes
          DEF DoConnect, FlagTypes, flagVars, heartbeatVars, RelayerInv
<1>2. pc[c] = "granted" /\ isDestroyed' = isDestroyed /\ UNCHANGED msgVars
  BY DEF DoConnect, flagVars
<1>3. LockOK' /\ LockTypes' /\ SocketTypes' /\ SocketOK' /\ MessageOK'
  <2>1. CASE Release(c, "returning") /\ UNCHANGED <<ws, socketVars>>
    BY <1>2, <2>1, ReleaseKeeps DEF Holds
  <2>2. CASE EstablishConnection(c)
    BY <1>2, <2>2, EstablishKeeps DEF msgVars
  <2> QED BY <2>1, <2>2 DEF DoConnect
<1> QED BY <1>1, <1>3, TypeParts DEF RelayerInv

\* The finally blocks release the lock once the promise has settled.
LEMMA AfterOpeningKeeps ==
  ASSUME RelayerInv, NEW t \in Call \cup Socket, AfterOpening(t) PROVE RelayerInv'
<1>1. FlagTypes' /\ CountTypes'
  BY TypeParts, UndisturbedCountTypes
     DEF AfterOpening, FlagTypes, flagVars, heartbeatVars, RelayerInv
<1>2. LockOK' /\ LockTypes' /\ SocketTypes' /\ SocketOK' /\ MessageOK'
  BY ReleaseKeeps DEF AfterOpening, Holds, flagVars
<1> QED BY <1>1, <1>2, TypeParts DEF RelayerInv

\* connect() returns and is not inside the lock any more.
LEMMA ConnectReturnsKeeps ==
  ASSUME RelayerInv, NEW c \in Call, ConnectReturns(c) PROVE RelayerInv'
<1>0. c \in Task /\ pc \in [Task -> PCs] /\ pc[c] = "returning"
  BY Tasks, TypeParts DEF LockTypes, RelayerInv, ConnectReturns
<1>1. FlagTypes' /\ CountTypes' /\ SocketTypes'
  <2>1. connectPromise' \in Call \cup {None}
    BY TypeParts DEF ConnectReturns, FlagTypes, RelayerInv
  <2> QED BY <2>1, TypeParts, UndisturbedCountTypes, UndisturbedSocketTypes
          DEF ConnectReturns, FlagTypes, flagVars, heartbeatVars, RelayerInv
<1>2. /\ pc' = [pc EXCEPT ![c] = "idle"]
      /\ UNCHANGED <<isLocked, lockQueue, isDestroyed, offlineQueue, accepted>>
      /\ UNCHANGED <<ws, readyState, attached, settled, owner>>
  BY DEF ConnectReturns, flagVars, msgVars, socketVars
<1>3. LockOK' /\ LockTypes'
  <2>1. LockOK' /\ pc' \in [Task -> PCs]
    BY <1>0, <1>2, MoveKeepsLock DEF RelayerInv, PCs
  <2> QED BY <1>2, <2>1, TypeParts DEF LockTypes, RelayerInv
<1>4. pc'[c] = "idle" /\ \A u \in Task : u # c => pc'[u] = pc[u]
  BY <1>0, <1>2
<1>5. SocketOK'
  BY <1>0, <1>2, <1>4, Tasks DEF RelayerInv, SocketOK
<1>6. MessageOK'
  BY <1>2, <1>4, Tasks, MessagesUndisturbed
<1> QED BY <1>1, <1>3, <1>5, <1>6, TypeParts DEF RelayerInv

\* attemptReconnect() under the lock: it goes to sleep, or gives up.
LEMMA ReconnectKeeps ==
  ASSUME RelayerInv, NEW t \in Socket, Reconnect(t) PROVE RelayerInv'
<1>0. /\ t \in Task /\ t \in Call \cup Socket /\ pc[t] = "granted"
      /\ pc \in [Task -> PCs] /\ isDestroyed' = isDestroyed
  BY Tasks, TypeParts DEF LockTypes, RelayerInv, Reconnect
<1>1. FlagTypes' /\ SocketTypes'
  <2>1. stateTransition' \in Transitions /\ reconnectExhausted' \in BOOLEAN
    BY TypeParts DEF Reconnect, GiveUp, Transitions, FlagTypes, RelayerInv, IsPermanentlyDown
  <2> QED BY <2>1, TypeParts, UndisturbedSocketTypes
          DEF Reconnect, FlagTypes, heartbeatVars, RelayerInv
<1>2. CountTypes'
  <2>1. reconnectAttempts' \in 0 .. MaxReconnectAttempts
    BY TypeParts DEF Reconnect, MayReconnect, CountTypes, RelayerInv
  <2> QED BY <2>1, TypeParts DEF Reconnect, CountTypes, msgVars, RelayerInv
<1>3. LockOK' /\ LockTypes' /\ SocketOK' /\ MessageOK'
  <2>1. CASE Release(t, "idle")
    BY <1>0, <2>1, ReleaseKeeps DEF Holds, Reconnect
  <2>2. CASE pc' = [pc EXCEPT ![t] = "backoff"] /\ UNCHANGED <<isLocked, lockQueue>>
    <3>1. LockOK' /\ LockTypes'
      <4>1. LockOK' /\ pc' \in [Task -> PCs]
        BY <1>0, <2>2, MoveKeepsLock DEF RelayerInv, PCs, Holding
      <4> QED BY <2>2, <4>1, TypeParts DEF LockTypes, RelayerInv
    <3>2. \A u \in Task : pc'[u] = pc[u] \/ pc[u] = "granted"
      BY <1>0, <2>2
    <3>3. SocketOK'
      BY <3>2, Tasks DEF RelayerInv, SocketOK, Reconnect, socketVars
    <3>4. MessageOK'
      BY <1>0, <3>2, Tasks, MessagesUndisturbed DEF Reconnect, msgVars
    <3> QED BY <3>1, <3>3, <3>4
  <2> QED BY <2>1, <2>2 DEF Reconnect
<1> QED BY <1>1, <1>2, <1>3, TypeParts DEF RelayerInv

\* The backoff ends: the reconnection was cancelled, or opens a socket.
LEMMA BackoffEndsKeeps ==
  ASSUME RelayerInv, NEW t \in Socket, BackoffEnds(t) PROVE RelayerInv'
<1>0. t \in Call \cup Socket /\ pc[t] = "backoff" /\ isDestroyed' = isDestroyed /\ UNCHANGED msgVars
  BY DEF BackoffEnds, flagVars
<1>1. FlagTypes' /\ CountTypes'
  BY TypeParts, UndisturbedCountTypes
     DEF BackoffEnds, FlagTypes, flagVars, heartbeatVars, RelayerInv
<1>2. LockOK' /\ LockTypes' /\ SocketTypes' /\ SocketOK' /\ MessageOK'
  <2>1. CASE Release(t, "idle") /\ UNCHANGED <<ws, socketVars>>
    BY <1>0, <2>1, ReleaseKeeps DEF Holds
  <2>2. CASE EstablishConnection(t)
    BY <1>0, <2>2, EstablishKeeps DEF msgVars
  <2> QED BY <2>1, <2>2 DEF BackoffEnds
<1> QED BY <1>1, <1>2, TypeParts DEF RelayerInv

\* onopen settles the promise and flushes the offline queue into the lock's.
LEMMA SocketOpenKeeps ==
  ASSUME RelayerInv, NEW s \in Socket, SocketOpen(s) PROVE RelayerInv'
<1>0. PICK expired \in 0 .. IF OfflineTtl THEN Len(offlineQueue) ELSE 0 :
        LET kept == SubSeq(offlineQueue, expired + 1, Len(offlineQueue))
        IN  \/ /\ IsOpen(ws, readyState')
               /\ offlineQueue' = <<>>
               /\ AcquireFrom(AfterSettling(s), kept)
            \/ /\ ~IsOpen(ws, readyState')
               /\ offlineQueue' = kept
               /\ AcquireFrom(AfterSettling(s), <<>>)
  BY DEF SocketOpen
<1> DEFINE kept == SubSeq(offlineQueue, expired + 1, Len(offlineQueue))
<1>1. /\ CountTypes /\ SocketTypes /\ FlagTypes
      /\ UNCHANGED <<ws, attached, owner, isDestroyed, reconnectEnabled, connectPromise,
                     accepted, wire>>
  BY TypeParts DEF RelayerInv, SocketOpen
<1>2. expired \in Nat /\ Len(offlineQueue) \in Nat /\ expired <= Len(offlineQueue)
  BY <1>1 DEF CountTypes
<1>3. /\ kept \in Seq(Msg) /\ Len(kept) = Len(offlineQueue) - expired
      /\ \A i \in DOMAIN kept : /\ i \in Nat /\ expired + i \in DOMAIN offlineQueue
                                /\ kept[i] = offlineQueue[expired + i]
  BY <1>1, <1>2, SubSeqProperties DEF CountTypes
<1>4. offlineQueue = <<>> => kept = <<>>
  BY <1>2, <1>3
<1> HIDE DEF kept
<1>5. kept \in Seq(Task)
  BY <1>3, Tasks
<1>6. \A i, j \in DOMAIN kept : kept[i] = kept[j] => i = j
  <2> SUFFICES ASSUME NEW i \in DOMAIN kept, NEW j \in DOMAIN kept, kept[i] = kept[j]
               PROVE  i = j
    OBVIOUS
  <2>1. expired + i = expired + j
    BY <1>3 DEF RelayerInv, MessageOK
  <2> QED BY <1>2, <1>3, <2>1
<1>7. \A i \in DOMAIN kept : pc[kept[i]] = "idle" /\ kept[i] <= accepted /\ kept[i] \in Msg
  BY <1>3 DEF RelayerInv, MessageOK
<1>8. kept # <<>> => ~isDestroyed
  BY <1>4 DEF RelayerInv, MessageOK
<1>9. SocketTypes' /\ FlagTypes' /\ ~settled[s] /\ settled'[s]
      /\ \A u \in Socket : u # s => settled'[u] = settled[u]
  <2>1. readyState' \in [Socket -> ReadyStates] /\ settled' \in [Socket -> BOOLEAN]
        /\ ~settled[s] /\ settled'[s] /\ \A u \in Socket : u # s => settled'[u] = settled[u]
    BY <1>1 DEF SocketOpen, SocketTypes, ReadyStates
  <2>2. SocketTypes'
    BY <1>1, <2>1 DEF SocketTypes
  <2>3. FlagTypes'
    BY <1>1 DEF SocketOpen, FlagTypes, Transitions, RelayerAssumption
  <2> QED BY <2>1, <2>2, <2>3
<1>10. PICK ts \in {<<>>, kept} : AcquireFrom(AfterSettling(s), ts)
  BY <1>0 DEF kept
<1>11. /\ ts \in Seq(Task) /\ (ts # <<>> => ~isDestroyed)
       /\ \A i, j \in DOMAIN ts : ts[i] = ts[j] => i = j
       /\ \A i \in DOMAIN ts : pc[ts[i]] = "idle" /\ ts[i] <= accepted /\ ts[i] \in Msg
  <2>1. CASE ts = <<>>
    BY <2>1
  <2>2. CASE ts = kept
    BY <1>5, <1>6, <1>7, <1>8, <2>2
  <2> QED BY <1>10, <2>1, <2>2
<1>12. /\ LockOK' /\ LockTypes'
       /\ \A t \in Task : pc[t] = "idle" /\ (\A i \in DOMAIN ts : ts[i] # t) => pc'[t] = "idle"
       /\ \A u \in Socket : ~settled[u] /\ u # s => pc'[owner[u]] = "opening"
  BY <1>1, <1>10, <1>11, AcquireAfterSettling DEF LockTypes
<1>13. SocketOK'
  <2>1. \A u \in Socket : attached[u] # {} => pc'[u] = "idle"
    BY <1>11, <1>12, Tasks DEF RelayerInv, SocketOK
  <2>2. \A u \in Socket : ~settled'[u] => ~settled[u] /\ u # s
    BY <1>9
  <2> QED BY <1>1, <1>12, <2>1, <2>2 DEF RelayerInv, SocketOK
<1>14. \A m \in Msg : m > accepted => pc'[m] = "idle"
  <2> SUFFICES ASSUME NEW m \in Msg, m > accepted PROVE pc'[m] = "idle"
    OBVIOUS
  <2>1. pc[m] = "idle"
    BY DEF RelayerInv, MessageOK
  <2>2. accepted \in Nat /\ m \in Nat
    BY <1>1, Tasks DEF CountTypes
  <2>3. \A i \in DOMAIN ts : ts[i] # m
    BY <1>11, <2>2, Tasks
  <2> QED BY <1>12, <2>1, <2>3, Tasks
<1>15. MessageOK' /\ CountTypes'
  <2>1. reconnectAttempts' \in 0 .. MaxReconnectAttempts
    BY Zero DEF SocketOpen
  <2>2. CASE offlineQueue' = <<>>
    <3>1. offlineQueue' \in Seq(Msg) /\ Len(offlineQueue') <= MaxPendingMessages
          /\ DOMAIN offlineQueue' = {}
      BY <2>2
    <3> QED BY <1>1, <1>14, <2>1, <2>2, <3>1 DEF MessageOK, CountTypes
  <2>3. CASE offlineQueue' = kept /\ AcquireFrom(AfterSettling(s), <<>>)
    <3> DEFINE none == <<>>
    <3>1. none \in Seq(Task) /\ none = <<>> /\ DOMAIN none = {} /\ AcquireFrom(AfterSettling(s), none)
      BY <2>3
    <3> HIDE DEF none
    <3>2. \A t \in Task : pc[t] = "idle" => pc'[t] = "idle"
      BY <1>1, <3>1, AcquireAfterSettling
    <3>3. \A i \in DOMAIN kept : pc'[kept[i]] = "idle"
      BY <1>7, <3>2, Tasks
    <3>4. isDestroyed' => kept = <<>>
      BY <1>1, <1>8
    <3>5. MessageOK'
      BY <1>1, <1>6, <1>7, <1>14, <2>3, <3>3, <3>4 DEF MessageOK
    <3>6. CountTypes'
      BY <1>1, <1>2, <1>3, <2>1, <2>3 DEF CountTypes
    <3> QED BY <3>5, <3>6
  <2> QED BY <1>0, <2>2, <2>3 DEF kept
<1> QED BY <1>9, <1>12, <1>13, <1>15, TypeParts DEF RelayerInv

\* onerror settles the promise and leaves the rest to onclose.
LEMMA SocketErrorKeeps ==
  ASSUME RelayerInv, NEW s \in Socket, SocketError(s) PROVE RelayerInv'
<1>1. /\ CountTypes /\ SocketTypes /\ FlagTypes
      /\ UNCHANGED <<ws, attached, owner, flagVars, connectPromise, heartbeatVars, msgVars,
                     stateTransition>>
  BY TypeParts DEF RelayerInv, SocketError
<1>2. FlagTypes' /\ CountTypes'
  BY <1>1, UndisturbedCountTypes DEF FlagTypes, flagVars, heartbeatVars
<1>3. isDestroyed' = isDestroyed
  BY <1>1 DEF flagVars
<1>4. /\ SocketTypes' /\ settled'[s]
      /\ \A u \in Socket : u # s => settled'[u] = settled[u]
  <2>1. readyState' \in [Socket -> ReadyStates] /\ settled' \in [Socket -> BOOLEAN]
        /\ settled'[s] /\ \A u \in Socket : u # s => settled'[u] = settled[u]
    BY <1>1 DEF SocketError, SocketTypes, ReadyStates
  <2> QED BY <1>1, <2>1 DEF SocketTypes
<1>5. /\ LockOK' /\ LockTypes'
      /\ \A t \in Task : pc[t] = "idle" => pc'[t] = "idle"
      /\ \A u \in Socket : ~settled[u] /\ u # s => pc'[owner[u]] = "opening"
  <2> DEFINE none == <<>>
  <2>1. none \in Seq(Task) /\ none = <<>> /\ DOMAIN none = {} /\ AcquireFrom(AfterSettling(s), none)
    BY DEF SocketError
  <2> HIDE DEF none
  <2> QED BY <1>3, <2>1, AcquireAfterSettling DEF LockTypes
<1>6. SocketOK'
  BY <1>1, <1>4, <1>5, Tasks DEF RelayerInv, SocketOK
<1>7. MessageOK'
  BY <1>1, <1>3, <1>5, Tasks, MessagesUndisturbed DEF msgVars
<1> QED BY <1>2, <1>4, <1>5, <1>6, <1>7, TypeParts DEF RelayerInv

\* A step that leaves the tasks, the lock and the messages alone.
LEMMA TasksUndisturbed ==
  ASSUME RelayerInv, UNCHANGED <<lockVars, isDestroyed, offlineQueue, accepted>>
  PROVE  LockOK' /\ LockTypes' /\ MessageOK'
<1>1. LockOK'
  BY UndisturbedLock DEF RelayerInv
<1>2. LockTypes'
  BY TypeParts DEF LockTypes, lockVars, RelayerInv
<1>3. MessageOK'
  BY MessagesUndisturbed DEF lockVars
<1> QED BY <1>1, <1>2, <1>3

\* The peer starts to close a socket.
LEMMA PeerClosesKeeps ==
  ASSUME RelayerInv, NEW s \in Socket, PeerCloses(s) PROVE RelayerInv'
<1>1. FlagTypes' /\ CountTypes'
  BY TypeParts, UndisturbedCountTypes
     DEF PeerCloses, FlagTypes, flagVars, heartbeatVars, RelayerInv
<1>2. SocketTypes'
  BY TypeParts DEF PeerCloses, SocketTypes, ReadyStates, RelayerInv
<1>3. LockOK' /\ LockTypes' /\ MessageOK'
  BY TasksUndisturbed DEF PeerCloses, flagVars, msgVars
<1>4. SocketOK'
  BY DEF PeerCloses, lockVars, RelayerInv, SocketOK
<1> QED BY <1>1, <1>2, <1>3, <1>4, TypeParts DEF RelayerInv

\* onclose, when still attached, starts the reconnection or gives up.
LEMMA SocketCloseKeeps ==
  ASSUME RelayerInv, NEW s \in Socket, SocketClose(s) PROVE RelayerInv'
<1>1. /\ CountTypes /\ SocketTypes /\ FlagTypes
      /\ UNCHANGED <<owner, isDestroyed, reconnectEnabled, reconnectAttempts, connectPromise,
                     msgVars>>
  BY TypeParts DEF RelayerInv, SocketClose
<1>2. /\ readyState' \in [Socket -> ReadyStates] /\ attached' \in [Socket -> SUBSET Events]
      /\ attached'[s] = {} /\ \A u \in Socket : u # s => attached'[u] = attached[u]
  BY <1>1 DEF SocketClose, SocketTypes, ReadyStates
<1>3. CountTypes'
  BY <1>1, UndisturbedCountTypes
<1>4. CASE "close" \notin attached[s]
  <2>1. UNCHANGED <<ws, settled, lockVars, reconnectExhausted, heartbeatVars, stateTransition>>
    BY <1>4 DEF SocketClose
  <2>2. FlagTypes' /\ SocketTypes'
    BY <1>1, <1>2, <2>1 DEF FlagTypes, heartbeatVars, SocketTypes
  <2>3. LockOK' /\ LockTypes' /\ MessageOK'
    BY <1>1, <2>1, TasksUndisturbed DEF msgVars
  <2>4. ws # s
    <3>1. s # None /\ "close" \in Events
      BY Tasks DEF Events
    <3> QED BY <1>4, <3>1 DEF RelayerInv, SocketOK
  <2>5. SocketOK'
    BY <1>1, <1>2, <2>1, <2>4 DEF RelayerInv, SocketOK, lockVars, SocketTypes
  <2> QED BY <1>3, <2>2, <2>3, <2>5, TypeParts DEF RelayerInv
<1>5. CASE "close" \in attached[s]
  <2>1. settled' = [settled EXCEPT ![s] = TRUE] /\ LoseConnection(s, AfterSettling(s))
    BY <1>5 DEF SocketClose
  <2>2. /\ LockOK' /\ LockTypes'
        /\ \A t \in Task : pc[t] = "idle" /\ t # s => pc'[t] = "idle"
        /\ \A u \in Socket : ~settled[u] /\ u # s => pc'[owner[u]] = "opening"
        /\ ws' = None /\ reconnectExhausted' \in BOOLEAN /\ stateTransition' \in Transitions
        /\ heartbeatInterval' = FALSE /\ heartbeatTimeout' = FALSE /\ awaitingPong' = FALSE
    BY <1>1, <1>5, <2>1, LoseConnectionKeeps DEF LockTypes
  <2>3. FlagTypes'
    BY <1>1, <2>2 DEF FlagTypes
  <2>4. /\ settled' \in [Socket -> BOOLEAN] /\ settled'[s]
        /\ \A u \in Socket : u # s => settled'[u] = settled[u]
    BY <1>1, <2>1 DEF SocketTypes
  <2>5. SocketTypes'
    BY <1>1, <1>2, <2>2, <2>4 DEF SocketTypes
  <2>6. SocketOK'
    <3>1. \A u \in Socket : attached'[u] # {} => pc'[u] = "idle"
      BY <1>2, <2>2, Tasks DEF RelayerInv, SocketOK
    <3> QED BY <1>1, <2>2, <2>4, <3>1 DEF RelayerInv, SocketOK
  <2>7. MessageOK'
    BY <1>1, <2>2, Tasks, MessagesUndisturbed DEF msgVars
  <2> QED BY <1>3, <2>2, <2>3, <2>5, <2>6, <2>7, TypeParts DEF RelayerInv
<1> QED BY <1>4, <1>5

\* A frame, or a ping, only concerns the heartbeat.
LEMMA HeartbeatKeeps ==
  ASSUME RelayerInv, (\E s \in Socket : Frame(s)) \/ HeartbeatTick PROVE RelayerInv'
<1>1. /\ UNCHANGED <<ws, socketVars, lockVars, flagVars, connectPromise, heartbeatInterval,
                     msgVars, stateTransition>>
      /\ awaitingPong' \in BOOLEAN /\ heartbeatTimeout' \in BOOLEAN
  BY DEF Frame, HeartbeatTick
<1>2. FlagTypes' /\ CountTypes' /\ SocketTypes'
  BY <1>1, TypeParts, UndisturbedCountTypes, UndisturbedSocketTypes
     DEF FlagTypes, flagVars, RelayerInv
<1>3. LockOK' /\ LockTypes' /\ MessageOK'
  BY <1>1, TasksUndisturbed DEF flagVars, msgVars
<1>4. SocketOK'
  BY <1>1 DEF socketVars, lockVars, RelayerInv, SocketOK
<1> QED BY <1>2, <1>3, <1>4, TypeParts DEF RelayerInv

\* The heartbeat timeout detaches the current socket and reconnects itself.
LEMMA HeartbeatExpiresKeeps ==
  ASSUME RelayerInv, HeartbeatExpires PROVE RelayerInv'
<1>1. /\ CountTypes /\ SocketTypes /\ FlagTypes /\ ws \in Socket
      /\ UNCHANGED <<settled, owner, isDestroyed, reconnectEnabled, reconnectAttempts,
                     connectPromise, msgVars>>
  BY TypeParts DEF RelayerInv, HeartbeatExpires, SocketTypes
<1>2. /\ readyState' \in [Socket -> ReadyStates] /\ attached' \in [Socket -> SUBSET Events]
      /\ attached'[ws] = {} /\ \A u \in Socket : u # ws => attached'[u] = attached[u]
  BY <1>1 DEF HeartbeatExpires, SocketTypes, ReadyStates
<1>3. CountTypes'
  BY <1>1, UndisturbedCountTypes
<1>4. CASE isDestroyed
  <2>1. ws' = None /\ StopHeartbeat /\ UNCHANGED <<lockVars, reconnectExhausted, stateTransition>>
    BY <1>4 DEF HeartbeatExpires
  <2>2. FlagTypes' /\ SocketTypes'
    BY <1>1, <1>2, <2>1 DEF FlagTypes, StopHeartbeat, SocketTypes
  <2>3. LockOK' /\ LockTypes' /\ MessageOK'
    BY <1>1, <2>1, TasksUndisturbed DEF msgVars
  <2>4. SocketOK'
    BY <1>1, <1>2, <2>1 DEF RelayerInv, SocketOK, lockVars
  <2> QED BY <1>3, <2>2, <2>3, <2>4, TypeParts DEF RelayerInv
<1>5. CASE ~isDestroyed
  <2>1. LoseConnection(ws, pc) /\ attached[ws] # {}
    BY <1>1, <1>5 DEF HeartbeatExpires, RelayerInv, SocketOK, Events
  <2>2. /\ LockOK' /\ LockTypes'
        /\ \A t \in Task : pc[t] = "idle" /\ t # ws => pc'[t] = "idle"
        /\ \A u \in Socket : ~settled[u] => pc'[owner[u]] = "opening"
        /\ ws' = None /\ reconnectExhausted' \in BOOLEAN /\ stateTransition' \in Transitions
        /\ heartbeatInterval' = FALSE /\ heartbeatTimeout' = FALSE /\ awaitingPong' = FALSE
    BY <1>1, <2>1, LoseConnectionKeeps DEF LockTypes
  <2>3. FlagTypes' /\ SocketTypes'
    BY <1>1, <1>2, <2>2 DEF FlagTypes, SocketTypes
  <2>4. SocketOK'
    <3>1. \A u \in Socket : attached'[u] # {} => pc'[u] = "idle"
      BY <1>2, <2>2, Tasks DEF RelayerInv, SocketOK
    <3> QED BY <1>1, <2>2, <3>1 DEF RelayerInv, SocketOK
  <2>5. MessageOK'
    BY <1>1, <2>2, Tasks, MessagesUndisturbed DEF msgVars
  <2> QED BY <1>3, <2>2, <2>3, <2>4, <2>5, TypeParts DEF RelayerInv
<1> QED BY <1>4, <1>5

\* _queueMessage() keeps the offline queue within its bound and free of
\* repetitions.
LEMMA QueueKeeps ==
  ASSUME RelayerInv, NEW m \in Msg, \A i \in DOMAIN offlineQueue : offlineQueue[i] # m, Queue(m)
  PROVE  /\ offlineQueue' \in Seq(Msg) /\ Len(offlineQueue') <= MaxPendingMessages
         /\ \A i, j \in DOMAIN offlineQueue' : offlineQueue'[i] = offlineQueue'[j] => i = j
         /\ \A i \in DOMAIN offlineQueue' :
              offlineQueue'[i] = m \/ \E j \in DOMAIN offlineQueue : offlineQueue'[i] = offlineQueue[j]
<1>1. /\ offlineQueue \in Seq(Msg) /\ Len(offlineQueue) <= MaxPendingMessages
      /\ \A i, j \in DOMAIN offlineQueue : offlineQueue[i] = offlineQueue[j] => i = j
  BY TypeParts DEF RelayerInv, CountTypes, MessageOK
<1>2. PICK q \in Seq(Msg) :
        /\ offlineQueue' = Append(q, m)
        /\ Len(q) < MaxPendingMessages
        /\ \A i \in DOMAIN q : \E k \in {0, 1} : i + k \in DOMAIN offlineQueue
                                                 /\ q[i] = offlineQueue[i + k]
        /\ \A i, j \in DOMAIN q : q[i] = q[j] => i = j
  <2>1. CASE Len(offlineQueue) >= MaxPendingMessages
    <3> DEFINE q == Tail(offlineQueue)
    <3>1. offlineQueue # <<>> /\ offlineQueue' = Append(q, m)
      BY <1>1, <2>1 DEF Queue
    <3>2. /\ q \in Seq(Msg) /\ Len(q) = Len(offlineQueue) - 1
          /\ \A i \in DOMAIN q : /\ i \in Nat /\ i + 1 \in DOMAIN offlineQueue
                                 /\ q[i] = offlineQueue[i + 1]
      BY <1>1, <3>1, HeadTailProperties
    <3> HIDE DEF q
    <3>3. ASSUME NEW i \in DOMAIN q, NEW j \in DOMAIN q, q[i] = q[j] PROVE i = j
      <4>1. i + 1 = j + 1
        BY <1>1, <3>2, <3>3
      <4> QED BY <3>2, <4>1
    <3>4. Len(q) < MaxPendingMessages
      BY <1>1, <3>2
    <3> QED BY <3>1, <3>2, <3>3, <3>4
  <2>2. CASE ~(Len(offlineQueue) >= MaxPendingMessages)
    <3>1. offlineQueue' = Append(offlineQueue, m)
      BY <2>2 DEF Queue
    <3>2. \A i \in DOMAIN offlineQueue : i + 0 \in DOMAIN offlineQueue
                                         /\ offlineQueue[i] = offlineQueue[i + 0]
      BY <1>1
    <3> QED BY <1>1, <2>2, <3>1, <3>2
  <2> QED BY <2>1, <2>2
<1>3. /\ offlineQueue' \in Seq(Msg) /\ Len(offlineQueue') <= MaxPendingMessages
      /\ DOMAIN offlineQueue' = 1 .. Len(q) + 1
      /\ offlineQueue'[Len(q) + 1] = m
      /\ \A i \in DOMAIN q : offlineQueue'[i] = q[i]
      /\ \A i \in DOMAIN offlineQueue' : i \in DOMAIN q \/ i = Len(q) + 1
  BY <1>2
<1>4. \A i \in DOMAIN q : q[i] # m
  BY <1>2
<1> QED BY <1>2, <1>3, <1>4

\* send() drops, queues or waits for the lock.
LEMMA SendKeeps ==
  ASSUME RelayerInv, NEW m \in Msg, Send(m) PROVE RelayerInv'
<1>1. /\ CountTypes /\ SocketTypes /\ FlagTypes /\ LockTypes
      /\ m = accepted + 1 /\ accepted' = m /\ m \in Nat /\ accepted \in Nat /\ m \in Task
      /\ UNCHANGED <<ws, socketVars, flagVars, connectPromise, heartbeatVars, wire, stateTransition>>
  BY Tasks, TypeParts DEF RelayerInv, Send, CountTypes
<1>2. /\ pc[m] = "idle" /\ UNCHANGED <<isDestroyed, reconnectAttempts>>
      /\ \A i \in DOMAIN offlineQueue : offlineQueue[i] # m
      /\ \A i \in DOMAIN offlineQueue : offlineQueue[i] \in Msg
      /\ accepted' \in 0 .. MsgCount
  BY <1>1 DEF RelayerInv, MessageOK, flagVars, CountTypes, Msg
<1>8. \A i \in DOMAIN offlineQueue :
        pc[offlineQueue[i]] = "idle" /\ offlineQueue[i] <= accepted'
  <2> SUFFICES ASSUME NEW i \in DOMAIN offlineQueue
               PROVE  pc[offlineQueue[i]] = "idle" /\ offlineQueue[i] <= accepted'
    OBVIOUS
  <2>1. pc[offlineQueue[i]] = "idle" /\ offlineQueue[i] <= accepted
    BY DEF RelayerInv, MessageOK
  <2>2. offlineQueue[i] \in Nat
    BY <1>2, Tasks
  <2> QED BY <1>1, <2>1, <2>2
<1>3. FlagTypes' /\ SocketTypes'
  BY <1>1, UndisturbedSocketTypes DEF FlagTypes, flagVars, heartbeatVars
<1>4. /\ \/ UNCHANGED offlineQueue
         \/ ~isDestroyed /\ Queue(m)
      /\ CountTypes'
  <2>1. UNCHANGED offlineQueue \/ (~isDestroyed /\ Queue(m))
    BY DEF Send
  <2>2. offlineQueue' \in Seq(Msg) /\ Len(offlineQueue') <= MaxPendingMessages
    BY <1>1, <1>2, <2>1, QueueKeeps DEF CountTypes
  <2> QED BY <1>1, <1>2, <2>1, <2>2 DEF CountTypes
<1>5. /\ LockOK' /\ LockTypes'
      /\ \A t \in Task : pc'[t] = pc[t] \/ (t = m /\ UNCHANGED offlineQueue)
  <2>1. CASE UNCHANGED lockVars
    BY <1>1, <1>2, <2>1, UndisturbedLock DEF LockTypes, lockVars, RelayerInv
  <2>2. CASE ~isDestroyed /\ AcquireFrom(pc, <<m>>) /\ UNCHANGED offlineQueue
    <3> DEFINE ts == <<m>>
    <3>1. /\ ts \in Seq(Task) /\ \A i \in DOMAIN ts : i = 1 /\ ts[i] = m
          /\ AcquireFrom(pc, ts)
      BY <1>1, <2>2
    <3> HIDE DEF ts
    <3>2. LockOK' /\ LockTypes'
      BY <1>1, <1>2, <2>2, <3>1, AcquireKeepsLock DEF RelayerInv, LockTypes
    <3>3. \A t \in Task : pc'[t] = pc[t] \/ t = m
      BY <3>1, AcquireMoves
    <3> QED BY <2>2, <3>2, <3>3
  <2> QED BY <2>1, <2>2 DEF Send
<1>6. SocketOK'
  <2>1. \A t \in Call \cup Socket : pc'[t] = pc[t]
    BY <1>5, Tasks
  <2> QED BY <1>1, <2>1, Tasks DEF RelayerInv, SocketOK, socketVars
<1>7. MessageOK'
  <2>1. \A n \in Msg : n > accepted' => pc'[n] = "idle"
    BY <1>1, <1>5, Tasks DEF RelayerInv, MessageOK
  <2>2. CASE UNCHANGED offlineQueue
    <3>1. \A i \in DOMAIN offlineQueue : pc'[offlineQueue[i]] = "idle"
      BY <1>2, <1>5, Tasks DEF RelayerInv, MessageOK
    <3> QED BY <1>2, <1>8, <2>1, <2>2, <3>1 DEF RelayerInv, MessageOK
  <2>3. CASE ~isDestroyed /\ Queue(m) /\ ~UNCHANGED offlineQueue
    <3>1. /\ \A i, j \in DOMAIN offlineQueue' : offlineQueue'[i] = offlineQueue'[j] => i = j
          /\ \A i \in DOMAIN offlineQueue' :
               \/ offlineQueue'[i] = m
               \/ \E j \in DOMAIN offlineQueue : offlineQueue'[i] = offlineQueue[j]
      BY <1>2, <2>3, QueueKeeps
    <3>2. \A t \in Task : pc'[t] = pc[t]
      BY <1>5, <2>3
    <3>3. \A i \in DOMAIN offlineQueue' : pc[offlineQueue'[i]] = "idle" /\ offlineQueue'[i] \in Task
      <4>1. pc[m] = "idle" /\ m \in Task
        BY <1>1, <1>2
      <4>2. \A j \in DOMAIN offlineQueue : pc[offlineQueue[j]] = "idle" /\ offlineQueue[j] \in Task
        BY <1>2, <1>8, Tasks
      <4> QED BY <3>1, <4>1, <4>2
    <3>4. \A i \in DOMAIN offlineQueue' : offlineQueue'[i] <= accepted'
      <4>1. m <= accepted'
        BY <1>1
      <4> QED BY <1>8, <3>1, <4>1
    <3> QED BY <1>2, <2>1, <2>3, <3>1, <3>2, <3>3, <3>4 DEF MessageOK
  <2> QED BY <1>4, <2>2, <2>3
<1> QED BY <1>3, <1>4, <1>5, <1>6, <1>7, TypeParts DEF RelayerInv

\* send() under the lock drops, queues or writes the message, and releases.
LEMMA SendLockedKeeps ==
  ASSUME RelayerInv, NEW m \in Msg, SendLocked(m) PROVE RelayerInv'
<1>1. /\ CountTypes /\ SocketTypes /\ FlagTypes /\ LockTypes
      /\ m \in Task /\ Holds(m) /\ pc[m] = "granted" /\ Release(m, "idle")
      /\ UNCHANGED <<ws, socketVars, flagVars, connectPromise, heartbeatVars, accepted,
                     stateTransition>>
  BY Tasks, TypeParts DEF RelayerInv, SendLocked, Holds
<1>2. UNCHANGED <<isDestroyed, reconnectAttempts>>
  BY <1>1 DEF flagVars
<1>3. FlagTypes' /\ SocketTypes'
  BY <1>1, UndisturbedSocketTypes DEF FlagTypes, flagVars, heartbeatVars
<1>4. /\ LockOK' /\ LockTypes' /\ pc'[m] = "idle"
      /\ \A u \in Task : u # m => pc'[u] = pc[u] \/ (pc[u] = "queued" /\ pc'[u] = "granted")
  BY <1>1, <1>2, ReleaseKeepsLock DEF LockTypes, RelayerInv
<1>5. SocketOK'
  <2>1. \A t \in Call \cup Socket : pc[t] # "queued" => pc'[t] = pc[t]
    BY <1>4, Tasks
  <2> QED BY <1>1, <2>1, Tasks DEF RelayerInv, SocketOK, socketVars
<1>6. \A i \in DOMAIN offlineQueue : /\ offlineQueue[i] # m /\ offlineQueue[i] \in Msg
                                     /\ pc[offlineQueue[i]] = "idle"
                                     /\ offlineQueue[i] <= accepted
  BY <1>1 DEF RelayerInv, MessageOK, CountTypes
<1>7. m <= accepted
  BY <1>1, Tasks DEF RelayerInv, MessageOK, CountTypes
<1>8. \A n \in Msg : pc[n] = "idle" => pc'[n] = "idle"
  BY <1>4, Tasks
<1>9. UNCHANGED offlineQueue \/ (~isDestroyed /\ Queue(m))
  BY DEF SendLocked
<1>10. CountTypes'
  <2>1. offlineQueue' \in Seq(Msg) /\ Len(offlineQueue') <= MaxPendingMessages
    BY <1>1, <1>6, <1>9, QueueKeeps DEF CountTypes
  <2>2. wire' \in Seq(Msg)
    BY <1>1 DEF SendLocked, CountTypes
  <2> QED BY <1>1, <1>2, <2>1, <2>2 DEF CountTypes
<1>11. MessageOK'
  <2>1. CASE UNCHANGED offlineQueue
    BY <1>1, <1>2, <1>8, <2>1, MessagesUndisturbed
  <2>2. CASE ~isDestroyed /\ Queue(m)
    <3>1. /\ \A i, j \in DOMAIN offlineQueue' : offlineQueue'[i] = offlineQueue'[j] => i = j
          /\ \A i \in DOMAIN offlineQueue' :
               \/ offlineQueue'[i] = m
               \/ \E j \in DOMAIN offlineQueue : offlineQueue'[i] = offlineQueue[j]
      BY <1>6, <2>2, QueueKeeps
    <3>2. \A i \in DOMAIN offlineQueue' : pc'[offlineQueue'[i]] = "idle" /\ offlineQueue'[i] <= accepted
      BY <1>4, <1>6, <1>7, <1>8, <3>1
    <3>3. \A n \in Msg : n > accepted => pc'[n] = "idle"
      BY <1>8 DEF RelayerInv, MessageOK
    <3> QED BY <1>1, <1>2, <2>2, <3>1, <3>2, <3>3 DEF MessageOK
  <2> QED BY <1>9, <2>1, <2>2
<1> QED BY <1>3, <1>4, <1>5, <1>10, <1>11, TypeParts DEF RelayerInv

\* disconnect() lets go of the socket and of the timers.
LEMMA DisconnectKeeps ==
  ASSUME RelayerInv, Disconnect PROVE RelayerInv'
<1>1. /\ CountTypes /\ SocketTypes /\ FlagTypes
      /\ UNCHANGED <<attached, settled, owner, lockVars, isDestroyed, msgVars>>
      /\ ws' = None /\ connectPromise' = None /\ reconnectAttempts' = 0
  BY TypeParts DEF RelayerInv, Disconnect
<1>2. FlagTypes'
  BY <1>1 DEF Disconnect, FlagTypes, StopHeartbeat, Transitions
<1>3. SocketTypes'
  BY <1>1 DEF Disconnect, SocketTypes, ReadyStates
<1>4. CountTypes'
  BY <1>1, Zero DEF CountTypes, msgVars
<1>5. LockOK' /\ LockTypes' /\ MessageOK'
  BY <1>1, TasksUndisturbed DEF msgVars
<1>6. SocketOK'
  BY <1>1 DEF RelayerInv, SocketOK, lockVars
<1> QED BY <1>2, <1>3, <1>4, <1>5, <1>6, TypeParts DEF RelayerInv

\* destroy() also resets the lock, under the task inside if there is one: from
\* then on nothing takes it.
LEMMA DestroyKeeps ==
  ASSUME RelayerInv, Destroy PROVE RelayerInv'
<1>1. /\ CountTypes /\ SocketTypes /\ FlagTypes /\ LockTypes
      /\ UNCHANGED <<settled, owner, pc, accepted, wire>>
      /\ isDestroyed' /\ ~isLocked' /\ lockQueue' = <<>> /\ offlineQueue' = <<>>
      /\ ws' = None /\ connectPromise' = None /\ reconnectAttempts' = MaxReconnectAttempts
  BY TypeParts DEF RelayerInv, Destroy
<1>2. FlagTypes'
  BY <1>1 DEF Destroy, FlagTypes, StopHeartbeat, Transitions
<1>3. /\ readyState' \in [Socket -> ReadyStates] /\ attached' \in [Socket -> SUBSET Events]
      /\ \A s \in Socket : attached'[s] \subseteq attached[s]
  BY <1>1 DEF Destroy, SocketTypes, ReadyStates
<1>4. SocketTypes'
  BY <1>1, <1>3 DEF SocketTypes
<1>5. /\ lockQueue' \in Seq(Task) /\ DOMAIN lockQueue' = {}
      /\ offlineQueue' \in Seq(Msg) /\ DOMAIN offlineQueue' = {}
      /\ Len(offlineQueue') <= MaxPendingMessages
  BY <1>1
<1>6. CountTypes'
  BY <1>1, <1>5, Zero DEF CountTypes
<1>7. isLocked' \in BOOLEAN
  BY DEF Destroy
<1>8. LockOK' /\ LockTypes'
  <2>1. LockExclusion'
    BY <1>1 DEF RelayerInv, LockOK, LockExclusion, Holds
  <2> QED BY <1>1, <1>5, <1>7, <2>1 DEF LockOK, LockTypes
<1>9. MessageOK'
  BY <1>1, <1>5 DEF RelayerInv, MessageOK
<1>10. SocketOK'
  BY <1>1, <1>3 DEF RelayerInv, SocketOK
<1> QED BY <1>2, <1>4, <1>6, <1>8, <1>9, <1>10, TypeParts DEF RelayerInv

\* A step of something else.
LEMMA StutterKeeps ==
  ASSUME RelayerInv, UNCHANGED vars PROVE RelayerInv'
<1>1. UNCHANGED <<ws, socketVars, lockVars, flagVars, connectPromise, heartbeatVars, msgVars,
                  stateTransition>>
  BY DEF vars
<1>2. FlagTypes' /\ CountTypes' /\ SocketTypes'
  BY <1>1, TypeParts, UndisturbedCountTypes, UndisturbedSocketTypes
     DEF FlagTypes, flagVars, heartbeatVars, RelayerInv
<1>3. LockOK' /\ LockTypes' /\ MessageOK'
  BY <1>1, TasksUndisturbed DEF flagVars, msgVars
<1>4. SocketOK'
  BY <1>1 DEF socketVars, lockVars, RelayerInv, SocketOK
<1> QED BY <1>2, <1>3, <1>4, TypeParts DEF RelayerInv

-----------------------------------------------------------------------------
(* The theorems                                                            *)

\* Every step of the application, the platform and the relayer keeps the
\* invariant.
LEMMA NextInv == RelayerInv /\ [Next]_vars => RelayerInv'
<1> SUFFICES ASSUME RelayerInv, [Next]_vars PROVE RelayerInv'
  OBVIOUS
<1>1. ASSUME NEW c \in Call, Connect(c) \/ DoConnect(c) \/ ConnectReturns(c) PROVE RelayerInv'
  BY <1>1, ConnectKeeps, DoConnectKeeps, ConnectReturnsKeeps
<1>2. ASSUME NEW s \in Socket, Reconnect(s) \/ BackoffEnds(s) PROVE RelayerInv'
  BY <1>2, ReconnectKeeps, BackoffEndsKeeps
<1>3. ASSUME NEW t \in Call \cup Socket, AfterOpening(t) PROVE RelayerInv'
  BY <1>3, AfterOpeningKeeps
<1>4. ASSUME NEW s \in Socket,
             SocketOpen(s) \/ SocketError(s) \/ PeerCloses(s) \/ SocketClose(s) \/ Frame(s)
      PROVE  RelayerInv'
  BY <1>4, SocketOpenKeeps, SocketErrorKeeps, PeerClosesKeeps, SocketCloseKeeps, HeartbeatKeeps
<1>5. CASE HeartbeatTick \/ HeartbeatExpires
  BY <1>5, HeartbeatKeeps, HeartbeatExpiresKeeps
<1>6. ASSUME NEW m \in Msg, Send(m) \/ SendLocked(m) PROVE RelayerInv'
  BY <1>6, SendKeeps, SendLockedKeeps
<1>7. CASE Disconnect \/ Destroy
  BY <1>7, DisconnectKeeps, DestroyKeeps
<1>8. CASE UNCHANGED vars
  BY <1>8, StutterKeeps
<1> QED BY <1>1, <1>2, <1>3, <1>4, <1>5, <1>6, <1>7, <1>8 DEF Next

\* The invariant holds in every reachable state.
LEMMA AlwaysInv == Spec => []RelayerInv
  BY InitInv, NextInv, PTL DEF Spec

\* The state is well typed; reconnectAttempts and the offline queue keep to
\* the bounds the options set.
THEOREM RelayerTypeCorrect == Spec => []TypeOK
<1>1. RelayerInv => TypeOK
  BY DEF RelayerInv
<1> QED BY AlwaysInv, <1>1, PTL

\* At most one connect(), reconnection or send() is inside the lock, whatever
\* the interleaving, destroy() under the holder included.
THEOREM LockAlwaysExcludes == Spec => []LockExclusion
<1>1. RelayerInv => LockExclusion
  BY DEF RelayerInv, LockOK
<1> QED BY AlwaysInv, <1>1, PTL

\* Until destroy(), the lock is taken exactly while some task is inside, and
\* every task that waits is in its queue, once.
THEOREM LockQueueAlwaysExact == Spec => []LockQueueExact
<1>1. RelayerInv => LockQueueExact
  <2> SUFFICES ASSUME RelayerInv, ~isDestroyed
               PROVE  /\ isLocked <=> \E t \in Task : Holds(t)
                      /\ lockQueue # <<>> => isLocked
                      /\ \A t \in Task : pc[t] = "queued" <=> t \in Waiting
                      /\ \A i, j \in DOMAIN lockQueue : lockQueue[i] = lockQueue[j] => i = j
    BY DEF LockQueueExact
  <2>1. \A t \in Task : pc[t] = "queued" <=> t \in Waiting
    BY DEF RelayerInv, LockOK, Waiting
  <2> QED BY <2>1 DEF RelayerInv, LockOK
<1> QED BY AlwaysInv, <1>1, PTL

-----------------------------------------------------------------------------
(* Who connects, and who may write                                         *)

\* Only an open event brings the relayer up.
LEMMA EstablishIsDown ==
  ASSUME RelayerInv, NEW t, EstablishConnection(t)
  PROVE  Connected' => Connected /\ ws' = ws
<1>1. readyState \in [Socket -> ReadyStates]
  BY DEF RelayerInv, TypeOK
<1> QED BY <1>1 DEF EstablishConnection, Connected, IsOpen, socketVars

LEMMA OnlyOpenConnects ==
  ASSUME RelayerInv, [Next]_vars, \A s \in Socket : ~SocketOpen(s)
  PROVE  Connected' => Connected /\ ws' = ws
<1> USE DEF Connected, IsOpen, socketVars
<1>1. readyState \in [Socket -> ReadyStates] /\ ws \in Socket \cup {None}
  BY DEF RelayerInv, TypeOK
<1>2. ASSUME NEW c \in Call, Connect(c) \/ ConnectReturns(c) PROVE Connected' => Connected /\ ws' = ws
  BY <1>2 DEF Connect, ConnectReturns
<1>3. ASSUME NEW c \in Call, DoConnect(c) PROVE Connected' => Connected /\ ws' = ws
  BY <1>3, EstablishIsDown DEF DoConnect
<1>4. ASSUME NEW t \in Socket, Reconnect(t) PROVE Connected' => Connected /\ ws' = ws
  BY <1>4 DEF Reconnect
<1>5. ASSUME NEW t \in Socket, BackoffEnds(t) PROVE Connected' => Connected /\ ws' = ws
  BY <1>5, EstablishIsDown DEF BackoffEnds
<1>6. ASSUME NEW t \in Call \cup Socket, AfterOpening(t) PROVE Connected' => Connected /\ ws' = ws
  BY <1>6 DEF AfterOpening
<1>7. ASSUME NEW s \in Socket, SocketError(s) \/ PeerCloses(s) \/ Frame(s)
      PROVE  Connected' => Connected /\ ws' = ws
  BY <1>1, <1>7 DEF SocketError, PeerCloses, Frame
<1>8. ASSUME NEW s \in Socket, SocketClose(s) PROVE Connected' => Connected /\ ws' = ws
  BY <1>1, <1>8 DEF SocketClose, LoseConnection
<1>9. CASE HeartbeatTick \/ HeartbeatExpires
  BY <1>1, <1>9 DEF HeartbeatTick, HeartbeatExpires, LoseConnection
<1>10. ASSUME NEW m \in Msg, Send(m) \/ SendLocked(m) PROVE Connected' => Connected /\ ws' = ws
  BY <1>10 DEF Send, SendLocked
<1>11. CASE Disconnect \/ Destroy
  BY <1>11 DEF Disconnect, Destroy
<1>12. CASE UNCHANGED vars
  BY <1>12 DEF vars
<1> QED BY <1>2, <1>3, <1>4, <1>5, <1>6, <1>7, <1>8, <1>9, <1>10, <1>11, <1>12 DEF Next

\* NothingStranded: what a message is queued for is a connection that is down,
\* and a connection that comes up takes the whole queue.
LEMMA StrandedStep ==
  RelayerInv /\ NothingStranded /\ [Next]_vars => NothingStranded'
<1> SUFFICES ASSUME RelayerInv, NothingStranded, [Next]_vars, Connected' PROVE offlineQueue' = <<>>
  BY DEF NothingStranded
<1>1. CASE \E s \in Socket : SocketOpen(s)
  <2> PICK s \in Socket : SocketOpen(s)
    BY <1>1
  <2>1. IsOpen(ws, readyState')
    BY DEF SocketOpen, Connected, IsOpen
  <2> QED BY <2>1 DEF SocketOpen
<1>2. CASE \A s \in Socket : ~SocketOpen(s)
  <2>1. Connected /\ offlineQueue = <<>>
    BY <1>2, OnlyOpenConnects DEF NothingStranded
  <2>2. offlineQueue' = offlineQueue \/ offlineQueue' = <<>>
    BY <1>2, <2>1 DEF Next, Connect, DoConnect, ConnectReturns, Reconnect, BackoffEnds, AfterOpening,
       SocketError, PeerCloses, SocketClose, Frame, HeartbeatTick, HeartbeatExpires,
       Send, SendLocked, Disconnect, Destroy, msgVars, vars
  <2> QED BY <2>1, <2>2
<1> QED BY <1>1, <1>2

\* ExhaustedMeansDown: the flag is set when the last attempt is used up, and
\* everything that starts afresh clears it.
LEMMA ExhaustedStep ==
  RelayerInv /\ ExhaustedMeansDown /\ [Next]_vars => ExhaustedMeansDown'
<1> SUFFICES ASSUME RelayerInv, ExhaustedMeansDown, [Next]_vars, reconnectExhausted', ~isDestroyed'
             PROVE  reconnectEnabled' /\ reconnectAttempts' = MaxReconnectAttempts /\ ~Connected'
  BY DEF ExhaustedMeansDown
<1>1. CASE \E s \in Socket : SocketOpen(s)
  BY <1>1 DEF SocketOpen
<1>2. CASE \A s \in Socket : ~SocketOpen(s)
  <2> DEFINE Same == /\ UNCHANGED <<reconnectExhausted, reconnectEnabled, reconnectAttempts, isDestroyed>>
             Down(w) == /\ UNCHANGED <<reconnectEnabled, reconnectAttempts, isDestroyed>>
                        /\ reconnectExhausted' = (reconnectExhausted \/ IsPermanentlyDown(w))
                        /\ ws' = None \/ (w = ws /\ UNCHANGED <<ws, readyState>>)
  <2>0. /\ reconnectAttempts \in 0 .. MaxReconnectAttempts /\ reconnectExhausted \in BOOLEAN
        /\ Connected' => Connected
    BY <1>2, OnlyOpenConnects DEF RelayerInv, TypeOK
  <2>1. CASE Same
    BY <2>0, <2>1 DEF ExhaustedMeansDown
  <2>2. ASSUME NEW w, Down(w), w = None \/ w = ws
        PROVE  reconnectEnabled' /\ reconnectAttempts' = MaxReconnectAttempts /\ ~Connected'
    <3>1. CASE reconnectExhausted
      BY <2>0, <2>2, <3>1 DEF ExhaustedMeansDown
    <3>2. CASE IsPermanentlyDown(w)
      BY <2>0, <2>2, <3>2 DEF IsPermanentlyDown, Connected, IsOpen
    <3> QED BY <2>2, <3>1, <3>2
  <2>3. ASSUME NEW c \in Call, Connect(c) \/ DoConnect(c) \/ ConnectReturns(c)
        PROVE  Same \/ ~reconnectExhausted'
    BY <2>3 DEF Connect, DoConnect, ConnectReturns, flagVars
  <2>4. ASSUME NEW t \in Socket, Reconnect(t) PROVE Down(ws) \/ ~reconnectExhausted'
    <3>1. CASE MayReconnect(ws)
      <4>1. ~reconnectExhausted
        BY <2>0, <3>1 DEF ExhaustedMeansDown, MayReconnect
      <4> QED BY <2>4, <3>1, <4>1 DEF Reconnect
    <3>2. CASE ~MayReconnect(ws)
      BY <2>4, <3>2 DEF Reconnect, GiveUp, socketVars
    <3> QED BY <3>1, <3>2
  <2>5. ASSUME NEW s \in Socket, NEW q, LoseConnection(s, q), UNCHANGED <<isDestroyed, reconnectEnabled, reconnectAttempts>>
        PROVE  Same \/ Down(None)
    BY <2>5 DEF LoseConnection, GiveUp
  <2>6. ASSUME NEW s \in Socket, SocketError(s) \/ PeerCloses(s) \/ SocketClose(s) \/ Frame(s)
        PROVE  Same \/ Down(None)
    BY <2>5, <2>6 DEF SocketError, PeerCloses, SocketClose, Frame, flagVars
  <2>7. CASE HeartbeatTick \/ HeartbeatExpires
    <3>1. HeartbeatExpires => ws \in Socket
      BY DEF HeartbeatExpires, RelayerInv, TypeOK
    <3>2. Same \/ Down(None)
      BY <2>5, <2>7, <3>1 DEF HeartbeatTick, HeartbeatExpires, flagVars
    <3> QED BY <2>1, <2>2, <3>2
  <2>8. ASSUME NEW t \in Call \cup Socket, BackoffEnds(t) \/ AfterOpening(t) PROVE Same
    BY <2>8 DEF BackoffEnds, AfterOpening, flagVars
  <2>9. ASSUME NEW m \in Msg, Send(m) \/ SendLocked(m) PROVE Same
    BY <2>9 DEF Send, SendLocked, flagVars
  <2>10. CASE Disconnect \/ Destroy
    BY <2>10 DEF Disconnect, Destroy
  <2>11. CASE UNCHANGED vars
    <3>1. Same
      BY <2>11 DEF vars, flagVars
    <3> QED BY <2>1, <3>1
  <2> HIDE DEF Same, Down
  <2> QED BY <1>2, <2>1, <2>2, <2>3, <2>4, <2>6, <2>7, <2>8, <2>9, <2>10, <2>11 DEF Next
<1> QED BY <1>1, <1>2

\* A message that send() takes is kept for a connection to come as long as there
\* is room, and refused only when the relayer is down for good.
THEOREM SendAlwaysTruthful == Spec => []SendTruthful
<1>1. Init => NothingStranded /\ ExhaustedMeansDown
  BY DEF Init, NothingStranded, ExhaustedMeansDown
<1>2. RelayerInv => Len(offlineQueue) <= MaxPendingMessages
  BY DEF RelayerInv, TypeOK
<1> QED BY <1>1, <1>2, StrandedStep, ExhaustedStep, AlwaysInv, PTL DEF Spec, SendTruthful

-----------------------------------------------------------------------------
(* The order on the wire                                                   *)

\* Who waits for a timer or a socket under the lock does so because the relayer
\* is down.
BusyDown == \A t \in Task : pc[t] \in {"backoff", "opening"} => ~Connected

\* The messages inside the lock or in line for it, in the order they were sent.
LineInOrder ==
    /\ \A m \in Msg : \A i \in DOMAIN lockQueue :
          pc[m] = "granted" /\ lockQueue[i] \in Msg => m < lockQueue[i]
    /\ \A i, j \in DOMAIN lockQueue :
          i < j /\ lockQueue[i] \in Msg /\ lockQueue[j] \in Msg => lockQueue[i] < lockQueue[j]

\* What is on the wire comes before what is on its way, and that is in order,
\* whether it is queued offline or in the line of the lock.
MessagesInOrder ==
    /\ WireInOrder
    /\ \A i \in DOMAIN wire : wire[i] <= accepted
    /\ ~isDestroyed =>
          /\ \A m \in Msg : pc[m] # "idle" => Connected
          /\ LineInOrder
          /\ \A i, j \in DOMAIN offlineQueue : i < j => offlineQueue[i] < offlineQueue[j]
          /\ \A i \in DOMAIN wire :
                /\ \A j \in DOMAIN offlineQueue : wire[i] < offlineQueue[j]
                /\ \A m \in Msg : pc[m] # "idle" => wire[i] < m

\* send() takes a message through the line of the lock and nowhere else.
MessagePlaces == \A m \in Msg : pc[m] \in {"idle", "queued", "granted"}

OrderInv == RelayerInv /\ NothingStranded /\ BusyDown /\ MessagePlaces /\ MessagesInOrder

\* Where acquireLock() and releaseLock() leave the tasks they do not serve.
LEMMA AcquirePlaces ==
  ASSUME NEW p, NEW ts \in Seq(Task), AcquireFrom(p, ts)
  PROVE  \A t \in Task : pc'[t] \in {"granted", "queued"} \/ pc'[t] = p[t]
BY DEF AcquireFrom

LEMMA AcquireTakes ==
  ASSUME NEW p, NEW t \in Task, NEW ts \in Seq(Task), AcquireFrom(p, ts), DOMAIN ts = {1}, ts[1] = t
  PROVE  pc'[t] \in {"granted", "queued"}
<1>1. ts # <<>>
  OBVIOUS
<1> QED BY <1>1 DEF AcquireFrom

LEMMA ReleasePlaces ==
  ASSUME RelayerInv, NEW t \in Task, Holds(t), NEW q \in {"idle", "returning"}, Release(t, q)
  PROVE  /\ pc'[t] = q
         /\ \A u \in Task \ {t} : pc'[u] = pc[u] \/ (pc[u] = "queued" /\ pc'[u] = "granted")
<1>1. lockQueue # <<>> => Head(lockQueue) \in Task /\ pc[Head(lockQueue)] = "queued" /\ Head(lockQueue) # t
  BY DEF RelayerInv, TypeOK, LockOK, Holds
<1>2. pc \in [Task -> PCs]
  BY DEF RelayerInv, TypeOK
<1> QED BY <1>1, <1>2 DEF Release

\* A message that is not being sent starts to be sent only in send() or when an
\* open event flushes the offline queue.
LEMMA MessagesStayIdle ==
  ASSUME RelayerInv, [Next]_vars, NEW m \in Msg, pc[m] = "idle",
         \A s \in Socket : ~SocketOpen(s), \A n \in Msg : ~Send(n)
  PROVE  pc'[m] = "idle"
<1>0. m \in Task /\ m \notin Call \cup Socket /\ pc \in [Task -> PCs]
  BY Tasks DEF RelayerInv, TypeOK
<1>1. ASSUME NEW p, NEW t \in Call \cup Socket, AcquireFrom(p, <<t>>), p[m] = "idle" PROVE pc'[m] = "idle"
  <2> DEFINE ts == <<t>>
  <2>1. ts \in Seq(Task) /\ \A i \in DOMAIN ts : ts[i] # m
    BY <1>0, <1>1, Tasks
  <2>2. AcquireFrom(p, ts)
    BY <1>1
  <2> HIDE DEF ts
  <2> QED BY <1>0, <1>1, <2>1, <2>2, AcquireMoves
<1>2. ASSUME NEW p, AcquireFrom(p, <<>>), p[m] = "idle" PROVE pc'[m] = "idle"
  <2> DEFINE ts == <<>>
  <2>1. ts \in Seq(Task) /\ AcquireFrom(p, ts) /\ \A i \in DOMAIN ts : ts[i] # m
    BY <1>2
  <2> HIDE DEF ts
  <2> QED BY <1>0, <1>2, <2>1, AcquireMoves
<1>3. ASSUME NEW t \in Task, Holds(t), NEW q \in {"idle", "returning"}, Release(t, q) PROVE pc'[m] = "idle"
  BY <1>0, <1>3, ReleasePlaces DEF Holds
<1>4. ASSUME NEW t \in Call \cup Socket, NEW q, pc' = [pc EXCEPT ![t] = q] PROVE pc'[m] = "idle"
  BY <1>0, <1>4
<1>5. ASSUME NEW s \in Socket PROVE AfterSettling(s)[m] = "idle"
  <2>1. AfterSettling(s)[m] = pc[m] \/ pc[m] = "opening"
    BY <1>0, SettlingMoves
  <2> QED BY <2>1
<1>6. ASSUME NEW s \in Socket, NEW p, LoseConnection(s, p), p[m] = "idle" PROVE pc'[m] = "idle"
  BY <1>1, <1>2, <1>6 DEF LoseConnection
<1>7. ASSUME NEW t \in Call \cup Socket, EstablishConnection(t) PROVE pc'[m] = "idle"
  BY <1>4, <1>7 DEF EstablishConnection
<1>8. ASSUME NEW c \in Call, Connect(c) \/ DoConnect(c) \/ ConnectReturns(c) PROVE pc'[m] = "idle"
  <2>1. CASE Connect(c)
    BY <1>1, <2>1 DEF Connect, lockVars
  <2>2. CASE DoConnect(c)
    BY <1>3, <1>7, <2>2, Tasks DEF DoConnect, Holds
  <2>3. CASE ConnectReturns(c)
    BY <1>4, <2>3 DEF ConnectReturns
  <2> QED BY <1>8, <2>1, <2>2, <2>3
<1>9. ASSUME NEW t \in Socket, Reconnect(t) \/ BackoffEnds(t) PROVE pc'[m] = "idle"
  <2>1. CASE Reconnect(t)
    BY <1>3, <1>4, <2>1, Tasks DEF Reconnect, Holds
  <2>2. CASE BackoffEnds(t)
    BY <1>3, <1>7, <2>2, Tasks DEF BackoffEnds, Holds
  <2> QED BY <1>9, <2>1, <2>2
<1>10. ASSUME NEW t \in Call \cup Socket, AfterOpening(t) PROVE pc'[m] = "idle"
  BY <1>3, <1>10, Tasks DEF AfterOpening, Holds
<1>11. ASSUME NEW s \in Socket, SocketError(s) \/ PeerCloses(s) \/ SocketClose(s) \/ Frame(s)
       PROVE  pc'[m] = "idle"
  <2>1. CASE SocketError(s)
    BY <1>2, <1>5, <2>1 DEF SocketError
  <2>2. CASE SocketClose(s)
    BY <1>5, <1>6, <2>2 DEF SocketClose, lockVars
  <2>3. CASE PeerCloses(s) \/ Frame(s)
    BY <2>3 DEF PeerCloses, Frame, lockVars
  <2> QED BY <1>11, <2>1, <2>2, <2>3
<1>12. CASE HeartbeatTick \/ HeartbeatExpires
  <2>1. HeartbeatExpires => ws \in Socket
    BY DEF HeartbeatExpires, RelayerInv, TypeOK
  <2> QED BY <1>6, <1>12, <2>1 DEF HeartbeatTick, HeartbeatExpires, lockVars
<1>13. ASSUME NEW n \in Msg, SendLocked(n) PROVE pc'[m] = "idle"
  BY <1>3, <1>13, Tasks DEF SendLocked, Holds
<1>14. CASE Disconnect \/ Destroy \/ UNCHANGED vars
  BY <1>14 DEF Disconnect, Destroy, lockVars, vars
<1> QED BY <1>8, <1>9, <1>10, <1>11, <1>12, <1>13, <1>14 DEF Next

\* Where one step takes a task: into or along the line of the lock, out of it,
\* or, when it serves no message, on to an await of a relayer that is down.
LEMMA PlacesStep ==
  ASSUME RelayerInv, BusyDown, [Next]_vars, NEW t \in Task
  PROVE  \/ pc'[t] \in {pc[t], "granted", "queued", "idle"}
         \/ pc[t] = "opening" /\ pc'[t] = "settled"
         \/ t \notin Msg /\ (pc'[t] \in {"returning", "settled"} \/ ~Connected')
<1> DEFINE Placed == \/ pc'[t] \in {pc[t], "granted", "queued", "idle"}
                     \/ pc[t] = "opening" /\ pc'[t] = "settled"
                     \/ t \notin Msg /\ (pc'[t] \in {"returning", "settled"} \/ ~Connected')
<1>0. pc \in [Task -> PCs] /\ ws \in Socket \cup {None}
  BY DEF RelayerInv, TypeOK
<1>1. ASSUME NEW p, NEW u \in Task, AcquireFrom(p, <<u>>), p[t] = pc[t] \/ (pc[t] = "opening" /\ p[t] = "settled")
      PROVE  Placed
  <2> DEFINE ts == <<u>>
  <2>1. ts \in Seq(Task) /\ AcquireFrom(p, ts)
    BY <1>1
  <2> HIDE DEF ts
  <2> QED BY <1>1, <2>1, AcquirePlaces
<1>2. ASSUME NEW p, NEW ts \in Seq(Task), AcquireFrom(p, ts), p[t] = pc[t] \/ (pc[t] = "opening" /\ p[t] = "settled")
      PROVE  Placed
  BY <1>2, AcquirePlaces
<1>3. ASSUME NEW u \in Task, Holds(u), NEW q \in {"idle", "returning"}, Release(u, q), q = "idle" \/ u \notin Msg
      PROVE  Placed
  BY <1>3, ReleasePlaces
<1>4. ASSUME NEW u \in Task \ Msg, NEW q, pc' = [pc EXCEPT ![u] = q],
             q \in {"idle", "settled"} \/ ~Connected'
      PROVE  Placed
  BY <1>0, <1>4
<1>5. ASSUME NEW s \in Socket
      PROVE  AfterSettling(s)[t] = pc[t] \/ (pc[t] = "opening" /\ AfterSettling(s)[t] = "settled")
  BY SettlingMoves
<1>6. ASSUME NEW s \in Socket, NEW p, LoseConnection(s, p), p[t] = pc[t] \/ (pc[t] = "opening" /\ p[t] = "settled")
      PROVE  Placed
  <2> DEFINE none == <<>>
  <2>1. none \in Seq(Task) /\ s \in Task
    BY Tasks
  <2>2. AcquireFrom(p, <<s>>) \/ AcquireFrom(p, none)
    BY <1>6 DEF LoseConnection
  <2> HIDE DEF none
  <2> QED BY <1>1, <1>2, <1>6, <2>1, <2>2
<1>7. ASSUME NEW u \in Call \cup Socket, EstablishConnection(u), ~Connected PROVE Placed
  <2>1. u \in Task \ Msg
    BY Tasks
  <2>2. ~Connected'
    BY <1>7, EstablishIsDown
  <2> QED BY <1>4, <1>7, <2>1, <2>2 DEF EstablishConnection
<1>8. ASSUME UNCHANGED pc PROVE Placed
  BY <1>8
<1>9. Call \cup Socket \subseteq Task \ Msg
  BY Tasks
<1> HIDE DEF Placed
<1>10. ASSUME NEW c \in Call, Connect(c) \/ DoConnect(c) \/ ConnectReturns(c) PROVE Placed
  <2>1. CASE Connect(c)
    BY <1>1, <1>8, <1>9, <2>1 DEF Connect, lockVars
  <2>2. CASE DoConnect(c)
    BY <1>3, <1>7, <1>9, <2>2 DEF DoConnect, Holds
  <2>3. CASE ConnectReturns(c)
    BY <1>4, <1>9, <2>3 DEF ConnectReturns
  <2> QED BY <1>10, <2>1, <2>2, <2>3
<1>11. ASSUME NEW u \in Socket, Reconnect(u) PROVE Placed
  <2>1. CASE MayReconnect(ws)
    <3>1. ~Connected'
      BY <1>11, <2>1 DEF Reconnect, MayReconnect, Connected, IsOpen, socketVars
    <3> QED BY <1>4, <1>9, <1>11, <2>1, <3>1 DEF Reconnect
  <2>2. CASE ~MayReconnect(ws)
    BY <1>3, <1>9, <1>11, <2>2 DEF Reconnect, Holds
  <2> QED BY <2>1, <2>2
<1>12. ASSUME NEW u \in Socket, BackoffEnds(u) PROVE Placed
  <2>1. ~Connected
    BY <1>9, <1>12 DEF BackoffEnds, BusyDown
  <2> QED BY <1>3, <1>7, <1>9, <1>12, <2>1 DEF BackoffEnds, Holds
<1>13. ASSUME NEW u \in Call \cup Socket, AfterOpening(u) PROVE Placed
  BY <1>3, <1>9, <1>13 DEF AfterOpening, Holds
<1>14. ASSUME NEW s \in Socket, SocketOpen(s) PROVE Placed
  <2> DEFINE none == <<>>
  <2>1. PICK expired \in 0 .. IF OfflineTtl THEN Len(offlineQueue) ELSE 0 :
          LET kept == SubSeq(offlineQueue, expired + 1, Len(offlineQueue))
          IN  AcquireFrom(AfterSettling(s), kept) \/ AcquireFrom(AfterSettling(s), none)
    BY <1>14 DEF SocketOpen
  <2> DEFINE kept == SubSeq(offlineQueue, expired + 1, Len(offlineQueue))
  <2>2. kept \in Seq(Task) /\ none \in Seq(Task)
    BY Tasks DEF RelayerInv, TypeOK
  <2> HIDE DEF kept, none
  <2> QED BY <1>2, <1>5, <2>1, <2>2 DEF kept
<1>15. ASSUME NEW s \in Socket, SocketError(s) \/ PeerCloses(s) \/ SocketClose(s) \/ Frame(s) PROVE Placed
  <2>1. CASE SocketError(s)
    <3> DEFINE none == <<>>
    <3>1. none \in Seq(Task) /\ AcquireFrom(AfterSettling(s), none)
      BY <2>1 DEF SocketError
    <3> HIDE DEF none
    <3> QED BY <1>2, <1>5, <3>1
  <2>2. CASE SocketClose(s)
    BY <1>5, <1>6, <1>8, <2>2 DEF SocketClose, lockVars
  <2>3. CASE PeerCloses(s) \/ Frame(s)
    BY <1>8, <2>3 DEF PeerCloses, Frame, lockVars
  <2> QED BY <1>15, <2>1, <2>2, <2>3
<1>16. ASSUME HeartbeatTick \/ HeartbeatExpires PROVE Placed
  <2>1. HeartbeatExpires => ws \in Socket
    BY <1>0 DEF HeartbeatExpires
  <2>2. HeartbeatExpires => LoseConnection(ws, pc) \/ UNCHANGED pc
    BY DEF HeartbeatExpires, lockVars
  <2>3. HeartbeatTick => UNCHANGED pc
    BY DEF HeartbeatTick, lockVars
  <2>4. LoseConnection(ws, pc) /\ ws \in Socket => Placed
    BY <1>6
  <2> QED BY <1>8, <1>16, <2>1, <2>2, <2>3, <2>4
<1>17. ASSUME NEW m \in Msg, Send(m) \/ SendLocked(m) PROVE Placed
  <2>1. m \in Task
    BY Tasks
  <2> QED BY <1>1, <1>3, <1>8, <1>17, <2>1 DEF Send, SendLocked, Holds, lockVars
<1>18. ASSUME Disconnect \/ Destroy \/ UNCHANGED vars PROVE Placed
  BY <1>8, <1>18 DEF Disconnect, Destroy, lockVars, vars
<1>19. Placed
  <2>1. CASE Next
    BY <1>10, <1>11, <1>12, <1>13, <1>14, <1>15, <1>16, <1>17, <1>18, <2>1 DEF Next
  <2> QED BY <1>18, <2>1
<1> QED BY <1>19 DEF Placed

\* BusyDown: a task goes to wait only when the relayer is down, and the socket
\* that opens is the one the task inside the lock waits for.
LEMMA BusyDownStep ==
  RelayerInv /\ BusyDown /\ [Next]_vars => BusyDown'
<1> SUFFICES ASSUME RelayerInv, BusyDown, [Next]_vars, Connected',
                    NEW t \in Task, pc'[t] \in {"backoff", "opening"}
             PROVE  FALSE
  BY DEF BusyDown
<1>1. pc'[t] = pc[t]
  BY PlacesStep
<1>2. ~Connected
  BY <1>1 DEF BusyDown
<1>3. PICK s \in Socket : SocketOpen(s)
  BY <1>2, OnlyOpenConnects
<1>4. ~settled[s] /\ owner[s] \in Task /\ pc[owner[s]] = "opening" /\ pc \in [Task -> PCs]
  BY <1>3, Tasks DEF SocketOpen, RelayerInv, SocketOK, TypeOK
<1>5. t = owner[s]
  BY <1>1, <1>4 DEF RelayerInv, LockOK, LockExclusion, Holds
<1>6. AfterSettling(s)[t] = "settled"
  BY <1>4, <1>5 DEF AfterSettling
<1> DEFINE none == <<>>
<1>7. PICK expired \in 0 .. IF OfflineTtl THEN Len(offlineQueue) ELSE 0 :
        LET kept == SubSeq(offlineQueue, expired + 1, Len(offlineQueue))
        IN  AcquireFrom(AfterSettling(s), kept) \/ AcquireFrom(AfterSettling(s), none)
  BY <1>3 DEF SocketOpen
<1> DEFINE kept == SubSeq(offlineQueue, expired + 1, Len(offlineQueue))
<1>8. kept \in Seq(Task) /\ none \in Seq(Task)
  BY Tasks DEF RelayerInv, TypeOK
<1> HIDE DEF kept, none
<1>9. pc'[t] \in {"granted", "queued", "settled"}
  BY <1>6, <1>7, <1>8, AcquirePlaces DEF kept
<1> QED BY <1>9

\* A message being sent is in the line of the lock or inside it.
LEMMA MessagePlacesStep ==
  RelayerInv /\ BusyDown /\ MessagePlaces /\ [Next]_vars => MessagePlaces'
<1> SUFFICES ASSUME RelayerInv, BusyDown, MessagePlaces, [Next]_vars, NEW m \in Msg
             PROVE  pc'[m] \in {"idle", "queued", "granted"}
  BY DEF MessagePlaces
<1>1. m \in Task /\ pc[m] \in {"idle", "queued", "granted"}
  BY Tasks DEF MessagePlaces
<1>2. \/ pc'[m] \in {pc[m], "granted", "queued", "idle"}
      \/ pc[m] = "opening" /\ pc'[m] = "settled"
      \/ m \notin Msg /\ (pc'[m] \in {"returning", "settled"} \/ ~Connected')
  BY <1>1, PlacesStep
<1> QED BY <1>1, <1>2

\* While continuations are still to run, no event finds a message on its way.
LEMMA QuietMeansIdle ==
  ASSUME OrderInv, Quiet, ~isDestroyed, NEW m \in Msg
  PROVE  pc[m] = "idle"
<1> SUFFICES ASSUME pc[m] # "idle" PROVE FALSE
  OBVIOUS
<1>1. m \in Task /\ pc[m] = "queued" /\ Connected
  BY Tasks DEF OrderInv, MessagePlaces, MessagesInOrder, Quiet
<1>2. m \in Waiting /\ lockQueue \in Seq(Task)
  BY <1>1 DEF OrderInv, RelayerInv, LockOK, TypeOK
<1>3. lockQueue # <<>>
  BY <1>2 DEF Waiting
<1>4. PICK t \in Task : Holds(t)
  BY <1>3 DEF OrderInv, RelayerInv, LockOK
<1> QED BY <1>1, <1>4 DEF OrderInv, BusyDown, Quiet, Holds

\* acquireLock() puts messages at the end of the line, where they belong.
LEMMA LineAcquire ==
  ASSUME RelayerInv, LineInOrder, NEW p, NEW ts \in Seq(Task), AcquireFrom(p, ts),
         \A m \in Msg : p[m] = pc[m],
         \A m \in Msg : \A i \in DOMAIN ts : pc[m] # "idle" /\ ts[i] \in Msg => m < ts[i],
         \A i, j \in DOMAIN ts : i < j /\ ts[i] \in Msg /\ ts[j] \in Msg => ts[i] < ts[j]
  PROVE  LineInOrder'
<1>1. lockQueue \in Seq(Task) /\ pc \in [Task -> PCs]
      /\ \A i \in DOMAIN lockQueue : pc[lockQueue[i]] = "queued"
  BY DEF RelayerInv, TypeOK, LockOK
<1>2. CASE isLocked \/ ts = <<>>
  <2>1. /\ lockQueue' = lockQueue \o ts
        /\ pc' = [t \in Task |-> IF \E i \in DOMAIN ts : ts[i] = t THEN "queued" ELSE p[t]]
    BY <1>2 DEF AcquireFrom
  <2>2. \A m \in Msg : pc'[m] = "granted" => pc[m] = "granted"
    BY <2>1, Tasks
  <2>3. \A i \in DOMAIN lockQueue' : \/ i \in DOMAIN lockQueue /\ lockQueue'[i] = lockQueue[i]
                                     \/ /\ i - Len(lockQueue) \in DOMAIN ts
                                        /\ i > Len(lockQueue)
                                        /\ lockQueue'[i] = ts[i - Len(lockQueue)]
    BY <1>1, <2>1
  <2>4. ASSUME NEW m \in Msg, NEW i \in DOMAIN lockQueue', pc'[m] = "granted", lockQueue'[i] \in Msg
        PROVE  m < lockQueue'[i]
    BY <2>2, <2>3, <2>4 DEF LineInOrder
  <2>5. ASSUME NEW i \in DOMAIN lockQueue', NEW j \in DOMAIN lockQueue', i < j,
               lockQueue'[i] \in Msg, lockQueue'[j] \in Msg
        PROVE  lockQueue'[i] < lockQueue'[j]
    <3>0. i \in Nat /\ j \in Nat /\ Len(lockQueue) \in Nat /\ DOMAIN lockQueue = 1 .. Len(lockQueue)
      BY <1>1, <2>1
    <3>1. CASE j \in DOMAIN lockQueue /\ lockQueue'[j] = lockQueue[j]
      <4>1. i \in DOMAIN lockQueue /\ lockQueue'[i] = lockQueue[i]
        BY <2>3, <2>5, <3>0, <3>1
      <4> QED BY <2>5, <3>1, <4>1 DEF LineInOrder
    <3>2. CASE /\ j - Len(lockQueue) \in DOMAIN ts /\ j > Len(lockQueue)
               /\ lockQueue'[j] = ts[j - Len(lockQueue)]
      <4>1. CASE i \in DOMAIN lockQueue /\ lockQueue'[i] = lockQueue[i]
        BY <1>1, <2>5, <3>2, <4>1
      <4>2. CASE /\ i - Len(lockQueue) \in DOMAIN ts /\ i > Len(lockQueue)
                 /\ lockQueue'[i] = ts[i - Len(lockQueue)]
        <5>1. i - Len(lockQueue) < j - Len(lockQueue)
          BY <2>5, <3>0
        <5> QED BY <2>5, <3>2, <4>2, <5>1
      <4> QED BY <2>3, <4>1, <4>2
    <3> QED BY <2>3, <3>1, <3>2
  <2> QED BY <2>4, <2>5 DEF LineInOrder
<1>3. CASE ~(isLocked \/ ts = <<>>)
  <2>1. lockQueue = <<>>
    BY <1>3 DEF RelayerInv, LockOK
  <2>2. /\ lockQueue' = lockQueue \o Tail(ts)
        /\ pc' = [t \in Task |-> IF t \in {ts[1]} THEN "granted"
                                 ELSE IF \E i \in DOMAIN Tail(ts) : Tail(ts)[i] = t THEN "queued" ELSE p[t]]
    BY <1>3 DEF AcquireFrom
  <2>3. /\ lockQueue' = Tail(ts) /\ 1 \in DOMAIN ts
        /\ \A i \in DOMAIN Tail(ts) : i \in Nat /\ 1 < i + 1 /\ i + 1 \in DOMAIN ts /\ Tail(ts)[i] = ts[i + 1]
    BY <1>3, <2>1, <2>2
  <2>4. \A m \in Msg : pc'[m] = "granted" => m = ts[1] \/ pc[m] = "granted"
    BY <2>2, Tasks
  <2>5. ASSUME NEW m \in Msg, NEW i \in DOMAIN lockQueue', pc'[m] = "granted", lockQueue'[i] \in Msg
        PROVE  m < lockQueue'[i]
    BY <2>3, <2>4, <2>5
  <2>6. ASSUME NEW i \in DOMAIN lockQueue', NEW j \in DOMAIN lockQueue', i < j,
               lockQueue'[i] \in Msg, lockQueue'[j] \in Msg
        PROVE  lockQueue'[i] < lockQueue'[j]
    <3>1. i + 1 < j + 1
      BY <2>3, <2>6
    <3> QED BY <2>3, <2>6, <3>1
  <2> QED BY <2>5, <2>6 DEF LineInOrder
<1> QED BY <1>2, <1>3

\* releaseLock() serves the line from its head.
LEMMA LineRelease ==
  ASSUME RelayerInv, LineInOrder, NEW t \in Task, Holds(t), NEW q \in {"idle", "returning"}, Release(t, q)
  PROVE  LineInOrder'
<1>1. lockQueue \in Seq(Task) /\ pc \in [Task -> PCs]
  BY DEF RelayerInv, TypeOK
<1>2. \A m \in Msg : pc[m] = "granted" => m = t
  BY Tasks DEF RelayerInv, LockOK, LockExclusion, Holds
<1>3. CASE lockQueue = <<>>
  <2>1. lockQueue' = <<>>
    BY <1>3 DEF Release
  <2> QED BY <2>1 DEF LineInOrder
<1>4. CASE lockQueue # <<>>
  <2>1. lockQueue' = Tail(lockQueue) /\ pc' = [pc EXCEPT ![t] = q, ![Head(lockQueue)] = "granted"]
    BY <1>4 DEF Release
  <2>2. /\ Head(lockQueue) = lockQueue[1] /\ 1 \in DOMAIN lockQueue
        /\ \A i \in DOMAIN lockQueue' : /\ i \in Nat /\ 1 < i + 1 /\ i + 1 \in DOMAIN lockQueue
                                        /\ lockQueue'[i] = lockQueue[i + 1]
    BY <1>1, <1>4, <2>1
  <2>3. \A m \in Msg : pc'[m] = "granted" => m = lockQueue[1]
    BY <1>1, <1>2, <2>1, <2>2, Tasks
  <2>4. ASSUME NEW m \in Msg, NEW i \in DOMAIN lockQueue', pc'[m] = "granted", lockQueue'[i] \in Msg
        PROVE  m < lockQueue'[i]
    BY <2>2, <2>3, <2>4 DEF LineInOrder
  <2>5. ASSUME NEW i \in DOMAIN lockQueue', NEW j \in DOMAIN lockQueue', i < j,
               lockQueue'[i] \in Msg, lockQueue'[j] \in Msg
        PROVE  lockQueue'[i] < lockQueue'[j]
    <3>1. i + 1 < j + 1
      BY <2>2, <2>5
    <3> QED BY <2>2, <2>5, <3>1 DEF LineInOrder
  <2> QED BY <2>4, <2>5 DEF LineInOrder
<1> QED BY <1>3, <1>4

\* What a step that hands no message over, and leaves the relayer up while one
\* is on its way, has to show.
LEMMA MessagesHold ==
  ASSUME MessagesInOrder, ~isDestroyed, UNCHANGED <<isDestroyed, msgVars>>, LineInOrder',
         \A m \in Msg : pc'[m] # "idle" => pc[m] # "idle" /\ Connected'
  PROVE  MessagesInOrder'
BY DEF MessagesInOrder, WireInOrder, msgVars

\* Where no message is in the line of the lock, the line is in order.
LEMMA EmptyLineInOrder ==
  ASSUME RelayerInv, \A m \in Msg : pc[m] = "idle"
  PROVE  LineInOrder
BY Tasks DEF RelayerInv, LockOK, LineInOrder

\* A relayer at rest stays in order: no message is on its way.
LEMMA RestInOrder ==
  ASSUME OrderInv, [Next]_vars, ~isDestroyed, \A m \in Msg : pc[m] = "idle",
         \A s \in Socket : ~SocketOpen(s), \A m \in Msg : ~Send(m), ~Destroy
  PROVE  MessagesInOrder'
<1>1. \A m \in Msg : pc'[m] = "idle" /\ ~SendLocked(m)
  BY MessagesStayIdle DEF OrderInv, SendLocked
<1>2. RelayerInv'
  BY NextInv DEF OrderInv
<1>3. LineInOrder'
  BY <1>1, <1>2 DEF RelayerInv, LockOK, LineInOrder
<1>4. UNCHANGED <<isDestroyed, msgVars>>
  BY <1>1 DEF Next, Connect, DoConnect, ConnectReturns, Reconnect, BackoffEnds, AfterOpening,
     SocketError, PeerCloses, SocketClose, Frame, HeartbeatTick, HeartbeatExpires,
     Disconnect, msgVars, flagVars, vars
<1> QED BY <1>1, <1>3, <1>4, MessagesHold DEF OrderInv

\* A message on its way excludes events and timers, and a relayer that is down.
LEMMA BusyInOrder ==
  ASSUME OrderInv, [Next]_vars, ~isDestroyed, ~Quiet, Connected,
         \A m \in Msg : ~Send(m) /\ ~SendLocked(m), ~Destroy, ~Disconnect
  PROVE  MessagesInOrder'
<1>0. RelayerInv /\ LineInOrder /\ pc \in [Task -> PCs]
  BY DEF OrderInv, MessagesInOrder, RelayerInv, TypeOK
<1>1. ASSUME NEW t \in Call \cup Socket, Holds(t), NEW q \in {"idle", "returning"}, Release(t, q)
      PROVE  LineInOrder' /\ \A m \in Msg : pc'[m] # "idle" => pc[m] # "idle"
  <2>1. t \in Task /\ LineInOrder'
    BY <1>0, <1>1, Tasks, LineRelease
  <2>2. \A m \in Msg : pc'[m] # "idle" => pc[m] # "idle"
    BY <1>0, <1>1, <2>1, Tasks, ReleasePlaces
  <2> QED BY <2>1, <2>2
<1>2. ASSUME NEW c \in Call, Connect(c) PROVE MessagesInOrder'
  <2>1. CASE AcquireFrom(pc, <<c>>)
    <3> DEFINE ts == <<c>>
    <3>1. /\ ts \in Seq(Task) /\ AcquireFrom(pc, ts)
          /\ \A i \in DOMAIN ts : ts[i] \notin Msg
      BY <2>1, Tasks
    <3> HIDE DEF ts
    <3>2. LineInOrder'
      BY <1>0, <3>1, LineAcquire
    <3>3. \A m \in Msg : pc'[m] # "idle" => pc[m] # "idle"
      BY <3>1, Tasks, AcquireMoves
    <3> QED BY <1>2, <3>2, <3>3, MessagesHold DEF OrderInv, Connect, Connected, IsOpen, socketVars
  <2>2. CASE UNCHANGED lockVars
    <3>1. LineInOrder' /\ UNCHANGED pc
      BY <1>0, <2>2 DEF lockVars, LineInOrder
    <3> QED BY <1>2, <3>1, MessagesHold DEF OrderInv, Connect, Connected, IsOpen, socketVars
  <2> QED BY <1>2, <2>1, <2>2 DEF Connect
<1>3. ASSUME NEW c \in Call, DoConnect(c) PROVE MessagesInOrder'
  <2>1. Release(c, "returning") /\ Holds(c) /\ UNCHANGED <<ws, socketVars>>
    BY <1>3 DEF DoConnect, Holds
  <2>2. LineInOrder' /\ \A m \in Msg : pc'[m] # "idle" => pc[m] # "idle"
    BY <1>1, <2>1
  <2> QED BY <1>3, <2>1, <2>2, MessagesHold DEF OrderInv, DoConnect, Connected, IsOpen, socketVars, flagVars
<1>4. ASSUME NEW c \in Call, ConnectReturns(c) PROVE MessagesInOrder'
  <2>1. \A m \in Msg : pc'[m] = pc[m]
    BY <1>0, <1>4, Tasks DEF ConnectReturns
  <2>2. LineInOrder'
    BY <1>0, <1>4, <2>1 DEF ConnectReturns, LineInOrder
  <2> QED BY <1>4, <2>1, <2>2, MessagesHold DEF OrderInv, ConnectReturns, Connected, IsOpen, socketVars, flagVars
<1>5. ASSUME NEW t \in Socket, Reconnect(t) PROVE MessagesInOrder'
  <2>1. Release(t, "idle") /\ Holds(t) /\ UNCHANGED <<ws, socketVars, isDestroyed>>
    BY <1>5 DEF Reconnect, Holds, MayReconnect, Connected
  <2>2. LineInOrder' /\ \A m \in Msg : pc'[m] # "idle" => pc[m] # "idle"
    BY <1>1, <2>1
  <2> QED BY <1>5, <2>1, <2>2, MessagesHold DEF OrderInv, Reconnect, Connected, IsOpen, socketVars
<1>6. ASSUME NEW t \in Call \cup Socket, AfterOpening(t) PROVE MessagesInOrder'
  <2>1. Release(t, IF t \in Call THEN "returning" ELSE "idle") /\ Holds(t) /\ UNCHANGED <<ws, socketVars>>
    BY <1>6 DEF AfterOpening, Holds
  <2>2. LineInOrder' /\ \A m \in Msg : pc'[m] # "idle" => pc[m] # "idle"
    BY <1>1, <2>1
  <2> QED BY <1>6, <2>1, <2>2, MessagesHold DEF OrderInv, AfterOpening, Connected, IsOpen, socketVars, flagVars
<1>7. CASE UNCHANGED vars
  BY <1>7 DEF OrderInv, MessagesInOrder, WireInOrder, LineInOrder, Connected, IsOpen, vars, msgVars, socketVars,
     lockVars, flagVars
<1> QED BY <1>2, <1>3, <1>4, <1>5, <1>6, <1>7 DEF Next, BackoffEnds, SocketOpen, SocketError,
        PeerCloses, SocketClose, Frame, HeartbeatTick, HeartbeatExpires

\* onopen puts what is kept in the line of the lock, in the order of the queue.
LEMMA OpenInOrder ==
  ASSUME OrderInv, ~isDestroyed, NEW s \in Socket, SocketOpen(s)
  PROVE  MessagesInOrder'
<1> DEFINE none == <<>>
<1>0. RelayerInv /\ (\A m \in Msg : pc[m] = "idle") /\ LineInOrder /\ offlineQueue \in Seq(Msg)
  BY QuietMeansIdle DEF OrderInv, MessagesInOrder, RelayerInv, TypeOK, SocketOpen
<1>1. \A m \in Msg : AfterSettling(s)[m] = pc[m]
  BY <1>0, SettlingMoves, Tasks
<1>2. PICK expired \in 0 .. Len(offlineQueue) :
        LET kept == SubSeq(offlineQueue, expired + 1, Len(offlineQueue))
        IN  \/ Connected' /\ offlineQueue' = none /\ AcquireFrom(AfterSettling(s), kept)
            \/ offlineQueue' = kept /\ AcquireFrom(AfterSettling(s), none)
  <2>1. Len(offlineQueue) \in Nat /\ UNCHANGED ws
    BY <1>0 DEF SocketOpen
  <2> QED BY <2>1 DEF SocketOpen, Connected, IsOpen
<1> DEFINE kept == SubSeq(offlineQueue, expired + 1, Len(offlineQueue))
<1>3. \A i \in DOMAIN kept : /\ i \in Nat /\ expired + i \in DOMAIN offlineQueue
                             /\ kept[i] = offlineQueue[expired + i] /\ kept[i] \in Msg
  BY <1>0
<1>4. /\ kept \in Seq(Task) /\ none \in Seq(Task) /\ DOMAIN none = {}
      /\ \A i, j \in DOMAIN kept : i < j => kept[i] < kept[j]
  <2>1. offlineQueue \in Seq(Task) /\ kept \in Seq(Task)
    BY <1>0, Tasks
  <2>2. ASSUME NEW i \in DOMAIN kept, NEW j \in DOMAIN kept, i < j PROVE kept[i] < kept[j]
    <3>1. expired + i < expired + j
      BY <1>3, <2>2
    <3> QED BY <1>3, <3>1 DEF OrderInv, MessagesInOrder
  <2> QED BY <2>1, <2>2
<1> HIDE DEF kept, none
<1>5. UNCHANGED <<isDestroyed, accepted, wire>>
  BY DEF SocketOpen
<1>6. CASE Connected' /\ offlineQueue' = none /\ AcquireFrom(AfterSettling(s), kept)
  <2>1. LineInOrder'
    BY <1>0, <1>1, <1>4, <1>6, LineAcquire
  <2>2. \A m \in Msg : pc'[m] # "idle" => \E i \in DOMAIN kept : m = kept[i]
    BY <1>0, <1>1, <1>4, <1>6, AcquireMoves, Tasks
  <2>3. \A m \in Msg : pc'[m] # "idle" => \E i \in DOMAIN offlineQueue : m = offlineQueue[i]
    BY <1>3, <2>2
  <2> QED BY <1>4, <1>5, <1>6, <2>1, <2>3 DEF OrderInv, MessagesInOrder, WireInOrder
<1>7. CASE offlineQueue' = kept /\ AcquireFrom(AfterSettling(s), none)
  <2>1. LineInOrder'
    BY <1>0, <1>1, <1>4, <1>7, LineAcquire
  <2>2. \A t \in Task : pc'[t] = AfterSettling(s)[t]
    BY <1>4, <1>7, AcquireMoves
  <2>3. \A m \in Msg : pc'[m] = "idle"
    BY <1>0, <1>1, <2>2, Tasks
  <2> QED BY <1>3, <1>4, <1>5, <1>7, <2>1, <2>3 DEF OrderInv, MessagesInOrder, WireInOrder
<1> QED BY <1>2, <1>6, <1>7 DEF kept

\* send() puts the newest message last, wherever it goes.
LEMMA SendInOrder ==
  ASSUME OrderInv, ~isDestroyed, NEW m \in Msg, Send(m)
  PROVE  MessagesInOrder'
<1>0. /\ RelayerInv /\ LineInOrder /\ offlineQueue \in Seq(Msg) /\ wire \in Seq(Msg)
      /\ accepted \in Nat /\ pc \in [Task -> PCs] /\ m \in Task
      /\ m = accepted + 1 /\ accepted' = m /\ UNCHANGED <<wire, isDestroyed>>
  BY Tasks DEF OrderInv, MessagesInOrder, RelayerInv, TypeOK, Send, flagVars
<1>1. \A u \in Msg : pc[u] # "idle" => u < m
  <2> SUFFICES ASSUME NEW u \in Msg, ~(u < m) PROVE pc[u] = "idle"
    OBVIOUS
  <2>1. u > accepted
    BY <1>0, Tasks
  <2> QED BY <1>0, <2>1 DEF RelayerInv, MessageOK
<1>2. /\ \A i \in DOMAIN wire : wire[i] \in Nat /\ wire[i] <= accepted /\ wire[i] < m
      /\ \A i \in DOMAIN offlineQueue : offlineQueue[i] < m
  <2>0. /\ \A i \in DOMAIN wire : wire[i] \in Msg
        /\ \A i \in DOMAIN offlineQueue : offlineQueue[i] \in Msg
        /\ Msg \subseteq Nat
    BY <1>0, Tasks
  <2>1. \A i \in DOMAIN wire : wire[i] \in Nat /\ wire[i] <= accepted
    BY <2>0 DEF OrderInv, MessagesInOrder
  <2>2. \A i \in DOMAIN offlineQueue : offlineQueue[i] \in Nat /\ offlineQueue[i] <= accepted
    BY <1>0, <2>0 DEF RelayerInv, MessageOK
  <2> QED BY <1>0, <2>1, <2>2
<1>3. CASE UNCHANGED <<offlineQueue, lockVars>>
  <2>1. Connected' = Connected
    BY DEF Send, Connected, IsOpen, socketVars
  <2> QED BY <1>0, <1>2, <1>3, <2>1 DEF OrderInv, MessagesInOrder, WireInOrder, LineInOrder, lockVars
<1>4. CASE ~Connected /\ Queue(m) /\ UNCHANGED lockVars
  <2>1. \A u \in Msg : pc[u] = "idle" /\ pc'[u] = "idle"
    BY <1>4 DEF OrderInv, MessagesInOrder, lockVars
  <2>2. LineInOrder'
    BY <1>0, <1>4 DEF lockVars, LineInOrder
  <2>3. /\ \A i, j \in DOMAIN offlineQueue' : i < j => offlineQueue'[i] < offlineQueue'[j]
        /\ \A j \in DOMAIN offlineQueue' : offlineQueue'[j] = m
                                           \/ \E i \in DOMAIN offlineQueue : offlineQueue'[j] = offlineQueue[i]
    <3> DEFINE base == IF Len(offlineQueue) >= MaxPendingMessages THEN Tail(offlineQueue) ELSE offlineQueue
               d == IF Len(offlineQueue) >= MaxPendingMessages THEN 1 ELSE 0
    <3>1. base \in Seq(Msg) /\ offlineQueue' = Append(base, m)
      <4>1. Len(offlineQueue) >= MaxPendingMessages => offlineQueue # <<>>
        BY <1>0
      <4> QED BY <1>0, <1>4, <4>1 DEF Queue
    <3>2. d \in Nat /\ \A i \in DOMAIN base : i \in Nat /\ i + d \in DOMAIN offlineQueue /\ base[i] = offlineQueue[i + d]
      <4>1. CASE Len(offlineQueue) >= MaxPendingMessages
        <5>1. offlineQueue # <<>> /\ base = Tail(offlineQueue) /\ d = 1
          BY <1>0, <4>1
        <5>2. \A i \in DOMAIN base : i \in Nat /\ i + 1 \in DOMAIN offlineQueue /\ base[i] = offlineQueue[i + 1]
          BY <1>0, <5>1
        <5> QED BY <5>1, <5>2
      <4>2. CASE ~(Len(offlineQueue) >= MaxPendingMessages)
        BY <1>0, <4>2
      <4> QED BY <4>1, <4>2
    <3> HIDE DEF base, d
    <3>3. \A i, j \in DOMAIN base : i < j => base[i] < base[j]
      <4> SUFFICES ASSUME NEW i \in DOMAIN base, NEW j \in DOMAIN base, i < j PROVE base[i] < base[j]
        OBVIOUS
      <4>1. i + d < j + d
        BY <3>2
      <4> QED BY <3>2, <4>1 DEF OrderInv, MessagesInOrder
    <3>4. \A i \in DOMAIN base : base[i] < m
      BY <1>2, <3>2
    <3>5. /\ Len(base) \in Nat /\ DOMAIN base = 1 .. Len(base)
          /\ DOMAIN offlineQueue' = 1 .. (Len(base) + 1) /\ offlineQueue'[Len(base) + 1] = m
          /\ \A i \in DOMAIN base : offlineQueue'[i] = base[i]
      BY <3>1
    <3>6. \A i \in DOMAIN offlineQueue' : i \in DOMAIN base \/ i = Len(base) + 1
      BY <3>5
    <3>7. ASSUME NEW i \in DOMAIN offlineQueue', NEW j \in DOMAIN offlineQueue', i < j
          PROVE  offlineQueue'[i] < offlineQueue'[j]
      <4>1. i \in DOMAIN base
        BY <3>5, <3>7
      <4> QED BY <3>3, <3>4, <3>5, <3>6, <3>7, <4>1
    <3>8. \A j \in DOMAIN offlineQueue' : offlineQueue'[j] = m
                                          \/ \E i \in DOMAIN offlineQueue : offlineQueue'[j] = offlineQueue[i]
      BY <3>2, <3>5, <3>6
    <3> QED BY <3>7, <3>8
  <2>4. \A i \in DOMAIN wire : \A j \in DOMAIN offlineQueue' : wire[i] < offlineQueue'[j]
    BY <1>2, <2>3 DEF OrderInv, MessagesInOrder
  <2>5. \A i \in DOMAIN wire : wire[i] <= m
    BY <1>0, <1>2
  <2> QED BY <1>0, <2>1, <2>2, <2>3, <2>4, <2>5 DEF OrderInv, MessagesInOrder, WireInOrder
<1>5. CASE Connected /\ AcquireFrom(pc, <<m>>) /\ UNCHANGED offlineQueue
  <2> DEFINE ts == <<m>>
  <2>1. ts \in Seq(Task) /\ DOMAIN ts = {1} /\ ts[1] = m /\ AcquireFrom(pc, ts)
    BY <1>0, <1>5
  <2> HIDE DEF ts
  <2>2. LineInOrder'
    BY <1>0, <1>1, <2>1, LineAcquire
  <2>3. \A u \in Msg : pc'[u] # "idle" => u = m \/ pc[u] # "idle"
    BY <2>1, AcquireMoves, Tasks
  <2>4. Connected'
    BY <1>5 DEF Send, Connected, IsOpen, socketVars
  <2>5. \A i \in DOMAIN wire : wire[i] <= m
    BY <1>0, <1>2
  <2> QED BY <1>0, <1>2, <1>5, <2>2, <2>3, <2>4, <2>5 DEF OrderInv, MessagesInOrder, WireInOrder
<1> QED BY <1>3, <1>4, <1>5 DEF Send

\* The message inside the lock is the first of those on their way.
LEMMA SendLockedInOrder ==
  ASSUME OrderInv, ~isDestroyed, NEW m \in Msg, SendLocked(m)
  PROVE  MessagesInOrder'
<1>0. /\ RelayerInv /\ LineInOrder /\ wire \in Seq(Msg) /\ pc \in [Task -> PCs] /\ m \in Task
      /\ Connected /\ offlineQueue = <<>> /\ Holds(m) /\ Release(m, "idle")
      /\ UNCHANGED <<accepted, isDestroyed>> /\ Connected'
  BY Tasks DEF OrderInv, MessagesInOrder, NothingStranded, RelayerInv, TypeOK, SendLocked, Holds, flagVars,
     Connected, IsOpen, socketVars
<1>1. LineInOrder'
  BY <1>0, LineRelease
<1>2. \A u \in Msg : pc'[u] # "idle" => u # m /\ pc[u] # "idle"
  BY <1>0, ReleasePlaces, Tasks
<1>3. \A u \in Msg : u # m /\ pc[u] # "idle" => m < u
  <2> SUFFICES ASSUME NEW u \in Msg, u # m, pc[u] # "idle" PROVE m < u
    OBVIOUS
  <2>1. pc[u] = "queued" /\ u \in Task
    BY <1>0, Tasks DEF OrderInv, MessagePlaces, RelayerInv, LockOK, LockExclusion, Holds
  <2>2. PICK i \in DOMAIN lockQueue : lockQueue[i] = u
    BY <1>0, <2>1 DEF RelayerInv, LockOK, Waiting
  <2> QED BY <1>0, <2>2 DEF LineInOrder, SendLocked
<1>4. m <= accepted /\ m \in Nat /\ accepted \in Nat /\ \A i \in DOMAIN wire : wire[i] < m
  <2>1. accepted \in Nat /\ m \in Nat /\ pc[m] # "idle"
    BY Tasks DEF OrderInv, RelayerInv, TypeOK, SendLocked
  <2> QED BY <1>0, <2>1 DEF OrderInv, MessagesInOrder, RelayerInv, MessageOK
<1>5. offlineQueue' = <<>>
  BY <1>0 DEF SendLocked
<1>6. CASE UNCHANGED wire
  BY <1>0, <1>1, <1>2, <1>5, <1>6 DEF OrderInv, MessagesInOrder, WireInOrder
<1>7. CASE wire' = Append(wire, m)
  <2>1. /\ Len(wire) \in Nat /\ DOMAIN wire = 1 .. Len(wire) /\ DOMAIN wire' = 1 .. (Len(wire) + 1)
        /\ wire'[Len(wire) + 1] = m
        /\ \A i \in DOMAIN wire : wire'[i] = wire[i]
    BY <1>0, <1>7
  <2>2. \A i \in DOMAIN wire' : i \in DOMAIN wire \/ i = Len(wire) + 1
    BY <2>1
  <2>3. WireInOrder'
    <3> SUFFICES ASSUME NEW i \in DOMAIN wire', NEW j \in DOMAIN wire', i < j PROVE wire'[i] < wire'[j]
      BY DEF WireInOrder
    <3>1. i \in DOMAIN wire
      BY <2>1
    <3> QED BY <1>4, <2>1, <2>2, <3>1 DEF OrderInv, MessagesInOrder, WireInOrder
  <2>4. \A i \in DOMAIN wire' : wire'[i] <= accepted
    BY <1>4, <2>1, <2>2 DEF OrderInv, MessagesInOrder
  <2>5. \A i \in DOMAIN wire' : \A u \in Msg : pc'[u] # "idle" => wire'[i] < u
    BY <1>2, <1>3, <2>1, <2>2 DEF OrderInv, MessagesInOrder
  <2> QED BY <1>0, <1>1, <1>2, <1>5, <2>3, <2>4, <2>5 DEF MessagesInOrder
<1> QED BY <1>0, <1>6, <1>7 DEF SendLocked

\* MessagesInOrder: every step keeps it, but for disconnect(), which lets a
\* message that waits for the lock be queued again behind a later one.
LEMMA MessagesStep ==
  ASSUME OrderInv, [Next]_vars, ~Disconnect
  PROVE  MessagesInOrder'
<1>1. CASE isDestroyed
  <2>1. wire' = wire /\ isDestroyed' /\ (accepted' = accepted \/ accepted' = accepted + 1)
    BY <1>1 DEF Next, Connect, DoConnect, ConnectReturns, Reconnect, BackoffEnds, AfterOpening,
       SocketOpen, SocketError, PeerCloses, SocketClose, Frame, HeartbeatTick, HeartbeatExpires,
       Send, SendLocked, Destroy, msgVars, flagVars, vars
  <2>2. accepted \in Nat /\ \A i \in DOMAIN wire : wire[i] \in Nat
    BY Tasks DEF OrderInv, RelayerInv, TypeOK
  <2> QED BY <2>1, <2>2 DEF OrderInv, MessagesInOrder, WireInOrder
<1>2. CASE Destroy
  BY <1>2 DEF OrderInv, MessagesInOrder, WireInOrder, Destroy
<1>3. CASE ~isDestroyed /\ ~Destroy
  <2>1. ASSUME \A m \in Msg : ~Send(m) /\ ~SendLocked(m), \A s \in Socket : ~SocketOpen(s)
        PROVE  MessagesInOrder'
    <3>1. CASE \A m \in Msg : pc[m] = "idle"
      BY <1>3, <2>1, <3>1, RestInOrder
    <3>2. CASE ~\A m \in Msg : pc[m] = "idle"
      <4>1. Connected /\ ~Quiet
        BY <1>3, <3>2, QuietMeansIdle DEF OrderInv, MessagesInOrder
      <4> QED BY <1>3, <2>1, <4>1, BusyInOrder
    <3> QED BY <3>1, <3>2
  <2> QED BY <1>3, <2>1, OpenInOrder, SendInOrder, SendLockedInOrder
<1> QED BY <1>1, <1>2, <1>3

\* Messages reach the wire in the order in which send() took them, for an
\* application that leaves disconnect() alone: its close of a socket that
\* messages wait to be written to is what puts them behind later ones.
THEOREM WireAlwaysInOrder == "disconnect" \notin UserOps => (Spec => []WireInOrder)
<1> SUFFICES ASSUME "disconnect" \notin UserOps PROVE Spec => []WireInOrder
  OBVIOUS
<1>1. Init => OrderInv
  <2> SUFFICES ASSUME Init PROVE OrderInv
    OBVIOUS
  <2>1. wire = <<>> /\ lockQueue = <<>> /\ offlineQueue = <<>> /\ pc = [t \in Task |-> "idle"] /\ ws = None
    BY DEF Init
  <2> QED BY <2>1, InitInv, Tasks DEF OrderInv, NothingStranded, BusyDown, MessagePlaces, MessagesInOrder,
             WireInOrder, LineInOrder
<1>2. OrderInv /\ [Next]_vars => OrderInv'
  <2> SUFFICES ASSUME OrderInv, [Next]_vars PROVE OrderInv'
    OBVIOUS
  <2>1. ~Disconnect
    BY DEF Disconnect
  <2>2. RelayerInv' /\ NothingStranded' /\ BusyDown' /\ MessagePlaces'
    BY NextInv, StrandedStep, BusyDownStep, MessagePlacesStep DEF OrderInv
  <2>3. MessagesInOrder'
    BY <2>1, MessagesStep
  <2> QED BY <2>2, <2>3 DEF OrderInv
<1>3. OrderInv => WireInOrder
  BY DEF OrderInv, MessagesInOrder
<1> QED BY <1>1, <1>2, <1>3, PTL DEF Spec

-----------------------------------------------------------------------------
(* The promise never to go silent                                          *)

\* What may still bring the relayer on: the close of a socket that it hears, or
\* a task that is going to open one.
Noticeable == \E s \in Socket : "close" \in attached[s]
AtWork == {"queued", "granted", "backoff", "opening"}
Working == \E t \in Call \cup Socket : pc[t] \in AtWork
Announced == stateTransition \in {"connecting", "connected", "reconnecting"}

\* A task does not count once disconnect() has switched reconnection off, as it
\* then gives up without a word.
SilentOK ==
    ~isDestroyed =>
        /\ \A s \in Socket : attached[s] \in {{}, Events}
        /\ Announced => Noticeable \/ Working
        /\ Announced /\ ~reconnectEnabled => Noticeable

SilentInv == RelayerInv /\ SilentOK

\* What a step that leaves the sockets and the announcement alone has to show.
LEMMA SilentKeeps ==
  ASSUME SilentOK, UNCHANGED <<isDestroyed, attached, stateTransition>>,
         reconnectEnabled => reconnectEnabled',
         \A t \in Call \cup Socket : pc[t] \in AtWork => pc'[t] \in AtWork
  PROVE  SilentOK'
<1>1. Noticeable' = Noticeable /\ Announced' = Announced /\ (Working => Working')
  BY DEF Noticeable, Announced, Working
<1> QED BY <1>1 DEF SilentOK

\* A socket that is heard is all it takes.
LEMMA HeardKeeps ==
  ASSUME \A s \in Socket : attached'[s] \in {{}, Events}, NEW s \in Socket, "close" \in attached'[s]
  PROVE  SilentOK'
<1>1. Noticeable'
  BY DEF Noticeable
<1> QED BY <1>1 DEF SilentOK

LEMMA EstablishHeard ==
  ASSUME SilentInv, ~isDestroyed, ~ConstructorThrows, NEW t, EstablishConnection(t)
  PROVE  SilentOK'
<1>1. PICK s \in Socket : attached' = [attached EXCEPT ![s] = Events]
  BY DEF EstablishConnection
<1>2. attached \in [Socket -> SUBSET Events] /\ \A u \in Socket : attached[u] \in {{}, Events}
  BY DEF SilentInv, RelayerInv, TypeOK, SilentOK
<1>3. (\A u \in Socket : attached'[u] \in {{}, Events}) /\ attached'[s] = Events
  BY <1>1, <1>2
<1> QED BY <1>3, HeardKeeps DEF Events

LEMMA LossKeeps ==
  ASSUME SilentInv, ~isDestroyed, NEW s \in Socket, NEW p, LoseConnection(s, p),
         attached' = [attached EXCEPT ![s] = {}], UNCHANGED <<isDestroyed, reconnectEnabled>>
  PROVE  SilentOK'
<1>1. \A u \in Socket : attached'[u] \in {{}, Events}
  BY DEF SilentInv, RelayerInv, TypeOK, SilentOK
<1>2. CASE MayReconnect(None)
  <2> DEFINE ts == <<s>>
  <2>1. ts \in Seq(Task) /\ DOMAIN ts = {1} /\ ts[1] = s /\ AcquireFrom(p, ts) /\ s \in Task
    BY <1>2, Tasks DEF LoseConnection
  <2> HIDE DEF ts
  <2>2. pc'[s] \in {"granted", "queued"}
    BY <2>1, AcquireTakes
  <2>3. Working' /\ reconnectEnabled'
    BY <1>2, <2>2 DEF Working, AtWork, MayReconnect
  <2> QED BY <1>1, <2>3 DEF SilentOK
<1>3. CASE ~MayReconnect(None)
  <2>1. stateTransition' = "disconnected"
    BY <1>3 DEF LoseConnection, GiveUp
  <2> QED BY <1>1, <2>1 DEF SilentOK, Announced
<1> QED BY <1>2, <1>3

LEMMA SilentStep ==
  ASSUME SilentInv, [Next]_vars, ~ConstructorThrows
  PROVE  SilentOK'
<1>0. RelayerInv /\ SilentOK /\ pc \in [Task -> PCs] /\ ws \in Socket \cup {None}
      /\ attached \in [Socket -> SUBSET Events]
  BY DEF SilentInv, RelayerInv, TypeOK
<1> SUFFICES ASSUME ~isDestroyed PROVE SilentOK'
  <2>1. isDestroyed => isDestroyed'
    BY DEF Next, Connect, DoConnect, ConnectReturns, Reconnect, BackoffEnds, AfterOpening,
       SocketOpen, SocketError, PeerCloses, SocketClose, Frame, HeartbeatTick, HeartbeatExpires,
       Send, SendLocked, Disconnect, Destroy, flagVars, vars
  <2> QED BY <2>1 DEF SilentOK
<1>1. ASSUME NEW u \in Task, AcquireFrom(pc, <<u>>), NEW t \in Call \cup Socket, pc[t] \in AtWork
      PROVE  pc'[t] \in AtWork
  <2> DEFINE ts == <<u>>
  <2>1. ts \in Seq(Task) /\ AcquireFrom(pc, ts) /\ t \in Task
    BY <1>1, Tasks
  <2> HIDE DEF ts
  <2> QED BY <1>1, <2>1, AcquirePlaces DEF AtWork
<1>2. ASSUME NEW u \in Task, Holds(u), NEW q \in {"idle", "returning"}, Release(u, q),
             NEW t \in Call \cup Socket, t # u, pc[t] \in AtWork
      PROVE  pc'[t] \in AtWork
  BY <1>0, <1>2, ReleasePlaces, Tasks DEF AtWork
<1>3. ASSUME NEW s \in Socket, attached[s] # {}, UNCHANGED attached PROVE SilentOK'
  <2>1. \A u \in Socket : attached'[u] \in {{}, Events}
    BY <1>0, <1>3 DEF SilentOK
  <2>2. "close" \in attached'[s]
    BY <1>3, <2>1 DEF Events
  <2> QED BY <2>1, <2>2, HeardKeeps
<1>4. ASSUME UNCHANGED <<isDestroyed, reconnectEnabled, attached, stateTransition, pc>> PROVE SilentOK'
  BY <1>0, <1>4, SilentKeeps
<1>5. ASSUME NEW c \in Call, Connect(c) PROVE SilentOK'
  <2>1. \A t \in Call \cup Socket : pc[t] \in AtWork => pc'[t] \in AtWork
    BY <1>1, <1>5, Tasks DEF Connect, lockVars
  <2> QED BY <1>0, <1>5, <2>1, SilentKeeps DEF Connect, socketVars
<1>6. ASSUME NEW c \in Call, DoConnect(c) PROVE SilentOK'
  <2>1. CASE Connected
    <3>1. ws \in Socket /\ attached[ws] # {}
      BY <1>0, <2>1 DEF Connected, IsOpen, RelayerInv, SocketOK, Events
    <3> QED BY <1>3, <1>6, <2>1, <3>1 DEF DoConnect, socketVars
  <2>2. CASE ~Connected
    BY <1>6, <2>2, EstablishHeard DEF DoConnect
  <2> QED BY <2>1, <2>2
<1>7. ASSUME NEW c \in Call, ConnectReturns(c) PROVE SilentOK'
  <2>1. \A t \in Call \cup Socket : pc[t] \in AtWork => pc'[t] \in AtWork
    BY <1>0, <1>7, Tasks DEF ConnectReturns, AtWork
  <2> QED BY <1>0, <1>7, <2>1, SilentKeeps DEF ConnectReturns, socketVars, flagVars
<1>8. ASSUME NEW t \in Call \cup Socket, AfterOpening(t) PROVE SilentOK'
  <2>1. /\ t \in Task /\ Holds(t) /\ pc[t] \notin AtWork
        /\ Release(t, IF t \in Call THEN "returning" ELSE "idle")
    BY <1>8, Tasks DEF AfterOpening, Holds, AtWork
  <2>2. \A u \in Call \cup Socket : pc[u] \in AtWork => pc'[u] \in AtWork
    BY <1>2, <2>1
  <2> QED BY <1>0, <1>8, <2>2, SilentKeeps DEF AfterOpening, socketVars, flagVars
<1>9. ASSUME NEW t \in Socket, Reconnect(t) PROVE SilentOK'
  <2>1. CASE MayReconnect(ws)
    <3>1. t \in Task /\ pc'[t] = "backoff" /\ reconnectEnabled' /\ UNCHANGED <<attached, isDestroyed>>
      BY <1>0, <1>9, <2>1, Tasks DEF Reconnect, MayReconnect, socketVars
    <3>2. Working'
      BY <3>1 DEF Working, AtWork
    <3> QED BY <1>0, <3>1, <3>2 DEF SilentOK
  <2>2. CASE ~MayReconnect(ws)
    <3>1. stateTransition' = "disconnected" /\ UNCHANGED <<attached, isDestroyed>>
      BY <1>9, <2>2 DEF Reconnect, GiveUp, socketVars
    <3> QED BY <1>0, <3>1 DEF SilentOK, Announced
  <2> QED BY <2>1, <2>2
<1>10. ASSUME NEW t \in Socket, BackoffEnds(t) PROVE SilentOK'
  <2>1. CASE ~reconnectEnabled
    <3>1. UNCHANGED <<attached, stateTransition, isDestroyed, reconnectEnabled>>
      BY <1>10, <2>1 DEF BackoffEnds, flagVars, socketVars
    <3>2. Announced => Noticeable
      BY <1>0, <2>1 DEF SilentOK
    <3>3. Announced' = Announced /\ Noticeable' = Noticeable
      BY <3>1 DEF Announced, Noticeable
    <3> QED BY <1>0, <3>1, <3>2, <3>3 DEF SilentOK
  <2>2. CASE reconnectEnabled
    BY <1>10, <2>2, EstablishHeard DEF BackoffEnds
  <2> QED BY <2>1, <2>2
<1>11. ASSUME NEW s \in Socket, SocketOpen(s) \/ SocketError(s) PROVE SilentOK'
  BY <1>3, <1>11 DEF SocketOpen, SocketError
<1>12. ASSUME NEW s \in Socket, SocketClose(s) PROVE SilentOK'
  <2>1. CASE "close" \in attached[s]
    <3>1. LoseConnection(s, AfterSettling(s))
      BY <1>12, <2>1 DEF SocketClose
    <3> QED BY <1>12, <3>1, LossKeeps DEF SocketClose
  <2>2. CASE "close" \notin attached[s]
    <3>1. attached[s] = {}
      BY <1>0, <2>2 DEF SilentOK, Events
    <3>2. attached' = attached
      BY <1>0, <1>12, <3>1 DEF SocketClose
    <3> QED BY <1>4, <1>12, <2>2, <3>2 DEF SocketClose, lockVars
  <2> QED BY <2>1, <2>2
<1>13. ASSUME NEW s \in Socket, PeerCloses(s) \/ Frame(s) PROVE SilentOK'
  BY <1>4, <1>13 DEF PeerCloses, Frame, lockVars, flagVars, socketVars
<1>14. CASE HeartbeatTick
  BY <1>4, <1>14 DEF HeartbeatTick, lockVars, flagVars, socketVars
<1>15. CASE HeartbeatExpires
  <2>1. ws \in Socket /\ LoseConnection(ws, pc) /\ attached' = [attached EXCEPT ![ws] = {}]
        /\ UNCHANGED <<isDestroyed, reconnectEnabled>>
    BY <1>0, <1>15 DEF HeartbeatExpires
  <2> QED BY <2>1, LossKeeps
<1>16. ASSUME NEW m \in Msg, Send(m) \/ SendLocked(m) PROVE SilentOK'
  <2>1. \A t \in Call \cup Socket : pc[t] \in AtWork => pc'[t] \in AtWork
    <3>1. m \in Task /\ m \notin Call \cup Socket
      BY Tasks
    <3> QED BY <1>1, <1>2, <1>16, <3>1 DEF Send, SendLocked, Holds, lockVars
  <2> QED BY <1>0, <1>16, <2>1, SilentKeeps DEF Send, SendLocked, socketVars, flagVars
<1>17. CASE Disconnect
  BY <1>0, <1>17 DEF Disconnect, SilentOK, Announced
<1>18. CASE Destroy
  BY <1>18 DEF Destroy, SilentOK
<1>19. CASE UNCHANGED vars
  BY <1>4, <1>19 DEF vars, lockVars, flagVars, socketVars
<1> QED BY <1>5, <1>6, <1>7, <1>8, <1>9, <1>10, <1>11, <1>12, <1>13, <1>14, <1>15, <1>16, <1>17,
        <1>18, <1>19 DEF Next

\* When the application was last told of a connection or an attempt, the relayer
\* is connected, at work, or will hear the close of a socket, as long as every
\* new WebSocket() returns one: a reconnection whose constructor throws ends
\* without a word.
THEOREM RelayerNeverSilent == ~ConstructorThrows => (Spec => []NeverSilent)
<1> SUFFICES ASSUME ~ConstructorThrows PROVE Spec => []NeverSilent
  OBVIOUS
<1>1. Init => SilentInv
  <2> SUFFICES ASSUME Init PROVE SilentInv
    OBVIOUS
  <2> QED BY InitInv DEF Init, SilentInv, SilentOK, Announced
<1>2. SilentInv /\ [Next]_vars => SilentInv'
  BY SilentStep, NextInv DEF SilentInv
<1>3. SilentInv => NeverSilent
  <2> SUFFICES ASSUME SilentInv, Idle, ~isDestroyed, Announced PROVE Noticeable
    BY DEF NeverSilent, Announced, Noticeable
  <2>1. \A t \in Task : ~Holds(t)
    BY DEF Idle
  <2>2. ASSUME NEW t \in Call \cup Socket, pc[t] \in AtWork PROVE FALSE
    <3>1. t \in Task /\ pc[t] = "queued"
      BY <2>1, <2>2, Tasks DEF Holds, AtWork
    <3>2. t \in Waiting /\ lockQueue \in Seq(Task)
      BY <3>1 DEF SilentInv, RelayerInv, LockOK, TypeOK
    <3>3. lockQueue # <<>>
      BY <3>2 DEF Waiting
    <3> QED BY <2>1, <3>3 DEF SilentInv, RelayerInv, LockOK
  <2> QED BY <2>2 DEF SilentInv, SilentOK, Working
<1> QED BY <1>1, <1>2, <1>3, PTL DEF Spec

-----------------------------------------------------------------------------
(* The channel                                                             *)

\* The messages the channel holds: those being sent, and those queued offline.
Offline == {m \in Msg : \E i \in DOMAIN offlineQueue : offlineQueue[i] = m}
Pending == {m \in Msg : pc[m] # "idle" \/ \E i \in DOMAIN offlineQueue : offlineQueue[i] = m}

\* _queueMessage() adds one message and makes room for it at the other's expense.
LEMMA QueueHolds ==
  ASSUME offlineQueue \in Seq(Msg), NEW m \in Msg, Queue(m)
  PROVE  Offline' \subseteq Offline \cup {m}
<1>1. CASE Len(offlineQueue) >= MaxPendingMessages
  <2>1. offlineQueue # <<>> /\ offlineQueue' = Append(Tail(offlineQueue), m)
    BY <1>1 DEF Queue
  <2>2. \A i \in DOMAIN offlineQueue' : offlineQueue'[i] = m \/ \E j \in DOMAIN offlineQueue : offlineQueue'[i] = offlineQueue[j]
    <3>1. \A i \in DOMAIN offlineQueue' : \/ offlineQueue'[i] = m
                                          \/ i + 1 \in DOMAIN offlineQueue /\ offlineQueue'[i] = offlineQueue[i + 1]
      BY <2>1
    <3> QED BY <3>1
  <2> QED BY <2>2 DEF Offline
<1>2. CASE ~(Len(offlineQueue) >= MaxPendingMessages)
  <2>1. offlineQueue' = Append(offlineQueue, m)
    BY <1>2 DEF Queue
  <2>2. \A i \in DOMAIN offlineQueue' : offlineQueue'[i] = m \/ (i \in DOMAIN offlineQueue /\ offlineQueue'[i] = offlineQueue[i])
    BY <2>1
  <2> QED BY <2>2 DEF Offline
<1> QED BY <1>1, <1>2

\* send(): the message becomes one of the channel's, or is refused.
LEMMA SendAccepts ==
  ASSUME RelayerInv, NEW m \in Msg, Send(m)
  PROVE  /\ m = accepted + 1 /\ accepted' = m /\ wire' = wire
         /\ Pending' \subseteq Pending \cup {m}
<1>0. m = accepted + 1 /\ accepted' = m /\ wire' = wire /\ pc \in [Task -> PCs] /\ m \in Task
  BY Tasks DEF Send, RelayerInv, TypeOK
<1>1. \A t \in Task \ {m} : pc'[t] = pc[t]
  <2>1. CASE AcquireFrom(pc, <<m>>)
    <3> DEFINE ts == <<m>>
    <3>1. ts \in Seq(Task) /\ AcquireFrom(pc, ts) /\ \A i \in DOMAIN ts : ts[i] = m
      BY <1>0, <2>1
    <3> HIDE DEF ts
    <3> QED BY <3>1, AcquireMoves
  <2> QED BY <2>1 DEF Send, lockVars
<1>2. Offline' \subseteq Offline \cup {m}
  BY QueueHolds DEF Send, Offline, RelayerInv, TypeOK
<1> QED BY <1>0, <1>1, <1>2, Tasks DEF Pending, Offline

\* Under the lock a message is dropped, kept or written, and never two at once.
LEMMA SendLockedWrites ==
  ASSUME RelayerInv, NEW m \in Msg, SendLocked(m)
  PROVE  /\ accepted' = accepted /\ m \in Pending
         /\ \/ wire' = wire /\ Pending' \subseteq Pending
            \/ wire' = Append(wire, m) /\ Pending' = Pending \ {m}
<1>0. m \in Task /\ Holds(m) /\ Release(m, "idle") /\ accepted' = accepted
  BY Tasks DEF SendLocked, Holds
<1>1. pc'[m] = "idle" /\ \A t \in Task \ {m} : pc'[t] = "idle" <=> pc[t] = "idle"
  <2>1. /\ pc'[m] = "idle"
        /\ \A u \in Task \ {m} : pc'[u] = pc[u] \/ (pc[u] = "queued" /\ pc'[u] = "granted")
    BY <1>0, ReleasePlaces
  <2> QED BY <2>1
<1>2. m \in Pending /\ m \notin Offline
  BY DEF SendLocked, Pending, Offline, RelayerInv, MessageOK
<1>3. CASE UNCHANGED <<offlineQueue, wire>>
  <2>1. Pending' \subseteq Pending
    BY <1>1, <1>3, Tasks DEF Pending
  <2> QED BY <1>0, <1>2, <1>3, <2>1
<1>4. CASE Queue(m) /\ UNCHANGED wire
  <2>1. Offline' \subseteq Offline \cup {m}
    BY <1>4, QueueHolds DEF RelayerInv, TypeOK
  <2>2. Pending' \subseteq Pending
    BY <1>1, <1>2, <2>1, Tasks DEF Pending, Offline
  <2> QED BY <1>0, <1>2, <1>4, <2>2
<1>5. CASE wire' = Append(wire, m) /\ UNCHANGED offlineQueue
  <2>1. Pending' = Pending \ {m}
    BY <1>1, <1>2, <1>5, Tasks DEF Pending, Offline
  <2> QED BY <1>0, <1>2, <1>5, <2>1
<1> QED BY <1>3, <1>4, <1>5 DEF SendLocked

\* An open event sends or keeps what is queued, and loses what has expired.
LEMMA OpenLoses ==
  ASSUME RelayerInv, NEW s \in Socket, SocketOpen(s)
  PROVE  accepted' = accepted /\ wire' = wire /\ Pending' \subseteq Pending
<1>1. accepted' = accepted /\ wire' = wire
  BY DEF SocketOpen
<1>2. PICK expired \in 0 .. Len(offlineQueue) :
        LET kept == SubSeq(offlineQueue, expired + 1, Len(offlineQueue))
        IN  \/ offlineQueue' = <<>> /\ AcquireFrom(AfterSettling(s), kept)
            \/ offlineQueue' = kept /\ AcquireFrom(AfterSettling(s), <<>>)
  <2>1. offlineQueue \in Seq(Msg)
    BY DEF RelayerInv, TypeOK
  <2>2. 0 \in 0 .. Len(offlineQueue)
    BY <2>1
  <2> QED BY <2>1, <2>2 DEF SocketOpen
<1> DEFINE kept == SubSeq(offlineQueue, expired + 1, Len(offlineQueue))
<1>3. /\ kept \in Seq(Task) /\ <<>> \in Seq(Task)
      /\ \A i \in DOMAIN kept : \E j \in DOMAIN offlineQueue : kept[i] = offlineQueue[j]
  <2>1. offlineQueue \in Seq(Msg) /\ offlineQueue \in Seq(Task)
    BY Tasks DEF RelayerInv, TypeOK
  <2>2. \A i \in DOMAIN kept : i + expired \in DOMAIN offlineQueue /\ kept[i] = offlineQueue[i + expired]
    BY <2>1
  <2> QED BY <2>1, <2>2
<1> HIDE DEF kept
<1>4. \A m \in Msg : AfterSettling(s)[m] # "idle" => pc[m] # "idle"
  <2>1. \A t \in Task : AfterSettling(s)[t] = pc[t] \/ pc[t] = "opening"
    BY SettlingMoves
  <2> QED BY <2>1, Tasks
<1>5. CASE offlineQueue' = <<>> /\ AcquireFrom(AfterSettling(s), kept)
  <2>1. \A t \in Task : pc'[t] = AfterSettling(s)[t] \/ \E i \in DOMAIN kept : kept[i] = t
    BY <1>3, <1>5, AcquireMoves
  <2> QED BY <1>1, <1>3, <1>4, <1>5, <2>1, Tasks DEF Pending
<1>6. CASE offlineQueue' = kept /\ AcquireFrom(AfterSettling(s), <<>>)
  <2> DEFINE none == <<>>
  <2>1. none \in Seq(Task) /\ AcquireFrom(AfterSettling(s), none) /\ DOMAIN none = {}
    BY <1>6
  <2> HIDE DEF none
  <2>2. \A t \in Task : pc'[t] = AfterSettling(s)[t]
    BY <2>1, AcquireMoves
  <2> QED BY <1>1, <1>3, <1>4, <1>6, <2>2, Tasks DEF Pending
<1> QED BY <1>2, <1>5, <1>6 DEF kept

\* Every other step hands nothing over and writes nothing.
LEMMA OthersHold ==
  ASSUME RelayerInv, [Next]_vars, \A s \in Socket : ~SocketOpen(s),
         \A m \in Msg : ~Send(m) /\ ~SendLocked(m)
  PROVE  accepted' = accepted /\ wire' = wire /\ Pending' \subseteq Pending
<1>1. accepted' = accepted /\ wire' = wire /\ (offlineQueue' = offlineQueue \/ offlineQueue' = <<>>)
  BY DEF Next, Connect, DoConnect, ConnectReturns, Reconnect, BackoffEnds, AfterOpening,
     SocketError, PeerCloses, SocketClose, Frame, HeartbeatTick, HeartbeatExpires,
     Disconnect, Destroy, msgVars, vars
<1>2. \A m \in Msg : pc[m] = "idle" => pc'[m] = "idle"
  BY MessagesStayIdle
<1> QED BY <1>1, <1>2 DEF Pending

\* A step of the relayer is a step of the channel, or leaves it alone.
LEMMA ChannelStep ==
  RelayerInv /\ [Next]_vars => [Channel!ChannelNext]_(Channel!channelVars)
<1> SUFFICES ASSUME RelayerInv, [Next]_vars PROVE Channel!ChannelNext
  OBVIOUS
<1>0. accepted \in 0 .. MsgCount
  BY DEF RelayerInv, TypeOK
<1>1. ASSUME accepted' = accepted, wire' = wire, Pending' \subseteq Pending PROVE Channel!Lose
  BY <1>1 DEF Channel!Lose, Pending
<1>2. ASSUME NEW m \in Msg, Send(m) PROVE Channel!Accept(m)
  <2>1. m = accepted + 1 /\ accepted' = m /\ wire' = wire /\ Pending' \subseteq Pending \cup {m}
    BY <1>2, SendAccepts
  <2>2. m \in (accepted + 1) .. MsgCount /\ (m + 1) .. MsgCount = ((accepted + 1) .. MsgCount) \ {m}
    BY <1>0, <2>1 DEF Msg
  <2> QED BY <2>1, <2>2 DEF Channel!Accept, Pending
<1>3. ASSUME NEW m \in Msg, SendLocked(m) PROVE Channel!Lose \/ Channel!Write(m)
  <2>1. /\ accepted' = accepted /\ m \in Pending
        /\ \/ wire' = wire /\ Pending' \subseteq Pending
           \/ wire' = Append(wire, m) /\ Pending' = Pending \ {m}
    BY <1>3, SendLockedWrites
  <2> QED BY <1>1, <2>1 DEF Channel!Write, Pending
<1>4. ASSUME NEW s \in Socket, SocketOpen(s) PROVE Channel!Lose
  BY <1>1, <1>4, OpenLoses
<1>5. ASSUME \A s \in Socket : ~SocketOpen(s), \A m \in Msg : ~Send(m) /\ ~SendLocked(m)
      PROVE  Channel!Lose
  BY <1>1, <1>5, OthersHold
<1> QED BY <1>2, <1>3, <1>4, <1>5 DEF Channel!ChannelNext

\* Whatever is lost, the relayer writes no message that it was not given, that it
\* has dropped, or that it has already written.
THEOREM RelayerImplementsChannel == Spec => ImplementsChannel
<1>1. Init => Channel!ChannelInit
  <2> SUFFICES ASSUME Init PROVE Channel!ChannelInit
    OBVIOUS
  <2>1. accepted = 0 /\ wire = <<>> /\ offlineQueue = <<>> /\ \A m \in Msg : pc[m] = "idle"
    BY Tasks DEF Init
  <2> QED BY <2>1 DEF Channel!ChannelInit, Msg
<1>2. RelayerInv /\ [Next]_vars => [Channel!ChannelNext]_(Channel!channelVars)
  BY ChannelStep
<1> QED BY <1>1, <1>2, AlwaysInv, PTL DEF Spec, ImplementsChannel, Channel!ChannelSpec
=============================================================================
