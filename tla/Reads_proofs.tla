---------------------------- MODULE Reads_proofs ----------------------------
(***************************************************************************)
(* What is remembered of reads and fees is neither too old nor somebody    *)
(* else's failure, for any number of calls and operations, any time to     *)
(* live and any clock; and what is computed from a stream read, for every  *)
(* rate, time and amount, is what the stream owes.                         *)
(*                                                                         *)
(* The invariants of the caches tie what was answered to the moment at     *)
(* which the node was read: a reading is no older than the call that asked *)
(* for it, and an entry expires before its value is too old.  PayoutExact  *)
(* is not inductive: that nothing more was taken than streamed needs the   *)
(* streamed total never to fall, which rests on the pause not lying behind *)
(* the clock.                                                              *)
(*                                                                         *)
(* A walk over pages is followed by what it has read: all that is wanted   *)
(* up to where it is, or the beginning of the list of what is wanted, which*)
(* stays its beginning while the collection grows.                         *)
(*                                                                         *)
(* The memo cache keeps its keys in the order of their last use; what is   *)
(* inserted of a snapshot is used one after the other.                     *)
(***************************************************************************)
EXTENDS ReadCaches, FeeEstimator, StreamMath, StreamsBatchRead, LruMemoCache, Selections_proofs, TLAPS

CacheTypes ==
    /\ kind \in Kind /\ version \in Version
    /\ now \in Nat /\ now <= MaxClock
    /\ endedAt \in [Version -> Nat]
    /\ call \in [Reader -> {"idle", "fetching", "joined", "done"}]
    /\ joined \in [Reader -> Reader \cup {NoReader}]
    /\ askedAt \in [Reader -> Nat]
    /\ seen \in [Reader -> Version \cup {Nothing}]
    /\ got \in [Reader -> Version \cup {Nothing, Failure}]
    /\ entry \in [value : Version \cup {Nothing}, until : Nat]
    /\ flight \in Reader \cup {NoReader} /\ newest \in Reader \cup {NoReader}

\* What a call knows at each of its stages, and the times of the versions.
CallsExact ==
    /\ \A r \in Reader :
        /\ askedAt[r] <= now
        /\ call[r] = "idle" => joined[r] = NoReader /\ seen[r] = Nothing /\ got[r] = Nothing
        /\ call[r] = "fetching" => joined[r] = r
    /\ \A v \in Version : v >= version => endedAt[v] = Forever

\* A reading was the latest ledger when it was asked for or later, and its entry
\* expires less than Ttl after it is no longer.
LedgerExact ==
    kind = "ledger" =>
        /\ \A r \in Reader :
            /\ joined[r] \in {r, NoReader}
            /\ seen[r] \in Version => endedAt[seen[r]] >= askedAt[r]
            /\ got[r] \in Version => endedAt[got[r]] + Ttl > askedAt[r]
        /\ entry # NoEntry => /\ entry.value \in Version
                              /\ entry.until <= now + Ttl
                              /\ entry.until <= endedAt[entry.value] + Ttl

\* The map holds a fetch that was started by its own call; the only fetch of a
\* configuration is the one it holds.
SharedExact ==
    Coalesced =>
        /\ FlightExact
        /\ flight # NoReader => call[flight] \in {"fetching", "done"}
        /\ newest # NoReader => call[newest] \in {"fetching", "done"}
        /\ kind = "config" => \A r \in Reader : call[r] = "fetching" => flight = r

CachesInv == CacheTypes /\ CallsExact /\ LedgerExact /\ SharedExact

LEMMA CacheBounds ==
    /\ ReaderCount \in Nat /\ Ttl \in Nat /\ Ttl > 0 /\ MaxVersion \in Nat /\ MaxClock \in Nat
    /\ NoReader \notin Reader /\ Nothing \notin Version /\ Failure \notin Version /\ Nothing # Failure
    /\ 0 \in Version /\ Forever \in Nat /\ Forever > MaxClock
BY CachesAssumption DEF NoReader, Reader, Version, Nothing, Failure, Forever

LEMMA InitCaches == CachesInit => CachesInv
<1> SUFFICES ASSUME CachesInit PROVE CachesInv
  OBVIOUS
<1>1. CacheTypes
  BY CacheBounds DEF CachesInit, CacheTypes, NoEntry
<1>2. CallsExact
  BY CacheBounds DEF CachesInit, CallsExact
<1>3. LedgerExact
  BY CacheBounds DEF CachesInit, LedgerExact
<1>4. SharedExact
  BY DEF CachesInit, SharedExact, FlightExact
<1> QED BY <1>1, <1>2, <1>3, <1>4 DEF CachesInv

\* A call that is answered at once, with what the cache or a promise holds.
LEMMA AnsweredKeepsCaches ==
  ASSUME CachesInv, NEW r \in Reader, call[r] = "idle", NEW v \in Version \cup {Nothing, Failure},
         kind = "ledger" /\ v \in Version => endedAt[v] + Ttl > now,
         call' = [call EXCEPT ![r] = "done"], got' = [got EXCEPT ![r] = v],
         askedAt' = [askedAt EXCEPT ![r] = now],
         UNCHANGED <<kind, version, endedAt, now, joined, seen, entry, flight, newest>>
  PROVE  CachesInv'
<1>0. /\ CacheTypes /\ CallsExact /\ LedgerExact /\ SharedExact
      /\ \A q \in Reader : call'[q] = IF q = r THEN "done" ELSE call[q]
      /\ \A q \in Reader : got'[q] = IF q = r THEN v ELSE got[q]
      /\ \A q \in Reader : askedAt'[q] = IF q = r THEN now ELSE askedAt[q]
  BY DEF CachesInv, CacheTypes
<1>1. CacheTypes'
  BY <1>0 DEF CacheTypes
<1>2. CallsExact'
  BY <1>0 DEF CallsExact, CacheTypes
<1>3. LedgerExact'
  BY <1>0, CacheBounds DEF LedgerExact, CallsExact
<1>4. SharedExact'
  <2> SUFFICES ASSUME Coalesced PROVE SharedExact'
    BY DEF SharedExact, Coalesced
  <2>1. flight # r /\ newest # r
    BY <1>0, CacheBounds DEF SharedExact
  <2>2. flight # NoReader => got'[flight] = got[flight] /\ call'[flight] = call[flight]
    BY <1>0, <2>1 DEF CacheTypes
  <2>3. newest # NoReader => call'[newest] = call[newest]
    BY <1>0, <2>1 DEF CacheTypes
  <2>4. \A q \in Reader : call'[q] = "fetching" => call[q] = "fetching"
    BY <1>0
  <2> QED BY <1>0, <2>2, <2>3, <2>4 DEF SharedExact, FlightExact, Coalesced
<1> QED BY <1>1, <1>2, <1>3, <1>4 DEF CachesInv

\* A call that starts a fetch, shared or not.
LEMMA FetchKeepsCaches ==
  ASSUME CachesInv, NEW r \in Reader, call[r] = "idle",
         call' = [call EXCEPT ![r] = "fetching"], joined' = [joined EXCEPT ![r] = r],
         askedAt' = [askedAt EXCEPT ![r] = now],
         seen' = seen \/ (kind = "caller" /\ seen' = [seen EXCEPT ![r] = version]),
         entry' \in {entry, NoEntry},
         UNCHANGED <<kind, version, endedAt, now, got>>,
         \/ UNCHANGED <<flight, newest>> /\ kind # "config"
         \/ flight = NoReader /\ flight' = r /\ newest' = r
  PROVE  CachesInv'
<1>0. /\ CacheTypes /\ CallsExact /\ LedgerExact /\ SharedExact
      /\ \A q \in Reader : call'[q] = IF q = r THEN "fetching" ELSE call[q]
      /\ \A q \in Reader : joined'[q] = IF q = r THEN r ELSE joined[q]
      /\ \A q \in Reader : askedAt'[q] = IF q = r THEN now ELSE askedAt[q]
      /\ \A q \in Reader : q # r => seen'[q] = seen[q]
      /\ kind # "caller" => seen' = seen
  BY DEF CachesInv, CacheTypes
<1>1. CacheTypes'
  BY <1>0, CacheBounds DEF CacheTypes, NoEntry
<1>2. CallsExact'
  BY <1>0 DEF CallsExact, CacheTypes
<1>3. LedgerExact'
  BY <1>0, CacheBounds DEF LedgerExact, CallsExact
<1>4. SharedExact'
  <2> SUFFICES ASSUME Coalesced PROVE SharedExact'
    BY DEF SharedExact, Coalesced
  <2>1. flight # r /\ newest # r /\ got[r] = Nothing /\ call'[r] = "fetching" /\ r # NoReader
    BY <1>0, CacheBounds DEF SharedExact, CallsExact
  <2>2. CASE UNCHANGED <<flight, newest>> /\ kind # "config"
    <3>1. flight # NoReader => call'[flight] = call[flight]
      BY <1>0, <2>1 DEF CacheTypes
    <3>2. newest # NoReader => call'[newest] = call[newest]
      BY <1>0, <2>1 DEF CacheTypes
    <3> QED BY <1>0, <2>2, <3>1, <3>2 DEF SharedExact, FlightExact, Coalesced
  <2>3. CASE flight = NoReader /\ flight' = r /\ newest' = r
    <3>1. kind = "config" => \A q \in Reader : call'[q] = "fetching" => q = r
      BY <1>0, <2>3, CacheBounds DEF SharedExact
    <3> QED BY <1>0, <2>1, <2>3, <3>1, CacheBounds DEF SharedExact, FlightExact, Coalesced
  <2> QED BY <2>2, <2>3
<1> QED BY <1>1, <1>2, <1>3, <1>4 DEF CachesInv

\* A call that waits for the fetch in flight.
LEMMA JoinKeepsCaches ==
  ASSUME CachesInv, NEW r \in Reader, call[r] = "idle", Coalesced, flight # NoReader,
         call' = [call EXCEPT ![r] = "joined"], joined' = [joined EXCEPT ![r] = flight],
         askedAt' = [askedAt EXCEPT ![r] = now],
         UNCHANGED <<kind, version, endedAt, now, seen, got, entry, flight, newest>>
  PROVE  CachesInv'
<1>0. /\ CacheTypes /\ CallsExact /\ LedgerExact /\ SharedExact /\ kind # "ledger"
      /\ \A q \in Reader : call'[q] = IF q = r THEN "joined" ELSE call[q]
      /\ \A q \in Reader : joined'[q] = IF q = r THEN flight ELSE joined[q]
      /\ \A q \in Reader : askedAt'[q] = IF q = r THEN now ELSE askedAt[q]
  BY DEF CachesInv, CacheTypes, Coalesced
<1>1. CacheTypes'
  BY <1>0 DEF CacheTypes
<1>2. CallsExact'
  BY <1>0 DEF CallsExact, CacheTypes
<1>3. LedgerExact'
  BY <1>0 DEF LedgerExact
<1>4. SharedExact'
  <2>1. flight # r /\ newest # r
    BY <1>0, CacheBounds DEF SharedExact
  <2>2. call'[flight] = call[flight] /\ (newest # NoReader => call'[newest] = call[newest])
    BY <1>0, <2>1 DEF CacheTypes
  <2>3. \A q \in Reader : call'[q] = "fetching" => call[q] = "fetching"
    BY <1>0
  <2> QED BY <1>0, <2>2, <2>3 DEF SharedExact, FlightExact, Coalesced
<1> QED BY <1>1, <1>2, <1>3, <1>4 DEF CachesInv

LEMMA CoalesceKeepsCaches ==
  ASSUME CachesInv, NEW r \in Reader, call[r] = "idle", Coalesced, Coalesce(r),
         askedAt' = [askedAt EXCEPT ![r] = now],
         UNCHANGED <<kind, version, endedAt, now, entry>>
  PROVE  CachesInv'
<1>0. CacheTypes /\ kind # "ledger"
  BY DEF CachesInv, Coalesced
<1>1. CASE flight # NoReader /\ call[flight] = "done"
  <2>1. /\ call' = [call EXCEPT ![r] = "done"] /\ got' = [got EXCEPT ![r] = got[flight]]
        /\ UNCHANGED <<joined, seen, flight, newest>>
    BY <1>1 DEF Coalesce
  <2>2. got[flight] \in Version \cup {Nothing, Failure}
    BY <1>0, <1>1 DEF CacheTypes
  <2> QED BY <1>0, <2>1, <2>2, AnsweredKeepsCaches
<1>2. CASE flight # NoReader /\ call[flight] # "done"
  BY <1>2, JoinKeepsCaches DEF Coalesce
<1>3. CASE flight = NoReader
  BY <1>3, FetchKeepsCaches DEF Coalesce, Fetch
<1> QED BY <1>1, <1>2, <1>3

LEMMA CallKeepsCaches == ASSUME CachesInv, NEW r \in Reader, CacheCall(r) PROVE CachesInv'
<1>0. /\ call[r] = "idle" /\ askedAt' = [askedAt EXCEPT ![r] = now]
      /\ UNCHANGED <<kind, version, endedAt, now>>
  BY DEF CacheCall, Calls, GetLatestLedgerInfo, GetConfig, GetTokenDecimals, GetInfo,
         GetInfoWithSignal, StreamAddress, ResolveCallerAddress, timeVars
\* What is found in the cache has not expired.
<1>1. ASSUME Hit(r), UNCHANGED entry, kind = "ledger" => Fresh PROVE CachesInv'
  <2>1. entry.value \in Version \cup {Nothing, Failure} /\ entry.until \in Nat
    BY DEF CachesInv, CacheTypes
  <2>2. kind = "ledger" /\ entry.value \in Version => endedAt[entry.value] + Ttl > now
    BY <1>1, <2>1, CacheBounds DEF Fresh, CachesInv, CacheTypes, LedgerExact
  <2> QED BY <1>0, <1>1, <2>1, <2>2, AnsweredKeepsCaches DEF Hit
<1>2. ASSUME Fetch(r), UNCHANGED <<flight, newest>>, entry' \in {entry, NoEntry}, kind # "config"
      PROVE  CachesInv'
  BY <1>0, <1>2, FetchKeepsCaches DEF Fetch
<1>3. CASE GetLatestLedgerInfo(r)
  BY <1>1, <1>2, <1>3 DEF GetLatestLedgerInfo, Calls
<1>4. CASE GetConfig(r)
  BY <1>0, <1>1, <1>4, CoalesceKeepsCaches DEF GetConfig, Calls, Coalesced
<1>5. CASE GetTokenDecimals(r)
  BY <1>0, <1>5, CoalesceKeepsCaches DEF GetTokenDecimals, Calls, Coalesced
<1>6. CASE GetInfo(r)
  BY <1>0, <1>6, CoalesceKeepsCaches DEF GetInfo, Calls, Coalesced
<1>7. CASE GetInfoWithSignal(r)
  BY <1>2, <1>7 DEF GetInfoWithSignal, Calls
<1>8. CASE StreamAddress(r)
  BY <1>1, <1>2, <1>8 DEF StreamAddress, Calls
<1>9. CASE ResolveCallerAddress(r)
  <2>1. kind = "caller" /\ entry' = entry
    BY <1>9 DEF ResolveCallerAddress, Calls
  <2>2. CASE Hit(r)
    BY <1>1, <2>1, <2>2
  <2>3. CASE /\ call' = [call EXCEPT ![r] = "fetching"] /\ joined' = [joined EXCEPT ![r] = r]
             /\ seen' = [seen EXCEPT ![r] = version] /\ UNCHANGED <<got, flight, newest>>
    BY <1>0, <2>1, <2>3, FetchKeepsCaches
  <2> QED BY <1>9, <2>2, <2>3 DEF ResolveCallerAddress
<1> QED BY <1>3, <1>4, <1>5, <1>6, <1>7, <1>8, <1>9 DEF CacheCall

\* A fetch that settles, for itself and those who joined it.
LEMMA SettleKeepsCaches ==
  ASSUME CachesInv, NEW r \in Reader, call[r] = "fetching", NEW v \in Version \cup {Failure},
         SettleFetch(r, v), kind = "ledger" /\ v \in Version => v = seen[r],
         UNCHANGED <<kind, version, endedAt, now, joined, askedAt, seen, newest>>,
         entry' \in [value : Version \cup {Nothing}, until : Nat],
         kind = "ledger" => \/ entry' = entry
                            \/ /\ entry'.value \in Version
                               /\ entry'.until <= now + Ttl
                               /\ entry'.until <= endedAt[entry'.value] + Ttl,
         flight' \in {flight, NoReader},
         Coalesced => \/ flight' = IF flight = r THEN NoReader ELSE flight
                      \/ flight' = flight /\ kind = "decimals" /\ v # Failure
  PROVE  CachesInv'
<1> DEFINE waiting == {q \in Reader : joined[q] = r /\ call[q] # "done"}
<1>0. /\ CacheTypes /\ CallsExact /\ LedgerExact /\ SharedExact
      /\ \A q \in Reader : call'[q] = IF q \in waiting THEN "done" ELSE call[q]
      /\ \A q \in Reader : got'[q] = IF q \in waiting THEN v ELSE got[q]
      /\ call' = [q \in Reader |-> IF q \in waiting THEN "done" ELSE call[q]]
      /\ got' = [q \in Reader |-> IF q \in waiting THEN v ELSE got[q]]
  BY DEF CachesInv, SettleFetch
<1>1. /\ r \in waiting
      /\ \A q \in waiting : joined[q] = r /\ call[q] \notin {"idle", "done"}
      /\ \A q \in Reader : call[q] = "fetching" /\ q # r => q \notin waiting
      /\ \A q \in Reader : call[q] = "done" => q \notin waiting
  BY <1>0, CacheBounds DEF CallsExact
<1> HIDE DEF waiting
<1>2. CacheTypes'
  BY <1>0 DEF CacheTypes
<1>3. CallsExact'
  BY <1>0, <1>1 DEF CallsExact
<1>4. LedgerExact'
  <2> SUFFICES ASSUME kind = "ledger" PROVE LedgerExact'
    BY DEF LedgerExact
  <2>1. \A q \in waiting : q \in Reader => q = r
    BY <1>0, <1>1, CacheBounds DEF LedgerExact
  <2>2. v \in Version => endedAt[v] + Ttl > askedAt[r]
    BY <1>0, CacheBounds DEF LedgerExact, CacheTypes
  <2>3. ASSUME NEW q \in Reader, got'[q] \in Version PROVE endedAt[got'[q]] + Ttl > askedAt[q]
    BY <1>0, <2>1, <2>2, <2>3 DEF LedgerExact
  <2>4. entry' # NoEntry => /\ entry'.value \in Version
                            /\ entry'.until <= now + Ttl
                            /\ entry'.until <= endedAt[entry'.value] + Ttl
    BY <1>0 DEF LedgerExact
  <2> QED BY <1>0, <2>3, <2>4 DEF LedgerExact
<1>5. SharedExact'
  <2> SUFFICES ASSUME Coalesced PROVE SharedExact'
    BY DEF SharedExact, Coalesced
  <2>1. Coalesced' /\ r # NoReader /\ call'[r] = "done"
    BY <1>0, <1>1, CacheBounds DEF Coalesced
  <2>2. ASSUME flight # NoReader, flight # r
        PROVE  call'[flight] = call[flight] /\ got'[flight] = got[flight]
    BY <1>0, <1>1, <2>2 DEF SharedExact, CacheTypes
  <2>3. newest # NoReader => call'[newest] \in {"fetching", "done"}
    BY <1>0 DEF SharedExact, CacheTypes
  <2>4. newest # NoReader /\ call'[newest] = "fetching" => newest # r /\ flight = newest
    BY <1>0, <2>1 DEF SharedExact, FlightExact, CacheTypes
  <2>5. kind = "config" => \A q \in Reader : call'[q] = "fetching" => q # r /\ flight = q
    BY <1>0, <2>1 DEF SharedExact
  <2>6. CASE flight' = IF flight = r THEN NoReader ELSE flight
    BY <1>0, <2>1, <2>2, <2>3, <2>4, <2>5, <2>6 DEF SharedExact, FlightExact
  <2>7. CASE flight' = flight /\ kind = "decimals" /\ v # Failure
    <3>1. flight = r => got'[flight] = v
      BY <1>0, <1>1
    <3> QED BY <1>0, <2>1, <2>2, <2>3, <2>4, <2>7, <3>1 DEF SharedExact, FlightExact
  <2> QED BY <2>6, <2>7
<1> QED BY <1>2, <1>3, <1>4, <1>5 DEF CachesInv

LEMMA AnswerKeepsCaches == ASSUME CachesInv, NEW r \in Reader, CacheAnswer(r) PROVE CachesInv'
<1>0. CacheTypes /\ CallsExact /\ LedgerExact /\ SharedExact
  BY DEF CachesInv
<1>1. CASE NodeReads(r)
  <2>1. /\ call[r] = "fetching" /\ seen' = [seen EXCEPT ![r] = version]
        /\ \A q \in Reader : seen'[q] = IF q = r THEN version ELSE seen[q]
        /\ UNCHANGED <<kind, version, endedAt, now, call, joined, askedAt, got, entry, flight, newest>>
    BY <1>0, <1>1 DEF NodeReads, timeVars, CacheTypes
  <2>2. endedAt[version] = Forever /\ askedAt[r] <= now /\ now <= MaxClock /\ askedAt[r] \in Nat
    BY <1>0, CacheBounds DEF CallsExact, CacheTypes, Version
  <2>3. CacheTypes'
    BY <1>0, <2>1 DEF CacheTypes
  <2>4. CallsExact'
    BY <1>0, <2>1 DEF CallsExact
  <2>5. LedgerExact'
    BY <1>0, <2>1, <2>2, CacheBounds DEF LedgerExact, CacheTypes
  <2>6. SharedExact'
    BY <1>0, <2>1 DEF SharedExact, FlightExact, Coalesced
  <2> QED BY <2>3, <2>4, <2>5, <2>6 DEF CachesInv
\* What an arrival stores: a version, until some moment.
<1>2. ASSUME NEW k, Arrives(r, k)
      PROVE  /\ kind = k /\ call[r] = "fetching" /\ seen[r] \in Version /\ seen[r] # Failure
             /\ SettleFetch(r, seen[r])
             /\ UNCHANGED <<kind, version, endedAt, now, joined, askedAt, seen, newest>>
             /\ \A until \in Nat : Store(seen[r], until) =>
                  /\ entry' \in [value : Version \cup {Nothing}, until : Nat]
                  /\ entry'.value = seen[r] /\ entry'.until = until
  BY <1>0, <1>2, CacheBounds DEF Arrives, timeVars, CacheTypes, Store
<1>3. entry \in [value : Version \cup {Nothing}, until : Nat] /\ now \in Nat /\ askedAt[r] \in Nat
  BY <1>0 DEF CacheTypes
<1>4. now + Ttl \in Nat /\ Forever \in Nat /\ askedAt[r] + Ttl \in Nat
  BY <1>3, CacheBounds
<1>5. CASE LedgerArrives(r)
  <2>1. Arrives(r, "ledger") /\ Store(seen[r], askedAt[r] + Ttl) /\ flight' = flight
    BY <1>5 DEF LedgerArrives
  <2>2. kind = "ledger" /\ ~Coalesced
    BY <1>2, <2>1 DEF Coalesced
  <2>3. askedAt[r] + Ttl <= now + Ttl /\ askedAt[r] + Ttl <= endedAt[seen[r]] + Ttl
    BY <1>0, <1>2, <1>3, <2>1, <2>2, CacheBounds DEF CallsExact, LedgerExact, CacheTypes
  <2> QED BY <1>2, <1>4, <2>1, <2>2, <2>3, SettleKeepsCaches
<1>6. CASE ConfigArrives(r)
  <2>1. Arrives(r, "config") /\ Store(seen[r], now + Ttl) /\ flight' = NoReader
    BY <1>6 DEF ConfigArrives
  <2>2. kind = "config" /\ Coalesced /\ flight = r
    BY <1>0, <1>2, <2>1 DEF Coalesced, SharedExact
  <2> QED BY <1>2, <1>4, <2>1, <2>2, SettleKeepsCaches
<1>7. CASE DecimalsArrive(r)
  <2>1. Arrives(r, "decimals") /\ UNCHANGED <<entry, flight>>
    BY <1>7 DEF DecimalsArrive
  <2> QED BY <1>2, <1>3, <2>1, SettleKeepsCaches
<1>8. CASE InfoArrives(r)
  <2>1. Arrives(r, "info") /\ entry' = entry /\ flight' = IF flight = r THEN NoReader ELSE flight
    BY <1>8 DEF InfoArrives
  <2> QED BY <1>2, <1>3, <2>1, SettleKeepsCaches
<1>9. CASE AddressArrives(r)
  <2> DEFINE until == IF seen[r] = 0 THEN now + Ttl ELSE Forever
  <2>1. Arrives(r, "address") /\ Store(seen[r], until) /\ flight' = flight
    BY <1>9 DEF AddressArrives
  <2>2. kind = "address" /\ ~Coalesced /\ until \in Nat
    BY <1>2, <1>4, <2>1 DEF Coalesced
  <2> HIDE DEF until
  <2> QED BY <1>2, <2>1, <2>2, SettleKeepsCaches
<1>10. CASE CallerArrives(r)
  <2>1. Arrives(r, "caller") /\ Store(seen[r], Forever) /\ flight' = flight
    BY <1>10 DEF CallerArrives
  <2>2. kind = "caller" /\ ~Coalesced
    BY <1>2, <2>1 DEF Coalesced
  <2> QED BY <1>2, <1>4, <2>1, <2>2, SettleKeepsCaches
<1>11. CASE FetchFails(r)
  <2>1. /\ call[r] = "fetching" /\ SettleFetch(r, Failure) /\ entry' = entry
        /\ flight' = IF flight = r THEN NoReader ELSE flight
        /\ UNCHANGED <<kind, version, endedAt, now, joined, askedAt, seen, newest>>
    BY <1>11 DEF FetchFails, timeVars
  <2> QED BY <1>3, <2>1, CacheBounds, SettleKeepsCaches
<1> QED BY <1>1, <1>5, <1>6, <1>7, <1>8, <1>9, <1>10, <1>11 DEF CacheAnswer

\* A value that is replaced was the latest until now.
LEMMA ReplacedKeepsCaches ==
  ASSUME CachesInv, NewVersion, entry' \in {entry, NoEntry},
         UNCHANGED <<kind, now, call, joined, askedAt, seen, got, flight, newest>>
  PROVE  CachesInv'
<1>0. /\ CacheTypes /\ CallsExact /\ LedgerExact /\ SharedExact
      /\ version \in Nat /\ version' = version + 1 /\ version' \in Version /\ version \in Version
      /\ endedAt' = [endedAt EXCEPT ![version] = now]
      /\ \A v \in Version : endedAt'[v] = IF v = version THEN now ELSE endedAt[v]
  BY CacheBounds DEF CachesInv, CacheTypes, NewVersion, Version
<1>1. CacheTypes'
  BY <1>0, CacheBounds DEF CacheTypes, NoEntry
<1>2. CallsExact'
  <2>1. \A v \in Version : v >= version' => endedAt'[v] = Forever
    BY <1>0 DEF CallsExact, Version
  <2> QED BY <1>0, <2>1 DEF CallsExact
<1>3. LedgerExact'
  <2> SUFFICES ASSUME kind = "ledger" PROVE LedgerExact'
    BY DEF LedgerExact
  <2>1. ASSUME NEW r \in Reader
        PROVE  /\ joined'[r] \in {r, NoReader}
               /\ seen'[r] \in Version => endedAt'[seen'[r]] >= askedAt'[r]
               /\ got'[r] \in Version => endedAt'[got'[r]] + Ttl > askedAt'[r]
    BY <1>0, CacheBounds DEF LedgerExact, CallsExact, CacheTypes
  <2>2. entry' # NoEntry => /\ entry'.value \in Version
                            /\ entry'.until <= now' + Ttl
                            /\ entry'.until <= endedAt'[entry'.value] + Ttl
    BY <1>0 DEF LedgerExact
  <2> QED BY <2>1, <2>2 DEF LedgerExact
<1>4. SharedExact'
  BY <1>0 DEF SharedExact, FlightExact, Coalesced
<1> QED BY <1>1, <1>2, <1>3, <1>4 DEF CachesInv

LEMMA StepKeepsCaches == CachesInv /\ [CachesNext]_cacheVars => CachesInv'
<1> SUFFICES ASSUME CachesInv, [CachesNext]_cacheVars PROVE CachesInv'
  OBVIOUS
<1>0. CacheTypes /\ CallsExact /\ LedgerExact /\ SharedExact
  BY DEF CachesInv
<1>1. ASSUME UNCHANGED <<kind, version, endedAt, now, call, joined, askedAt, seen, got>>,
             entry' \in {entry, NoEntry},
             \/ UNCHANGED <<flight, newest>>
             \/ kind = "decimals" /\ flight' = NoReader /\ newest' = NoReader
      PROVE  CachesInv'
  <2>1. CacheTypes'
    BY <1>0, <1>1, CacheBounds DEF CacheTypes, NoEntry
  <2>2. CallsExact'
    BY <1>0, <1>1 DEF CallsExact
  <2>3. LedgerExact'
    BY <1>0, <1>1 DEF LedgerExact
  <2>4. SharedExact'
    BY <1>0, <1>1 DEF SharedExact, FlightExact, Coalesced
  <2> QED BY <2>1, <2>2, <2>3, <2>4 DEF CachesInv
<1>2. CASE ClearEntry
  BY <1>1, <1>2 DEF ClearEntry
<1>3. CASE ClearDecimals
  BY <1>1, <1>3 DEF ClearDecimals
<1>4. CASE ValueChanges
  BY <1>4, ReplacedKeepsCaches DEF ValueChanges
<1>5. CASE ReplaceWallet
  BY <1>5, ReplacedKeepsCaches DEF ReplaceWallet
<1>6. CASE CacheTick
  <2>1. /\ now < MaxClock /\ now' = now + 1
        /\ UNCHANGED <<kind, version, endedAt, call, joined, askedAt, seen, got, entry, flight, newest>>
    BY <1>6 DEF CacheTick
  <2>2. CacheTypes'
    BY <1>0, <2>1, CacheBounds DEF CacheTypes
  <2>3. CallsExact'
    BY <1>0, <2>1 DEF CallsExact, CacheTypes
  <2>4. LedgerExact'
    BY <1>0, <2>1, CacheBounds DEF LedgerExact, CacheTypes
  <2>5. SharedExact'
    BY <1>0, <2>1 DEF SharedExact, FlightExact, Coalesced
  <2> QED BY <2>2, <2>3, <2>4, <2>5 DEF CachesInv
<1>7. CASE UNCHANGED cacheVars
  BY <1>1, <1>7 DEF cacheVars, timeVars
<1> QED BY <1>2, <1>3, <1>4, <1>5, <1>6, <1>7, CallKeepsCaches, AnswerKeepsCaches DEF CachesNext

\* The caches of soroban.ts, governor.ts, factory.ts and streams.ts over
\* coalesceAsync(): for any number of concurrent calls, however late answers are
\* and whenever a cache is cleared, the ledger info is no older than its time to
\* live, a fetch in flight is shared, and a failure is not shared with later calls.
THEOREM CachesAlwaysHonest == CachesSpec => []CachesHonest
<1>1. CachesInv => CachesHonest
  BY DEF CachesInv, LedgerExact, SharedExact, CachesHonest, LedgerInfoAge, FlightExact
<1> QED BY InitCaches, StepKeepsCaches, <1>1, PTL DEF CachesSpec

-----------------------------------------------------------------------------
(* estimateFee(), behind two caches                                        *)

Fees == [for : Operation \cup {"any", "none"}, read : Int, took : Int]
Entries == [value : Fees, at : Int]

FeeTypes ==
    /\ ticks \in Nat
    /\ ask \in [Ask -> {"idle", "building", "failed", "joined", "fetching", "done"}]
    /\ operation \in [Ask -> Operation]
    /\ madeAt \in [Ask -> Nat]
    /\ fee \in [Ask -> Fees]
    /\ simulated \in [Operation -> Int]
    /\ cache \in [Operation -> Entries]
    /\ estimates \in [Operation -> Entries]

\* An entry of the operation's own fee, as old when it was stored as its answer took.
FromNode(o, e) == e.value.for = o /\ e.at - e.value.read = e.value.took

\* What the estimator remembers was read as long before it was stored as its
\* answer took; what the module remembers, less than FeeTtl longer before.
AgesExact ==
    /\ \A a \in Ask : madeAt[a] <= ticks /\ (ask[a] = "idle" => fee[a] = NoFee)
    /\ \A a \in Ask : fee[a].for = operation[a] => madeAt[a] - fee[a].read <= 2 * (FeeTtl - 1) + fee[a].took
    /\ \A o \in Operation : cache[o] = Empty \/ FromNode(o, cache[o])
    /\ \A o \in Operation : estimates[o].value.for = o => estimates[o].at - estimates[o].value.read < FeeTtl + estimates[o].value.took

FeeInv == FeeTypes /\ AgesExact

LEMMA FeeBounds ==
    /\ FeeTtl \in Nat /\ FeeTtl > 0 /\ Never \in Int
    /\ \A t \in Nat : t - Never >= FeeTtl
    /\ "any" \notin Operation /\ "none" \notin Operation
    /\ NoFee \in Fees /\ StandIn \in Fees /\ Empty \in Entries
    /\ NoFee.for = "none" /\ StandIn.for = "any" /\ Empty.value = NoFee /\ Empty.at = Never
<1>1. /\ FeeTtl \in Nat /\ MinRefetchInterval \in Nat /\ FeeClock \in Nat
      /\ FeeTtl > 0 /\ {"any", "none"} \cap Operation = {}
  BY FeeAssumption
<1>2. Never \in Int /\ \A t \in Nat : t - Never >= FeeTtl
  BY <1>1 DEF Never
<1>3. NoFee \in Fees /\ StandIn \in Fees /\ NoFee.for = "none" /\ StandIn.for = "any"
  BY <1>2 DEF NoFee, StandIn, Fees
<1>4. Empty \in Entries /\ Empty.value = NoFee /\ Empty.at = Never
  BY <1>2, <1>3 DEF Empty, Entries
<1> QED BY <1>1, <1>2, <1>3, <1>4

\* The answer to the calls in S, which are not new: a fee that was read less than
\* FeeTtl and the time of its answer ago, or one that is no operation's.
LEMMA AnswerKeepsFees ==
  ASSUME FeeInv, NEW S \in SUBSET Ask, NEW value \in Fees, Answer(S, value),
         UNCHANGED <<ticks, operation, madeAt>>,
         value.for \in Operation => ticks - value.read < FeeTtl + value.took,
         cache' \in [Operation -> Entries], simulated' \in [Operation -> Int],
         \A o \in Operation : cache'[o] = cache[o] \/ FromNode(o, cache'[o])
  PROVE  FeeInv'
<1>0. /\ FeeTypes /\ AgesExact
      /\ \A a \in Ask : ask'[a] = IF a \in S THEN "done" ELSE ask[a]
      /\ \A a \in Ask : fee'[a] = IF a \in S THEN value ELSE fee[a]
      /\ \A o \in Operation : estimates'[o] = IF \E a \in S : operation[a] = o
                                              THEN [value |-> value, at |-> ticks] ELSE estimates[o]
  BY DEF FeeInv, Answer
<1>1. FeeTypes'
  <2>1. [value |-> value, at |-> ticks] \in Entries
    BY <1>0 DEF Entries, FeeTypes
  <2>2. estimates' \in [Operation -> Entries]
    BY <1>0, <2>1 DEF FeeTypes, Answer
  <2>3. ask' \in [Ask -> {"idle", "building", "failed", "joined", "fetching", "done"}] /\ fee' \in [Ask -> Fees]
    BY <1>0 DEF FeeTypes, Answer
  <2> QED BY <1>0, <2>2, <2>3 DEF FeeTypes
<1>2. ASSUME NEW a \in Ask
      PROVE  /\ madeAt'[a] <= ticks' /\ (ask'[a] = "idle" => fee'[a] = NoFee)
             /\ fee'[a].for = operation'[a] => madeAt'[a] - fee'[a].read <= 2 * (FeeTtl - 1) + fee'[a].took
  <2>1. CASE a \in S
    <3>1. operation[a] \in Operation /\ value.read \in Int /\ value.took \in Int /\ madeAt[a] \in Nat /\ ticks \in Nat /\ madeAt[a] <= ticks
      BY <1>0 DEF FeeTypes, Fees, AgesExact
    <3>2. value.for = operation[a] => madeAt[a] - value.read <= 2 * (FeeTtl - 1) + value.took
      BY <3>1, FeeBounds
    <3> QED BY <1>0, <2>1, <3>1, <3>2
  <2>2. CASE a \notin S
    BY <1>0, <2>2 DEF AgesExact
  <2> QED BY <2>1, <2>2
<1>3. ASSUME NEW o \in Operation, estimates'[o].value.for = o
      PROVE  estimates'[o].at - estimates'[o].value.read < FeeTtl + estimates'[o].value.took
  <2>1. CASE \E a \in S : operation[a] = o
    BY <1>0, <1>3, <2>1
  <2>2. CASE ~\E a \in S : operation[a] = o
    BY <1>0, <1>3, <2>2 DEF AgesExact
  <2> QED BY <2>1, <2>2
<1>4. \A o \in Operation : cache'[o] = Empty \/ FromNode(o, cache'[o])
  BY <1>0 DEF AgesExact
<1> QED BY <1>1, <1>2, <1>3, <1>4 DEF FeeInv, AgesExact

\* A call that moves on without an answer.
LEMMA MoveKeepsFees ==
  ASSUME FeeInv, NEW a \in Ask, ask[a] # "idle",
         NEW stage \in {"failed", "joined", "fetching"}, ask' = [ask EXCEPT ![a] = stage],
         UNCHANGED <<ticks, operation, madeAt, fee, simulated, cache, estimates>>
  PROVE  FeeInv'
<1>1. \A b \in Ask : ask'[b] = "idle" => ask[b] = "idle"
  BY DEF FeeInv, FeeTypes
<1>2. FeeTypes'
  BY DEF FeeInv, FeeTypes
<1> QED BY <1>1, <1>2 DEF FeeInv, AgesExact

LEMMA StepKeepsFees == FeeInv /\ [FeeNext]_feeVars => FeeInv'
<1> SUFFICES ASSUME FeeInv, [FeeNext]_feeVars PROVE FeeInv'
  OBVIOUS
<1>0. FeeTypes /\ AgesExact
  BY DEF FeeInv
<1>1. ASSUME NEW a \in Ask, EstimateFee(a) PROVE FeeInv'
  <2> DEFINE cached == estimates[operation[a]]
  <2>1. /\ ask[a] = "idle" /\ madeAt' = [madeAt EXCEPT ![a] = ticks]
        /\ IF Recent(cached.at)
           THEN ask' = [ask EXCEPT ![a] = "done"] /\ fee' = [fee EXCEPT ![a] = cached.value]
           ELSE ask' = [ask EXCEPT ![a] = "building"] /\ fee' = fee
        /\ UNCHANGED <<ticks, operation, simulated, cache, estimates>>
    BY <1>1 DEF EstimateFee, estimatorVars
  <2>2. operation[a] \in Operation /\ cached \in Entries /\ fee[a] = NoFee
    BY <1>0, <2>1 DEF FeeTypes, AgesExact
  <2>3. cached.value \in Fees /\ cached.at \in Int /\ cached.value.read \in Int /\ cached.value.took \in Int
    BY <2>2 DEF Entries, Fees
  <2>4. Recent(cached.at) /\ cached.value.for = operation[a] => ticks - cached.value.read <= 2 * (FeeTtl - 1) + cached.value.took
    <3>1. cached.value.for = operation[a] => cached.at - cached.value.read < FeeTtl + cached.value.took
      BY <1>0, <2>2 DEF AgesExact
    <3>2. ticks \in Nat
      BY <1>0 DEF FeeTypes
    <3> HIDE DEF cached
    <3> QED BY <2>3, <3>1, <3>2, FeeBounds DEF Recent
  <2> HIDE DEF cached
  <2>5. FeeTypes'
    BY <1>0, <2>1, <2>3 DEF FeeTypes
  <2>6. ASSUME NEW b \in Ask
        PROVE  /\ madeAt'[b] <= ticks' /\ (ask'[b] = "idle" => fee'[b] = NoFee)
               /\ fee'[b].for = operation'[b] => madeAt'[b] - fee'[b].read <= 2 * (FeeTtl - 1) + fee'[b].took
    <3>1. CASE b = a
      <4>1. madeAt'[b] = ticks /\ ask'[b] # "idle" /\ ticks \in Nat
            /\ fee'[b] = IF Recent(cached.at) THEN cached.value ELSE NoFee
        BY <1>0, <2>1, <2>2, <3>1 DEF FeeTypes
      <4>2. ~Recent(cached.at) => fee'[b].for # operation[b]
        BY <2>2, <3>1, <4>1, FeeBounds
      <4> QED BY <2>1, <2>4, <3>1, <4>1, <4>2
    <3>2. CASE b # a
      <4>1. madeAt'[b] = madeAt[b] /\ ask'[b] = ask[b] /\ fee'[b] = fee[b]
        BY <1>0, <2>1, <3>2 DEF FeeTypes
      <4> QED BY <1>0, <2>1, <4>1 DEF AgesExact
    <3> QED BY <3>1, <3>2
  <2> QED BY <1>0, <2>1, <2>5, <2>6 DEF FeeInv, AgesExact
<1>2. ASSUME NEW a \in Ask, BuildingFails(a) PROVE FeeInv'
  BY <1>2, MoveKeepsFees DEF BuildingFails, estimatorVars
<1>3. ASSUME NEW a \in Ask, AskEstimator(a) PROVE FeeInv'
  <2> DEFINE o == operation[a]
  <2>1. ask[a] = "building" /\ UNCHANGED <<ticks, operation, madeAt, simulated, cache>>
    BY <1>3 DEF AskEstimator
  <2>2. /\ o \in Operation /\ cache[o] \in Entries /\ cache' \in [Operation -> Entries] /\ ticks \in Nat
        /\ simulated' \in [Operation -> Int]
    BY <1>0, <2>1 DEF FeeTypes
  <2>3. CASE Recent(cache[o].at) /\ Answer({a}, cache[o].value)
    <3>1. cache[o].value \in Fees
      BY <2>2 DEF Entries
    <3>2. cache[o] # Empty
      BY <2>2, <2>3, FeeBounds DEF Recent
    <3>3. ticks - cache[o].value.read < FeeTtl + cache[o].value.took
      <4>1. FromNode(o, cache[o])
        BY <1>0, <2>2, <3>2 DEF AgesExact
      <4>2. cache[o].at \in Int /\ cache[o].value.read \in Int /\ cache[o].value.took \in Int
        BY <2>2 DEF Entries, Fees
      <4> QED BY <2>2, <2>3, <4>1, <4>2, FeeBounds DEF Recent, FromNode
    <3> QED BY <2>1, <2>2, <2>3, <3>1, <3>3, AnswerKeepsFees
  <2>4. CASE Answer({a}, StandIn)
    BY <2>1, <2>2, <2>4, FeeBounds, AnswerKeepsFees
  <2>5. CASE /\ \E stage \in {"failed", "joined", "fetching"} : ask' = [ask EXCEPT ![a] = stage]
             /\ UNCHANGED <<fee, estimates>>
    BY <2>1, <2>5, MoveKeepsFees
  <2> QED BY <1>3, <2>3, <2>4, <2>5 DEF AskEstimator
<1>4. ASSUME NEW o \in Operation, FeeArrives(o) PROVE FeeInv'
  <2> DEFINE value == [for |-> o, read |-> simulated[o], took |-> ticks - simulated[o]]
  <2>1. /\ Answer(Sharing(o), value) /\ UNCHANGED <<ticks, operation, madeAt>>
        /\ cache' = [cache EXCEPT ![o] = [value |-> value, at |-> ticks]]
    BY <1>4 DEF FeeArrives
  <2>2. /\ ticks \in Nat /\ value \in Fees /\ [value |-> value, at |-> ticks] \in Entries
        /\ Sharing(o) \in SUBSET Ask /\ simulated[o] \in Int
    BY <1>0 DEF FeeTypes, Fees, Entries, Sharing
  <2>3. cache' \in [Operation -> Entries] /\ simulated' \in [Operation -> Int]
    <3>1. simulated' = [simulated EXCEPT ![o] = Never]
      BY <1>4 DEF FeeArrives
    <3> QED BY <1>0, <2>1, <2>2, <3>1, FeeBounds DEF FeeTypes
  <2>4. \A p \in Operation : cache'[p] = cache[p] \/ FromNode(p, cache'[p])
    <3> SUFFICES ASSUME NEW p \in Operation, cache'[p] # cache[p]
                 PROVE  FromNode(p, cache'[p])
      OBVIOUS
    <3>1. p = o /\ cache'[p] = [value |-> value, at |-> ticks]
      BY <1>0, <2>1 DEF FeeTypes
    <3> QED BY <3>1 DEF FromNode
  <2>5. ticks - value.read < FeeTtl + value.took
    BY <2>2, FeeBounds
  <2> HIDE DEF value
  <2> QED BY <2>1, <2>2, <2>3, <2>4, <2>5, AnswerKeepsFees
<1>5. ASSUME NEW o \in Operation, FeeFails(o) PROVE FeeInv'
  <2>1. /\ Answer(Sharing(o), StandIn) /\ UNCHANGED <<ticks, operation, madeAt, cache>>
        /\ Sharing(o) \in SUBSET Ask
    BY <1>5 DEF FeeFails, Sharing
  <2>2. cache' \in [Operation -> Entries] /\ simulated' \in [Operation -> Int]
    <3>1. simulated' = [simulated EXCEPT ![o] = Never]
      BY <1>5 DEF FeeFails
    <3> QED BY <1>0, <2>1, <3>1, FeeBounds DEF FeeTypes
  <2> QED BY <2>1, <2>2, FeeBounds, AnswerKeepsFees
<1>6. ASSUME UNCHANGED <<ask, operation, madeAt, fee, cache, estimates>>,
             simulated' \in [Operation -> Int], ticks' \in Nat, ticks <= ticks'
      PROVE  FeeInv'
  <2>1. FeeTypes'
    BY <1>0, <1>6 DEF FeeTypes
  <2>2. \A a \in Ask : madeAt[a] <= ticks'
    BY <1>0, <1>6 DEF FeeTypes, AgesExact
  <2> QED BY <1>0, <1>6, <2>1, <2>2 DEF FeeInv, AgesExact
<1>7. ticks \in Nat /\ simulated \in [Operation -> Int]
  BY <1>0 DEF FeeTypes
<1>11. ASSUME NEW o \in Operation, NodeSimulates(o) PROVE FeeInv'
  BY <1>6, <1>7, <1>11 DEF NodeSimulates
<1>8. CASE StatsNext
  BY <1>6, <1>7, <1>8 DEF StatsNext, GetLedgerFeeStats, StatsArrive, StatsFail, estimatorVars
<1>9. CASE FeeTick
  BY <1>6, <1>7, <1>9 DEF FeeTick, estimatorVars
<1>10. CASE UNCHANGED feeVars
  BY <1>6, <1>7, <1>10 DEF feeVars, estimatorVars
<1> QED BY <1>1, <1>2, <1>3, <1>4, <1>5, <1>8, <1>9, <1>10, <1>11 DEF FeeNext, EstimateNext

\* FeeEstimator.estimateFee() behind the cache of StreamsModule: for any number
\* of calls and operations and any time to live, whatever is shared, fails or
\* arrives late, an estimate is, when it is asked for, older than twice the time
\* to live by no more than the answer of the node was on the way.
THEOREM EstimateAgeBounded == FeeSpec => []EstimateAge
<1>1. FeeInit => FeeInv
  <2> SUFFICES ASSUME FeeInit PROVE FeeInv
    OBVIOUS
  <2>1. FeeTypes
    BY FeeBounds DEF FeeInit, FeeTypes
  <2>2. AgesExact
    BY FeeBounds DEF FeeInit, AgesExact
  <2> QED BY <2>1, <2>2 DEF FeeInv
<1>2. FeeInv => EstimateAge
  BY DEF FeeInv, AgesExact, FromNode, EstimateAge
<1> QED BY <1>1, <1>2, StepKeepsFees, PTL DEF FeeSpec

-----------------------------------------------------------------------------
(* What a stream owes                                                      *)

\* A rate is not negative and a closed term ends after it starts.
Sound(s) ==
    /\ s \in StreamInfo
    /\ s.ratePerSecond >= 0 /\ s.startTime >= 0
    /\ s.endTime >= 0 /\ (s.endTime > 0 => s.startTime < s.endTime)

PayoutInv ==
    /\ Sound(stream) /\ mathClock \in Nat
    /\ stream.withdrawn >= 0
    /\ ~stream.cancelled => stream.withdrawn <= StreamedTotalLocal(stream, mathClock)

-----------------------------------------------------------------------------
LEMMA ProductMonotone ==
    ASSUME NEW r \in Int, r >= 0, NEW a \in Int, NEW b \in Int, a <= b
    PROVE  r * a <= r * b
  <1>1. r * (b - a) >= 0
    BY SMT
  <1>. QED BY <1>1, SMT

LEMMA ElapsedInt ==
    ASSUME NEW s, Sound(s), NEW t \in Int
    PROVE  /\ EndClamped(s, t) \in Int /\ EffectiveNow(s, t) \in Int
           /\ Elapsed(s, t) \in Nat
           /\ s.endTime > 0 => Elapsed(s, t) <= s.endTime - s.startTime
           /\ Elapsed(s, t) <= AtLeastZero(EndClamped(s, t) - s.startTime)
           /\ ~s.paused => Elapsed(s, t) = AtLeastZero(EndClamped(s, t) - s.startTime)
  BY SMT DEF Sound, StreamInfo, EndClamped, EffectiveNow, Elapsed, AtLeastZero

LEMMA ElapsedMonotone ==
    ASSUME NEW s, Sound(s), NEW t \in Int, NEW u \in Int, t <= u
    PROVE  Elapsed(s, t) <= Elapsed(s, u)
  BY SMT DEF Sound, StreamInfo, EndClamped, EffectiveNow, Elapsed, AtLeastZero

LEMMA StreamedInt ==
    ASSUME NEW s, Sound(s), NEW t \in Int
    PROVE  StreamedTotalLocal(s, t) \in Int
  <1>1. Elapsed(s, t) \in Int
    BY ElapsedInt
  <1>. QED BY <1>1, SMT DEF StreamedTotalLocal, Sound, StreamInfo

\* The copies of the formula in src/utils.ts and src/streams.ts give the same
\* amount for every snapshot and every time, whatever was withdrawn.
THEOREM CopiesAgree ==
    ASSUME NEW s \in StreamInfo, NEW t \in Int
    PROVE  CalculateWithdrawableAmount(s, t) = WithdrawableLocal(s, t) \/ s.withdrawn < 0
  <1>1. EffectiveNow(s, t) \in Int /\ s.withdrawn \in Int /\ s.ratePerSecond \in Int
        /\ s.startTime \in Int /\ s.cancelled \in BOOLEAN
    BY SMT DEF StreamInfo, EndClamped, EffectiveNow
  <1>. DEFINE e == EffectiveNow(s, t)
  <1>2. CASE e < s.startTime
    <2>1. Elapsed(s, t) = 0
      BY <1>1, <1>2, SMT DEF Elapsed, AtLeastZero
    <2>. QED BY <1>1, <1>2, <2>1, SMT DEF CalculateWithdrawableAmount, WithdrawableLocal, AtLeastZero
  <1>3. CASE ~(e < s.startTime)
    <2>1. Elapsed(s, t) = e - s.startTime
      BY <1>1, <1>3, SMT DEF Elapsed, AtLeastZero
    <2>. QED BY <1>1, <1>3, <2>1, SMT DEF CalculateWithdrawableAmount, WithdrawableLocal
  <1>. QED BY <1>2, <1>3

\* What has been streamed never falls with time, while the stream is not
\* cancelled: pauses and the end of the term only stop it.
THEOREM StreamedMonotone ==
    ASSUME NEW s, Sound(s), ~s.cancelled, NEW t \in Int, NEW u \in Int, t <= u
    PROVE  StreamedTotalLocal(s, t) <= StreamedTotalLocal(s, u)
  <1>1. Elapsed(s, t) \in Int /\ Elapsed(s, u) \in Int /\ Elapsed(s, t) <= Elapsed(s, u)
    BY ElapsedInt, ElapsedMonotone
  <1>2. s.ratePerSecond \in Int /\ s.ratePerSecond >= 0
    BY SMT DEF Sound, StreamInfo
  <1>3. s.ratePerSecond * Elapsed(s, t) <= s.ratePerSecond * Elapsed(s, u)
    BY <1>1, <1>2, ProductMonotone
  <1>. QED BY <1>3 DEF StreamedTotalLocal

-----------------------------------------------------------------------------
LEMMA InvGivesTotals ==
    ASSUME PayoutInv
    PROVE  TotalsAgree(stream, mathClock)
  <1>. USE DEF PayoutInv
  <1>1. stream \in StreamInfo /\ mathClock \in Int /\ stream.withdrawn >= 0
    BY SMT DEF Sound
  <1>2. CalculateWithdrawableAmount(stream, mathClock) = WithdrawableLocal(stream, mathClock)
    <2>1. ~(stream.withdrawn < 0)
      BY <1>1, SMT DEF StreamInfo
    <2>. QED BY <1>1, <2>1, CopiesAgree
  <1>3. StreamedTotalLocal(stream, mathClock) \in Int
    BY <1>1, StreamedInt
  <1>4. stream.withdrawn + WithdrawableLocal(stream, mathClock) = StreamedTotalLocal(stream, mathClock)
    <2>1. CASE stream.cancelled
      BY <1>1, <2>1, SMT DEF WithdrawableLocal, StreamedTotalLocal, StreamInfo
    <2>2. CASE ~stream.cancelled
      <3>1. WithdrawableLocal(stream, mathClock)
              = AtLeastZero(StreamedTotalLocal(stream, mathClock) - stream.withdrawn)
        BY <2>2 DEF WithdrawableLocal, StreamedTotalLocal
      <3>. QED BY <1>1, <1>3, <2>2, <3>1, SMT DEF AtLeastZero, StreamInfo
    <2>. QED BY <2>1, <2>2
  <1>. QED BY <1>2, <1>4 DEF TotalsAgree

\* A closed term is paid for once and in full, whatever the pauses.
THEOREM TermBoundsPayout ==
    ASSUME NEW s, Sound(s), NEW t \in Int
    PROVE  WithinTerm(s, t)
  <1>. SUFFICES ASSUME ~s.cancelled
                PROVE  WithinTerm(s, t)
    BY DEF WithinTerm
  <1>1. /\ s.ratePerSecond \in Int /\ s.ratePerSecond >= 0
        /\ s.startTime \in Int /\ s.endTime \in Int
    BY SMT DEF Sound, StreamInfo
  <1>. DEFINE e == Elapsed(s, t)
              full == AtLeastZero(EndClamped(s, t) - s.startTime)
  <1>2. StreamedTotalLocal(s, t) = s.ratePerSecond * e
    BY DEF StreamedTotalLocal
  <1>3. e \in Int /\ full \in Int /\ e <= full /\ (~s.paused => e = full)
    BY <1>1, ElapsedInt, SMT DEF AtLeastZero
  <1>4. s.endTime > 0 => StreamedTotalLocal(s, t) <= s.ratePerSecond * (s.endTime - s.startTime)
    <2>1. SUFFICES ASSUME s.endTime > 0
                   PROVE  s.ratePerSecond * e <= s.ratePerSecond * (s.endTime - s.startTime)
      BY <1>2
    <2>2. e <= s.endTime - s.startTime
      BY <2>1, ElapsedInt
    <2>3. s.endTime - s.startTime \in Int
      BY <1>1, SMT
    <2>. HIDE DEF e
    <2>. QED BY <1>1, <1>3, <2>2, <2>3, ProductMonotone
  <1>5. s.endTime > 0 => s.ratePerSecond * VestedSeconds(s, t) = StreamedTotalLocal(s, t)
    <2>1. SUFFICES ASSUME s.endTime > 0
                   PROVE  VestedSeconds(s, t) = e
      BY <1>2
    <2>2. e <= s.endTime - s.startTime /\ s.startTime < s.endTime
      BY <2>1, ElapsedInt DEF Sound
    <2>. QED BY <1>1, <1>3, <2>1, <2>2, SMT DEF VestedSeconds
  <1>6. CalculateAccruedAmount(s, t) = s.ratePerSecond * full
    <2>1. CASE t < s.startTime
      <3>1. full = 0
        BY <1>1, <2>1, SMT DEF AtLeastZero, EndClamped, Sound
      <3>2. s.ratePerSecond * 0 = 0
        BY <1>1, SMT
      <3>. QED BY <2>1, <3>1, <3>2 DEF CalculateAccruedAmount
    <2>2. CASE ~(t < s.startTime)
      BY <2>2 DEF CalculateAccruedAmount
    <2>. QED BY <2>1, <2>2
  <1>7. s.ratePerSecond * e <= s.ratePerSecond * full
    <2>. HIDE DEF e, full
    <2>. QED BY <1>1, <1>3, ProductMonotone
  <1>. QED BY <1>2, <1>3, <1>4, <1>5, <1>6, <1>7 DEF WithinTerm

\* A stream that is over, or that the recipient may cancel for having been
\* paused, streams no more.
THEOREM FrozenStreamsNothing ==
    ASSUME NEW s, Sound(s), NEW t \in Int
    PROVE  FrozenWhenOver(s, t)
  <1>1. CASE s.cancelled
    BY <1>1 DEF FrozenWhenOver, StreamStatus, IsStreamCancellableBy
  <1>2. CASE ~s.cancelled /\ (StreamStatus(s, t) = "completed" \/ IsStreamCancellableBy(s, "recipient", 0, t))
    <2>1. \/ s.endTime # 0 /\ t >= s.endTime
          \/ s.paused /\ t - s.pausedAt >= 0
      BY <1>2 DEF StreamStatus, IsStreamCancellableBy
    <2>2. Elapsed(s, t + 1) = Elapsed(s, t)
      BY <2>1, SMT DEF Sound, StreamInfo, EndClamped, EffectiveNow, Elapsed, AtLeastZero
    <2>3. StreamedTotalLocal(s, t + 1) = StreamedTotalLocal(s, t)
      BY <2>2 DEF StreamedTotalLocal
    <2>4. ~s.paused => RemainingTime(s, t) = 0
      BY <2>1, SMT DEF RemainingTime, Sound, StreamInfo
    <2>. QED BY <2>3, <2>4 DEF FrozenWhenOver
  <1>. QED BY <1>1, <1>2 DEF FrozenWhenOver

-----------------------------------------------------------------------------
LEMMA InitEstablishes ==
    MathInit => PayoutInv
  <1>. SUFFICES ASSUME MathInit
                PROVE  PayoutInv
    OBVIOUS
  <1>1. PICK rate \in 1 .. MaxRate, start \in {0, 1}, end \in {0} \cup 2 .. MaxTime - 1 :
           stream = [ratePerSecond |-> rate, startTime |-> start, endTime |-> end, withdrawn |-> 0,
                     paused |-> FALSE, pausedAt |-> 0, cancelled |-> FALSE]
    BY DEF MathInit
  <1>2. mathClock = 0
    BY DEF MathInit
  <1>3. Sound(stream) /\ stream.withdrawn = 0 /\ stream.ratePerSecond \in Int
        /\ stream.ratePerSecond >= 0
    BY <1>1, MathAssumption, SMT DEF Sound, StreamInfo
  <1>4. 0 <= StreamedTotalLocal(stream, 0)
    <2>1. Elapsed(stream, 0) \in Nat
      BY <1>3, ElapsedInt
    <2>2. stream.ratePerSecond * 0 <= stream.ratePerSecond * Elapsed(stream, 0)
      BY <1>3, <2>1, ProductMonotone
    <2>3. ~stream.cancelled
      BY <1>1
    <2>. QED BY <1>3, <2>2, <2>3, SMT DEF StreamedTotalLocal
  <1>. QED BY <1>2, <1>3, <1>4, SMT DEF PayoutInv

LEMMA TickPreserves ==
    PayoutInv /\ MathTick => PayoutInv'
  <1>. SUFFICES ASSUME PayoutInv, MathTick
                PROVE  PayoutInv'
    OBVIOUS
  <1>1. stream' = stream /\ mathClock' = mathClock + 1 /\ mathClock \in Nat
    BY DEF MathTick, PayoutInv
  <1>2. ASSUME ~stream.cancelled
        PROVE  stream.withdrawn <= StreamedTotalLocal(stream, mathClock + 1)
    <2>. DEFINE before == StreamedTotalLocal(stream, mathClock)
                after == StreamedTotalLocal(stream, mathClock + 1)
    <2>1. mathClock \in Int /\ mathClock + 1 \in Int /\ mathClock <= mathClock + 1
      BY <1>1, SMT
    <2>2. before <= after /\ before \in Int /\ after \in Int
      BY <1>2, <2>1, StreamedMonotone, StreamedInt DEF PayoutInv
    <2>3. stream.withdrawn <= before /\ stream.withdrawn \in Int
      BY <1>2 DEF PayoutInv, Sound, StreamInfo
    <2>. HIDE DEF before, after
    <2>4. stream.withdrawn <= after
      BY <2>2, <2>3, SMT
    <2>. QED BY <2>4 DEF after
  <1>3. Sound(stream)' /\ stream'.withdrawn >= 0 /\ mathClock' \in Nat
    BY <1>1, SMT DEF PayoutInv, Sound
  <1>. QED BY <1>1, <1>2, <1>3 DEF PayoutInv, StreamedTotalLocal, Elapsed, EffectiveNow, EndClamped

LEMMA WithdrawPreserves ==
    ASSUME PayoutInv, NEW amount \in Int, WithdrawSome(amount)
    PROVE  PayoutInv'
  <1>. DEFINE taken == SimulateWithdraw(stream, amount, mathClock).withdrawAmount
              can == CalculateWithdrawableAmount(stream, mathClock)
              streamed == StreamedTotalLocal(stream, mathClock)
  <1>1. stream \in StreamInfo /\ mathClock \in Int /\ stream.withdrawn >= 0 /\ mathClock' = mathClock
    BY SMT DEF PayoutInv, Sound, WithdrawSome
  <1>2. taken > 0 /\ stream' = [stream EXCEPT !.withdrawn = @ + taken]
    BY DEF WithdrawSome
  <1>3. stream.withdrawn + WithdrawableLocal(stream, mathClock) = streamed
        /\ can = WithdrawableLocal(stream, mathClock)
    BY InvGivesTotals DEF TotalsAgree
  <1>4. streamed \in Int
    BY <1>1, StreamedInt DEF PayoutInv
  <1>5. can \in Int
    <2>1. EffectiveNow(stream, mathClock) \in Int
      BY <1>1, ElapsedInt DEF PayoutInv
    <2>. QED BY <1>1, <2>1, SMT DEF CalculateWithdrawableAmount, AtLeastZero, StreamInfo
  <1>6. taken = IF amount > can THEN can ELSE amount
    BY DEF SimulateWithdraw
  <1>. HIDE DEF taken, can, streamed
  <1>7. taken \in Int /\ taken <= can
    BY <1>5, <1>6, SMT
  <1>8. stream.withdrawn \in Int /\ stream.withdrawn + taken <= streamed
    <2>1. stream.withdrawn \in Int
      BY <1>1 DEF StreamInfo
    <2>. QED BY <1>3, <1>4, <1>5, <1>7, <2>1, SMT
  <1>9. /\ stream' \in StreamInfo /\ stream'.withdrawn = stream.withdrawn + taken
        /\ stream'.ratePerSecond = stream.ratePerSecond /\ stream'.startTime = stream.startTime
        /\ stream'.endTime = stream.endTime /\ stream'.paused = stream.paused
        /\ stream'.pausedAt = stream.pausedAt /\ stream'.cancelled = stream.cancelled
    BY <1>1, <1>2, <1>7, <1>8, SMT DEF StreamInfo
  <1>10. Sound(stream)'
    BY <1>9 DEF PayoutInv, Sound
  <1>11. ~stream'.cancelled => stream'.withdrawn <= StreamedTotalLocal(stream, mathClock)'
    <2>1. SUFFICES ASSUME ~stream.cancelled
                   PROVE  stream.withdrawn + taken <= StreamedTotalLocal(stream, mathClock)'
      BY <1>9
    <2>2. StreamedTotalLocal(stream, mathClock)' = streamed
      BY <1>1, <1>9, <2>1 DEF StreamedTotalLocal, Elapsed, EffectiveNow, EndClamped, streamed
    <2>. QED BY <1>8, <2>2
  <1>12. stream'.withdrawn >= 0
    BY <1>1, <1>2, <1>7, <1>8, <1>9, SMT
  <1>. QED BY <1>1, <1>10, <1>11, <1>12 DEF PayoutInv

LEMMA PausePreserves ==
    PayoutInv /\ PausedOnLedger => PayoutInv'
  <1>. SUFFICES ASSUME PayoutInv, PausedOnLedger
                PROVE  PayoutInv'
    OBVIOUS
  <1>1. PICK ahead \in {0, 1} :
           stream' = [stream EXCEPT !.paused = TRUE, !.pausedAt = mathClock + ahead]
    BY DEF PausedOnLedger
  <1>2. /\ ~stream.paused /\ ~stream.cancelled /\ mathClock' = mathClock
        /\ mathClock \in Nat /\ stream \in StreamInfo
    BY DEF PausedOnLedger, PayoutInv, Sound
  <1>3. /\ stream' \in StreamInfo /\ stream'.pausedAt = mathClock + ahead
        /\ stream'.ratePerSecond = stream.ratePerSecond /\ stream'.startTime = stream.startTime
        /\ stream'.endTime = stream.endTime /\ stream'.withdrawn = stream.withdrawn
        /\ ~stream'.cancelled
    <2>1. stream \in StreamInfo /\ ahead \in Int /\ mathClock + ahead \in Int /\ mathClock' = mathClock
      BY <1>2, SMT
    <2>. DEFINE at == mathClock + ahead
    <2>2. stream' = [stream EXCEPT !.paused = TRUE, !.pausedAt = at]
      BY <1>1
    <2>3. at \in Int
      BY <2>1
    <2>. HIDE DEF at
    <2>4. stream' \in StreamInfo /\ stream'.pausedAt = at
      BY <2>1, <2>2, <2>3 DEF StreamInfo
    <2>5. /\ stream'.ratePerSecond = stream.ratePerSecond /\ stream'.startTime = stream.startTime
          /\ stream'.endTime = stream.endTime /\ stream'.withdrawn = stream.withdrawn
          /\ stream'.cancelled = stream.cancelled
      BY <2>1, <2>2 DEF StreamInfo
    <2>. QED BY <1>2, <2>4, <2>5 DEF at
  <1>4. Elapsed(stream', mathClock) = Elapsed(stream, mathClock)
    <2>1. EndClamped(stream', mathClock) = EndClamped(stream, mathClock)
          /\ EndClamped(stream, mathClock) <= mathClock
      BY <1>2, <1>3, SMT DEF EndClamped, StreamInfo
    <2>2. EndClamped(stream, mathClock) \in Int
      BY <1>2, SMT DEF EndClamped, StreamInfo
    <2>3. ~(stream'.pausedAt < EndClamped(stream, mathClock))
      BY <1>2, <1>3, <2>1, <2>2, SMT
    <2>4. EffectiveNow(stream', mathClock) = EffectiveNow(stream, mathClock)
      BY <1>2, <2>1, <2>3 DEF EffectiveNow
    <2>. QED BY <1>3, <2>4 DEF Elapsed
  <1>5. StreamedTotalLocal(stream', mathClock) = StreamedTotalLocal(stream, mathClock)
    BY <1>2, <1>3, <1>4 DEF StreamedTotalLocal
  <1>6. Sound(stream')
    BY <1>3 DEF PayoutInv, Sound
  <1>7. Sound(stream)' /\ StreamedTotalLocal(stream, mathClock)' = StreamedTotalLocal(stream', mathClock)
    BY <1>2, <1>6 DEF Sound, StreamedTotalLocal, Elapsed, EffectiveNow, EndClamped
  <1>. QED BY <1>2, <1>3, <1>5, <1>7 DEF PayoutInv

LEMMA CancelPreserves ==
    PayoutInv /\ CancelledOnLedger => PayoutInv'
  <1>. SUFFICES ASSUME PayoutInv, CancelledOnLedger
                PROVE  PayoutInv'
    OBVIOUS
  <1>1. stream' = [stream EXCEPT !.cancelled = TRUE] /\ mathClock' = mathClock
    BY DEF CancelledOnLedger
  <1>2. /\ stream' \in StreamInfo /\ stream'.cancelled
        /\ stream'.ratePerSecond = stream.ratePerSecond /\ stream'.startTime = stream.startTime
        /\ stream'.endTime = stream.endTime /\ stream'.withdrawn = stream.withdrawn
    <2>1. stream \in StreamInfo
      BY DEF PayoutInv, Sound
    <2>. QED BY <1>1, <2>1 DEF StreamInfo
  <1>. QED BY <1>1, <1>2 DEF PayoutInv, Sound

\* In whatever order withdrawals, pauses, the cancellation and the end of the
\* term come, for every rate, term and amount: what was taken and what can be
\* taken are what was streamed, and no closed term pays for more than its seconds.
THEOREM PayoutsExact ==
    MathSpec => []PayoutExact
  <1>1. PayoutInv => PayoutExact
    <2>. SUFFICES ASSUME PayoutInv
                  PROVE  PayoutExact
      OBVIOUS
    <2>1. Sound(stream) /\ mathClock \in Int
      BY SMT DEF PayoutInv
    <2>. QED BY <2>1, InvGivesTotals, TermBoundsPayout, FrozenStreamsNothing DEF PayoutExact
  <1>2. PayoutInv /\ [MathNext]_mathVars => PayoutInv'
    <2>. SUFFICES ASSUME PayoutInv, [MathNext]_mathVars
                  PROVE  PayoutInv'
      OBVIOUS
    <2>1. CASE MathTick
      BY <2>1, TickPreserves
    <2>2. CASE \E amount \in 1 .. MaxRate + 1 : WithdrawSome(amount)
      <3>1. PICK amount \in 1 .. MaxRate + 1 : WithdrawSome(amount)
        BY <2>2
      <3>2. amount \in Int
        BY MathAssumption, SMT
      <3>. QED BY <3>1, <3>2, WithdrawPreserves
    <2>3. CASE PausedOnLedger
      BY <2>3, PausePreserves
    <2>4. CASE CancelledOnLedger
      BY <2>4, CancelPreserves
    <2>5. CASE UNCHANGED mathVars
      BY <2>5 DEF mathVars, PayoutInv, Sound, StreamedTotalLocal, Elapsed, EffectiveNow, EndClamped
    <2>. QED BY <2>1, <2>2, <2>3, <2>4, <2>5 DEF MathNext
  <1>. QED BY InitEstablishes, <1>1, <1>2, PTL DEF MathSpec

-----------------------------------------------------------------------------
(* Leading entries *)

\* A sequence holds the first numbers of a set.
Leads(r, W) ==
    /\ Len(r) <= Cardinality(W)
    /\ \A k \in 1 .. Len(r) : r[k] = Nth(W, k)

LEMMA LeadsIs ==
  ASSUME NEW W \in SUBSET Nat, IsFiniteSet(W), NEW r \in Seq(Nat), Leads(r, W)
  PROVE  /\ Ascends(r) /\ EntriesOf(r) \subseteq W
         /\ Len(r) = Cardinality(W) => EntriesOf(r) = W
<1>1. /\ Cardinality(W) \in Nat /\ Len(r) \in Nat /\ DOMAIN r = 1 .. Len(r)
      /\ \A k \in 1 .. Cardinality(W) : Nth(W, k) \in W
      /\ \A j, k \in 1 .. Cardinality(W) : j < k => Nth(W, j) < Nth(W, k)
      /\ \A i \in W : \E k \in 1 .. Cardinality(W) : Nth(W, k) = i
  BY NthAscends
<1>2. Len(r) <= Cardinality(W) /\ \A k \in 1 .. Len(r) : r[k] = Nth(W, k) /\ k \in 1 .. Cardinality(W)
  BY <1>1 DEF Leads
<1>3. Ascends(r)
  BY <1>1, <1>2 DEF Ascends
<1>4. EntriesOf(r) \subseteq W
  BY <1>1, <1>2 DEF EntriesOf
<1>5. ASSUME Len(r) = Cardinality(W) PROVE W \subseteq EntriesOf(r)
  BY <1>1, <1>2, <1>5 DEF EntriesOf
<1> QED BY <1>3, <1>4, <1>5

LEMMA LeadsStay ==
  ASSUME NEW W \in SUBSET Nat, NEW U \in SUBSET Nat, IsFiniteSet(U), W \subseteq U,
         \A i \in W : \A j \in U : j < i => j \in W,
         NEW r \in Seq(Nat), Leads(r, W)
  PROVE  Leads(r, U)
<1>1. IsFiniteSet(W) /\ Cardinality(W) <= Cardinality(U)
      /\ \A k \in 1 .. Cardinality(W) : Nth(U, k) = Nth(W, k)
  BY NthStable
<1>2. Cardinality(W) \in Nat /\ Cardinality(U) \in Nat /\ Len(r) \in Nat
  BY <1>1, FS_CardinalityType
<1>3. Len(r) <= Cardinality(W) /\ \A k \in 1 .. Len(r) : r[k] = Nth(W, k) /\ k \in 1 .. Cardinality(W)
  BY <1>2 DEF Leads
<1> QED BY <1>1, <1>2, <1>3 DEF Leads

\* A page of the list of another set, where the two lists agree.
LEMMA LeadsOn ==
  ASSUME NEW W \in SUBSET Nat, IsFiniteSet(W), NEW r \in Seq(Nat), Leads(r, W),
         NEW U \in SUBSET Nat, IsFiniteSet(U), NEW e \in Nat, Len(r) <= e,
         e <= Cardinality(W), e <= Cardinality(U),
         \A k \in 1 .. e : Nth(U, k) = Nth(W, k)
  PROVE  LET h == SubSeq(Ascending(U), Len(r) + 1, e)
         IN  /\ r \o h \in Seq(Nat) /\ Leads(r \o h, W) /\ Len(r \o h) = e
             /\ Len(h) = e - Len(r)
<1> DEFINE m == Len(r)
           s == Ascending(U)
           h == SubSeq(s, m + 1, e)
           u == r \o h
<1>1. s \in Seq(Nat) /\ Len(s) = Cardinality(U) /\ Cardinality(U) \in Nat
      /\ \A k \in 1 .. Cardinality(U) : s[k] = Nth(U, k)
  BY AscendingIs
<1>2. m \in Nat /\ Cardinality(W) \in Nat /\ DOMAIN r = 1 .. m
  BY FS_CardinalityType
<1> HIDE DEF s
<1>3. /\ h \in Seq(Nat) /\ Len(h) = e - m
      /\ \A k \in 1 .. e - m : h[k] = s[m + k]
  <2> HIDE DEF m
  <2>1. \A k \in m + 1 .. e : s[k] \in Nat
    BY <1>1, <1>2
  <2> DEFINE n == e - m
  <2>2. n \in Nat
    BY <1>2 DEF m
  <2>3. h = [k \in 1 .. n |-> s[m + k]]
    <3>1. h = [k \in 1 .. (e - (m + 1)) + 1 |-> s[(k + (m + 1)) - 1]]
      BY <1>1, <1>2
    <3>2. (e - (m + 1)) + 1 = n /\ \A k \in 1 .. n : (k + (m + 1)) - 1 = m + k
      BY <1>2
    <3> QED BY <3>1, <3>2
  <2>4. \A k \in 1 .. n : m + k \in m + 1 .. e
    BY <1>2
  <2> HIDE DEF h, n
  <2>5. h \in Seq(Nat) /\ Len(h) = n /\ \A k \in 1 .. n : h[k] = s[m + k]
    BY <2>1, <2>2, <2>3, <2>4
  <2> QED BY <2>5 DEF n
<1> HIDE DEF h
<1>4. /\ u \in Seq(Nat) /\ Len(u) = e
      /\ \A k \in 1 .. m : u[k] = r[k]
      /\ \A k \in m + 1 .. e : u[k] = h[k - m]
  <2>1. h \in Seq(Nat) /\ Len(h) = e - m
    BY <1>3
  <2>2. u \in Seq(Nat) /\ Len(u) = m + Len(h)
    BY <2>1
  <2>3. m + Len(h) = e
    BY <1>2, <2>1
  <2>4. \A k \in 1 .. m + Len(h) : u[k] = IF k <= m THEN r[k] ELSE h[k - m]
    BY <2>1
  <2> HIDE DEF u, m
  <2> QED BY <1>2, <2>2, <2>3, <2>4
<1> HIDE DEF u
<1>5. ASSUME NEW k \in 1 .. e PROVE u[k] = Nth(W, k)
  <2>1. CASE k \in 1 .. m
    BY <1>4, <2>1 DEF Leads
  <2>2. CASE k \in m + 1 .. e
    <3>1. k - m \in 1 .. e - m /\ m + (k - m) = k /\ k \in 1 .. Cardinality(U)
      BY <1>1, <1>2, <2>2
    <3>2. u[k] = s[k] /\ s[k] = Nth(U, k)
      BY <1>1, <1>3, <1>4, <2>2, <3>1
    <3> QED BY <3>2
  <2> QED BY <1>2, <2>1, <2>2
<1>6. Leads(u, W)
  BY <1>4, <1>5 DEF Leads
<1> QED BY <1>3, <1>4, <1>6 DEF u, h, s

\* The numbers that lead in one of two sets lead in both together.
LEMMA MergedLead ==
  ASSUME NEW S \in SUBSET Nat, IsFiniteSet(S), NEW V \in SUBSET Nat, IsFiniteSet(V),
         NEW n \in Nat, NEW U \in SUBSET (S \cup V),
         FirstOnes(S, n) \subseteq U, FirstOnes(V, n) \subseteq U
  PROVE  LET W == S \cup V
         IN  /\ W \in SUBSET Nat /\ IsFiniteSet(W) /\ IsFiniteSet(U)
             /\ Cardinality(W) \in Nat /\ Cardinality(U) \in Nat
             /\ Cardinality(U) <= Cardinality(W)
             /\ n >= Cardinality(W) => U = W
             /\ n < Cardinality(W) => n <= Cardinality(U)
             /\ \A k \in 1 .. Cardinality(W) : k <= n => Nth(U, k) = Nth(W, k)
<1> DEFINE W == S \cup V
           F == FirstOnes(W, n)
<1>1. W \in SUBSET Nat /\ IsFiniteSet(W) /\ IsFiniteSet(U) /\ S \subseteq W /\ V \subseteq W
      /\ U \in SUBSET Nat /\ U \subseteq W
  BY FS_Union, FS_Subset
<1>2. \A i \in W : i \in S \/ i \in V
  OBVIOUS
<1> HIDE DEF W
<1>3. /\ Cardinality(W) \in Nat /\ Cardinality(U) \in Nat /\ Cardinality(U) <= Cardinality(W)
  BY <1>1, FS_CardinalityType, FS_Subset
<1>4. ASSUME NEW i \in F PROVE i \in U
  <2>1. i \in W /\ Rank(W, i) < n /\ i \in Nat
    BY <1>1 DEF FirstOnes
  <2>2. ASSUME NEW X \in SUBSET Nat, IsFiniteSet(X), X \subseteq W, i \in X PROVE i \in FirstOnes(X, n)
    <3>1. IsFiniteSet(Below(W, i)) /\ Rank(W, i) \in Nat /\ Rank(X, i) \in Nat
      BY <1>1, <2>1, <2>2, RankIs
    <3>2. Below(X, i) \subseteq Below(W, i)
      BY <2>2 DEF Below
    <3>3. Rank(X, i) <= Rank(W, i)
      BY <3>1, <3>2, FS_Subset DEF Rank
    <3>4. Rank(X, i) < n
      BY <2>1, <3>1, <3>3
    <3> QED BY <2>2, <3>4 DEF FirstOnes
  <2>3. i \in S \/ i \in V
    BY <1>2, <2>1
  <2> QED BY <1>1, <2>2, <2>3
<1>5. /\ F \subseteq W /\ IsFiniteSet(F)
      /\ \A i \in F : \A j \in W : j < i => j \in F
      /\ Cardinality(F) = IF n < Cardinality(W) THEN n ELSE Cardinality(W)
      /\ n >= Cardinality(W) => F = W
  BY <1>1, FirstOnesIs
<1> HIDE DEF F
<1>6. /\ \A k \in 1 .. Cardinality(F) : Nth(W, k) = Nth(F, k)
  <2>1. F \in SUBSET Nat
    BY <1>1, <1>5
  <2> QED BY <1>1, <1>5, <2>1, NthStable
<1>7. /\ Cardinality(F) <= Cardinality(U)
      /\ \A k \in 1 .. Cardinality(F) : Nth(U, k) = Nth(F, k)
  <2>1. F \in SUBSET Nat /\ F \subseteq U
    BY <1>1, <1>4, <1>5
  <2>2. \A i \in F : \A j \in U : j < i => j \in F
    BY <1>1, <1>5
  <2> QED BY <1>1, <2>1, <2>2, NthStable
<1>8. n >= Cardinality(W) => U = W
  BY <1>1, <1>4, <1>5
<1>9. n < Cardinality(W) => n <= Cardinality(U)
  BY <1>5, <1>7
<1>10. ASSUME NEW k \in 1 .. Cardinality(W), k <= n PROVE Nth(U, k) = Nth(W, k)
  <2>1. k \in 1 .. Cardinality(F)
    BY <1>3, <1>5, <1>10
  <2> QED BY <1>6, <1>7, <2>1
<1> QED BY <1>1, <1>3, <1>8, <1>9, <1>10 DEF W

LEMMA MinOf ==
  ASSUME NEW a \in Nat, NEW b \in Nat
  PROVE  Min({a, b}) = IF a < b THEN a ELSE b
<1> DEFINE m == IF a < b THEN a ELSE b
<1>1. m \in {a, b} /\ \A y \in {a, b} : m <= y
  OBVIOUS
<1>2. \A x \in {a, b} : (\A y \in {a, b} : x <= y) => x = m
  OBVIOUS
<1> HIDE DEF m
<1>3. Min({a, b}) = m
  BY <1>1, <1>2, Zenon DEF Min
<1> QED BY <1>3 DEF m

\* A page of a sequence.
LEMMA PieceIs ==
  ASSUME NEW V, NEW s \in Seq(V), NEW a \in Nat, NEW e \in Nat, e <= Len(s)
  PROVE  LET h == SubSeq(s, a + 1, e)
         IN  /\ h \in Seq(V) /\ Len(h) = (IF a < e THEN e - a ELSE 0)
             /\ \A k \in 1 .. Len(h) : h[k] = s[a + k]
<1> DEFINE h == SubSeq(s, a + 1, e)
           n == IF a < e THEN e - a ELSE 0
<1>1. n \in Nat /\ \A k \in 1 .. n : a + k \in 1 .. Len(s)
  OBVIOUS
<1>2. h = [k \in 1 .. n |-> s[a + k]]
  <2>1. h = [k \in 1 .. (e - (a + 1)) + 1 |-> s[(k + (a + 1)) - 1]]
    OBVIOUS
  <2>2. 1 .. (e - (a + 1)) + 1 = 1 .. n
    OBVIOUS
  <2>3. \A k \in 1 .. n : (k + (a + 1)) - 1 = a + k
    OBVIOUS
  <2> HIDE DEF h, n
  <2> QED BY <2>1, <2>2, <2>3
<1> HIDE DEF h, n
<1>3. ASSUME NEW k \in 1 .. n PROVE s[a + k] \in V
  <2>1. a + k \in 1 .. Len(s)
    BY <1>1
  <2>2. \A j \in 1 .. Len(s) : s[j] \in V
    OBVIOUS
  <2> QED BY <2>1, <2>2
<1>4. h \in Seq(V) /\ Len(h) = n /\ \A k \in 1 .. n : h[k] = s[a + k]
  BY <1>1, <1>2, <1>3
<1> QED BY <1>4 DEF h, n

\* Where a page of a list ends.
LEMMA OffsetPageIs ==
  ASSUME NEW s \in Seq(Nat), NEW offset \in Nat, NEW limit \in Nat, NEW c, c = Len(s)
  PROVE  LET e == IF c < offset + limit THEN c ELSE offset + limit
         IN  OffsetPage(s, offset, limit) = SubSeq(s, offset + 1, e) /\ e \in Nat /\ e <= c
<1> DEFINE e == IF c < offset + limit THEN c ELSE offset + limit
           m == Min({Len(s), offset + limit})
<1>1. c \in Nat /\ offset + limit \in Nat /\ e \in Nat /\ e <= c
  OBVIOUS
<1>2. m = e
  BY <1>1, MinOf
<1>3. OffsetPage(s, offset, limit) = SubSeq(s, offset + 1, m)
  BY DEF OffsetPage
<1> HIDE DEF m, e
<1>4. OffsetPage(s, offset, limit) = SubSeq(s, offset + 1, e)
  BY <1>2, <1>3, Zenon
<1> QED BY <1>1, <1>4 DEF e

\* The first n of a list, as a set.
LEMMA PieceLeads ==
  ASSUME NEW S \in SUBSET Nat, IsFiniteSet(S), NEW n \in Nat
  PROVE  LET h == OffsetPage(Ascending(S), 0, n)
         IN  ToSet(h) \subseteq S /\ FirstOnes(S, n) \subseteq ToSet(h)
<1> DEFINE s == Ascending(S)
           c == Cardinality(S)
           e == IF c < n THEN c ELSE n
           h == OffsetPage(s, 0, n)
<1>1. /\ s \in Seq(S) /\ c \in Nat /\ Len(s) = c /\ \A k \in 1 .. c : s[k] = Nth(S, k)
  BY AscendingIs
<1> HIDE DEF s, c
<1>2. h = SubSeq(s, 0 + 1, e) /\ e \in Nat /\ e <= Len(s)
  BY <1>1, MinOf DEF OffsetPage
<1> HIDE DEF h
<1>3. h \in Seq(S) /\ Len(h) = e /\ \A k \in 1 .. e : h[k] = s[0 + k]
  BY <1>1, <1>2, PieceIs
<1>4. DOMAIN h = 1 .. e /\ ToSet(h) = {h[k] : k \in 1 .. e} /\ \A k \in 1 .. e : h[k] = s[k] /\ h[k] \in S
  <2>1. \A k \in 1 .. e : 0 + k = k
    BY <1>1
  <2>2. DOMAIN h = 1 .. e
    BY <1>3
  <2> QED BY <1>3, <2>1, <2>2 DEF ToSet
<1>5. ASSUME NEW i \in FirstOnes(S, n) PROVE i \in ToSet(h)
  <2>1. i \in S /\ Rank(S, i) < n /\ i \in Nat
    BY DEF FirstOnes
  <2>2. Rank(S, i) + 1 \in 1 .. c /\ Nth(S, Rank(S, i) + 1) = i /\ Rank(S, i) \in Nat
    BY <2>1, NthOfRank, RankIs DEF c
  <2>3. Rank(S, i) + 1 \in 1 .. e
    BY <1>1, <2>1, <2>2
  <2>4. h[Rank(S, i) + 1] = i
    BY <1>1, <1>4, <2>2, <2>3
  <2> QED BY <1>4, <2>3, <2>4
<1> QED BY <1>4, <1>5 DEF h, s

-----------------------------------------------------------------------------
(* Walks over pages *)

WalkTypes ==
    /\ walk \in Walks /\ items \in Seq(Traits) /\ cursors \in BOOLEAN
    /\ walkedTo \in Nat /\ horizon \in Nat /\ horizon <= Len(items)
    /\ read \in Seq(Nat) /\ walkEnd \in {"more", "done", "failed"}

\* A reader that pages over the whole collection has gone through it up to where
\* it is, and does not end before the horizon.
PagedWhole ==
    walk \in {"history", "replay", "auto"} /\ walkEnd # "failed" =>
        /\ walkedTo <= Len(items)
        /\ Ascends(read)
        /\ EntriesOf(read) = {i \in 1 .. walkedTo : Wanted(i) /\ (walk = "replay" => i <= horizon)}
        /\ walkEnd = "done" /\ (walk = "replay" => cursors) => horizon <= walkedTo

\* fetchAll() may have read a page twice.
AllWhole ==
    walk = "all" =>
        /\ walkedTo <= Len(items)
        /\ 1 .. walkedTo \subseteq EntriesOf(read)
        /\ walkEnd = "done" => horizon <= walkedTo

\* A reader that pages over a list of what is wanted has the beginning of it.
Listed == {i \in DOMAIN items : Wanted(i)}
ListWhole ==
    walk \in {"sender", "both"} /\ (walk = "both" => walkedTo + 1 <= ListCap) =>
        /\ Leads(read, Listed)
        /\ walkEnd = "more" => Len(read) = walkedTo
        /\ walkEnd = "done" => \A i \in 1 .. horizon : Wanted(i) => i \in EntriesOf(read)

WalkInv == WalkTypes /\ PagedWhole /\ AllWhole /\ ListWhole

\* How much of the collection a page takes.
LEMMA NodePageIs ==
  ASSUME WalkTypes, walkedTo <= Len(items)
  PROVE  LET n == Len(NodePage(walkedTo, WalkLimit))
         IN  /\ n \in Nat /\ walkedTo + n <= Len(items)
             /\ n < WalkLimit => walkedTo + n = Len(items)
             /\ Came(n) \in SUBSET Nat /\ IsFiniteSet(Came(n))
             /\ \A i \in Came(n) : walkedTo < i
             /\ 1 .. walkedTo + n = (1 .. walkedTo) \cup Came(n)
<1> DEFINE n == Len(NodePage(walkedTo, WalkLimit))
           c == Len(items)
           e == IF c < walkedTo + WalkLimit THEN c ELSE walkedTo + WalkLimit
<1>1. items \in Seq(Traits) /\ c \in Nat /\ walkedTo \in Nat /\ WalkLimit \in Nat \ {0}
  BY WalkAssumption DEF WalkTypes
<1>2. NodePage(walkedTo, WalkLimit) = SubSeq(items, walkedTo + 1, e) /\ e \in Nat /\ e <= c
  <2> DEFINE m == Min({Len(items), walkedTo + WalkLimit})
  <2>1. walkedTo + WalkLimit \in Nat /\ e \in Nat /\ e <= c
    BY <1>1
  <2>2. m = e
    BY <1>1, <2>1, MinOf
  <2>3. NodePage(walkedTo, WalkLimit) = SubSeq(items, walkedTo + 1, m)
    BY DEF NodePage
  <2> HIDE DEF m, e
  <2> QED BY <2>1, <2>2, <2>3, Zenon
<1>3. n = IF walkedTo < e THEN e - walkedTo ELSE 0
  <2> HIDE DEF e
  <2> QED BY <1>1, <1>2, PieceIs
<1> HIDE DEF n
<1>4. n \in Nat /\ walkedTo + n <= c /\ (n < WalkLimit => walkedTo + n = c)
  BY <1>1, <1>3
<1>5. /\ Came(n) \in SUBSET Nat /\ \A i \in Came(n) : walkedTo < i
      /\ 1 .. walkedTo + n = (1 .. walkedTo) \cup Came(n)
  BY <1>1, <1>4 DEF Came
<1>6. IsFiniteSet(Came(n))
  BY <1>1, <1>4, FS_Interval DEF Came
<1> QED BY <1>4, <1>5, <1>6 DEF n

LEMMA WantedStays ==
  ASSUME walk' = walk, items' = items
  PROVE  (\A i : Wanted(i)' <=> Wanted(i)) /\ Listed' = Listed
<1>1. \A i : Wanted(i)' <=> Wanted(i)
  BY DEF Wanted
<1> QED BY <1>1 DEF Listed

\* A page of a reader that pages over the whole collection.
LEMMA PagedOn ==
  ASSUME WalkInv, walk \in {"history", "replay", "auto"}, walkEnd = "more", NEW more,
         LET n == Len(NodePage(walkedTo, WalkLimit))
         IN  /\ Page(n, Ascending({i \in Came(n) : Wanted(i) /\ (walk = "replay" => i <= horizon)}), more)
             /\ ~more /\ (walk = "replay" => cursors) => horizon <= walkedTo + n
  PROVE  WalkInv'
<1> DEFINE n == Len(NodePage(walkedTo, WalkLimit))
           Due(i) == Wanted(i) /\ (walk = "replay" => i <= horizon)
           T == {i \in Came(n) : Due(i)}
<1>1. WalkTypes /\ walkedTo <= Len(items) /\ Ascends(read)
      /\ EntriesOf(read) = {i \in 1 .. walkedTo : Due(i)}
  BY Zenon DEF WalkInv, PagedWhole
<1>2. /\ n \in Nat /\ walkedTo + n <= Len(items)
      /\ Came(n) \in SUBSET Nat /\ IsFiniteSet(Came(n))
      /\ \A i \in Came(n) : walkedTo < i
      /\ 1 .. walkedTo + n = (1 .. walkedTo) \cup Came(n)
  BY <1>1, NodePageIs
<1>3. /\ walkedTo' = walkedTo + n /\ read' = read \o Ascending(T)
      /\ walkEnd' = (IF more THEN "more" ELSE "done")
      /\ walk' = walk /\ items' = items /\ cursors' = cursors /\ horizon' = horizon
      /\ ~more /\ (walk = "replay" => cursors) => horizon <= walkedTo + n
  BY DEF Page
<1> HIDE DEF n, Due
<1>4. T \in SUBSET Nat /\ IsFiniteSet(T) /\ \A i \in T : walkedTo < i
  <2>1. T \subseteq Came(n)
    OBVIOUS
  <2> QED BY <1>2, <2>1, FS_Subset
<1>5. \A i \in EntriesOf(read) : i <= walkedTo
  BY <1>1 DEF WalkTypes
<1> HIDE DEF T
<1>6. /\ read' \in Seq(Nat) /\ Ascends(read') /\ EntriesOf(read') = EntriesOf(read) \cup T
  <2>1. read \in Seq(Nat) /\ walkedTo \in Nat
    BY <1>1 DEF WalkTypes
  <2> QED BY <1>1, <1>3, <1>4, <1>5, <2>1, AppendAscends
<1>7. EntriesOf(read') = {i \in 1 .. walkedTo + n : Due(i)}
  BY <1>1, <1>2, <1>6 DEF T
<1>8. \A i : (Wanted(i)' /\ (walk' = "replay" => i <= horizon')) <=> Due(i)
  <2>1. \A i : Wanted(i)' <=> Wanted(i)
    BY <1>3, WantedStays
  <2> QED BY <1>3, <2>1 DEF Due
<1>9. WalkTypes'
  BY <1>1, <1>2, <1>3, <1>6 DEF WalkTypes
<1>10. PagedWhole'
  <2>1. walkedTo' <= Len(items')
    BY <1>2, <1>3
  <2>2. EntriesOf(read') = {i \in 1 .. walkedTo' : Wanted(i)' /\ (walk' = "replay" => i <= horizon')}
    BY <1>3, <1>7, <1>8
  <2>3. walkEnd' = "done" /\ (walk' = "replay" => cursors') => horizon' <= walkedTo'
    BY <1>3
  <2> QED BY <1>6, <2>1, <2>2, <2>3, Zenon DEF PagedWhole, EntriesOf, Ascends
<1>11. AllWhole' /\ ListWhole'
  BY <1>3 DEF AllWhole, ListWhole
<1> QED BY <1>9, <1>10, <1>11 DEF WalkInv

LEMMA HistoryKeeps ==
  ASSUME WalkInv, HistoryPage
  PROVE  WalkInv'
<1> DEFINE n == Len(NodePage(walkedTo, WalkLimit))
           more == n >= WalkLimit
<1>1. walk = "history" /\ walkEnd = "more" /\ Page(n, Ascending({i \in Came(n) : Wanted(i)}), more)
  BY DEF HistoryPage
<1>2. {i \in Came(n) : Wanted(i)} = {i \in Came(n) : Wanted(i) /\ (walk = "replay" => i <= horizon)}
  BY <1>1
<1>3. n \in Nat /\ (n < WalkLimit => walkedTo + n = Len(items)) /\ horizon <= Len(items)
  BY <1>1, NodePageIs DEF WalkInv, PagedWhole, WalkTypes
<1>4. ~more => horizon <= walkedTo + n
  BY <1>3, WalkAssumption DEF more
<1> HIDE DEF more
<1> QED BY <1>1, <1>2, <1>4, PagedOn

LEMMA ReplayKeeps ==
  ASSUME WalkInv, ReplayPage
  PROVE  WalkInv'
<1> DEFINE n == Len(NodePage(walkedTo, WalkLimit))
           more == ~(walkedTo + n > horizon) /\ cursors /\ n >= WalkLimit
           due == {i \in Came(n) : i <= horizon /\ i \notin ToSet(read)}
<1>1. walk = "replay" /\ walkEnd = "more" /\ Page(n, Ascending(due), more)
  BY DEF ReplayPage
<1>2. /\ WalkTypes /\ walkedTo <= Len(items) /\ EntriesOf(read) \subseteq 1 .. walkedTo
  BY <1>1 DEF WalkInv, PagedWhole
<1>3. /\ n \in Nat /\ (n < WalkLimit => walkedTo + n = Len(items)) /\ horizon <= Len(items)
      /\ \A i \in Came(n) : walkedTo < i /\ i \in Nat
      /\ walkedTo \in Nat /\ horizon \in Nat /\ Len(items) \in Nat
  BY <1>2, NodePageIs DEF WalkTypes
<1>4. due = {i \in Came(n) : Wanted(i) /\ (walk = "replay" => i <= horizon)}
  <2>1. \A i : Wanted(i)
    BY <1>1 DEF Wanted
  <2>2. \A i \in Came(n) : i \notin ToSet(read)
    <3>1. ToSet(read) \subseteq 1 .. walkedTo
      BY <1>2 DEF ToSet, EntriesOf
    <3> QED BY <1>3, <3>1
  <2> QED BY <1>1, <2>1, <2>2
<1>5. ~more /\ (walk = "replay" => cursors) => horizon <= walkedTo + n
  BY <1>1, <1>3, WalkAssumption DEF more
<1> HIDE DEF more
<1> QED BY <1>1, <1>4, <1>5, PagedOn

\* What two sequences hold together.
LEMMA BothEntries ==
  ASSUME NEW r \in Seq(Nat), NEW t \in Seq(Nat)
  PROVE  r \o t \in Seq(Nat) /\ EntriesOf(r \o t) = EntriesOf(r) \cup EntriesOf(t)
<1> DEFINE m == Len(r)
           n == Len(t)
           u == r \o t
<1>1. /\ m \in Nat /\ n \in Nat /\ u \in Seq(Nat) /\ Len(u) = m + n
      /\ DOMAIN r = 1 .. m /\ DOMAIN t = 1 .. n /\ DOMAIN u = 1 .. m + n
      /\ \A k \in 1 .. m : u[k] = r[k]
      /\ \A k \in m + 1 .. m + n : u[k] = t[k - m]
  OBVIOUS
<1> HIDE DEF m, n, u
<1>2. ASSUME NEW k \in 1 .. m + n PROVE u[k] \in EntriesOf(r) \cup EntriesOf(t)
  <2>1. CASE k \in 1 .. m
    BY <1>1, <2>1 DEF EntriesOf
  <2>2. CASE k \in m + 1 .. m + n
    <3>1. k - m \in 1 .. n
      BY <1>1, <2>2
    <3> QED BY <1>1, <2>2, <3>1 DEF EntriesOf
  <2> QED BY <1>1, <2>1, <2>2
<1>3. ASSUME NEW k \in 1 .. m PROVE r[k] \in EntriesOf(u)
  <2>1. k \in 1 .. m + n /\ u[k] = r[k]
    BY <1>1
  <2> QED BY <1>1, <2>1 DEF EntriesOf
<1>4. ASSUME NEW k \in 1 .. n PROVE t[k] \in EntriesOf(u)
  <2>1. k + m \in m + 1 .. m + n /\ k + m \in 1 .. m + n /\ (k + m) - m = k
    BY <1>1
  <2>2. u[k + m] = t[k]
    BY <1>1, <2>1
  <2> QED BY <1>1, <2>1, <2>2 DEF EntriesOf
<1>5. /\ EntriesOf(u) = {u[k] : k \in 1 .. m + n}
      /\ EntriesOf(r) = {r[k] : k \in 1 .. m} /\ EntriesOf(t) = {t[k] : k \in 1 .. n}
  BY <1>1 DEF EntriesOf
<1>6. EntriesOf(u) = EntriesOf(r) \cup EntriesOf(t)
  BY <1>2, <1>3, <1>4, <1>5
<1> QED BY <1>1, <1>6 DEF u

LEMMA IndexerKeeps ==
  ASSUME WalkInv, IndexerPage
  PROVE  WalkInv'
<1> DEFINE n == Len(NodePage(walkedTo, WalkLimit))
           more == Len(items) > walkedTo + n
<1>1. walk \in {"auto", "all"} /\ walkEnd = "more" /\ Page(n, Ascending(Came(n)), more)
  BY DEF IndexerPage
<1>2. WalkTypes /\ walkedTo <= Len(items)
  BY <1>1 DEF WalkInv, PagedWhole, AllWhole
<1>3. /\ n \in Nat /\ walkedTo + n <= Len(items) /\ horizon <= Len(items)
      /\ walkedTo \in Nat /\ horizon \in Nat /\ Len(items) \in Nat
      /\ Came(n) \in SUBSET Nat /\ IsFiniteSet(Came(n))
      /\ 1 .. walkedTo + n = (1 .. walkedTo) \cup Came(n)
  BY <1>2, NodePageIs DEF WalkTypes
<1>4. ~more => horizon <= walkedTo + n
  BY <1>3
<1>5. CASE walk = "auto"
  <2>1. Came(n) = {i \in Came(n) : Wanted(i) /\ (walk = "replay" => i <= horizon)}
    BY <1>5 DEF Wanted
  <2> HIDE DEF more
  <2> QED BY <1>1, <1>4, <1>5, <2>1, PagedOn
<1>6. CASE walk = "all"
  <2>1. /\ walkedTo' = walkedTo + n /\ read' = read \o Ascending(Came(n))
        /\ walkEnd' = (IF more THEN "more" ELSE "done")
        /\ walk' = walk /\ items' = items /\ cursors' = cursors /\ horizon' = horizon
    BY <1>1 DEF Page
  <2> HIDE DEF n, more
  <2>2. read \in Seq(Nat) /\ Ascending(Came(n)) \in Seq(Nat) /\ EntriesOf(Ascending(Came(n))) = Came(n)
    BY <1>2, <1>3, AscendingIs DEF WalkTypes
  <2>3. read' \in Seq(Nat) /\ EntriesOf(read') = EntriesOf(read) \cup Came(n)
    BY <2>1, <2>2, BothEntries
  <2>4. 1 .. walkedTo \subseteq EntriesOf(read)
    BY <1>6 DEF WalkInv, AllWhole
  <2>5. 1 .. walkedTo' \subseteq EntriesOf(read')
    BY <1>3, <2>1, <2>3, <2>4
  <2>6. WalkTypes'
    BY <1>2, <1>3, <2>1, <2>3 DEF WalkTypes
  <2>7. AllWhole'
    BY <1>3, <1>4, <2>1, <2>5 DEF AllWhole, EntriesOf
  <2> QED BY <1>6, <2>1, <2>6, <2>7 DEF WalkInv, PagedWhole, ListWhole
<1> QED BY <1>1, <1>5, <1>6

LEMMA UnchangedKeeps ==
  ASSUME WalkInv, CursorUnchanged
  PROVE  WalkInv'
<1> DEFINE T == Came(Len(NodePage(walkedTo, WalkLimit)))
<1>1. /\ walk \in {"auto", "all"} /\ walkEnd = "more"
      /\ read' = read \o Ascending(T)
      /\ walkEnd' = (IF walk = "auto" THEN "failed" ELSE "more")
      /\ walk' = walk /\ items' = items /\ cursors' = cursors
      /\ walkedTo' = walkedTo /\ horizon' = horizon
  BY DEF CursorUnchanged
<1>2. WalkTypes /\ walkedTo <= Len(items)
  BY <1>1 DEF WalkInv, PagedWhole, AllWhole
<1>3. T \in SUBSET Nat /\ IsFiniteSet(T)
  BY <1>2, NodePageIs
<1> HIDE DEF T
<1>4. read \in Seq(Nat) /\ Ascending(T) \in Seq(Nat)
  BY <1>2, <1>3, AscendingIs DEF WalkTypes
<1>5. read' \in Seq(Nat) /\ EntriesOf(read) \subseteq EntriesOf(read')
  BY <1>1, <1>4, BothEntries
<1>6. WalkTypes'
  BY <1>1, <1>2, <1>5 DEF WalkTypes
<1>7. AllWhole'
  <2> SUFFICES ASSUME walk' = "all" PROVE AllWhole'
    BY DEF AllWhole
  <2>1. 1 .. walkedTo \subseteq EntriesOf(read)
    BY <1>1 DEF WalkInv, AllWhole
  <2> QED BY <1>1, <1>2, <1>5, <2>1 DEF AllWhole, EntriesOf
<1>8. PagedWhole' /\ ListWhole'
  BY <1>1 DEF PagedWhole, ListWhole
<1> QED BY <1>6, <1>7, <1>8 DEF WalkInv

LEMMA TooManyKeeps ==
  ASSUME WalkInv, TooManyPages
  PROVE  WalkInv'
<1>1. /\ walk \in {"replay", "auto", "all"} /\ walkEnd' = "failed"
      /\ walk' = walk /\ items' = items /\ cursors' = cursors
      /\ walkedTo' = walkedTo /\ horizon' = horizon /\ read' = read
  BY DEF TooManyPages
<1>2. WalkTypes'
  BY <1>1 DEF WalkInv, WalkTypes
<1>3. AllWhole'
  BY <1>1 DEF WalkInv, AllWhole, EntriesOf
<1> QED BY <1>1, <1>2, <1>3 DEF WalkInv, PagedWhole, ListWhole

\* The collection grows at its end.
LEMMA AddedKeeps ==
  ASSUME WalkInv, ItemAdded
  PROVE  WalkInv'
<1>1. WalkTypes /\ PagedWhole /\ AllWhole /\ ListWhole
  BY DEF WalkInv
<1>2. PICK t \in Traits : items' = Append(items, t)
  BY DEF ItemAdded
<1>3. /\ walk' = walk /\ cursors' = cursors /\ walkedTo' = walkedTo /\ horizon' = horizon
      /\ read' = read /\ walkEnd' = walkEnd
  BY DEF ItemAdded
<1> DEFINE c == Len(items)
<1>4. /\ items \in Seq(Traits) /\ c \in Nat /\ DOMAIN items = 1 .. c
      /\ items' \in Seq(Traits) /\ Len(items') = c + 1 /\ DOMAIN items' = 1 .. c + 1
      /\ \A i \in 1 .. c : items'[i] = items[i]
      /\ horizon \in Nat /\ horizon <= c /\ walkedTo \in Nat /\ read \in Seq(Nat)
  BY <1>1, <1>2 DEF WalkTypes
<1> HIDE DEF c
<1>5. \A i \in 1 .. c : Wanted(i)' <=> Wanted(i)
  BY <1>3, <1>4 DEF Wanted
<1>6. WalkTypes'
  <2>1. horizon' <= Len(items')
    BY <1>3, <1>4
  <2> QED BY <1>1, <1>3, <1>4, <2>1 DEF WalkTypes
<1>7. PagedWhole'
  <2> SUFFICES ASSUME walk \in {"history", "replay", "auto"}, walkEnd # "failed" PROVE PagedWhole'
    BY <1>3 DEF PagedWhole
  <2> DEFINE Due(i) == Wanted(i) /\ (walk = "replay" => i <= horizon)
             DueNow(i) == Wanted(i)' /\ (walk' = "replay" => i <= horizon')
  <2>1. /\ walkedTo <= c /\ Ascends(read)
        /\ EntriesOf(read) = {i \in 1 .. walkedTo : Due(i)}
        /\ walkEnd = "done" /\ (walk = "replay" => cursors) => horizon <= walkedTo
    BY <1>1, Zenon DEF PagedWhole, c
  <2>2. \A i \in 1 .. walkedTo : DueNow(i) <=> Due(i)
    <3>1. \A i \in 1 .. walkedTo : i \in 1 .. c
      BY <1>4, <2>1
    <3>2. \A i \in 1 .. walkedTo : Wanted(i)' <=> Wanted(i)
      BY <1>5, <3>1
    <3> QED BY <1>3, <3>2
  <2> HIDE DEF Due, DueNow
  <2>3. EntriesOf(read') = {i \in 1 .. walkedTo' : DueNow(i)}
    BY <1>3, <2>1, <2>2
  <2>4. walkedTo' <= Len(items')
    BY <1>3, <1>4, <2>1
  <2>5. walkEnd' = "done" /\ (walk' = "replay" => cursors') => horizon' <= walkedTo'
    BY <1>3, <2>1
  <2>6. Ascends(read')
    BY <1>3, <2>1
  <2> QED BY <2>3, <2>4, <2>5, <2>6, Zenon DEF PagedWhole, DueNow, EntriesOf, Ascends
<1>8. AllWhole'
  BY <1>1, <1>3, <1>4 DEF AllWhole, EntriesOf, c
<1>9. ListWhole'
  <2> SUFFICES ASSUME walk \in {"sender", "both"}, walk = "both" => walkedTo + 1 <= ListCap
               PROVE  ListWhole'
    BY <1>3 DEF ListWhole
  <2>1. /\ Leads(read, Listed) /\ (walkEnd = "more" => Len(read) = walkedTo)
        /\ walkEnd = "done" => \A i \in 1 .. horizon : Wanted(i) => i \in EntriesOf(read)
    BY <1>1 DEF ListWhole
  <2> DEFINE W == Listed
             U == {i \in 1 .. c + 1 : Wanted(i)'}
  <2>2. Listed' = U
    BY <1>4 DEF Listed
  <2>3. W = {i \in 1 .. c : Wanted(i)}
    BY <1>4 DEF Listed
  <2>4. W \subseteq U /\ \A i \in W : \A j \in U : j < i => j \in W
    <3>1. \A i \in W : i \in 1 .. c + 1 /\ Wanted(i)'
      BY <1>4, <1>5, <2>3
    <3>2. \A i \in W : \A j \in U : j < i => j \in 1 .. c /\ Wanted(j)'
      BY <1>4, <2>3
    <3> QED BY <1>5, <2>3, <3>1, <3>2
  <2>5. W \in SUBSET Nat /\ U \in SUBSET Nat /\ IsFiniteSet(U)
    <3>1. U \subseteq 1 .. c + 1 /\ W \subseteq 1 .. c
      BY <2>3
    <3>2. 1 .. c + 1 \subseteq Nat /\ 1 .. c \subseteq Nat /\ 1 \in Int /\ c + 1 \in Int
      BY <1>4
    <3>3. IsFiniteSet(1 .. c + 1)
      BY <3>2, FS_Interval
    <3> QED BY <3>1, <3>2, <3>3, FS_Subset
  <2> HIDE DEF W, U
  <2>6. Leads(read, U)
    BY <1>4, <2>1, <2>4, <2>5, LeadsStay DEF W
  <2>7. Leads(read, Listed)'
    BY <1>3, <2>2, <2>6 DEF Leads
  <2>8. \A i \in 1 .. horizon : Wanted(i)' <=> Wanted(i)
    <3>1. \A i \in 1 .. horizon : i \in 1 .. c
      BY <1>4
    <3> QED BY <1>5, <3>1
  <2>9. walkEnd' = "done" => \A i \in 1 .. horizon' : Wanted(i)' => i \in EntriesOf(read')
    BY <1>3, <2>1, <2>8
  <2>10. walkEnd' = "more" => Len(read') = walkedTo'
    BY <1>3, <2>1
  <2> QED BY <2>7, <2>9, <2>10, Zenon DEF ListWhole, Leads, EntriesOf
<1> QED BY <1>6, <1>7, <1>8, <1>9 DEF WalkInv

\* A page of a list: what leads in it stays what leads.
LEMMA ListedOn ==
  ASSUME WalkInv, walk \in {"sender", "both"}, walkEnd = "more",
         NEW n \in Nat, NEW more, NEW U \in SUBSET Nat, IsFiniteSet(U),
         NEW e \in Nat, e <= Cardinality(U),
         Page(n, SubSeq(Ascending(U), walkedTo + 1, e), more),
         (walk = "both" => walkedTo + n + 1 <= ListCap) =>
            /\ walkedTo <= e /\ e <= Cardinality(Listed)
            /\ \A k \in 1 .. e : Nth(U, k) = Nth(Listed, k)
            /\ more => e = walkedTo + n
            /\ ~more => e = Cardinality(Listed)
  PROVE  WalkInv'
<1> DEFINE h == SubSeq(Ascending(U), walkedTo + 1, e)
<1>1. WalkTypes /\ ListWhole
  BY DEF WalkInv
<1>2. /\ walkedTo' = walkedTo + n /\ read' = read \o h
      /\ walkEnd' = (IF more THEN "more" ELSE "done")
      /\ walk' = walk /\ items' = items /\ cursors' = cursors /\ horizon' = horizon
  BY DEF Page
<1>3. walkedTo \in Nat /\ read \in Seq(Nat) /\ DOMAIN items = 1 .. Len(items) /\ Len(items) \in Nat
      /\ horizon \in Nat /\ horizon <= Len(items) /\ Len(read) \in Nat
  BY <1>1 DEF WalkTypes
<1>4. h \in Seq(Nat)
  <2>1. Ascending(U) \in Seq(Nat) /\ e <= Len(Ascending(U))
    BY AscendingIs
  <2> QED BY <1>3, <2>1, PieceIs
<1>5. WalkTypes'
  <2>1. read' \in Seq(Nat)
    BY <1>2, <1>3, <1>4
  <2> QED BY <1>1, <1>2, <1>3, <2>1 DEF WalkTypes
<1>6. (\A i : Wanted(i)' <=> Wanted(i)) /\ Listed' = Listed
  BY <1>2, WantedStays
<1>7. ListWhole'
  <2> SUFFICES ASSUME walk = "both" => walkedTo + n + 1 <= ListCap PROVE ListWhole'
    <3>1. walk' = "both" /\ walkedTo' + 1 <= ListCap => walkedTo + n + 1 <= ListCap
      BY <1>2, <1>3
    <3> QED BY <1>2, <3>1 DEF ListWhole
  <2>1. walk = "both" => walkedTo + 1 <= ListCap
    <3>1. ListCap \in Nat
      BY WalkAssumption
    <3> QED BY <1>3, <3>1
  <2>2. Leads(read, Listed) /\ Len(read) = walkedTo
    BY <1>1, <2>1 DEF ListWhole
  <2>3. /\ walkedTo <= e /\ e <= Cardinality(Listed)
        /\ \A k \in 1 .. e : Nth(U, k) = Nth(Listed, k)
        /\ (more => e = walkedTo + n) /\ (~more => e = Cardinality(Listed))
    OBVIOUS
  <2>4. Listed \in SUBSET Nat /\ IsFiniteSet(Listed)
    <3>1. Listed \subseteq 1 .. Len(items)
      BY <1>3 DEF Listed
    <3>2. IsFiniteSet(1 .. Len(items)) /\ 1 .. Len(items) \subseteq Nat
      <4>1. 1 \in Int /\ Len(items) \in Int /\ 1 .. Len(items) \subseteq Nat
        BY <1>3
      <4> QED BY <4>1, FS_Interval
    <3> QED BY <3>1, <3>2, FS_Subset
  <2> HIDE DEF h
  <2>5. read' \in Seq(Nat) /\ Leads(read', Listed) /\ Len(read') = e
    <3>1. LET g == SubSeq(Ascending(U), Len(read) + 1, e)
          IN  read \o g \in Seq(Nat) /\ Leads(read \o g, Listed) /\ Len(read \o g) = e
      <4>1. /\ Listed \in SUBSET Nat /\ IsFiniteSet(Listed) /\ Leads(read, Listed)
            /\ U \in SUBSET Nat /\ IsFiniteSet(U) /\ e \in Nat /\ Len(read) <= e
            /\ e <= Cardinality(Listed) /\ e <= Cardinality(U)
            /\ \A k \in 1 .. e : Nth(U, k) = Nth(Listed, k)
        BY <2>2, <2>3, <2>4
      <4>2. read \in Seq(Nat)
        BY <1>3
      <4> QED BY <4>1, <4>2, LeadsOn, ZenonT(30)
    <3> QED BY <1>2, <2>2, <3>1 DEF h
  <2>6. Leads(read, Listed)'
    BY <1>6, <2>5 DEF Leads
  <2>7. ASSUME ~more, NEW i \in 1 .. horizon, Wanted(i) PROVE i \in EntriesOf(read')
    <3>1. EntriesOf(read') = Listed
      BY <2>3, <2>4, <2>5, <2>7, LeadsIs
    <3>2. i \in Listed
      BY <1>3, <2>7 DEF Listed
    <3> QED BY <3>1, <3>2
  <2>8. walkEnd' = "more" => Len(read') = walkedTo'
    BY <1>2, <2>3, <2>5
  <2>9. walkEnd' = "done" => \A i \in 1 .. horizon' : Wanted(i)' => i \in EntriesOf(read')
    BY <1>2, <1>6, <2>7
  <2> QED BY <2>6, <2>8, <2>9, Zenon DEF ListWhole, Leads, EntriesOf
<1>8. PagedWhole' /\ AllWhole'
  BY <1>2 DEF PagedWhole, AllWhole
<1> QED BY <1>5, <1>7, <1>8 DEF WalkInv

LEMMA ListedIs ==
  ASSUME WalkTypes
  PROVE  Listed \in SUBSET Nat /\ IsFiniteSet(Listed) /\ Cardinality(Listed) \in Nat
<1>1. Listed \subseteq 1 .. Len(items) /\ Len(items) \in Nat
  BY DEF Listed, WalkTypes
<1>2. IsFiniteSet(1 .. Len(items)) /\ 1 .. Len(items) \subseteq Nat
  BY <1>1, FS_Interval
<1> QED BY <1>1, <1>2, FS_Subset, FS_CardinalityType

LEMMA SenderKeeps ==
  ASSUME WalkInv, SenderPage
  PROVE  WalkInv'
<1> DEFINE limit == ClampListLimit(WalkLimit)
           ids == OffsetPage(Index({"sent", "both"}), walkedTo, limit)
           more == Len(ids) = limit
           c == Cardinality(Listed)
           e == IF c < walkedTo + limit THEN c ELSE walkedTo + limit
<1>1. walk = "sender" /\ walkEnd = "more" /\ Page(Len(ids), ids, more)
  BY DEF SenderPage
<1>2. limit \in Nat
  BY WalkAssumption, MinOf DEF ClampListLimit
<1>3. Index({"sent", "both"}) = Ascending(Listed)
  <2>1. Listed = {i \in DOMAIN items : items[i] \in {"sent", "both"}}
    BY <1>1 DEF Listed, Wanted
  <2> QED BY <2>1 DEF Index
<1>4. /\ Listed \in SUBSET Nat /\ IsFiniteSet(Listed) /\ c \in Nat
      /\ Len(Ascending(Listed)) = c /\ Ascending(Listed) \in Seq(Nat)
  BY ListedIs, AscendingIs DEF WalkInv
<1>5. walkedTo \in Nat /\ walkedTo <= c
  <2>1. Leads(read, Listed) /\ Len(read) = walkedTo
    BY <1>1 DEF WalkInv, ListWhole
  <2> QED BY <2>1 DEF WalkInv, WalkTypes, Leads
<1> HIDE DEF limit, c
<1>6. ids = SubSeq(Ascending(Listed), walkedTo + 1, e) /\ e \in Nat /\ e <= c /\ walkedTo <= e
  <2>1. ids = SubSeq(Ascending(Listed), walkedTo + 1, e) /\ e \in Nat /\ e <= c
    <3>1. ids = OffsetPage(Ascending(Listed), walkedTo, limit)
      BY <1>3
    <3> HIDE DEF ids
    <3> QED BY <1>2, <1>4, <1>5, <3>1, OffsetPageIs
  <2>2. walkedTo <= e
    BY <1>2, <1>5
  <2> QED BY <2>1, <2>2
<1>7. Len(ids) = e - walkedTo
  <2>1. Len(ids) = IF walkedTo < e THEN e - walkedTo ELSE 0
    <3> HIDE DEF e, ids
    <3> QED BY <1>4, <1>5, <1>6, PieceIs
  <2> QED BY <1>5, <1>6, <2>1
<1> HIDE DEF ids
<1>8. Len(ids) \in Nat /\ e = walkedTo + Len(ids) /\ (~more => e = c)
  BY <1>2, <1>4, <1>5, <1>6, <1>7
<1> HIDE DEF more, e
<1>9. Page(Len(ids), SubSeq(Ascending(Listed), walkedTo + 1, e), more)
  BY <1>1, <1>6
<1> QED BY <1>1, <1>4, <1>6, <1>8, <1>9, ListedOn DEF c

LEMMA BothKeeps ==
  ASSUME WalkInv, BothPage
  PROVE  WalkInv'
<1> DEFINE limit == ClampListLimit(WalkLimit)
           window == ClampListLimit(walkedTo + limit + 1)
           S == {i \in DOMAIN items : items[i] \in {"sent", "both"}}
           V == {i \in DOMAIN items : items[i] \in {"received", "both"}}
           U == ToSet(OffsetPage(Ascending(S), 0, window)) \cup ToSet(OffsetPage(Ascending(V), 0, window))
           merged == Ascending(U)
           more == Len(merged) > walkedTo + limit
           c == Cardinality(U)
           w == Cardinality(Listed)
           e == IF c < walkedTo + limit THEN c ELSE walkedTo + limit
<1>1. walk = "both" /\ walkEnd = "more" /\ Page(limit, OffsetPage(merged, walkedTo, limit), more)
  BY DEF BothPage, Merged, Index
<1>2. WalkTypes /\ walkedTo \in Nat /\ items \in Seq(Traits)
  BY DEF WalkInv, WalkTypes
<1>3. limit \in Nat
  BY WalkAssumption, MinOf DEF ClampListLimit
<1> HIDE DEF limit
<1>4. window \in Nat /\ (walkedTo + limit + 1 <= ListCap => window = walkedTo + limit + 1)
  <2>1. walkedTo + limit + 1 \in Nat /\ ListCap \in Nat
    BY <1>2, <1>3, WalkAssumption
  <2> QED BY <2>1, MinOf DEF ClampListLimit
<1> HIDE DEF window
<1>5. Listed = S \cup V
  BY <1>1 DEF Listed, Wanted
<1>6. /\ Listed \in SUBSET Nat /\ IsFiniteSet(Listed) /\ w \in Nat
  BY <1>2, ListedIs
<1>7. S \in SUBSET Nat /\ IsFiniteSet(S) /\ V \in SUBSET Nat /\ IsFiniteSet(V)
  <2> HIDE DEF S, V
  <2>1. S \subseteq Listed /\ V \subseteq Listed
    BY <1>5
  <2> QED BY <1>6, <2>1, FS_Subset
<1> HIDE DEF S, V
<1>8. /\ U \subseteq S \cup V /\ FirstOnes(S, window) \subseteq U /\ FirstOnes(V, window) \subseteq U
  BY <1>4, <1>7, PieceLeads
<1> HIDE DEF U
<1>9. /\ IsFiniteSet(U) /\ c \in Nat /\ c <= w
      /\ window >= w => U = Listed
      /\ window < w => window <= c
      /\ \A k \in 1 .. w : k <= window => Nth(U, k) = Nth(Listed, k)
  <2>1. U \in SUBSET (S \cup V)
    BY <1>8
  <2> QED BY <1>4, <1>5, <1>7, <1>8, <2>1, MergedLead, SMTT(30)
<1>10. U \in SUBSET Nat
  BY <1>5, <1>6, <1>8
<1>11. Len(merged) = c /\ merged \in Seq(Nat)
  BY <1>9, <1>10, AscendingIs
<1> HIDE DEF merged
<1>12. OffsetPage(merged, walkedTo, limit) = SubSeq(merged, walkedTo + 1, e) /\ e \in Nat /\ e <= c
  <2> HIDE DEF c
  <2> QED BY <1>2, <1>3, <1>11, OffsetPageIs
<1>13. Page(limit, SubSeq(Ascending(U), walkedTo + 1, e), more)
  BY <1>1, <1>12 DEF merged
<1>14. ASSUME walkedTo + limit + 1 <= ListCap
       PROVE  /\ walkedTo <= e /\ e <= w
              /\ \A k \in 1 .. e : Nth(U, k) = Nth(Listed, k)
              /\ more => e = walkedTo + limit
              /\ ~more => e = w
  <2>1. window = walkedTo + limit + 1
    BY <1>4, <1>14
  <2>2. walkedTo <= w
    <3>1. walkedTo + 1 <= ListCap
      <4>1. ListCap \in Nat
        BY WalkAssumption
      <4> QED BY <1>2, <1>3, <1>14, <4>1
    <3>2. Leads(read, Listed) /\ Len(read) = walkedTo
      BY <1>1, <3>1 DEF WalkInv, ListWhole
    <3> QED BY <3>2 DEF Leads
  <2>3. window >= w => c = w
    BY <1>9
  <2> HIDE DEF w, c
  <2>4. e <= w /\ walkedTo <= e
    BY <1>2, <1>3, <1>6, <1>9, <2>1, <2>2, <2>3
  <2>5. (more => e = walkedTo + limit) /\ (~more => e = w)
    BY <1>2, <1>3, <1>6, <1>9, <1>11, <2>1, <2>2, <2>3
  <2>6. e <= window
    BY <1>2, <1>3, <1>9, <2>1
  <2>7. \A k \in 1 .. e : k \in 1 .. w /\ k <= window
    BY <1>6, <1>12, <2>4, <2>6, <1>4
  <2>8. \A k \in 1 .. e : Nth(U, k) = Nth(Listed, k)
    BY <1>9, <2>7
  <2> QED BY <2>4, <2>5, <2>8
<1> HIDE DEF more, e
<1>15. (walk = "both" => walkedTo + limit + 1 <= ListCap) =>
          /\ walkedTo <= e /\ e <= w
          /\ \A k \in 1 .. e : Nth(U, k) = Nth(Listed, k)
          /\ more => e = walkedTo + limit
          /\ ~more => e = w
  BY <1>1, <1>14
<1> QED BY <1>1, <1>3, <1>9, <1>10, <1>12, <1>13, <1>15, ListedOn DEF c, w

LEMMA WalkStarts ==
  ASSUME WalkInit
  PROVE  WalkInv
<1>1. walk \in Walks /\ cursors \in BOOLEAN /\ walkedTo = 0 /\ horizon = Len(items)
      /\ read = <<>> /\ walkEnd = "more"
  BY DEF WalkInit
<1>2. PICK n \in Nat : items \in [1 .. n -> Traits]
  <2>1. PICK n \in 0 .. MaxItems - 1 : items \in [1 .. n -> Traits]
    BY DEF WalkInit
  <2> QED BY <2>1
<1>3. items \in Seq(Traits) /\ Len(items) \in Nat
  BY <1>2
<1>4. /\ EntriesOf(read) = {} /\ Ascends(read) /\ Len(read) = 0 /\ read \in Seq(Nat)
      /\ 1 .. walkedTo = {}
  BY <1>1 DEF EntriesOf, Ascends
<1>5. WalkTypes
  BY <1>1, <1>3, <1>4 DEF WalkTypes
<1>6. PagedWhole /\ AllWhole
  <2>1. walkedTo <= Len(items)
    BY <1>1, <1>3
  <2>2. {i \in 1 .. walkedTo : Wanted(i) /\ (walk = "replay" => i <= horizon)} = {}
    BY <1>4
  <2>3. 1 .. walkedTo \subseteq EntriesOf(read) /\ walkEnd # "done"
    BY <1>1, <1>4
  <2> QED BY <1>1, <1>4, <2>1, <2>2, <2>3, Zenon DEF PagedWhole, AllWhole
<1>7. ListWhole
  <2>1. Cardinality(Listed) \in Nat
    BY <1>5, ListedIs
  <2>2. Leads(read, Listed)
    BY <1>4, <2>1 DEF Leads
  <2> QED BY <1>1, <1>4, <2>2 DEF ListWhole
<1> QED BY <1>5, <1>6, <1>7 DEF WalkInv

LEMMA WalkKeeps ==
  ASSUME WalkInv, [WalkNext]_walkVars
  PROVE  WalkInv'
<1>1. CASE UNCHANGED walkVars
  <2>1. /\ walk' = walk /\ items' = items /\ cursors' = cursors /\ walkedTo' = walkedTo
        /\ horizon' = horizon /\ read' = read /\ walkEnd' = walkEnd
    BY <1>1 DEF walkVars
  <2>2. WalkTypes'
    BY <2>1 DEF WalkInv, WalkTypes
  <2>3. (\A i : Wanted(i)' <=> Wanted(i)) /\ Listed' = Listed
    BY <2>1, WantedStays
  <2>4. PagedWhole'
    BY <2>1, <2>3 DEF WalkInv, PagedWhole, EntriesOf, Ascends
  <2>5. AllWhole' /\ ListWhole'
    BY <2>1, <2>3 DEF WalkInv, AllWhole, ListWhole, EntriesOf, Leads
  <2> QED BY <2>2, <2>4, <2>5 DEF WalkInv
<1>2. CASE WalkNext
  BY <1>2, HistoryKeeps, ReplayKeeps, SenderKeeps, BothKeeps, IndexerKeeps, UnchangedKeeps,
     TooManyKeeps, AddedKeeps DEF WalkNext
<1> QED BY <1>1, <1>2

LEMMA WalkInvExact ==
  ASSUME WalkInv
  PROVE  WalkExact
<1>1. WalkTypes /\ PagedWhole /\ AllWhole /\ ListWhole
  BY DEF WalkInv
<1>2. DOMAIN items = 1 .. Len(items) /\ horizon <= Len(items) /\ horizon \in Nat /\ Len(items) \in Nat
      /\ walkedTo \in Nat /\ ToSet(read) = EntriesOf(read) /\ read \in Seq(Nat)
  BY <1>1 DEF WalkTypes, ToSet, EntriesOf
<1>3. ASSUME walkEnd = "done", Unclipped, walk # "all"
      PROVE  /\ \A j, k \in DOMAIN read : j < k => read[j] < read[k]
             /\ {i \in 1 .. horizon : Wanted(i)} \subseteq ToSet(read)
             /\ \A i \in ToSet(read) : Wanted(i)
             /\ walk = "replay" => ToSet(read) \subseteq 1 .. horizon
  <2>1. CASE walk \in {"history", "replay", "auto"}
    <3>1. /\ Ascends(read) /\ horizon <= walkedTo
          /\ EntriesOf(read) = {i \in 1 .. walkedTo : Wanted(i) /\ (walk = "replay" => i <= horizon)}
      BY <1>1, <1>3, <2>1, Zenon DEF PagedWhole, Unclipped
    <3>2. \A i \in 1 .. horizon : i \in 1 .. walkedTo /\ i <= horizon
      BY <1>2, <3>1
    <3>3. \A j, k \in DOMAIN read : j < k => read[j] < read[k]
      BY <3>1 DEF Ascends
    <3>4. \A i \in ToSet(read) : i \in 1 .. walkedTo /\ Wanted(i) /\ (walk = "replay" => i <= horizon)
      BY <1>2, <3>1
    <3>5. {i \in 1 .. horizon : Wanted(i)} \subseteq ToSet(read)
      BY <1>2, <3>1, <3>2
    <3>6. walk = "replay" => ToSet(read) \subseteq 1 .. horizon
      BY <1>2, <3>4
    <3> QED BY <3>3, <3>4, <3>5, <3>6
  <2>2. CASE walk \in {"sender", "both"}
    <3>1. /\ Leads(read, Listed)
          /\ \A i \in 1 .. horizon : Wanted(i) => i \in EntriesOf(read)
      BY <1>1, <1>3, <2>2 DEF ListWhole, Unclipped
    <3>2. Ascends(read) /\ EntriesOf(read) \subseteq Listed
      BY <1>1, <1>2, <3>1, ListedIs, LeadsIs
    <3> QED BY <1>2, <2>2, <3>1, <3>2 DEF Ascends, Listed
  <2> QED BY <1>1, <1>3, <2>1, <2>2 DEF WalkTypes, Walks
<1>4. ASSUME walkEnd = "done", walk = "all" PROVE 1 .. horizon \subseteq ToSet(read)
  <2>1. 1 .. walkedTo \subseteq EntriesOf(read) /\ horizon <= walkedTo
    BY <1>1, <1>4 DEF AllWhole
  <2> QED BY <1>2, <2>1
<1> QED BY <1>3, <1>4 DEF WalkExact

-----------------------------------------------------------------------------
(* Reads in chunks *)

BatchReadTypes ==
    /\ asked \in Seq(StreamId)
    /\ chunkSize \in Nat \ {0} /\ maxConcurrency \in Nat \ {0}
    /\ chunkStart \in Nat /\ nextRead \in Nat
    /\ batchReadStep \in {"idle", "delay", "reading", "over"}

\* The workers of a chunk: what they have taken is in flight or has an outcome.
InFlight ==
    /\ IsFiniteSet(readsFlying) /\ Cardinality(readsFlying) <= maxConcurrency
    /\ batchReadStep = "reading" =>
          /\ chunkStart < Len(Unique) /\ chunkStart < nextRead
          /\ nextRead <= ChunkEnd(chunkStart) + 1
          /\ readsFlying \subseteq chunkStart + 1 .. nextRead - 1
          /\ DOMAIN readOutcomes = (chunkStart + 1 .. nextRead - 1) \ readsFlying
          /\ \A k \in DOMAIN readOutcomes : readOutcomes[k] \in {"ok", "failed"}
          /\ nextRead <= ChunkEnd(chunkStart) => readsFlying # {}
    /\ batchReadStep # "reading" => readsFlying = {}
    /\ batchReadStep = "delay" => chunkStart + chunkSize < Len(Unique)

\* How far the chunks have been gathered.
GatheredTo ==
    CASE batchReadStep = "idle" -> 0
      [] batchReadStep = "reading" -> chunkStart
      [] batchReadStep = "delay" -> chunkStart + chunkSize
      [] batchReadStep = "over" -> Len(Unique)

\* Every position up to there is in one of the two lists.
Parted(R, F) == gathered = [results |-> Picked(Unique, R), failures |-> Picked(Unique, F)]
GatheredWhole == \E R \in SUBSET (1 .. GatheredTo) : Parted(R, (1 .. GatheredTo) \ R)

BatchReadInv == BatchReadTypes /\ InFlight /\ GatheredWhole /\ GatheredTo <= Len(Unique)

\* Two pieces of a sequence, the second behind the first.
LEMMA PickedAppend ==
  ASSUME NEW V, NEW s \in Seq(V), NEW R \in SUBSET Nat, NEW T \in SUBSET Nat,
         IsFiniteSet(R), IsFiniteSet(T), \A i \in R : \A j \in T : i < j,
         R \subseteq DOMAIN s, T \subseteq DOMAIN s
  PROVE  Picked(s, R \cup T) = Picked(s, R) \o Picked(s, T)
<1> DEFINE U == R \cup T
           m == Cardinality(R)
           n == Cardinality(T)
<1>1. U \in SUBSET Nat /\ IsFiniteSet(U) /\ Cardinality(U) = m + n /\ m \in Nat /\ n \in Nat
  <2>1. R \cap T = {}
    <3>1. \A i \in R : i \in Nat /\ ~(i < i)
      OBVIOUS
    <3> QED BY <3>1
  <2>2. m \in Nat /\ n \in Nat /\ Cardinality(R \cap T) = 0
    BY <2>1, FS_CardinalityType, FS_EmptySet
  <2>3. IsFiniteSet(U) /\ Cardinality(U) = m + n - Cardinality(R \cap T)
    BY FS_Union
  <2> QED BY <2>2, <2>3
<1>2. \A k \in 1 .. m : Nth(U, k) = Nth(R, k)
  <2>1. R \subseteq U /\ \A i \in R : \A j \in U : j < i => j \in R
    <3>1. \A i \in R : i \in Nat
      OBVIOUS
    <3>2. \A j \in T : j \in Nat
      OBVIOUS
    <3> QED BY <3>1, <3>2
  <2> HIDE DEF U
  <2> QED BY <1>1, <2>1, NthStable
<1>3. ASSUME NEW k \in 1 .. n PROVE Nth(U, m + k) = Nth(T, k)
  <2> DEFINE i == Nth(T, k)
  <2>1. i \in T /\ Rank(T, i) = k - 1 /\ IsFiniteSet(Below(T, i)) /\ i \in Nat
    <3>1. i \in T /\ Rank(T, i) = k - 1
      BY NthIs
    <3>2. i \in Nat
      BY <3>1
    <3> QED BY <3>1, <3>2, RankIs
  <2> HIDE DEF i
  <2>2. Below(U, i) = R \cup Below(T, i)
    <3>1. \A j \in R : j < i
      BY <2>1
    <3> QED BY <3>1 DEF Below
  <2>3. R \cap Below(T, i) = {}
    <3>1. \A j \in R : j \in Nat /\ ~(j < j)
      OBVIOUS
    <3> QED BY <3>1 DEF Below
  <2>4. Rank(U, i) = m + (k - 1)
    <3>1. Cardinality(R \cup Below(T, i)) = m + Cardinality(Below(T, i)) - Cardinality(R \cap Below(T, i))
      BY <2>1, FS_Union
    <3>2. Cardinality(R \cap Below(T, i)) = 0
      BY <2>3, FS_EmptySet
    <3>3. Rank(U, i) = Cardinality(R \cup Below(T, i)) /\ Cardinality(Below(T, i)) = k - 1
      BY <2>1, <2>2 DEF Rank
    <3> QED BY <1>1, <3>1, <3>2, <3>3
  <2>5. i \in U /\ Rank(U, i) + 1 = m + k
    BY <1>1, <2>1, <2>4
  <2> HIDE DEF U
  <2>6. Nth(U, Rank(U, i) + 1) = i
    BY <1>1, <2>5, NthOfRank
  <2> QED BY <2>5, <2>6 DEF i
<1> DEFINE a == Picked(s, R)
           b == Picked(s, T)
           c == Picked(s, U)
<1>4. /\ a \in Seq(V) /\ Len(a) = m /\ \A k \in 1 .. m : a[k] = s[Nth(R, k)]
  BY PickedIs
<1>5. /\ b \in Seq(V) /\ Len(b) = n /\ \A k \in 1 .. n : b[k] = s[Nth(T, k)]
  BY PickedIs
<1>6. c = [k \in 1 .. m + n |-> s[Nth(U, k)]]
  BY <1>1 DEF Picked
<1> HIDE DEF a, b, c, m, n, U
<1>7. /\ a \o b \in Seq(V) /\ Len(a \o b) = m + n
      /\ \A k \in 1 .. m + n : (a \o b)[k] = IF k <= m THEN a[k] ELSE b[k - m]
  <2>1. a \in Seq(V) /\ b \in Seq(V) /\ Len(a) = m /\ Len(b) = n
    BY <1>4, <1>5
  <2> QED BY <1>1, <2>1
<1>8. ASSUME NEW k \in 1 .. m + n PROVE s[Nth(U, k)] = IF k <= m THEN a[k] ELSE b[k - m]
  <2>1. CASE k \in 1 .. m
    BY <1>1, <1>2, <1>4, <2>1
  <2>2. CASE k \in m + 1 .. m + n
    <3>1. k - m \in 1 .. n /\ m + (k - m) = k /\ ~(k <= m)
      BY <1>1, <2>2
    <3>2. Nth(U, k) = Nth(T, k - m)
      BY <1>3, <3>1
    <3> QED BY <1>5, <3>1, <3>2
  <2> QED BY <1>1, <2>1, <2>2
<1>9. c \in Seq(V) /\ Len(c) = m + n
  <2>1. U \subseteq DOMAIN s
    BY DEF U
  <2> QED BY <1>1, <2>1, PickedIs DEF c
<1>10. \A k \in 1 .. m + n : c[k] = (a \o b)[k]
  BY <1>6, <1>7, <1>8
<1>11. c = a \o b
  BY <1>7, <1>9, <1>10, SeqEqual
<1> QED BY <1>11 DEF a, b, c, U

\* Each id that was asked for has one place.
LEMMA UniqueIs ==
  ASSUME asked \in Seq(StreamId)
  PROVE  /\ Unique \in Seq(StreamId) /\ Len(Unique) \in Nat /\ DOMAIN Unique = 1 .. Len(Unique)
         /\ \A j, k \in 1 .. Len(Unique) : Unique[j] = Unique[k] => j = k
         /\ EntriesOf(Unique) = EntriesOf(asked)
         /\ Cardinality(EntriesOf(asked)) = Len(Unique)
<1> DEFINE n == Len(asked)
           L == Cardinality(Firsts)
<1>1. n \in Nat /\ DOMAIN asked = 1 .. n
  OBVIOUS
<1>2. Firsts \in SUBSET Nat /\ IsFiniteSet(Firsts) /\ Firsts \subseteq 1 .. n
  <2>1. Firsts \subseteq 1 .. n
    BY <1>1 DEF Firsts
  <2>2. 1 \in Int /\ n \in Int /\ 1 .. n \subseteq Nat
    BY <1>1
  <2> QED BY <2>1, <2>2, FS_Interval, FS_Subset
<1>3. /\ Unique \in Seq(StreamId) /\ L \in Nat /\ Len(Unique) = L /\ DOMAIN Unique = 1 .. L
      /\ \A k \in 1 .. L : Nth(Firsts, k) \in Firsts /\ Unique[k] = asked[Nth(Firsts, k)]
      /\ EntriesOf(Unique) = {asked[i] : i \in Firsts}
  <2>1. Firsts \subseteq DOMAIN asked
    BY <1>1, <1>2
  <2> QED BY <1>2, <2>1, PickedIs DEF Unique
<1>4. \A j, k \in 1 .. L : j < k => Nth(Firsts, j) < Nth(Firsts, k)
  BY <1>2, NthAscends
<1> HIDE DEF L, n
<1>5. ASSUME NEW j \in 1 .. L, NEW k \in 1 .. L, j < k PROVE Unique[j] # Unique[k]
  <2> DEFINE x == Nth(Firsts, j)
             y == Nth(Firsts, k)
  <2>1. x \in Firsts /\ y \in Firsts /\ x < y /\ x \in 1 .. n /\ y \in 1 .. n
    BY <1>2, <1>3, <1>4, <1>5
  <2>2. Unique[j] = asked[x] /\ Unique[k] = asked[y]
    BY <1>3
  <2> HIDE DEF x, y
  <2>3. x \in 1 .. y - 1
    BY <1>1, <2>1
  <2>4. \A i \in 1 .. y - 1 : asked[i] # asked[y]
    BY <2>1 DEF Firsts
  <2> QED BY <2>2, <2>3, <2>4
<1>6. ASSUME NEW j \in 1 .. L, NEW k \in 1 .. L, Unique[j] = Unique[k] PROVE j = k
  <2>1. ~(j < k) /\ ~(k < j)
    BY <1>5, <1>6
  <2> QED BY <1>3, <2>1
<1>7. ASSUME NEW k \in 1 .. n PROVE \E i \in Firsts : asked[i] = asked[k]
  <2> DEFINE S == {j \in 1 .. n : asked[j] = asked[k]}
  <2>1. S \in SUBSET Nat /\ S # {}
    BY <1>1
  <2> HIDE DEF S
  <2>2. PICK i \in S : \A j \in S : i <= j
    BY <2>1, LeastOf
  <2>3. i \in 1 .. n /\ asked[i] = asked[k]
    BY <2>2 DEF S
  <2>4. ASSUME NEW j \in 1 .. i - 1, asked[j] = asked[i] PROVE FALSE
    <3>1. j \in 1 .. n /\ ~(i <= j)
      BY <1>1, <2>3
    <3>2. j \in S
      BY <2>3, <2>4, <3>1 DEF S
    <3> QED BY <2>2, <3>1, <3>2
  <2>5. i \in Firsts
    BY <1>1, <2>3, <2>4 DEF Firsts
  <2> QED BY <2>3, <2>5
<1>8. EntriesOf(Unique) = EntriesOf(asked)
  <2>1. EntriesOf(asked) = {asked[k] : k \in 1 .. n}
    BY <1>1 DEF EntriesOf
  <2>2. ASSUME NEW i \in Firsts PROVE asked[i] \in EntriesOf(asked)
    <3>1. i \in 1 .. n
      BY <1>2
    <3> QED BY <2>1, <3>1
  <2>3. ASSUME NEW k \in 1 .. n PROVE asked[k] \in EntriesOf(Unique)
    <3>1. PICK i \in Firsts : asked[i] = asked[k]
      BY <1>7
    <3>2. EntriesOf(Unique) = {asked[j] : j \in Firsts}
      BY <1>3
    <3> QED BY <3>1, <3>2
  <2>4. EntriesOf(Unique) = {asked[j] : j \in Firsts}
    BY <1>3
  <2> QED BY <2>1, <2>2, <2>3, <2>4
<1>9. Cardinality(EntriesOf(Unique)) = L
  <2> DEFINE E == EntriesOf(Unique)
  <2>1. E = {Unique[k] : k \in 1 .. L}
    BY <1>3 DEF EntriesOf
  <2>2. Unique \in [1 .. L -> E]
    BY <1>3, <2>1
  <2> HIDE DEF E
  <2>3. Unique \in Bijection(1 .. L, E)
    BY <1>6, <2>1, <2>2 DEF Bijection, Injection, Surjection, IsInjective
  <2>4. ExistsBijection(1 .. L, E)
    BY <2>3 DEF ExistsBijection
  <2>5. IsFiniteSet(1 .. L) /\ Cardinality(1 .. L) = L
    <3>1. 1 \in Int /\ L \in Int
      BY <1>3
    <3>2. Cardinality(1 .. L) = (IF 1 > L THEN 0 ELSE L - 1 + 1) /\ IsFiniteSet(1 .. L)
      BY <3>1, FS_Interval
    <3> QED BY <1>3, <3>2
  <2> QED BY <2>4, <2>5, FS_Bijection DEF E
<1> QED BY <1>3, <1>6, <1>8, <1>9

LEMMA ChunkEndIs ==
  ASSUME BatchReadTypes, NEW start \in Nat, start < Len(Unique)
  PROVE  /\ ChunkEnd(start) \in Nat /\ start < ChunkEnd(start) /\ ChunkEnd(start) <= Len(Unique)
         /\ ChunkEnd(start) = IF start + chunkSize < Len(Unique) THEN start + chunkSize ELSE Len(Unique)
<1>1. Len(Unique) \in Nat /\ chunkSize \in Nat \ {0}
  BY UniqueIs DEF BatchReadTypes
<1> QED BY <1>1 DEF ChunkEnd

\* The ids keep their places.
LEMMA PlacesStay ==
  ASSUME asked' = asked, chunkSize' = chunkSize
  PROVE  Unique' = Unique /\ \A start : ChunkEnd(start)' = ChunkEnd(start)
<1>1. Unique' = Unique
  BY DEF Unique, Firsts, Picked
<1> QED BY <1>1 DEF ChunkEnd

LEMMA OpenKeeps ==
  ASSUME BatchReadInv, NEW start \in Nat, start < Len(Unique), start = GatheredTo,
         OpenChunk(start), UNCHANGED <<asked, chunkSize, maxConcurrency, gathered>>
  PROVE  BatchReadInv'
<1> DEFINE L == Len(Unique)
           E == ChunkEnd(start)
           first == Least(E, start + maxConcurrency)
<1>1. BatchReadTypes /\ GatheredWhole
  BY DEF BatchReadInv
<1>2. /\ chunkStart' = start /\ nextRead' = first + 1 /\ readsFlying' = start + 1 .. first
      /\ readOutcomes' = [i \in {} |-> "ok"] /\ batchReadStep' = "reading"
      /\ asked' = asked /\ chunkSize' = chunkSize /\ maxConcurrency' = maxConcurrency
      /\ gathered' = gathered
  BY DEF OpenChunk
<1>3. E \in Nat /\ start < E /\ E <= L /\ L \in Nat
  BY <1>1, ChunkEndIs, UniqueIs DEF BatchReadTypes
<1>4. Unique' = Unique /\ E' = E
  <2>1. \A a : ChunkEnd(a)' = ChunkEnd(a)
    BY <1>2, PlacesStay
  <2> QED BY <1>2, <2>1, PlacesStay
<1>5. maxConcurrency \in Nat \ {0}
  BY <1>1 DEF BatchReadTypes
<1> HIDE DEF L, E
<1>6. /\ first \in Nat /\ start < first /\ first <= E /\ first <= start + maxConcurrency
      /\ first < E => first = start + maxConcurrency
  BY <1>3, <1>5 DEF Least
<1> HIDE DEF first
<1>7. BatchReadTypes'
  BY <1>1, <1>2, <1>6 DEF BatchReadTypes
<1>8. IsFiniteSet(readsFlying') /\ Cardinality(readsFlying') <= maxConcurrency'
  <2>1. start + 1 \in Int /\ first \in Int
    BY <1>6
  <2>2. IsFiniteSet(start + 1 .. first)
        /\ Cardinality(start + 1 .. first) = IF start + 1 > first THEN 0 ELSE first - (start + 1) + 1
    BY <2>1, FS_Interval
  <2> QED BY <1>2, <1>5, <1>6, <2>2
<1>9. InFlight'
  <2>1. chunkStart' < Len(Unique') /\ chunkStart' < nextRead'
    BY <1>2, <1>3, <1>4, <1>6 DEF L
  <2>2. nextRead' <= ChunkEnd(chunkStart)' + 1
    <3>1. ChunkEnd(chunkStart)' = E
      BY <1>2, <1>4 DEF E, ChunkEnd
    <3> QED BY <1>2, <1>3, <1>6, <3>1
  <2>3. readsFlying' = chunkStart' + 1 .. nextRead' - 1 /\ readsFlying' # {}
    BY <1>2, <1>6
  <2>4. DOMAIN readOutcomes' = {}
    BY <1>2
  <2> QED BY <1>2, <1>8, <2>1, <2>2, <2>3, <2>4 DEF InFlight
<1>10. GatheredTo' = GatheredTo
  BY <1>2 DEF GatheredTo
<1>11. GatheredWhole'
  BY <1>1, <1>2, <1>4, <1>10 DEF GatheredWhole, Parted
<1>12. GatheredTo' <= Len(Unique')
  BY <1>4, <1>10 DEF BatchReadInv
<1> QED BY <1>7, <1>9, <1>11, <1>12 DEF BatchReadInv

LEMMA BatchReadStartsKeeps ==
  ASSUME BatchReadInv, BatchReadStarts
  PROVE  BatchReadInv'
<1>1. batchReadStep = "idle" /\ UNCHANGED <<asked, chunkSize, maxConcurrency, gathered>>
  BY DEF BatchReadStarts
<1>2. Len(Unique) \in Nat /\ GatheredTo = 0
  BY <1>1, UniqueIs DEF BatchReadInv, BatchReadTypes, GatheredTo
<1>3. CASE Len(Unique) = 0
  <2>1. /\ batchReadStep' = "over" /\ chunkStart' = chunkStart /\ nextRead' = nextRead
        /\ readsFlying' = readsFlying /\ readOutcomes' = readOutcomes
    BY <1>3 DEF BatchReadStarts
  <2>2. Unique' = Unique
    BY <1>1, PlacesStay
  <2>3. GatheredTo' = 0
    BY <1>3, <2>1, <2>2 DEF GatheredTo
  <2>4. BatchReadTypes'
    BY <1>1, <2>1 DEF BatchReadInv, BatchReadTypes
  <2>5. InFlight'
    BY <1>1, <2>1 DEF BatchReadInv, InFlight
  <2>6. GatheredWhole'
    BY <1>1, <1>2, <2>2, <2>3 DEF BatchReadInv, GatheredWhole, Parted
  <2> QED BY <1>3, <2>2, <2>3, <2>4, <2>5, <2>6 DEF BatchReadInv
<1>4. CASE Len(Unique) # 0
  <2>1. OpenChunk(0)
    BY <1>4 DEF BatchReadStarts
  <2> QED BY <1>1, <1>2, <1>4, <2>1, OpenKeeps
<1> QED BY <1>3, <1>4

LEMMA NextChunkKeeps ==
  ASSUME BatchReadInv, NextChunk
  PROVE  BatchReadInv'
<1>1. /\ batchReadStep = "delay" /\ OpenChunk(chunkStart + chunkSize)
      /\ UNCHANGED <<asked, chunkSize, maxConcurrency, gathered>>
  BY DEF NextChunk
<1>2. chunkStart + chunkSize \in Nat /\ chunkStart + chunkSize < Len(Unique)
      /\ chunkStart + chunkSize = GatheredTo
  BY <1>1 DEF BatchReadInv, BatchReadTypes, InFlight, GatheredTo
<1> QED BY <1>1, <1>2, OpenKeeps

\* What a settling read leaves alone.
LEMMA SettlesRest ==
  ASSUME BatchReadInv, batchReadStep = "reading", batchReadStep' = batchReadStep,
         chunkStart' = chunkStart, gathered' = gathered, Unique' = Unique,
         BatchReadTypes', InFlight'
  PROVE  BatchReadInv'
<1>1. GatheredTo = chunkStart /\ GatheredTo' = chunkStart
  BY DEF GatheredTo
<1>2. GatheredWhole'
  BY <1>1 DEF BatchReadInv, GatheredWhole, Parted
<1> QED BY <1>1, <1>2 DEF BatchReadInv

LEMMA SettlesKeeps ==
  ASSUME BatchReadInv, NEW i, ReadSettles(i)
  PROVE  BatchReadInv'
<1> DEFINE E == ChunkEnd(chunkStart)
<1>1. /\ i \in readsFlying
      /\ asked' = asked /\ chunkSize' = chunkSize /\ maxConcurrency' = maxConcurrency
      /\ chunkStart' = chunkStart /\ gathered' = gathered /\ batchReadStep' = batchReadStep
      /\ IF nextRead <= E
         THEN readsFlying' = (readsFlying \ {i}) \cup {nextRead} /\ nextRead' = nextRead + 1
         ELSE readsFlying' = readsFlying \ {i} /\ nextRead' = nextRead
  BY DEF ReadSettles
<1>2. PICK o \in {"ok", "failed"} :
         readOutcomes' = [j \in DOMAIN readOutcomes \cup {i} |-> IF j = i THEN o ELSE readOutcomes[j]]
  BY DEF ReadSettles
<1>3. BatchReadTypes /\ InFlight /\ GatheredWhole /\ batchReadStep = "reading"
  BY <1>1 DEF BatchReadInv, InFlight
<1>4. /\ IsFiniteSet(readsFlying) /\ Cardinality(readsFlying) <= maxConcurrency
      /\ chunkStart < Len(Unique) /\ chunkStart < nextRead /\ nextRead <= E + 1
      /\ readsFlying \subseteq chunkStart + 1 .. nextRead - 1
      /\ DOMAIN readOutcomes = (chunkStart + 1 .. nextRead - 1) \ readsFlying
      /\ \A k \in DOMAIN readOutcomes : readOutcomes[k] \in {"ok", "failed"}
  BY <1>3 DEF InFlight
<1>5. chunkStart \in Nat /\ nextRead \in Nat /\ maxConcurrency \in Nat /\ E \in Nat
  BY <1>3, <1>4, ChunkEndIs DEF BatchReadTypes
<1>6. Unique' = Unique /\ ChunkEnd(chunkStart)' = E
  <2>1. Unique' = Unique
    BY <1>1, PlacesStay
  <2> QED BY <1>1, <2>1 DEF ChunkEnd
<1> HIDE DEF E
<1>7. BatchReadTypes'
  BY <1>1, <1>3, <1>5 DEF BatchReadTypes
<1>8. DOMAIN readOutcomes' = DOMAIN readOutcomes \cup {i}
      /\ \A k \in DOMAIN readOutcomes' : readOutcomes'[k] \in {"ok", "failed"}
  <2>1. DOMAIN readOutcomes' = DOMAIN readOutcomes \cup {i}
    BY <1>2
  <2>2. ASSUME NEW k \in DOMAIN readOutcomes \cup {i} PROVE readOutcomes'[k] \in {"ok", "failed"}
    <3>1. readOutcomes'[k] = IF k = i THEN o ELSE readOutcomes[k]
      BY <1>2
    <3> QED BY <1>4, <2>2, <3>1
  <2> QED BY <2>1, <2>2
<1>9. IsFiniteSet(readsFlying \ {i}) /\ Cardinality(readsFlying \ {i}) = Cardinality(readsFlying) - 1
      /\ Cardinality(readsFlying) \in Nat /\ Cardinality(readsFlying \ {i}) \in Nat
  BY <1>1, <1>4, FS_RemoveElement, FS_CardinalityType
<1>10. CASE nextRead <= E
  <2>1. readsFlying' = (readsFlying \ {i}) \cup {nextRead} /\ nextRead' = nextRead + 1
    BY <1>1, <1>10
  <2>2. nextRead \notin readsFlying
    BY <1>4, <1>5
  <2>3. IsFiniteSet(readsFlying')
        /\ Cardinality(readsFlying') = Cardinality(readsFlying \ {i}) + 1
    BY <1>9, <2>1, <2>2, FS_AddElement
  <2>4. Cardinality(readsFlying') <= maxConcurrency
    BY <1>4, <1>5, <1>9, <2>3
  <2>5. chunkStart + 1 .. nextRead = (chunkStart + 1 .. nextRead - 1) \cup {nextRead}
    BY <1>4, <1>5
  <2>6. DOMAIN readOutcomes' = (chunkStart + 1 .. nextRead) \ readsFlying'
    BY <1>1, <1>4, <1>8, <2>1, <2>2, <2>5
  <2>7. readsFlying' \subseteq chunkStart + 1 .. nextRead /\ readsFlying' # {}
    BY <1>4, <2>1, <2>5
  <2>8. nextRead' - 1 = nextRead /\ chunkStart < nextRead' /\ nextRead' <= E + 1
    BY <1>4, <1>5, <1>10, <2>1
  <2> QED BY <1>1, <1>3, <1>4, <1>6, <1>7, <1>8, <2>3, <2>4, <2>6, <2>7, <2>8, SettlesRest DEF InFlight
<1>11. CASE ~(nextRead <= E)
  <2>1. readsFlying' = readsFlying \ {i} /\ nextRead' = nextRead
    BY <1>1, <1>11
  <2>2. Cardinality(readsFlying') <= maxConcurrency /\ IsFiniteSet(readsFlying')
    BY <1>4, <1>5, <1>9, <2>1
  <2>3. DOMAIN readOutcomes' = (chunkStart + 1 .. nextRead - 1) \ readsFlying'
    BY <1>1, <1>4, <1>8, <2>1
  <2>4. readsFlying' \subseteq chunkStart + 1 .. nextRead - 1
    BY <1>4, <2>1
  <2> QED BY <1>1, <1>3, <1>4, <1>6, <1>7, <1>8, <1>11, <2>1, <2>2, <2>3, <2>4, SettlesRest DEF InFlight
<1> QED BY <1>10, <1>11

LEMMA ChunkOverKeeps ==
  ASSUME BatchReadInv, ChunkOver
  PROVE  BatchReadInv'
<1> DEFINE E == ChunkEnd(chunkStart)
           L == Len(Unique)
           T == {k \in DOMAIN readOutcomes : readOutcomes[k] = "ok"}
           X == {k \in DOMAIN readOutcomes : readOutcomes[k] = "failed"}
<1>1. /\ batchReadStep = "reading" /\ readsFlying = {}
      /\ gathered' = [results |-> gathered.results \o Gathered("ok"),
                      failures |-> gathered.failures \o Gathered("failed")]
      /\ batchReadStep' = (IF chunkStart + chunkSize < L THEN "delay" ELSE "over")
      /\ asked' = asked /\ chunkSize' = chunkSize /\ maxConcurrency' = maxConcurrency
      /\ chunkStart' = chunkStart /\ nextRead' = nextRead /\ readsFlying' = readsFlying
      /\ readOutcomes' = readOutcomes
  BY DEF ChunkOver
<1>2. BatchReadTypes /\ InFlight /\ GatheredWhole
  BY DEF BatchReadInv
<1>3. /\ chunkStart < L /\ chunkStart < nextRead /\ nextRead <= E + 1 /\ ~(nextRead <= E)
      /\ DOMAIN readOutcomes = (chunkStart + 1 .. nextRead - 1) \ readsFlying
      /\ \A k \in DOMAIN readOutcomes : readOutcomes[k] \in {"ok", "failed"}
  BY <1>1, <1>2 DEF InFlight
<1>4. /\ chunkStart \in Nat /\ nextRead \in Nat /\ E \in Nat /\ chunkStart < E /\ E <= L /\ L \in Nat
      /\ E = IF chunkStart + chunkSize < L THEN chunkStart + chunkSize ELSE L
      /\ Unique \in Seq(StreamId) /\ DOMAIN Unique = 1 .. L
  BY <1>2, <1>3, ChunkEndIs, UniqueIs DEF BatchReadTypes
<1>5. Unique' = Unique
  BY <1>1, PlacesStay
<1>6. GatheredTo = chunkStart /\ GatheredTo' = E
  BY <1>1, <1>4, <1>5 DEF GatheredTo
<1> HIDE DEF E, L
<1>7. DOMAIN readOutcomes = chunkStart + 1 .. E
  <2>1. nextRead - 1 = E
    BY <1>3, <1>4
  <2> QED BY <1>1, <1>3, <2>1
<1>8. T \cup X = chunkStart + 1 .. E /\ T \cap X = {}
  BY <1>3, <1>7
<1>9. Gathered("ok") = Picked(Unique, T) /\ Gathered("failed") = Picked(Unique, X)
  BY DEF Gathered
<1> HIDE DEF T, X
<1>10. PICK R \in SUBSET (1 .. chunkStart) : Parted(R, (1 .. chunkStart) \ R)
  BY <1>2, <1>6 DEF GatheredWhole
<1> DEFINE F == (1 .. chunkStart) \ R
<1>11. gathered.results = Picked(Unique, R) /\ gathered.failures = Picked(Unique, F)
  BY <1>10 DEF Parted
<1>12. R \subseteq 1 .. chunkStart /\ F \subseteq 1 .. chunkStart
       /\ T \subseteq chunkStart + 1 .. E /\ X \subseteq chunkStart + 1 .. E
       /\ R \cup F = 1 .. chunkStart /\ R \cap F = {}
  BY <1>8
<1> HIDE DEF F
<1>13. /\ IsFiniteSet(R) /\ IsFiniteSet(F) /\ IsFiniteSet(T) /\ IsFiniteSet(X)
       /\ R \in SUBSET Nat /\ F \in SUBSET Nat /\ T \in SUBSET Nat /\ X \in SUBSET Nat
       /\ R \subseteq DOMAIN Unique /\ F \subseteq DOMAIN Unique
       /\ T \subseteq DOMAIN Unique /\ X \subseteq DOMAIN Unique
  <2>1. 1 .. chunkStart \subseteq 1 .. L /\ chunkStart + 1 .. E \subseteq 1 .. L /\ 1 .. L \subseteq Nat
    BY <1>4
  <2>2. 1 \in Int /\ L \in Int
    BY <1>4
  <2>3. IsFiniteSet(1 .. L)
    BY <2>2, FS_Interval
  <2>4. R \subseteq 1 .. L /\ F \subseteq 1 .. L /\ T \subseteq 1 .. L /\ X \subseteq 1 .. L
    BY <1>12, <2>1
  <2> QED BY <1>4, <2>1, <2>3, <2>4, FS_Subset
<1>14. /\ \A i \in 1 .. chunkStart : \A j \in chunkStart + 1 .. E : i < j
       /\ 1 .. E = (1 .. chunkStart) \cup (chunkStart + 1 .. E)
  BY <1>4
<1>15. /\ Picked(Unique, R \cup T) = Picked(Unique, R) \o Picked(Unique, T)
       /\ Picked(Unique, F \cup X) = Picked(Unique, F) \o Picked(Unique, X)
  <2>1. (\A i \in R : \A j \in T : i < j) /\ (\A i \in F : \A j \in X : i < j)
    BY <1>12, <1>14
  <2> QED BY <1>4, <1>13, <2>1, PickedAppend
<1>16. R \cup T \in SUBSET (1 .. E) /\ F \cup X = (1 .. E) \ (R \cup T)
  <2>1. \A i \in 1 .. chunkStart : i \notin chunkStart + 1 .. E
    BY <1>4
  <2> QED BY <1>8, <1>12, <1>14, <2>1
<1>17. GatheredWhole'
  <2>1. gathered' = [results |-> Picked(Unique, R \cup T), failures |-> Picked(Unique, F \cup X)]
    BY <1>1, <1>9, <1>11, <1>15
  <2>2. PICK A, B : A = R \cup T /\ B = F \cup X
    OBVIOUS
  <2>3. gathered' = [results |-> Picked(Unique', A), failures |-> Picked(Unique', B)]
    BY <1>5, <2>1, <2>2
  <2>4. A \in SUBSET (1 .. GatheredTo') /\ B = (1 .. GatheredTo') \ A
    BY <1>6, <1>16, <2>2
  <2> QED BY <2>3, <2>4 DEF GatheredWhole, Parted
<1>18. BatchReadTypes'
  BY <1>1, <1>2 DEF BatchReadTypes
<1>19. InFlight'
  <2>1. batchReadStep' = "delay" => chunkStart' + chunkSize' < Len(Unique')
    BY <1>1, <1>5 DEF L
  <2> QED BY <1>1, <1>2, <2>1 DEF InFlight
<1>20. GatheredTo' <= Len(Unique')
  BY <1>4, <1>5, <1>6 DEF L
<1> QED BY <1>17, <1>18, <1>19, <1>20 DEF BatchReadInv

LEMMA BatchReadBegins ==
  ASSUME BatchReadInit
  PROVE  BatchReadInv
<1>1. /\ chunkStart = 0 /\ nextRead = 1 /\ readsFlying = {} /\ batchReadStep = "idle"
      /\ chunkSize \in 1 .. MaxIds /\ maxConcurrency \in 1 .. 2
      /\ gathered = [results |-> <<>>, failures |-> <<>>]
  BY DEF BatchReadInit
<1>2. PICK n \in 0 .. MaxIds : asked \in [1 .. n -> StreamId]
  BY DEF BatchReadInit
<1>3. asked \in Seq(StreamId)
  <2>1. n \in Nat
    OBVIOUS
  <2> QED BY <1>2, <2>1
<1>4. BatchReadTypes
  BY <1>1, <1>3 DEF BatchReadTypes
<1>5. GatheredTo = 0 /\ Len(Unique) \in Nat
  BY <1>1, <1>3, UniqueIs DEF GatheredTo
<1>6. InFlight
  <2>1. IsFiniteSet(readsFlying) /\ Cardinality(readsFlying) = 0
    BY <1>1, FS_EmptySet
  <2> QED BY <1>1, <2>1 DEF InFlight
<1>7. GatheredWhole
  <2>1. Picked(Unique, {}) = <<>>
    <3>1. Cardinality({}) = 0
      BY FS_EmptySet
    <3> QED BY <3>1 DEF Picked
  <2>2. (1 .. 0) \ {} = {} /\ {} \in SUBSET (1 .. 0)
    OBVIOUS
  <2>3. Parted({}, (1 .. 0) \ {})
    BY <1>1, <2>1, <2>2 DEF Parted
  <2> QED BY <1>5, <2>2, <2>3 DEF GatheredWhole
<1> QED BY <1>4, <1>5, <1>6, <1>7 DEF BatchReadInv

LEMMA BatchReadKeeps ==
  ASSUME BatchReadInv, [BatchReadNext]_batchReadVars
  PROVE  BatchReadInv'
<1>1. CASE UNCHANGED batchReadVars
  <2>1. /\ asked' = asked /\ chunkSize' = chunkSize /\ maxConcurrency' = maxConcurrency
        /\ chunkStart' = chunkStart /\ nextRead' = nextRead /\ readsFlying' = readsFlying
        /\ readOutcomes' = readOutcomes /\ gathered' = gathered /\ batchReadStep' = batchReadStep
    BY <1>1 DEF batchReadVars
  <2>2. Unique' = Unique
    BY <2>1, PlacesStay
  <2>3. GatheredTo' = GatheredTo
    BY <2>1, <2>2 DEF GatheredTo
  <2>4. BatchReadTypes'
    BY <2>1 DEF BatchReadInv, BatchReadTypes
  <2>5. InFlight'
    <3>1. ChunkEnd(chunkStart)' = ChunkEnd(chunkStart)
      BY <2>1, <2>2 DEF ChunkEnd
    <3> QED BY <2>1, <2>2, <3>1 DEF BatchReadInv, InFlight
  <2>6. GatheredWhole'
    BY <2>1, <2>2, <2>3 DEF BatchReadInv, GatheredWhole, Parted
  <2> QED BY <2>2, <2>3, <2>4, <2>5, <2>6 DEF BatchReadInv
<1>2. CASE BatchReadNext
  BY <1>2, BatchReadStartsKeeps, ChunkOverKeeps, NextChunkKeeps, SettlesKeeps DEF BatchReadNext
<1> QED BY <1>1, <1>2

\* A list of the gathered ids is in the order of their places.
PlaceOf(id) == CHOOSE k \in DOMAIN Unique : Unique[k] = id
IdsInOrder(ids) == \A j, k \in DOMAIN ids : j < k => PlaceOf(ids[j]) < PlaceOf(ids[k])

LEMMA GatheredInOrder ==
  ASSUME BatchReadTypes, NEW S \in SUBSET (1 .. Len(Unique))
  PROVE  LET ids == Picked(Unique, S)
         IN  /\ IdsInOrder(ids) /\ EntriesOf(ids) = {Unique[i] : i \in S}
             /\ Len(ids) = Cardinality(S) /\ IsFiniteSet(S)
<1> DEFINE L == Len(Unique)
           c == Cardinality(S)
           ids == Picked(Unique, S)
<1>1. /\ Unique \in Seq(StreamId) /\ L \in Nat /\ DOMAIN Unique = 1 .. L
      /\ \A j, k \in 1 .. L : Unique[j] = Unique[k] => j = k
  BY UniqueIs DEF BatchReadTypes
<1>2. S \in SUBSET Nat /\ IsFiniteSet(S) /\ S \subseteq DOMAIN Unique
  <2> HIDE DEF L
  <2>1. S \subseteq 1 .. L /\ 1 .. L \subseteq Nat /\ 1 \in Int /\ L \in Int
    BY <1>1 DEF L
  <2>2. IsFiniteSet(1 .. L)
    BY <2>1, FS_Interval
  <2> QED BY <1>1, <2>1, <2>2, FS_Subset
<1>3. /\ c \in Nat /\ Len(ids) = c /\ DOMAIN ids = 1 .. c
      /\ \A k \in 1 .. c : Nth(S, k) \in S /\ ids[k] = Unique[Nth(S, k)]
      /\ EntriesOf(ids) = {Unique[i] : i \in S}
  BY <1>1, <1>2, PickedIs
<1>4. \A j, k \in 1 .. c : j < k => Nth(S, j) < Nth(S, k)
  BY <1>2, NthAscends
<1>5. \A i \in S : PlaceOf(Unique[i]) = i
  BY <1>1, <1>2 DEF PlaceOf
<1> HIDE DEF L, c, ids
<1>6. IdsInOrder(ids)
  <2>1. \A k \in 1 .. c : PlaceOf(ids[k]) = Nth(S, k)
    BY <1>3, <1>5
  <2> QED BY <1>3, <1>4, <2>1 DEF IdsInOrder
<1> QED BY <1>2, <1>3, <1>6 DEF ids, c

LEMMA BatchReadInvExact ==
  ASSUME BatchReadInv
  PROVE  BatchReadExact
<1> DEFINE L == Len(Unique)
           All == {asked[k] : k \in DOMAIN asked}
<1>1. BatchReadTypes /\ InFlight /\ GatheredWhole /\ GatheredTo <= L
  BY DEF BatchReadInv
<1>2. PICK R \in SUBSET (1 .. GatheredTo) : Parted(R, (1 .. GatheredTo) \ R)
  BY <1>1 DEF GatheredWhole
<1> DEFINE F == (1 .. GatheredTo) \ R
<1>3. gathered.results = Picked(Unique, R) /\ gathered.failures = Picked(Unique, F)
  BY <1>2 DEF Parted
<1>4. L \in Nat /\ DOMAIN Unique = 1 .. L /\ EntriesOf(Unique) = EntriesOf(asked)
      /\ Cardinality(EntriesOf(asked)) = L
  BY <1>1, UniqueIs DEF BatchReadTypes
<1>5. GatheredTo \in Nat
  BY <1>1, <1>4 DEF GatheredTo, BatchReadTypes
<1>6. R \in SUBSET (1 .. L) /\ F \in SUBSET (1 .. L)
  <2>1. 1 .. GatheredTo \subseteq 1 .. L
    BY <1>1, <1>4, <1>5
  <2> HIDE DEF L
  <2> QED BY <2>1
<1> HIDE DEF F
<1>7. /\ IdsInOrder(gathered.results) /\ IdsInOrder(gathered.failures)
      /\ EntriesOf(gathered.results) = {Unique[i] : i \in R}
      /\ EntriesOf(gathered.failures) = {Unique[i] : i \in F}
      /\ Len(gathered.results) = Cardinality(R) /\ Len(gathered.failures) = Cardinality(F)
      /\ IsFiniteSet(R) /\ IsFiniteSet(F)
  BY <1>1, <1>3, <1>6, GatheredInOrder
<1>8. ASSUME batchReadStep = "over"
      PROVE  /\ All = EntriesOf(gathered.results) \cup EntriesOf(gathered.failures)
             /\ Len(gathered.results) + Len(gathered.failures) = Cardinality(All)
  <2> HIDE DEF L
  <2>1. GatheredTo = L
    BY <1>8 DEF GatheredTo, L
  <2>2. R \cup F = 1 .. L /\ R \cap F = {}
    BY <2>1 DEF F
  <2>3. All = {Unique[i] : i \in 1 .. L}
    BY <1>4 DEF EntriesOf
  <2>4. {Unique[i] : i \in 1 .. L} = {Unique[i] : i \in R} \cup {Unique[i] : i \in F}
    BY <2>2
  <2>5. Cardinality(R) + Cardinality(F) = L
    <3>1. Cardinality(R \cup F) = Cardinality(R) + Cardinality(F) - Cardinality(R \cap F)
      BY <1>7, FS_Union
    <3>2. Cardinality(R \cap F) = 0 /\ Cardinality(R) \in Nat /\ Cardinality(F) \in Nat
      BY <1>7, <2>2, FS_EmptySet, FS_CardinalityType
    <3>3. Cardinality(1 .. L) = L
      <4>1. 1 \in Int /\ L \in Int
        BY <1>4
      <4>2. Cardinality(1 .. L) = IF 1 > L THEN 0 ELSE L - 1 + 1
        BY <4>1, FS_Interval
      <4> QED BY <1>4, <4>2
    <3>4. Cardinality(R \cup F) = L
      BY <2>2, <3>3
    <3> QED BY <1>4, <3>1, <3>2, <3>4
  <2>6. Cardinality(All) = L
    BY <1>4 DEF EntriesOf
  <2> QED BY <1>7, <2>3, <2>4, <2>5, <2>6
<1>9. Cardinality(readsFlying) <= maxConcurrency
  BY <1>1 DEF InFlight
<1> QED BY <1>7, <1>8, <1>9 DEF BatchReadExact, IdsInOrder, PlaceOf, EntriesOf

\* What is read piece by piece is read whole: a walk over pages (streamsBySender(),
\* list(), getStreamHistory(), replayEvents() and the indexer's) hands over what
\* there was when it began, in order and without repeating one, although the
\* collection grows; and getStreamsBatch() reads every id once, with no more than
\* maxConcurrency reads in flight.
THEOREM ReadWholeAlways == WalkSpec /\ BatchReadSpec => []ReadWhole
<1>1. WalkSpec => []WalkExact
  <2>1. WalkInv /\ [WalkNext]_walkVars => WalkInv'
    BY WalkKeeps
  <2> QED BY <2>1, WalkStarts, WalkInvExact, PTL DEF WalkSpec
<1>2. BatchReadSpec => []BatchReadExact
  <2>1. BatchReadInv /\ [BatchReadNext]_batchReadVars => BatchReadInv'
    BY BatchReadKeeps
  <2> QED BY <2>1, BatchReadBegins, BatchReadInvExact, PTL DEF BatchReadSpec
<1>3. WalkExact /\ BatchReadExact => ReadWhole
  BY DEF ReadWhole
<1> QED BY <1>1, <1>2, <1>3, PTL

-----------------------------------------------------------------------------
(* The memo cache                                                          *)

\* The times are those of a store's keys, in the order of the store.
Ordered(s, at) == \A i, j \in DOMAIN s : i < j => at[s[i]] < at[s[j]]

\* A cache whose keys are in the order of their last use.
Usable(c, at, size) ==
    /\ c.order \in Seq(MemoKey) /\ Len(c.order) <= size
    /\ c.expiry \in [MemoKey -> Nat]
    /\ c = Cached(c.order, c.expiry)
    /\ Ordered(c.order, at)

SnapshotEntry == [key : MemoKey, expiry : Nat]

MemoInv ==
    /\ store \in Seq(MemoKey) /\ Len(store) <= MemoSize
    /\ uses \in Nat /\ date \in Nat /\ date <= MemoClock
    /\ usedAt \in [MemoKey -> 0 .. uses]
    /\ expiresAt \in [MemoKey -> Nat]
    /\ Ordered(store, usedAt)
    /\ snapshot \in Seq(SnapshotEntry)
    /\ \A i, j \in DOMAIN snapshot : snapshot[i].key = snapshot[j].key => i = j

LEMMA EntryIs == ASSUME NEW x \in SnapshotEntry PROVE x.key \in MemoKey /\ x.expiry \in Nat
BY DEF SnapshotEntry

LEMMA CachedIs ==
  ASSUME NEW s, NEW e, NEW c, c = Cached(s, e)
  PROVE  c.order = s /\ c.expiry = e /\ c = Cached(c.order, c.expiry)
BY DEF Cached

\* What is picked of an ordered store is ordered.
LEMMA PickedOrdered ==
  ASSUME NEW s \in Seq(MemoKey), NEW at \in [MemoKey -> Nat], Ordered(s, at),
         NEW S \in SUBSET DOMAIN s
  PROVE  /\ Picked(s, S) \in Seq(MemoKey) /\ Len(Picked(s, S)) <= Len(s)
         /\ Len(Picked(s, S)) = Cardinality(S) /\ Cardinality(S) \in Nat
         /\ Ordered(Picked(s, S), at)
         /\ EntriesOf(Picked(s, S)) = {s[i] : i \in S}
         /\ S # DOMAIN s => Len(Picked(s, S)) < Len(s)
<1>1. Len(s) \in Nat /\ DOMAIN s = 1 .. Len(s) /\ IsFiniteSet(DOMAIN s)
      /\ Cardinality(DOMAIN s) = Len(s)
  <2>1. Len(s) \in Nat /\ DOMAIN s = 1 .. Len(s)
    OBVIOUS
  <2>2. 1 \in Int /\ Len(s) \in Int
    BY <2>1
  <2>3. IsFiniteSet(1 .. Len(s)) /\ Cardinality(1 .. Len(s)) = IF 1 > Len(s) THEN 0 ELSE Len(s) - 1 + 1
    BY <2>2, FS_Interval
  <2> QED BY <2>1, <2>3
<1>2. S \in SUBSET Nat /\ IsFiniteSet(S) /\ Cardinality(S) \in Nat /\ Cardinality(S) <= Len(s)
      /\ (S # DOMAIN s => Cardinality(S) < Len(s))
  <2>1. IsFiniteSet(S) /\ Cardinality(S) <= Cardinality(DOMAIN s)
        /\ (Cardinality(S) = Cardinality(DOMAIN s) => S = DOMAIN s)
    BY <1>1, FS_Subset
  <2>2. Cardinality(S) \in Nat
    BY <2>1, FS_CardinalityType
  <2>3. S \subseteq 1 .. Len(s)
    BY <1>1
  <2> QED BY <1>1, <2>1, <2>2, <2>3
<1>3. /\ Picked(s, S) \in Seq(MemoKey) /\ Len(Picked(s, S)) = Cardinality(S)
      /\ DOMAIN Picked(s, S) = 1 .. Cardinality(S)
      /\ \A k \in 1 .. Cardinality(S) : Nth(S, k) \in S /\ Picked(s, S)[k] = s[Nth(S, k)]
      /\ EntriesOf(Picked(s, S)) = {s[i] : i \in S}
  BY <1>2, PickedIs
<1>4. \A j, k \in 1 .. Cardinality(S) : j < k => Nth(S, j) < Nth(S, k)
  BY <1>2, NthAscends
<1>5. Ordered(Picked(s, S), at)
  <2> SUFFICES ASSUME NEW i \in 1 .. Cardinality(S), NEW j \in 1 .. Cardinality(S), i < j
               PROVE  at[Picked(s, S)[i]] < at[Picked(s, S)[j]]
    BY <1>3 DEF Ordered
  <2>1. Nth(S, i) \in DOMAIN s /\ Nth(S, j) \in DOMAIN s /\ Nth(S, i) < Nth(S, j)
    BY <1>3, <1>4
  <2>2. at[s[Nth(S, i)]] < at[s[Nth(S, j)]]
    BY <2>1 DEF Ordered
  <2> QED BY <1>3, <2>2
<1> QED BY <1>2, <1>3, <1>5

\* What an ordered store holds it holds once.
LEMMA HeldOnce ==
  ASSUME NEW s \in Seq(MemoKey), NEW at \in [MemoKey -> Nat], Ordered(s, at)
  PROVE  \A i, j \in DOMAIN s : s[i] = s[j] => i = j
<1> SUFFICES ASSUME NEW i \in DOMAIN s, NEW j \in DOMAIN s, s[i] = s[j], i # j PROVE FALSE
  OBVIOUS
<1>1. i \in Nat /\ j \in Nat /\ s[i] \in MemoKey /\ at[s[i]] \in Nat
  OBVIOUS
<1>2. i < j \/ j < i
  BY <1>1
<1>3. at[s[i]] < at[s[i]]
  BY <1>2 DEF Ordered
<1> QED BY <1>1, <1>3

\* A key used later than all that is kept goes to the end.
LEMMA LastUsed ==
  ASSUME NEW s \in Seq(MemoKey), NEW at \in [MemoKey -> Nat], Ordered(s, at),
         NEW k \in MemoKey, k \notin EntriesOf(s), NEW w \in Nat,
         \A x \in MemoKey : at[x] < w
  PROVE  /\ Append(s, k) \in Seq(MemoKey) /\ Len(Append(s, k)) = Len(s) + 1
         /\ Ordered(Append(s, k), [at EXCEPT ![k] = w])
         /\ EntriesOf(Append(s, k)) = EntriesOf(s) \cup {k}
<1> DEFINE n == Len(s)
           t == Append(s, k)
           later == [at EXCEPT ![k] = w]
<1>1. /\ n \in Nat /\ t \in Seq(MemoKey) /\ Len(t) = n + 1 /\ DOMAIN s = 1 .. n
      /\ DOMAIN t = 1 .. n + 1 /\ t[n + 1] = k
      /\ \A i \in 1 .. n : t[i] = s[i] /\ s[i] \in MemoKey /\ s[i] # k
  <2>1. \A i \in DOMAIN s : s[i] # k
    BY DEF EntriesOf
  <2> QED BY <2>1
<1>2. /\ \A x \in MemoKey : x # k => later[x] = at[x]
      /\ later[k] = w
  OBVIOUS
<1> HIDE DEF later, t, n
<1>3. Ordered(t, later)
  <2> SUFFICES ASSUME NEW i \in 1 .. n + 1, NEW j \in 1 .. n + 1, i < j
               PROVE  later[t[i]] < later[t[j]]
    BY <1>1 DEF Ordered
  <2>1. i \in 1 .. n /\ (j \in 1 .. n \/ j = n + 1)
    BY <1>1
  <2>2. later[t[i]] = at[s[i]] /\ s[i] \in MemoKey
    BY <1>1, <1>2, <2>1
  <2>3. CASE j \in 1 .. n
    <3>1. later[t[j]] = at[s[j]]
      BY <1>1, <1>2, <2>3
    <3>2. at[s[i]] < at[s[j]]
      BY <1>1, <2>1, <2>3 DEF Ordered
    <3> QED BY <2>2, <3>1, <3>2
  <2>4. CASE j = n + 1
    <3>1. later[t[j]] = w
      BY <1>1, <1>2, <2>4
    <3> QED BY <2>2, <3>1
  <2> QED BY <2>1, <2>3, <2>4
<1>4. EntriesOf(t) = EntriesOf(s) \cup {k}
  <2>1. ASSUME NEW i \in 1 .. n + 1 PROVE t[i] \in {s[j] : j \in 1 .. n} \cup {k}
    <3>1. i \in 1 .. n \/ i = n + 1
      BY <1>1
    <3> QED BY <1>1, <3>1
  <2>2. ASSUME NEW i \in 1 .. n PROVE s[i] \in {t[j] : j \in 1 .. n + 1}
    <3>1. i \in 1 .. n + 1 /\ t[i] = s[i]
      BY <1>1
    <3> QED BY <3>1
  <2>3. k \in {t[j] : j \in 1 .. n + 1}
    <3>1. n + 1 \in 1 .. n + 1
      BY <1>1
    <3> QED BY <1>1, <3>1
  <2> QED BY <1>1, <2>1, <2>2, <2>3 DEF EntriesOf
<1> QED BY <1>1, <1>3, <1>4 DEF t, later, n

\* remove() leaves the others.
LEMMA WithoutIs ==
  ASSUME NEW s \in Seq(MemoKey), NEW at \in [MemoKey -> Nat], Ordered(s, at), NEW k \in MemoKey
  PROVE  /\ Without(s, k) \in Seq(MemoKey) /\ Len(Without(s, k)) <= Len(s)
         /\ Ordered(Without(s, k), at)
         /\ k \notin EntriesOf(Without(s, k))
         /\ k \in EntriesOf(s) => Len(Without(s, k)) < Len(s)
<1> DEFINE S == {i \in DOMAIN s : s[i] # k}
<1>1. S \in SUBSET DOMAIN s /\ Without(s, k) = Picked(s, S)
  BY DEF Without
<1>2. k \notin {s[i] : i \in S}
  OBVIOUS
<1>3. k \in EntriesOf(s) => S # DOMAIN s
  BY DEF EntriesOf
<1> HIDE DEF S
<1> QED BY <1>1, <1>2, <1>3, PickedOrdered

\* A key that is used last, with or without an entry that goes for it: insert().
LEMMA InsertIs ==
  ASSUME NEW at \in [MemoKey -> Nat], NEW size \in Nat \ {0}, NEW c, Usable(c, at, size),
         NEW k \in MemoKey, NEW w \in Nat, \A x \in MemoKey : at[x] < w, NEW expiry \in Nat
  PROVE  Usable(Insert(c, k, expiry, size), [at EXCEPT ![k] = w], size)
<1> DEFINE s == c.order
           e == c.expiry
           next == Insert(c, k, expiry, size)
<1>0. /\ s \in Seq(MemoKey) /\ Len(s) <= size /\ e \in [MemoKey -> Nat]
      /\ Ordered(s, at) /\ next = Insert(Cached(s, e), k, expiry, size)
  BY DEF Usable
<1> HIDE DEF s, e, next
<1> DEFINE kept == IF Contains(s, k) THEN Without(s, k) ELSE IF Len(s) >= size THEN Tail(s) ELSE s
<1>1. next = Cached(Append(kept, k), [e EXCEPT ![k] = expiry])
  BY <1>0 DEF Insert, Cached
<1>2. next.order = Append(kept, k) /\ next.expiry = [e EXCEPT ![k] = expiry]
      /\ next = Cached(next.order, next.expiry)
  <2> DEFINE s2 == Append(kept, k)
             e2 == [e EXCEPT ![k] = expiry]
  <2>1. next = Cached(s2, e2)
    BY <1>1
  <2> HIDE DEF s2, e2
  <2>2. next.order = s2 /\ next.expiry = e2 /\ next = Cached(next.order, next.expiry)
    BY <2>1, CachedIs
  <2> QED BY <2>2 DEF s2, e2
<1>3. Contains(s, k) <=> k \in EntriesOf(s)
  BY <1>0 DEF Contains, EntriesOf
<1>4. kept \in Seq(MemoKey) /\ Len(kept) < size /\ Ordered(kept, at) /\ k \notin EntriesOf(kept)
  <2>0. Len(s) \in Nat
    BY <1>0
  <2>1. CASE Contains(s, k)
    <3>1. kept = Without(s, k)
      BY <2>1
    <3>2. Without(s, k) \in Seq(MemoKey) /\ Len(Without(s, k)) < Len(s)
          /\ Ordered(Without(s, k), at) /\ k \notin EntriesOf(Without(s, k))
      BY <1>0, <1>3, <2>1, WithoutIs
    <3>3. Len(Without(s, k)) \in Nat
      BY <3>2
    <3> QED BY <1>0, <1>3, <2>0, <2>1, <3>1, <3>2, <3>3
  <2>2. CASE ~Contains(s, k) /\ Len(s) >= size
    <3>1. kept = Tail(s) /\ Len(s) = size /\ s # <<>>
      BY <1>0, <2>0, <2>2
    <3>2. /\ Tail(s) \in Seq(MemoKey) /\ Len(Tail(s)) = Len(s) - 1 /\ DOMAIN Tail(s) = 1 .. Len(s) - 1
          /\ \A i \in 1 .. Len(s) - 1 : Tail(s)[i] = s[i + 1] /\ i + 1 \in DOMAIN s
      BY <1>0, <3>1
    <3>3. Ordered(Tail(s), at)
      <4> SUFFICES ASSUME NEW i \in 1 .. Len(s) - 1, NEW j \in 1 .. Len(s) - 1, i < j
                   PROVE  at[Tail(s)[i]] < at[Tail(s)[j]]
        BY <3>2 DEF Ordered
      <4>1. i + 1 < j + 1 /\ i + 1 \in DOMAIN s /\ j + 1 \in DOMAIN s
        BY <2>0, <3>2
      <4> QED BY <1>0, <3>2, <4>1 DEF Ordered
    <3>4. k \notin EntriesOf(Tail(s))
      BY <1>3, <2>2, <3>2 DEF EntriesOf
    <3>5. Len(Tail(s)) < size
      BY <2>0, <3>1, <3>2
    <3> HIDE DEF kept
    <3> QED BY <3>1, <3>2, <3>3, <3>4, <3>5
  <2>3. CASE ~Contains(s, k) /\ ~(Len(s) >= size)
    BY <1>0, <1>3, <2>0, <2>3
  <2> QED BY <2>1, <2>2, <2>3
<1> HIDE DEF kept
<1>5. Append(kept, k) \in Seq(MemoKey) /\ Len(Append(kept, k)) = Len(kept) + 1
      /\ Ordered(Append(kept, k), [at EXCEPT ![k] = w])
  BY <1>4, LastUsed
<1>6. Len(kept) \in Nat
  BY <1>4
<1>7. Len(Append(kept, k)) <= size
  BY <1>4, <1>5, <1>6
<1>8. [e EXCEPT ![k] = expiry] \in [MemoKey -> Nat]
  BY <1>0
<1> QED BY <1>2, <1>5, <1>7, <1>8 DEF Usable, next

\* The states between the entries of a snapshot.
Filled(c, e, size) == IF date >= e.expiry THEN c ELSE Insert(c, e.key, e.expiry, size)
FilledStates(h, cached, entries, size) ==
    h[0] = cached /\ \A i \in 1 .. Len(entries) : h[i] = Filled(h[i - 1], entries[i], size)

LEMMA HydratedStates ==
  ASSUME NEW cached, NEW entries, Len(entries) \in Nat, NEW size
  PROVE  \E h : /\ FilledStates(h, cached, entries, size)
                /\ Hydrated(cached, entries, size) = h[Len(entries)]
<1> DEFINE n == Len(entries)
           Def(g, i) == IF i = 0 THEN cached
                        ELSE IF date >= entries[i].expiry THEN g[i - 1]
                        ELSE Insert(g[i - 1], entries[i].key, entries[i].expiry, size)
           T == {k \in Nat : \E g : g = [i \in 0 .. k |-> Def(g, i)]}
           It == CHOOSE g : g = [i \in 0 .. n |-> Def(g, i)]
<1>1. Hydrated(cached, entries, size) = It[n]
  BY DEF Hydrated
<1>2. 0 \in T
  <2>1. 0 .. 0 = {0}
    OBVIOUS
  <2>2. [i \in {0} |-> cached] = [i \in {0} |-> Def([j \in {0} |-> cached], i)]
    OBVIOUS
  <2> QED BY <2>1, <2>2
<1>3. ASSUME NEW k \in 0 .. n - 1, k \in T PROVE k + 1 \in T
  <2>1. PICK g : g = [i \in 0 .. k |-> Def(g, i)]
    BY <1>3
  <2> DEFINE g2 == [i \in 0 .. k + 1 |-> Def(g, i)]
  <2>2. ASSUME NEW i \in 0 .. k + 1 PROVE Def(g, i) = Def(g2, i)
    <3>1. CASE i = 0
      BY <3>1
    <3>2. CASE i # 0
      <4>1. i - 1 \in 0 .. k /\ i - 1 \in 0 .. k + 1
        BY <3>2
      <4>2. g[i - 1] = Def(g, i - 1) /\ g2[i - 1] = Def(g, i - 1)
        <5> HIDE DEF Def
        <5> QED BY <2>1, <4>1
      <4>3. g[i - 1] = g2[i - 1]
        BY <4>2
      <4> HIDE DEF g2
      <4> QED BY <3>2, <4>3
    <3> QED BY <3>1, <3>2
  <2>3. g2 = [i \in 0 .. k + 1 |-> Def(g2, i)]
    <3> HIDE DEF Def
    <3> QED BY <2>2
  <2> HIDE DEF Def, g2
  <2> QED BY <2>3
<1>4. n \in T
  <2> HIDE DEF T
  <2>1. 0 .. n \subseteq T
    BY <1>2, <1>3, UpTo
  <2> QED BY <2>1
<1>5. It = [i \in 0 .. n |-> Def(It, i)]
  <2> HIDE DEF Def
  <2> QED BY <1>4
<1> HIDE DEF It
<1>6. It[0] = cached
  BY <1>5
<1>7. ASSUME NEW i \in 1 .. n PROVE It[i] = Filled(It[i - 1], entries[i], size)
  <2>1. i \in 0 .. n /\ i # 0
    OBVIOUS
  <2>2. It[i] = Def(It, i)
    <3> HIDE DEF Def
    <3> QED BY <1>5, <2>1
  <2> QED BY <2>1, <2>2 DEF Filled
<1>8. FilledStates(It, cached, entries, size)
  BY <1>6, <1>7 DEF FilledStates
<1> QED BY <1>1, <1>8

-----------------------------------------------------------------------------
(* A step of the cache                                                     *)

LEMMA MemoStarts == ASSUME MemoInit PROVE MemoInv
BY MemoAssumption DEF MemoInit, MemoInv, Ordered, NoExpiry

\* hydrate() uses the keys of the snapshot in its order.
LEMMA HydrateKeeps ==
  ASSUME MemoInv, Hydrate
  PROVE  MemoInv'
<1> DEFINE n == Len(snapshot)
           UsedBy(i) == [k \in MemoKey |->
                           IF \E j \in 1 .. i : snapshot[j].key = k /\ date < snapshot[j].expiry
                           THEN uses + Position(k) ELSE usedAt[k]]
<1>1. /\ n \in Nat /\ DOMAIN snapshot = 1 .. n /\ uses \in Nat /\ date \in Nat
      /\ \A i \in 1 .. n : snapshot[i].key \in MemoKey /\ snapshot[i].expiry \in Nat
  <2>1. snapshot \in Seq(SnapshotEntry) /\ uses \in Nat /\ date \in Nat
    BY DEF MemoInv
  <2>2. \A i \in 1 .. n : snapshot[i] \in SnapshotEntry
    BY <2>1
  <2> QED BY <2>1, <2>2, EntryIs
<1>2. ASSUME NEW i \in 1 .. n PROVE Position(snapshot[i].key) = i
  <2>1. \A j \in DOMAIN snapshot : snapshot[j].key = snapshot[i].key <=> j = i
    BY <1>1 DEF MemoInv
  <2> QED BY <1>1, <2>1 DEF Position
<1>3. \A k \in MemoKey : usedAt[k] \in Nat /\ usedAt[k] <= uses
  BY <1>1 DEF MemoInv
<1>4. ASSUME NEW i \in 0 .. n
      PROVE  /\ UsedBy(i) \in [MemoKey -> Nat]
             /\ \A k \in MemoKey : UsedBy(i)[k] <= uses + i
  <2> SUFFICES ASSUME NEW k \in MemoKey
               PROVE  UsedBy(i)[k] \in Nat /\ UsedBy(i)[k] <= uses + i
    OBVIOUS
  <2>1. CASE \E j \in 1 .. i : snapshot[j].key = k /\ date < snapshot[j].expiry
    <3>1. PICK j \in 1 .. i : snapshot[j].key = k /\ date < snapshot[j].expiry
      BY <2>1
    <3>2. Position(k) = j /\ j \in Nat /\ j <= i
      BY <1>1, <1>2, <3>1
    <3>3. UsedBy(i)[k] = uses + Position(k)
      BY <2>1
    <3> QED BY <1>1, <3>2, <3>3
  <2>2. CASE ~ \E j \in 1 .. i : snapshot[j].key = k /\ date < snapshot[j].expiry
    <3>1. UsedBy(i)[k] = usedAt[k]
      BY <2>2
    <3> QED BY <1>1, <1>3, <3>1
  <2> QED BY <2>1, <2>2
<1>5. PICK h : /\ FilledStates(h, Cached(store, expiresAt), snapshot, MemoSize)
               /\ Hydrated(Cached(store, expiresAt), snapshot, MemoSize) = h[n]
  BY <1>1, HydratedStates
<1>6. Usable(h[0], UsedBy(0), MemoSize)
  <2>1. UsedBy(0) = usedAt
    <3>1. usedAt = [k \in MemoKey |-> usedAt[k]]
      BY DEF MemoInv
    <3>2. \A k \in MemoKey : UsedBy(0)[k] = usedAt[k]
      OBVIOUS
    <3> QED BY <3>1, <3>2
  <2>2. h[0] = Cached(store, expiresAt)
    BY <1>5 DEF FilledStates
  <2> HIDE DEF UsedBy
  <2>3. h[0].order = store /\ h[0].expiry = expiresAt /\ h[0] = Cached(h[0].order, h[0].expiry)
    BY <2>2, CachedIs
  <2> QED BY <2>1, <2>3 DEF MemoInv, Usable
<1>7. ASSUME NEW i \in 0 .. n - 1, Usable(h[i], UsedBy(i), MemoSize) PROVE Usable(h[i + 1], UsedBy(i + 1), MemoSize)
  <2> DEFINE c == h[i]
             k == snapshot[i + 1].key
             expiry == snapshot[i + 1].expiry
  <2>1. /\ i + 1 \in 1 .. n /\ i \in 0 .. n /\ (i + 1) - 1 = i /\ i \in Nat
        /\ k \in MemoKey /\ expiry \in Nat
    BY <1>1
  <2>2. h[i + 1] = IF date >= expiry THEN c ELSE Insert(c, k, expiry, MemoSize)
    <3>1. h[i + 1] = Filled(h[(i + 1) - 1], snapshot[i + 1], MemoSize)
      BY <1>5, <2>1, ZenonT(30) DEF FilledStates
    <3> QED BY <2>1, <3>1 DEF Filled
  <2>3. Position(k) = i + 1
    BY <1>2, <2>1
  <2>4. ASSUME NEW x \in MemoKey, x # k \/ date >= expiry
        PROVE  UsedBy(i + 1)[x] = UsedBy(i)[x]
    <3>1. (\E j \in 1 .. i + 1 : snapshot[j].key = x /\ date < snapshot[j].expiry)
          <=> \E j \in 1 .. i : snapshot[j].key = x /\ date < snapshot[j].expiry
      <4>1. ASSUME NEW j \in 1 .. i + 1, snapshot[j].key = x, date < snapshot[j].expiry
            PROVE  j \in 1 .. i
        <5>1. j # i + 1
          BY <1>1, <2>1, <2>4, <4>1
        <5> QED BY <2>1, <5>1
      <4>2. \A j \in 1 .. i : j \in 1 .. i + 1
        BY <2>1
      <4> QED BY <4>1, <4>2
    <3> QED BY <3>1
  <2>5. CASE date >= expiry
    <3>1. UsedBy(i + 1) = UsedBy(i)
      BY <2>4, <2>5
    <3>2. h[i + 1] = h[i]
      BY <2>2, <2>5
    <3> HIDE DEF UsedBy
    <3> QED BY <1>7, <3>1, <3>2
  <2>6. CASE ~(date >= expiry)
    <3>1. UsedBy(i + 1)[k] = uses + i + 1
      <4>1. date < expiry
        BY <1>1, <2>1, <2>6
      <4>2. \E j \in 1 .. i + 1 : snapshot[j].key = k /\ date < snapshot[j].expiry
        BY <2>1, <4>1
      <4>3. UsedBy(i + 1)[k] = uses + Position(k)
        BY <2>1, <4>2
      <4> HIDE DEF UsedBy, k
      <4> QED BY <1>1, <2>1, <2>3, <4>3
    <3>2. UsedBy(i + 1) = [UsedBy(i) EXCEPT ![k] = uses + i + 1]
      <4>1. \A x \in MemoKey : x # k => UsedBy(i + 1)[x] = UsedBy(i)[x]
        BY <2>4
      <4>2. UsedBy(i + 1) = [x \in MemoKey |-> UsedBy(i + 1)[x]]
            /\ UsedBy(i) = [x \in MemoKey |-> UsedBy(i)[x]]
        OBVIOUS
      <4> HIDE DEF UsedBy
      <4> QED BY <3>1, <4>1, <4>2
    <3>3. h[i + 1] = Insert(c, k, expiry, MemoSize)
      BY <2>2, <2>6
    <3>4. UsedBy(i) \in [MemoKey -> Nat] /\ \A x \in MemoKey : UsedBy(i)[x] < uses + i + 1
      <4>1. /\ UsedBy(i) \in [MemoKey -> Nat]
            /\ \A x \in MemoKey : UsedBy(i)[x] <= uses + i
        BY <1>4, <2>1
      <4> HIDE DEF UsedBy
      <4> QED BY <1>1, <2>1, <4>1
    <3> HIDE DEF UsedBy, c, k, expiry
    <3>5. Usable(Insert(c, k, expiry, MemoSize), [UsedBy(i) EXCEPT ![k] = uses + i + 1], MemoSize)
      <4>1. uses + i + 1 \in Nat /\ MemoSize \in Nat \ {0}
        BY <1>1, <2>1, MemoAssumption
      <4>2. Usable(c, UsedBy(i), MemoSize)
        BY <1>7 DEF c
      <4> DEFINE at == UsedBy(i)
                 w == uses + i + 1
      <4>3. at \in [MemoKey -> Nat] /\ w \in Nat /\ \A x \in MemoKey : at[x] < w
        BY <3>4, <4>1
      <4> HIDE DEF at, w
      <4>4. Usable(Insert(c, k, expiry, MemoSize), [at EXCEPT ![k] = w], MemoSize)
        <5>1. Usable(c, at, MemoSize)
          BY <4>2 DEF at
        <5> QED BY <2>1, <4>1, <4>3, <5>1, InsertIs
      <4> QED BY <4>4 DEF at, w
    <3> QED BY <3>2, <3>3, <3>5
  <2> QED BY <2>5, <2>6
<1>8. Usable(h[n], UsedBy(n), MemoSize)
  <2> DEFINE S == {i \in 0 .. n : Usable(h[i], UsedBy(i), MemoSize)}
  <2> HIDE DEF UsedBy
  <2>1. 0 \in S /\ \A i \in 0 .. n - 1 : i \in S => i + 1 \in S
    BY <1>1, <1>6, <1>7
  <2> HIDE DEF S
  <2>2. 0 .. n \subseteq S
    BY <1>1, <2>1, UpTo
  <2>3. n \in S
    BY <1>1, <2>2
  <2> QED BY <2>3 DEF S
<1>9. UsedBy(n) = usedAt'
  BY <1>1 DEF Hydrate
<1>10. /\ store' = h[n].order /\ expiresAt' = h[n].expiry /\ uses' = uses + n
       /\ snapshot' = <<>> /\ date' = date
  BY <1>5 DEF Hydrate
<1>11. usedAt' \in [MemoKey -> 0 .. uses']
  <2>1. /\ UsedBy(n) \in [MemoKey -> Nat]
        /\ \A k \in MemoKey : UsedBy(n)[k] <= uses + n
    BY <1>1, <1>4
  <2> HIDE DEF UsedBy
  <2>2. \A k \in MemoKey : UsedBy(n)[k] \in 0 .. uses + n
    BY <1>1, <2>1
  <2> QED BY <1>9, <1>10, <2>1, <2>2
<1> HIDE DEF UsedBy
<1> QED BY <1>1, <1>8, <1>9, <1>10, <1>11 DEF MemoInv, Usable

\* A key that is used by itself is used last.
LEMMA UsedLast ==
  ASSUME MemoInv, NEW k \in MemoKey, Use(k)
  PROVE  /\ usedAt \in [MemoKey -> Nat] /\ uses + 1 \in Nat
         /\ \A x \in MemoKey : usedAt[x] < uses + 1
         /\ usedAt' = [usedAt EXCEPT ![k] = uses + 1]
         /\ uses' \in Nat /\ usedAt' \in [MemoKey -> 0 .. uses']
<1>1. uses \in Nat /\ usedAt \in [MemoKey -> 0 .. uses] /\ uses' = uses + 1
      /\ usedAt' = [usedAt EXCEPT ![k] = uses + 1]
  BY DEF MemoInv, Use
<1>2. \A x \in MemoKey : usedAt[x] \in Nat /\ usedAt[x] <= uses
  BY <1>1
<1>3. 0 .. uses \subseteq 0 .. uses + 1 /\ uses + 1 \in 0 .. uses + 1 /\ 0 .. uses \subseteq Nat
  BY <1>1
<1>4. usedAt \in [MemoKey -> Nat] /\ \A x \in MemoKey : usedAt[x] < uses + 1
  BY <1>1, <1>2
<1>5. usedAt' \in [MemoKey -> 0 .. uses + 1]
  BY <1>1, <1>3
<1> QED BY <1>1, <1>4, <1>5

LEMMA SetKeeps ==
  ASSUME MemoInv, NEW k \in MemoKey, NEW ttl \in {0, MemoTtl}, Set(k, ttl)
  PROVE  MemoInv'
<1> DEFINE expiry == IF ttl = 0 THEN NoExpiry ELSE date + ttl
<1>1. expiry \in Nat /\ MemoSize \in Nat \ {0}
  BY MemoAssumption DEF MemoInv, NoExpiry
<1>2. Use(k)
  BY DEF Set
<1>3. /\ usedAt \in [MemoKey -> Nat] /\ uses + 1 \in Nat
      /\ \A x \in MemoKey : usedAt[x] < uses + 1
      /\ usedAt' = [usedAt EXCEPT ![k] = uses + 1]
      /\ uses' \in Nat /\ usedAt' \in [MemoKey -> 0 .. uses']
  BY <1>2, UsedLast
<1> HIDE DEF expiry
<1> DEFINE next == Insert(Cached(store, expiresAt), k, expiry, MemoSize)
<1>4. store' = next.order /\ expiresAt' = next.expiry /\ UNCHANGED <<date, snapshot>>
  BY DEF Set, expiry
<1>6. Usable(next, [usedAt EXCEPT ![k] = uses + 1], MemoSize)
  <2>1. /\ store \in Seq(MemoKey) /\ Len(store) <= MemoSize
        /\ expiresAt \in [MemoKey -> Nat] /\ Ordered(store, usedAt)
    BY DEF MemoInv
  <2> DEFINE c == Cached(store, expiresAt)
  <2>2. c.order = store /\ c.expiry = expiresAt /\ c = Cached(c.order, c.expiry)
    <3> HIDE DEF c
    <3> QED BY CachedIs DEF c
  <2> HIDE DEF c
  <2>3. Usable(c, usedAt, MemoSize)
    BY <2>1, <2>2 DEF Usable
  <2>4. Usable(Insert(c, k, expiry, MemoSize), [usedAt EXCEPT ![k] = uses + 1], MemoSize)
    BY <1>1, <1>3, <2>3, InsertIs
  <2> QED BY <2>4 DEF c
<1> HIDE DEF next
<1> QED BY <1>3, <1>4, <1>6 DEF MemoInv, Usable

LEMMA GetKeeps ==
  ASSUME MemoInv, NEW k \in MemoKey, Get(k)
  PROVE  MemoInv'
<1>1. usedAt \in [MemoKey -> Nat]
  BY DEF MemoInv
<1>2. /\ Without(store, k) \in Seq(MemoKey) /\ Len(Without(store, k)) <= Len(store)
      /\ Ordered(Without(store, k), usedAt)
      /\ k \notin EntriesOf(Without(store, k))
      /\ k \in EntriesOf(store) => Len(Without(store, k)) < Len(store)
  BY <1>1, WithoutIs DEF MemoInv
<1>3. Len(store) \in Nat /\ Len(Without(store, k)) \in Nat /\ MemoSize \in Nat
  BY <1>2, MemoAssumption DEF MemoInv
<1>4. k \in EntriesOf(store)
  BY DEF Get, Contains, EntriesOf
<1>5. CASE IsExpired(k)
  <2>1. store' = Without(store, k) /\ UNCHANGED <<uses, usedAt, expiresAt, date, snapshot>>
    BY <1>5 DEF Get
  <2>2. Len(store') <= MemoSize
    BY <1>2, <1>3, <2>1 DEF MemoInv
  <2> QED BY <1>2, <2>1, <2>2 DEF MemoInv
<1>6. CASE ~IsExpired(k)
  <2>1. store' = Append(Without(store, k), k) /\ Use(k) /\ UNCHANGED <<expiresAt, date, snapshot>>
    BY <1>6 DEF Get
  <2>2. /\ uses + 1 \in Nat /\ \A x \in MemoKey : usedAt[x] < uses + 1
        /\ usedAt' = [usedAt EXCEPT ![k] = uses + 1]
        /\ uses' \in Nat /\ usedAt' \in [MemoKey -> 0 .. uses']
    BY <2>1, UsedLast
  <2>3. /\ store' \in Seq(MemoKey) /\ Len(store') = Len(Without(store, k)) + 1
        /\ Ordered(store', usedAt')
    BY <1>1, <1>2, <2>1, <2>2, LastUsed
  <2>4. Len(store') <= MemoSize
    BY <1>2, <1>3, <1>4, <2>3 DEF MemoInv
  <2> QED BY <2>1, <2>2, <2>3, <2>4 DEF MemoInv
<1> QED BY <1>5, <1>6

\* What has not expired, and what serialize() writes of it.
LEMMA LiveIs ==
  ASSUME MemoInv
  PROVE  /\ Live \in Seq(MemoKey) /\ Len(Live) \in Nat /\ Len(Live) <= MemoSize
         /\ \A i, j \in DOMAIN Live : Live[i] = Live[j] => i = j
         /\ Serialized \in Seq(SnapshotEntry) /\ Len(Serialized) = Len(Live)
         /\ \A i \in 1 .. Len(Live) : /\ Serialized[i].key = Live[i]
                                      /\ ~(date >= Serialized[i].expiry)
<1> DEFINE S == {i \in DOMAIN store : ~IsExpired(store[i])}
<1>1. usedAt \in [MemoKey -> Nat] /\ store \in Seq(MemoKey) /\ Len(store) \in Nat
      /\ MemoSize \in Nat
  BY MemoAssumption DEF MemoInv
<1>2. /\ Live \in Seq(MemoKey) /\ Len(Live) <= Len(store)
      /\ Ordered(Live, usedAt)
      /\ EntriesOf(Live) = {store[i] : i \in S}
  <2>1. S \in SUBSET DOMAIN store /\ Live = Picked(store, S)
    BY DEF Live
  <2> HIDE DEF S
  <2> QED BY <1>1, <2>1, PickedOrdered DEF MemoInv
<1>3. Len(Live) \in Nat /\ DOMAIN Live = 1 .. Len(Live)
  BY <1>2
<1>4. \A i, j \in DOMAIN Live : Live[i] = Live[j] => i = j
  BY <1>1, <1>2, HeldOnce
<1>5. ASSUME NEW i \in 1 .. Len(Live)
      PROVE  Live[i] \in MemoKey /\ ~(date >= expiresAt[Live[i]]) /\ expiresAt[Live[i]] \in Nat
  <2>1. Live[i] \in EntriesOf(Live)
    BY <1>3 DEF EntriesOf
  <2>2. PICK p \in S : Live[i] = store[p]
    BY <1>2, <2>1
  <2>3. ~IsExpired(Live[i])
    BY <2>2
  <2> QED BY <1>2, <2>3 DEF IsExpired, MemoInv
<1>6. Serialized = [i \in 1 .. Len(Live) |-> [key |-> Live[i], expiry |-> expiresAt[Live[i]]]]
  BY <1>3 DEF Serialized
<1>7. /\ Serialized \in Seq(SnapshotEntry) /\ Len(Serialized) = Len(Live)
      /\ \A i \in 1 .. Len(Live) : Serialized[i] = [key |-> Live[i], expiry |-> expiresAt[Live[i]]]
  <2>1. \A i \in 1 .. Len(Live) : [key |-> Live[i], expiry |-> expiresAt[Live[i]]] \in SnapshotEntry
    BY <1>5 DEF SnapshotEntry
  <2> QED BY <1>3, <1>6, <2>1
<1>8. Len(Live) <= MemoSize
  BY <1>1, <1>2, <1>3 DEF MemoInv
<1>9. \A i \in 1 .. Len(Live) : /\ Serialized[i].key = Live[i]
                                /\ ~(date >= Serialized[i].expiry)
  <2> SUFFICES ASSUME NEW i \in 1 .. Len(Live)
               PROVE  Serialized[i].key = Live[i] /\ ~(date >= Serialized[i].expiry)
    OBVIOUS
  <2>1. Serialized[i] = [key |-> Live[i], expiry |-> expiresAt[Live[i]]]
    BY <1>7
  <2>2. Serialized[i].key = Live[i] /\ Serialized[i].expiry = expiresAt[Live[i]]
    BY <2>1
  <2> QED BY <1>5, <2>2
<1> QED BY <1>2, <1>3, <1>4, <1>7, <1>8, <1>9, Zenon

LEMMA MemoStep ==
  ASSUME MemoInv, [MemoNext]_memoVars
  PROVE  MemoInv'
<1>1. CASE \E k \in MemoKey : Get(k) \/ \E ttl \in {0, MemoTtl} : Set(k, ttl)
  BY <1>1, GetKeeps, SetKeeps
<1>2. CASE ClearMemo
  <2>1. store' = <<>> /\ UNCHANGED <<expiresAt, date, snapshot, uses, usedAt>>
    BY <1>2 DEF ClearMemo
  <2>2. store' \in Seq(MemoKey) /\ Len(store') <= MemoSize /\ Ordered(store', usedAt')
    BY <2>1, MemoAssumption DEF Ordered
  <2> QED BY <2>1, <2>2 DEF MemoInv
<1>3. CASE Serialize
  <2>1. snapshot' = Serialized /\ UNCHANGED <<store, expiresAt, date, uses, usedAt>>
    BY <1>3 DEF Serialize
  <2>2. /\ Serialized \in Seq(SnapshotEntry)
        /\ \A i, j \in DOMAIN Serialized : Serialized[i].key = Serialized[j].key => i = j
    BY LiveIs
  <2> QED BY <2>1, <2>2 DEF MemoInv
<1>4. CASE Hydrate
  BY <1>4, HydrateKeeps
<1>5. CASE MemoTick
  BY <1>5, MemoAssumption DEF MemoTick, MemoInv
<1>6. CASE UNCHANGED memoVars
  BY <1>6 DEF memoVars, MemoInv
<1> QED BY <1>1, <1>2, <1>3, <1>4, <1>5, <1>6 DEF MemoNext

\* A snapshot read back at once fills a new cache with the same keys.
LEMMA RestoredIs ==
  ASSUME MemoInv
  PROVE  Hydrated(Cached(<<>>, [k \in MemoKey |-> NoExpiry]), Serialized, MemoSize).order = Live
<1> DEFINE n == Len(Live)
           reborn == Cached(<<>>, [k \in MemoKey |-> NoExpiry])
           Good(c, i) == /\ c.order \in Seq(MemoKey) /\ Len(c.order) = i
                         /\ c.expiry \in [MemoKey -> Nat] /\ c = Cached(c.order, c.expiry)
                         /\ \A j \in 1 .. i : c.order[j] = Live[j]
<1>1. /\ Live \in Seq(MemoKey) /\ n \in Nat /\ n <= MemoSize /\ DOMAIN Live = 1 .. n
      /\ \A i, j \in 1 .. n : Live[i] = Live[j] => i = j
      /\ Len(Serialized) = n /\ DOMAIN Serialized = 1 .. n /\ MemoSize \in Nat \ {0}
      /\ \A i \in 1 .. n : /\ Serialized[i].key = Live[i] /\ Serialized[i].expiry \in Nat
                           /\ ~(date >= Serialized[i].expiry)
  <2>1. /\ Live \in Seq(MemoKey) /\ Len(Live) \in Nat /\ Len(Live) <= MemoSize
        /\ \A i, j \in DOMAIN Live : Live[i] = Live[j] => i = j
        /\ Serialized \in Seq(SnapshotEntry) /\ Len(Serialized) = Len(Live)
        /\ \A i \in 1 .. Len(Live) : /\ Serialized[i].key = Live[i]
                                     /\ ~(date >= Serialized[i].expiry)
    BY LiveIs, Zenon
  <2>2. DOMAIN Live = 1 .. n /\ DOMAIN Serialized = 1 .. n
    BY <2>1
  <2>3. \A i \in 1 .. n : Serialized[i] \in SnapshotEntry
    BY <2>1, <2>2
  <2>4. \A i \in 1 .. n : Serialized[i].expiry \in Nat
    BY <2>3, EntryIs
  <2>5. MemoSize \in Nat \ {0}
    BY MemoAssumption
  <2> QED BY <2>1, <2>2, <2>4, <2>5
<1>2. PICK h : /\ FilledStates(h, reborn, Serialized, MemoSize)
               /\ Hydrated(reborn, Serialized, MemoSize) = h[n]
  BY <1>1, HydratedStates
<1>3. Good(h[0], 0)
  <2>1. h[0] = reborn
    BY <1>2 DEF FilledStates
  <2>2. NoExpiry \in Nat
    BY MemoAssumption DEF NoExpiry
  <2> QED BY <2>1, <2>2 DEF Cached
<1>4. ASSUME NEW i \in 0 .. n - 1, Good(h[i], i) PROVE Good(h[i + 1], i + 1)
  <2> DEFINE c == h[i]
             k == Live[i + 1]
             expiry == Serialized[i + 1].expiry
             none == [x \in MemoKey |-> 0]
  <2>1. i + 1 \in 1 .. n /\ (i + 1) - 1 = i /\ i \in Nat /\ k \in MemoKey /\ expiry \in Nat
    BY <1>1
  <2>2. h[i + 1] = Insert(Cached(c.order, c.expiry), k, expiry, MemoSize)
    <3>1. h[i + 1] = Filled(h[(i + 1) - 1], Serialized[i + 1], MemoSize)
      BY <1>1, <1>2, <2>1, ZenonT(30) DEF FilledStates
    <3> QED BY <1>1, <1>4, <2>1, <3>1 DEF Filled
  <2>3. ~Contains(c.order, k) /\ ~(Len(c.order) >= MemoSize)
    <3>1. ASSUME NEW j \in 1 .. i PROVE c.order[j] # k
      <4>1. j \in 1 .. n /\ j # i + 1
        BY <1>1, <2>1
      <4> QED BY <1>1, <1>4, <2>1, <4>1
    <3> QED BY <1>1, <1>4, <2>1, <3>1 DEF Contains
  <2>4. h[i + 1] = Cached(Append(c.order, k), [c.expiry EXCEPT ![k] = expiry])
    <3> HIDE DEF c, k, expiry
    <3> QED BY <2>2, <2>3 DEF Insert, Cached
  <2>5. h[i + 1].order = Append(c.order, k) /\ h[i + 1].expiry = [c.expiry EXCEPT ![k] = expiry]
        /\ h[i + 1] = Cached(h[i + 1].order, h[i + 1].expiry)
    <3> HIDE DEF c, k, expiry
    <3> QED BY <2>4 DEF Cached
  <2>6. /\ c.order \in Seq(MemoKey) /\ Len(c.order) = i /\ c.expiry \in [MemoKey -> Nat]
        /\ \A j \in 1 .. i : c.order[j] = Live[j]
    BY <1>4
  <2> HIDE DEF c
  <2>7. /\ Append(c.order, k) \in Seq(MemoKey) /\ Len(Append(c.order, k)) = i + 1
        /\ \A j \in 1 .. i : Append(c.order, k)[j] = c.order[j]
        /\ Append(c.order, k)[i + 1] = k
    BY <2>1, <2>6
  <2>8. ASSUME NEW j \in 1 .. i + 1 PROVE Append(c.order, k)[j] = Live[j]
    <3>1. j \in 1 .. i \/ j = i + 1
      BY <2>1
    <3> QED BY <2>6, <2>7, <3>1
  <2>9. [c.expiry EXCEPT ![k] = expiry] \in [MemoKey -> Nat]
    BY <2>1, <2>6
  <2> HIDE DEF k, expiry
  <2> QED BY <2>5, <2>7, <2>8, <2>9
<1>5. Good(h[n], n)
  <2> DEFINE S == {i \in 0 .. n : Good(h[i], i)}
  <2> HIDE DEF Good
  <2>1. 0 \in S /\ \A i \in 0 .. n - 1 : i \in S => i + 1 \in S
    BY <1>1, <1>3, <1>4
  <2> HIDE DEF S
  <2>2. 0 .. n \subseteq S
    BY <1>1, <2>1, UpTo
  <2>3. n \in S
    BY <1>1, <2>2
  <2> QED BY <2>3 DEF S
<1>6. h[n].order \in Seq(MemoKey) /\ Len(h[n].order) = Len(Live)
      /\ \A j \in 1 .. Len(Live) : h[n].order[j] = Live[j]
  BY <1>5
<1>7. h[n].order = Live
  BY <1>1, <1>6, SeqEqual
<1> QED BY <1>2, <1>7

\* What is evicted next is what was used longest ago, the cache holds no more
\* than it may, and a snapshot restores its keys in the order of eviction, for
\* any number of keys and entries and any time to live: LruMemoCache's get(),
\* set(), serialize() and hydrate().
THEOREM MemoAlways == MemoSpec => []MemoExact
<1>1. MemoInit => MemoInv
  BY MemoStarts
<1>2. MemoInv /\ [MemoNext]_memoVars => MemoInv'
  BY MemoStep
<1>3. MemoInv => MemoExact
  <2> SUFFICES ASSUME MemoInv PROVE MemoExact
    OBVIOUS
  <2> QED BY RestoredIs DEF MemoExact, MemoInv, Ordered
<1> QED BY <1>1, <1>2, <1>3, PTL DEF MemoSpec
=============================================================================
