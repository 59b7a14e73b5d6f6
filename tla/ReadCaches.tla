----------------------------- MODULE ReadCaches -----------------------------
(***************************************************************************)
(* What the modules remember of their reads: the ledger info and the token *)
(* decimals (src/soroban.ts), the configuration of the governor and of the *)
(* factory (src/governor.ts, src/factory.ts), the stream infos and the     *)
(* caller's address (src/streams.ts), the stream addresses                 *)
(* (src/factory.ts), over coalesceAsync() and coalesceInFlight()           *)
(* (src/coalesce-async.ts).                                                *)
(*                                                                         *)
(* One key of one of these caches, read by concurrent calls.  The node     *)
(* reads the value at some moment of a request, and its answers come in    *)
(* any order or not at all.  The reactions to a promise run before the     *)
(* next event, so a fetch and all who wait for it settle in one step.      *)
(***************************************************************************)
EXTENDS Naturals

CONSTANTS
    ReaderCount,        \* calls, numbered in the order in which they are made
    Ttl,                \* of the entries that expire
    MaxVersion,         \* bound: changes of the value
    MaxClock,           \* bound: ticks
    MaxClears           \* bound: clear...() and setWallet()

ASSUME CachesAssumption ==
    /\ {ReaderCount, Ttl, MaxVersion, MaxClock, MaxClears} \subseteq Nat
    /\ Ttl > 0

VARIABLES
    kind,               \* which of the caches
    version, endedAt,   \* the value now; history: when each version was replaced
    now, clears,
    call,               \* of a reader: idle, fetching, joined or done
    joined,             \* the fetch a reader waits for
    askedAt,            \* when it called
    seen,               \* what the node read for its fetch, if it did
    got,                \* what it was answered
    entry,              \* the cached value, the moment it expires
    flight,             \* the promise in the map of those in flight, or NoReader
    newest              \* history: the last fetch since the map was cleared

timeVars == <<version, endedAt, now, clears>>
cacheVars == <<kind, timeVars, call, joined, askedAt, seen, got, entry, flight, newest>>

\* A fetch is named after the call that started it.
Reader == 1 .. ReaderCount
NoReader == 0

Kind == {"ledger", "config", "decimals", "info", "address", "caller"}
Coalesced == kind \in {"config", "decimals", "info"}

\* The streamAddress() of a stream that does not exist is version 0, and null.
Version == 0 .. MaxVersion
Nothing == MaxVersion + 1       \* not read, not answered
Failure == MaxVersion + 2
NoEntry == [value |-> Nothing, until |-> 0]
Forever == MaxClock + 1

CachesInit ==
    /\ kind \in Kind
    /\ version = 0
    /\ endedAt = [v \in Version |-> Forever]
    /\ now = 0 /\ clears = 0
    /\ call = [r \in Reader |-> "idle"]
    /\ joined = [r \in Reader |-> NoReader]
    /\ askedAt = [r \in Reader |-> 0]
    /\ seen = [r \in Reader |-> Nothing]
    /\ got = [r \in Reader |-> Nothing]
    /\ entry = NoEntry
    /\ flight = NoReader
    /\ newest = NoReader

-----------------------------------------------------------------------------
(* Ways a call may go.                                                     *)

Calls(r, k) ==
    /\ kind = k /\ call[r] = "idle" /\ \A q \in 1 .. r - 1 : call[q] # "idle"
    /\ askedAt' = [askedAt EXCEPT ![r] = now]

Hit(r) ==
    /\ call' = [call EXCEPT ![r] = "done"]
    /\ got' = [got EXCEPT ![r] = entry.value]
    /\ UNCHANGED <<joined, seen, flight, newest>>

Fetch(r) ==
    /\ call' = [call EXCEPT ![r] = "fetching"]
    /\ joined' = [joined EXCEPT ![r] = r]
    /\ UNCHANGED <<seen, got>>

\* coalesceAsync() and coalesceInFlight(): the promise in the map, or a new one.
Coalesce(r) ==
    IF flight # NoReader /\ call[flight] = "done"   \* a promise that has resolved
    THEN /\ call' = [call EXCEPT ![r] = "done"]
         /\ got' = [got EXCEPT ![r] = got[flight]]
         /\ UNCHANGED <<joined, seen, flight, newest>>
    ELSE IF flight # NoReader
    THEN /\ call' = [call EXCEPT ![r] = "joined"]
         /\ joined' = [joined EXCEPT ![r] = flight]
         /\ UNCHANGED <<seen, got, flight, newest>>
    ELSE /\ Fetch(r)
         /\ flight' = r
         /\ newest' = r

Fresh == entry # NoEntry /\ now < entry.until

-----------------------------------------------------------------------------
(* The calls.                                                              *)

\* The calls in flight are not shared.
GetLatestLedgerInfo(r) ==
    /\ Calls(r, "ledger")
    /\ IF Fresh THEN Hit(r) ELSE Fetch(r) /\ UNCHANGED <<flight, newest>>
    /\ UNCHANGED <<kind, timeVars, entry>>

\* getConfig() of the governor; the factory's is the same with two reads.
GetConfig(r) ==
    /\ Calls(r, "config")
    /\ IF Fresh THEN Hit(r) ELSE Coalesce(r)
    /\ UNCHANGED <<kind, timeVars, entry>>

\* The promise itself is the cache.
GetTokenDecimals(r) ==
    /\ Calls(r, "decimals")
    /\ Coalesce(r)
    /\ UNCHANGED <<kind, timeVars, entry>>

GetInfo(r) ==
    /\ Calls(r, "info")
    /\ Coalesce(r)
    /\ UNCHANGED <<kind, timeVars, entry>>

\* get() with a signal is not shared.
GetInfoWithSignal(r) ==
    /\ Calls(r, "info")
    /\ Fetch(r)
    /\ UNCHANGED <<kind, timeVars, entry, flight, newest>>

\* An address stays for good, a null until it expires.
StreamAddress(r) ==
    /\ Calls(r, "address")
    /\ IF Fresh
       THEN Hit(r) /\ UNCHANGED entry
       ELSE Fetch(r) /\ entry' = NoEntry /\ UNCHANGED <<flight, newest>>
    /\ UNCHANGED <<kind, timeVars>>

\* _resolveCallerAddress(): getPublicKey() of the wallet that is set.
ResolveCallerAddress(r) ==
    /\ Calls(r, "caller")
    /\ IF entry # NoEntry
       THEN Hit(r)
       ELSE /\ call' = [call EXCEPT ![r] = "fetching"]
            /\ joined' = [joined EXCEPT ![r] = r]
            /\ seen' = [seen EXCEPT ![r] = version]
            /\ UNCHANGED <<got, flight, newest>>
    /\ UNCHANGED <<kind, timeVars, entry>>

-----------------------------------------------------------------------------
(* The answers.                                                            *)

NodeReads(r) ==
    /\ call[r] = "fetching" /\ seen[r] = Nothing
    /\ seen' = [seen EXCEPT ![r] = version]
    /\ UNCHANGED <<kind, timeVars, call, joined, askedAt, got, entry, flight, newest>>

\* The fetch of r settles with the answer v, for itself and those who joined it.
SettleFetch(r, v) ==
    LET waiting == {q \in Reader : joined[q] = r /\ call[q] # "done"}
    IN  /\ call' = [q \in Reader |-> IF q \in waiting THEN "done" ELSE call[q]]
        /\ got' = [q \in Reader |-> IF q \in waiting THEN v ELSE got[q]]

Arrives(r, k) ==
    /\ kind = k /\ call[r] = "fetching" /\ seen[r] # Nothing
    /\ SettleFetch(r, seen[r])
    /\ UNCHANGED <<kind, timeVars, joined, askedAt, seen, newest>>

Store(v, until) == entry' = [value |-> v, until |-> until]

\* A mistake for the runs to notice: the time to live starts with the answer.
LedgerStampedLate(r) ==
    /\ Arrives(r, "ledger")
    /\ Store(seen[r], now + Ttl)
    /\ UNCHANGED flight

\* cachedAt is the moment of the call; whatever the cache holds is overwritten.
LedgerArrives(r) ==
    /\ Arrives(r, "ledger")
    /\ Store(seen[r], askedAt[r] + Ttl)
    /\ UNCHANGED flight

\* Stored first; then the callers go on, and the promise leaves the map.
ConfigArrives(r) ==
    /\ Arrives(r, "config")
    /\ Store(seen[r], now + Ttl)
    /\ flight' = NoReader

DecimalsArrive(r) == Arrives(r, "decimals") /\ UNCHANGED <<entry, flight>>

InfoArrives(r) ==
    /\ Arrives(r, "info")
    /\ flight' = IF flight = r THEN NoReader ELSE flight
    /\ UNCHANGED entry

\* _cacheNegative() overwrites an address that was found meanwhile.
AddressArrives(r) ==
    /\ Arrives(r, "address")
    /\ Store(seen[r], IF seen[r] = 0 THEN now + Ttl ELSE Forever)
    /\ UNCHANGED flight

CallerArrives(r) ==
    /\ Arrives(r, "caller")
    /\ Store(seen[r], Forever)
    /\ UNCHANGED flight

\* Nothing is stored, and a promise that rejects leaves the map if it is still
\* the one the map holds.
FetchFails(r) ==
    /\ call[r] = "fetching"
    /\ SettleFetch(r, Failure)
    /\ flight' = IF flight = r THEN NoReader ELSE flight
    /\ UNCHANGED <<kind, timeVars, joined, askedAt, seen, entry, newest>>

-----------------------------------------------------------------------------
(* Clearing, and the world outside.                                        *)

\* clearLedgerInfoCache(), clearConfigCache(), clearAddressCache(): what is in
\* flight goes on, and is stored when it arrives.
ClearEntry ==
    /\ kind \in {"ledger", "config", "address"} /\ clears < MaxClears
    /\ clears' = clears + 1
    /\ entry' = NoEntry
    /\ UNCHANGED <<kind, version, endedAt, now, call, joined, askedAt, seen, got, flight, newest>>

\* clearTokenDecimalsCache() forgets the promises in flight, too.
ClearDecimals ==
    /\ kind = "decimals" /\ clears < MaxClears
    /\ clears' = clears + 1
    /\ flight' = NoReader
    /\ newest' = NoReader
    /\ UNCHANGED <<kind, version, endedAt, now, call, joined, askedAt, seen, got, entry>>

NewVersion ==
    /\ version < MaxVersion
    /\ version' = version + 1
    /\ endedAt' = [endedAt EXCEPT ![version] = now]

\* Decimals never change, and a stream that exists keeps its address.
ValueChanges ==
    /\ kind \in {"ledger", "config", "info"} \/ (kind = "address" /\ version = 0)
    /\ NewVersion
    /\ UNCHANGED <<kind, now, clears, call, joined, askedAt, seen, got, entry, flight, newest>>

\* setWallet() drops the address; a getPublicKey() under way stores its own later.
ReplaceWallet ==
    /\ kind = "caller" /\ clears < MaxClears
    /\ NewVersion
    /\ clears' = clears + 1
    /\ entry' = NoEntry
    /\ UNCHANGED <<kind, now, call, joined, askedAt, seen, got, flight, newest>>

CacheTick ==
    /\ now < MaxClock /\ kind \in {"ledger", "config", "address"}
    /\ now' = now + 1
    /\ UNCHANGED <<kind, version, endedAt, clears, call, joined, askedAt, seen, got, entry, flight, newest>>

CacheCall(r) ==
    \/ GetLatestLedgerInfo(r) \/ GetConfig(r) \/ GetTokenDecimals(r) \/ GetInfo(r)
    \/ GetInfoWithSignal(r) \/ StreamAddress(r) \/ ResolveCallerAddress(r)

CacheAnswer(r) ==
    \/ NodeReads(r) \/ LedgerArrives(r) \/ ConfigArrives(r) \/ DecimalsArrive(r)
    \/ InfoArrives(r) \/ AddressArrives(r) \/ CallerArrives(r) \/ FetchFails(r)

CachesNext ==
    \/ \E r \in Reader : CacheCall(r) \/ CacheAnswer(r)
    \/ ClearEntry \/ ClearDecimals \/ ValueChanges \/ ReplaceWallet \/ CacheTick

CachesSpec == CachesInit /\ [][CachesNext]_cacheVars

-----------------------------------------------------------------------------
(* Properties                                                              *)

\* The time to live of the ledger info bounds its age, however late answers are,
\* in whichever order they come and whenever the cache is cleared: what a call
\* is answered was the latest ledger less than Ttl before the call, or after it.
LedgerInfoAge ==
    kind = "ledger" =>
        \A r \in Reader : got[r] \in Version => endedAt[got[r]] + Ttl > askedAt[r]

\* Calls share what is in flight, and a failure is not shared with later calls:
\* the map holds the last fetch since it was cleared as long as that is under
\* way, and never a promise that has rejected.
FlightExact ==
    Coalesced =>
        /\ newest # NoReader /\ call[newest] = "fetching" => flight = newest
        /\ flight # NoReader => got[flight] # Failure
        /\ kind # "decimals" /\ flight # NoReader => call[flight] = "fetching"

\* What the caches answer is neither too old nor somebody else's failure.
CachesHonest == LedgerInfoAge /\ FlightExact
=============================================================================
