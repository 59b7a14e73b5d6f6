---------------------------- MODULE LruMemoCache ----------------------------
(***************************************************************************)
(* LruMemoCache of src/lru-memo-cache.ts: a Map in the order of last use,  *)
(* the times of expiry, and the snapshots that one process leaves to the   *)
(* next.  Values and the hit counters are left out.                        *)
(***************************************************************************)
EXTENDS Naturals, Sequences, FiniteSets, SequencesExt, Selections

CONSTANTS
    MemoKey,
    MemoSize,           \* maxEntries
    MemoTtl,            \* ttlMs of the entries that have one
    MemoClock,          \* bound: ticks
    MaxUses             \* bound: uses of the cache

\* A time to live is positive, which the code checks; that a cache is meant to
\* hold an entry it does not, and holds one when maxEntries is zero.
ASSUME MemoAssumption ==
    /\ {MemoSize, MemoTtl} \subseteq Nat \ {0}
    /\ {MemoClock, MaxUses} \subseteq Nat

NoExpiry == MemoClock + MemoTtl + 1     \* null

VARIABLES
    store,              \* keys, the one used longest ago first
    expiresAt,          \* of a key
    date,
    snapshot,           \* what serialize() wrote: entries, in the order of the store
    uses, usedAt        \* history: uses made; of a key, the last of them

memoVars == <<store, expiresAt, date, snapshot, uses, usedAt>>

MemoInit ==
    /\ store = <<>>
    /\ expiresAt = [k \in MemoKey |-> NoExpiry]
    /\ date = 0
    /\ snapshot = <<>>
    /\ uses = 0
    /\ usedAt = [k \in MemoKey |-> 0]

IsExpired(k) == date >= expiresAt[k]

\* The store and the expiry times as a pair, so that entries can be inserted
\* one after the other.
Cached(s, e) == [order |-> s, expiry |-> e]

\* remove(): the others, in their order.
Without(s, k) == Picked(s, {i \in DOMAIN s : s[i] # k})

\* insert(): a key that is there moves to the end, otherwise the first one goes
\* when the cache is full.
Insert(cached, k, expiry, size) ==
    LET kept == IF Contains(cached.order, k) THEN Without(cached.order, k)
                ELSE IF Len(cached.order) >= size THEN Tail(cached.order) ELSE cached.order
    IN  Cached(Append(kept, k), [cached.expiry EXCEPT ![k] = expiry])

Use(k) ==
    /\ uses < MaxUses
    /\ uses' = uses + 1
    /\ usedAt' = [usedAt EXCEPT ![k] = uses + 1]

Set(k, ttl) ==
    /\ Use(k)
    /\ LET next == Insert(Cached(store, expiresAt), k,
                          IF ttl = 0 THEN NoExpiry ELSE date + ttl, MemoSize)
       IN  store' = next.order /\ expiresAt' = next.expiry
    /\ UNCHANGED <<date, snapshot>>

\* A mistake for the runs to notice: a hit does not refresh the position.
GetInPlace(k) ==
    /\ Contains(store, k)
    /\ IF IsExpired(k)
       THEN store' = Without(store, k) /\ UNCHANGED <<uses, usedAt>>
       ELSE Use(k) /\ UNCHANGED store
    /\ UNCHANGED <<expiresAt, date, snapshot>>

\* An entry past its time is dropped, one that is found moves to the end.
Get(k) ==
    /\ Contains(store, k)
    /\ IF IsExpired(k)
       THEN store' = Without(store, k) /\ UNCHANGED <<uses, usedAt>>
       ELSE store' = Append(Without(store, k), k) /\ Use(k)
    /\ UNCHANGED <<expiresAt, date, snapshot>>

ClearMemo ==
    /\ store # <<>>
    /\ store' = <<>>
    /\ UNCHANGED <<expiresAt, date, snapshot, uses, usedAt>>

\* serialize(): what has not expired.
Live == Picked(store, {i \in DOMAIN store : ~IsExpired(store[i])})

Serialized ==
    [i \in DOMAIN Live |-> [key |-> Live[i], expiry |-> expiresAt[Live[i]]]]

Serialize ==
    /\ snapshot = <<>> /\ Serialized # <<>>
    /\ snapshot' = Serialized
    /\ UNCHANGED <<store, expiresAt, date, uses, usedAt>>

\* hydrate(): the entries of a snapshot that have not expired, one by one.
Hydrated(cached, entries, size) ==
    LET filled[i \in 0 .. Len(entries)] ==
            IF i = 0 THEN cached
            ELSE IF date >= entries[i].expiry THEN filled[i - 1]
            ELSE Insert(filled[i - 1], entries[i].key, entries[i].expiry, size)
    IN  filled[Len(entries)]

Position(k) == CHOOSE i \in DOMAIN snapshot : snapshot[i].key = k

Hydrate ==
    /\ snapshot # <<>> /\ uses + Len(snapshot) <= MaxUses
    /\ LET next == Hydrated(Cached(store, expiresAt), snapshot, MemoSize)
       IN  store' = next.order /\ expiresAt' = next.expiry
    /\ uses' = uses + Len(snapshot)
    /\ usedAt' = [k \in MemoKey |->
                    IF \E i \in DOMAIN snapshot : snapshot[i].key = k /\ date < snapshot[i].expiry
                    THEN uses + Position(k) ELSE usedAt[k]]
    /\ snapshot' = <<>>
    /\ UNCHANGED date

MemoTick ==
    /\ date < MemoClock
    /\ date' = date + 1
    /\ UNCHANGED <<store, expiresAt, snapshot, uses, usedAt>>

MemoNext ==
    \/ \E k \in MemoKey : Get(k) \/ \E ttl \in {0, MemoTtl} : Set(k, ttl)
    \/ ClearMemo \/ Serialize \/ Hydrate \/ MemoTick

MemoSpec == MemoInit /\ [][MemoNext]_memoVars

-----------------------------------------------------------------------------
\* What is evicted next is what was used longest ago, whichever of set(), get()
\* and hydrate() used it, the cache never holds more than maxEntries, and a
\* snapshot of it restores the same keys in the same order of eviction.
MemoExact ==
    /\ Len(store) <= MemoSize
    /\ \A i, j \in DOMAIN store : i < j => usedAt[store[i]] < usedAt[store[j]]
    /\ LET reborn == Cached(<<>>, [k \in MemoKey |-> NoExpiry])
       IN  Hydrated(reborn, Serialized, MemoSize).order = Live
=============================================================================
