-------------------------- MODULE StreamsBatchRead --------------------------
(***************************************************************************)
(* getStreamsBatch() of src/client.ts and getStreamInfos() of              *)
(* src/streams.ts: many streams read in chunks, one chunk after the other, *)
(* with a bound on the reads in flight within a chunk.  A read that fails  *)
(* is reported and fails nothing else.                                     *)
(***************************************************************************)
EXTENDS PagedReads

CONSTANTS
    StreamId,
    MaxIds              \* bound: ids of a call

ASSUME BatchReadAssumption == MaxIds \in Nat \ {0}

VARIABLES
    asked,              \* streamIds
    chunkSize, maxConcurrency,
    chunkStart,         \* i of getStreamsBatch()
    nextRead,           \* the next id a worker takes
    readsFlying, readOutcomes,
    gathered,           \* results and failures of the chunks so far
    batchReadStep       \* "idle", "delay", "reading", "over"

batchReadVars ==
    <<asked, chunkSize, maxConcurrency, chunkStart, nextRead, readsFlying, readOutcomes, gathered, batchReadStep>>

BatchReadInit ==
    /\ asked \in UNION {[1 .. n -> StreamId] : n \in 0 .. MaxIds}
    /\ chunkSize \in 1 .. MaxIds /\ maxConcurrency \in 1 .. 2
    /\ chunkStart = 0 /\ nextRead = 1
    /\ readsFlying = {} /\ readOutcomes = [i \in {} |-> "ok"]
    /\ gathered = [results |-> <<>>, failures |-> <<>>]
    /\ batchReadStep = "idle"

\* A Set keeps the order of the first occurrences.
Firsts == {k \in DOMAIN asked : \A j \in 1 .. k - 1 : asked[j] # asked[k]}
Unique == Picked(asked, Firsts)

ChunkEnd(start) == IF start + chunkSize < Len(Unique) THEN start + chunkSize ELSE Len(Unique)
Least(a, b) == IF a < b THEN a ELSE b

\* mapWithConcurrency() over the chunk: as many workers as may be.
OpenChunk(start) ==
    LET first == Least(ChunkEnd(start), start + maxConcurrency)
    IN  /\ chunkStart' = start
        /\ nextRead' = first + 1
        /\ readsFlying' = start + 1 .. first
        /\ readOutcomes' = [i \in {} |-> "ok"]
        /\ batchReadStep' = "reading"

BatchReadStarts ==
    /\ batchReadStep = "idle"
    /\ IF Len(Unique) = 0
       THEN batchReadStep' = "over" /\ UNCHANGED <<chunkStart, nextRead, readsFlying, readOutcomes>>
       ELSE OpenChunk(0)
    /\ UNCHANGED <<asked, chunkSize, maxConcurrency, gathered>>

ReadSettles(i) ==
    /\ i \in readsFlying
    /\ \E o \in {"ok", "failed"} :
          readOutcomes' = [j \in DOMAIN readOutcomes \cup {i} |-> IF j = i THEN o ELSE readOutcomes[j]]
    /\ IF nextRead <= ChunkEnd(chunkStart)
       THEN readsFlying' = (readsFlying \ {i}) \cup {nextRead} /\ nextRead' = nextRead + 1
       ELSE readsFlying' = readsFlying \ {i} /\ UNCHANGED nextRead
    /\ UNCHANGED <<asked, chunkSize, maxConcurrency, chunkStart, gathered, batchReadStep>>

\* The ids of the chunk with an outcome, in the order they were asked for.
Gathered(outcome) ==
    Picked(Unique, {k \in DOMAIN readOutcomes : readOutcomes[k] = outcome})

\* The pause between two chunks is a step of its own.
ChunkOver ==
    /\ batchReadStep = "reading" /\ readsFlying = {}
    /\ gathered' = [results |-> gathered.results \o Gathered("ok"),
                    failures |-> gathered.failures \o Gathered("failed")]
    /\ batchReadStep' = IF chunkStart + chunkSize < Len(Unique) THEN "delay" ELSE "over"
    /\ UNCHANGED <<asked, chunkSize, maxConcurrency, chunkStart, nextRead, readsFlying, readOutcomes>>

NextChunk ==
    /\ batchReadStep = "delay"
    /\ OpenChunk(chunkStart + chunkSize)
    /\ UNCHANGED <<asked, chunkSize, maxConcurrency, gathered>>

BatchReadNext ==
    \/ BatchReadStarts \/ ChunkOver \/ NextChunk
    \/ \E i \in 1 .. MaxIds : ReadSettles(i)

BatchReadSpec == BatchReadInit /\ [][BatchReadNext]_batchReadVars

-----------------------------------------------------------------------------
\* However the reads are answered: no more than maxConcurrency are in flight, and
\* in the end every id that was asked for is in the results or in the failures,
\* once however often it was named, both in the order of the first occurrences.
BatchReadExact ==
    LET Place(id) == CHOOSE k \in DOMAIN Unique : Unique[k] = id
        InOrder(ids) == \A j, k \in DOMAIN ids : j < k => Place(ids[j]) < Place(ids[k])
    IN  /\ Cardinality(readsFlying) <= maxConcurrency
        /\ InOrder(gathered.results) /\ InOrder(gathered.failures)
        /\ batchReadStep = "over" =>
              /\ {asked[k] : k \in DOMAIN asked} =
                    {gathered.results[k] : k \in DOMAIN gathered.results}
                      \cup {gathered.failures[k] : k \in DOMAIN gathered.failures}
              /\ Len(gathered.results) + Len(gathered.failures) = Cardinality({asked[k] : k \in DOMAIN asked})

\* What is read piece by piece is read whole: page by page, or chunk by chunk.
ReadWhole == WalkExact /\ BatchReadExact
=============================================================================
