--------------------------- MODULE ConduitBatcher ---------------------------
(***************************************************************************)
(* ConduitBatcher.executeAsync() of src/builder.ts: a queue of batches and *)
(* the loop processQueue() that builds them chunk by chunk.                *)
(*                                                                         *)
(* The loop gives way only while buildBatchTransactions() is awaited.      *)
(* cleanup() lets a new batch start a second loop beside a suspended one.  *)
(* The operations fill their chunks, and nobody else uses the account.     *)
(***************************************************************************)
EXTENDS Naturals, Sequences, FiniteSets, SequencesExt

CONSTANTS
    Batch,              \* calls of executeAsync()
    MaxChunks           \* bound: chunks of a batch

ASSUME BatcherAssumption == MaxChunks \in Nat \ {0}

VARIABLES
    chunks,             \* chunks of a batch, 0 when the batch is not valid
    batchQueue,
    building,           \* the batch each suspended loop is building
    built,              \* chunks built so far
    answer,             \* what the promise of a batch resolved to
    atHead,             \* a loop runs, at the head of its while statement
    processingBatch, batcherDestroyed,
    cancelled,          \* batches whose signal has aborted
    cleanedQueue        \* history: cleanup(), destroy() or reset() ran

batcherVars == <<chunks, batchQueue, building, built, answer, atHead,
                 processingBatch, batcherDestroyed, cancelled, cleanedQueue>>

BatcherInit ==
    /\ chunks \in [Batch -> 0 .. MaxChunks]
    /\ batchQueue = <<>>
    /\ building = {}
    /\ built = [b \in Batch |-> 0]
    /\ answer = [b \in Batch |-> "none"]
    /\ atHead = FALSE
    /\ processingBatch = FALSE /\ batcherDestroyed = FALSE
    /\ cancelled = {} /\ cleanedQueue = FALSE

Known(b) == Contains(batchQueue, b) \/ b \in building \/ answer[b] # "none"

Resolve(b, value) == answer' = [answer EXCEPT ![b] = value]

\* A mistake for the runs to notice: a loop is started beside the one that runs.
ExecuteBeside(b) ==
    /\ ~atHead /\ ~Known(b) /\ built[b] = 0 /\ ~batcherDestroyed
    /\ batchQueue' = Append(batchQueue, b)
    /\ atHead' = TRUE
    /\ processingBatch' = TRUE
    /\ UNCHANGED <<chunks, building, built, answer, batcherDestroyed, cancelled, cleanedQueue>>

ExecuteAsync(b) ==
    /\ ~atHead /\ ~Known(b) /\ built[b] = 0
    /\ IF batcherDestroyed
       THEN Resolve(b, "refused") /\ UNCHANGED <<batchQueue, atHead, processingBatch>>
       ELSE /\ batchQueue' = Append(batchQueue, b)
            /\ atHead' = ~processingBatch
            /\ processingBatch' = TRUE
            /\ UNCHANGED answer
    /\ UNCHANGED <<chunks, building, built, batcherDestroyed, cancelled, cleanedQueue>>

\* The head of the while statement: batches that need no building are answered
\* in place, and the loop suspends at the first chunk of another.
TakeBatch ==
    /\ atHead
    /\ IF batchQueue = <<>> \/ batcherDestroyed
       THEN /\ processingBatch' = FALSE
            /\ atHead' = FALSE
            /\ UNCHANGED <<batchQueue, building, answer>>
       ELSE LET b == Head(batchQueue)
            IN  /\ batchQueue' = Tail(batchQueue)
                /\ UNCHANGED processingBatch
                /\ IF b \in cancelled \/ chunks[b] = 0
                   THEN /\ Resolve(b, IF b \in cancelled THEN "aborted" ELSE "invalid")
                        /\ UNCHANGED <<atHead, building>>
                   ELSE /\ building' = building \cup {b}
                        /\ atHead' = FALSE
                        /\ UNCHANGED answer
    /\ UNCHANGED <<chunks, built, batcherDestroyed, cancelled, cleanedQueue>>

LeaveChunks(b) == building' = building \ {b} /\ atHead' = TRUE

\* The chunk is built and onProgress() is called, which may abort the signal:
\* then nothing answers a batch whose last chunk this was.
ChunkBuilt(b) ==
    /\ ~atHead /\ b \in building
    /\ built' = [built EXCEPT ![b] = @ + 1]
    /\ \/ b \in cancelled /\ Resolve(b, "aborted") /\ LeaveChunks(b) /\ UNCHANGED cancelled
       \/ /\ b \notin cancelled /\ UNCHANGED cancelled
          /\ IF built'[b] < chunks[b]
             THEN UNCHANGED <<building, atHead, answer>>
             ELSE Resolve(b, "success") /\ LeaveChunks(b)
       \/ /\ b \notin cancelled /\ cancelled' = cancelled \cup {b}
          /\ IF built'[b] < chunks[b] THEN Resolve(b, "aborted") ELSE UNCHANGED answer
          /\ LeaveChunks(b)
    /\ UNCHANGED <<chunks, batchQueue, processingBatch, batcherDestroyed, cleanedQueue>>

ChunkFails(b) ==
    /\ ~atHead /\ b \in building
    /\ Resolve(b, "failed")
    /\ LeaveChunks(b)
    /\ UNCHANGED <<chunks, batchQueue, built, processingBatch, batcherDestroyed, cancelled, cleanedQueue>>

AbortBatch(b) ==
    /\ ~atHead /\ b \notin cancelled /\ Known(b) /\ answer[b] = "none"
    /\ cancelled' = cancelled \cup {b}
    /\ UNCHANGED <<chunks, batchQueue, building, built, answer, atHead,
                   processingBatch, batcherDestroyed, cleanedQueue>>

\* A mistake for the runs to notice: the queue is dropped without an answer.
DropQueue(destroyed) ==
    /\ ~atHead
    /\ processingBatch' = FALSE
    /\ batcherDestroyed' = destroyed
    /\ batchQueue' = <<>>
    /\ cleanedQueue' = TRUE
    /\ UNCHANGED <<chunks, building, built, answer, atHead, cancelled>>

\* cleanup(), and with it destroy() and reset(): the flag is cleared although a
\* loop may be suspended.
CleanupBatcher(destroyed) ==
    /\ ~atHead
    /\ processingBatch' = FALSE
    /\ batcherDestroyed' = destroyed
    /\ answer' = [b \in Batch |-> IF Contains(batchQueue, b) THEN "cleaned up" ELSE answer[b]]
    /\ batchQueue' = <<>>
    /\ cleanedQueue' = TRUE
    /\ UNCHANGED <<chunks, building, built, atHead, cancelled>>

BatcherStep == TakeBatch \/ \E b \in Batch : ChunkBuilt(b) \/ ChunkFails(b)

BatcherNext ==
    \/ BatcherStep
    \/ \E b \in Batch : ExecuteAsync(b) \/ AbortBatch(b)
    \/ \E destroyed \in BOOLEAN : CleanupBatcher(destroyed)

BatcherSpec == BatcherInit /\ [][BatcherNext]_batcherVars

-----------------------------------------------------------------------------
\* A loop is there for every batch that waits, however often the flag was reset
\* under a suspended loop, and as long as it was not there is one loop only.
QueueServed ==
    ~atHead =>
        /\ batchQueue # <<>> => building # {}
        /\ ~cleanedQueue => (processingBatch <=> building # {}) /\ Cardinality(building) <= 1

\* executeAsync() resolves, whatever is aborted, cleaned up or destroyed; only a
\* signal that aborts inside the last onProgress() leaves its batch without answer.
BatchesAnswered ==
    \A b \in Batch : Contains(batchQueue, b) ~> answer[b] # "none" \/ b \in cancelled
=============================================================================
