--------------------------- MODULE SseSubscription ---------------------------
(***************************************************************************)
(* subscribe() of the GraphQL indexer where there is no WebSocket: a fetch *)
(* whose body is a stream of server-sent events (src/indexer.ts).  Chunks  *)
(* cut the text anywhere, so what follows the last line break waits in the *)
(* buffer.  The fetch is not made again when it ends.                      *)
(***************************************************************************)
EXTENDS Naturals, Sequences, SequencesExt

CONSTANTS
    Lines               \* bound: lines the server sends, the last "[DONE]"

ASSUME SseAssumption == Lines \in Nat \ {0}

VARIABLES
    sent,               \* half lines the server has written: line k is 2k-1 and 2k
    received,           \* half lines in chunks that have been read
    ssePhase,           \* "fetching", "reading", "dispatching", "over"
    toDispatch,         \* lines of the chunk in hand
    sseStopped, sseAborted,
    passed              \* onData(): lines, in order

sseVars == <<sent, received, ssePhase, toDispatch, sseStopped, sseAborted, passed>>

SseInit ==
    /\ sent = 0 /\ received = 0
    /\ ssePhase = "fetching"
    /\ toDispatch = <<>>
    /\ sseStopped = FALSE /\ sseAborted = FALSE
    /\ passed = <<>>

ServerWrites ==
    /\ sent < 2 * Lines
    /\ sent' = sent + 1
    /\ UNCHANGED <<received, ssePhase, toDispatch, sseStopped, sseAborted, passed>>

\* The response: an error ends the subscription, which nobody takes off the
\* list of active ones.
SseResponds(ok) ==
    /\ ssePhase = "fetching"
    /\ ssePhase' = IF ok /\ ~sseStopped THEN "reading" ELSE "over"
    /\ UNCHANGED <<sent, received, toDispatch, sseStopped, sseAborted, passed>>

\* A mistake for the runs to notice: every chunk is taken for whole lines.
ChunkWithoutBuffer(upTo) ==
    /\ ssePhase = "reading" /\ upTo \in received + 1 .. sent
    /\ received' = upTo
    /\ toDispatch' = [k \in 1 .. ((upTo + 1) \div 2) - ((received + 1) \div 2) |-> ((received + 1) \div 2) + k]
    /\ ssePhase' = "dispatching"
    /\ UNCHANGED <<sent, sseStopped, sseAborted, passed>>

\* reader.read() resolves: the lines that are complete are in hand, the rest of
\* the text stays in the buffer.
ChunkRead(upTo) ==
    /\ ssePhase = "reading" /\ upTo \in received + 1 .. sent
    /\ received' = upTo
    /\ toDispatch' = [k \in 1 .. (upTo \div 2) - (received \div 2) |-> (received \div 2) + k]
    /\ ssePhase' = "dispatching"
    /\ UNCHANGED <<sent, sseStopped, sseAborted, passed>>

\* One line after another to onData(), which may unsubscribe; "[DONE]" ends the
\* chunk and not the subscription.
LineDispatched ==
    /\ ssePhase = "dispatching" /\ toDispatch # <<>>
    /\ IF Head(toDispatch) = Lines
       THEN toDispatch' = <<>> /\ UNCHANGED passed
       ELSE /\ toDispatch' = Tail(toDispatch)
            /\ passed' = Append(passed, Head(toDispatch))
    /\ UNCHANGED <<sent, received, ssePhase, sseStopped, sseAborted>>

ChunkDispatched ==
    /\ ssePhase = "dispatching" /\ toDispatch = <<>>
    /\ ssePhase' = IF sseStopped THEN "over" ELSE "reading"
    /\ UNCHANGED <<sent, received, toDispatch, sseStopped, sseAborted, passed>>

\* The server closes, or the read is aborted, which is not reported.
ReadEnds ==
    /\ ssePhase = "reading" /\ (sseAborted \/ sent = received)
    /\ ssePhase' = "over"
    /\ UNCHANGED <<sent, received, toDispatch, sseStopped, sseAborted, passed>>

\* unsubscribe() or cleanup(), also from within onData().
SseUnsubscribe ==
    /\ ~sseStopped
    /\ sseStopped' = TRUE /\ sseAborted' = TRUE
    /\ UNCHANGED <<sent, received, ssePhase, toDispatch, passed>>

SseNext ==
    \/ ServerWrites \/ \E ok \in BOOLEAN : SseResponds(ok)
    \/ \E upTo \in 1 .. 2 * Lines : ChunkRead(upTo)
    \/ LineDispatched \/ ChunkDispatched \/ ReadEnds \/ SseUnsubscribe

SseSpec == SseInit /\ [][SseNext]_sseVars

-----------------------------------------------------------------------------
\* However the text is cut into chunks: lines are passed whole, once and in
\* order, none before all of it was read, and "[DONE]" never.
LinesExact ==
    /\ passed = [k \in 1 .. Len(passed) |-> k]
    /\ 2 * Len(passed) <= received
    /\ Len(passed) < Lines
=============================================================================
