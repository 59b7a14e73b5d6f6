------------------------- MODULE StreamBuilderQueue -------------------------
(***************************************************************************)
(* StreamBuilder.submit() of src/builder.ts: the queue of payloads, the    *)
(* semaphore that bounds the submissions under way, the retries with their *)
(* backoff timers, and cleanup() and reset(), which stop the timers.       *)
(*                                                                         *)
(* The fields of the builder are complete whenever submit() is called.     *)
(***************************************************************************)
EXTENDS Naturals, Sequences, FiniteSets, SequencesExt

CONSTANTS
    Payload,            \* calls of submit()
    Concurrency,        \* options.concurrency
    MaxQueueSize,       \* options.maxQueueSize
    MaxSubmitRetries    \* options.maxRetries

ASSUME BuilderAssumption ==
    /\ Concurrency \in Nat \ {0}
    /\ MaxQueueSize \in Nat \ {0}
    /\ MaxSubmitRetries \in Nat

VARIABLES
    stage,              \* the await a submission stands at
    tries, outcome,     \* its failed attempts, and how it settled
    signalled,          \* submissions whose signal has aborted
    pendingQueue,       \* payloads, shown by getPendingQueue()
    running, slotQueue, \* the semaphore
    activeTimers,       \* backoff timers
    isDestroyed,
    cleanedUp           \* history: cleanup() or reset() ran

semaphoreVars == <<running, slotQueue>>
builderVars == <<stage, tries, outcome, signalled, pendingQueue, semaphoreVars,
                 activeTimers, isDestroyed, cleanedUp>>

Outcomes == {"none", "refused", "sent", "failed", "aborted", "destroyed"}
Settled(s) == outcome[s] # "none"
HasSlot(s) == stage[s] \in {"ready", "calling", "backoff"}

BuilderInit ==
    /\ stage = [s \in Payload |-> "new"]
    /\ tries = [s \in Payload |-> 0]
    /\ outcome = [s \in Payload |-> "none"]
    /\ signalled = {}
    /\ pendingQueue = <<>>
    /\ running = 0 /\ slotQueue = <<>>
    /\ activeTimers = {}
    /\ isDestroyed = FALSE /\ cleanedUp = FALSE

\* acquire(): a free slot, or a place in the line.
Submit(s) ==
    /\ stage[s] = "new"
    /\ IF isDestroyed \/ s \in signalled \/ Len(pendingQueue) >= MaxQueueSize
       THEN /\ stage' = [stage EXCEPT ![s] = "settled"]
            /\ outcome' = [outcome EXCEPT ![s] = "refused"]
            /\ UNCHANGED <<pendingQueue, semaphoreVars>>
       ELSE /\ pendingQueue' = Append(pendingQueue, s)
            /\ UNCHANGED outcome
            /\ IF running < Concurrency
               THEN /\ running' = running + 1
                    /\ stage' = [stage EXCEPT ![s] = "ready"]
                    /\ UNCHANGED slotQueue
               ELSE /\ slotQueue' = Append(slotQueue, s)
                    /\ stage' = [stage EXCEPT ![s] = "waiting"]
                    /\ UNCHANGED running
    /\ UNCHANGED <<tries, signalled, activeTimers, isDestroyed, cleanedUp>>

\* A mistake for the runs to notice: the slot is freed beside being handed on.
FreeAndHandOn(s, answer) ==
    /\ outcome' = [outcome EXCEPT ![s] = answer]
    /\ pendingQueue' = Remove(pendingQueue, s)
    /\ running' = running - 1
    /\ IF slotQueue = <<>>
       THEN slotQueue' = <<>> /\ stage' = [stage EXCEPT ![s] = "settled"]
       ELSE /\ slotQueue' = Tail(slotQueue)
            /\ stage' = [stage EXCEPT ![s] = "settled", ![Head(slotQueue)] = "ready"]

\* The finally block: out of the queue, and the slot goes to the head of the line.
Release(s, answer) ==
    /\ outcome' = [outcome EXCEPT ![s] = answer]
    /\ pendingQueue' = Remove(pendingQueue, s)
    /\ IF slotQueue = <<>>
       THEN /\ running' = running - 1
            /\ stage' = [stage EXCEPT ![s] = "settled"]
            /\ UNCHANGED slotQueue
       ELSE /\ slotQueue' = Tail(slotQueue)
            /\ stage' = [stage EXCEPT ![s] = "settled", ![Head(slotQueue)] = "ready"]
            /\ UNCHANGED running

\* The head of the retry loop.
Attempt(s) ==
    /\ stage[s] = "ready"
    /\ IF isDestroyed THEN Release(s, "destroyed")
       ELSE IF s \in signalled THEN Release(s, "aborted")
       ELSE /\ stage' = [stage EXCEPT ![s] = "calling"]
            /\ UNCHANGED <<outcome, pendingQueue, semaphoreVars>>
    /\ UNCHANGED <<tries, signalled, activeTimers, isDestroyed, cleanedUp>>

SubmitFnResolves(s) ==
    /\ stage[s] = "calling"
    /\ Release(s, "sent")
    /\ UNCHANGED <<tries, signalled, activeTimers, isDestroyed, cleanedUp>>

SubmitFnRejects(s) ==
    /\ stage[s] = "calling"
    /\ IF s \in signalled
       THEN Release(s, "aborted") /\ UNCHANGED <<tries, activeTimers>>
       ELSE /\ tries' = [tries EXCEPT ![s] = @ + 1]
            /\ IF tries[s] = MaxSubmitRetries
               THEN Release(s, "failed") /\ UNCHANGED activeTimers
               ELSE /\ stage' = [stage EXCEPT ![s] = "backoff"]
                    /\ activeTimers' = activeTimers \cup {s}
                    /\ UNCHANGED <<outcome, pendingQueue, semaphoreVars>>
    /\ UNCHANGED <<signalled, isDestroyed, cleanedUp>>

BackoffFires(s) ==
    /\ s \in activeTimers
    /\ activeTimers' = activeTimers \ {s}
    /\ stage' = [stage EXCEPT ![s] = "ready"]
    /\ UNCHANGED <<tries, outcome, signalled, pendingQueue, semaphoreVars, isDestroyed, cleanedUp>>

\* The listener of a backoff rejects even when the timer is gone.
Signal(s) ==
    /\ s \notin signalled
    /\ signalled' = signalled \cup {s}
    /\ IF stage[s] = "backoff"
       THEN activeTimers' = activeTimers \ {s} /\ Release(s, "aborted")
       ELSE UNCHANGED <<activeTimers, stage, outcome, pendingQueue, semaphoreVars>>
    /\ UNCHANGED <<tries, isDestroyed, cleanedUp>>

\* cleanup(), destroy() and reset() forget the timers, not the submissions.
StopTimers(destroyed) ==
    /\ activeTimers' = {}
    /\ pendingQueue' = <<>>
    /\ isDestroyed' = destroyed
    /\ cleanedUp' = TRUE
    /\ UNCHANGED <<stage, tries, outcome, signalled, semaphoreVars>>

BuilderStep ==
    \E s \in Payload : Attempt(s) \/ SubmitFnResolves(s) \/ SubmitFnRejects(s) \/ BackoffFires(s)

BuilderNext ==
    \/ BuilderStep
    \/ \E s \in Payload : Submit(s) \/ Signal(s)
    \/ \E destroyed \in BOOLEAN : StopTimers(destroyed)

BuilderSpec == BuilderInit /\ [][BuilderNext]_builderVars

-----------------------------------------------------------------------------
\* The semaphore admits "concurrency" submissions at a time and keeps none
\* waiting beside a free slot, whichever of the ways out a submission takes.
SlotsExact ==
    /\ running = Cardinality({s \in Payload : HasSlot(s)})
    /\ running <= Concurrency
    /\ slotQueue # <<>> => running = Concurrency

\* submit() settles: unless cleanup() or reset() took a timer away from somebody,
\* every submission that was accepted is sent, failed or aborted.
SubmissionsSettle ==
    \A s \in Payload : stage[s] # "new" ~> Settled(s) \/ cleanedUp
=============================================================================
