--------------------------- MODULE HookMutations ---------------------------
(***************************************************************************)
(* A hook of packages/react that sends a transaction, its calls to the     *)
(* client overlapping with one another, with reset() and with a change of  *)
(* the stream it is mounted for.                                           *)
(*   "plain"       useStreamMutation and the hooks made from it,           *)
(*                 useBatchWithdraw, useCreateStream                       *)
(*   "optimistic"  usePauseStream, useResumeStream, useCancelStream: they  *)
(*                 show the outcome at once and put the snapshot of the    *)
(*                 call back when it fails                                 *)
(*   "clawback"    useClawbackStreamMutation: a call in flight is joined   *)
(*   "transfer"    useTransferStreamRecipient with its confirmation        *)
(*   "chunks"      useCreateBatchStreams, chunk after chunk                *)
(* Handlers run in the latest render; the stream is loaded by useStream.   *)
(***************************************************************************)
EXTENDS Naturals, Sequences, FiniteSets

CONSTANTS
    MutKey, NoMutKey,   \* stream ids, and none (or no client)
    Receiver, NoReceiver,
    MaxMutations,       \* bound on the calls
    ChunkTotal          \* chunks of a batch

ASSUME MutationConstants ==
    /\ NoMutKey \notin MutKey /\ NoReceiver \notin Receiver
    /\ {MaxMutations, ChunkTotal} \subseteq Nat \ {0}

VARIABLES
    form,       \* which hook it is
    mounted,    \* the stream it is mounted for
    calls,      \* of mutate(), oldest first
    told,       \* the state the component reads
    snapshot,   \* setStream() of useStream: whose stream, and as it was changed
    awaited,    \* useStream has asked for the stream
    inFlight,   \* inFlightRef.current: a call, or 0
    pendingRecipient,
    alone       \* history: since the stream was mounted, it was loaded before
                \* each call, and no call ran beside another or outlived a mount

mutationVars == <<form, mounted, calls, told, snapshot, awaited, inFlight, pendingRecipient, alone>>

Idle == [pending |-> FALSE, failed |-> FALSE, of |-> 0, clawed |-> FALSE]
Empty == [key |-> NoMutKey, changed |-> FALSE]

MutationsInit ==
    /\ form \in {"plain", "optimistic", "clawback", "transfer", "chunks"}
    /\ mounted = NoMutKey
    /\ calls = <<>> /\ told = Idle
    /\ snapshot = Empty /\ awaited = FALSE
    /\ inFlight = 0
    /\ pendingRecipient = NoReceiver
    /\ alone = TRUE

Running == {i \in DOMAIN calls : calls[i].at = "running"}

\* The stream changes; fetch() of useStream asks for it, or clears.
MountedFor(k) ==
    /\ k # mounted /\ mounted' = k
    /\ awaited' = (form = "optimistic" /\ k # NoMutKey)
    /\ snapshot' = IF k = NoMutKey THEN Empty ELSE snapshot
    /\ alone' = (Running = {})
    /\ UNCHANGED <<pendingRecipient, form, calls, told, inFlight>>

\* Only the answer to the latest request is taken.
StreamLoads ==
    /\ awaited /\ awaited' = FALSE
    /\ \/ snapshot' = [key |-> mounted,
                       changed |-> \E i \in DOMAIN calls : calls[i].key = mounted /\ calls[i].at = "done"]
          /\ UNCHANGED alone
       \/ UNCHANGED snapshot /\ alone' = FALSE   \* the request fails
    /\ UNCHANGED <<pendingRecipient, form, mounted, calls, told, inFlight>>

\* mutate() with nothing to act on
MutateRefused ==
    /\ mounted = NoMutKey
    /\ \/ form # "clawback" /\ told' = [Idle EXCEPT !.failed = TRUE]
       \/ form = "clawback" /\ inFlight = 0 /\ told' = [told EXCEPT !.failed = TRUE]
    /\ UNCHANGED <<pendingRecipient, form, mounted, calls, snapshot, awaited, inFlight, alone>>

Start(to) ==
    /\ mounted # NoMutKey /\ Len(calls) < MaxMutations
    /\ calls' = Append(calls, [key |-> mounted, at |-> "running", to |-> to,
                               previous |-> snapshot, chunk |-> 0])
    /\ told' = [Idle EXCEPT !.pending = TRUE, !.clawed = form = "clawback"]
    /\ alone' = (alone /\ Running = {} /\ ~awaited)
    /\ UNCHANGED <<form, mounted, awaited>>

\* A mistake for the runs to notice: clawback's mutate() does not join.
MutateTwice ==
    /\ Start(NoReceiver)
    /\ snapshot' = IF form = "optimistic" /\ snapshot # Empty
                   THEN [snapshot EXCEPT !.changed = TRUE] ELSE snapshot
    /\ inFlight' = IF form = "clawback" THEN Len(calls) + 1 ELSE inFlight
    /\ UNCHANGED pendingRecipient

Mutate ==
    /\ form # "clawback" \/ inFlight = 0
    /\ Start(NoReceiver)
    /\ snapshot' = IF form = "optimistic" /\ snapshot # Empty
                   THEN [snapshot EXCEPT !.changed = TRUE] ELSE snapshot
    /\ inFlight' = IF form = "clawback" THEN Len(calls) + 1 ELSE inFlight
    /\ UNCHANGED pendingRecipient

\* A chunk of createBatchStreams() is answered and the next one is sent.
ChunkResolves(i) ==
    /\ form = "chunks" /\ calls[i].at = "running" /\ calls[i].chunk < ChunkTotal - 1
    /\ calls' = [calls EXCEPT ![i].chunk = @ + 1]
    /\ UNCHANGED <<pendingRecipient, form, mounted, told, snapshot, awaited, inFlight, alone>>

CallSettles(i, how) ==
    /\ calls[i].at = "running"
    /\ calls' = [calls EXCEPT ![i].at = how,
                              ![i].chunk = IF how = "done" /\ form = "chunks" THEN @ + 1 ELSE @]
    /\ inFlight' = IF form = "clawback" THEN 0 ELSE inFlight
    /\ UNCHANGED <<pendingRecipient, form, mounted, awaited, alone>>

MutationResolves(i) ==
    /\ form = "chunks" => calls[i].chunk = ChunkTotal - 1
    /\ CallSettles(i, "done")
    /\ told' = [Idle EXCEPT !.of = i, !.clawed = form = "clawback"]
    /\ UNCHANGED snapshot

MutationRejects(i) ==
    /\ CallSettles(i, "failed")
    /\ told' = [Idle EXCEPT !.failed = TRUE]
    /\ snapshot' = IF form = "optimistic" /\ calls[i].previous # Empty
                   THEN calls[i].previous ELSE snapshot

ResetMutation ==
    /\ told' = Idle
    /\ pendingRecipient' = NoReceiver
    /\ UNCHANGED <<form, mounted, calls, snapshot, awaited, inFlight, alone>>

InitiateTransfer(r) ==
    /\ form = "transfer" /\ r # pendingRecipient
    /\ pendingRecipient' = r
    /\ UNCHANGED <<form, mounted, calls, told, snapshot, awaited, inFlight, alone>>

\* cancelTransfer(); that of nothing changes nothing
CancelTransfer ==
    /\ pendingRecipient # NoReceiver
    /\ pendingRecipient' = NoReceiver
    /\ UNCHANGED <<form, mounted, calls, told, snapshot, awaited, inFlight, alone>>

\* With another address, or with none pending, confirmTransfer() rejects.
ConfirmTransfer(r) ==
    /\ pendingRecipient # NoReceiver /\ r = pendingRecipient
    /\ pendingRecipient' = NoReceiver
    /\ \/ Start(r)
       \/ /\ mounted = NoMutKey /\ told' = [Idle EXCEPT !.failed = TRUE]
          /\ UNCHANGED <<form, mounted, calls, awaited, alone>>
    /\ UNCHANGED <<snapshot, inFlight>>

MutationsNext ==
    \/ \E k \in MutKey \cup {NoMutKey} : MountedFor(k)
    \/ StreamLoads \/ MutateRefused \/ Mutate
    \/ \E i \in DOMAIN calls : ChunkResolves(i) \/ MutationResolves(i) \/ MutationRejects(i)
    \/ ResetMutation \/ CancelTransfer
    \/ \E r \in Receiver : InitiateTransfer(r) \/ ConfirmTransfer(r)

MutationsSpec == MutationsInit /\ [][MutationsNext]_mutationVars

-----------------------------------------------------------------------------
\* Whatever overlaps, the component is not left pending without a call, the
\* result it is shown is that of a call all of which succeeded, and a stream
\* is shown clawed back only if it is being or was.
ToldTruthfully ==
    /\ told.pending => Len(calls) \in Running
    /\ told.of # 0 => calls[told.of].at = "done" /\ (form = "chunks" => calls[told.of].chunk = ChunkTotal)
    /\ told.clawed => told.pending \/ told.of # 0

\* Two clicks send one clawback.
OneClawback == form = "clawback" => Cardinality(Running) <= 1

\* When a call of an optimistic hook ran alone, what is shown after it is what
\* it did: its outcome if it succeeded, the stream as it was if it failed.
OptimismSettles ==
    form = "optimistic" /\ alone /\ Running = {} /\ ~awaited /\ snapshot # Empty =>
        snapshot = [key |-> mounted,
                    changed |-> \E i \in DOMAIN calls : calls[i].key = mounted /\ calls[i].at = "done"]

MutationsTruthful == ToldTruthfully /\ OneClawback /\ OptimismSettles
=============================================================================
