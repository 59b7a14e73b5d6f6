------------------------------ MODULE MCWrites ------------------------------
(***************************************************************************)
(* The paths that send something, checked in one run: the building of a    *)
(* batch and submitBatch(), the calls of Submission, the builder, the      *)
(* batcher and the worker pool.                                            *)
(* They share no state with one another, so a behaviour is a behaviour of  *)
(* one of them, the scenario, and the others stay in an initial state.     *)
(***************************************************************************)
EXTENDS Submission, StreamBuilderQueue, ConduitBatcher, WorkerPool, BatchBuild

VARIABLE scenario

writesVars == <<scenario, vars, submissionVars, builderVars, batcherVars, poolVars, buildVars>>

\* Batches are interchangeable: one has no chunk, one has one, and so on.
Uneven == CHOOSE f \in [Batch -> 0 .. MaxChunks] : \A b, c \in Batch : f[b] = f[c] => b = c
Even(n) == [b \in Batch |-> n]

WritesInit ==
    /\ Init /\ SubmissionInit /\ BuilderInit /\ BatcherInit /\ PoolInit
    /\ activeWallet = CHOOSE w \in Wallet : TRUE   \* they are interchangeable
    /\ scenario \in {"batch", "call", "builder", "batcher", "pool", "build"}
    /\ scenario = "call" \/ method = "cancel"
    /\ chunks \in IF scenario = "batcher" THEN {Uneven, Even(MaxChunks)} ELSE {Even(0)}
    /\ scenario = "pool" \/ (~adaptive /\ limit = MaxLimit)
    /\ BuildInit
    \* A context that is refused is refused whatever the operations.
    /\ (scenario = "build" /\ ContextIsValid) \/ operations = <<>>
    /\ scenario = "build" \/ /\ buildKind = "build" /\ context.addresses /\ context.rpcUrl
                             /\ context.network = "known" /\ context.networkPassphrase = "given"
                             /\ context.sequence = NoSequence

BatchDoes(A) ==
    scenario = "batch" /\ A /\ UNCHANGED <<scenario, submissionVars, builderVars, batcherVars, poolVars, buildVars>>
CallDoes(A) ==
    scenario = "call" /\ A /\ UNCHANGED <<scenario, vars, builderVars, batcherVars, poolVars, buildVars>>
BuilderDoes(A) ==
    scenario = "builder" /\ A /\ UNCHANGED <<scenario, vars, submissionVars, batcherVars, poolVars, buildVars>>
BatcherDoes(A) ==
    scenario = "batcher" /\ A /\ UNCHANGED <<scenario, vars, submissionVars, builderVars, poolVars, buildVars>>
BuildDoes(A) ==
    scenario = "build" /\ A
    /\ UNCHANGED <<scenario, vars, submissionVars, builderVars, batcherVars, poolVars>>
PoolDoes(A) ==
    scenario = "pool" /\ A /\ UNCHANGED <<scenario, vars, submissionVars, builderVars, batcherVars, buildVars>>

WritesNext ==
    \/ BatchDoes(Next)
    \/ CallDoes(SubmissionNext)
    \/ BuilderDoes(BuilderNext)
    \/ BatcherDoes(BatcherNext)
    \/ PoolDoes(PoolNext)
    \/ BuildDoes(BuildNext)

\* Timers fire, submitFn() settles, the signer and the node answer.
FairWritesSpec ==
    /\ WritesInit /\ [][WritesNext]_writesVars
    /\ WF_writesVars(BatchDoes(Step))
    /\ WF_writesVars(BuilderDoes(BuilderStep))
    /\ WF_writesVars(BatcherDoes(BatcherStep))

\* Every call is answered: submitBatch() returns, submit() of a builder settles and
\* executeAsync() resolves, each in its scenario.
EverythingSettles ==
    /\ scenario = "batch" => Returns
    /\ SubmissionsSettle
    /\ BatchesAnswered
=============================================================================
