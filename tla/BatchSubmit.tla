---------------------------- MODULE BatchSubmit ----------------------------
(***************************************************************************)
(* submitBatch() of src/batch-tx.ts and the retry its error offers.        *)
(*                                                                         *)
(* A batch is a list of operations, each built into one transaction with a *)
(* consecutive sequence number; submitBatch() signs, sends and polls them  *)
(* one after the other.  getFailedOperations() picks the operations of the *)
(* next round, which are built with a freshly read sequence number.        *)
(*                                                                         *)
(* The ledger is external: a pool of transactions it accepted, which it    *)
(* applies in sequence or drops once their time bounds are over, and whose *)
(* answers may be lost or late.  Nobody else uses the account.             *)
(***************************************************************************)
EXTENDS Naturals, Sequences, FiniteSets

CONSTANTS
    OpCount,            \* operations of the first batch
    MaxPollAttempts,    \* options.maxPollAttempts
    MaxRounds           \* bound: submissions, retries included

Op == 1 .. OpCount
Round == 1 .. MaxRounds

ASSUME BatchAssumption ==
    /\ OpCount \in Nat \ {0}
    /\ MaxPollAttempts \in Nat \ {0}
    /\ MaxRounds \in Nat \ {0}

VARIABLES
    round, batch,       \* the submission under way and its operations
    base,               \* the sequence number it was built on
    outcomes,           \* statuses pushed so far, one per transaction
    firstFailureIndex,  \* position of the first failure, 0 for none
    pc, attempt,        \* the await submitBatch() stands at; polls made
    aborted,            \* options.signal.aborted
    accountSeq, pool,   \* the ledger's sequence number and accepted transactions
    landed, rejected,   \* transactions applied, and applied as failed
    reached             \* history: transactions the ledger ever accepted

callVars == <<round, batch, base>>
loopVars == <<outcomes, firstFailureIndex, pc, attempt>>
ledgerVars == <<accountSeq, pool, landed, rejected, reached>>
vars == <<callVars, loopVars, aborted, ledgerVars>>

Statuses == {"SUCCESS", "FAILED", "SKIPPED", "ERROR"}
Tx == [op : Op, round : Round, seq : Nat]

Init ==
    /\ round = 1
    /\ batch = [i \in Op |-> i]
    /\ base = 0
    /\ outcomes = <<>>
    /\ firstFailureIndex = 0
    /\ pc = "next"
    /\ attempt = 0
    /\ aborted = FALSE
    /\ accountSeq = 0
    /\ pool = {}
    /\ landed = {}
    /\ rejected = {}
    /\ reached = {}

-----------------------------------------------------------------------------
(* The transaction at position i, and the outcome of the current one.      *)

Built(i) == [op |-> batch[i], round |-> round, seq |-> base + i]
Index == Len(outcomes) + 1
Current == Built(Index)

Push(status) ==
    /\ outcomes' = Append(outcomes, status)
    /\ firstFailureIndex' = IF status = "SUCCESS" \/ firstFailureIndex # 0
                            THEN firstFailureIndex ELSE Index
    /\ pc' = "next"
    /\ attempt' = 0

Goto(p) == pc' = p /\ attempt' = 0 /\ UNCHANGED <<outcomes, firstFailureIndex>>

\* The ledger takes a transaction only with the next sequence number.
Accept(tx) ==
    /\ tx.seq = accountSeq + 1
    /\ pool' = pool \cup {tx}
    /\ reached' = reached \cup {tx}
    /\ UNCHANGED <<accountSeq, landed, rejected>>

-----------------------------------------------------------------------------
(* submitBatch()                                                           *)

Skip ==
    /\ pc = "next" /\ Index <= Len(batch)
    /\ firstFailureIndex # 0 \/ aborted
    /\ Push("SKIPPED")
    /\ UNCHANGED <<callVars, aborted, ledgerVars>>

StartTransaction ==
    /\ pc = "next" /\ Index <= Len(batch)
    /\ firstFailureIndex = 0 /\ ~aborted
    /\ Goto("signing")
    /\ UNCHANGED <<callVars, aborted, ledgerVars>>

Sign ==
    /\ pc = "signing"
    /\ Goto("sending") \/ Push("ERROR")
    /\ UNCHANGED <<callVars, aborted, ledgerVars>>

\* sendTransaction() answers PENDING, TRY_AGAIN_LATER or ERROR.
Send ==
    /\ pc = "sending"
    /\ \/ Accept(Current) /\ Goto("polling")
       \/ UNCHANGED ledgerVars /\ Goto("polling")
       \/ UNCHANGED ledgerVars /\ Push("FAILED")
    /\ UNCHANGED <<callVars, aborted>>

\* A mistake for the runs to notice: a lost answer is taken for a refusal.
SendThrowsFailed ==
    /\ pc = "sending"
    /\ Accept(Current) \/ UNCHANGED ledgerVars
    /\ Push("FAILED")
    /\ UNCHANGED <<callVars, aborted>>

\* sendTransaction() throws: the request, or only its answer, was lost.
SendThrows ==
    /\ pc = "sending"
    /\ Accept(Current) \/ UNCHANGED ledgerVars
    /\ Push("ERROR")
    /\ UNCHANGED <<callVars, aborted>>

\* One round of polling.  The transaction may be missing although it landed.
Poll ==
    /\ pc = "polling" /\ ~aborted
    /\ \/ Current \in landed /\ Push("SUCCESS")
       \/ Current \in rejected /\ Push("FAILED")
       \/ /\ attempt + 1 < MaxPollAttempts
          /\ attempt' = attempt + 1
          /\ UNCHANGED <<outcomes, firstFailureIndex, pc>>
    /\ UNCHANGED <<callVars, aborted, ledgerVars>>

\* A mistake for the runs to notice: after a timeout the batch goes on.
PollGivesUpQuietly ==
    /\ pc = "polling"
    /\ outcomes' = Append(outcomes, "ERROR")
    /\ pc' = "next"
    /\ attempt' = 0
    /\ UNCHANGED <<firstFailureIndex, callVars, aborted, ledgerVars>>

\* getTransaction() throws, the attempts are used up, or the signal aborted.
PollGivesUp ==
    /\ pc = "polling"
    /\ Push("ERROR")
    /\ UNCHANGED <<callVars, aborted, ledgerVars>>

Finish ==
    /\ pc = "next" /\ Index > Len(batch)
    /\ Goto("done")
    /\ UNCHANGED <<callVars, aborted, ledgerVars>>

Abort ==
    /\ pc # "done" /\ ~aborted
    /\ aborted' = TRUE
    /\ UNCHANGED <<callVars, loopVars, ledgerVars>>

-----------------------------------------------------------------------------
(* The retry                                                               *)

\* getFailedOperations(): the operations of the failed transactions, in order.
FailedOperations ==
    LET failed == SelectSeq([i \in DOMAIN batch |-> i],
                            LAMBDA i : outcomes[i] \in {"FAILED", "ERROR"})
    IN  [k \in DOMAIN failed |-> batch[failed[k]]]

\* buildBatchTransactions() reads the sequence number; a new signal is used.
Retry ==
    /\ pc = "done" /\ round < MaxRounds
    /\ FailedOperations # <<>>
    /\ round' = round + 1
    /\ batch' = FailedOperations
    /\ base' = accountSeq
    /\ outcomes' = <<>>
    /\ firstFailureIndex' = 0
    /\ pc' = "next"
    /\ attempt' = 0
    /\ aborted' = FALSE
    /\ UNCHANGED ledgerVars

-----------------------------------------------------------------------------
(* The ledger                                                              *)

\* A transaction that fails uses its sequence number all the same.
Apply(tx) ==
    /\ tx.seq = accountSeq + 1
    /\ accountSeq' = tx.seq
    /\ pool' = pool \ {tx}
    /\ \/ landed' = landed \cup {tx} /\ UNCHANGED rejected
       \/ rejected' = rejected \cup {tx} /\ UNCHANGED landed
    /\ UNCHANGED <<callVars, loopVars, aborted, reached>>

Expire(tx) ==
    /\ pool' = pool \ {tx}
    /\ UNCHANGED <<callVars, loopVars, aborted, accountSeq, landed, rejected, reached>>

Step == Skip \/ StartTransaction \/ Sign \/ Send \/ SendThrows \/ Poll \/ PollGivesUp \/ Finish

Next ==
    \/ Skip \/ StartTransaction \/ Sign \/ Send \/ SendThrows \/ Poll \/ PollGivesUp
    \/ Finish \/ Abort \/ Retry
    \/ \E tx \in pool : Apply(tx) \/ Expire(tx)

Spec == Init /\ [][Next]_vars

\* The signer and the RPC node answer, or their requests time out.
FairSpec == Spec /\ WF_vars(Step)

-----------------------------------------------------------------------------
(* Properties                                                              *)

\* The definite outcomes tell the truth, whatever is lost or late: SUCCESS is
\* applied, FAILED neither is nor will be, SKIPPED never left the process.
OutcomesTruthful ==
    \A i \in DOMAIN outcomes :
        /\ outcomes[i] = "SUCCESS" => Built(i) \in landed
        /\ outcomes[i] = "FAILED" => Built(i) \notin landed \cup pool
        /\ outcomes[i] = "SKIPPED" => Built(i) \notin reached

\* "Every transaction after this index will be SKIPPED": the outcomes are the
\* successes, then the first failure, then only skipped transactions.
FailureSplitsBatch ==
    \A i \in DOMAIN outcomes :
        /\ firstFailureIndex = 0 \/ i < firstFailureIndex <=> outcomes[i] = "SUCCESS"
        /\ firstFailureIndex # 0 /\ i > firstFailureIndex => outcomes[i] = "SKIPPED"

\* "Confirmed before the next one is submitted": the batch itself never sends
\* a transaction whose sequence number the ledger would refuse.  Of a retry
\* this holds only once no transaction of an earlier round is left.
SequenceCurrent ==
    round = 1 /\ pc = "sending" => Current.seq = accountSeq + 1 /\ pool = {}

\* A batch is sent one after the other, as far as the first failure.
BatchInOrder == FailureSplitsBatch /\ SequenceCurrent

\* submitBatch() returns, with one outcome per transaction.
Returns == pc # "done" ~> pc = "done" /\ Len(outcomes) = Len(batch)

-----------------------------------------------------------------------------
(* What a comment of the source says, which the code does not keep.        *)

\* The failed operations are "ready to feed directly back" into a retry: no
\* operation is applied twice.  ERROR stands for lost answers and timeouts as
\* well, and such a transaction may still be applied.
AppliedOnce == \A s, t \in landed : s.op = t.op => s = t
=============================================================================
