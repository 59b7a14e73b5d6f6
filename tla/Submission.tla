---------------------------- MODULE Submission ----------------------------
(***************************************************************************)
(* The operations that change the ledger: StreamsModule (src/streams.ts),  *)
(* TokenModule.approve() (src/token.ts) and executeMultipleProposals()     *)
(* (src/governor.ts), over the transport of src/soroban.ts.                *)
(*                                                                         *)
(* One call submits one item or, for the methods that take a list, several *)
(* items, each a transaction.  Between any two awaits the wallet may be    *)
(* replaced, the signal may abort, somebody else may use the account, and  *)
(* the ledger applies or forgets what it accepted.                         *)
(*                                                                         *)
(* The ledger and the wallets are external.  Amounts, arguments and the    *)
(* texts of errors are left out; a read that fails is an "error".          *)
(***************************************************************************)
EXTENDS Naturals, FiniteSets

CONSTANTS
    Wallet, NoWallet,   \* wallets the application may set, each an account
    ItemCount,          \* items of a batch
    MaxAttempts,        \* confirmationMaxAttempts
    MaxForeign          \* bound: transactions of others on an account

ASSUME SubmissionAssumption ==
    /\ ItemCount \in Nat \ {0}
    /\ MaxAttempts \in Nat \ {0}
    /\ MaxForeign \in Nat
    /\ NoWallet \notin Wallet

VARIABLES
    method, stopOnError,    \* what was called; option of the proposals
    activeWallet,           \* of the streams and the token module
    signalAborted,                \* options.signal.aborted
    place,                     \* the await an item stands at
    source, seq, signer,    \* its transaction: account, number, signature
    polls,                \* polls made
    result,                 \* what the application is told of the item
    ledgerSeq, foreign,    \* the ledger's numbers; transactions of others
    status                  \* what the ledger did with an item

methodVars == <<method, stopOnError>>
txVars == <<source, seq, signer>>
chainVars == <<ledgerSeq, foreign, status>>
submissionVars == <<methodVars, activeWallet, signalAborted, place, txVars, polls, result, chainVars>>

(* cancel, pause and resume take part as "cancel"; topUp, transferRecipient *)
(* and forceCancel, which do not pass the signal on, as "topUp".            *)
SingleMethod == {"cancel", "topUp", "withdraw", "create", "clawback", "approve"}
BatchMethod == {"batchWithdraw", "createBatchStreams", "executeMultipleProposals"}

TakesSignal == {"cancel", "topUp", "withdraw", "clawback", "executeMultipleProposals"}

Item == 1 .. ItemCount
Items == IF method \in BatchMethod THEN Item ELSE {1}

\* invokeContract() returns the hash of a transaction it could not confirm.
Lenient == method \in {"approve", "executeMultipleProposals"}
NeedsValue == method \in {"create", "clawback", "createBatchStreams"}

SubmissionInit ==
    /\ method \in SingleMethod \cup BatchMethod
    /\ stopOnError \in {stop \in BOOLEAN : stop => method = "executeMultipleProposals"}
    /\ activeWallet \in Wallet
    /\ signalAborted = FALSE
    /\ place = [i \in Item |-> "idle"]
    /\ source = [i \in Item |-> NoWallet]
    /\ seq = [i \in Item |-> 0]
    /\ signer = [i \in Item |-> NoWallet]
    /\ polls = [i \in Item |-> 0]
    /\ result = [i \in Item |-> "none"]
    /\ ledgerSeq = [w \in Wallet |-> 0]
    /\ foreign = [w \in Wallet |-> 0]
    /\ status = [i \in Item |-> "unknown"]

-----------------------------------------------------------------------------
(* Moving on                                                               *)

MoveTo(i, stage) == place' = [place EXCEPT ![i] = stage] /\ UNCHANGED result

Settle(i, answer) ==
    /\ place' = [place EXCEPT ![i] = "done"]
    /\ result' = [result EXCEPT ![i] = answer]

\* Nothing but the place and the answer of items changes.
OnlyProgress ==
    UNCHANGED <<methodVars, activeWallet, signalAborted, txVars, polls, chainVars>>

Failures == {"error", "failed", "rejected", "timeout", "aborted"}

Starts(i, m) == i \in Items /\ place[i] = "idle" /\ method \in m

\* The items of a list, one after the other.
Turn(i) == \A j \in 1 .. i - 1 : place[j] = "done"

-----------------------------------------------------------------------------
(* The methods                                                             *)

\* cancel() to forceCancel(): the signal is looked at before anything else.
StartInvoke(i) ==
    /\ Starts(i, {"cancel", "topUp", "clawback", "withdraw"})
    /\ IF signalAborted THEN Settle(i, "aborted") ELSE MoveTo(i, "resolving")
    /\ OnlyProgress

\* create(): the sender first, then the checks of the parameters.
StartCreate(i) ==
    /\ Starts(i, {"create"})
    /\ MoveTo(i, "sender")
    /\ OnlyProgress

\* approve(): signerFor() keeps the wallet it compared with the owner.
StartApprove(i) ==
    /\ Starts(i, {"approve"})
    /\ \E owner \in Wallet :
         IF owner = activeWallet
         THEN /\ source' = [source EXCEPT ![i] = owner]
              /\ signer' = [signer EXCEPT ![i] = activeWallet]
              /\ MoveTo(i, "account")
         ELSE Settle(i, "error") /\ UNCHANGED <<source, signer>>
    /\ UNCHANGED <<methodVars, activeWallet, signalAborted, seq, polls, chainVars>>

\* batchWithdraw(): one withdraw() after the other, whatever became of it.
StartWithdrawal(i) ==
    /\ Starts(i, {"batchWithdraw"}) /\ Turn(i)
    /\ MoveTo(i, "resolving")
    /\ OnlyProgress

Halted(i) == stopOnError /\ \E j \in 1 .. i - 1 : result[j] \in Failures

\* executeMultipleProposals(): signer and caller are those of the configuration.
StartProposal(i) ==
    /\ Starts(i, {"executeMultipleProposals"}) /\ Turn(i) /\ ~Halted(i)
    /\ IF signalAborted
       THEN Settle(i, "aborted") /\ UNCHANGED <<source, signer>>
       ELSE \E w \in Wallet :
              /\ \A j \in 1 .. i - 1 : source[j] \in {w, NoWallet}
              /\ source' = [source EXCEPT ![i] = w]
              /\ signer' = [signer EXCEPT ![i] = w]
              /\ MoveTo(i, "account")
    /\ UNCHANGED <<methodVars, activeWallet, signalAborted, seq, polls, chainVars>>

SkipProposal(i) ==
    /\ Starts(i, {"executeMultipleProposals"}) /\ Turn(i) /\ Halted(i)
    /\ Settle(i, "skipped")
    /\ OnlyProgress

\* createBatchStreams(): one sender; a configuration that is not valid drops out.
StartStreams ==
    /\ method = "createBatchStreams" /\ \A i \in Item : place[i] = "idle"
    /\ \E invalid \in SUBSET Item :
         /\ place' = [i \in Item |-> IF i \in invalid THEN "done" ELSE "chain"]
         /\ result' = [i \in Item |-> IF i \in invalid THEN "error" ELSE "none"]
    /\ source' = [i \in Item |-> activeWallet]
    /\ UNCHANGED <<methodVars, activeWallet, signalAborted, seq, signer, polls, chainVars>>

-----------------------------------------------------------------------------
(* Building the transaction                                                *)

\* _resolveAddr(): the address of the stream, from the cache or the factory.
ResolveAddr(i) ==
    /\ place[i] = "resolving"
    /\ \/ MoveTo(i, IF method \in {"withdraw", "batchWithdraw"} THEN "available" ELSE "sender")
       \/ Settle(i, "error")
    /\ OnlyProgress

\* withdraw(): what may be withdrawn is read before the transaction is built.
CheckAvailable(i) ==
    /\ place[i] = "available"
    /\ MoveTo(i, "sender") \/ Settle(i, "error")
    /\ OnlyProgress

\* _getSenderAddress(): the wallet of this moment.
GetSender(i) ==
    /\ place[i] = "sender"
    /\ \/ source' = [source EXCEPT ![i] = activeWallet] /\ MoveTo(i, "account")
       \/ Settle(i, "error") /\ UNCHANGED source
    /\ UNCHANGED <<methodVars, activeWallet, signalAborted, seq, signer, polls, chainVars>>

\* buildContractCallTx(): the next number of the account, read from the node or,
\* when the node is out of reach, from Horizon.
GetAccount(i) ==
    /\ place[i] = "account"
    /\ \/ /\ seq' = [seq EXCEPT ![i] = ledgerSeq[source[i]] + 1]
          /\ MoveTo(i, "simulating")
       \/ Settle(i, "error") /\ UNCHANGED seq
    /\ UNCHANGED <<methodVars, activeWallet, signalAborted, source, signer, polls, chainVars>>

Simulate(i) ==
    /\ place[i] = "simulating"
    /\ MoveTo(i, "signing") \/ Settle(i, "error")
    /\ OnlyProgress

\* buildBatchTransactions(): consecutive numbers on one reading of the account;
\* a simulation that fails fails them all.
BuildChain ==
    LET items == {i \in Item : place[i] = "chain"}
        Rank(i) == Cardinality({j \in items : j <= i})
    IN  /\ items # {}
        /\ \/ /\ seq' = [i \in Item |->
                           IF i \in items THEN ledgerSeq[source[i]] + Rank(i) ELSE seq[i]]
              /\ place' = [i \in Item |-> IF i \in items THEN "signing" ELSE place[i]]
              /\ UNCHANGED result
           \/ /\ place' = [i \in Item |-> "done"]
              /\ result' = [i \in Item |-> "error"]
              /\ UNCHANGED seq
        /\ UNCHANGED <<methodVars, activeWallet, signalAborted, source, signer, polls, chainVars>>

-----------------------------------------------------------------------------
(* Signing, sending and confirming                                         *)

\* A mistake for the runs to notice: every signature is the active wallet's.
SignByActiveWallet(i) ==
    /\ place[i] = "signing"
    /\ \/ signer' = [signer EXCEPT ![i] = activeWallet] /\ MoveTo(i, "sending")
       \/ Settle(i, "error") /\ UNCHANGED signer
    /\ UNCHANGED <<methodVars, activeWallet, signalAborted, source, seq, polls, chainVars>>

\* _signTx() asks the wallet of this moment; the others kept a signer.  The
\* wallet refuses, or withSignatureTimeout() ends the wait.
SignTx(i) ==
    /\ place[i] = "signing"
    /\ \/ /\ signer' = IF Lenient THEN signer ELSE [signer EXCEPT ![i] = activeWallet]
          /\ MoveTo(i, "sending")
       \/ Settle(i, "error") /\ UNCHANGED signer
    /\ UNCHANGED <<methodVars, activeWallet, signalAborted, source, seq, polls, chainVars>>

\* The node takes the account's next number, signed by the account, and one
\* transaction of an account at a time.
Admit(i) ==
    /\ signer[i] = source[i]
    /\ seq[i] = ledgerSeq[source[i]] + 1
    /\ \A j \in Item : status[j] = "pending" => source[j] # source[i]
    /\ status' = [status EXCEPT ![i] = "pending"]
    /\ UNCHANGED <<ledgerSeq, foreign>>

\* sendTransaction() answers PENDING, TRY_AGAIN_LATER or ERROR.
SendTx(i) ==
    /\ place[i] = "sending"
    /\ \/ Admit(i) /\ MoveTo(i, "polling")
       \/ UNCHANGED chainVars /\ MoveTo(i, "polling")
       \/ UNCHANGED chainVars /\ Settle(i, "rejected")
    /\ UNCHANGED <<methodVars, activeWallet, signalAborted, txVars, polls>>

\* A mistake for the runs to notice: a lost answer is taken for a refusal.
SendTxThrowsRejected(i) ==
    /\ place[i] = "sending"
    /\ Admit(i) \/ UNCHANGED chainVars
    /\ Settle(i, "rejected")
    /\ UNCHANGED <<methodVars, activeWallet, signalAborted, txVars, polls>>

\* sendTransaction() throws: the request, or only its answer, was lost.
SendTxThrows(i) ==
    /\ place[i] = "sending"
    /\ Admit(i) \/ UNCHANGED chainVars
    /\ Settle(i, "error")
    /\ UNCHANGED <<methodVars, activeWallet, signalAborted, txVars, polls>>

\* Only cancel(), pause() and resume() pass their signal on.
PollAborts(i) ==
    /\ place[i] = "polling" /\ method = "cancel" /\ signalAborted
    /\ Settle(i, "aborted")
    /\ OnlyProgress

Polling(i) == place[i] = "polling" /\ ~(method = "cancel" /\ signalAborted)

\* pollForConfirmation(): one round.  A transaction that is not found, applied
\* or not, is asked for again.
PollOnce(i) ==
    /\ Polling(i)
    /\ \/ /\ status[i] = "landed" /\ UNCHANGED polls
          /\ IF NeedsValue THEN MoveTo(i, "value") ELSE Settle(i, "success")
       \/ status[i] = "failed" /\ Settle(i, "failed") /\ UNCHANGED polls
       \/ /\ polls[i] + 1 < MaxAttempts
          /\ polls' = [polls EXCEPT ![i] = @ + 1]
          /\ UNCHANGED <<place, result>>
    /\ UNCHANGED <<methodVars, activeWallet, signalAborted, txVars, chainVars>>

\* A poll failed or the attempts are used up: a hash that stands for a
\* transaction which may still be pending (invokeContract) ...
PollTimesOutLeniently(i) ==
    /\ Polling(i) /\ Lenient
    /\ Settle(i, "success")
    /\ OnlyProgress

\* ... or an error (_sendAndPoll).
PollTimesOut(i) ==
    /\ Polling(i) /\ ~Lenient
    /\ Settle(i, "timeout")
    /\ OnlyProgress

\* The value is missing, or looking up the new stream's address fails.
ReadValue(i) ==
    /\ place[i] = "value"
    /\ Settle(i, "success") \/ Settle(i, "error")
    /\ OnlyProgress

-----------------------------------------------------------------------------
(* The environment                                                         *)

\* Nothing reads the wallet after the last signature.
SetWallet(w) ==
    /\ w # activeWallet
    /\ \E i \in Items : place[i] \notin {"sending", "polling", "value", "done"}
    /\ activeWallet' = w
    /\ UNCHANGED <<methodVars, signalAborted, place, txVars, polls, result, chainVars>>

AbortSignal ==
    /\ ~signalAborted /\ method \in TakesSignal
    /\ \E i \in Items : place[i] # "done"
    /\ signalAborted' = TRUE
    /\ UNCHANGED <<methodVars, activeWallet, place, txVars, polls, result, chainVars>>

\* A transaction that fails uses its sequence number all the same.
LedgerApplies(i) ==
    /\ status[i] = "pending" /\ seq[i] = ledgerSeq[source[i]] + 1
    /\ status' = [status EXCEPT ![i] = "landed"] \/ status' = [status EXCEPT ![i] = "failed"]
    /\ ledgerSeq' = [ledgerSeq EXCEPT ![source[i]] = seq[i]]
    /\ UNCHANGED <<methodVars, activeWallet, signalAborted, place, txVars, polls, result, foreign>>

LedgerForgets(i) ==
    /\ status[i] = "pending"
    /\ status' = [status EXCEPT ![i] = "expired"]
    /\ UNCHANGED <<methodVars, activeWallet, signalAborted, place, txVars, polls, result, ledgerSeq, foreign>>

\* Another call or program uses the account.
OtherApplies(w) ==
    /\ foreign[w] < MaxForeign
    /\ foreign' = [foreign EXCEPT ![w] = @ + 1]
    /\ ledgerSeq' = [ledgerSeq EXCEPT ![w] = @ + 1]
    /\ UNCHANGED <<methodVars, activeWallet, signalAborted, place, txVars, polls, result, status>>

-----------------------------------------------------------------------------
Advance(i) ==
    \/ StartInvoke(i) \/ StartCreate(i) \/ StartApprove(i) \/ StartWithdrawal(i)
    \/ StartProposal(i) \/ SkipProposal(i)
    \/ ResolveAddr(i) \/ CheckAvailable(i) \/ GetSender(i) \/ GetAccount(i) \/ Simulate(i)
    \/ SignTx(i) \/ SendTx(i) \/ SendTxThrows(i)
    \/ PollOnce(i) \/ PollAborts(i) \/ PollTimesOut(i) \/ PollTimesOutLeniently(i) \/ ReadValue(i)

\* The call's own steps: the node and the wallet answer, or their requests end.
CallStep == StartStreams \/ BuildChain \/ \E i \in Item : Advance(i)

SubmissionNext ==
    \/ CallStep \/ AbortSignal
    \/ \E i \in Item : LedgerApplies(i) \/ LedgerForgets(i)
    \/ \E w \in Wallet : SetWallet(w) \/ OtherApplies(w)

SubmissionSpec == SubmissionInit /\ [][SubmissionNext]_submissionVars

-----------------------------------------------------------------------------
(* Properties                                                              *)

\* The definite answers of streams.ts, token.ts and governor.ts tell the truth
\* whatever is lost or late: a success of the streams module is applied, a
\* failed transaction neither is nor will be, and what was rejected or skipped
\* never reached the ledger.
AnswersTruthful ==
    \A i \in Item :
        /\ result[i] = "success" /\ ~Lenient => status[i] = "landed"
        /\ result[i] = "failed" => status[i] = "failed"
        /\ result[i] \in {"rejected", "skipped"} => status[i] = "unknown"

\* "Every submission gets a distinct, ordered sequence number": a transaction of
\* batchWithdraw() or createBatchStreams() is built on a higher number than those
\* of the items before it whose outcome is known, or which are under way.
OrderedSequences ==
    method \in {"batchWithdraw", "createBatchStreams"} =>
        \A i \in Item : \A j \in 1 .. i - 1 :
            /\ source[i] = source[j] /\ seq[i] > 0 /\ seq[j] > 0
            /\ place[j] # "done" \/ result[j] \in {"success", "failed"}
            => seq[i] > seq[j]

\* approve() and executeMultipleProposals(): whichever wallet is set meanwhile,
\* the signature is that of the account the transaction was built for.
SignedBySource ==
    \A i \in Item : Lenient /\ place[i] \in {"sending", "polling"} => signer[i] = source[i]

\* stopOnError: "halt at the first failure; the remaining proposals are then
\* reported as skipped rather than submitted", and otherwise none is skipped.
HaltsAtFirstFailure ==
    \A i \in Item :
        LET afterFailure == stopOnError /\ \E j \in 1 .. i - 1 : result[j] \in Failures
        IN  /\ method = "executeMultipleProposals" /\ afterFailure
               => status[i] = "unknown" /\ result[i] \in {"none", "skipped"}
            /\ result[i] = "skipped" => afterFailure

\* What several transactions of one call are built on, signed by and stopped by,
\* however their answers interleave.
SubmittedInOrder == OrderedSequences /\ SignedBySource /\ HaltsAtFirstFailure
=============================================================================
