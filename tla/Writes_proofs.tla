--------------------------- MODULE Writes_proofs ---------------------------
(***************************************************************************)
(* What a write is told of itself is true, and the transactions of a list  *)
(* are built, signed and stopped in order, for any number of items, wallets*)
(* and transactions of others (Submission); and submitBatch() with its     *)
(* retries reports what became of every transaction (BatchSubmit), which   *)
(* buildBatchTransactions() has made whole and in order (BatchBuild).      *)
(*                                                                         *)
(* The queues of src/builder.ts and src/map-with-concurrency.ts are exact  *)
(* for any number of callers and every limit: the semaphore of submit()    *)
(* counts the slots that are held and forgets nobody in line, every batch  *)
(* of executeAsync() that waits has a loop, and the worker pool loses no   *)
(* wake-up and takes no item twice.                                        *)
(***************************************************************************)
EXTENDS BatchBuild, Submission, StreamBuilderQueue, ConduitBatcher, WorkerPool,
        SequenceTheorems, FiniteSetTheorems, TLAPS

USE SubmissionAssumption, BatchAssumption

-----------------------------------------------------------------------------
(* Submission: the invariant                                               *)

Places == {"idle", "resolving", "available", "sender", "account", "simulating",
           "chain", "signing", "sending", "polling", "value", "done"}
Answers == {"none", "success", "skipped"} \cup Failures
LedgerStatus == {"unknown", "pending", "landed", "failed", "expired"}

\* Before the account is read, before anything is sent, with a source account.
Unnumbered == {"idle", "resolving", "available", "sender", "account", "chain"}
Unsent == Places \ {"polling", "value", "done"}
Sourced == {"account", "chain", "simulating", "signing", "sending", "polling", "value"}

PlacesOf(m) ==
    IF m = "createBatchStreams"
    THEN {"idle", "chain", "signing", "sending", "polling", "value", "done"}
    ELSE IF m \in {"approve", "executeMultipleProposals"}
    THEN {"idle", "account", "simulating", "signing", "sending", "polling", "done"}
    ELSE Places \ {"chain"}

SubmissionTypes ==
    /\ method \in SingleMethod \cup BatchMethod
    /\ stopOnError \in BOOLEAN /\ (stopOnError => method = "executeMultipleProposals")
    /\ activeWallet \in Wallet
    /\ signalAborted \in BOOLEAN
    /\ place \in [Item -> PlacesOf(method)]
    /\ source \in [Item -> Wallet \cup {NoWallet}]
    /\ signer \in [Item -> Wallet \cup {NoWallet}]
    /\ seq \in [Item -> Nat]
    /\ result \in [Item -> Answers]
    /\ ledgerSeq \in [Wallet -> Nat]
    /\ status \in [Item -> LedgerStatus]

\* What the place of an item says of its transaction and of the ledger.
ItemExact(i) ==
    /\ place[i] # "done" => result[i] = "none"
    /\ place[i] \in Unsent => status[i] = "unknown"
    /\ place[i] \in Unnumbered => seq[i] = 0
    /\ place[i] = "value" => status[i] = "landed"
    /\ place[i] \in Sourced \/ status[i] # "unknown" => source[i] \in Wallet
    /\ status[i] \in {"landed", "failed"} => seq[i] <= ledgerSeq[source[i]]
    /\ Lenient /\ place[i] \in Sourced => signer[i] = source[i]

ItemsExact == \A i \in Item : ItemExact(i)

\* The items of batchWithdraw() and executeMultipleProposals() take turns.
TakenInTurn ==
    method \in {"batchWithdraw", "executeMultipleProposals"} =>
        \A i \in Item : place[i] # "idle" => Turn(i)

\* Before createBatchStreams() has numbered its transactions, none has a number.
ChainPending ==
    \A i \in Item : place[i] = "chain" =>
        \A j \in Item : place[j] \in {"chain", "done"} /\ seq[j] = 0

\* OrderedSequences, where createBatchStreams() needs no outcome.
NumberedInOrder ==
    /\ OrderedSequences
    /\ method = "createBatchStreams" =>
           \A i \in Item : \A j \in 1 .. i - 1 : source[i] = source[j] /\ seq[i] > 0 => seq[i] > seq[j]

\* After a failure the proposals that follow stay idle until they are skipped.
HaltsBehindFailure ==
    \A i \in Item :
        /\ method = "executeMultipleProposals" /\ Halted(i)
               => place[i] = "idle" \/ result[i] = "skipped"
        /\ result[i] = "skipped" => method = "executeMultipleProposals" /\ Halted(i)

SubmissionInv ==
    /\ SubmissionTypes /\ ItemsExact /\ TakenInTurn /\ ChainPending
    /\ AnswersTruthful /\ NumberedInOrder /\ HaltsBehindFailure

-----------------------------------------------------------------------------
(* Submission: the steps, by what they change                              *)

LEMMA EarlierItem ==
  \A i \in Item : i \in Nat /\ \A j \in 1 .. i - 1 : j \in Item /\ j < i
BY DEF Item

LEMMA StagesOfMethods ==
  /\ \A m : PlacesOf(m) \subseteq Places
  /\ Unnumbered \subseteq Places /\ Sourced \subseteq Places
BY DEF PlacesOf, Places, Unnumbered, Sourced

\* An item that moves on, not yet done, takes its turn, and the others keep
\* their transactions.
LEMMA MoveKeeps ==
  ASSUME SubmissionInv, NEW i \in Item, place[i] \notin {"done", "chain"},
         NEW to \in PlacesOf(method) \ {"idle", "done", "chain"}, MoveTo(i, to),
         place[i] = "idle" => /\ method \in {"batchWithdraw", "executeMultipleProposals"} => Turn(i)
                              /\ method = "executeMultipleProposals" => ~Halted(i),
         source' \in [Item -> Wallet \cup {NoWallet}], signer' \in [Item -> Wallet \cup {NoWallet}],
         status' \in [Item -> LedgerStatus],
         \A j \in Item \ {i} : /\ source'[j] = source[j] /\ signer'[j] = signer[j]
                               /\ status'[j] = status[j],
         source'[i] # source[i] => seq[i] = 0,
         UNCHANGED <<methodVars, activeWallet, signalAborted, seq, ledgerSeq>>,
         ItemExact(i)'
  PROVE  SubmissionInv'
<1> USE DEF SubmissionInv, MoveTo, methodVars
<1>1. SubmissionTypes'
  BY DEF SubmissionTypes
<1>2. /\ place'[i] = to /\ result[i] = "none"
      /\ \A j \in Item \ {i} : place'[j] = place[j]
  BY DEF SubmissionTypes, ItemsExact, ItemExact
<1>3. ItemsExact'
  <2> SUFFICES ASSUME NEW j \in Item, j # i PROVE ItemExact(j)'
    BY DEF ItemsExact
  <2> QED BY <1>2 DEF ItemsExact, ItemExact, Lenient
<1>4. TakenInTurn'
  BY <1>2, EarlierItem DEF TakenInTurn, Turn
<1>5. ChainPending'
  BY <1>2 DEF ChainPending
<1>6. AnswersTruthful'
  BY <1>2 DEF AnswersTruthful, Lenient
<1>7. NumberedInOrder'
  <2>0. seq \in [Item -> Nat]
    BY DEF SubmissionTypes
  <2>1. OrderedSequences'
    BY <1>2, <2>0, EarlierItem DEF NumberedInOrder, OrderedSequences
  <2>2. (method = "createBatchStreams" => \A k \in Item : \A j \in 1 .. k - 1 :
            source[k] = source[j] /\ seq[k] > 0 => seq[k] > seq[j])'
    BY <1>2, <2>0, EarlierItem DEF NumberedInOrder
  <2> QED BY <2>1, <2>2 DEF NumberedInOrder
<1>8. HaltsBehindFailure'
  <2>1. \A k \in Item : Halted(k)' <=> Halted(k)
    BY DEF Halted
  <2> QED BY <1>2, <2>1 DEF HaltsBehindFailure
<1> QED BY <1>1, <1>3, <1>4, <1>5, <1>6, <1>7, <1>8

\* An item that is answered: what it is told is true, and after a failure the
\* proposals behind it have not started.
LEMMA SettleKeeps ==
  ASSUME SubmissionInv, NEW i \in Item, place[i] \notin {"done", "chain"},
         NEW given \in Answers \ {"none"}, Settle(i, given),
         place[i] = "idle" => /\ method \in {"batchWithdraw", "executeMultipleProposals"} => Turn(i)
                              /\ method = "executeMultipleProposals" /\ Halted(i) => given = "skipped",
         given = "skipped" => method = "executeMultipleProposals" /\ Halted(i),
         given = "success" /\ ~Lenient => status'[i] = "landed",
         given = "failed" => status'[i] = "failed",
         given \in {"rejected", "skipped"} => status'[i] = "unknown",
         status' \in [Item -> LedgerStatus],
         \A j \in Item \ {i} : status'[j] = status[j],
         UNCHANGED <<methodVars, activeWallet, signalAborted, txVars, ledgerSeq>>,
         ItemExact(i)'
  PROVE  SubmissionInv'
<1> USE DEF SubmissionInv, Settle, methodVars, txVars
<1>1. SubmissionTypes'
  BY DEF SubmissionTypes, PlacesOf, Places
<1>2. /\ place'[i] = "done" /\ result[i] = "none" /\ result'[i] = given
      /\ \A j \in Item \ {i} : place'[j] = place[j] /\ result'[j] = result[j]
  BY DEF SubmissionTypes, ItemsExact, ItemExact
<1>3. ItemsExact'
  <2> SUFFICES ASSUME NEW j \in Item, j # i PROVE ItemExact(j)'
    BY DEF ItemsExact
  <2> QED BY <1>2 DEF ItemsExact, ItemExact, Lenient
<1>4. TakenInTurn'
  BY <1>2, EarlierItem DEF TakenInTurn, Turn
<1>5. ChainPending'
  BY <1>2 DEF ChainPending
<1>6. AnswersTruthful'
  BY <1>2 DEF AnswersTruthful, Lenient
<1>7. NumberedInOrder'
  <2>1. OrderedSequences'
    <3> SUFFICES ASSUME method \in {"batchWithdraw", "createBatchStreams"},
                        NEW k \in Item, NEW j \in 1 .. k - 1,
                        source[k] = source[j], seq[k] > 0, seq[j] > 0,
                        place'[j] # "done" \/ result'[j] \in {"success", "failed"}
                 PROVE  seq[k] > seq[j]
      BY DEF OrderedSequences
    <3>1. CASE j # i
      BY <3>1, <1>2, EarlierItem DEF NumberedInOrder, OrderedSequences
    <3>2. CASE method = "createBatchStreams"
      BY <3>2 DEF NumberedInOrder
    <3>3. CASE j = i /\ method = "batchWithdraw"
      <4>1. place[i] # "done"
        OBVIOUS
      <4>2. place[k] = "idle"
        BY <3>3, <4>1, EarlierItem DEF TakenInTurn, Turn
      <4> QED BY <4>2 DEF ItemsExact, ItemExact, Unnumbered
    <3> QED BY <3>1, <3>2, <3>3
  <2> QED BY <2>1 DEF NumberedInOrder
<1>8. HaltsBehindFailure'
  <2>1. ASSUME NEW k \in Item, Halted(k) PROVE Halted(k)'
    BY <2>1, <1>2, EarlierItem DEF Halted, Failures
  <2>2. ASSUME NEW k \in Item, Halted(k)', ~Halted(k), method = "executeMultipleProposals"
        PROVE  place'[k] = "idle"
    <3>1. i \in 1 .. k - 1
      BY <2>2, <1>2, EarlierItem DEF Halted
    <3>2. place[k] = "idle"
      BY <2>2, <3>1 DEF TakenInTurn, Turn
    <3> QED BY <1>2, <3>1, <3>2, EarlierItem
  <2>3. Halted(i)' <=> Halted(i)
    BY <1>2, EarlierItem DEF Halted
  <2>4. ASSUME NEW k \in Item, k # i
        PROVE  /\ (method = "executeMultipleProposals" /\ Halted(k)
                      => place[k] = "idle" \/ result[k] = "skipped")'
               /\ (result[k] = "skipped" => method = "executeMultipleProposals" /\ Halted(k))'
    BY <2>1, <2>2, <2>4, <1>2 DEF HaltsBehindFailure
  <2>5. /\ (method = "executeMultipleProposals" /\ Halted(i)
                => place[i] = "idle" \/ result[i] = "skipped")'
        /\ (result[i] = "skipped" => method = "executeMultipleProposals" /\ Halted(i))'
    <3>1. CASE place[i] = "idle"
      BY <3>1, <2>3, <1>2
    <3>2. CASE place[i] # "idle"
      <4>1. ~(method = "executeMultipleProposals" /\ Halted(i))
        BY <3>2, <1>2 DEF HaltsBehindFailure
      <4> QED BY <4>1, <2>3, <1>2
    <3> QED BY <3>1, <3>2
  <2> QED BY <2>4, <2>5 DEF HaltsBehindFailure
<1> QED BY <1>1, <1>3, <1>4, <1>5, <1>6, <1>7, <1>8

\* A step of the environment that leaves the items and the ledger alone, or one
\* that ends transactions that are pending and raises the ledger's numbers.
LEMMA LedgerKeeps ==
  ASSUME SubmissionInv, activeWallet' \in Wallet, signalAborted' \in BOOLEAN,
         UNCHANGED <<methodVars, place, txVars, result>>,
         status' \in [Item -> LedgerStatus], ledgerSeq' \in [Wallet -> Nat],
         \A w \in Wallet : ledgerSeq[w] <= ledgerSeq'[w],
         \A i \in Item : \/ status'[i] = status[i]
                         \/ /\ status[i] = "pending" /\ status'[i] # "unknown"
                            /\ status'[i] \in {"landed", "failed"} => seq[i] <= ledgerSeq'[source[i]]
  PROVE  SubmissionInv'
<1> USE DEF SubmissionInv, methodVars, txVars
<1>1. SubmissionTypes'
  BY DEF SubmissionTypes
<1>2. ItemsExact'
  <2> SUFFICES ASSUME NEW i \in Item PROVE ItemExact(i)'
    BY DEF ItemsExact
  <2>1. ItemExact(i) /\ seq[i] \in Nat
    BY DEF ItemsExact, SubmissionTypes
  <2>2. status[i] = "pending" => place[i] \notin Unsent /\ place[i] # "value"
    BY <2>1 DEF ItemExact
  <2>3. status'[i] \in {"landed", "failed"} => seq[i] <= ledgerSeq'[source[i]]
    <3>1. CASE status'[i] # status[i]
      BY <3>1
    <3>2. CASE status'[i] = status[i] /\ status[i] \in {"landed", "failed"}
      <4>1. source[i] \in Wallet /\ seq[i] <= ledgerSeq[source[i]]
        BY <2>1, <3>2 DEF ItemExact
      <4>2. ledgerSeq[source[i]] <= ledgerSeq'[source[i]]
        BY <4>1
      <4>3. ledgerSeq[source[i]] \in Nat /\ ledgerSeq'[source[i]] \in Nat
        BY <4>1 DEF SubmissionTypes
      <4> QED BY <2>1, <4>1, <4>2, <4>3
    <3> QED BY <3>1, <3>2
  <2> QED BY <2>1, <2>2, <2>3 DEF ItemExact, Lenient
<1>3. TakenInTurn' /\ ChainPending'
  BY DEF TakenInTurn, Turn, ChainPending
<1>4. AnswersTruthful'
  <2>1. \A i \in Item : status[i] \in {"landed", "failed", "unknown"} => status'[i] = status[i]
    OBVIOUS
  <2> QED BY <2>1 DEF AnswersTruthful, Lenient
<1>5. NumberedInOrder' /\ HaltsBehindFailure'
  BY DEF NumberedInOrder, OrderedSequences, HaltsBehindFailure, Halted
<1> QED BY <1>1, <1>2, <1>3, <1>4, <1>5

\* What an answer of error, timeout or abort needs.
LEMMA FailureKeeps ==
  ASSUME SubmissionInv, NEW i \in Item, place[i] \notin {"done", "chain"},
         place[i] = "idle" =>
             method \notin {"batchWithdraw", "executeMultipleProposals"} \/ (Turn(i) /\ ~Halted(i)),
         NEW given \in {"error", "timeout", "aborted"}, Settle(i, given),
         OnlyProgress
  PROVE  SubmissionInv'
<1>1. ItemExact(i)'
  BY DEF SubmissionInv, SubmissionTypes, ItemsExact, ItemExact, Settle, OnlyProgress, chainVars,
         txVars, methodVars, Lenient, Unsent, Sourced, Unnumbered
<1>2. given \in Answers \ {"none"} /\ given \notin {"success", "skipped", "failed", "rejected"}
  BY DEF Answers, Failures
<1>3. status' \in [Item -> LedgerStatus]
  BY DEF SubmissionInv, SubmissionTypes, OnlyProgress, chainVars
<1> QED BY <1>1, <1>2, <1>3, SettleKeeps DEF OnlyProgress, chainVars

\* What moving on needs when nothing but the place of the item changes.
LEMMA ProgressKeeps ==
  ASSUME SubmissionInv, NEW i \in Item, place[i] \notin {"done", "chain"},
         place[i] = "idle" =>
             method \notin {"batchWithdraw", "executeMultipleProposals"} \/ (Turn(i) /\ ~Halted(i)),
         NEW to \in PlacesOf(method) \ {"idle", "done", "chain"}, MoveTo(i, to),
         to \in Unsent => place[i] \in Unsent,
         to \in Unnumbered => place[i] \in Unnumbered,
         to \in Sourced => place[i] \in Sourced,
         to = "value" => status[i] = "landed",
         OnlyProgress
  PROVE  SubmissionInv'
<1>1. ItemExact(i)'
  BY DEF SubmissionInv, SubmissionTypes, ItemsExact, ItemExact, MoveTo, OnlyProgress, chainVars,
         txVars, methodVars, Lenient
<1>2. /\ status' \in [Item -> LedgerStatus]
      /\ source' \in [Item -> Wallet \cup {NoWallet}] /\ signer' \in [Item -> Wallet \cup {NoWallet}]
  BY DEF SubmissionInv, SubmissionTypes, OnlyProgress, chainVars, txVars
<1> QED BY <1>1, <1>2, MoveKeeps DEF OnlyProgress, chainVars, txVars

-----------------------------------------------------------------------------
(* Submission: the actions                                                 *)

LEMMA SubmissionStarts ==
  ASSUME SubmissionInit PROVE SubmissionInv
<1>1. SubmissionTypes
  BY DEF SubmissionInit, SubmissionTypes, SingleMethod, BatchMethod, PlacesOf, Places, Answers, LedgerStatus
<1>2. ItemsExact
  BY DEF SubmissionInit, ItemsExact, ItemExact, Sourced
<1>3. TakenInTurn /\ ChainPending /\ AnswersTruthful
  BY DEF SubmissionInit, TakenInTurn, ChainPending, AnswersTruthful
<1>4. NumberedInOrder
  BY EarlierItem DEF SubmissionInit, NumberedInOrder, OrderedSequences
<1>5. HaltsBehindFailure
  BY DEF SubmissionInit, HaltsBehindFailure
<1> QED BY <1>1, <1>2, <1>3, <1>4, <1>5 DEF SubmissionInv

\* The methods start: the places an item can be sent to from idle.
LEMMA StartsKeep ==
  ASSUME SubmissionInv, NEW i \in Item,
         StartInvoke(i) \/ StartCreate(i) \/ StartApprove(i) \/ StartWithdrawal(i)
  PROVE  SubmissionInv'
<1> USE DEF Starts, OnlyProgress
<1>1. CASE StartInvoke(i)
  <2>1. CASE signalAborted
    BY <1>1, <2>1, FailureKeeps DEF StartInvoke
  <2>2. CASE ~signalAborted
    <3>1. "resolving" \in PlacesOf(method) \ {"idle", "done", "chain"}
      BY <1>1 DEF StartInvoke, PlacesOf, Places
    <3> QED BY <1>1, <2>2, <3>1, ProgressKeeps DEF StartInvoke, Unsent, Unnumbered, Sourced, Places
  <2> QED BY <2>1, <2>2
<1>2. CASE StartCreate(i)
  <2>1. "sender" \in PlacesOf(method) \ {"idle", "done", "chain"}
    BY <1>2 DEF StartCreate, PlacesOf, Places
  <2> QED BY <1>2, <2>1, ProgressKeeps DEF StartCreate, Unsent, Unnumbered, Sourced, Places
<1>3. CASE StartApprove(i)
  <2>0. PICK owner \in Wallet :
          IF owner = activeWallet
          THEN /\ source' = [source EXCEPT ![i] = owner]
               /\ signer' = [signer EXCEPT ![i] = activeWallet]
               /\ MoveTo(i, "account")
          ELSE Settle(i, "error") /\ UNCHANGED <<source, signer>>
    BY <1>3 DEF StartApprove
  <2>1. CASE owner = activeWallet
    <3>1. "account" \in PlacesOf(method) \ {"idle", "done", "chain"}
      BY <1>3 DEF StartApprove, PlacesOf
    <3>2. place[i] = "idle" /\ method = "approve" /\ SubmissionTypes /\ ItemExact(i)
      BY <1>3 DEF StartApprove, SubmissionInv, ItemsExact
    <3>3. /\ source' = [source EXCEPT ![i] = owner] /\ signer' = [signer EXCEPT ![i] = activeWallet]
          /\ MoveTo(i, "account")
          /\ UNCHANGED <<methodVars, activeWallet, signalAborted, seq, polls, chainVars>>
      BY <1>3, <2>0, <2>1 DEF StartApprove
    <3>4. ItemExact(i)'
      BY <2>1, <3>2, <3>3 DEF SubmissionTypes, ItemExact, MoveTo, chainVars, Unsent, Unnumbered, Places
    <3>5. /\ source' \in [Item -> Wallet \cup {NoWallet}] /\ signer' \in [Item -> Wallet \cup {NoWallet}]
          /\ status' \in [Item -> LedgerStatus]
          /\ \A j \in Item \ {i} : source'[j] = source[j] /\ signer'[j] = signer[j] /\ status'[j] = status[j]
      BY <2>1, <3>2, <3>3 DEF SubmissionTypes, chainVars
    <3>6. seq[i] = 0
      BY <3>2 DEF ItemExact, Unnumbered
    <3> QED BY <3>1, <3>2, <3>3, <3>4, <3>5, <3>6, MoveKeeps DEF chainVars
  <2>2. CASE owner # activeWallet
    BY <1>3, <2>0, <2>2, FailureKeeps DEF StartApprove, txVars
  <2> QED BY <2>1, <2>2
<1>4. CASE StartWithdrawal(i)
  <2>1. "resolving" \in PlacesOf(method) \ {"idle", "done", "chain"}
    BY <1>4 DEF StartWithdrawal, PlacesOf, Places
  <2>2. ~Halted(i)
    BY <1>4 DEF StartWithdrawal, Halted, SubmissionInv, SubmissionTypes
  <2> QED BY <1>4, <2>1, <2>2, ProgressKeeps DEF StartWithdrawal, Unsent, Unnumbered, Sourced, Places
<1> QED BY <1>1, <1>2, <1>3, <1>4

\* executeMultipleProposals() takes a proposal up, or skips it.
LEMMA ProposalsKeep ==
  ASSUME SubmissionInv, NEW i \in Item, StartProposal(i) \/ SkipProposal(i)
  PROVE  SubmissionInv'
<1>0. place[i] = "idle" /\ method = "executeMultipleProposals" /\ Turn(i) /\ ItemExact(i)
      /\ SubmissionTypes
  BY DEF StartProposal, SkipProposal, Starts, SubmissionInv, ItemsExact
<1>1. CASE StartProposal(i) /\ signalAborted
  <2>1. Settle(i, "aborted") /\ OnlyProgress /\ ~Halted(i)
    BY <1>1 DEF StartProposal, OnlyProgress, txVars
  <2> QED BY <1>0, <2>1, FailureKeeps
<1>2. CASE StartProposal(i) /\ ~signalAborted
  <2>1. PICK w \in Wallet : /\ source' = [source EXCEPT ![i] = w]
                            /\ signer' = [signer EXCEPT ![i] = w]
                            /\ MoveTo(i, "account")
    BY <1>2 DEF StartProposal
  <2>2. UNCHANGED <<methodVars, activeWallet, signalAborted, seq, polls, chainVars>> /\ ~Halted(i)
    BY <1>2 DEF StartProposal
  <2>3. "account" \in PlacesOf(method) \ {"idle", "done", "chain"}
    BY <1>0 DEF PlacesOf
  <2>4. ItemExact(i)'
    BY <1>0, <2>1, <2>2 DEF SubmissionTypes, ItemExact, MoveTo, chainVars, Unsent, Unnumbered, Places
  <2>5. /\ source' \in [Item -> Wallet \cup {NoWallet}] /\ signer' \in [Item -> Wallet \cup {NoWallet}]
        /\ status' \in [Item -> LedgerStatus]
        /\ \A j \in Item \ {i} : source'[j] = source[j] /\ signer'[j] = signer[j] /\ status'[j] = status[j]
    BY <1>0, <2>1, <2>2 DEF SubmissionTypes, chainVars
  <2>6. seq[i] = 0
    BY <1>0 DEF ItemExact, Unnumbered
  <2> QED BY <1>0, <2>1, <2>2, <2>3, <2>4, <2>5, <2>6, MoveKeeps DEF chainVars
<1>3. CASE SkipProposal(i)
  <2>1. Settle(i, "skipped") /\ OnlyProgress /\ Halted(i)
    BY <1>3 DEF SkipProposal
  <2>2. ItemExact(i)' /\ status'[i] = "unknown"
    BY <1>0, <2>1 DEF SubmissionTypes, ItemExact, Settle, OnlyProgress, chainVars, txVars, methodVars,
                      Unsent, Unnumbered, Sourced, Places
  <2>3. status' \in [Item -> LedgerStatus] /\ "skipped" \in Answers \ {"none"}
    BY <1>0, <2>1 DEF SubmissionTypes, OnlyProgress, chainVars, Answers
  <2> QED BY <1>0, <2>1, <2>2, <2>3, SettleKeeps DEF OnlyProgress, chainVars
<1> QED BY <1>1, <1>2, <1>3

\* The sender, the account, the simulation and the signature.
LEMMA BuildingKeeps ==
  ASSUME SubmissionInv, NEW i \in Item,
         ResolveAddr(i) \/ CheckAvailable(i) \/ GetSender(i) \/ Simulate(i) \/ SignTx(i)
  PROVE  SubmissionInv'
<1>0. SubmissionTypes /\ ItemExact(i) /\ place[i] \in PlacesOf(method) /\ method \in SingleMethod \cup BatchMethod
  BY DEF SubmissionInv, ItemsExact, SubmissionTypes
<1>1. CASE Settle(i, "error") /\ OnlyProgress
  BY <1>1, FailureKeeps DEF ResolveAddr, CheckAvailable, GetSender, Simulate, SignTx
<1>2. CASE ResolveAddr(i) /\ ~Settle(i, "error")
  <2> DEFINE to == IF method \in {"withdraw", "batchWithdraw"} THEN "available" ELSE "sender"
  <2>1. MoveTo(i, to) /\ OnlyProgress /\ place[i] = "resolving"
    BY <1>2 DEF ResolveAddr
  <2>2. to \in PlacesOf(method) \ {"idle", "done", "chain"}
    BY <1>0, <2>1 DEF PlacesOf, Places
  <2> QED BY <2>1, <2>2, ProgressKeeps DEF Unsent, Unnumbered, Sourced, Places
<1>3. CASE CheckAvailable(i) /\ ~Settle(i, "error")
  <2>1. MoveTo(i, "sender") /\ OnlyProgress /\ place[i] = "available"
    BY <1>3 DEF CheckAvailable
  <2>2. "sender" \in PlacesOf(method) \ {"idle", "done", "chain"}
    BY <1>0, <2>1 DEF PlacesOf, Places
  <2> QED BY <2>1, <2>2, ProgressKeeps DEF Unsent, Unnumbered, Sourced, Places
<1>4. CASE Simulate(i) /\ ~Settle(i, "error")
  <2>1. MoveTo(i, "signing") /\ OnlyProgress /\ place[i] = "simulating"
    BY <1>4 DEF Simulate
  <2>2. "signing" \in PlacesOf(method) \ {"idle", "done", "chain"}
    BY <1>0, <2>1 DEF PlacesOf, Places
  <2> QED BY <2>1, <2>2, ProgressKeeps DEF Unsent, Unnumbered, Sourced, Places
<1>5. CASE GetSender(i) /\ ~Settle(i, "error")
  <2>1. /\ place[i] = "sender" /\ source' = [source EXCEPT ![i] = activeWallet] /\ MoveTo(i, "account")
        /\ UNCHANGED <<methodVars, activeWallet, signalAborted, seq, signer, polls, chainVars>>
    BY <1>5 DEF GetSender
  <2>2. ~Lenient
    BY <1>0, <2>1 DEF PlacesOf, Lenient
  <2>3. "account" \in PlacesOf(method) \ {"idle", "done", "chain"}
    BY <1>0, <2>1 DEF PlacesOf, Places
  <2>4. ItemExact(i)'
    BY <1>0, <2>1, <2>2 DEF SubmissionTypes, ItemExact, MoveTo, chainVars, methodVars, Lenient, Unsent, Unnumbered, Places
  <2>5. /\ source' \in [Item -> Wallet \cup {NoWallet}] /\ signer' \in [Item -> Wallet \cup {NoWallet}]
        /\ status' \in [Item -> LedgerStatus]
        /\ \A j \in Item \ {i} : source'[j] = source[j] /\ signer'[j] = signer[j] /\ status'[j] = status[j]
    BY <1>0, <2>1 DEF SubmissionTypes, chainVars
  <2>6. seq[i] = 0
    BY <1>0, <2>1 DEF ItemExact, Unnumbered
  <2> QED BY <2>1, <2>3, <2>4, <2>5, <2>6, MoveKeeps DEF chainVars
<1>6. CASE SignTx(i) /\ ~Settle(i, "error")
  <2>1. /\ place[i] = "signing" /\ MoveTo(i, "sending")
        /\ signer' = IF Lenient THEN signer ELSE [signer EXCEPT ![i] = activeWallet]
        /\ UNCHANGED <<methodVars, activeWallet, signalAborted, source, seq, polls, chainVars>>
    BY <1>6 DEF SignTx
  <2>3. "sending" \in PlacesOf(method) \ {"idle", "done", "chain"}
    BY <1>0, <2>1 DEF PlacesOf, Places
  <2>4. ItemExact(i)'
    BY <1>0, <2>1 DEF SubmissionTypes, ItemExact, MoveTo, chainVars, methodVars, Lenient, Unsent, Unnumbered, Sourced, Places
  <2>5. /\ source' \in [Item -> Wallet \cup {NoWallet}] /\ signer' \in [Item -> Wallet \cup {NoWallet}]
        /\ status' \in [Item -> LedgerStatus]
        /\ \A j \in Item \ {i} : source'[j] = source[j] /\ signer'[j] = signer[j] /\ status'[j] = status[j]
    BY <1>0, <2>1 DEF SubmissionTypes, chainVars
  <2> QED BY <2>1, <2>3, <2>4, <2>5, MoveKeeps DEF chainVars
<1>7. Settle(i, "error") => OnlyProgress
  <2>1. Settle(i, "error") /\ SignTx(i) => OnlyProgress
    <3>1. SubmissionTypes /\ MoveTo(i, "sending") => place'[i] = "sending"
      BY DEF SubmissionTypes, MoveTo
    <3>2. SubmissionTypes /\ Settle(i, "error") => place'[i] = "done"
      BY DEF SubmissionTypes, Settle
    <3> QED BY <1>0, <3>1, <3>2 DEF SignTx, OnlyProgress, txVars
  <2>2. Settle(i, "error") /\ GetSender(i) => OnlyProgress
    <3>1. SubmissionTypes /\ MoveTo(i, "account") => place'[i] = "account"
      BY DEF SubmissionTypes, MoveTo
    <3>2. SubmissionTypes /\ Settle(i, "error") => place'[i] = "done"
      BY DEF SubmissionTypes, Settle
    <3> QED BY <1>0, <3>1, <3>2 DEF GetSender, OnlyProgress, txVars
  <2> QED BY <2>1, <2>2 DEF ResolveAddr, CheckAvailable, Simulate
<1> QED BY <1>1, <1>2, <1>3, <1>4, <1>5, <1>6, <1>7

\* The number of an item that takes its turn is above those of the items that
\* were applied before it.
LEMMA AccountKeeps ==
  ASSUME SubmissionInv, NEW i \in Item, GetAccount(i)
  PROVE  SubmissionInv'
<1>0. SubmissionTypes /\ ItemExact(i) /\ place[i] = "account" /\ place[i] \in PlacesOf(method)
  BY DEF SubmissionInv, ItemsExact, SubmissionTypes, GetAccount
<1>1. CASE Settle(i, "error") /\ UNCHANGED seq
  BY <1>0, <1>1, FailureKeeps DEF GetAccount, OnlyProgress, txVars
<1>2. CASE seq' = [seq EXCEPT ![i] = ledgerSeq[source[i]] + 1] /\ MoveTo(i, "simulating")
  <2>0. UNCHANGED <<methodVars, activeWallet, signalAborted, source, signer, polls, chainVars>>
    BY DEF GetAccount
  <2> USE DEF methodVars, chainVars
  <2>1. source[i] \in Wallet /\ ledgerSeq[source[i]] \in Nat
    BY <1>0 DEF ItemExact, Sourced, SubmissionTypes
  <2>2. /\ place'[i] = "simulating" /\ result[i] = "none" /\ result' = result
        /\ \A j \in Item \ {i} : place'[j] = place[j] /\ seq'[j] = seq[j]
        /\ seq'[i] = ledgerSeq[source[i]] + 1
    BY <1>0, <1>2 DEF SubmissionTypes, ItemExact, MoveTo
  <2>3. method # "createBatchStreams"
    BY <1>0 DEF PlacesOf
  <2>4. SubmissionTypes'
    <3>1. "simulating" \in PlacesOf(method)
      BY <1>0, <2>3 DEF PlacesOf, Places
    <3> QED BY <1>0, <1>2, <2>0, <2>1, <3>1 DEF SubmissionTypes, MoveTo
  <2>5. ItemsExact'
    <3> SUFFICES ASSUME NEW j \in Item PROVE ItemExact(j)'
      BY DEF ItemsExact
    <3>1. CASE j = i
      <4>1. status[i] = "unknown"
        BY <1>0 DEF ItemExact, Unsent, Places
      <4> QED BY <3>1, <4>1, <1>0, <2>0, <2>1, <2>2 DEF ItemExact, Lenient, Unnumbered, Sourced
    <3>2. CASE j # i
      BY <3>2, <2>0, <2>2 DEF SubmissionInv, ItemsExact, ItemExact, Lenient
    <3> QED BY <3>1, <3>2
  <2>6. TakenInTurn'
    BY <1>0, <2>0, <2>2, EarlierItem DEF SubmissionInv, TakenInTurn, Turn
  <2>7. ChainPending'
    BY <1>0, <2>2 DEF SubmissionInv, ChainPending
  <2>8. AnswersTruthful' /\ HaltsBehindFailure'
    <3>1. \A k \in Item : Halted(k)' <=> Halted(k)
      BY <2>0, <2>2 DEF Halted
    <3> QED BY <1>0, <2>0, <2>2, <3>1 DEF SubmissionInv, AnswersTruthful, HaltsBehindFailure, Lenient
  <2>9. NumberedInOrder'
    <3>1. SUFFICES ASSUME method = "batchWithdraw",
                          NEW k \in Item, NEW j \in 1 .. k - 1,
                          source[k] = source[j], seq'[k] > 0, seq'[j] > 0,
                          place'[j] # "done" \/ result[j] \in {"success", "failed"}
                   PROVE  seq'[k] > seq'[j]
      BY <2>0, <2>2, <2>3 DEF NumberedInOrder, OrderedSequences
    <3>2. k \in Nat /\ j \in Item /\ j < k
      BY EarlierItem
    <3>3. CASE k = i
      <4>1. place[j] = "done" /\ j # i
        BY <1>0, <3>1, <3>2, <3>3 DEF SubmissionInv, TakenInTurn, Turn
      <4>2. status[j] \in {"landed", "failed"}
        BY <2>2, <3>1, <3>2, <4>1 DEF SubmissionInv, AnswersTruthful, Lenient
      <4>3. seq[j] <= ledgerSeq[source[j]] /\ seq[j] \in Nat
        BY <1>0, <3>2, <4>2 DEF SubmissionInv, ItemsExact, ItemExact, SubmissionTypes
      <4> QED BY <2>1, <2>2, <3>1, <3>2, <3>3, <4>1, <4>3
    <3>4. CASE j = i
      <4>1. place[k] = "idle"
        BY <1>0, <3>1, <3>2, <3>4 DEF SubmissionInv, TakenInTurn, Turn
      <4>2. seq[k] = 0 /\ k # i
        BY <3>2, <3>4, <4>1 DEF SubmissionInv, ItemsExact, ItemExact, Unnumbered
      <4> QED BY <2>2, <3>1, <4>2
    <3>5. CASE k # i /\ j # i
      BY <2>2, <3>1, <3>2, <3>5 DEF SubmissionInv, NumberedInOrder, OrderedSequences
    <3> QED BY <3>3, <3>4, <3>5
  <2> QED BY <2>4, <2>5, <2>6, <2>7, <2>8, <2>9 DEF SubmissionInv
<1> QED BY <1>1, <1>2 DEF GetAccount

\* A transaction is sent, and what becomes of it is polled for.
LEMMA SendingKeeps ==
  ASSUME SubmissionInv, NEW i \in Item, SendTx(i) \/ SendTxThrows(i)
  PROVE  SubmissionInv'
<1> USE DEF methodVars, chainVars, txVars
<1>0. /\ SubmissionTypes /\ ItemExact(i) /\ place[i] = "sending" /\ place[i] \in PlacesOf(method)
      /\ UNCHANGED <<methodVars, activeWallet, signalAborted, txVars, polls>>
  BY DEF SubmissionInv, ItemsExact, SubmissionTypes, SendTx, SendTxThrows
<1>1. status[i] = "unknown" /\ source[i] \in Wallet /\ result[i] = "none"
  BY <1>0 DEF ItemExact, Unsent, Sourced, Places
<1>2. /\ ledgerSeq' = ledgerSeq /\ status' \in [Item -> LedgerStatus]
      /\ status'[i] \in {"unknown", "pending"}
      /\ \A j \in Item \ {i} : status'[j] = status[j]
  <2>1. CASE Admit(i)
    BY <2>1, <1>0 DEF SubmissionTypes, Admit, LedgerStatus
  <2>2. CASE UNCHANGED chainVars
    BY <2>2, <1>0, <1>1 DEF SubmissionTypes
  <2> QED BY <2>1, <2>2 DEF SendTx, SendTxThrows
<1>3. "polling" \in PlacesOf(method) \ {"idle", "done", "chain"}
  BY <1>0 DEF PlacesOf, Places
<1>4. CASE MoveTo(i, "polling")
  <2>1. ItemExact(i)'
    BY <1>0, <1>1, <1>2, <1>4 DEF SubmissionTypes, ItemExact, MoveTo, Lenient, Unsent, Unnumbered, Sourced
  <2> QED BY <1>0, <1>2, <1>3, <1>4, <2>1, MoveKeeps DEF SubmissionTypes
<1>5. CASE Settle(i, "rejected") /\ UNCHANGED chainVars
  <2>1. ItemExact(i)'
    BY <1>0, <1>1, <1>2, <1>5 DEF SubmissionTypes, ItemExact, Settle, Lenient, Unsent, Unnumbered, Sourced
  <2>2. "rejected" \in Answers \ {"none"} /\ status'[i] = "unknown"
    BY <1>1, <1>5 DEF Answers, Failures
  <2> QED BY <1>0, <1>2, <1>5, <2>1, <2>2, SettleKeeps
<1>6. CASE Settle(i, "error")
  <2>1. ItemExact(i)'
    BY <1>0, <1>1, <1>2, <1>6 DEF SubmissionTypes, ItemExact, Settle, Lenient, Unsent, Unnumbered, Sourced
  <2>2. "error" \in Answers \ {"none"}
    BY DEF Answers, Failures
  <2> QED BY <1>0, <1>2, <1>6, <2>1, <2>2, SettleKeeps
<1> QED BY <1>4, <1>5, <1>6 DEF SendTx, SendTxThrows

LEMMA PollingKeeps ==
  ASSUME SubmissionInv, NEW i \in Item,
         PollOnce(i) \/ PollAborts(i) \/ PollTimesOut(i) \/ PollTimesOutLeniently(i) \/ ReadValue(i)
  PROVE  SubmissionInv'
<1> USE DEF methodVars, chainVars, txVars, OnlyProgress
<1>0. /\ SubmissionTypes /\ ItemExact(i) /\ place[i] \in {"polling", "value"} /\ place[i] \in PlacesOf(method)
      /\ UNCHANGED <<methodVars, activeWallet, signalAborted, txVars, chainVars>>
  BY DEF SubmissionInv, ItemsExact, SubmissionTypes, PollOnce, PollAborts, PollTimesOut,
         PollTimesOutLeniently, ReadValue, Polling
<1>1. CASE UNCHANGED <<place, result>>
  BY <1>0, <1>1, LedgerKeeps DEF SubmissionTypes
<1>2. CASE MoveTo(i, "value") /\ status[i] = "landed" /\ NeedsValue /\ place[i] = "polling"
  <2>1. "value" \in PlacesOf(method) \ {"idle", "done", "chain"}
    BY <1>2 DEF NeedsValue, PlacesOf, Places
  <2>2. ItemExact(i)'
    BY <1>0, <1>2 DEF SubmissionTypes, ItemExact, MoveTo, Lenient, Unsent, Unnumbered, Sourced
  <2> QED BY <1>0, <1>2, <2>1, <2>2, MoveKeeps DEF SubmissionTypes
<1>3. ASSUME NEW given \in {"success", "failed", "aborted", "timeout", "error"}, Settle(i, given),
             given = "success" /\ ~Lenient => status[i] = "landed",
             given = "failed" => status[i] = "failed"
      PROVE  SubmissionInv'
  <2>1. ItemExact(i)'
    BY <1>0, <1>3 DEF SubmissionTypes, ItemExact, Settle, Lenient, Unsent, Unnumbered, Sourced
  <2>2. given \in Answers \ {"none"} /\ given \notin {"rejected", "skipped"}
    BY <1>3 DEF Answers, Failures
  <2> QED BY <1>0, <1>3, <2>1, <2>2, SettleKeeps DEF SubmissionTypes
<1>4. CASE PollOnce(i)
  BY <1>1, <1>2, <1>3, <1>4 DEF PollOnce, Polling
<1>5. CASE PollAborts(i) \/ PollTimesOut(i) \/ PollTimesOutLeniently(i)
  BY <1>3, <1>5 DEF PollAborts, PollTimesOut, PollTimesOutLeniently
<1>6. CASE ReadValue(i)
  <2>1. status[i] = "landed"
    BY <1>0, <1>6 DEF ReadValue, ItemExact
  <2> QED BY <1>3, <1>6, <2>1 DEF ReadValue
<1> QED BY <1>4, <1>5, <1>6

\* createBatchStreams() begins: one sender for all that are valid.
LEMMA StreamsKeep ==
  ASSUME SubmissionInv, StartStreams
  PROVE  SubmissionInv'
<1> USE DEF methodVars, chainVars
<1>0. /\ SubmissionTypes /\ method = "createBatchStreams" /\ \A i \in Item : place[i] = "idle"
      /\ source' = [i \in Item |-> activeWallet]
      /\ UNCHANGED <<methodVars, activeWallet, signalAborted, seq, signer, polls, chainVars>>
  BY DEF StartStreams, SubmissionInv
<1>1. PICK invalid \in SUBSET Item :
        /\ place' = [i \in Item |-> IF i \in invalid THEN "done" ELSE "chain"]
        /\ result' = [i \in Item |-> IF i \in invalid THEN "error" ELSE "none"]
  BY DEF StartStreams
<1>2. \A i \in Item : /\ place'[i] \in {"done", "chain"} /\ result'[i] \in {"error", "none"}
                      /\ place'[i] # "done" => result'[i] = "none"
                      /\ seq[i] = 0 /\ status[i] = "unknown" /\ source'[i] \in Wallet
  <2> SUFFICES ASSUME NEW i \in Item
               PROVE  /\ place'[i] \in {"done", "chain"} /\ result'[i] \in {"error", "none"}
                      /\ place'[i] # "done" => result'[i] = "none"
                      /\ seq[i] = 0 /\ status[i] = "unknown" /\ source'[i] \in Wallet
    OBVIOUS
  <2>1. seq[i] = 0 /\ status[i] = "unknown"
    BY <1>0 DEF SubmissionInv, ItemsExact, ItemExact, Unnumbered, Unsent, Places
  <2>2. source'[i] \in Wallet
    BY <1>0 DEF SubmissionTypes
  <2> QED BY <1>1, <2>1, <2>2
<1>3. SubmissionTypes'
  BY <1>0, <1>1 DEF SubmissionTypes, PlacesOf, Answers, Failures
<1>4. ItemsExact'
  BY <1>0, <1>2 DEF ItemsExact, ItemExact, Lenient
<1>5. TakenInTurn' /\ ChainPending'
  BY <1>0, <1>2 DEF TakenInTurn, ChainPending
<1>6. AnswersTruthful' /\ HaltsBehindFailure'
  BY <1>0, <1>2 DEF AnswersTruthful, HaltsBehindFailure
<1>7. NumberedInOrder'
  BY <1>0, <1>2, EarlierItem DEF NumberedInOrder, OrderedSequences
<1> QED BY <1>3, <1>4, <1>5, <1>6, <1>7 DEF SubmissionInv

\* buildBatchTransactions() numbers the transactions in the order of the list.
LEMMA RankGrows ==
  ASSUME NEW items \in SUBSET Item, NEW i \in items, NEW j \in items, j < i
  PROVE  /\ Cardinality({k \in items : k <= i}) \in Nat /\ Cardinality({k \in items : k <= j}) \in Nat
         /\ Cardinality({k \in items : k <= j}) < Cardinality({k \in items : k <= i})
<1> DEFINE upTo(n) == {k \in items : k <= n}
<1>1. IsFiniteSet(Item)
  BY FS_Interval DEF Item
<1>2. IsFiniteSet(upTo(i)) /\ IsFiniteSet(upTo(j))
  <2>1. upTo(i) \subseteq Item /\ upTo(j) \subseteq Item
    OBVIOUS
  <2> HIDE DEF upTo
  <2> QED BY <1>1, <2>1, FS_Subset
<1>3. upTo(j) \subseteq upTo(i) /\ i \in upTo(i) /\ i \notin upTo(j)
  BY EarlierItem
<1> HIDE DEF upTo
<1>4. Cardinality(upTo(j)) <= Cardinality(upTo(i))
      /\ (Cardinality(upTo(j)) = Cardinality(upTo(i)) => upTo(j) = upTo(i))
  BY <1>2, <1>3, FS_Subset
<1>5. Cardinality(upTo(j)) \in Nat /\ Cardinality(upTo(i)) \in Nat
  BY <1>2, FS_CardinalityType
<1>6. Cardinality(upTo(j)) < Cardinality(upTo(i))
  BY <1>3, <1>4, <1>5
<1> QED BY <1>5, <1>6 DEF upTo

LEMMA ChainKeeps ==
  ASSUME SubmissionInv, BuildChain
  PROVE  SubmissionInv'
<1> USE DEF methodVars, chainVars
<1> DEFINE items == {i \in Item : place[i] = "chain"}
           Rank(i) == Cardinality({j \in items : j <= i})
<1>0. /\ SubmissionTypes /\ items # {}
      /\ UNCHANGED <<methodVars, activeWallet, signalAborted, source, signer, polls, chainVars>>
  BY DEF BuildChain, SubmissionInv
<1>1. method = "createBatchStreams"
  BY <1>0 DEF SubmissionTypes, PlacesOf
<1>2. \A i \in Item : place[i] \in {"chain", "done"} /\ seq[i] = 0
  BY <1>0 DEF SubmissionInv, ChainPending
<1>3. ~stopOnError
  BY <1>0, <1>1 DEF SubmissionTypes
<1>4. CASE place' = [i \in Item |-> "done"] /\ result' = [i \in Item |-> "error"] /\ UNCHANGED seq
  <2>1. SubmissionTypes'
    BY <1>0, <1>1, <1>4 DEF SubmissionTypes, PlacesOf, Answers, Failures
  <2>2. ItemsExact'
    BY <1>0, <1>2, <1>4 DEF SubmissionInv, ItemsExact, ItemExact, Lenient, Unsent, Unnumbered, Sourced, Places
  <2>3. TakenInTurn' /\ ChainPending' /\ AnswersTruthful' /\ HaltsBehindFailure'
    BY <1>0, <1>1, <1>4 DEF TakenInTurn, ChainPending, AnswersTruthful, HaltsBehindFailure
  <2>4. NumberedInOrder'
    BY <1>0, <1>2, <1>4, EarlierItem DEF NumberedInOrder, OrderedSequences
  <2> QED BY <2>1, <2>2, <2>3, <2>4 DEF SubmissionInv
<1>5. CASE /\ seq' = [i \in Item |-> IF i \in items THEN ledgerSeq[source[i]] + Rank(i) ELSE seq[i]]
           /\ place' = [i \in Item |-> IF i \in items THEN "signing" ELSE place[i]]
           /\ UNCHANGED result
  <2>1. \A i \in items : /\ source[i] \in Wallet /\ ledgerSeq[source[i]] \in Nat
                         /\ Rank(i) \in Nat /\ status[i] = "unknown" /\ result[i] = "none"
    <3> SUFFICES ASSUME NEW i \in items
                 PROVE  /\ source[i] \in Wallet /\ ledgerSeq[source[i]] \in Nat
                        /\ Rank(i) \in Nat /\ status[i] = "unknown" /\ result[i] = "none"
      OBVIOUS
    <3>1. source[i] \in Wallet /\ status[i] = "unknown" /\ result[i] = "none"
      BY DEF SubmissionInv, ItemsExact, ItemExact, Sourced, Unsent, Places
    <3>2. ledgerSeq[source[i]] \in Nat
      BY <1>0, <3>1 DEF SubmissionTypes
    <3>3. IsFiniteSet({j \in items : j <= i})
      <4>1. IsFiniteSet(Item)
        BY FS_Interval DEF Item
      <4> QED BY <4>1, FS_Subset
    <3>4. Rank(i) \in Nat
      BY <3>3, FS_CardinalityType
    <3> QED BY <3>1, <3>2, <3>4
  <2>2. \A i, j \in items : j < i => Rank(j) < Rank(i)
    BY RankGrows
  <2> HIDE DEF Rank
  <2>3. \A i \in Item : /\ i \in items => /\ place'[i] = "signing"
                                          /\ seq'[i] = ledgerSeq[source[i]] + Rank(i)
                        /\ i \notin items => place'[i] = "done" /\ seq'[i] = 0
    BY <1>2, <1>5
  <2>4. SubmissionTypes'
    <3>1. place' \in [Item -> PlacesOf(method)]
      BY <1>1, <1>5, <1>2 DEF PlacesOf
    <3>2. seq' \in [Item -> Nat]
      BY <1>2, <1>5, <2>1
    <3> QED BY <1>0, <1>5, <3>1, <3>2 DEF SubmissionTypes
  <2>5. ItemsExact'
    <3> SUFFICES ASSUME NEW i \in Item PROVE ItemExact(i)'
      BY DEF ItemsExact
    <3>1. CASE i \in items
      BY <3>1, <1>0, <1>1, <1>5, <2>1, <2>3 DEF ItemExact, Lenient, Unnumbered, Sourced
    <3>2. CASE i \notin items
      <4>1. place[i] = "done" /\ ItemExact(i)
        BY <3>2, <1>2 DEF SubmissionInv, ItemsExact
      <4> QED BY <3>2, <4>1, <1>0, <1>2, <1>5, <2>3 DEF ItemExact, Lenient, Unnumbered, Sourced, Unsent, Places
    <3> QED BY <3>1, <3>2
  <2>6. TakenInTurn' /\ ChainPending' /\ AnswersTruthful' /\ HaltsBehindFailure'
    <3>1. ChainPending'
      BY <2>3 DEF ChainPending
    <3>2. TakenInTurn'
      BY <1>0, <1>1 DEF TakenInTurn
    <3>3. AnswersTruthful' /\ HaltsBehindFailure'
      BY <1>0, <1>1, <1>5 DEF SubmissionInv, AnswersTruthful, HaltsBehindFailure, Halted, Lenient
    <3> QED BY <3>1, <3>2, <3>3
  <2>7. NumberedInOrder'
    <3>1. ASSUME NEW i \in Item, NEW j \in 1 .. i - 1, source[i] = source[j], seq'[i] > 0
          PROVE  seq'[i] > seq'[j]
      <4>1. j \in Item /\ j < i
        BY EarlierItem
      <4>2. i \in items
        BY <3>1, <2>3
      <4>3. CASE j \in items
        BY <3>1, <4>1, <4>2, <4>3, <2>1, <2>2, <2>3
      <4>4. CASE j \notin items
        BY <3>1, <4>1, <4>4, <2>3
      <4> QED BY <4>3, <4>4
    <3> QED BY <1>0, <3>1 DEF NumberedInOrder, OrderedSequences
  <2> QED BY <2>4, <2>5, <2>6, <2>7 DEF SubmissionInv
<1> QED BY <1>4, <1>5 DEF BuildChain

\* The wallet, the signal, and the ledger.
LEMMA EnvironmentKeeps ==
  ASSUME SubmissionInv,
         \/ AbortSignal
         \/ \E i \in Item : LedgerApplies(i) \/ LedgerForgets(i)
         \/ \E w \in Wallet : SetWallet(w) \/ OtherApplies(w)
  PROVE  SubmissionInv'
<1> USE DEF methodVars, chainVars, txVars
<1>0. SubmissionTypes /\ \A w \in Wallet : ledgerSeq[w] \in Nat
  BY DEF SubmissionInv, SubmissionTypes
<1>1. CASE AbortSignal
  BY <1>0, <1>1, LedgerKeeps DEF AbortSignal, SubmissionTypes
<1>2. ASSUME NEW i \in Item, LedgerApplies(i) PROVE SubmissionInv'
  <2>1. source[i] \in Wallet
    BY <1>2 DEF LedgerApplies, SubmissionInv, ItemsExact, ItemExact
  <2>2. /\ ledgerSeq' = [ledgerSeq EXCEPT ![source[i]] = ledgerSeq[source[i]] + 1]
        /\ seq[i] = ledgerSeq[source[i]] + 1
    BY <1>2 DEF LedgerApplies
  <2>3. /\ ledgerSeq' \in [Wallet -> Nat] /\ \A w \in Wallet : ledgerSeq[w] <= ledgerSeq'[w]
        /\ seq[i] <= ledgerSeq'[source[i]]
    BY <1>0, <2>1, <2>2 DEF SubmissionTypes
  <2>4. /\ status' \in [Item -> LedgerStatus] /\ \A j \in Item \ {i} : status'[j] = status[j]
        /\ status[i] = "pending" /\ status'[i] \in {"landed", "failed"}
    BY <1>0, <1>2 DEF LedgerApplies, SubmissionTypes, LedgerStatus
  <2> QED BY <1>0, <1>2, <2>3, <2>4, LedgerKeeps DEF LedgerApplies, SubmissionTypes
<1>3. ASSUME NEW i \in Item, LedgerForgets(i) PROVE SubmissionInv'
  <2>1. /\ status' \in [Item -> LedgerStatus] /\ \A j \in Item \ {i} : status'[j] = status[j]
        /\ status[i] = "pending" /\ status'[i] = "expired"
    BY <1>0, <1>3 DEF LedgerForgets, SubmissionTypes, LedgerStatus
  <2>2. ledgerSeq' \in [Wallet -> Nat] /\ \A w \in Wallet : ledgerSeq[w] <= ledgerSeq'[w]
    BY <1>0, <1>3 DEF LedgerForgets, SubmissionTypes
  <2> QED BY <1>0, <1>3, <2>1, <2>2, LedgerKeeps DEF LedgerForgets, SubmissionTypes
<1>4. ASSUME NEW w \in Wallet, SetWallet(w) PROVE SubmissionInv'
  BY <1>0, <1>4, LedgerKeeps DEF SetWallet, SubmissionTypes
<1>5. ASSUME NEW w \in Wallet, OtherApplies(w) PROVE SubmissionInv'
  <2>1. ledgerSeq' \in [Wallet -> Nat] /\ \A v \in Wallet : ledgerSeq[v] <= ledgerSeq'[v]
    BY <1>0, <1>5 DEF OtherApplies, SubmissionTypes
  <2> QED BY <1>0, <1>5, <2>1, LedgerKeeps DEF OtherApplies, SubmissionTypes
<1> QED BY <1>1, <1>2, <1>3, <1>4, <1>5

LEMMA SubmissionInductive ==
  SubmissionInv /\ [SubmissionNext]_submissionVars => SubmissionInv'
<1> SUFFICES ASSUME SubmissionInv, [SubmissionNext]_submissionVars PROVE SubmissionInv'
  OBVIOUS
<1>1. CASE UNCHANGED submissionVars
  BY <1>1, LedgerKeeps DEF submissionVars, methodVars, txVars, chainVars, SubmissionInv, SubmissionTypes
<1>2. ASSUME NEW i \in Item, Advance(i) PROVE SubmissionInv'
  BY <1>2, StartsKeep, ProposalsKeep, BuildingKeeps, AccountKeeps, SendingKeeps, PollingKeeps DEF Advance
<1> QED BY <1>1, <1>2, StreamsKeep, ChainKeeps, EnvironmentKeeps DEF SubmissionNext, CallStep

LEMMA SubmissionAlways == SubmissionSpec => []SubmissionInv
BY SubmissionStarts, SubmissionInductive, PTL DEF SubmissionSpec

\* Whatever is lost or late, and whoever else uses the account, an answer of
\* streams.ts, token.ts or governor.ts that is definite tells the truth.
THEOREM AnswersAlwaysTruthful == SubmissionSpec => []AnswersTruthful
<1>1. SubmissionInv => AnswersTruthful
  BY DEF SubmissionInv
<1> QED BY <1>1, SubmissionAlways, PTL

\* The transactions of batchWithdraw() and createBatchStreams() are numbered in
\* order, approve() and executeMultipleProposals() sign with the account they
\* built for, and stopOnError halts at the first failure.
THEOREM AlwaysSubmittedInOrder == SubmissionSpec => []SubmittedInOrder
<1>1. SubmissionInv => SubmittedInOrder
  <2> SUFFICES ASSUME SubmissionInv PROVE SubmittedInOrder
    OBVIOUS
  <2>1. OrderedSequences
    BY DEF SubmissionInv, NumberedInOrder
  <2>2. SignedBySource
    BY DEF SubmissionInv, ItemsExact, ItemExact, SignedBySource, Sourced
  <2>3. HaltsAtFirstFailure
    <3> SUFFICES ASSUME NEW i \in Item
                 PROVE  /\ method = "executeMultipleProposals" /\ Halted(i)
                            => status[i] = "unknown" /\ result[i] \in {"none", "skipped"}
                        /\ result[i] = "skipped" => Halted(i)
      BY DEF HaltsAtFirstFailure, Halted
    <3>1. result[i] = "skipped" => status[i] = "unknown" /\ Halted(i)
      BY DEF SubmissionInv, AnswersTruthful, HaltsBehindFailure
    <3>2. place[i] = "idle" => status[i] = "unknown" /\ result[i] = "none"
      BY DEF SubmissionInv, ItemsExact, ItemExact, Unsent, Places
    <3>3. method = "executeMultipleProposals" /\ Halted(i) => place[i] = "idle" \/ result[i] = "skipped"
      BY DEF SubmissionInv, HaltsBehindFailure
    <3> QED BY <3>1, <3>2, <3>3
  <2> QED BY <2>1, <2>2, <2>3 DEF SubmittedInOrder
<1> QED BY <1>1, SubmissionAlways, PTL

-----------------------------------------------------------------------------
(* submitBatch(): the invariant                                            *)

\* Nothing is said of the batch itself: it is the previous one, filtered.
BatchTypes ==
    /\ round \in Nat /\ base \in Nat
    /\ outcomes \in Seq(Statuses)
    /\ firstFailureIndex \in 0 .. Len(outcomes)
    /\ pc \in {"next", "signing", "sending", "polling", "done"}
    /\ accountSeq \in Nat
    /\ \A tx \in reached : tx.seq \in Nat /\ tx.round \in Nat

\* The ledger applied or holds only what it accepted, each transaction in one of
\* its sets, and it applied nothing above its sequence number.
LedgerExact ==
    /\ pool \cup landed \cup rejected \subseteq reached
    /\ pool \cap (landed \cup rejected) = {} /\ landed \cap rejected = {}
    /\ \A tx \in landed \cup rejected : tx.seq <= accountSeq

\* What reached the ledger is of an earlier round, or at a position before the
\* current one, which is there at most when it is polled for.
SentSoFar == Len(outcomes) + (IF pc = "polling" THEN 1 ELSE 0)
ReachedInOrder ==
    \A tx \in reached : tx.round < round \/ (tx.round = round /\ tx.seq <= base + SentSoFar)

\* The loop takes a transaction up only when none has failed.
LoopExact ==
    /\ pc \in {"signing", "sending", "polling"} => firstFailureIndex = 0
    /\ FailureSplitsBatch

\* In the first round, as long as none has failed, the ledger's number is that of
\* the last outcome; it may be one ahead while the current one is polled for.
FirstRoundExact ==
    /\ round >= 1 /\ (round = 1 => base = 0)
    /\ round = 1 /\ firstFailureIndex = 0 =>
           /\ pc # "polling" => accountSeq = Len(outcomes) /\ pool = {}
           /\ pc = "polling" => \/ accountSeq = Len(outcomes) /\ pool \subseteq {Current}
                                \/ accountSeq = Len(outcomes) + 1 /\ pool = {}

BatchInv ==
    /\ BatchTypes /\ LedgerExact /\ ReachedInOrder
    /\ LoopExact /\ OutcomesTruthful /\ FirstRoundExact

-----------------------------------------------------------------------------
(* submitBatch(): the steps                                                *)

LEMMA PushAppends ==
  ASSUME BatchTypes, NEW s \in Statuses, Push(s)
  PROVE  /\ Len(outcomes) \in Nat /\ outcomes' \in Seq(Statuses) /\ Len(outcomes') = Len(outcomes) + 1
         /\ DOMAIN outcomes = 1 .. Len(outcomes) /\ DOMAIN outcomes' = 1 .. Len(outcomes) + 1
         /\ \A i \in 1 .. Len(outcomes) : outcomes'[i] = outcomes[i] /\ outcomes[i] \in Statuses
         /\ outcomes'[Len(outcomes) + 1] = s
         /\ firstFailureIndex' = IF s = "SUCCESS" \/ firstFailureIndex # 0
                                 THEN firstFailureIndex ELSE Len(outcomes) + 1
         /\ pc' = "next"
BY DEF BatchTypes, Push, Index

\* The node accepts a transaction that it has never seen, and that has the next
\* number; what is refused or lost leaves the ledger alone.
LEMMA AcceptKeepsLedger ==
  ASSUME BatchInv, pc = "sending", UNCHANGED callVars,
         UNCHANGED ledgerVars \/ Accept(Current)
  PROVE  /\ LedgerExact' /\ accountSeq' \in Nat /\ Current \notin reached
         /\ landed' = landed /\ rejected' = rejected /\ accountSeq' = accountSeq
         /\ pool' \subseteq pool \cup {Current} /\ reached' \subseteq reached \cup {Current}
         /\ \A tx \in reached' : tx.seq \in Nat /\ tx.round \in Nat
         /\ Current.seq = base + Len(outcomes) + 1 /\ Current.round = round
<1>1. Current.seq = base + Len(outcomes) + 1 /\ Current.round = round /\ Len(outcomes) \in Nat
      /\ round \in Nat /\ base \in Nat /\ accountSeq \in Nat
  BY DEF Current, Built, Index, BatchInv, BatchTypes
<1>2. Current \notin reached
  BY <1>1 DEF BatchInv, ReachedInOrder, SentSoFar
<1>3. \A tx \in reached : tx.seq \in Nat /\ tx.round \in Nat
  BY DEF BatchInv, BatchTypes
<1> HIDE DEF Current
<1>4. CASE UNCHANGED ledgerVars
  BY <1>1, <1>2, <1>3, <1>4 DEF ledgerVars, BatchInv, LedgerExact
<1>5. CASE Accept(Current)
  BY <1>1, <1>2, <1>3, <1>5 DEF Accept, BatchInv, LedgerExact
<1> QED BY <1>4, <1>5

\* An outcome is pushed.  One that is definite is true, and one that follows a
\* failure is SKIPPED.
LEMMA PushKeeps ==
  ASSUME BatchInv, NEW s \in Statuses, Push(s), UNCHANGED callVars,
         \/ UNCHANGED ledgerVars
         \/ pc = "sending" /\ s = "ERROR" /\ Accept(Current),
         pc # "done", pc = "next" => s = "SKIPPED",
         s = "SKIPPED" => pc = "next",
         s = "SUCCESS" => pc = "polling" /\ Current \in landed,
         s = "FAILED" => Current \notin landed \cup pool
  PROVE  BatchInv'
<1>0. BatchTypes /\ LedgerExact /\ ReachedInOrder /\ LoopExact /\ OutcomesTruthful /\ FirstRoundExact
  BY DEF BatchInv
<1>1. /\ round' = round /\ base' = base /\ batch' = batch
      /\ \A i : Built(i)' = Built(i) /\ Built(i).seq = base + i /\ Built(i).round = round
  BY DEF callVars, Built
<1>2. /\ Len(outcomes) \in Nat /\ outcomes' \in Seq(Statuses) /\ Len(outcomes') = Len(outcomes) + 1
      /\ DOMAIN outcomes = 1 .. Len(outcomes) /\ DOMAIN outcomes' = 1 .. Len(outcomes) + 1
      /\ \A i \in 1 .. Len(outcomes) : outcomes'[i] = outcomes[i] /\ outcomes[i] \in Statuses
      /\ outcomes'[Len(outcomes) + 1] = s
      /\ firstFailureIndex' = IF s = "SUCCESS" \/ firstFailureIndex # 0
                              THEN firstFailureIndex ELSE Len(outcomes) + 1
      /\ pc' = "next"
  BY <1>0, PushAppends
<1>3. Current = Built(Len(outcomes) + 1)
  BY DEF Current, Index
<1>4. /\ LedgerExact' /\ accountSeq' \in Nat /\ landed' = landed /\ rejected' = rejected
      /\ pool' \subseteq pool \cup {Current} /\ reached' \subseteq reached \cup {Current}
      /\ s # "ERROR" => pool' = pool /\ reached' = reached
      /\ \A tx \in reached' : tx.seq \in Nat /\ tx.round \in Nat
  <2>1. CASE UNCHANGED ledgerVars
    BY <1>0, <2>1 DEF ledgerVars, LedgerExact, BatchTypes
  <2>2. CASE pc = "sending" /\ s = "ERROR" /\ Accept(Current)
    BY <2>2, AcceptKeepsLedger
  <2> QED BY <2>1, <2>2
<1>5. BatchTypes'
  BY <1>0, <1>1, <1>2, <1>4 DEF BatchTypes
<1>6. ReachedInOrder'
  <2> SUFFICES ASSUME NEW tx \in reached'
               PROVE  tx.round < round \/ (tx.round = round /\ tx.seq <= base + Len(outcomes) + 1)
    BY <1>1, <1>2, <1>0 DEF ReachedInOrder, SentSoFar, BatchTypes
  <2>1. CASE tx \in reached
    BY <1>0, <1>2, <2>1 DEF ReachedInOrder, SentSoFar, BatchTypes
  <2>2. CASE tx = Current
    BY <1>0, <1>1, <1>2, <1>3, <2>2 DEF BatchTypes
  <2> QED BY <1>4, <2>1, <2>2
<1>7. LoopExact'
  <2>0. /\ firstFailureIndex \in 0 .. Len(outcomes)
        /\ firstFailureIndex # 0 => s = "SKIPPED"
        /\ \A i \in 1 .. Len(outcomes) :
              /\ firstFailureIndex = 0 \/ i < firstFailureIndex <=> outcomes[i] = "SUCCESS"
              /\ firstFailureIndex # 0 /\ i > firstFailureIndex => outcomes[i] = "SKIPPED"
    BY <1>0, <1>2 DEF LoopExact, FailureSplitsBatch, BatchTypes
  <2>1. FailureSplitsBatch'
    <3> SUFFICES ASSUME NEW i \in 1 .. Len(outcomes) + 1
                 PROVE  /\ firstFailureIndex' = 0 \/ i < firstFailureIndex' <=> outcomes'[i] = "SUCCESS"
                        /\ firstFailureIndex' # 0 /\ i > firstFailureIndex' => outcomes'[i] = "SKIPPED"
      BY <1>2 DEF FailureSplitsBatch
    <3>1. CASE i = Len(outcomes) + 1
      BY <1>2, <2>0, <3>1
    <3>2. CASE i \in 1 .. Len(outcomes)
      BY <1>2, <2>0, <3>2
    <3> QED BY <1>2, <3>1, <3>2
  <2> QED BY <1>2, <2>1 DEF LoopExact
<1>8. OutcomesTruthful'
  <2> SUFFICES ASSUME NEW i \in 1 .. Len(outcomes) + 1
               PROVE  /\ outcomes'[i] = "SUCCESS" => Built(i) \in landed
                      /\ outcomes'[i] = "FAILED" => Built(i) \notin landed \cup pool'
                      /\ outcomes'[i] = "SKIPPED" => Built(i) \notin reached'
    BY <1>1, <1>2, <1>4 DEF OutcomesTruthful
  <2>1. CASE i = Len(outcomes) + 1
    <3>1. s = "SKIPPED" => Built(i) \notin reached
      BY <1>0, <1>1, <1>2, <2>1 DEF ReachedInOrder, SentSoFar, BatchTypes
    <3> QED BY <1>2, <1>3, <1>4, <2>1, <3>1
  <2>2. CASE i \in 1 .. Len(outcomes)
    <3>1. Built(i) # Current
      BY <1>0, <1>1, <1>2, <1>3, <2>2 DEF BatchTypes
    <3> QED BY <1>0, <1>2, <1>4, <2>2, <3>1 DEF OutcomesTruthful
  <2> QED BY <1>2, <2>1, <2>2
<1>9. FirstRoundExact'
  <2>1. CASE round = 1 /\ firstFailureIndex = 0 /\ s = "SUCCESS"
    <3>1. /\ pc = "polling" /\ base = 0 /\ Current \in landed /\ s # "ERROR"
          /\ accountSeq' = accountSeq /\ pool' = pool
      BY <1>0, <2>1 DEF FirstRoundExact, ledgerVars
    <3>2. Current.seq = Len(outcomes) + 1 /\ Current.seq <= accountSeq /\ Current \notin pool
      BY <1>0, <1>1, <1>2, <1>3, <3>1 DEF LedgerExact
    <3>3. accountSeq = Len(outcomes) + 1 /\ pool = {}
      BY <1>0, <1>2, <2>1, <3>1, <3>2 DEF FirstRoundExact
    <3> QED BY <1>0, <1>1, <1>2, <2>1, <3>1, <3>3 DEF FirstRoundExact
  <2>2. CASE round = 1 /\ (firstFailureIndex # 0 \/ s # "SUCCESS")
    BY <1>0, <1>1, <1>2, <2>2 DEF FirstRoundExact
  <2>3. CASE round # 1
    BY <1>0, <1>1, <2>3 DEF FirstRoundExact
  <2> QED BY <2>1, <2>2, <2>3
<1> QED BY <1>4, <1>5, <1>6, <1>7, <1>8, <1>9 DEF BatchInv

\* The loop moves on to the next await of the same transaction.
LEMMA GotoKeeps ==
  ASSUME BatchInv, NEW to \in {"signing", "sending", "polling", "done"}, Goto(to), UNCHANGED callVars,
         \/ UNCHANGED ledgerVars
         \/ pc = "sending" /\ to = "polling" /\ Accept(Current),
         pc # "polling", to \in {"signing", "sending", "polling"} => firstFailureIndex = 0
  PROVE  BatchInv'
<1>0. BatchTypes /\ LedgerExact /\ ReachedInOrder /\ LoopExact /\ OutcomesTruthful /\ FirstRoundExact
  BY DEF BatchInv
<1>1. /\ round' = round /\ base' = base /\ batch' = batch /\ pc' = to
      /\ outcomes' = outcomes /\ firstFailureIndex' = firstFailureIndex /\ Len(outcomes) \in Nat
      /\ \A i : Built(i)' = Built(i) /\ Built(i).seq = base + i /\ Built(i).round = round
  BY <1>0 DEF callVars, Built, Goto, BatchTypes
<1>2. Current = Built(Len(outcomes) + 1) /\ Current' = Current
  BY <1>1 DEF Current, Index
<1>3. /\ LedgerExact' /\ accountSeq' = accountSeq /\ landed' = landed /\ rejected' = rejected
      /\ pool' \subseteq pool \cup {Current} /\ reached' \subseteq reached \cup {Current}
      /\ to # "polling" => pool' = pool /\ reached' = reached
      /\ \A tx \in reached' : tx.seq \in Nat /\ tx.round \in Nat
  <2>1. CASE UNCHANGED ledgerVars
    BY <1>0, <2>1 DEF ledgerVars, LedgerExact, BatchTypes
  <2>2. CASE pc = "sending" /\ to = "polling" /\ Accept(Current)
    BY <2>2, AcceptKeepsLedger
  <2> QED BY <2>1, <2>2
<1>4. BatchTypes'
  BY <1>0, <1>1, <1>3 DEF BatchTypes
<1>5. ReachedInOrder'
  <2> SUFFICES ASSUME NEW tx \in reached'
               PROVE  tx.round < round \/ (tx.round = round /\ tx.seq <= base + SentSoFar')
    BY <1>1 DEF ReachedInOrder
  <2>1. CASE tx \in reached
    BY <1>0, <1>1, <2>1 DEF ReachedInOrder, SentSoFar, BatchTypes
  <2>2. CASE tx = Current /\ to = "polling"
    BY <1>0, <1>1, <1>2, <2>2 DEF BatchTypes, SentSoFar
  <2> QED BY <1>3, <2>1, <2>2
<1>6. LoopExact'
  BY <1>0, <1>1 DEF LoopExact, FailureSplitsBatch
<1>7. OutcomesTruthful'
  <2>1. \A i \in DOMAIN outcomes : Built(i) # Current
    BY <1>0, <1>1, <1>2 DEF BatchTypes
  <2> QED BY <1>0, <1>1, <1>3, <2>1 DEF OutcomesTruthful
<1>8. FirstRoundExact'
  BY <1>0, <1>1, <1>2, <1>3 DEF FirstRoundExact
<1> QED BY <1>3, <1>4, <1>5, <1>6, <1>7, <1>8 DEF BatchInv

LEMMA LoopKeeps ==
  ASSUME BatchInv, Step PROVE BatchInv'
<1>0. BatchTypes /\ LedgerExact /\ LoopExact
  BY DEF BatchInv
<1>1. CASE Skip
  BY <1>1, PushKeeps DEF Skip, Statuses
<1>2. CASE StartTransaction
  BY <1>2, GotoKeeps DEF StartTransaction
<1>3. CASE Sign
  <2>1. CASE Goto("sending")
    BY <1>0, <1>3, <2>1, GotoKeeps DEF Sign, LoopExact
  <2>2. CASE Push("ERROR")
    BY <1>3, <2>2, PushKeeps DEF Sign, Statuses
  <2> QED BY <1>3, <2>1, <2>2 DEF Sign
<1>4. CASE Send
  <2>0. pc = "sending" /\ UNCHANGED callVars /\ firstFailureIndex = 0
    BY <1>0, <1>4 DEF Send, LoopExact
  <2>1. CASE (Accept(Current) \/ UNCHANGED ledgerVars) /\ Goto("polling")
    BY <2>0, <2>1, GotoKeeps
  <2>2. CASE UNCHANGED ledgerVars /\ Push("FAILED")
    <3>1. Current \notin landed \cup pool
      BY <1>0, <2>0, <2>2, AcceptKeepsLedger DEF LedgerExact
    <3> QED BY <2>0, <2>2, <3>1, PushKeeps DEF Statuses
  <2> QED BY <1>4, <2>1, <2>2 DEF Send
<1>5. CASE SendThrows
  BY <1>5, PushKeeps DEF SendThrows, Statuses
<1>6. CASE Poll
  <2>0. pc = "polling" /\ UNCHANGED callVars /\ UNCHANGED ledgerVars
    BY <1>6 DEF Poll
  <2>1. CASE Current \in landed /\ Push("SUCCESS")
    BY <2>0, <2>1, PushKeeps DEF Statuses
  <2>2. CASE Current \in rejected /\ Push("FAILED")
    <3>1. Current \notin landed \cup pool
      BY <1>0, <2>2 DEF LedgerExact
    <3> QED BY <2>0, <2>2, <3>1, PushKeeps DEF Statuses
  <2>3. CASE UNCHANGED <<outcomes, firstFailureIndex, pc>>
    BY <2>0, <2>3 DEF callVars, ledgerVars, BatchInv, BatchTypes, LedgerExact, ReachedInOrder, SentSoFar,
       LoopExact, FailureSplitsBatch, OutcomesTruthful, FirstRoundExact, Current, Built, Index
  <2> QED BY <1>6, <2>1, <2>2, <2>3 DEF Poll
<1>7. CASE PollGivesUp
  BY <1>7, PushKeeps DEF PollGivesUp, Statuses
<1>8. CASE Finish
  BY <1>8, GotoKeeps DEF Finish
<1> QED BY <1>1, <1>2, <1>3, <1>4, <1>5, <1>6, <1>7, <1>8 DEF Step

\* A new round has no outcome yet, and everything that reached the ledger is of
\* an earlier one.
LEMMA RetryKeeps ==
  ASSUME BatchInv, Retry PROVE BatchInv'
<1> USE DEF BatchInv, Retry, ledgerVars
<1>1. BatchTypes'
  BY DEF BatchTypes
<1>2. LedgerExact'
  BY DEF LedgerExact
<1>3. ReachedInOrder'
  BY DEF ReachedInOrder, BatchTypes
<1>4. LoopExact' /\ OutcomesTruthful'
  BY DEF LoopExact, FailureSplitsBatch, OutcomesTruthful
<1>5. FirstRoundExact'
  BY DEF FirstRoundExact, BatchTypes
<1> QED BY <1>1, <1>2, <1>3, <1>4, <1>5

\* The ledger applies, or drops, a transaction it holds.
LEMMA LedgerStepKeeps ==
  ASSUME BatchInv, NEW tx \in pool, Apply(tx) \/ Expire(tx) PROVE BatchInv'
<1>0. BatchTypes /\ LedgerExact /\ ReachedInOrder /\ LoopExact /\ OutcomesTruthful /\ FirstRoundExact
  BY DEF BatchInv
<1>1. /\ UNCHANGED <<callVars, loopVars, aborted, reached>>
      /\ pool' = pool \ {tx} /\ landed \subseteq landed' /\ rejected \subseteq rejected'
      /\ landed' \subseteq landed \cup {tx} /\ rejected' \subseteq rejected \cup {tx}
      /\ landed' = landed \/ rejected' = rejected
      /\ \/ accountSeq' = accountSeq + 1 /\ tx.seq = accountSeq + 1
         \/ accountSeq' = accountSeq /\ landed' = landed /\ rejected' = rejected
  BY DEF Apply, Expire
<1>2. /\ UNCHANGED <<round, batch, base, outcomes, firstFailureIndex, pc>>
      /\ \A i : Built(i)' = Built(i)
      /\ Current' = Current
  BY <1>1 DEF callVars, loopVars, Built, Current, Index
<1>3. accountSeq \in Nat /\ tx \in reached /\ \A t \in reached : t.seq \in Nat
  BY <1>0 DEF BatchTypes, LedgerExact
<1>4. BatchTypes'
  BY <1>0, <1>1, <1>2, <1>3 DEF BatchTypes
<1>5. LedgerExact'
  <2>1. \A t \in landed' \cup rejected' : t.seq <= accountSeq'
    BY <1>0, <1>1, <1>3 DEF LedgerExact
  <2> QED BY <1>0, <1>1, <2>1 DEF LedgerExact
<1>6. ReachedInOrder' /\ LoopExact'
  BY <1>0, <1>1, <1>2 DEF ReachedInOrder, SentSoFar, LoopExact, FailureSplitsBatch
<1>7. OutcomesTruthful'
  BY <1>0, <1>1, <1>2 DEF OutcomesTruthful
<1>8. FirstRoundExact'
  BY <1>0, <1>1, <1>2, <1>3 DEF FirstRoundExact
<1> QED BY <1>4, <1>5, <1>6, <1>7, <1>8 DEF BatchInv

LEMMA BatchInductive ==
  BatchInv /\ [Next]_vars => BatchInv'
<1> SUFFICES ASSUME BatchInv, [Next]_vars PROVE BatchInv'
  OBVIOUS
<1>1. ASSUME UNCHANGED <<callVars, loopVars, ledgerVars>> PROVE BatchInv'
  BY <1>1 DEF callVars, loopVars, ledgerVars, BatchInv, BatchTypes, LedgerExact, ReachedInOrder, SentSoFar,
     LoopExact, FailureSplitsBatch, OutcomesTruthful, FirstRoundExact, Current, Built, Index
<1>2. CASE Abort \/ UNCHANGED vars
  BY <1>1, <1>2 DEF Abort, vars
<1>3. CASE Next /\ ~Abort
  BY <1>3, LoopKeeps, RetryKeeps, LedgerStepKeeps DEF Next, Step
<1> QED BY <1>2, <1>3

LEMMA BatchStarts == Init => BatchInv
<1> SUFFICES ASSUME Init PROVE BatchInv
  OBVIOUS
<1>1. BatchTypes /\ LedgerExact /\ ReachedInOrder
  BY DEF Init, BatchTypes, LedgerExact, ReachedInOrder
<1>2. LoopExact /\ OutcomesTruthful /\ FirstRoundExact
  BY DEF Init, LoopExact, FailureSplitsBatch, OutcomesTruthful, FirstRoundExact
<1> QED BY <1>1, <1>2 DEF BatchInv

LEMMA BatchAlways == Spec => []BatchInv
BY BatchStarts, BatchInductive, PTL DEF Spec

\* SUCCESS, FAILED and SKIPPED of submitBatch() are true for any number of
\* operations, polls and retries, whatever the ledger loses, drops or delays.
THEOREM OutcomesAlwaysTruthful == Spec => []OutcomesTruthful
<1>1. BatchInv => OutcomesTruthful
  BY DEF BatchInv
<1> QED BY <1>1, BatchAlways, PTL

\* A batch is sent one after the other as far as the first failure, and the
\* first round never sends a number the ledger would refuse.
THEOREM BatchAlwaysInOrder == Spec => []BatchInOrder
<1>1. BatchInv => BatchInOrder
  <2> SUFFICES ASSUME BatchInv PROVE BatchInOrder
    OBVIOUS
  <2>1. FailureSplitsBatch
    BY DEF BatchInv, LoopExact
  <2>2. SequenceCurrent
    <3> SUFFICES ASSUME round = 1, pc = "sending" PROVE Current.seq = accountSeq + 1 /\ pool = {}
      BY DEF SequenceCurrent
    <3>1. accountSeq = Len(outcomes) /\ pool = {} /\ base = 0
      BY DEF BatchInv, LoopExact, FirstRoundExact
    <3>2. Current.seq = base + Len(outcomes) + 1
      BY DEF Current, Built, Index, BatchInv, BatchTypes
    <3> QED BY <3>1, <3>2 DEF BatchInv, BatchTypes
  <2> QED BY <2>1, <2>2 DEF BatchInOrder
<1> QED BY <1>1, BatchAlways, PTL

-----------------------------------------------------------------------------
(* Building a batch                                                        *)

USE BuildAssumption

LEMMA IsSequence ==
    ASSUME NEW S, NEW n \in Nat, NEW f \in [1 .. n -> S]
    PROVE f \in Seq(S) /\ Len(f) = n /\ DOMAIN f = 1 .. n
OBVIOUS

\* Division by a positive number: the quotient and what is left of it.
LEMMA QuotientIs ==
    ASSUME NEW a \in Nat, NEW b \in Nat \ {0}
    PROVE /\ a \div b \in Nat /\ a % b \in Nat
          /\ (a \div b) * b + (a % b) = a /\ a % b < b
<1>1. a \div b \in Nat
  OBVIOUS
<1>2. a % b \in Nat /\ a % b < b
  OBVIOUS
<1>3. a = (a \div b) * b + (a % b)
  OBVIOUS
<1> QED BY <1>1, <1>2, <1>3

\* The multiples of a number grow with their factor, by the number at least.
LEMMA MultiplesGrow ==
    ASSUME NEW s \in Nat, NEW c \in Nat, NEW d \in Nat, c < d
    PROVE c * s \in Nat /\ d * s \in Nat /\ c * s + s <= d * s
<1>1. /\ c * s \in Nat /\ d * s \in Nat /\ (d - c - 1) * s \in Nat
  <2>1. d - c - 1 \in Nat
    OBVIOUS
  <2> QED BY <2>1
<1>2. d * s = c * s + s + (d - c - 1) * s
  OBVIOUS
<1> QED BY <1>1, <1>2

\* Whatever the size of a chunk, the chunks are the batch.
LEMMA ChunksAlwaysCover ==
    ASSUME NEW S, operations \in Seq(S), NEW size \in Nat \ {0}
    PROVE ChunksCover(size)
<1> DEFINE n == Len(operations)
           K == (n + size - 1) \div size
           Low(c) == (c - 1) * size
           High(c) == IF c * size < n THEN c * size ELSE n
           pieces == ChunkBatchOperations(operations, size)
<1>1. n \in Nat /\ DOMAIN operations = 1 .. n /\ \A i \in 1 .. n : operations[i] \in S
  OBVIOUS
<1> HIDE DEF n
<1>2. K \in Nat /\ K * size \in Nat /\ n <= K * size /\ K * size < n + size
  <2>1. n + size - 1 \in Nat /\ size \in Nat
    BY <1>1
  <2>2. K \in Nat /\ \E m \in Nat : m < size /\ K * size + m = n + size - 1
    BY <2>1, QuotientIs
  <2> HIDE DEF K
  <2>3. K * size \in Nat
    BY <2>2
  <2> DEFINE p == K * size
  <2>4. PICK m \in Nat : p \in Nat /\ m < size /\ p + m = n + size - 1
    BY <2>2, <2>3
  <2> HIDE DEF p
  <2>5. n <= p /\ p < n + size
    BY <1>1, <2>4
  <2> QED BY <2>2, <2>3, <2>5 DEF p
<1>3. pieces = [c \in 1 .. K |-> SubSeq(operations, Low(c) + 1, High(c))]
  BY DEF ChunkBatchOperations, n
<1> HIDE DEF K
<1>4. ASSUME NEW c \in 1 .. K
      PROVE /\ Low(c) \in Nat /\ c * size = Low(c) + size /\ Low(c) < n
            /\ High(c) \in 1 .. n /\ High(c) - Low(c) \in 1 .. size
  <2>1. c - 1 \in Nat /\ c - 1 < K /\ c \in Nat /\ K \in Nat /\ size \in Nat
    BY <1>2
  <2>2. Low(c) \in Nat /\ Low(c) + size <= K * size
    BY <2>1, MultiplesGrow
  <2>3. c * size = Low(c) + size
    BY <2>1
  <2> DEFINE lo == Low(c)
             cs == c * size
             all == K * size
  <2>4. lo \in Nat /\ lo + size <= all /\ cs = lo + size /\ all \in Nat /\ all < n + size
    BY <1>2, <2>2, <2>3
  <2> HIDE DEF lo, cs, all
  <2>5. lo < n
    BY <1>1, <2>4
  <2>6. (IF cs < n THEN cs ELSE n) \in 1 .. n /\ (IF cs < n THEN cs ELSE n) - lo \in 1 .. size
    BY <1>1, <2>4, <2>5
  <2> QED BY <2>2, <2>3, <2>5, <2>6 DEF lo, cs
<1>5. ASSUME NEW c \in 1 .. K
      PROVE /\ pieces[c] \in Seq(S) /\ Len(pieces[c]) = High(c) - Low(c)
            /\ \A k \in 1 .. High(c) - Low(c) : pieces[c][k] = operations[Low(c) + k]
  <2> DEFINE lo == Low(c)
             hi == High(c)
  <2>1. /\ lo \in Nat /\ hi \in 1 .. n /\ hi - lo \in 1 .. size
    BY <1>4
  <2>2. pieces[c] = SubSeq(operations, lo + 1, hi)
    BY <1>3
  <2> HIDE DEF lo, hi
  <2>3. /\ SubSeq(operations, lo + 1, hi) \in Seq(S) /\ Len(SubSeq(operations, lo + 1, hi)) = hi - lo
        /\ \A k \in 1 .. hi - lo : SubSeq(operations, lo + 1, hi)[k] = operations[lo + k]
    BY <1>1, <2>1
  <2> QED BY <2>2, <2>3 DEF lo, hi
<1>6. DOMAIN pieces = 1 .. K /\ Len(pieces) = K
  <2>1. pieces \in [1 .. K -> Seq(S)]
    BY <1>3, <1>5
  <2> HIDE DEF pieces
  <2> QED BY <1>2, <2>1, IsSequence
<1> HIDE DEF pieces
<1>7. ASSUME NEW i \in DOMAIN operations
      PROVE pieces[((i - 1) \div size) + 1][((i - 1) % size) + 1] = operations[i]
  <2> DEFINE q == (i - 1) \div size
             m == (i - 1) % size
             lo == q * size
  <2>1. i \in 1 .. n /\ i \in Nat /\ i - 1 \in Nat /\ size \in Nat
    BY <1>1
  <2>2. q \in Nat /\ m \in Nat /\ q * size + m = i - 1 /\ m < size
    BY <2>1, QuotientIs
  <2> HIDE DEF q, m
  <2>3. lo \in Nat /\ lo + m = i - 1
    BY <2>1, <2>2
  <2>4. q < K
    <3> SUFFICES ASSUME K <= q PROVE FALSE
      BY <1>2, <2>2
    <3>1. K * size <= lo
      <4>1. CASE K = q
        BY <1>2, <2>3, <4>1
      <4>2. CASE K # q
        <5>1. K < q
          BY <1>2, <2>2, <4>2
        <5>2. K * size + size <= q * size
          BY <1>2, <2>1, <2>2, <5>1, MultiplesGrow
        <5> QED BY <1>2, <2>1, <2>3, <5>2
      <4> QED BY <4>1, <4>2
    <3> DEFINE all == K * size
    <3>2. all \in Nat /\ n <= all /\ all <= lo
      BY <1>2, <3>1
    <3> HIDE DEF all, lo
    <3> QED BY <1>1, <2>1, <2>2, <2>3, <3>2
  <2> DEFINE c == q + 1
  <2>5. c \in 1 .. K /\ c - 1 = q
    BY <1>2, <2>2, <2>4
  <2>6. Low(c) = lo
    BY <2>5
  <2>7. /\ c * size = lo + size /\ High(c) = (IF lo + size < n THEN lo + size ELSE n)
    BY <1>4, <2>5, <2>6
  <2> HIDE DEF lo, c
  <2>8. m + 1 \in 1 .. High(c) - Low(c) /\ lo + (m + 1) = i
    <3>1. m + 1 \in 1 .. (IF lo + size < n THEN lo + size ELSE n) - lo /\ lo + (m + 1) = i
      BY <1>1, <2>1, <2>2, <2>3
    <3> HIDE DEF Low, High
    <3> QED BY <2>6, <2>7, <3>1
  <2>9. pieces[c][m + 1] = operations[lo + (m + 1)]
    <3> HIDE DEF High
    <3> QED BY <1>5, <2>5, <2>6, <2>8
  <2> QED BY <2>8, <2>9 DEF c, q, m
<1>8. \A c \in 1 .. K : Len(pieces[c]) \in 1 .. size
  <2> HIDE DEF Low, High
  <2> QED BY <1>4, <1>5
<1> QED BY <1>2, <1>6, <1>7, <1>8 DEF ChunksCover, pieces, n

\* The named parameters of an operation go into its map sorted and typed.
LEMMA MapsFaithful ==
    ASSUME NEW operation \in Operation
    PROVE MapFaithful(operation, OperationToScVals(operation))
<1>1. CASE operation.list \/ operation.params = <<>>
  BY <1>1 DEF MapFaithful
<1>2. CASE ~operation.list /\ operation.params # <<>>
  <2> DEFINE first == [key |-> 2, value |-> "address", type |-> NoType]
             second == [key |-> 1, value |-> "plain", type |-> "i128"]
             args == OperationToScVals(operation)
             sorted == <<second, first>>
  <2>1. operation.params = <<first, second>>
    BY <1>2 DEF Operation
  <2>2. SortedByKey(operation.params) = sorted
    BY <2>1 DEF SortedByKey
  <2>3. args = <<[i \in 1 .. 2 |->
                    [key |-> sorted[i].key, val |-> ParamToScVal(sorted[i].value, sorted[i].type)]]>>
    BY <1>2, <2>2 DEF OperationToScVals
  <2>4. /\ Len(args) = 1 /\ DOMAIN args[1] = 1 .. 2
        /\ args[1][1].key = 1 /\ args[1][1].val = "i128" /\ args[1][2].key = 2
    <3>1. ParamToScVal("plain", "i128") = "i128"
      BY DEF ParamToScVal, NoType
    <3> QED BY <2>3, <3>1
  <2> HIDE DEF args, sorted
  <2>5. DOMAIN operation.params = 1 .. 2 /\ operation.params[1] = first /\ operation.params[2] = second
    BY <2>1
  <2>6. {operation.params[k] : k \in DOMAIN operation.params} = {first, second}
    BY <2>5
  <2>7. {operation.params[k].key : k \in DOMAIN operation.params} = {1, 2}
    BY <2>5
  <2>8. {args[1][j].key : j \in DOMAIN args[1]} = {1, 2}
    BY <2>4
  <2>9. \A j, k \in DOMAIN args[1] : j < k => args[1][j].key < args[1][k].key
    BY <2>4
  <2>10. \A j \in DOMAIN args[1] : \A p \in {first, second} :
            p.key = args[1][j].key /\ p.type # NoType /\ p.value \in {"plain", "address"} =>
                args[1][j].val = p.type
    BY <2>4
  <2> QED BY <2>4, <2>6, <2>7, <2>8, <2>9, <2>10 DEF MapFaithful, args
<1> QED BY <1>1, <1>2

\* Of a build that is over: what BuiltExactly says of what it gave out.
BuiltOK ==
    /\ DOMAIN builtTransactions = DOMAIN operations
    /\ \A i \in DOMAIN builtTransactions :
          /\ builtTransactions[i].index = i
          /\ builtTransactions[i].sequence =
                1 + (IF i = 1 THEN readSequence ELSE builtTransactions[i - 1].sequence)
          /\ builtTransactions[i].network # "none"
          /\ context.networkPassphrase = "given" => builtTransactions[i].network = "given"
          /\ MapFaithful(operations[i], builtTransactions[i].args)
          /\ builtTransactions[i].prepared => i \in DOMAIN answers /\ answers[i] = "ok"
    /\ context.sequence # NoSequence => readSequence = context.sequence
ReportsOK ==
    /\ DOMAIN reports = DOMAIN operations
    /\ \A i \in DOMAIN reports : reports[i].index = i /\ (reports[i].success <=> answers[i] = "ok")

\* While simulations are out there is one for each operation, the network is
\* settled, and so is the number the transactions will be built on.
SimulatingOK ==
    /\ answers \in [DOMAIN operations -> {"pending", "ok", "error", "lost"}]
    /\ readSequence \in Nat /\ ResolvePassphrase # "none"
    /\ context.sequence # NoSequence => readSequence = context.sequence

BuildInv ==
    /\ operations \in Seq(Operation) /\ context \in Context
    /\ buildStep \in {"idle", "account", "simulating", "over"}
    /\ buildOutcome \in {"none", "built", "reported", "rejected"}
    /\ buildStep # "over" => buildOutcome = "none"
    /\ buildOutcome # "built" => builtTransactions = <<>>
    /\ buildStep = "account" => context.sequence = NoSequence
    /\ buildStep = "simulating" => SimulatingOK
    /\ buildOutcome = "built" => BuiltOK
    /\ buildOutcome = "reported" => ReportsOK

LEMMA InitBuild == BuildInit => BuildInv
<1> SUFFICES ASSUME BuildInit PROVE BuildInv
  OBVIOUS
<1>1. operations \in Seq(Operation)
  <2>1. PICK n \in 0 .. MaxOperations : operations \in [1 .. n -> Operation]
    BY DEF BuildInit
  <2> QED BY <2>1, IsSequence
<1> QED BY <1>1 DEF BuildInit, BuildInv

\* All transactions of a batch, from the number that follows the account's.
LEMMA AllBuiltOK ==
    ASSUME BuildInv, NEW first \in Nat, readSequence' = first, builtTransactions' = AllBuilt(first),
           UNCHANGED <<operations, context>>, ResolvePassphrase # "none",
           context.sequence # NoSequence => first = context.sequence,
           context.rpcUrl => \A i \in DOMAIN operations : i \in DOMAIN answers' /\ answers'[i] = "ok"
    PROVE BuiltOK'
<1> DEFINE n == Len(operations)
           done == AllBuilt(first)
<1>1. n \in Nat /\ DOMAIN operations = 1 .. n
  BY DEF BuildInv
<1>2. DOMAIN done = 1 .. n
  BY <1>1 DEF AllBuilt
<1>3. ASSUME NEW i \in 1 .. n
      PROVE /\ done[i].index = i /\ done[i].sequence = first + (i - 1) + 1
            /\ done[i].network = ResolvePassphrase /\ done[i].args = OperationToScVals(operations[i])
            /\ done[i].prepared = context.rpcUrl
  <2>1. done[i] = BuiltTransaction(i, first)
    BY <1>1 DEF AllBuilt
  <2> HIDE DEF done
  <2>2. /\ done[i].index = i /\ done[i].sequence = first + (i - 1) + 1
        /\ done[i].network = ResolvePassphrase /\ done[i].args = OperationToScVals(operations[i])
    BY <2>1 DEF BuiltTransaction
  <2>3. done[i].prepared = context.rpcUrl
    <3>1. BuiltTransaction(i, first).prepared = context.rpcUrl
      BY Zenon DEF BuiltTransaction
    <3> QED BY <2>1, <3>1, Zenon
  <2> QED BY <2>2, <2>3, Zenon
<1>4. \A i \in 1 .. n : done[i].sequence = 1 + (IF i = 1 THEN first ELSE done[i - 1].sequence)
  <2> SUFFICES ASSUME NEW i \in 1 .. n
               PROVE done[i].sequence = 1 + (IF i = 1 THEN first ELSE done[i - 1].sequence)
    OBVIOUS
  <2>1. CASE i = 1
    <3> HIDE DEF done
    <3> QED BY <1>3, <2>1
  <2>2. CASE i # 1
    <3>1. i - 1 \in 1 .. n
      BY <1>1, <2>2
    <3> HIDE DEF done
    <3>2. done[i].sequence = first + (i - 1) + 1 /\ done[i - 1].sequence = first + ((i - 1) - 1) + 1
      BY <1>3, <3>1
    <3> QED BY <1>1, <2>2, <3>2
  <2> QED BY <2>1, <2>2
<1>5. context.networkPassphrase = "given" => ResolvePassphrase = "given"
  BY DEF ResolvePassphrase
<1>6. \A i \in 1 .. n : MapFaithful(operations[i], done[i].args)
  <2> SUFFICES ASSUME NEW i \in 1 .. n PROVE MapFaithful(operations[i], done[i].args)
    OBVIOUS
  <2>1. operations[i] \in Operation
    BY <1>1 DEF BuildInv
  <2>2. MapFaithful(operations[i], OperationToScVals(operations[i]))
    BY <2>1, MapsFaithful
  <2> QED BY <1>3, <2>2
<1>7. builtTransactions' = done /\ operations' = operations /\ context' = context
  OBVIOUS
<1> HIDE DEF done
<1>8. \A i \in 1 .. n : done[i].prepared => i \in DOMAIN answers' /\ answers'[i] = "ok"
  BY <1>1, <1>3, Zenon
<1>9. \A i \in 1 .. n : \A t : t = operations[i] /\ MapFaithful(t, done[i].args)
         => MapFaithful(operations'[i], builtTransactions'[i].args)
  BY <1>7, Zenon
<1>10. DOMAIN builtTransactions' = 1 .. n /\ DOMAIN operations' = 1 .. n
  BY <1>1, <1>2, <1>7
<1>11. ASSUME NEW i \in 1 .. n
       PROVE /\ builtTransactions'[i].index = i
             /\ builtTransactions'[i].sequence =
                   1 + (IF i = 1 THEN readSequence' ELSE builtTransactions'[i - 1].sequence)
             /\ builtTransactions'[i].network # "none"
             /\ context'.networkPassphrase = "given" => builtTransactions'[i].network = "given"
             /\ builtTransactions'[i].prepared => i \in DOMAIN answers' /\ answers'[i] = "ok"
  <2>1. i \in 1 .. n => readSequence' = first
    OBVIOUS
  <2> QED BY <1>3, <1>4, <1>5, <1>7, <1>8, <2>1
<1> QED BY <1>6, <1>7, <1>10, <1>11 DEF BuiltOK

\* A build that rejects, at the start, with the account or with a simulation.
LEMMA RejectsKeep ==
    ASSUME BuildInv, BuildOver("rejected"), builtTransactions = <<>>,
           UNCHANGED <<operations, context, builtTransactions>>
    PROVE BuildInv'
BY DEF BuildInv, BuildOver

\* The number the transactions are built on, named by the context or the ledger.
LEMMA PrepareKeeps ==
    ASSUME BuildInv, buildStep \in {"idle", "account"}, NEW first \in Nat, Prepare(first),
           context.sequence # NoSequence => first = context.sequence, UNCHANGED <<operations, context>>
    PROVE BuildInv'
<1>0. buildOutcome = "none" /\ builtTransactions = <<>>
  BY DEF BuildInv
<1>1. CASE ResolvePassphrase = "none" \/ ~AllNamed
  BY <1>0, <1>1, RejectsKeep DEF Prepare, BuildRejects
<1>2. CASE ~(ResolvePassphrase = "none" \/ ~AllNamed)
  <2>1. /\ buildStep' = "simulating" /\ answers' = [i \in DOMAIN operations |-> "pending"]
        /\ readSequence' = first /\ UNCHANGED <<buildOutcome, builtTransactions, reports>>
    BY <1>2 DEF Prepare
  <2>2. SimulatingOK'
    BY <1>2, <2>1 DEF SimulatingOK, ResolvePassphrase
  <2> QED BY <1>0, <2>1, <2>2 DEF BuildInv
<1> QED BY <1>1, <1>2

LEMMA StepKeepsBuild == BuildInv /\ [BuildNext]_buildVars => BuildInv'
<1> SUFFICES ASSUME BuildInv, [BuildNext]_buildVars PROVE BuildInv'
  OBVIOUS
<1>1. CASE BuildStarts
  <2>0. /\ buildStep = "idle" /\ buildOutcome = "none" /\ builtTransactions = <<>>
        /\ UNCHANGED <<operations, context>> /\ context.sequence \in Nat \cup {NoSequence}
    BY <1>1 DEF BuildStarts, BuildInv, Context
  <2>1. CASE ~ContextIsValid \/ (buildKind = "simulate" /\ ~context.rpcUrl)
    BY <1>1, <2>0, <2>1, RejectsKeep DEF BuildStarts, BuildRejects
  <2>2. CASE ContextIsValid /\ ~context.rpcUrl /\ ~(buildKind = "simulate" /\ ~context.rpcUrl)
    <3>1. context.sequence \in Nat /\ readSequence' = context.sequence
      BY <1>1, <2>0, <2>2 DEF BuildStarts, ContextIsValid
    <3>2. CASE ResolvePassphrase = "none" \/ ~AllNamed
      BY <1>1, <2>0, <2>2, <3>2, RejectsKeep DEF BuildStarts, BuildRejects
    <3>3. CASE ~(ResolvePassphrase = "none" \/ ~AllNamed)
      <4>1. BuildOver("built") /\ builtTransactions' = AllBuilt(context.sequence)
        BY <1>1, <2>2, <3>3 DEF BuildStarts
      <4>2. BuiltOK'
        <5> DEFINE first == context.sequence
        <5>1. /\ first \in Nat /\ readSequence' = first /\ builtTransactions' = AllBuilt(first)
              /\ UNCHANGED <<operations, context>> /\ ResolvePassphrase # "none"
              /\ context.sequence # NoSequence => first = context.sequence
              /\ ~context.rpcUrl
          BY <2>0, <2>2, <3>1, <3>3, <4>1
        <5> HIDE DEF first
        <5> QED BY <5>1, AllBuiltOK
      <4> QED BY <2>0, <4>1, <4>2 DEF BuildInv, BuildOver
    <3> QED BY <3>2, <3>3
  <2>3. CASE ContextIsValid /\ context.rpcUrl /\ context.sequence # NoSequence
    <3>1. Prepare(context.sequence) /\ context.sequence \in Nat
      BY <1>1, <2>0, <2>3 DEF BuildStarts
    <3> QED BY <2>0, <3>1, PrepareKeeps
  <2>4. CASE ContextIsValid /\ context.rpcUrl /\ context.sequence = NoSequence
    <3>1. buildStep' = "account" /\ UNCHANGED <<readSequence, answers, buildOutcome, builtTransactions, reports>>
      BY <1>1, <2>4 DEF BuildStarts
    <3> QED BY <2>0, <2>4, <3>1 DEF BuildInv
  <2> QED BY <2>1, <2>2, <2>3, <2>4
<1>2. CASE AccountAnswers
  <2>0. /\ buildStep = "account" /\ builtTransactions = <<>> /\ UNCHANGED <<operations, context>>
        /\ context.sequence = NoSequence
    BY <1>2 DEF AccountAnswers, BuildInv
  <2>1. ASSUME NEW s \in 0 .. 1, Prepare(s) PROVE BuildInv'
    BY <2>0, <2>1, PrepareKeeps
  <2>2. CASE BuildRejects
    BY <2>0, <2>2, RejectsKeep DEF BuildRejects
  <2> QED BY <1>2, <2>1, <2>2 DEF AccountAnswers
<1>3. ASSUME NEW i \in DOMAIN answers, SimulationAnswers(i) PROVE BuildInv'
  <2>0. /\ buildStep = "simulating" /\ buildOutcome = "none" /\ builtTransactions = <<>> /\ SimulatingOK
        /\ UNCHANGED <<operations, context, readSequence, builtTransactions, reports>>
    BY <1>3 DEF SimulationAnswers, BuildInv
  <2>1. PICK a \in {"ok", "error", "lost"} :
              /\ answers' = [answers EXCEPT ![i] = a]
              /\ IF a = "lost" /\ buildKind = "simulate" THEN BuildOver("rejected")
                 ELSE UNCHANGED <<buildStep, buildOutcome>>
    BY <1>3 DEF SimulationAnswers
  <2>2. CASE BuildOver("rejected")
    BY <2>0, <2>2, RejectsKeep
  <2>3. CASE UNCHANGED <<buildStep, buildOutcome>>
    <3>1. SimulatingOK'
      BY <2>0, <2>1 DEF SimulatingOK, ResolvePassphrase
    <3> QED BY <2>0, <2>3, <3>1 DEF BuildInv
  <2> QED BY <2>1, <2>2, <2>3
<1>4. CASE SimulationsOver
  <2>0. /\ buildStep = "simulating" /\ buildOutcome = "none" /\ builtTransactions = <<>> /\ SimulatingOK
        /\ \A i \in DOMAIN answers : answers[i] # "pending"
        /\ UNCHANGED <<operations, context, readSequence, answers>> /\ DOMAIN answers = DOMAIN operations
    BY <1>4 DEF SimulationsOver, BuildInv, SimulatingOK
  <2>1. CASE buildKind = "simulate"
    <3>1. /\ BuildOver("reported") /\ UNCHANGED builtTransactions
          /\ reports' = [i \in DOMAIN answers |-> [index |-> i, success |-> answers[i] = "ok"]]
      BY <1>4, <2>1 DEF SimulationsOver
    <3>2. ReportsOK'
      <4>1. \A i \in DOMAIN answers : reports'[i] = [index |-> i, success |-> answers[i] = "ok"]
        BY <3>1
      <4>2. \A i \in DOMAIN answers : reports'[i].index = i /\ (reports'[i].success <=> answers[i] = "ok")
        <5> SUFFICES ASSUME NEW i \in DOMAIN answers
                     PROVE reports'[i].index = i /\ (reports'[i].success <=> answers[i] = "ok")
          OBVIOUS
        <5>1. reports'[i] = [index |-> i, success |-> answers[i] = "ok"]
          BY <4>1
        <5>2. reports'[i].index = i
          BY <5>1
        <5>3. [index |-> i, success |-> answers[i] = "ok"].success <=> answers[i] = "ok"
          BY Zenon
        <5>4. reports'[i].success <=> answers[i] = "ok"
          BY <5>1, <5>3, Zenon
        <5> QED BY <5>2, <5>4
      <4>3. DOMAIN reports' = DOMAIN answers
        BY <3>1
      <4> QED BY <2>0, <4>2, <4>3 DEF ReportsOK
    <3> QED BY <2>0, <3>1, <3>2 DEF BuildInv, BuildOver
  <2>2. CASE buildKind # "simulate" /\ \E i \in DOMAIN answers : answers[i] # "ok"
    BY <1>4, <2>0, <2>2, RejectsKeep DEF SimulationsOver
  <2>3. CASE buildKind # "simulate" /\ \A i \in DOMAIN answers : answers[i] = "ok"
    <3>1. BuildOver("built") /\ builtTransactions' = AllBuilt(readSequence)
      BY <1>4, <2>3 DEF SimulationsOver
    <3>2. BuiltOK'
      <4> DEFINE first == readSequence
      <4>1. /\ first \in Nat /\ readSequence' = first /\ builtTransactions' = AllBuilt(first)
            /\ UNCHANGED <<operations, context>> /\ ResolvePassphrase # "none"
            /\ context.sequence # NoSequence => first = context.sequence
            /\ \A i \in DOMAIN operations : i \in DOMAIN answers' /\ answers'[i] = "ok"
        BY <2>0, <2>3, <3>1 DEF SimulatingOK
      <4> HIDE DEF first
      <4> QED BY <4>1, AllBuiltOK
    <3> QED BY <2>0, <3>1, <3>2 DEF BuildInv, BuildOver
  <2> QED BY <2>1, <2>2, <2>3
<1>5. CASE UNCHANGED buildVars
  BY <1>5 DEF buildVars, BuildInv, BuiltOK, ReportsOK, SimulatingOK, ResolvePassphrase
<1> QED BY <1>1, <1>2, <1>3, <1>4, <1>5 DEF BuildNext

LEMMA BuildInvGives == BuildInv => BuiltExactly
<1> SUFFICES ASSUME BuildInv PROVE BuiltExactly
  OBVIOUS
<1>1. \A size \in 1 .. MaxOperations + 1 : ChunksCover(size)
  <2>1. \A size \in 1 .. MaxOperations + 1 : size \in Nat \ {0}
    OBVIOUS
  <2> QED BY <2>1, ChunksAlwaysCover DEF BuildInv
<1> QED BY <1>1 DEF BuildInv, BuiltExactly, BuiltOK, ReportsOK

\* However the simulations are answered, a batch is built whole or not at all, in
\* the order of its operations and from consecutive sequence numbers, and a report
\* says of each operation what its own simulation said.
THEOREM AlwaysBuiltExactly == BuildSpec => []BuiltExactly
<1> QED BY InitBuild, StepKeepsBuild, BuildInvGives, PTL DEF BuildSpec

\* From the operations of a batch to the ledger: what is built is whole and in
\* order, and what is sent of a batch comes in order as far as the first failure.
THEOREM BatchAlwaysExact == BuildSpec /\ Spec => []BatchExact
<1> QED BY AlwaysBuiltExactly, BatchAlwaysInOrder, PTL DEF BatchExact

-----------------------------------------------------------------------------
(* The queues                                                              *)

USE BuilderAssumption

-----------------------------------------------------------------------------
(* submit(): the semaphore                                                 *)

Stages == {"new", "waiting", "ready", "calling", "backoff", "settled"}
Slots == {s \in Payload : HasSlot(s)}

BuilderTypes ==
    /\ stage \in [Payload -> Stages]
    /\ running \in Nat
    /\ slotQueue \in Seq(Payload)
    /\ activeTimers \subseteq {s \in Payload : stage[s] = "backoff"}

\* Who waits is in line, once, and nobody else is.
LineExact ==
    /\ \A k \in DOMAIN slotQueue : stage[slotQueue[k]] = "waiting"
    /\ \A j, k \in DOMAIN slotQueue : slotQueue[j] = slotQueue[k] => j = k
    /\ \A s \in Payload : stage[s] = "waiting" => \E k \in DOMAIN slotQueue : slotQueue[k] = s

\* SlotsExact, of the set of those that hold a slot.
CountExact ==
    /\ running = Cardinality(Slots)
    /\ running <= Concurrency
    /\ slotQueue # <<>> => running = Concurrency

BuilderInv == BuilderTypes /\ IsFiniteSet(Slots) /\ CountExact /\ LineExact

\* A step that moves one submission, between awaits with a slot or without,
\* and leaves the semaphore alone, keeps the invariant.
LEMMA MoveKeepsBuilder ==
  ASSUME BuilderInv, NEW s \in Payload, NEW to \in Stages,
         stage' = [stage EXCEPT ![s] = to],
         stage[s] # "waiting", to # "waiting",
         to \in {"ready", "calling", "backoff"} <=> HasSlot(s),
         UNCHANGED semaphoreVars,
         activeTimers' \subseteq {q \in Payload : stage'[q] = "backoff"}
  PROVE  BuilderInv'
<1>1. BuilderTypes'
  BY DEF BuilderInv, BuilderTypes, semaphoreVars
<1>2. \A q \in Payload : HasSlot(q)' <=> HasSlot(q)
  BY DEF BuilderInv, BuilderTypes, HasSlot
<1>3. Slots' = Slots
  BY <1>2 DEF Slots
<1>4. CountExact'
  BY <1>3 DEF BuilderInv, CountExact, semaphoreVars
<1>5. \A q \in Payload : stage'[q] = "waiting" <=> stage[q] = "waiting"
  BY DEF BuilderInv, BuilderTypes
<1>6. \A k \in DOMAIN slotQueue : slotQueue[k] \in Payload
  BY DEF BuilderInv, BuilderTypes
<1>7. LineExact'
  BY <1>5, <1>6 DEF BuilderInv, LineExact, semaphoreVars
<1> QED BY <1>1, <1>3, <1>4, <1>7 DEF BuilderInv

\* The finally block by a submission with a slot: the slot goes to the head of
\* the line, or is free if nobody waits.
LEMMA ReleaseKeepsBuilder ==
  ASSUME BuilderInv, NEW s \in Payload, HasSlot(s), NEW how, Release(s, how),
         activeTimers' \subseteq activeTimers \ {s}
  PROVE  BuilderInv'
<1>1. /\ stage \in [Payload -> Stages] /\ running \in Nat /\ slotQueue \in Seq(Payload)
      /\ stage[s] # "waiting" /\ s \in Slots
      /\ running = Cardinality(Slots) /\ running <= Concurrency
  BY DEF BuilderInv, BuilderTypes, CountExact, Slots, HasSlot
<1>2. Cardinality(Slots \ {s}) = running - 1 /\ IsFiniteSet(Slots \ {s}) /\ running - 1 \in Nat
  <2>1. IsFiniteSet(Slots)
    BY DEF BuilderInv
  <2>2. Cardinality(Slots \ {s}) = running - 1 /\ IsFiniteSet(Slots \ {s})
    BY <1>1, <2>1, FS_RemoveElement
  <2>3. Cardinality(Slots \ {s}) \in Nat
    BY <2>2, FS_CardinalityType
  <2> QED BY <2>2, <2>3
<1>3. CASE slotQueue = <<>>
  <2>1. /\ running' = running - 1 /\ slotQueue' = <<>>
        /\ stage' = [stage EXCEPT ![s] = "settled"]
    BY <1>3 DEF Release
  <2>2. BuilderTypes'
    BY <1>1, <1>2, <2>1 DEF BuilderInv, BuilderTypes, Stages
  <2>3. Slots' = Slots \ {s}
    BY <1>1, <2>1 DEF Slots, HasSlot
  <2>4. CountExact'
    BY <1>1, <1>2, <2>1, <2>3 DEF CountExact
  <2>5. LineExact'
    BY <1>1, <1>3, <2>1 DEF BuilderInv, LineExact
  <2> QED BY <1>2, <2>2, <2>3, <2>4, <2>5 DEF BuilderInv
<1>4. CASE slotQueue # <<>>
  <2> DEFINE h == Head(slotQueue)
  <2>1. /\ running' = running /\ slotQueue' = Tail(slotQueue)
        /\ stage' = [stage EXCEPT ![s] = "settled", ![h] = "ready"]
    BY <1>4 DEF Release
  <2>2. /\ 1 \in DOMAIN slotQueue /\ h = slotQueue[1] /\ slotQueue' \in Seq(Payload)
        /\ \A k \in DOMAIN slotQueue' : /\ k \in Nat /\ k # 0 /\ k + 1 \in DOMAIN slotQueue
                                        /\ slotQueue'[k] = slotQueue[k + 1]
        /\ \A k \in DOMAIN slotQueue : k # 1 => k - 1 \in DOMAIN slotQueue'
                                                /\ slotQueue'[k - 1] = slotQueue[k]
    BY <1>1, <1>4, <2>1
  <2>3. h \in Payload /\ stage[h] = "waiting" /\ h # s
    BY <1>1, <2>2 DEF BuilderInv, LineExact
  <2> HIDE DEF h
  <2>4. /\ stage' \in [Payload -> Stages] /\ stage'[s] = "settled" /\ stage'[h] = "ready"
        /\ \A q \in Payload : q # s /\ q # h => stage'[q] = stage[q]
    BY <1>1, <2>1, <2>3 DEF Stages
  <2>5. BuilderTypes'
    BY <1>1, <2>1, <2>2, <2>3, <2>4 DEF BuilderInv, BuilderTypes
  <2>6. Slots' = (Slots \ {s}) \cup {h}
    BY <2>3, <2>4 DEF Slots, HasSlot
  <2>7. h \notin Slots \ {s}
    BY <2>3 DEF Slots, HasSlot
  <2>8. IsFiniteSet(Slots') /\ Cardinality(Slots') = running
    <3>1. /\ IsFiniteSet((Slots \ {s}) \cup {h})
          /\ Cardinality((Slots \ {s}) \cup {h}) = Cardinality(Slots \ {s}) + 1
      BY <1>2, <2>7, FS_AddElement
    <3>2. Cardinality(Slots \ {s}) + 1 = running
      BY <1>1, <1>2
    <3> QED BY <2>6, <3>1, <3>2
  <2>9. CountExact'
    BY <1>1, <1>4, <2>1, <2>8 DEF BuilderInv, CountExact
  <2>10. \A k \in DOMAIN slotQueue' : slotQueue'[k] # h
    <3> SUFFICES ASSUME NEW k \in DOMAIN slotQueue', slotQueue'[k] = h PROVE FALSE
      OBVIOUS
    <3>1. k + 1 = 1
      BY <2>2 DEF BuilderInv, LineExact
    <3> QED BY <2>2, <3>1
  <2>11. \A k \in DOMAIN slotQueue' : stage'[slotQueue'[k]] = "waiting"
    <3> SUFFICES ASSUME NEW k \in DOMAIN slotQueue' PROVE stage'[slotQueue'[k]] = "waiting"
      OBVIOUS
    <3>1. slotQueue'[k] \in Payload /\ stage[slotQueue'[k]] = "waiting"
      BY <1>1, <2>2 DEF BuilderInv, LineExact
    <3> QED BY <1>1, <2>4, <2>10, <3>1
  <2>12. \A j, k \in DOMAIN slotQueue' : slotQueue'[j] = slotQueue'[k] => j = k
    <3> SUFFICES ASSUME NEW j \in DOMAIN slotQueue', NEW k \in DOMAIN slotQueue',
                        slotQueue'[j] = slotQueue'[k]
                 PROVE  j = k
      OBVIOUS
    <3>1. j + 1 = k + 1
      BY <2>2 DEF BuilderInv, LineExact
    <3> QED BY <2>2, <3>1
  <2>13. \A q \in Payload : stage'[q] = "waiting" => \E k \in DOMAIN slotQueue' : slotQueue'[k] = q
    <3> SUFFICES ASSUME NEW q \in Payload, stage'[q] = "waiting"
                 PROVE  \E k \in DOMAIN slotQueue' : slotQueue'[k] = q
      OBVIOUS
    <3>1. q # h /\ q # s /\ stage[q] = "waiting"
      BY <2>4
    <3>2. PICK k \in DOMAIN slotQueue : slotQueue[k] = q
      BY <3>1 DEF BuilderInv, LineExact
    <3>3. k # 1
      BY <2>2, <3>1, <3>2
    <3> QED BY <2>2, <3>2, <3>3
  <2>14. LineExact'
    BY <2>11, <2>12, <2>13 DEF LineExact
  <2> QED BY <2>5, <2>8, <2>9, <2>14 DEF BuilderInv
<1> QED BY <1>3, <1>4

LEMMA InitBuilder == BuilderInit => BuilderInv
<1> SUFFICES ASSUME BuilderInit PROVE BuilderInv
  OBVIOUS
<1>1. BuilderTypes
  BY DEF BuilderInit, BuilderTypes, Stages
<1>2. Slots = {}
  BY DEF BuilderInit, Slots, HasSlot
<1>3. CountExact /\ IsFiniteSet(Slots)
  BY <1>2, FS_EmptySet DEF BuilderInit, CountExact
<1>4. LineExact
  BY DEF BuilderInit, LineExact
<1> QED BY <1>1, <1>3, <1>4 DEF BuilderInv

LEMMA SubmitKeepsBuilder ==
  ASSUME BuilderInv, NEW s \in Payload, Submit(s)
  PROVE  BuilderInv'
<1>1. stage[s] = "new" /\ activeTimers' = activeTimers
      /\ stage \in [Payload -> Stages] /\ running \in Nat /\ slotQueue \in Seq(Payload)
      /\ s \notin Slots /\ ~HasSlot(s) /\ s \notin activeTimers
      /\ IsFiniteSet(Slots) /\ running = Cardinality(Slots) /\ running <= Concurrency
  BY DEF Submit, BuilderInv, BuilderTypes, CountExact, Slots, HasSlot
<1>2. CASE isDestroyed \/ s \in signalled \/ Len(pendingQueue) >= MaxQueueSize
  <2>1. stage' = [stage EXCEPT ![s] = "settled"] /\ UNCHANGED semaphoreVars
    BY <1>2 DEF Submit
  <2>2. activeTimers' \subseteq {q \in Payload : stage'[q] = "backoff"}
    BY <1>1, <2>1 DEF BuilderInv, BuilderTypes
  <2>3. "settled" \in Stages
    BY DEF Stages
  <2> QED BY <1>1, <2>1, <2>2, <2>3, MoveKeepsBuilder
<1>3. CASE ~(isDestroyed \/ s \in signalled \/ Len(pendingQueue) >= MaxQueueSize) /\ running < Concurrency
  <2>1. /\ running' = running + 1 /\ slotQueue' = slotQueue
        /\ stage' = [stage EXCEPT ![s] = "ready"]
    BY <1>3 DEF Submit
  <2>2. BuilderTypes'
    BY <1>1, <2>1 DEF BuilderInv, BuilderTypes, Stages
  <2>3. Slots' = Slots \cup {s}
    BY <1>1, <2>1 DEF Slots, HasSlot
  <2>4. IsFiniteSet(Slots') /\ Cardinality(Slots') = running + 1
    BY <1>1, <2>3, FS_AddElement
  <2>5. CountExact'
    BY <1>1, <1>3, <2>1, <2>4 DEF BuilderInv, CountExact
  <2>6. LineExact'
    BY <1>1, <2>1 DEF BuilderInv, LineExact
  <2> QED BY <2>2, <2>4, <2>5, <2>6 DEF BuilderInv
<1>4. CASE ~(isDestroyed \/ s \in signalled \/ Len(pendingQueue) >= MaxQueueSize) /\ ~(running < Concurrency)
  <2>1. /\ running' = running /\ slotQueue' = Append(slotQueue, s)
        /\ stage' = [stage EXCEPT ![s] = "waiting"]
    BY <1>4 DEF Submit
  <2>2. BuilderTypes'
    BY <1>1, <2>1 DEF BuilderInv, BuilderTypes, Stages
  <2>3. Slots' = Slots
    BY <1>1, <2>1 DEF Slots, HasSlot
  <2>4. CountExact'
    BY <1>1, <1>4, <2>1, <2>3 DEF BuilderInv, CountExact
  <2>5. /\ \A k \in DOMAIN slotQueue : k \in DOMAIN slotQueue' /\ slotQueue'[k] = slotQueue[k]
        /\ \E k \in DOMAIN slotQueue' : slotQueue'[k] = s
        /\ \A k \in DOMAIN slotQueue' : \/ k \in DOMAIN slotQueue
                                        \/ k = Len(slotQueue) + 1 /\ slotQueue'[k] = s
    BY <1>1, <2>1
  <2>6. \A k \in DOMAIN slotQueue : slotQueue[k] \in Payload /\ slotQueue[k] # s
    BY <1>1 DEF BuilderInv, LineExact
  <2>7. LineExact'
    BY <1>1, <2>1, <2>5, <2>6 DEF BuilderInv, LineExact
  <2> QED BY <1>1, <2>2, <2>3, <2>4, <2>7 DEF BuilderInv
<1> QED BY <1>2, <1>3, <1>4

LEMMA StepKeepsBuilder == BuilderInv /\ [BuilderNext]_builderVars => BuilderInv'
<1> SUFFICES ASSUME BuilderInv, [BuilderNext]_builderVars PROVE BuilderInv'
  OBVIOUS
<1>0. stage \in [Payload -> Stages] /\ activeTimers \subseteq {s \in Payload : stage[s] = "backoff"}
  BY DEF BuilderInv, BuilderTypes
<1>1. ASSUME NEW s \in Payload, Submit(s) PROVE BuilderInv'
  BY <1>1, SubmitKeepsBuilder
<1>2. ASSUME NEW s \in Payload, Attempt(s) PROVE BuilderInv'
  <2>1. stage[s] = "ready" /\ activeTimers' = activeTimers /\ s \notin activeTimers /\ HasSlot(s)
    BY <1>0, <1>2 DEF Attempt, HasSlot
  <2>2. CASE stage' = [stage EXCEPT ![s] = "calling"] /\ UNCHANGED semaphoreVars
    <3>1. activeTimers' \subseteq {q \in Payload : stage'[q] = "backoff"} /\ "calling" \in Stages
      BY <1>0, <2>1, <2>2 DEF Stages
    <3> QED BY <2>1, <2>2, <3>1, MoveKeepsBuilder
  <2>3. CASE \E how : Release(s, how)
    BY <2>1, <2>3, ReleaseKeepsBuilder
  <2> QED BY <1>2, <2>2, <2>3 DEF Attempt
<1>3. ASSUME NEW s \in Payload, SubmitFnResolves(s) PROVE BuilderInv'
  BY <1>0, <1>3, ReleaseKeepsBuilder DEF SubmitFnResolves, HasSlot
<1>4. ASSUME NEW s \in Payload, SubmitFnRejects(s) PROVE BuilderInv'
  <2>1. stage[s] = "calling" /\ HasSlot(s) /\ s \notin activeTimers
    BY <1>0, <1>4 DEF SubmitFnRejects, HasSlot
  <2>2. CASE \E how : Release(s, how) /\ UNCHANGED activeTimers
    BY <2>1, <2>2, ReleaseKeepsBuilder
  <2>3. CASE /\ stage' = [stage EXCEPT ![s] = "backoff"] /\ UNCHANGED semaphoreVars
             /\ activeTimers' = activeTimers \cup {s}
    <3>1. activeTimers' \subseteq {q \in Payload : stage'[q] = "backoff"} /\ "backoff" \in Stages
      BY <1>0, <2>3 DEF Stages
    <3> QED BY <2>1, <2>3, <3>1, MoveKeepsBuilder
  <2> QED BY <1>4, <2>2, <2>3 DEF SubmitFnRejects
<1>5. ASSUME NEW s \in Payload, BackoffFires(s) PROVE BuilderInv'
  <2>1. /\ stage[s] = "backoff" /\ HasSlot(s) /\ UNCHANGED semaphoreVars
        /\ stage' = [stage EXCEPT ![s] = "ready"] /\ activeTimers' = activeTimers \ {s}
    BY <1>0, <1>5 DEF BackoffFires, HasSlot
  <2>2. activeTimers' \subseteq {q \in Payload : stage'[q] = "backoff"} /\ "ready" \in Stages
    BY <1>0, <2>1 DEF Stages
  <2> QED BY <2>1, <2>2, MoveKeepsBuilder
<1>6. ASSUME NEW s \in Payload, Signal(s) PROVE BuilderInv'
  <2>1. CASE stage[s] = "backoff"
    BY <1>6, <2>1, ReleaseKeepsBuilder DEF Signal, HasSlot
  <2>2. CASE stage[s] # "backoff"
    BY <1>6, <2>2 DEF Signal, BuilderInv, BuilderTypes, CountExact, LineExact, Slots, HasSlot, semaphoreVars
  <2> QED BY <2>1, <2>2
<1>7. ASSUME NEW destroyed \in BOOLEAN, StopTimers(destroyed) PROVE BuilderInv'
  BY <1>7 DEF StopTimers, BuilderInv, BuilderTypes, CountExact, LineExact, Slots, HasSlot, semaphoreVars
<1>8. CASE UNCHANGED builderVars
  BY <1>8 DEF builderVars, BuilderInv, BuilderTypes, CountExact, LineExact, Slots, HasSlot, semaphoreVars
<1> QED BY <1>1, <1>2, <1>3, <1>4, <1>5, <1>6, <1>7, <1>8 DEF BuilderNext, BuilderStep

\* StreamBuilder.submit() (builder.ts): for any number of submissions, whichever
\* of its ways out each takes, the slots in use are those that are held, never
\* more than the concurrency, and nobody waits beside a free one.
THEOREM SlotsAlwaysExact == BuilderSpec => []SlotsExact
<1>1. BuilderInv => SlotsExact
  BY DEF BuilderInv, CountExact, Slots, SlotsExact
<1> QED BY InitBuilder, StepKeepsBuilder, <1>1, PTL DEF BuilderSpec

\* Whatever is cancelled or cleaned up, the line of the semaphore holds those
\* who wait for a slot, each once: submit() forgets nobody.
THEOREM LineAlwaysExact == BuilderSpec => []LineExact
<1>1. BuilderInv => LineExact
  BY DEF BuilderInv
<1> QED BY InitBuilder, StepKeepsBuilder, <1>1, PTL DEF BuilderSpec

-----------------------------------------------------------------------------
(* executeAsync(): the loop that builds                                    *)

BatcherTypes ==
    /\ batchQueue \in Seq(Batch)
    /\ building \subseteq Batch
    /\ atHead \in BOOLEAN /\ processingBatch \in BOOLEAN
    /\ batcherDestroyed \in BOOLEAN /\ cleanedQueue \in BOOLEAN

\* The flag is taken only while a loop runs or is suspended, and what waits is
\* never left without one; nothing waits for a batcher that is destroyed.  Until
\* the flag is reset under a loop, there is one loop and the flag tells of it.
BatchLoops ==
    /\ processingBatch => atHead \/ building # {}
    /\ batchQueue # <<>> => (atHead \/ building # {}) /\ ~batcherDestroyed
    /\ ~cleanedQueue => /\ atHead => processingBatch /\ building = {}
                        /\ building # {} => processingBatch
                        /\ \A b, c \in building : b = c

BatcherInv == BatcherTypes /\ BatchLoops

LEMMA InitBatcher == BatcherInit => BatcherInv
<1> SUFFICES ASSUME BatcherInit PROVE BatcherInv
  OBVIOUS
<1>1. batchQueue = <<>> /\ building = {}
  BY DEF BatcherInit
<1>2. ~atHead /\ ~processingBatch /\ ~batcherDestroyed /\ ~cleanedQueue
      /\ atHead \in BOOLEAN /\ processingBatch \in BOOLEAN
      /\ batcherDestroyed \in BOOLEAN /\ cleanedQueue \in BOOLEAN
  BY DEF BatcherInit
<1>3. batchQueue \in Seq(Batch) /\ building \subseteq Batch
  BY <1>1
<1>4. BatchLoops
  BY <1>1, <1>2 DEF BatchLoops
<1> QED BY <1>2, <1>3, <1>4 DEF BatcherInv, BatcherTypes

LEMMA TakeKeepsBatcher == BatcherInv /\ TakeBatch => BatcherInv'
<1> SUFFICES ASSUME BatcherInv, TakeBatch PROVE BatcherInv'
  OBVIOUS
<1>1. CASE batchQueue = <<>> \/ batcherDestroyed
  <2>1. batchQueue = <<>>
    BY <1>1 DEF BatcherInv, BatchLoops
  <2> QED BY <1>1, <2>1 DEF TakeBatch, BatcherInv, BatcherTypes, BatchLoops
<1>2. CASE ~(batchQueue = <<>> \/ batcherDestroyed)
  <2> DEFINE b == Head(batchQueue)
  <2>1. /\ atHead /\ batchQueue' = Tail(batchQueue) /\ processingBatch' = processingBatch
        /\ batcherDestroyed' = batcherDestroyed /\ cleanedQueue' = cleanedQueue
        /\ \/ atHead' = atHead /\ building' = building
           \/ building' = building \cup {b} /\ atHead' = FALSE
    BY <1>2 DEF TakeBatch
  <2>2. b \in Batch /\ batchQueue' \in Seq(Batch)
    BY <1>2, <2>1 DEF BatcherInv, BatcherTypes
  <2> HIDE DEF b
  <2>3. BatcherTypes'
    BY <2>1, <2>2 DEF BatcherInv, BatcherTypes
  <2>4. BatchLoops'
    BY <1>2, <2>1 DEF BatcherInv, BatchLoops
  <2> QED BY <2>3, <2>4 DEF BatcherInv
<1> QED BY <1>1, <1>2

\* A loop that leaves its batch is at the head again.
LEMMA LeaveKeepsBatcher ==
  ASSUME BatcherInv, NEW b \in Batch, b \in building, ~atHead, LeaveChunks(b),
         UNCHANGED <<batchQueue, processingBatch, batcherDestroyed, cleanedQueue>>
  PROVE  BatcherInv'
BY DEF LeaveChunks, BatcherInv, BatcherTypes, BatchLoops

LEMMA StepKeepsBatcher == BatcherInv /\ [BatcherNext]_batcherVars => BatcherInv'
<1> SUFFICES ASSUME BatcherInv, [BatcherNext]_batcherVars PROVE BatcherInv'
  OBVIOUS
<1>1. CASE TakeBatch
  BY <1>1, TakeKeepsBatcher
<1>2. ASSUME NEW b \in Batch, ChunkBuilt(b) PROVE BatcherInv'
  <2>1. ~atHead /\ b \in building
        /\ UNCHANGED <<batchQueue, processingBatch, batcherDestroyed, cleanedQueue>>
        /\ (LeaveChunks(b) \/ UNCHANGED <<building, atHead>>)
    BY <1>2 DEF ChunkBuilt
  <2>2. CASE LeaveChunks(b)
    BY <2>1, <2>2, LeaveKeepsBatcher
  <2>3. CASE UNCHANGED <<building, atHead>>
    BY <2>1, <2>3 DEF BatcherInv, BatcherTypes, BatchLoops
  <2> QED BY <2>1, <2>2, <2>3
<1>3. ASSUME NEW b \in Batch, ChunkFails(b) PROVE BatcherInv'
  BY <1>3, LeaveKeepsBatcher DEF ChunkFails
<1>4. ASSUME NEW b \in Batch, ExecuteAsync(b) PROVE BatcherInv'
  <2>1. CASE batcherDestroyed
    BY <1>4, <2>1 DEF ExecuteAsync, BatcherInv, BatcherTypes, BatchLoops
  <2>2. CASE ~batcherDestroyed
    <3>1. /\ ~atHead /\ batchQueue' = Append(batchQueue, b) /\ atHead' = ~processingBatch
          /\ processingBatch' = TRUE
          /\ UNCHANGED <<building, batcherDestroyed, cleanedQueue>>
      BY <1>4, <2>2 DEF ExecuteAsync
    <3>2. BatcherTypes'
      BY <3>1 DEF BatcherInv, BatcherTypes
    <3>3. BatchLoops'
      BY <2>2, <3>1 DEF BatcherInv, BatcherTypes, BatchLoops
    <3> QED BY <3>2, <3>3 DEF BatcherInv
  <2> QED BY <2>1, <2>2
<1>5. ASSUME NEW b \in Batch, AbortBatch(b) PROVE BatcherInv'
  BY <1>5 DEF AbortBatch, BatcherInv, BatcherTypes, BatchLoops
<1>6. ASSUME NEW destroyed \in BOOLEAN, CleanupBatcher(destroyed) PROVE BatcherInv'
  <2>1. /\ ~atHead /\ atHead' = atHead /\ building' = building /\ batchQueue' = <<>>
        /\ processingBatch' = FALSE /\ batcherDestroyed' = destroyed /\ cleanedQueue' = TRUE
    BY <1>6 DEF CleanupBatcher
  <2>2. BatcherTypes'
    <3>1. batchQueue' \in Seq(Batch) /\ building' \subseteq Batch
      BY <2>1 DEF BatcherInv, BatcherTypes
    <3>2. /\ atHead' \in BOOLEAN /\ processingBatch' \in BOOLEAN
          /\ batcherDestroyed' \in BOOLEAN /\ cleanedQueue' \in BOOLEAN
      BY <1>6, <2>1 DEF BatcherInv, BatcherTypes
    <3> QED BY <3>1, <3>2 DEF BatcherTypes
  <2>3. ~processingBatch' /\ cleanedQueue' /\ batchQueue' = <<>>
    BY <2>1
  <2>4. BatchLoops'
    BY <2>3 DEF BatchLoops
  <2> QED BY <2>2, <2>4 DEF BatcherInv
<1>7. CASE UNCHANGED batcherVars
  BY <1>7 DEF batcherVars, BatcherInv, BatcherTypes, BatchLoops
<1> QED BY <1>1, <1>2, <1>3, <1>4, <1>5, <1>6, <1>7 DEF BatcherNext, BatcherStep

\* ConduitBatcher (builder.ts): however often cleanup() resets the flag under a
\* suspended loop, no batch waits in the queue without a loop that will take it,
\* and without a cleanup() there is never a second loop.
THEOREM QueueAlwaysServed == BatcherSpec => []QueueServed
<1>1. BatcherInv => QueueServed
  <2> SUFFICES ASSUME BatcherInv, ~atHead PROVE QueueServed
    BY DEF QueueServed
  <2>1. batchQueue # <<>> => building # {}
    BY DEF BatcherInv, BatchLoops
  <2>2. ~cleanedQueue => (processingBatch <=> building # {})
    BY DEF BatcherInv, BatcherTypes, BatchLoops
  <2>3. ~cleanedQueue => Cardinality(building) <= 1
    <3>1. CASE building = {}
      BY <3>1, FS_EmptySet
    <3>2. ASSUME ~cleanedQueue, building # {} PROVE Cardinality(building) <= 1
      <4>1. PICK b \in building : TRUE
        BY <3>2
      <4>2. building = {b}
        BY <3>2, <4>1 DEF BatcherInv, BatchLoops
      <4> QED BY <4>2, FS_Singleton
    <3> QED BY <3>1, <3>2
  <2> QED BY <2>1, <2>2, <2>3 DEF QueueServed
<1> QED BY InitBatcher, StepKeepsBatcher, <1>1, PTL DEF BatcherSpec

-----------------------------------------------------------------------------
(* mapWithConcurrency() and mapWithAdaptiveConcurrency()                    *)

LEMMA MinOfTwo == ASSUME NEW a \in Int, NEW b \in Int
                  PROVE  Min({a, b}) = IF a <= b THEN a ELSE b
<1>1. \E x \in {a, b} : \A y \in {a, b} : x <= y
  OBVIOUS
<1>2. Min({a, b}) \in {a, b} /\ \A y \in {a, b} : Min({a, b}) <= y
  BY <1>1 DEF Min
<1> QED BY <1>2

LEMMA MaxOfTwo == ASSUME NEW a \in Int, NEW b \in Int
                  PROVE  Max({a, b}) = IF a >= b THEN a ELSE b
<1>1. \E x \in {a, b} : \A y \in {a, b} : x >= y
  OBVIOUS
<1>2. Max({a, b}) \in {a, b} /\ \A y \in {a, b} : Max({a, b}) >= y
  BY <1>1 DEF Max
<1> QED BY <1>2

\* A sequence has no more elements than places.
LEMMA CardOfPrefix ==
  ASSUME NEW S, NEW line \in Seq(S), NEW n \in Nat, n <= Len(line)
  PROVE  /\ IsFiniteSet(ToSet(SubSeq(line, 1, n)))
         /\ Cardinality(ToSet(SubSeq(line, 1, n))) <= n
         /\ ToSet(SubSeq(line, 1, n)) = {line[k] : k \in 1 .. n}
<1> DEFINE p == SubSeq(line, 1, n)
<1>1. p = [k \in 1 .. n |-> line[k]] /\ DOMAIN p = 1 .. n
  OBVIOUS
<1>2. ToSet(p) = {line[k] : k \in 1 .. n}
  BY <1>1 DEF ToSet
<1>3. p \in Surjection(1 .. n, ToSet(p))
  BY <1>1, <1>2 DEF Surjection
<1>4. IsFiniteSet(1 .. n) /\ Cardinality(1 .. n) = n
  BY FS_Interval
<1> HIDE DEF p
<1>5. IsFiniteSet(ToSet(p)) /\ Cardinality(ToSet(p)) <= n
  BY <1>3, <1>4, FS_Surjection
<1> QED BY <1>2, <1>5 DEF p

\* release() wakes the line: nobody is lost or in two places, the bound holds,
\* and whoever still waits has a call in flight before it.
Distinct(line) == \A j, k \in DOMAIN line : line[j] = line[k] => j = k
Apart(set, line) == \A k \in DOMAIN line : line[k] \notin set
Held(set, line) == set \cup ToSet(line)

LEMMA TakeExact ==
  ASSUME NEW S, NEW inFlight \in SUBSET S, NEW line \in Seq(S), NEW bound \in Nat, bound > 0,
         NEW most \in Nat, IsFiniteSet(inFlight), Cardinality(inFlight) <= most, bound <= most,
         Distinct(line), Apart(inFlight, line), Take(inFlight, line, bound)
  PROVE  /\ flying' \in SUBSET S /\ IsFiniteSet(flying') /\ Cardinality(flying') <= most
         /\ parked' \in Seq(S) /\ Distinct(parked') /\ Apart(flying', parked')
         /\ parked' # <<>> => flying' # {}
         /\ Held(flying', parked') = Held(inFlight, line)
<1> DEFINE card == Cardinality(inFlight)
           admitted == Max({0, Min({Len(line), bound - card})})
<1>1. card \in Nat /\ card <= most
  BY FS_CardinalityType
<1> HIDE DEF card
<1>2. /\ admitted \in Nat /\ admitted <= Len(line)
      /\ admitted > 0 => card + admitted <= bound
      /\ admitted < Len(line) => admitted >= bound - card
  <2>1. Len(line) \in Int /\ Len(line) >= 0 /\ bound - card \in Int
    BY <1>1
  <2> DEFINE room == Min({Len(line), bound - card})
  <2>2. room = IF Len(line) <= bound - card THEN Len(line) ELSE bound - card
    BY <2>1, MinOfTwo
  <2>3. admitted = Max({0, room}) /\ room \in Int
    BY <2>1, <2>2
  <2> HIDE DEF room, admitted
  <2>4. admitted = IF 0 >= room THEN 0 ELSE room
    BY <2>3, MaxOfTwo
  <2> QED BY <1>1, <2>1, <2>2, <2>4
<1>3. /\ flying' = inFlight \cup ToSet(SubSeq(line, 1, admitted))
      /\ parked' = SubSeq(line, admitted + 1, Len(line))
  BY DEF Take, card
<1> HIDE DEF admitted
<1> DEFINE woken == ToSet(SubSeq(line, 1, admitted))
<1>4. /\ IsFiniteSet(woken) /\ Cardinality(woken) <= admitted
      /\ woken = {line[k] : k \in 1 .. admitted}
  BY <1>2, CardOfPrefix
<1>5. admitted = 0 => woken = {}
  BY <1>4
<1>6. /\ parked' \in Seq(S) /\ DOMAIN parked' = 1 .. Len(line) - admitted
      /\ \A k \in DOMAIN parked' : k \in Nat /\ k > 0 /\ admitted + k \in DOMAIN line
                                   /\ parked'[k] = line[admitted + k]
      /\ \A j \in DOMAIN line : j > admitted => j - admitted \in DOMAIN parked'
                                                /\ parked'[j - admitted] = line[j]
  BY <1>2, <1>3
<1>7. \A k \in 1 .. admitted : k \in DOMAIN line /\ line[k] \in S
  BY <1>2
<1> HIDE DEF woken
<1>8. flying' = inFlight \cup woken /\ flying' \in SUBSET S /\ IsFiniteSet(flying')
  BY <1>3, <1>4, <1>7, FS_Union DEF woken
<1>9. Cardinality(flying') <= most
  <2>1. Cardinality(flying') = card + Cardinality(woken) - Cardinality(inFlight \cap woken)
    BY <1>4, <1>8, FS_Union DEF card
  <2>2. Cardinality(inFlight \cap woken) \in Nat /\ Cardinality(woken) \in Nat
    BY <1>4, FS_Intersection, FS_CardinalityType
  <2>3. CASE admitted = 0
    <3>1. flying' = inFlight
      BY <1>5, <1>8, <2>3
    <3> QED BY <1>1, <3>1 DEF card
  <2>4. CASE admitted > 0
    BY <1>1, <1>2, <1>4, <2>1, <2>2, <2>4
  <2> QED BY <1>2, <2>3, <2>4
<1>10. Distinct(parked')
  <2> SUFFICES ASSUME NEW j \in DOMAIN parked', NEW k \in DOMAIN parked', parked'[j] = parked'[k]
               PROVE  j = k
    BY DEF Distinct
  <2>1. admitted + j = admitted + k
    BY <1>6 DEF Distinct
  <2> QED BY <1>2, <1>6, <2>1
<1>11. Apart(flying', parked')
  <2> SUFFICES ASSUME NEW k \in DOMAIN parked', parked'[k] \in flying' PROVE FALSE
    BY DEF Apart
  <2>1. parked'[k] = line[admitted + k] /\ admitted + k \in DOMAIN line
    BY <1>6
  <2>2. parked'[k] \notin inFlight
    BY <2>1 DEF Apart
  <2>3. PICK j \in 1 .. admitted : line[j] = parked'[k]
    BY <1>4, <1>8, <2>2
  <2>4. j = admitted + k
    BY <1>7, <2>1, <2>3 DEF Distinct
  <2> QED BY <1>2, <1>6, <2>4
<1>12. parked' # <<>> => flying' # {}
  <2> SUFFICES ASSUME parked' # <<>>, flying' = {} PROVE FALSE
    OBVIOUS
  <2>1. inFlight = {} /\ card = 0
    BY <1>8, FS_EmptySet DEF card
  <2>2. admitted < Len(line)
    BY <1>2, <1>3
  <2>3. 1 \in 1 .. admitted
    BY <1>2, <2>1, <2>2
  <2>4. line[1] \in {line[k] : k \in 1 .. admitted}
    BY <2>3, Zenon
  <2>5. line[1] \in woken
    BY <1>4, <2>4, Zenon
  <2> QED BY <1>8, <2>5, Zenon
<1>13. Held(flying', parked') = Held(inFlight, line)
  <2>1. ASSUME NEW x \in woken PROVE x \in ToSet(line)
    BY <1>4, <1>7, <2>1 DEF ToSet
  <2>2. ASSUME NEW x \in ToSet(parked') PROVE x \in ToSet(line)
    BY <1>6, <2>2 DEF ToSet
  <2>3. ASSUME NEW x \in ToSet(line) PROVE x \in woken \/ x \in ToSet(parked')
    <3>1. PICK j \in DOMAIN line : line[j] = x
      BY <2>3 DEF ToSet
    <3>2. CASE j <= admitted
      BY <1>2, <1>4, <3>1, <3>2
    <3>3. CASE j > admitted
      BY <1>6, <3>1, <3>3 DEF ToSet
    <3> QED BY <1>2, <3>1, <3>2, <3>3
  <2> QED BY <1>8, <2>1, <2>2, <2>3 DEF Held
<1> QED BY <1>6, <1>8, <1>9, <1>10, <1>11, <1>12, <1>13

\* Where the workers are: no item in two places, at most MaxLimit in flight.
Placed(set, line) ==
    /\ set \in SUBSET PoolItem /\ IsFiniteSet(set) /\ Cardinality(set) <= MaxLimit
    /\ line \in Seq(PoolItem) /\ Distinct(line) /\ Apart(set, line)

PoolTypes ==
    /\ limit \in 1 .. MaxLimit
    /\ nextItem \in 1 .. PoolSize + 1
    /\ results \in [PoolItem -> Nat]
    /\ verdict \in {"pending", "resolved", "rejected"}

\* An item that was taken is in flight or parked without a result, or answered;
\* a call that rejects leaves a hole, and then the caller has been told.
PoolItems ==
    /\ \A i \in Held(flying, parked) : i < nextItem /\ results[i] = 0
    /\ \A i \in PoolItem : i >= nextItem => results[i] = 0
    /\ verdict # "rejected" =>
          \A i \in PoolItem : i < nextItem => i \in Held(flying, parked) \/ results[i] = i

VerdictExact ==
    /\ verdict = "pending" => flying # {}
    /\ verdict = "resolved" => flying = {} /\ \A i \in PoolItem : results[i] = i

PoolInv ==
    /\ PoolTypes /\ Placed(flying, parked) /\ PoolItems /\ VerdictExact
    /\ parked # <<>> => flying # {}

LEMMA AdaptedInRange == ASSUME PoolTypes, NEW slow \in BOOLEAN PROVE Adapted(slow) \in 1 .. MaxLimit
<1>1. MaxLimit \in Nat /\ MaxLimit >= 1 /\ limit \in Nat /\ limit >= 1 /\ limit <= MaxLimit
  BY PoolAssumption DEF PoolTypes
<1>2. Max({1, limit \div 2}) = IF 1 >= limit \div 2 THEN 1 ELSE limit \div 2
  BY <1>1, MaxOfTwo
<1>3. Min({MaxLimit, limit + 1}) = IF MaxLimit <= limit + 1 THEN MaxLimit ELSE limit + 1
  BY <1>1, MinOfTwo
<1> QED BY <1>1, <1>2, <1>3 DEF Adapted

\* The line of a worker that queues before those its release() woke.
LEMMA OwnBeforeLine ==
  ASSUME NEW set, NEW line, Placed(set, line), NEW n \in PoolItem, n \notin set, n \notin ToSet(line)
  PROVE  /\ <<n>> \o line \in Seq(PoolItem) /\ Distinct(<<n>> \o line) /\ Apart(set, <<n>> \o line)
         /\ Held(set, <<n>> \o line) = Held(set, line) \cup {n}
<1> DEFINE whole == <<n>> \o line
<1>1. /\ whole \in Seq(PoolItem) /\ Len(whole) = Len(line) + 1 /\ DOMAIN whole = 1 .. Len(line) + 1
      /\ whole[1] = n /\ \A k \in DOMAIN line : whole[k + 1] = line[k]
      /\ Len(line) \in Nat /\ DOMAIN line = 1 .. Len(line)
  BY DEF Placed
<1>2. \A k \in DOMAIN whole : k # 1 => k - 1 \in DOMAIN line /\ whole[k] = line[k - 1]
  BY <1>1
<1>3. \A k \in DOMAIN line : k + 1 \in DOMAIN whole /\ line[k] # n
  BY <1>1 DEF ToSet
<1> HIDE DEF whole
<1>4. Distinct(whole)
  BY <1>1, <1>2, <1>3 DEF Distinct, Placed
<1>5. Apart(set, whole)
  BY <1>1, <1>2 DEF Apart, Placed
<1>6. ToSet(whole) = ToSet(line) \cup {n}
  <2>1. ASSUME NEW x \in ToSet(whole) PROVE x \in ToSet(line) \cup {n}
    BY <1>1, <1>2, <2>1 DEF ToSet
  <2>2. ASSUME NEW x \in ToSet(line) PROVE x \in ToSet(whole)
    <3>1. PICK k \in DOMAIN line : line[k] = x
      BY <2>2 DEF ToSet
    <3> QED BY <1>1, <1>3, <3>1 DEF ToSet
  <2>3. n \in ToSet(whole)
    BY <1>1 DEF ToSet
  <2> QED BY <2>1, <2>2, <2>3
<1> QED BY <1>1, <1>4, <1>5, <1>6 DEF whole, Held

\* What a worker that is done leaves: its own place, and the next item in one.
LEMMA NextForExact ==
  ASSUME PoolInv, NEW i \in flying, NextFor(i), limit' \in 1 .. MaxLimit
  PROVE  /\ Placed(flying', parked') /\ nextItem' \in 1 .. PoolSize + 1
         /\ parked' # <<>> => flying' # {}
         /\ nextItem' = IF nextItem <= PoolSize THEN nextItem + 1 ELSE nextItem
         /\ Held(flying', parked') = (Held(flying, parked) \ {i})
                                       \cup (IF nextItem <= PoolSize THEN {nextItem} ELSE {})
<1> DEFINE rest == flying \ {i}
           own == IF nextItem <= PoolSize THEN <<nextItem>> ELSE <<>>
<1>0. MaxLimit \in Nat /\ limit' \in Nat /\ limit' > 0 /\ limit' <= MaxLimit /\ PoolSize \in Nat
  BY PoolAssumption
<1>1. /\ rest \in SUBSET PoolItem /\ IsFiniteSet(rest) /\ Cardinality(rest) = Cardinality(flying) - 1
      /\ Cardinality(rest) \in Nat /\ Cardinality(flying) <= MaxLimit
  BY FS_RemoveElement, FS_CardinalityType DEF PoolInv, Placed
<1>2. Placed(rest, parked) /\ i \notin ToSet(parked)
  <2>1. Cardinality(flying) \in Nat /\ Cardinality(rest) <= MaxLimit
    BY <1>0, <1>1, FS_CardinalityType DEF PoolInv, Placed
  <2>2. Apart(rest, parked) /\ parked \in Seq(PoolItem) /\ Distinct(parked)
    BY DEF PoolInv, Placed, Apart
  <2>3. i \notin ToSet(parked)
    BY DEF PoolInv, Placed, Apart, ToSet
  <2> QED BY <1>1, <2>1, <2>2, <2>3 DEF Placed
<1>3. nextItem' = (IF nextItem <= PoolSize THEN nextItem + 1 ELSE nextItem) /\ nextItem' \in 1 .. PoolSize + 1
  BY <1>0 DEF NextFor, PoolInv, PoolTypes
<1>4. nextItem \notin flying /\ nextItem \notin ToSet(parked)
  BY DEF PoolInv, PoolTypes, PoolItems, Held
<1>5. Held(rest, parked) = Held(flying, parked) \ {i}
  BY <1>2 DEF Held
<1>6. CASE nextItem <= PoolSize /\ limit' - Cardinality(rest) > 0
  <2>1. Take(rest \cup {nextItem}, parked, limit') /\ nextItem \in PoolItem
    <3>1. own # <<>>
      BY <1>6
    <3> QED BY <1>6, <3>1 DEF NextFor, PoolInv, PoolTypes, PoolItem
  <2>2. /\ IsFiniteSet(rest \cup {nextItem}) /\ Cardinality(rest \cup {nextItem}) = Cardinality(rest) + 1
        /\ rest \cup {nextItem} \in SUBSET PoolItem
    <3>1. nextItem \notin rest /\ IsFiniteSet(rest) /\ rest \in SUBSET PoolItem
      BY <1>1, <1>4
    <3>2. rest \cup {nextItem} \in SUBSET PoolItem
      BY <2>1, <3>1
    <3> HIDE DEF rest
    <3> QED BY <3>1, <3>2, FS_AddElement
  <2>3. Cardinality(rest \cup {nextItem}) <= MaxLimit
    BY <1>0, <1>1, <2>2, FS_CardinalityType DEF PoolInv, Placed
  <2>4. Apart(rest \cup {nextItem}, parked)
    BY <1>2, <1>4 DEF Placed, Apart, ToSet
  <2>5. parked \in Seq(PoolItem) /\ Distinct(parked)
    BY <1>2 DEF Placed
  <2> HIDE DEF rest
  <2>6. /\ Placed(flying', parked') /\ (parked' # <<>> => flying' # {})
        /\ Held(flying', parked') = Held(rest \cup {nextItem}, parked)
    BY <1>0, <2>1, <2>2, <2>3, <2>4, <2>5, TakeExact DEF Placed
  <2>7. Held(rest \cup {nextItem}, parked) = Held(rest, parked) \cup {nextItem}
    BY DEF Held
  <2> QED BY <1>3, <1>5, <1>6, <2>6, <2>7 DEF rest
<1>7. CASE ~(nextItem <= PoolSize /\ limit' - Cardinality(rest) > 0)
  <2>1. Take(rest, own \o parked, limit')
    BY <1>7 DEF NextFor
  <2>2. /\ own \o parked \in Seq(PoolItem) /\ Distinct(own \o parked) /\ Apart(rest, own \o parked)
        /\ Held(rest, own \o parked) = Held(rest, parked)
                                         \cup (IF nextItem <= PoolSize THEN {nextItem} ELSE {})
    <3>1. CASE nextItem <= PoolSize
      <4>1. nextItem \in PoolItem /\ nextItem \notin rest /\ own = <<nextItem>>
        BY <1>4, <3>1 DEF PoolInv, PoolTypes, PoolItem
      <4> HIDE DEF own
      <4> HIDE DEF rest
      <4>2. LET whole == <<nextItem>> \o parked
            IN  /\ whole \in Seq(PoolItem) /\ Distinct(whole) /\ Apart(rest, whole)
                /\ Held(rest, whole) = Held(rest, parked) \cup {nextItem}
        BY <1>2, <1>4, <4>1, OwnBeforeLine
      <4> QED BY <3>1, <4>1, <4>2
    <3>2. CASE ~(nextItem <= PoolSize)
      <4>1. own \o parked = parked
        BY <3>2 DEF PoolInv, Placed
      <4> QED BY <1>2, <3>2, <4>1 DEF Placed
    <3> QED BY <3>1, <3>2
  <2> HIDE DEF rest, own
  <2>3. Cardinality(rest) <= MaxLimit
    BY <1>0, <1>1, FS_CardinalityType DEF PoolInv, Placed, rest
  <2>4. /\ Placed(flying', parked') /\ (parked' # <<>> => flying' # {})
        /\ Held(flying', parked') = Held(rest, own \o parked)
    BY <1>0, <1>1, <2>1, <2>2, <2>3, TakeExact DEF Placed
  <2> QED BY <1>3, <1>5, <2>2, <2>4
<1> QED BY <1>6, <1>7

LEMMA InitPool == PoolInit => PoolInv
<1> SUFFICES ASSUME PoolInit PROVE PoolInv
  OBVIOUS
<1> DEFINE first == Min({limit, Workers})
<1>0. PoolSize \in Nat /\ PoolSize >= 1 /\ MaxLimit \in Nat /\ MaxLimit >= 1
  BY PoolAssumption
<1>1. /\ limit \in Nat /\ limit >= 1 /\ limit <= MaxLimit
      /\ nextItem = Workers + 1 /\ flying = 1 .. first
      /\ parked = [k \in 1 .. Workers - first |-> limit + k]
      /\ results = [i \in PoolItem |-> 0] /\ verdict = "pending"
  BY <1>0 DEF PoolInit
<1>2. /\ Workers \in Nat /\ Workers >= 1 /\ Workers <= PoolSize
      /\ Workers = IF MaxLimit <= PoolSize THEN MaxLimit ELSE PoolSize
  BY <1>0, MinOfTwo DEF Workers
<1>3. first = IF limit <= Workers THEN limit ELSE Workers
  BY <1>1, <1>2, MinOfTwo
<1> HIDE DEF first
<1>4. first \in Nat /\ first >= 1 /\ first <= MaxLimit /\ first <= limit /\ first <= Workers
  BY <1>0, <1>1, <1>2, <1>3
<1>5. PoolTypes
  BY <1>0, <1>1, <1>2 DEF PoolTypes
<1>6. IsFiniteSet(flying) /\ Cardinality(flying) = first /\ flying \in SUBSET PoolItem
  <2>1. IsFiniteSet(1 .. first) /\ Cardinality(1 .. first) = first
    BY <1>4, FS_Interval
  <2> QED BY <1>0, <1>1, <1>2, <1>4, <2>1 DEF PoolItem
<1>7. /\ parked \in Seq(PoolItem) /\ DOMAIN parked = 1 .. Workers - first
      /\ \A k \in 1 .. Workers - first : parked[k] = limit + k /\ first = limit
  <2>1. \A k \in 1 .. Workers - first : limit + k \in PoolItem /\ first = limit
    BY <1>0, <1>1, <1>2, <1>3, <1>4 DEF PoolItem
  <2>2. Workers - first \in Nat
    BY <1>2, <1>4
  <2> QED BY <1>1, <2>1, <2>2
<1>8. Distinct(parked) /\ Apart(flying, parked)
  BY <1>1, <1>2, <1>4, <1>7 DEF Distinct, Apart
<1>9. Placed(flying, parked)
  BY <1>4, <1>6, <1>7, <1>8 DEF Placed
<1>10. \A i \in PoolItem : i < nextItem <=> i \in Held(flying, parked)
  <2> SUFFICES ASSUME NEW i \in PoolItem PROVE i < nextItem <=> i \in Held(flying, parked)
    OBVIOUS
  <2>1. CASE i <= first
    BY <1>1, <1>2, <1>3, <1>4, <2>1 DEF PoolItem, Held
  <2>2. CASE i > first
    <3>1. i \in Held(flying, parked) <=> \E k \in 1 .. Workers - first : limit + k = i
      <4>1. i \notin flying
        BY <1>1, <1>4, <2>2 DEF PoolItem
      <4>2. ToSet(parked) = {parked[k] : k \in 1 .. Workers - first}
        BY <1>7 DEF ToSet
      <4> QED BY <1>7, <4>1, <4>2 DEF Held
    <3>2. i <= Workers => i - first \in 1 .. Workers - first /\ limit + (i - first) = i
      BY <1>1, <1>2, <1>3, <1>4, <2>2 DEF PoolItem
    <3>3. \A k \in 1 .. Workers - first : limit + k = i => i <= Workers
      BY <1>1, <1>2, <1>4, <1>7 DEF PoolItem
    <3> QED BY <1>1, <1>2, <3>1, <3>2, <3>3 DEF PoolItem
  <2> QED BY <1>4, <2>1, <2>2 DEF PoolItem
<1>11. Held(flying, parked) \subseteq PoolItem
  BY <1>9 DEF Placed, Held, ToSet
<1>12. PoolItems
  BY <1>1, <1>10, <1>11 DEF PoolItems
<1>13. flying # {}
  <2>1. 1 \in 1 .. first
    BY <1>4
  <2> QED BY <1>1, <2>1
<1> QED BY <1>1, <1>5, <1>9, <1>12, <1>13 DEF PoolInv, VerdictExact

LEMMA ResolveKeepsPool == ASSUME PoolInv, NEW i \in PoolItem, CallResolves(i) PROVE PoolInv'
<1>1. /\ i \in flying /\ results' = [results EXCEPT ![i] = i] /\ NextFor(i)
      /\ verdict' = IF verdict = "pending" /\ flying' = {} /\ parked' = <<>> THEN "resolved" ELSE verdict
  BY DEF CallResolves
<1>2. limit' \in 1 .. MaxLimit
  BY AdaptedInRange DEF CallResolves, PoolInv, PoolTypes
<1>3. /\ Placed(flying', parked') /\ nextItem' \in 1 .. PoolSize + 1
      /\ parked' # <<>> => flying' # {}
      /\ nextItem' = IF nextItem <= PoolSize THEN nextItem + 1 ELSE nextItem
      /\ Held(flying', parked') = (Held(flying, parked) \ {i})
                                    \cup (IF nextItem <= PoolSize THEN {nextItem} ELSE {})
  BY <1>1, <1>2, NextForExact
<1>4. PoolSize \in Nat /\ nextItem \in Nat
  BY PoolAssumption DEF PoolInv, PoolTypes
<1>5. PoolTypes'
  BY <1>1, <1>2, <1>3 DEF PoolInv, PoolTypes, PoolItem
<1>6. \A j \in PoolItem : results'[j] = IF j = i THEN i ELSE results[j]
  BY <1>1 DEF PoolInv, PoolTypes
<1>7. Held(flying, parked) \subseteq PoolItem /\ i \in Held(flying, parked)
  BY <1>1 DEF PoolInv, Placed, Held, ToSet
<1>8. \A j \in Held(flying', parked') : j < nextItem' /\ results'[j] = 0
  <2> SUFFICES ASSUME NEW j \in Held(flying', parked') PROVE j < nextItem' /\ results'[j] = 0
    OBVIOUS
  <2>1. CASE j \in Held(flying, parked) /\ j # i
    BY <1>3, <1>4, <1>6, <1>7, <2>1 DEF PoolInv, PoolItems, PoolItem
  <2>2. CASE nextItem <= PoolSize /\ j = nextItem
    <3>1. j \in PoolItem /\ j # i
      <4>1. i < nextItem
        BY <1>7 DEF PoolInv, PoolItems
      <4> QED BY <1>4, <2>2, <4>1 DEF PoolInv, PoolTypes, PoolItem
    <3>2. results[j] = 0
      BY <1>4, <2>2, <3>1 DEF PoolInv, PoolItems
    <3> QED BY <1>3, <1>4, <1>6, <2>2, <3>1, <3>2
  <2> QED BY <1>3, <2>1, <2>2
<1>9. verdict # "rejected" =>
        \A j \in PoolItem : j < nextItem' => j \in Held(flying', parked') \/ results'[j] = j
  <2> SUFFICES ASSUME verdict # "rejected", NEW j \in PoolItem, j < nextItem'
               PROVE  j \in Held(flying', parked') \/ results'[j] = j
    OBVIOUS
  <2>1. CASE j < nextItem
    BY <1>3, <1>6, <2>1 DEF PoolInv, PoolItems
  <2>2. CASE ~(j < nextItem)
    <3>1. j = nextItem /\ nextItem <= PoolSize
      BY <1>3, <1>4, <2>2 DEF PoolItem
    <3> QED BY <1>3, <3>1
  <2> QED BY <2>1, <2>2
<1>10. PoolItems'
  <2>1. ASSUME NEW j \in PoolItem, j >= nextItem' PROVE results'[j] = 0
    <3>1. i < nextItem /\ nextItem' \in Nat /\ nextItem <= nextItem'
      BY <1>3, <1>4, <1>7 DEF PoolInv, PoolItems
    <3>2. j # i /\ j >= nextItem
      BY <1>4, <2>1, <3>1 DEF PoolItem
    <3> QED BY <1>6, <3>2 DEF PoolInv, PoolItems
  <2> QED BY <1>1, <1>8, <1>9, <2>1 DEF PoolItems
<1>11. verdict # "resolved"
  BY <1>1 DEF PoolInv, VerdictExact
<1>12. CASE verdict = "pending" /\ flying' = {} /\ parked' = <<>>
  <2>1. Held(flying', parked') = {}
    BY <1>12 DEF Held, ToSet
  <2>2. ~(nextItem <= PoolSize)
    BY <1>3, <2>1
  <2>3. \A j \in PoolItem : results'[j] = j
    BY <1>3, <1>4, <1>9, <1>12, <2>1, <2>2 DEF PoolItem
  <2> QED BY <1>1, <1>3, <1>5, <1>10, <1>12, <2>3 DEF PoolInv, VerdictExact
<1>13. CASE ~(verdict = "pending" /\ flying' = {} /\ parked' = <<>>)
  <2>1. verdict' = verdict /\ (verdict = "pending" => flying' # {})
    BY <1>1, <1>3, <1>13
  <2> QED BY <1>3, <1>5, <1>10, <1>11, <2>1 DEF PoolInv, VerdictExact
<1> QED BY <1>12, <1>13

LEMMA RejectKeepsPool == ASSUME PoolInv, NEW i \in PoolItem, CallRejects(i) PROVE PoolInv'
<1>1. /\ i \in flying /\ Take(flying \ {i}, parked, limit)
      /\ verdict' = (IF verdict = "pending" THEN "rejected" ELSE verdict)
      /\ UNCHANGED <<limit, nextItem, results>>
  BY DEF CallRejects
<1> DEFINE rest == flying \ {i}
<1>2. /\ rest \in SUBSET PoolItem /\ IsFiniteSet(rest) /\ Cardinality(rest) = Cardinality(flying) - 1
      /\ Cardinality(flying) \in Nat /\ Cardinality(flying) <= MaxLimit
  BY <1>1, FS_RemoveElement, FS_CardinalityType DEF PoolInv, Placed
<1>3. MaxLimit \in Nat /\ limit \in Nat /\ limit > 0 /\ limit <= MaxLimit
  BY PoolAssumption DEF PoolInv, PoolTypes
<1>4. Cardinality(rest) <= MaxLimit
  BY <1>2, <1>3
<1>5. Apart(rest, parked) /\ parked \in Seq(PoolItem) /\ Distinct(parked)
  BY DEF PoolInv, Placed, Apart
<1> HIDE DEF rest
<1>6. /\ Placed(flying', parked') /\ (parked' # <<>> => flying' # {})
      /\ Held(flying', parked') = Held(rest, parked)
  BY <1>1, <1>2, <1>3, <1>4, <1>5, TakeExact DEF Placed, rest
<1>7. Held(rest, parked) \subseteq Held(flying, parked)
  BY DEF Held, rest
<1>8. verdict # "resolved"
  BY <1>1 DEF PoolInv, VerdictExact
<1>9. verdict' # "pending" /\ verdict' # "resolved" /\ ~(verdict' # "rejected")
  <2>1. verdict \in {"pending", "rejected"}
    BY <1>8 DEF PoolInv, PoolTypes
  <2> QED BY <1>1, <2>1
<1>10. PoolItems'
  BY <1>1, <1>6, <1>7, <1>9 DEF PoolInv, PoolItems
<1>11. PoolTypes' /\ VerdictExact'
  BY <1>1, <1>9 DEF PoolInv, PoolTypes, VerdictExact
<1> QED BY <1>6, <1>10, <1>11 DEF PoolInv

LEMMA StepKeepsPool == PoolInv /\ [PoolNext]_poolVars => PoolInv'
<1>1. PoolInv /\ UNCHANGED poolVars => PoolInv'
  BY DEF poolVars, PoolInv, PoolTypes, Placed, PoolItems, VerdictExact, Held, Distinct, Apart
<1> QED BY <1>1, ResolveKeepsPool, RejectKeepsPool DEF PoolNext

\* mapWithConcurrency() and mapWithAdaptiveConcurrency(): for any number of
\* items and any limit, whatever the limit adapts to and whichever calls reject,
\* no wake-up is lost, no item is taken twice or left out, and the promise
\* resolves with every result in its place.
THEOREM PoolAlwaysExact == PoolSpec => []PoolExact
<1>1. PoolInv => PoolExact
  <2> SUFFICES ASSUME PoolInv PROVE PoolExact
    OBVIOUS
  <2>1. Cardinality(flying) <= MaxLimit /\ \A k \in DOMAIN parked : parked[k] \notin flying
    BY DEF PoolInv, Placed, Apart
  <2>2. \A k \in DOMAIN parked : parked[k] \in Held(flying, parked)
    BY DEF Held, ToSet
  <2>3. \A i \in flying : i \in Held(flying, parked)
    BY DEF Held
  <2> QED BY <2>1, <2>2, <2>3 DEF PoolInv, PoolItems, VerdictExact, PoolExact
<1> QED BY InitPool, StepKeepsPool, <1>1, PTL DEF PoolSpec
=============================================================================
