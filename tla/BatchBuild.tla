----------------------------- MODULE BatchBuild -----------------------------
(***************************************************************************)
(* How src/batch-tx.ts makes transactions of a batch of operations, before *)
(* submitBatch() sends them: the checks of the context, the encoding of    *)
(* the arguments, the sequence numbers, and the simulations, which are all *)
(* under way at once.  BatchExact joins what the two promise.              *)
(***************************************************************************)
EXTENDS BatchSubmit

CONSTANTS
    MaxOperations,      \* bound: operations of the batch
    NoSequence          \* the context has none

ASSUME BuildAssumption == MaxOperations \in Nat \ {0} /\ NoSequence \notin Nat

\* A parameter value is what decides its encoding: "void", "scval", "address" or
\* "plain"; with it goes its explicit type, or none.
NoType == "none"

\* An operation by what the code asks of it: a method name, and either a list of
\* arguments or named parameters as the caller wrote them, their keys numbered
\* in the order of the names.
Operation ==
    { [named |-> FALSE, list |-> TRUE, args |-> <<>>, params |-> <<>>],
      [named |-> TRUE, list |-> TRUE, args |-> <<"address", "void", "scval">>, params |-> <<>>],
      [named |-> TRUE, list |-> FALSE, args |-> <<>>, params |-> <<>>],
      [named |-> TRUE, list |-> FALSE, args |-> <<>>,
       params |-> <<[key |-> 2, value |-> "address", type |-> NoType],
                    [key |-> 1, value |-> "plain", type |-> "i128"]>>] }

Context ==
    [addresses : BOOLEAN,       \* contractId and sourceAccount are addresses
     network : {"none", "unknown", "known"},
     networkPassphrase : {"none", "blank", "given"},
     sequence : {NoSequence, 0, 7}, rpcUrl : BOOLEAN]

VARIABLES
    buildKind,          \* "build" or "simulate": the function that was called
    operations, context,
    readSequence,       \* the sequence number the transactions are built on
    answers,            \* per operation: what became of its simulation
    buildStep,          \* "idle", "account", "simulating", "over"
    buildOutcome,       \* "none", "built", "reported", "rejected"
    builtTransactions,
    reports             \* what preBatchSimulate() returns

buildVars == <<buildKind, operations, context, readSequence, answers, buildStep, buildOutcome,
               builtTransactions, reports>>

BuildInit ==
    /\ buildKind \in {"build", "simulate"}
    /\ operations \in UNION {[1 .. n -> Operation] : n \in 0 .. MaxOperations}
    /\ context \in Context
    /\ readSequence = NoSequence
    /\ answers = <<>>
    /\ buildStep = "idle" /\ buildOutcome = "none"
    /\ builtTransactions = <<>> /\ reports = <<>>

-----------------------------------------------------------------------------
(* Chunks and arguments                                                    *)

ChunkBatchOperations(list, size) ==
    [c \in 1 .. (Len(list) + size - 1) \div size |->
        SubSeq(list, (c - 1) * size + 1, IF c * size < Len(list) THEN c * size ELSE Len(list))]

\* An explicit type settles the encoding of a value that is neither absent nor
\* encoded already; without one an address is recognised by its form.
ParamToScVal(value, type) ==
    IF value \in {"void", "scval"} THEN value
    ELSE IF type # NoType THEN type
    ELSE IF value = "address" THEN "address" ELSE "inferred"

\* A list of arguments goes in as it is, named parameters as one map whose keys
\* are sorted.  The named parameters of an operation are at most two here.
SortedByKey(params) ==
    IF Len(params) = 2 /\ params[1].key > params[2].key THEN <<params[2], params[1]>> ELSE params

OperationToScVals(operation) ==
    IF operation.list THEN [i \in DOMAIN operation.args |-> ParamToScVal(operation.args[i], NoType)]
    ELSE IF operation.params = <<>> THEN <<>>
    ELSE LET sorted == SortedByKey(operation.params)
         IN  <<[i \in DOMAIN sorted |->
                 [key |-> sorted[i].key, val |-> ParamToScVal(sorted[i].value, sorted[i].type)]]>>

-----------------------------------------------------------------------------
(* The context                                                             *)

ContextIsValid ==
    /\ context.addresses
    /\ context.network # "none" \/ context.networkPassphrase # "none"
    /\ context.network # "unknown"
    /\ context.sequence # NoSequence \/ context.rpcUrl

\* The network the transactions are for; a blank passphrase does not count.
ResolvePassphrase ==
    IF context.networkPassphrase = "given" THEN "given"
    ELSE IF context.network = "known" THEN "network" ELSE "none"

AllNamed == \A i \in DOMAIN operations : operations[i].named

-----------------------------------------------------------------------------
(* Building                                                                *)

\* TransactionBuilder adds one to the account's number.
BuiltTransaction(i, first) ==
    [index |-> i, sequence |-> first + (i - 1) + 1, network |-> ResolvePassphrase,
     args |-> OperationToScVals(operations[i]), prepared |-> context.rpcUrl]

AllBuilt(first) == [i \in DOMAIN operations |-> BuiltTransaction(i, first)]

BuildOver(how) == buildStep' = "over" /\ buildOutcome' = how
BuildRejects == BuildOver("rejected") /\ UNCHANGED <<answers, builtTransactions, reports>>

\* All transactions are built and their simulations sent before one is answered.
Prepare(first) ==
    /\ readSequence' = first
    /\ IF ResolvePassphrase = "none" \/ ~AllNamed THEN BuildRejects
       ELSE /\ buildStep' = "simulating"
            /\ answers' = [i \in DOMAIN operations |-> "pending"]
            /\ UNCHANGED <<buildOutcome, builtTransactions, reports>>

\* Without an RPC endpoint buildBatchTransactions() builds offline, all at once.
BuildStarts ==
    /\ buildStep = "idle"
    /\ IF ~ContextIsValid \/ (buildKind = "simulate" /\ ~context.rpcUrl)
       THEN BuildRejects /\ UNCHANGED readSequence
       ELSE IF ~context.rpcUrl THEN
            /\ readSequence' = context.sequence
            /\ IF ResolvePassphrase = "none" \/ ~AllNamed THEN BuildRejects
               ELSE /\ BuildOver("built")
                    /\ builtTransactions' = AllBuilt(context.sequence)
                    /\ UNCHANGED <<answers, reports>>
       ELSE IF context.sequence # NoSequence THEN Prepare(context.sequence)
       ELSE /\ buildStep' = "account"
            /\ UNCHANGED <<readSequence, answers, buildOutcome, builtTransactions, reports>>
    /\ UNCHANGED <<buildKind, operations, context>>

AccountAnswers ==
    /\ buildStep = "account"
    /\ \/ \E s \in 0 .. 1 : Prepare(s)
       \/ BuildRejects /\ UNCHANGED readSequence
    /\ UNCHANGED <<buildKind, operations, context>>

\* One answer, in any order; preBatchSimulate() rejects with the first request
\* that fails, buildBatchTransactions() waits for all.
SimulationAnswers(i) ==
    /\ buildStep = "simulating" /\ answers[i] = "pending"
    /\ \E a \in {"ok", "error", "lost"} :
          /\ answers' = [answers EXCEPT ![i] = a]
          /\ IF a = "lost" /\ buildKind = "simulate" THEN BuildOver("rejected")
             ELSE UNCHANGED <<buildStep, buildOutcome>>
    /\ UNCHANGED <<buildKind, operations, context, readSequence, builtTransactions, reports>>

\* A single failed simulation fails the whole build.
SimulationsOver ==
    /\ buildStep = "simulating"
    /\ \A i \in DOMAIN answers : answers[i] # "pending"
    /\ IF buildKind = "simulate" THEN
            /\ BuildOver("reported")
            /\ reports' = [i \in DOMAIN answers |-> [index |-> i, success |-> answers[i] = "ok"]]
            /\ UNCHANGED builtTransactions
       ELSE IF \E i \in DOMAIN answers : answers[i] # "ok" THEN
            BuildOver("rejected") /\ UNCHANGED <<builtTransactions, reports>>
       ELSE /\ BuildOver("built")
            /\ builtTransactions' = AllBuilt(readSequence)
            /\ UNCHANGED reports
    /\ UNCHANGED <<buildKind, operations, context, readSequence, answers>>

BuildNext ==
    \/ BuildStarts \/ AccountAnswers \/ SimulationsOver
    \/ \E i \in DOMAIN answers : SimulationAnswers(i)

BuildSpec == BuildInit /\ [][BuildNext]_buildVars

-----------------------------------------------------------------------------
\* The chunks of a batch are the batch, none empty and none too long.
ChunksCover(size) ==
    LET pieces == ChunkBatchOperations(operations, size)
    IN  /\ \A c \in DOMAIN pieces : Len(pieces[c]) \in 1 .. size
        /\ \A i \in DOMAIN operations :
              pieces[((i - 1) \div size) + 1][((i - 1) % size) + 1] = operations[i]
        /\ Len(pieces) * size < Len(operations) + size

\* A parameter is in the map once, under its key, keys ascending, with the type
\* the caller gave it.
MapFaithful(operation, args) ==
    ~operation.list /\ operation.params # <<>> =>
        /\ Len(args) = 1
        /\ \A j, k \in DOMAIN args[1] : j < k => args[1][j].key < args[1][k].key
        /\ {args[1][j].key : j \in DOMAIN args[1]} = {operation.params[j].key : j \in DOMAIN operation.params}
        /\ \A j \in DOMAIN args[1] : \A p \in {operation.params[k] : k \in DOMAIN operation.params} :
              p.key = args[1][j].key /\ p.type # NoType /\ p.value \in {"plain", "address"} =>
                  args[1][j].val = p.type

\* However the simulations are answered: a batch is built whole or not at all,
\* its transactions in the order of the operations, with consecutive sequence
\* numbers that follow the account's, for the network the context names and with
\* the arguments the caller gave, and prepared only if every simulation
\* succeeded; a report tells of each operation what its own simulation said.
BuiltExactly ==
    /\ \A size \in 1 .. MaxOperations + 1 : ChunksCover(size)
    /\ buildOutcome = "built" =>
          /\ DOMAIN builtTransactions = DOMAIN operations
          /\ \A i \in DOMAIN builtTransactions :
                /\ builtTransactions[i].index = i
                /\ builtTransactions[i].sequence =
                      1 + (IF i = 1 THEN readSequence ELSE builtTransactions[i - 1].sequence)
                /\ builtTransactions[i].network # "none"
                /\ context.networkPassphrase = "given" => builtTransactions[i].network = "given"
                /\ MapFaithful(operations[i], builtTransactions[i].args)
                /\ builtTransactions[i].prepared => i \in DOMAIN answers /\ answers[i] = "ok"
          /\ context.sequence # NoSequence => readSequence = context.sequence
    /\ buildOutcome # "built" => builtTransactions = <<>>
    /\ buildOutcome = "reported" =>
          /\ DOMAIN reports = DOMAIN operations
          /\ \A i \in DOMAIN reports : reports[i].index = i /\ (reports[i].success <=> answers[i] = "ok")

\* From the operations of a batch to the ledger: built whole and in order, and
\* sent one after the other as far as the first failure.
BatchExact == BuiltExactly /\ BatchInOrder
=============================================================================
