---------------------------- MODULE ErrorMapping ----------------------------
(***************************************************************************)
(* How a failure is named on its way to the application (errors.ts,        *)
(* catchNetworkError() of soroban.ts, relayer/ErrorMapper.ts).             *)
(*                                                                         *)
(* A failure starts as an answer of a contract or of Horizon, or as a      *)
(* request that got no answer; the SDK classifies it once, and the         *)
(* application may parse it, wrap it in errors of its own, and ask whether *)
(* a retry makes sense.  An error is the chain of its causes, outermost    *)
(* first; of each, the model keeps what the classifiers look at.           *)
(***************************************************************************)
EXTENDS Integers, Sequences, FiniteSets

CONSTANT MaxWraps   \* errors the application wraps around the SDK's

ASSUME ErrorAssumption == MaxWraps \in Nat

VARIABLES
    origin,    \* what went wrong
    thrown,    \* the error the application holds, or <<>>
    wraps,     \* how often the application wrapped it
    handlers,  \* handlers ErrorMapper has on the relayer
    disposed   \* isDisposed of ErrorMapper

errorVars == <<origin, thrown, wraps, handlers, disposed>>

-----------------------------------------------------------------------------
(* The catalogues, MESSAGES_BY_CONTRACT. *)

Contract == {"stream", "factory", "governor"}

StreamCode == 1 .. 15
FactoryCode == 1 .. 10
GovernorCode == 1 .. 3

CodesOf(c) ==
    CASE c = "stream" -> StreamCode
      [] c = "factory" -> FactoryCode
      [] c = "governor" -> GovernorCode

UnknownCode == -1

\* The lifecycle codes: cancelled, not started, ended, paused, not paused.
StateByCode == {3, 4, 5, 9, 10}

\* Classes that stand for an answer of a contract; Error is not one of them.
ContractLayer(name, c, n) ==
    [name |-> name, contract |-> c, code |-> n, status |-> 0, text |-> 0, network |-> FALSE]
Layer(name) == ContractLayer(name, "none", 0)
ConduitError(c, n) == ContractLayer("ConduitError", c, n)

\* The typed classes of factory and governor codes.
TypedCode(c, n) ==
    CASE c = "factory" /\ n = 8 -> ContractLayer("RateExceedsMaxError", c, n)
      [] c = "factory" /\ n = 9 -> ContractLayer("DurationTooShortError", c, n)
      [] c = "factory" /\ n = 6 -> ContractLayer("BackdatedStreamError", c, n)
      [] c = "governor" /\ n = 2 -> ContractLayer("GovernorInvalidParamError", c, n)
      [] OTHER -> ConduitError(c, n)

\* The subclasses of ConduitError.
ConduitClass ==
    {"ConduitError", "RateExceedsMaxError", "DurationTooShortError", "BackdatedStreamError",
     "GovernorInvalidParamError", "UnauthorizedStreamActionError", "ClawbackNotEnabledError",
     "InvalidStreamStateError", "StreamNotFoundError", "AmountExceedsWithdrawableError"}

\* Classes of transport failures, and of failures that are no one's answer.
TransportClass ==
    {"RateLimitError", "RpcServiceUnavailableError", "StreamFiNetworkError",
     "IndexerTimeoutError", "ConfirmationTimeoutError", "CircuitOpenError"}
LocalClass ==
    {"OperationAbortedError", "UserCancelledError", "AlbedoCancelError", "SignatureTimeoutError",
     "NetworkMismatchError", "WalletTimeoutError", "AlbedoInvalidSignatureError", "ValidationError"}
HorizonClass == {"InsufficientBalanceError", "BadAuthError", "HorizonTransactionError"}

\* isConduitError() goes by a list of names, in which some classes are missing.
IsConduitError(e) ==
    e.name \in (ConduitClass \cup TransportClass \cup LocalClass \cup HorizonClass)
                 \ {"GovernorInvalidParamError", "WalletTimeoutError", "AlbedoInvalidSignatureError"}

-----------------------------------------------------------------------------
(* What can go wrong.  A contract called by ours, such as a token, answers *)
(* with codes of its own, and a newer contract with one we do not know.    *)

Answers ==
    {[kind |-> "answer", contract |-> c, code |-> n] : c \in Contract, n \in StreamCode \cup {99}}
      \cup {[kind |-> "answer", contract |-> "token", code |-> 10]}
Known(o) == o.kind = "answer" /\ o.contract \in Contract /\ o.code \in CodesOf(o.contract)

\* A response with an HTTP status, a JSON-RPC error, a failure of the socket.
Requests ==
    {[kind |-> "status", code |-> n] : n \in {400, 429, 500, 503}}
      \cup {[kind |-> "rpc", code |-> n] : n \in {429, -32029, -32602}}
      \cup {[kind |-> "socket", code |-> 0]}
Reported == {[kind |-> "class", class |-> name] :
                name \in TransportClass \cup LocalClass \cup {"AmountExceedsWithdrawableError"}}
HorizonCode == {"tx_insufficient_balance", "tx_bad_auth", "op_malformed"}
Horizon == {[kind |-> "horizon", codes |-> S] : S \in SUBSET HorizonCode}

Trap == {[kind |-> "trap"]}   \* the VM stops the contract

ErrorInit ==
    /\ origin \in Answers \cup Requests \cup Reported \cup Horizon \cup Trap
    /\ thrown = <<>> /\ wraps = 0 /\ handlers = 0 /\ disposed = FALSE

Throw(chain) ==
    /\ thrown = <<>>
    /\ thrown' = chain
    /\ UNCHANGED <<origin, wraps, handlers, disposed>>

-----------------------------------------------------------------------------
(* The routes of a contract's answer. *)

\* fromSorobanMessage() over the text of a failed simulation.
FromSorobanMessage(c, n) ==
    IF n \in CodesOf(c) THEN TypedCode(c, n) ELSE [Layer("Error") EXCEPT !.text = n]

\* A mistake for the runs to notice: the code is enough, whatever the contract.
TranslateByCode(e) ==
    CASE e.code = 1 -> ContractLayer("UnauthorizedStreamActionError", "stream", 1)
      [] e.code = 11 -> ContractLayer("ClawbackNotEnabledError", "stream", 11)
      [] e.code \in StateByCode -> ContractLayer("InvalidStreamStateError", "stream", e.code)
      [] OTHER -> e

\* translateStreamError(), around every operation on a stream.
TranslateStreamError(e) ==
    CASE e.contract = "stream" /\ e.code = 1 -> ContractLayer("UnauthorizedStreamActionError", "stream", 1)
      [] e.contract = "stream" /\ e.code = 11 -> ContractLayer("ClawbackNotEnabledError", "stream", 11)
      [] e.contract = "stream" /\ e.code \in StateByCode ->
             ContractLayer("InvalidStreamStateError", "stream", e.code)
      [] OTHER -> e

\* The contract the SDK asked: one of ours, on behalf of which a token may answer.
Asked == IF origin.contract \in Contract THEN {origin.contract} ELSE {"stream", "factory"}

\* A failed simulation of a call of StreamsModule: some are read without
\* translation, and a read of a stream only looks for the stream that is missing.
SimulationFails ==
    /\ origin.kind = "answer"
    /\ \E c \in Asked \ {"governor"} :
          LET e == FromSorobanMessage(c, origin.code)
          IN  \/ Throw(<<e>>)
              \/ Throw(<<TranslateStreamError(e)>>)
              \/ e.contract = "stream" /\ e.code = 2
                 /\ Throw(<<ContractLayer("StreamNotFoundError", "stream", 2)>>)

\* fromSorobanMessage() takes every trap for a lack of funds.
SimulationTraps == origin.kind = "trap" /\ Throw(<<Layer("InsufficientBalanceError")>>)

\* A failed simulation of invokeContract(), which keeps the text only.
InvokeFails ==
    origin.kind = "answer" /\ Throw(<<[Layer("Error") EXCEPT !.text = origin.code]>>)

\* ErrorMapper over the relayer: attach() first detaches, dispose() is final.
AttachMapper == ~disposed /\ handlers' = 1 /\ UNCHANGED <<origin, thrown, wraps, disposed>>
DetachMapper == handlers' = 0 /\ UNCHANGED <<origin, thrown, wraps, disposed>>
DisposeMapper == disposed' = TRUE /\ handlers' = 0 /\ UNCHANGED <<origin, thrown, wraps>>

FromContractError(c, n) ==
    CASE n \notin CodesOf(c) -> ConduitError(c, UnknownCode)
      [] c = "governor" /\ n = 2 -> ContractLayer("GovernorInvalidParamError", c, n)
      [] OTHER -> ConduitError(c, n)

MappedMessage ==
    /\ origin.kind = "answer" /\ origin.contract \in Contract
    /\ handlers > 0 /\ ~disposed
    /\ Throw(<<FromContractError(origin.contract, origin.code)>>)

-----------------------------------------------------------------------------
(* The routes of a request that failed. *)

RawRequest ==
    CASE origin.kind = "status" -> [Layer("Error") EXCEPT !.status = origin.code]
      [] origin.kind = "rpc" -> [Layer("Error") EXCEPT !.code = origin.code]
      [] origin.kind = "socket" -> [Layer("TypeError") EXCEPT !.network = TRUE]

CatchNetworkError(e) == IF e.network THEN <<Layer("StreamFiNetworkError"), e>> ELSE <<e>>

\* fromRpcError(), or the error itself.
FromRpcError(chain) ==
    LET e == Head(chain)
    IN  IF e.status = 429 \/ e.code \in {429, -32029} THEN <<Layer("RateLimitError")>>
        ELSE IF e.status = 503 THEN <<Layer("RpcServiceUnavailableError")>>
        ELSE chain

RequestFails ==
    /\ origin.kind \in {"status", "rpc", "socket"}
    /\ Throw(FromRpcError(CatchNetworkError(RawRequest)))

\* Timeouts, aborts and refusals are thrown as classes of their own; withdraw()
\* refuses an amount by itself, in the name of the contract.
ReportedByClass ==
    /\ origin.kind = "class"
    /\ Throw(<<IF origin.class = "AmountExceedsWithdrawableError"
               THEN ContractLayer(origin.class, "stream", 6) ELSE Layer(origin.class)>>)

MapHorizonError(codes) ==
    IF codes = {} THEN Layer("Error")
    ELSE IF "tx_insufficient_balance" \in codes THEN Layer("InsufficientBalanceError")
    ELSE IF "tx_bad_auth" \in codes THEN Layer("BadAuthError")
    ELSE Layer("HorizonTransactionError")

HorizonRejects == origin.kind = "horizon" /\ Throw(<<MapHorizonError(origin.codes)>>)

-----------------------------------------------------------------------------
(* What the application does with the error. *)

\* Both classifiers follow five causes and no more.
Reached == 1 .. IF Len(thrown) < 5 THEN Len(thrown) ELSE 5
FirstOf(S) == CHOOSE i \in S : \A j \in S : i <= j

CodeFound(e) == IF e.code > 0 THEN e.code ELSE e.text
ExtractContractErrorCode ==
    LET found == {i \in Reached : CodeFound(thrown[i]) > 0}
    IN  IF found = {} THEN 0 ELSE CodeFound(thrown[FirstOf(found)])

ContractsDefiningCode(n) == {c \in Contract : n \in CodesOf(c)}

\* What parseContractError() makes of a code of one contract, with a context or without.
Parsed(c, n, context) ==
    IF n \notin CodesOf(c) THEN ContractLayer("ContractError", c, n)
    ELSE IF c # "stream" THEN TypedCode(c, n)
    ELSE CASE n = 11 -> ContractLayer("ClawbackNotEnabledError", c, n)
           [] n = 1 /\ context -> ContractLayer("UnauthorizedStreamActionError", c, n)
           [] n = 2 /\ context -> ContractLayer("StreamNotFoundError", c, n)
           [] n \in StateByCode /\ context -> ContractLayer("InvalidStreamStateError", c, n)
           [] OTHER -> ConduitError(c, n)

Ambiguous(n) == ContractLayer("ContractError", "none", n)

\* The caller names the contract it called, or none.
ParseContractError(named) ==
    LET n == ExtractContractErrorCode
        candidates == ContractsDefiningCode(n)
    IN  /\ thrown # <<>> /\ Head(thrown).name \notin ConduitClass /\ n > 0
        /\ \E context \in BOOLEAN :
              thrown' = IF named # "none" THEN <<Parsed(named, n, context)>>
                        ELSE IF Cardinality(candidates) # 1 THEN <<Ambiguous(n)>>
                        ELSE <<Parsed(CHOOSE c \in candidates : TRUE, n, context)>>
        /\ UNCHANGED <<origin, wraps, handlers, disposed>>

WrappedByApplication ==
    /\ thrown # <<>> /\ wraps < MaxWraps
    /\ thrown' = <<Layer("Error")>> \o thrown
    /\ wraps' = wraps + 1
    /\ UNCHANGED <<origin, handlers, disposed>>

RecoverableStatus == {408, 425, 429, 500, 502, 503, 504}

\* The verdict on one error of the chain, "none" when its cause decides.
RecoverableOnce(e) ==
    IF e.name \in TransportClass THEN "yes"
    ELSE IF IsConduitError(e) THEN "no"
    ELSE IF e.status # 0 THEN IF e.status \in RecoverableStatus THEN "yes" ELSE "no"
    ELSE IF e.code # 0 THEN IF e.code \in RecoverableStatus THEN "yes" ELSE "none"
    ELSE IF e.network THEN "yes" ELSE "none"

IsRecoverableError ==
    LET decided == {i \in Reached : RecoverableOnce(thrown[i]) # "none"}
    IN  decided # {} /\ RecoverableOnce(thrown[FirstOf(decided)]) = "yes"

ErrorNext ==
    \/ SimulationFails \/ SimulationTraps \/ InvokeFails \/ MappedMessage
    \/ AttachMapper \/ DetachMapper \/ DisposeMapper
    \/ RequestFails \/ ReportedByClass \/ HorizonRejects
    \/ ParseContractError("none")
    \/ origin.kind = "answer" /\ \E c \in Asked : ParseContractError(c)
    \/ WrappedByApplication

ErrorSpec == ErrorInit /\ [][ErrorNext]_errorVars

-----------------------------------------------------------------------------
(* What a failure means, whoever looks at it. *)

Transient ==
    \/ origin.kind = "socket"
    \/ origin.kind = "status" /\ origin.code \in RecoverableStatus
    \/ origin.kind = "rpc" /\ origin.code \in {429, -32029}
    \/ origin.kind = "class" /\ origin.class \in TransportClass

(* The code of a contract in our catalogues is never given another         *)
(* contract or number on any route, nor is one invented for a failure no   *)
(* contract reported, but by withdraw() for an amount it refuses itself;   *)
(* and as long as fewer than five errors are wrapped around it,            *)
(* isRecoverableError() (errors.ts:1617) says of the result what the       *)
(* failure was: transient, or an answer a retry does not change.           *)
MeaningKept ==
    thrown # <<>> =>
        /\ \A i \in 1 .. Len(thrown) :
              LET e == thrown[i]
              IN  e.contract # "none" =>
                    /\ origin.kind = "answer" \/ e.name = "AmountExceedsWithdrawableError"
                    /\ Known(origin) => e.contract = origin.contract /\ e.code = origin.code
        /\ wraps < 5 => (IsRecoverableError <=> Transient)
=============================================================================
