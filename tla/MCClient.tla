------------------------------ MODULE MCClient ------------------------------
(***************************************************************************)
(* What a client does around a call, checked in one run: the circuit of    *)
(* its endpoint, the client's modules and their wallet, the session behind *)
(* it and the signatures, the arguments of a request, the amounts in it,   *)
(* and the errors that come of it.  They share no state with one another,  *)
(* so a behaviour is a behaviour of one of them, the scenario, and the     *)
(* others stay in an initial state.                                        *)
(***************************************************************************)
EXTENDS RpcCircuit, ClientWallet, Signers, StreamRequest, Amounts, ErrorMapping

VARIABLE scenario

clientVars ==
    <<scenario, vars, facadeVars, sessionVars, signingVars, signersVars, requestVars, amountVars, errorVars>>

\* A component whose turn it is not starts in one state only.
ClientInit ==
    /\ scenario \in {"circuit", "facade", "session", "signing", "signer", "request", "amount", "error"}
    /\ Init /\ SessionInit /\ RequestInit
    /\ SigningInit
    /\ scenario = "signing" \/ /\ adapter = "keypair" /\ ~reports
                               /\ builtFor = NoNetwork /\ askedFor = NoNetwork
                               /\ walletNetwork = CHOOSE n \in Network : TRUE
                               /\ walletAccount = CHOOSE a \in Account : TRUE
    /\ FacadeInit
    /\ scenario = "facade" \/ /\ settled.network = "supported" /\ ~settled.keypair
                              /\ settled.factoryAddress /\ attached = NoAdapter
                              /\ chainOf = [w \in Adapter |-> "own"]
    /\ SignersInit
    /\ scenario = "signer" \/ signerKind = "keypair"
    /\ AmountInit
    /\ scenario = "amount" \/ (decimals = 0 /\ duration = <<>> /\ entered = Decimal(0, 0, 0))
    /\ ErrorInit
    /\ scenario = "error" \/ origin.kind = "trap"

CircuitDoes(A) ==
    scenario = "circuit" /\ A
    /\ UNCHANGED <<scenario, facadeVars, sessionVars, signingVars, signersVars, requestVars, amountVars, errorVars>>
FacadeDoes(A) ==
    scenario = "facade" /\ A
    /\ UNCHANGED <<scenario, vars, sessionVars, signingVars, signersVars, requestVars, amountVars, errorVars>>
SessionDoes(A) ==
    scenario = "session" /\ A
    /\ UNCHANGED <<scenario, vars, facadeVars, signingVars, signersVars, requestVars, amountVars, errorVars>>
SigningDoes(A) ==
    scenario = "signing" /\ A
    /\ UNCHANGED <<scenario, vars, facadeVars, sessionVars, signersVars, requestVars, amountVars, errorVars>>
SignerDoes(A) ==
    scenario = "signer" /\ A
    /\ UNCHANGED <<scenario, vars, facadeVars, sessionVars, signingVars, requestVars, amountVars, errorVars>>
RequestDoes(A) ==
    scenario = "request" /\ A
    /\ UNCHANGED <<scenario, vars, facadeVars, sessionVars, signingVars, signersVars, amountVars, errorVars>>
AmountDoes(A) ==
    scenario = "amount" /\ A
    /\ UNCHANGED <<scenario, vars, facadeVars, sessionVars, signingVars, signersVars, requestVars, errorVars>>
ErrorDoes(A) ==
    scenario = "error" /\ A
    /\ UNCHANGED <<scenario, vars, facadeVars, sessionVars, signingVars, signersVars, requestVars, amountVars>>

ClientNext ==
    \/ CircuitDoes(Next)
    \/ FacadeDoes(FacadeNext)
    \/ SessionDoes(SessionNext)
    \/ SigningDoes(SigningNext)
    \/ SignerDoes(SignersNext)
    \/ RequestDoes(RequestNext)
    \/ AmountDoes(AmountNext)
    \/ ErrorDoes(ErrorNext)

\* Fairness of RpcCircuit, where it is the circuit's turn.
FairClientSpec ==
    /\ ClientInit /\ [][ClientNext]_clientVars
    /\ WF_clientVars(CircuitDoes(Tick))
    /\ \A c \in Call : WF_clientVars(CircuitDoes(Start(c)))
    /\ \A b \in BreakerCall : WF_clientVars(CircuitDoes(BreakerResponds(b) \/ BreakerTimesOut(b)))
    /\ \A p \in ProxyCall : /\ WF_clientVars(CircuitDoes(ProxySucceeds(p) \/ ProxyFails(p)))
                            /\ WF_clientVars(CircuitDoes(ProxyRetries(p)))
=============================================================================
