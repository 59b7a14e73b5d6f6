---------------------------- MODULE ClientFacade ----------------------------
(***************************************************************************)
(* ConduitClient of src/client.ts: how it comes to be, the modules that    *)
(* hold a wallet each, the wallet's replacement, the calls it passes on    *)
(* and its health check.                                                   *)
(*                                                                         *)
(* The user may switch the wallet to another chain at any time; the client *)
(* looks at the chain when the wallet is attached and not afterwards.      *)
(***************************************************************************)
EXTENDS FiniteSets

CONSTANTS
    Adapter,            \* wallet adapters of the application
    NoAdapter,
    KeypairAdapter,     \* KeypairWalletAdapter of config.keypair
    NotBuilt            \* client.factory before somebody asked for it

ASSUME FacadeAssumption ==
    /\ {NoAdapter, KeypairAdapter, NotBuilt} \cap Adapter = {}
    /\ Cardinality({NoAdapter, KeypairAdapter, NotBuilt}) = 3

VARIABLES
    settled,            \* the configuration, which stays
    chainOf,            \* what wallet.chainId says: the client's chain or not
    clientStep,         \* "unbuilt", "built", "refused"
    attached,           \* config.wallet
    holders,            \* per module: activeWallet
    accepted,           \* history: wallets the chain check let pass
    lastCall,           \* the call that was passed on last, and who would sign it
    health              \* per endpoint: what its check found

facadeVars == <<settled, chainOf, clientStep, attached, holders, accepted, lastCall, health>>

Chain == {"untold", "unknown", "foreign", "own"}
NoCall == [to |-> "none", by |-> NoAdapter]

FacadeInit ==
    /\ settled \in [network : {"supported", "unsupported"}, keypair : BOOLEAN, factoryAddress : BOOLEAN]
    /\ chainOf \in [Adapter -> Chain]
    /\ clientStep = "unbuilt"
    /\ attached \in Adapter \cup {NoAdapter}
    /\ holders = [m \in {"streams", "streamsFactory", "tokens", "factory"} |-> NotBuilt]
    /\ accepted = {}
    /\ lastCall = NoCall
    /\ health = [rpc |-> "unasked", indexer |-> "unasked"]

\* assertWalletNetworkMatch(): a wallet that tells no chain passes.
WalletMatches(w) == chainOf[w] \in {"untold", "own"}

\* activeWallet of a module at its construction.
Active(wallet) ==
    IF wallet # NoAdapter THEN wallet ELSE IF settled.keypair THEN KeypairAdapter ELSE NoAdapter

\* The constructor.  StreamsModule makes a FactoryModule of its own, which needs
\* a factory address.
Construct ==
    /\ clientStep = "unbuilt"
    /\ IF /\ settled.network = "supported" /\ settled.factoryAddress
          /\ attached # NoAdapter => WalletMatches(attached)
       THEN /\ clientStep' = "built"
            /\ holders' = [m \in DOMAIN holders |-> IF m = "factory" THEN NotBuilt ELSE Active(attached)]
            /\ accepted' = {attached, Active(attached)}
       ELSE clientStep' = "refused" /\ UNCHANGED <<holders, accepted>>
    /\ UNCHANGED <<settled, chainOf, attached, lastCall, health>>

\* The getter builds the module when it is asked for first.
Built(hs) == [hs EXCEPT !["factory"] = IF @ = NotBuilt THEN Active(attached) ELSE @]

GetFactory ==
    /\ clientStep = "built" /\ holders["factory"] = NotBuilt
    /\ holders' = Built(holders)
    /\ UNCHANGED <<settled, chainOf, clientStep, attached, accepted, lastCall, health>>

\* setWallet(): a wallet on another chain is refused before anything is touched.
\* The factory of StreamsModule keeps the wallet it was made with.
SetWallet(w) ==
    /\ clientStep = "built"
    /\ WalletMatches(w)
    /\ attached' = w
    /\ accepted' = accepted \cup {w}
    /\ holders' = [m \in DOMAIN holders |->
                      IF m \in {"streams", "tokens"} \/ (m = "factory" /\ holders[m] # NotBuilt)
                      THEN w ELSE holders[m]]
    /\ UNCHANGED <<settled, chainOf, clientStep, lastCall, health>>

\* The user switches the network in the wallet.
ChainSwitched(w) ==
    /\ \E c \in Chain \ {chainOf[w], "untold"} : chainOf[w] # "untold" /\ chainOf' = [chainOf EXCEPT ![w] = c]
    /\ UNCHANGED <<settled, clientStep, attached, holders, accepted, lastCall, health>>

\* The calls of the client itself, each to the streams module.  They differ in
\* nothing else, and two of them stand for all in FacadeNext.
Hoisted ==
    [pauseStream |-> "pause", unpauseStream |-> "resume", createStream |-> "create",
     getStream |-> "get", listStreams |-> "list", withdrawable |-> "withdrawable",
     withdraw |-> "withdraw", cancelStream |-> "cancel", topUp |-> "topUp", clawback |-> "clawback",
     forceCancel |-> "forceCancel", transferRecipient |-> "transferRecipient",
     streamedTotal |-> "streamedTotal", estimateFee |-> "estimateFee", subscribe |-> "subscribe"]

CallHoisted(op) ==
    /\ clientStep = "built"
    /\ lastCall' = [to |-> Hoisted[op], by |-> holders["streams"]]
    /\ UNCHANGED <<settled, chainOf, clientStep, attached, holders, accepted, health>>

\* health(): both checks at once; the indexer's asks client.factory.
HealthStarts ==
    /\ clientStep = "built" /\ "asked" \notin {health.rpc, health.indexer}
    /\ health' = [rpc |-> "asked", indexer |-> "asked"]
    /\ holders' = Built(holders)
    /\ UNCHANGED <<settled, chainOf, clientStep, attached, accepted, lastCall>>

EndpointAnswers(endpoint) ==
    /\ health[endpoint] = "asked"
    /\ \E found \in {"up", "down"} : health' = [health EXCEPT ![endpoint] = found]
    /\ UNCHANGED <<settled, chainOf, clientStep, attached, holders, accepted, lastCall>>

FacadeNext ==
    \/ Construct \/ GetFactory \/ HealthStarts
    \/ \E w \in Adapter : SetWallet(w) \/ ChainSwitched(w)
    \/ \E op \in {"pauseStream", "unpauseStream"} : CallHoisted(op)
    \/ \E endpoint \in {"rpc", "indexer"} : EndpointAnswers(endpoint)

-----------------------------------------------------------------------------
\* "Updated immediately": whenever the wallet is replaced and the factory asked
\* for, the modules of the client hold the wallet that is attached, all the same
\* one; no wallet that failed the check of its chain is held by a module or
\* would sign a call; and a client that was refused holds nothing.
OneWallet ==
    /\ clientStep = "built" =>
          /\ holders["streams"] = Active(attached) /\ holders["tokens"] = Active(attached)
          /\ holders["factory"] \in {NotBuilt, Active(attached)}
          /\ {holders[m] : m \in DOMAIN holders} \subseteq accepted \cup {NotBuilt}
          /\ lastCall.by \in accepted \cup {NoAdapter}
    /\ clientStep # "built" => \A m \in DOMAIN holders : holders[m] = NotBuilt
    /\ "up" \in {health.rpc, health.indexer} => holders["factory"] # NotBuilt
=============================================================================
