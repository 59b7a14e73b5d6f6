---------------------------- MODULE WalletSigning ----------------------------
(***************************************************************************)
(* signTransaction() of the wallet adapters (src/adapters): Freighter,     *)
(* Albedo, WalletConnect and a key pair, and the key pair's keystore.      *)
(*                                                                         *)
(* The user may switch the wallet to another network or account, and       *)
(* answer late or never, and the application may forget the key, between   *)
(* any two steps.  The signature is what it is a signature for.            *)
(***************************************************************************)
EXTENDS Naturals

CONSTANTS
    Network, Account, Passphrase,
    NoNetwork, NoAccount

ASSUME SigningAssumption == NoNetwork \notin Network /\ NoAccount \notin Account

Adapters == {"freighter", "albedo", "walletconnect", "keypair"}

VARIABLES
    adapter,
    builtFor,           \* network of the transaction; NoNetwork for raw XDR
    askedFor,           \* networkPassphrase of the call's options
    walletNetwork, walletAccount,
    reports,            \* the wallet tells its network
    pubKey,             \* the key the adapter remembers
    passphrase,         \* networkPassphrase in use by this call
    signStep,           \* "idle", "network", "wallet", "over"
    signOutcome,        \* "none", "signed", "mismatch", "timeout", "refused", "error"
    signature,          \* [network, account] that was returned
    keystore            \* what exportKeystore() has written, or that nothing has

signingVars == <<adapter, builtFor, askedFor, walletNetwork, walletAccount, reports, pubKey,
                 passphrase, signStep, signOutcome, signature, keystore>>

signCallVars == <<passphrase, signStep, signOutcome, signature>>
askVars == <<adapter, builtFor, askedFor, reports>>

NoSignature == [network |-> NoNetwork, account |-> NoAccount]
NoKeystore == [secret |-> NoAccount, publicKey |-> NoAccount, pass |-> NoNetwork, tag |-> FALSE]

SigningInit ==
    /\ adapter \in Adapters
    /\ builtFor \in Network \cup {NoNetwork} /\ askedFor \in Network \cup {NoNetwork}
    /\ walletNetwork \in Network /\ walletAccount \in Account
    /\ reports \in BOOLEAN
    /\ pubKey = IF adapter = "keypair" THEN walletAccount ELSE NoAccount
    /\ passphrase = NoNetwork
    /\ signStep = "idle" /\ signOutcome = "none" /\ signature = NoSignature
    /\ keystore = NoKeystore

SignOver(how) == signStep' = "over" /\ signOutcome' = how

\* getPublicKey() and connect(): the account of the wallet at that moment, which
\* the adapter remembers until disconnect(); connect() of an extension asks again.
RememberKey ==
    /\ IF pubKey = NoAccount THEN adapter # "keypair" ELSE adapter \in {"freighter", "albedo"}
    /\ pubKey' = walletAccount
    /\ UNCHANGED <<askVars, walletNetwork, walletAccount, signCallVars, keystore>>

\* disconnect(), and destroy() of a key pair.
ForgetKey ==
    /\ pubKey # NoAccount
    /\ pubKey' = NoAccount
    /\ UNCHANGED <<askVars, walletNetwork, walletAccount, signCallVars, keystore>>

UserSwitches ==
    /\ adapter # "keypair"
    /\ \/ \E n \in Network \ {walletNetwork} : walletNetwork' = n /\ UNCHANGED walletAccount
       \/ \E a \in Account \ {walletAccount} : walletAccount' = a /\ UNCHANGED walletNetwork
    /\ UNCHANGED <<askVars, pubKey, signCallVars, keystore>>

Default == IF askedFor # NoNetwork THEN askedFor ELSE builtFor

\* Freighter is asked for its network first; a WalletConnect call needs the
\* option and a session; Albedo needs a network from somewhere.
SignStarts ==
    /\ signStep = "idle" /\ adapter # "keypair"
    /\ passphrase' = IF adapter = "walletconnect" THEN askedFor ELSE Default
    /\ IF adapter = "freighter" THEN signStep' = "network" /\ UNCHANGED signOutcome
       ELSE IF passphrase' = NoNetwork \/ (adapter = "walletconnect" /\ pubKey = NoAccount)
       THEN SignOver("error")
       ELSE signStep' = "wallet" /\ UNCHANGED signOutcome
    /\ UNCHANGED <<askVars, walletNetwork, walletAccount, pubKey, signature, keystore>>

\* A mistake for the runs to notice: the wallet's network wins over the option.
NetworkOfWallet ==
    /\ signStep = "network"
    /\ passphrase' = IF reports THEN walletNetwork ELSE passphrase
    /\ IF passphrase' = NoNetwork THEN SignOver("error") ELSE signStep' = "wallet" /\ UNCHANGED signOutcome
    /\ UNCHANGED <<askVars, walletNetwork, walletAccount, pubKey, signature, keystore>>

\* Freighter's network stands in for a missing one, and must be the one asked for.
NetworkReported ==
    /\ signStep = "network"
    /\ passphrase' = IF passphrase = NoNetwork /\ reports THEN walletNetwork ELSE passphrase
    /\ IF passphrase' = NoNetwork THEN SignOver("error")
       ELSE IF reports /\ passphrase' # walletNetwork THEN SignOver("mismatch")
       ELSE signStep' = "wallet" /\ UNCHANGED signOutcome
    /\ UNCHANGED <<askVars, walletNetwork, walletAccount, pubKey, signature, keystore>>

\* The wallet signs for the network of the request, with the account of the
\* request if it names one and with its own otherwise; it refuses for an account
\* that is not its own.
WalletSigns ==
    /\ signStep = "wallet"
    /\ pubKey \in {NoAccount, walletAccount}
    /\ SignOver("signed")
    /\ signature' = [network |-> passphrase, account |-> walletAccount]
    /\ UNCHANGED <<askVars, walletNetwork, walletAccount, pubKey, passphrase, keystore>>

\* A refusal, which Albedo's adapter tells from other errors, a signature of the
\* wrong length or none at all.
WalletRefuses ==
    /\ signStep = "wallet"
    /\ \E how \in {"refused", "error"} : SignOver(how)
    /\ UNCHANGED <<askVars, walletNetwork, walletAccount, pubKey, passphrase, signature, keystore>>

\* withWalletTimeout(): the answer that comes later is dropped.
WalletTimesOut ==
    /\ signStep = "wallet" /\ adapter = "freighter"
    /\ SignOver("timeout")
    /\ UNCHANGED <<askVars, walletNetwork, walletAccount, pubKey, passphrase, signature, keystore>>

\* The key pair signs at once; it needs a network for raw XDR and the same one
\* as the transaction's otherwise.
KeypairSigns ==
    /\ signStep = "idle" /\ adapter = "keypair"
    /\ passphrase' = Default
    /\ IF pubKey = NoAccount \/ (builtFor = NoNetwork /\ askedFor = NoNetwork) THEN
            SignOver("error") /\ UNCHANGED signature
       ELSE IF builtFor # NoNetwork /\ askedFor \notin {NoNetwork, builtFor} THEN
            SignOver("mismatch") /\ UNCHANGED signature
       ELSE SignOver("signed") /\ signature' = [network |-> passphrase', account |-> pubKey]
    /\ UNCHANGED <<askVars, walletNetwork, walletAccount, pubKey, keystore>>

\* encryptKeystore(): the secret under a key of the passphrase, bound to the
\* public key; decryptKeystore() needs both again.
ExportKeystore(pass) ==
    /\ adapter = "keypair" /\ pubKey # NoAccount /\ keystore = NoKeystore
    /\ keystore' = [secret |-> pubKey, publicKey |-> pubKey, pass |-> pass, tag |-> TRUE]
    /\ UNCHANGED <<askVars, walletNetwork, walletAccount, pubKey, signCallVars>>

\* Somebody edits the file: the public key, or the ciphertext.
KeystoreEdited ==
    /\ keystore.tag
    /\ \E a \in Account \ {keystore.publicKey} :
          keystore' = [keystore EXCEPT !.publicKey = a, !.tag = FALSE]
    /\ UNCHANGED <<askVars, walletNetwork, walletAccount, pubKey, signCallVars>>

\* fromKeystore(), after the key has been forgotten.
ImportKeystore(pass) ==
    /\ adapter = "keypair" /\ pubKey = NoAccount /\ keystore # NoKeystore
    /\ keystore.tag /\ keystore.pass = pass
    /\ pubKey' = keystore.secret
    /\ UNCHANGED <<askVars, walletNetwork, walletAccount, signCallVars, keystore>>

SigningNext ==
    \/ RememberKey \/ ForgetKey \/ UserSwitches
    \/ SignStarts \/ NetworkReported \/ WalletSigns \/ WalletRefuses \/ WalletTimesOut \/ KeypairSigns
    \/ \E p \in Passphrase : ExportKeystore(p) \/ ImportKeystore(p)
    \/ KeystoreEdited

SigningSpec == SigningInit /\ [][SigningNext]_signingVars

-----------------------------------------------------------------------------
\* Whatever the user switches in between: a signature that is returned is for
\* the network the caller asked for, or the transaction was built for, and never
\* one of a key pair for another network than the transaction's; there is one
\* exactly when the call resolves; and a key that comes back from a keystore is
\* the one that was exported.
SignedAsAsked ==
    /\ signature # NoSignature <=> signOutcome = "signed"
    /\ signOutcome = "signed" =>
          /\ signature.network = passphrase
          /\ askedFor # NoNetwork => signature.network = askedFor
          /\ askedFor = NoNetwork /\ builtFor # NoNetwork => signature.network = builtFor
          /\ adapter = "keypair" /\ builtFor # NoNetwork => signature.network = builtFor
    /\ adapter = "keypair" => pubKey \in {NoAccount, walletAccount}
=============================================================================
