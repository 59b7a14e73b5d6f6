---------------------------- MODULE WalletSession ----------------------------
(***************************************************************************)
(* WalletConnectAdapter of src/adapters/walletconnect.ts: the session that *)
(* a wallet grants, and ends or changes by events; connect() with its      *)
(* pairings, disconnect() and setSession().                                *)
(*                                                                         *)
(* A session is the topic that names it.  The wallet knows which ones it   *)
(* has granted and not ended.                                              *)
(***************************************************************************)
EXTENDS Naturals

CONSTANTS
    Topic, NoSession,
    MaxPairingRetries,
    MaxConnects         \* bound: calls of connect()

ASSUME SessionAssumption == NoSession \notin Topic /\ {MaxPairingRetries, MaxConnects} \subseteq Nat

Accounts == {"a", "b"}

VARIABLES
    session, account,   \* the adapter's session and the public key in it
    listening,          \* session_event, session_delete and session_expire are attached
    granted,            \* sessions alive at the wallet
    spent,              \* sessions granted so far
    connecting,         \* "no", "pairing" (the handshake), "approval"
    pairingExpired, pairingsLeft,
    pairingListeners,   \* of display_uri and pairing_expire
    disconnecting,      \* the session whose disconnect() is in flight
    connects

sessionVars == <<session, account, listening, granted, spent, connecting, pairingExpired,
                 pairingsLeft, pairingListeners, disconnecting, connects>>

SessionInit ==
    /\ session = NoSession /\ account = "a"
    /\ listening = FALSE
    /\ granted = {} /\ spent = {}
    /\ connecting = "no" /\ pairingExpired = FALSE /\ pairingsLeft = 0 /\ pairingListeners = 0
    /\ disconnecting = NoSession
    /\ connects = 0

pairingVars == <<connecting, pairingExpired, pairingsLeft, pairingListeners>>
walletVars == <<granted, spent>>

\* connect() with a session returns its key at once, otherwise a pairing starts.
ConnectWallet ==
    /\ connecting = "no" /\ session = NoSession /\ connects < MaxConnects
    /\ connects' = connects + 1
    /\ connecting' = "pairing" /\ pairingExpired' = FALSE
    /\ pairingsLeft' = MaxPairingRetries
    /\ pairingListeners' = pairingListeners + 1
    /\ UNCHANGED <<session, account, listening, walletVars, disconnecting>>

PairingShown ==
    /\ connecting = "pairing"
    /\ connecting' = "approval"
    /\ UNCHANGED <<session, account, listening, walletVars, pairingExpired, pairingsLeft,
                   pairingListeners, disconnecting, connects>>

\* pairing_expire, only noticed.
PairingExpires ==
    /\ pairingListeners > 0
    /\ pairingExpired' = TRUE
    /\ UNCHANGED <<session, account, listening, walletVars, connecting, pairingsLeft, pairingListeners,
                   disconnecting, connects>>

\* The wallet grants a session; connect() stores it and listens.
Approved(t, a) ==
    /\ connecting \in {"pairing", "approval"} /\ t \notin spent
    /\ granted' = granted \cup {t} /\ spent' = spent \cup {t}
    /\ session' = t /\ account' = a
    /\ listening' = TRUE
    /\ connecting' = "no" /\ pairingListeners' = pairingListeners - 1
    /\ UNCHANGED <<pairingExpired, pairingsLeft, disconnecting, connects>>

\* The wallet grants a session to a pairing whose connect() has timed out: the
\* adapter does not hear of it.
ApprovedTooLate(t) ==
    /\ connecting = "no" /\ connects > 0 /\ t \notin spent
    /\ granted' = granted \cup {t} /\ spent' = spent \cup {t}
    /\ UNCHANGED <<session, account, listening, pairingVars, disconnecting, connects>>

\* The handshake or the approval rejects or times out.  An approval whose pairing
\* has expired is tried again with a fresh pairing; otherwise connect() rejects.
PairingFails ==
    /\ connecting \in {"pairing", "approval"}
    /\ IF connecting = "approval" /\ pairingExpired /\ pairingsLeft > 0
       THEN /\ connecting' = "pairing" /\ pairingExpired' = FALSE
            /\ pairingsLeft' = pairingsLeft - 1
            /\ UNCHANGED pairingListeners
       ELSE /\ connecting' = "no" /\ pairingListeners' = pairingListeners - 1
            /\ UNCHANGED <<pairingExpired, pairingsLeft>>
    /\ UNCHANGED <<session, account, listening, walletVars, disconnecting, connects>>

\* setSession(): a session the application restores, or none.
SetSession(t) ==
    /\ t \in granted \cup {NoSession} /\ t # session
    /\ session' = t
    /\ listening' = (listening \/ t # NoSession)
    /\ UNCHANGED <<account, walletVars, pairingVars, disconnecting, connects>>

\* session_delete or session_expire: of another session it is ignored.
SessionEnds(t) ==
    /\ t \in granted
    /\ granted' = granted \ {t}
    /\ IF listening /\ session = t
       THEN session' = NoSession ELSE UNCHANGED session
    /\ UNCHANGED <<account, listening, spent, pairingVars, disconnecting, connects>>

\* accountsChanged: another account, or none, which ends the session here only.
AccountsChanged(t, a) ==
    /\ t \in granted /\ listening /\ session = t
    /\ IF a = "none" THEN session' = NoSession /\ UNCHANGED account
       ELSE account' = a /\ UNCHANGED session
    /\ UNCHANGED <<listening, walletVars, pairingVars, disconnecting, connects>>

\* A mistake for the runs to notice: a session that came meanwhile is kept, but
\* not listened to.
DisconnectKeepsNewer ==
    /\ disconnecting # NoSession
    /\ session' = IF session = disconnecting THEN NoSession ELSE session
    /\ listening' = FALSE
    /\ disconnecting' = NoSession
    /\ UNCHANGED <<account, walletVars, pairingVars, connects>>

\* disconnect() asks the wallet to end the session it has.
Disconnects ==
    /\ disconnecting = NoSession
    /\ IF session = NoSession
       THEN listening /\ listening' = FALSE /\ UNCHANGED disconnecting
       ELSE disconnecting' = session /\ UNCHANGED listening
    /\ UNCHANGED <<session, account, walletVars, pairingVars, connects>>

\* The wallet's answer, or the timeout: whichever session there is by now goes.
DisconnectOver ==
    /\ disconnecting # NoSession
    /\ session' = NoSession
    /\ listening' = FALSE
    /\ disconnecting' = NoSession
    /\ UNCHANGED <<account, walletVars, pairingVars, connects>>

DisconnectedAtWallet ==
    /\ disconnecting \in granted
    /\ granted' = granted \ {disconnecting}
    /\ UNCHANGED <<session, account, listening, spent, pairingVars, disconnecting, connects>>

SessionNext ==
    \/ ConnectWallet \/ PairingShown \/ PairingExpires \/ PairingFails
    \/ \E t \in Topic : \/ \E a \in Accounts : Approved(t, a)
                        \/ ApprovedTooLate(t) \/ SessionEnds(t)
                        \/ \E a \in Accounts \cup {"none"} : AccountsChanged(t, a)
    \/ \E t \in Topic \cup {NoSession} : SetSession(t)
    \/ Disconnects \/ DisconnectOver \/ DisconnectedAtWallet

-----------------------------------------------------------------------------
\* Whatever the order of events, timeouts and calls: as long as the adapter says
\* that it is connected it hears the end of the session, so that a session is
\* only kept after its end while its disconnect() is in flight; and the listeners
\* of a pairing go with it.
SessionWatched ==
    /\ session # NoSession => listening
    /\ session \in granted \cup {NoSession, disconnecting}
    /\ pairingListeners = IF connecting = "no" THEN 0 ELSE 1
=============================================================================
