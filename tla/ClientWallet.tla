---------------------------- MODULE ClientWallet ----------------------------
(***************************************************************************)
(* The wallet of a client from both sides: the modules that hold it        *)
(* (ClientFacade) and the session it keeps with the wallet (WalletSession).*)
(* setWallet() may come at any point of a connect() or disconnect(), and   *)
(* neither side looks at the state of the other.                           *)
(***************************************************************************)
EXTENDS ClientFacade, WalletSession

walletFollowedVars == <<facadeVars, sessionVars>>

ClientWalletSpec ==
    /\ FacadeInit /\ SessionInit
    /\ [][\/ FacadeNext /\ UNCHANGED sessionVars
          \/ SessionNext /\ UNCHANGED facadeVars]_walletFollowedVars

\* The wallet of a client: one for all its modules (client.ts: setWallet()), and
\* its session watched (walletconnect.ts) for as long as it is shown connected.
WalletFollowed == OneWallet /\ SessionWatched
=============================================================================
