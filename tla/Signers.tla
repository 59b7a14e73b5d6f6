------------------------------- MODULE Signers -------------------------------
(***************************************************************************)
(* The signers of src/signer.ts: a key pair, a Ledger device and a passkey *)
(* that authorizes entries for a smart wallet; with the time limit that    *)
(* the callers put on a signature.                                         *)
(*                                                                         *)
(* The device may be unplugged or exchanged between any two steps, several *)
(* entries may be authorized at once, and the authenticator answers in its *)
(* own time, with a signature encoded in DER that becomes r || s.          *)
(***************************************************************************)
EXTENDS WalletSigning, Sequences, FiniteSets

CONSTANTS
    KeyFetch,           \* calls of LedgerSigner.getPublicKey()
    Entry,              \* authorization entries, each with its own nonce
    ScalarWidth         \* bytes of r and of s in a raw signature

\* 32 in the code.  Lengths of more than 127 bytes have another form, which no
\* authenticator writes here.
ASSUME SignerAssumption == ScalarWidth \in 1 .. 60

VARIABLES
    signerKind,         \* "keypair", "ledger", "passkey"
    device,             \* account of the Ledger that is plugged in, or none
    cachedPublicKey,
    keyFetches,         \* per call: "idle", "asked", "failed" or "answered"
    keysSeen,           \* history: answers of the fetches
    overlapped,         \* history: two fetches were at the device at once
    envelope,           \* who signed the transaction
    signing,            \* "idle", "asked", "signed", "timeout", "error"
    entries,            \* per entry: what it is, what is asked, what it got
    producedBy          \* history: the scalars the authenticator answered with

deviceVars == <<cachedPublicKey, keyFetches, keysSeen, overlapped>>
envelopeVars == <<envelope, signing>>
authVars == <<entries, producedBy>>
signersVars == <<signerKind, device, deviceVars, envelopeVars, authVars>>

NoPayload == [network |-> NoNetwork, expires |-> 0, entry |-> 0]

SignersInit ==
    /\ signerKind \in {"keypair", "ledger", "passkey"}
    /\ device \in Account \cup {NoAccount}
    /\ cachedPublicKey \in Account \cup {NoAccount}     \* options.publicKey
    /\ keyFetches = [f \in KeyFetch |-> "idle"]
    /\ keysSeen = {}
    /\ overlapped = FALSE
    /\ envelope = NoAccount
    /\ signing = "idle"
    /\ entries \in [Entry -> [kind : {"source", "mine", "other"}, step : {"idle"},
                              payload : {NoPayload}, raw : {<<>>}]]
    /\ producedBy = [e \in Entry |-> <<>>]
    /\ signerKind # "ledger" => device = NoAccount /\ cachedPublicKey = NoAccount
    /\ signerKind = "passkey" \/ \A e \in Entry : entries[e].kind = "source"

-----------------------------------------------------------------------------
(* DER: derToRawSignature() and its readers.  Positions count from 1.      *)

Integer == 2
Sequence == 48
Malformed == [length |-> 0, next |-> 0]
NoInteger == [value |-> <<>>, next |-> 0]

BigEndian(bytes) == LET n[k \in 0 .. Len(bytes)] == IF k = 0 THEN 0 ELSE n[k - 1] * 256 + bytes[k]
                    IN  n[Len(bytes)]

\* The short form, or a count of bytes that hold the length.
ReadDerLength(der, at) ==
    IF at > Len(der) THEN Malformed
    ELSE IF der[at] < 128 THEN [length |-> der[at], next |-> at + 1]
    ELSE LET count == der[at] - 128
         IN  IF count \notin 1 .. 4 \/ at + count > Len(der) THEN Malformed
             ELSE [length |-> BigEndian(SubSeq(der, at + 1, at + count)), next |-> at + 1 + count]

ReadDerInteger(der, at) ==
    IF at > Len(der) \/ (at <= Len(der) /\ der[at] # Integer) THEN NoInteger
    ELSE LET l == ReadDerLength(der, at + 1)
         IN  IF l.length = 0 \/ l.next + l.length - 1 > Len(der) THEN NoInteger
             ELSE [value |-> SubSeq(der, l.next, l.next + l.length - 1), next |-> l.next + l.length]

\* Leading zeros are dropped while there are too many bytes; zeros fill up.
FixedWidth(bytes) ==
    LET over == IF Len(bytes) > ScalarWidth THEN Len(bytes) - ScalarWidth ELSE 0
    IN  IF \E k \in 1 .. over : bytes[k] # 0 THEN <<>>
        ELSE [k \in 1 .. ScalarWidth |->
                LET at == Len(bytes) - ScalarWidth + k IN IF at > 0 THEN bytes[at] ELSE 0]

\* The empty sequence stands for a signature that is refused.
DerToRawSignature(der) ==
    LET head == ReadDerLength(der, 2)
        r == ReadDerInteger(der, head.next)
        s == ReadDerInteger(der, r.next)
    IN  IF Len(der) < 8 \/ (Len(der) > 0 /\ der[1] # Sequence) THEN <<>>
        ELSE IF head = Malformed \/ r = NoInteger \/ s = NoInteger THEN <<>>
        ELSE IF FixedWidth(r.value) = <<>> \/ FixedWidth(s.value) = <<>> THEN <<>>
        ELSE FixedWidth(r.value) \o FixedWidth(s.value)

\* What an authenticator writes for a scalar given as its ScalarWidth bytes: the
\* least number of them, and a zero before one that would look negative.
DerInteger(bytes) ==
    LET first == CHOOSE k \in 1 .. ScalarWidth :
                    /\ bytes[k] # 0 \/ k = ScalarWidth
                    /\ \A j \in 1 .. k - 1 : bytes[j] = 0
        least == SubSeq(bytes, first, ScalarWidth)
        signed == IF least[1] >= 128 THEN <<0>> \o least ELSE least
    IN  <<Integer, Len(signed)>> \o signed
DerOf(r, s) == LET body == DerInteger(r) \o DerInteger(s) IN <<Sequence, Len(body)>> \o body

\* Scalars on both sides of the boundaries of the encoding.
Scalar == {b \in [1 .. ScalarWidth -> {0, 1, 128}] : \E k \in 1 .. ScalarWidth : b[k] # 0}

-----------------------------------------------------------------------------
(* The key pair and the Ledger                                             *)

KeypairSign ==
    /\ signerKind = "keypair" /\ signing = "idle"
    /\ envelope' \in Account
    /\ signing' = "signed"
    /\ UNCHANGED <<signerKind, device, deviceVars, authVars>>

DeviceChanges ==
    /\ signerKind = "ledger"
    /\ \E a \in (Account \cup {NoAccount}) \ {device} : device' = a
    /\ UNCHANGED <<signerKind, deviceVars, envelopeVars, authVars>>

\* getPublicKey(): the key that is known, or the device is asked.
FetchKey(f) ==
    /\ signerKind = "ledger" /\ keyFetches[f] = "idle"
    /\ IF cachedPublicKey # NoAccount
       THEN /\ keyFetches' = [keyFetches EXCEPT ![f] = "answered"]
            /\ keysSeen' = keysSeen \cup {cachedPublicKey}
            /\ UNCHANGED overlapped
       ELSE /\ keyFetches' = [keyFetches EXCEPT ![f] = "asked"]
            /\ overlapped' = (overlapped \/ \E g \in KeyFetch : keyFetches[g] = "asked")
            /\ UNCHANGED keysSeen
    /\ UNCHANGED <<signerKind, device, cachedPublicKey, envelopeVars, authVars>>

\* The device answers for itself, and the last answer is the one that stays.
KeyFetched(f) ==
    /\ keyFetches[f] = "asked"
    /\ IF device = NoAccount
       THEN keyFetches' = [keyFetches EXCEPT ![f] = "failed"] /\ UNCHANGED <<cachedPublicKey, keysSeen>>
       ELSE /\ keyFetches' = [keyFetches EXCEPT ![f] = "answered"]
            /\ cachedPublicKey' = device
            /\ keysSeen' = keysSeen \cup {device}
    /\ UNCHANGED overlapped
    /\ UNCHANGED <<signerKind, device, envelopeVars, authVars>>

LedgerSignStarts ==
    /\ signerKind = "ledger" /\ signing = "idle"
    /\ signing' = IF device = NoAccount THEN "error" ELSE "asked"
    /\ UNCHANGED <<signerKind, device, deviceVars, envelope, authVars>>

\* The account of the device that signs, which the cached key need not name.
LedgerSigns ==
    /\ signing = "asked" /\ device # NoAccount
    /\ envelope' = device
    /\ signing' = "signed"
    /\ UNCHANGED <<signerKind, device, deviceVars, authVars>>

\* The user refuses, or the device is gone.
LedgerFails ==
    /\ signing = "asked"
    /\ signing' = "error"
    /\ UNCHANGED <<signerKind, device, deviceVars, envelope, authVars>>

\* withSignatureTimeout(): what the device answers later goes nowhere.
SignatureTimesOut ==
    /\ signing = "asked"
    /\ signing' = "timeout"
    /\ UNCHANGED <<signerKind, device, deviceVars, envelope, authVars>>

-----------------------------------------------------------------------------
(* The passkey: authorizeEntry()                                           *)

\* Credentials of the source account need no signature, and another address is
\* refused.  The payload is settled before the authenticator is asked.
AuthorizeEntry(e, network, expires) ==
    /\ signerKind = "passkey" /\ entries[e].step = "idle"
    /\ entries' =
          CASE entries[e].kind = "source" -> [entries EXCEPT ![e].step = "unchanged"]
            [] entries[e].kind = "other" -> [entries EXCEPT ![e].step = "refused"]
            [] OTHER -> [entries EXCEPT ![e] = [@ EXCEPT !.step = "asked",
                            !.payload = [network |-> network, expires |-> expires, entry |-> e]]]
    /\ UNCHANGED <<signerKind, device, deviceVars, envelopeVars, producedBy>>

Asserted(e, der) ==
    entries' = IF DerToRawSignature(der) = <<>> THEN [entries EXCEPT ![e].step = "error"]
               ELSE [entries EXCEPT ![e] = [@ EXCEPT !.step = "signed", !.raw = DerToRawSignature(der)]]

AuthenticatorSigns(e) ==
    /\ entries[e].step = "asked"
    /\ \E r, s \in Scalar :
          /\ Asserted(e, DerOf(r, s))
          /\ producedBy' = [producedBy EXCEPT ![e] = r \o s]
    /\ UNCHANGED <<signerKind, device, deviceVars, envelopeVars>>

\* The answer breaks off: it is never taken for a shorter signature.
AnswerCut(e) ==
    /\ entries[e].step = "asked"
    /\ \E r, s \in Scalar : \E n \in 0 .. Len(DerOf(r, s)) - 1 : Asserted(e, SubSeq(DerOf(r, s), 1, n))
    /\ UNCHANGED <<signerKind, device, deviceVars, envelopeVars, producedBy>>

\* The user cancels: no credential.
AuthenticatorCancelled(e) ==
    /\ entries[e].step = "asked"
    /\ entries' = [entries EXCEPT ![e].step = "cancelled"]
    /\ UNCHANGED <<signerKind, device, deviceVars, envelopeVars, producedBy>>

SignersNext ==
    \/ KeypairSign \/ DeviceChanges \/ LedgerSignStarts \/ LedgerSigns \/ LedgerFails \/ SignatureTimesOut
    \/ \E f \in KeyFetch : FetchKey(f) \/ KeyFetched(f)
    \/ \E e \in Entry, n \in Network, x \in 1 .. 2 : AuthorizeEntry(e, n, x)
    \/ \E e \in Entry : AuthenticatorSigns(e) \/ AnswerCut(e) \/ AuthenticatorCancelled(e)

SignersSpec == SignersInit /\ [][SignersNext]_signersVars

-----------------------------------------------------------------------------
\* However devices are exchanged and answers arrive: an envelope is signed exactly
\* when the call said so; a Ledger signer names one key, unless two fetches were
\* at the device at once, and the last that was answered; an entry carries a
\* signature only if it is of the signer's own address, for this very entry, and
\* then the two scalars the authenticator answered with, each in its fixed width:
\* a broken answer is refused and never taken for another signature.
SignersTruthful ==
    /\ envelope # NoAccount <=> signing = "signed"
    /\ keysSeen # {} => cachedPublicKey \in keysSeen
    /\ Cardinality(keysSeen) > 1 => overlapped
    /\ \A e \in Entry :
          /\ entries[e].raw # <<>> <=> entries[e].step = "signed"
          /\ entries[e].step = "signed" =>
                /\ entries[e].kind = "mine" /\ entries[e].payload.entry = e
                /\ entries[e].raw = producedBy[e]
          /\ producedBy[e] # <<>> => entries[e].step = "signed"

\* Every signature, of a wallet's adapter and of a signer, is what was asked for.
SignaturesAsAsked == SignedAsAsked /\ SignersTruthful
=============================================================================
