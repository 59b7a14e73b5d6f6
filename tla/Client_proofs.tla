---------------------------- MODULE Client_proofs ---------------------------
(***************************************************************************)
(* What a client does around a call, of any size: the signatures of its    *)
(* wallet and its signers, the meaning of its errors, the amounts it       *)
(* converts, and the circuit of its endpoint.                              *)
(*                                                                         *)
(* Signatures: a wallet signs for the network that was settled before it   *)
(* was asked; the bytes of an authenticator are read whole or not at all   *)
(* (WholeOrNothing).  Errors: the application's wraps never hide the error *)
(* at the core, which tells contract and number truly.  Amounts: a power   *)
(* is what its recursion computes, as far as it goes; a digit and what     *)
(* follows it round to the nearest, and so do that number scaled by a      *)
(* power of ten or with whole ones added.  The circuit: its                *)
(* invariant is inductive once the three properties are taken together,    *)
(* for listeners are told of differences to the state they know, and a     *)
(* late failure opens the circuit only when the count says so.             *)
(***************************************************************************)
EXTENDS RpcCircuit, Signers, ErrorMapping, Amounts, Selections_proofs,
        SequenceTheorems, FiniteSetTheorems, WellFoundedInduction, TLAPS

-----------------------------------------------------------------------------
(* Signatures of a wallet                                                  *)

\* While a call is at the wallet, the network it goes on with is the one of the
\* option, or else of the transaction, and a key pair's wallet never changes.
SigningInv ==
    /\ adapter \in Adapters
    /\ builtFor \in Network \cup {NoNetwork} /\ askedFor \in Network \cup {NoNetwork}
    /\ walletNetwork \in Network /\ walletAccount \in Account
    /\ signStep \in {"idle", "network", "wallet", "over"}
    /\ signStep # "over" => signOutcome = "none"
    /\ signStep = "network" => adapter = "freighter" /\ passphrase = Default
    /\ signStep = "wallet" =>
          adapter # "keypair" /\ passphrase # NoNetwork /\ (Default # NoNetwork => passphrase = Default)
    /\ keystore.tag => adapter = "keypair" /\ keystore.secret = walletAccount
    /\ SignedAsAsked

LEMMA InitSigning == SigningInit => SigningInv
BY SigningAssumption DEF SigningInit, SigningInv, SignedAsAsked, NoSignature, NoKeystore, Adapters

LEMMA StepKeepsSigning == SigningInv /\ [SigningNext]_signingVars => SigningInv'
<1> SUFFICES ASSUME SigningInv, [SigningNext]_signingVars PROVE SigningInv'
  OBVIOUS
<1> USE SigningAssumption DEF SigningInv, SignedAsAsked, askVars, signCallVars
<1>1. CASE RememberKey
  BY <1>1 DEF RememberKey, Default
<1>2. CASE ForgetKey
  BY <1>2 DEF ForgetKey, Default
<1>3. CASE UserSwitches
  BY <1>3 DEF UserSwitches, Default
<1>4. CASE SignStarts
  BY <1>4 DEF SignStarts, SignOver, Default
<1>5. CASE NetworkReported
  BY <1>5 DEF NetworkReported, SignOver, Default
<1>6. CASE WalletSigns
  <2>1. signature' # NoSignature
    BY <1>6 DEF WalletSigns, NoSignature
  <2> QED BY <1>6, <2>1 DEF WalletSigns, SignOver, Default
<1>7. CASE WalletRefuses \/ WalletTimesOut
  BY <1>7 DEF WalletRefuses, WalletTimesOut, SignOver, Default
<1>8. CASE KeypairSigns
  <2>1. signOutcome' = "signed" => signature' # NoSignature
    BY <1>8 DEF KeypairSigns, SignOver, NoSignature
  <2> QED BY <1>8, <2>1 DEF KeypairSigns, SignOver, Default
<1>9. ASSUME NEW p \in Passphrase, ExportKeystore(p) \/ ImportKeystore(p) PROVE SigningInv'
  BY <1>9 DEF ExportKeystore, ImportKeystore, Default
<1>10. CASE KeystoreEdited
  <2>1. ~keystore'.tag
    BY <1>10 DEF KeystoreEdited
  <2> QED BY <1>10, <2>1 DEF KeystoreEdited, Default
<1>11. CASE UNCHANGED signingVars
  BY <1>11 DEF signingVars, Default
<1> QED BY <1>1, <1>2, <1>3, <1>4, <1>5, <1>6, <1>7, <1>8, <1>9, <1>10, <1>11 DEF SigningNext

\* A wallet's adapter returns a signature exactly when the call resolves, and it
\* is for the network the caller named, or else the transaction was built for.
THEOREM AlwaysSignedAsAsked == SigningSpec => []SignedAsAsked
<1>1. SigningInv => SignedAsAsked
  BY DEF SigningInv
<1> QED BY InitSigning, StepKeepsSigning, <1>1, PTL DEF SigningSpec

-----------------------------------------------------------------------------
(* Signatures in DER                                                       *)

\* A sequence behind a tag and its length.
Tagged(t, v) == <<t, Len(v)>> \o v

LEMMA TaggedIs ==
    ASSUME NEW t \in Nat, NEW v \in Seq(Nat)
    PROVE /\ Tagged(t, v) \in Seq(Nat) /\ Len(Tagged(t, v)) = Len(v) + 2
          /\ Tagged(t, v)[1] = t /\ Tagged(t, v)[2] = Len(v)
          /\ \A k \in 1 .. Len(v) : Tagged(t, v)[2 + k] = v[k]
BY DEF Tagged

\* A scalar's first byte that counts.
Leads(b, k) == /\ b[k] # 0 \/ k = ScalarWidth
               /\ \A j \in 1 .. k - 1 : b[j] = 0

LEMMA LeadExists == ASSUME NEW b \in Scalar PROVE \E k \in 1 .. ScalarWidth : Leads(b, k)
<1> DEFINE S == {k \in 1 .. ScalarWidth : b[k] # 0}
<1> USE SignerAssumption
<1>1. S # {} /\ S \subseteq Nat
  BY DEF Scalar
<1> DEFINE R == {p \in Nat \X Nat : p[1] < p[2]}
<1>2. IsWellFoundedOn(R, Nat)
  BY NatLessThanWellFounded DEF OpToRel
<1>3. PICK k \in S : \A j \in S : ~(<<j, k>> \in R)
  <2> HIDE DEF R, S
  <2> QED BY <1>1, <1>2, WFMin
<1>4. \A j \in 1 .. k - 1 : j \in 1 .. ScalarWidth /\ <<j, k>> \in R
  OBVIOUS
<1>5. \A j \in 1 .. k - 1 : j \notin S
  <2> HIDE DEF R
  <2> QED BY <1>3, <1>4
<1> QED BY <1>4, <1>5 DEF Leads

LEMMA FixedWidthIs ==
    ASSUME NEW v \in Seq(Nat), NEW b, b = [k \in 1 .. ScalarWidth |-> b[k]],
           \A k \in 1 .. Len(v) - ScalarWidth : v[k] = 0,
           \A k \in 1 .. ScalarWidth :
                b[k] = IF Len(v) - ScalarWidth + k > 0 THEN v[Len(v) - ScalarWidth + k] ELSE 0
    PROVE FixedWidth(v) = b
<1> DEFINE over == IF Len(v) > ScalarWidth THEN Len(v) - ScalarWidth ELSE 0
           filled == [k \in 1 .. ScalarWidth |->
                        IF Len(v) - ScalarWidth + k > 0 THEN v[Len(v) - ScalarWidth + k] ELSE 0]
<1>1. \A k \in 1 .. over : v[k] = 0
  BY SignerAssumption
<1>2. FixedWidth(v) = filled
  <2>1. FixedWidth(v) = IF \E k \in 1 .. over : v[k] # 0 THEN <<>> ELSE filled
    BY DEF FixedWidth
  <2> HIDE DEF over, filled
  <2> QED BY <1>1, <2>1
<1>3. filled = [k \in 1 .. ScalarWidth |-> b[k]]
  OBVIOUS
<1> HIDE DEF filled
<1> QED BY <1>2, <1>3

\* The encoding of a scalar is its length and bytes that give it back.
LEMMA IntegerEncodes ==
    ASSUME NEW b \in Scalar
    PROVE \E v \in Seq(Nat) : /\ Len(v) \in 1 .. ScalarWidth + 1
                              /\ DerInteger(b) = Tagged(Integer, v)
                              /\ FixedWidth(v) = b
<1> USE SignerAssumption
<1> DEFINE first == CHOOSE k \in 1 .. ScalarWidth : Leads(b, k)
           least == SubSeq(b, first, ScalarWidth)
           v == IF least[1] >= 128 THEN <<0>> \o least ELSE least
<1>1. first \in 1 .. ScalarWidth /\ Leads(b, first)
  BY LeadExists
<1>2. DerInteger(b) = Tagged(Integer, v)
  BY DEF DerInteger, Leads, Tagged
<1>3. /\ b \in Seq(Nat) /\ Len(b) = ScalarWidth /\ b = [k \in 1 .. ScalarWidth |-> b[k]]
      /\ \A k \in 1 .. ScalarWidth : b[k] \in Nat
  BY DEF Scalar
<1> HIDE DEF first
<1>4. /\ least \in Seq(Nat) /\ Len(least) = ScalarWidth - first + 1
      /\ \A k \in 1 .. ScalarWidth - first + 1 : least[k] = b[first + k - 1]
  <2> HIDE DEF least
  <2>1. \A k \in first .. ScalarWidth : b[k] \in Nat
    BY <1>1, <1>3
  <2>2. /\ SubSeq(b, first, ScalarWidth) \in Seq(Nat)
        /\ Len(SubSeq(b, first, ScalarWidth)) = ScalarWidth - first + 1
        /\ \A k \in 1 .. ScalarWidth - first + 1 : SubSeq(b, first, ScalarWidth)[k] = b[first + k - 1]
    <3>1. first \in Int /\ ScalarWidth \in Int /\ first <= ScalarWidth
      BY <1>1
    <3> QED BY <2>1, <3>1, SubSeqProperties
  <2> QED BY <2>2 DEF least
<1>5. \A k \in 1 .. first - 1 : b[k] = 0
  BY <1>1 DEF Leads
<1> HIDE DEF least
<1>6. CASE least[1] >= 128
  <2>1. /\ v \in Seq(Nat) /\ Len(v) = ScalarWidth - first + 2
        /\ v[1] = 0 /\ \A k \in 2 .. ScalarWidth - first + 2 : v[k] = b[first + k - 2]
    BY <1>1, <1>4, <1>6
  <2> HIDE DEF v
  <2>2. \A k \in 1 .. Len(v) - ScalarWidth : v[k] = 0
    BY <1>1, <2>1
  <2>3. \A k \in 1 .. ScalarWidth :
            b[k] = IF Len(v) - ScalarWidth + k > 0 THEN v[Len(v) - ScalarWidth + k] ELSE 0
    BY <1>1, <1>5, <2>1
  <2>4. FixedWidth(v) = b
    <3>1. v \in Seq(Nat) /\ b = [k \in 1 .. ScalarWidth |-> b[k]]
      BY <1>3, <2>1
    <3> QED BY <2>2, <2>3, <3>1, FixedWidthIs
  <2>5. Len(v) \in 1 .. ScalarWidth + 1
    BY <1>1, <2>1
  <2> QED BY <1>2, <2>1, <2>4, <2>5
<1>7. CASE ~(least[1] >= 128)
  <2>1. /\ v \in Seq(Nat) /\ Len(v) = ScalarWidth - first + 1
        /\ \A k \in 1 .. ScalarWidth - first + 1 : v[k] = b[first + k - 1]
    BY <1>4, <1>7
  <2> HIDE DEF v
  <2>2. \A k \in 1 .. Len(v) - ScalarWidth : v[k] = 0
    BY <1>1, <2>1
  <2>3. \A k \in 1 .. ScalarWidth :
            b[k] = IF Len(v) - ScalarWidth + k > 0 THEN v[Len(v) - ScalarWidth + k] ELSE 0
    BY <1>1, <1>5, <2>1
  <2>4. FixedWidth(v) = b
    <3>1. v \in Seq(Nat) /\ b = [k \in 1 .. ScalarWidth |-> b[k]]
      BY <1>3, <2>1
    <3> QED BY <2>2, <2>3, <3>1, FixedWidthIs
  <2>5. Len(v) \in 1 .. ScalarWidth + 1
    BY <1>1, <2>1
  <2> QED BY <1>2, <2>1, <2>4, <2>5
<1> QED BY <1>6, <1>7

\* What the reader finds where a short integer begins.
LEMMA IntegerReads ==
    ASSUME NEW q \in Seq(Nat), NEW at \in 1 .. Len(q), NEW L \in 1 .. 127,
           q[at] = Integer, at + 1 <= Len(q) => q[at + 1] = L
    PROVE ReadDerInteger(q, at) =
            IF at + 1 + L <= Len(q) THEN [value |-> SubSeq(q, at + 2, at + 1 + L), next |-> at + 2 + L]
            ELSE NoInteger
<1>1. CASE at + 1 <= Len(q)
  <2>1. /\ at + 1 \in Nat /\ ~(at + 1 > Len(q)) /\ q[at + 1] < 128 /\ at + 1 + 1 = at + 2
        /\ at + 2 + L - 1 = at + 1 + L /\ ~(L = 0) /\ ~(at > Len(q))
    BY <1>1, SMTT(30)
  <2>2. ReadDerLength(q, at + 1) = [length |-> L, next |-> at + 2]
    BY <1>1, <2>1 DEF ReadDerLength
  <2>3. ReadDerLength(q, at + 1).length = L /\ ReadDerLength(q, at + 1).next = at + 2
    BY <2>2
  <2>4. at + 1 + L > Len(q) <=> ~(at + 1 + L <= Len(q))
    OBVIOUS
  <2> HIDE DEF ReadDerLength
  <2> QED BY <2>1, <2>3, <2>4 DEF ReadDerInteger
<1>2. CASE ~(at + 1 <= Len(q))
  <2>1. ReadDerLength(q, at + 1) = Malformed
    BY <1>2 DEF ReadDerLength
  <2>2. ReadDerLength(q, at + 1).length = 0
    BY <2>1 DEF Malformed
  <2>3. ~(at + 1 + L <= Len(q))
    BY <1>2
  <2> QED BY <2>2, <2>3 DEF ReadDerInteger
<1> QED BY <1>1, <1>2

\* What an encoding of two integers, v and w, begins with.
Begins(q, v, w) ==
    LET L == Len(v)
        M == Len(w)
        at(k) == k <= Len(q)
    IN  /\ Len(q) <= L + M + 6
        /\ at(1) => q[1] = Sequence
        /\ at(2) => q[2] = L + M + 4
        /\ at(3) => q[3] = Integer
        /\ at(4) => q[4] = L
        /\ \A k \in 1 .. L : at(4 + k) => q[4 + k] = v[k]
        /\ at(L + 5) => q[L + 5] = Integer
        /\ at(L + 6) => q[L + 6] = M
        /\ \A k \in 1 .. M : at((L + 6) + k) => q[(L + 6) + k] = w[k]

\* A slice that agrees with a sequence is that sequence.
LEMMA SliceIs ==
    ASSUME NEW q \in Seq(Nat), NEW v \in Seq(Nat), NEW p \in Nat, p + Len(v) <= Len(q),
           \A k \in 1 .. Len(v) : q[p + k] = v[k]
    PROVE SubSeq(q, p + 1, p + Len(v)) = v
<1> DEFINE L == Len(v)
<1>1. L \in Nat /\ p + 1 \in Int /\ p + L \in Int /\ (p + L) - (p + 1) + 1 = L
  OBVIOUS
<1>2. \A i \in p + 1 .. p + L : q[i] \in Nat
  <2>1. \A i \in p + 1 .. p + L : i \in 1 .. Len(q)
    OBVIOUS
  <2> QED BY <2>1
<1>3. \A k \in 1 .. L : (p + 1) + k - 1 = p + k
  OBVIOUS
<1>4. /\ SubSeq(q, p + 1, p + L) \in Seq(Nat)
      /\ Len(SubSeq(q, p + 1, p + L)) = IF p + 1 <= p + L THEN (p + L) - (p + 1) + 1 ELSE 0
      /\ \A k \in 1 .. (p + L) - (p + 1) + 1 : SubSeq(q, p + 1, p + L)[k] = q[(p + 1) + k - 1]
  <2> HIDE DEF L
  <2> QED BY <1>1, <1>2, SubSeqProperties
<1>5. Len(SubSeq(q, p + 1, p + L)) = L
  BY <1>1, <1>4
<1>6. \A k \in 1 .. L : SubSeq(q, p + 1, p + L)[k] = v[k]
  BY <1>1, <1>3, <1>4
<1> QED BY <1>4, <1>5, <1>6, SeqEqual

\* Nothing is read until all of it is there.
LEMMA PrefixReads ==
    ASSUME NEW v \in Seq(Nat), NEW w \in Seq(Nat), Len(v) \in 1 .. 61, Len(w) \in 1 .. 61,
           FixedWidth(v) # <<>>, FixedWidth(w) # <<>>, NEW q \in Seq(Nat), Begins(q, v, w)
    PROVE DerToRawSignature(q) =
            IF Len(q) = Len(v) + Len(w) + 6 THEN FixedWidth(v) \o FixedWidth(w) ELSE <<>>
<1> DEFINE L == Len(v)
           M == Len(w)
           n == Len(q)
<1>1. /\ L \in 1 .. 61 /\ M \in 1 .. 61 /\ n \in 0 .. L + M + 6
      /\ n >= 4 => q[1] = Sequence /\ q[2] = L + M + 4 /\ q[3] = Integer /\ q[4] = L
      /\ n >= L + 5 => q[L + 5] = Integer
      /\ n >= L + 6 => q[L + 6] = M
  BY DEF Begins
<1>2. CASE n < 8
  <2>1. DerToRawSignature(q) = <<>>
    BY <1>2 DEF DerToRawSignature
  <2>2. n # L + M + 6
    <3> HIDE DEF L, M, n
    <3> QED BY <1>1, <1>2
  <2> QED BY <2>1, <2>2
<1>3. CASE n >= 8
  <2> DEFINE lead == ReadDerLength(q, 2)
             first == ReadDerInteger(q, lead.next)
             second == ReadDerInteger(q, first.next)
  <2> HIDE DEF L, M, n
  <2>1. n = Len(q) /\ q[1] = Sequence /\ q[2] = L + M + 4 /\ q[3] = Integer /\ q[4] = L /\ L + M + 4 < 128
    BY <1>1, <1>3 DEF n
  <2>2. lead = [length |-> L + M + 4, next |-> 3]
    <3>1. ~(2 > Len(q)) /\ q[2] < 128
      BY <1>1, <1>3, <2>1
    <3> QED BY <2>1, <3>1 DEF ReadDerLength
  <2>3. lead # Malformed /\ lead.next = 3
    BY <2>2 DEF Malformed
  <2>4. DerToRawSignature(q) =
            IF first = NoInteger \/ second = NoInteger THEN <<>>
            ELSE IF FixedWidth(first.value) = <<>> \/ FixedWidth(second.value) = <<>> THEN <<>>
            ELSE FixedWidth(first.value) \o FixedWidth(second.value)
    <3>1. ~(Len(q) < 8 \/ (Len(q) > 0 /\ q[1] # Sequence))
      BY <1>3, <2>1
    <3> QED BY <2>3, <3>1 DEF DerToRawSignature
  <2> HIDE DEF lead
  <2>5. first = IF L + 4 <= n THEN [value |-> SubSeq(q, 5, L + 4), next |-> L + 5] ELSE NoInteger
    <3>1. /\ 3 \in 1 .. Len(q) /\ L \in 1 .. 127 /\ q[3] = Integer /\ (3 + 1 <= Len(q) => q[3 + 1] = L)
          /\ 3 + 1 + L = L + 4 /\ 3 + 2 = 5 /\ 3 + 2 + L = L + 5
      <4>1. 3 \in 1 .. n /\ L \in 1 .. 127 /\ 3 + 1 = 4 /\ 4 + L = L + 4 /\ 3 + 2 = 5 /\ 5 + L = L + 5
        BY <1>1, <1>3
      <4> QED BY <2>1, <4>1
    <3>2. ReadDerInteger(q, 3) =
            IF 3 + 1 + L <= Len(q) THEN [value |-> SubSeq(q, 3 + 2, 3 + 1 + L), next |-> 3 + 2 + L]
            ELSE NoInteger
      BY <3>1, IntegerReads
    <3> QED BY <2>1, <2>3, <3>1, <3>2
  <2> HIDE DEF first
  <2>6. CASE ~(L + 4 <= n)
    <3>1. first = NoInteger /\ n # L + M + 6
      BY <1>1, <2>5, <2>6
    <3> QED BY <2>4, <3>1 DEF L, M, n
  <2>7. CASE L + 4 <= n
    <3>1. first # NoInteger /\ first.next = L + 5 /\ first.value = SubSeq(q, 5, L + 4)
      BY <1>1, <2>5, <2>7 DEF NoInteger
    <3>2. second = IF L + M + 6 <= n THEN [value |-> SubSeq(q, L + 7, L + M + 6), next |-> L + M + 7]
                   ELSE NoInteger
      <4>1. CASE L + 5 <= n
        <5> DEFINE p == L + 5
        <5>1. /\ p \in 1 .. Len(q) /\ M \in 1 .. 127 /\ q[p] = Integer
              /\ p + 1 <= Len(q) => q[p + 1] = M
              /\ p + 1 + M = L + M + 6 /\ p + 2 = L + 7 /\ p + 2 + M = L + M + 7
          BY <1>1, <2>1, <4>1
        <5> HIDE DEF p
        <5>2. ReadDerInteger(q, p) =
                IF p + 1 + M <= Len(q) THEN [value |-> SubSeq(q, p + 2, p + 1 + M), next |-> p + 2 + M]
                ELSE NoInteger
          BY <5>1, IntegerReads
        <5>3. second = ReadDerInteger(q, p)
          BY <3>1 DEF p
        <5> HIDE DEF second
        <5> QED BY <2>1, <5>1, <5>2, <5>3
      <4>2. CASE ~(L + 5 <= n)
        <5>1. L + 5 > Len(q) /\ ~(L + M + 6 <= n)
          <6>1. n = Len(q) /\ n \in Nat /\ L \in Nat /\ M \in Nat \ {0}
            BY <1>1, <2>1
          <6> QED BY <4>2, <6>1
        <5> QED BY <3>1, <5>1 DEF ReadDerInteger
      <4> QED BY <4>1, <4>2
    <3> HIDE DEF second
    <3>3. CASE n # L + M + 6
      <4>1. second = NoInteger
        BY <1>1, <3>2, <3>3
      <4> QED BY <2>4, <3>3, <4>1 DEF L, M, n
    <3>4. CASE n = L + M + 6
      <4>1. first.value = v
        <5>1. \A k \in 1 .. L : q[4 + k] = v[k]
          <6>1. \A k \in 1 .. L : 4 + k <= n
            BY <1>1, <3>4
          <6> QED BY <6>1 DEF Begins, L, n
        <5>2. 4 + L <= Len(q) /\ 4 + 1 = 5 /\ 4 + L = L + 4
          BY <1>1, <2>1, <3>4
        <5>3. SubSeq(q, 4 + 1, 4 + Len(v)) = v
          BY <5>1, <5>2, SliceIs DEF L
        <5> QED BY <3>1, <5>2, <5>3 DEF L
      <4>2. second # NoInteger /\ second.value = SubSeq(q, L + 7, L + M + 6)
        <5>1. n \in Nat /\ L \in Nat /\ M \in Nat
          BY <1>1, <2>1
        <5>2. L + M + 6 <= n /\ L + M + 7 # 0
          BY <3>4, <5>1
        <5> DEFINE bytes == SubSeq(q, L + 7, L + M + 6)
                   after == L + M + 7
        <5>3. second = [value |-> bytes, next |-> after] /\ after # 0
          BY <3>2, <5>2
        <5> HIDE DEF bytes, after
        <5>4. second # NoInteger /\ second.value = bytes
          BY <5>3 DEF NoInteger
        <5> QED BY <5>4 DEF bytes
      <4>3. second.value = w
        <5> DEFINE p == L + 6
        <5>1. \A k \in 1 .. M : q[p + k] = w[k]
          <6>1. \A k \in 1 .. M : p + k <= n
            BY <1>1, <3>4
          <6> QED BY <6>1 DEF Begins, L, M, n
        <5>2. p \in Nat /\ p + M <= Len(q) /\ p + 1 = L + 7 /\ p + M = L + M + 6
          BY <1>1, <2>1, <3>4
        <5> HIDE DEF p
        <5>3. SubSeq(q, p + 1, p + Len(w)) = w
          BY <5>1, <5>2, SliceIs DEF M
        <5> QED BY <4>2, <5>2, <5>3 DEF M
      <4> QED BY <2>4, <3>1, <3>4, <4>1, <4>2, <4>3 DEF L, M, n
    <3> QED BY <3>3, <3>4
  <2> QED BY <2>6, <2>7
<1>4. n < 8 \/ n >= 8
  BY <1>1
<1> QED BY <1>2, <1>3, <1>4

\* The encoding of two integers begins with itself.
LEMMA WholeBegins ==
    ASSUME NEW v \in Seq(Nat), NEW w \in Seq(Nat), NEW x, NEW y, NEW der,
           x = Tagged(Integer, v), y = Tagged(Integer, w), der = Tagged(Sequence, x \o y)
    PROVE der \in Seq(Nat) /\ Len(der) = Len(v) + Len(w) + 6 /\ Begins(der, v, w)
<1> DEFINE L == Len(v)
           M == Len(w)
           z == x \o y
<1>0. Integer \in Nat /\ Sequence \in Nat
  BY DEF Integer, Sequence
<1>1. /\ x \in Seq(Nat) /\ Len(x) = L + 2 /\ x[1] = Integer /\ x[2] = L
      /\ \A k \in 1 .. L : x[2 + k] = v[k]
  BY <1>0, TaggedIs, ZenonT(60)
<1>2. /\ y \in Seq(Nat) /\ Len(y) = M + 2 /\ y[1] = Integer /\ y[2] = M
      /\ \A k \in 1 .. M : y[2 + k] = w[k]
  BY <1>0, TaggedIs, ZenonT(60)
<1>3. /\ z \in Seq(Nat) /\ Len(z) = L + M + 4
      /\ \A i \in 1 .. Len(x) + Len(y) : z[i] = IF i <= Len(x) THEN x[i] ELSE y[i - Len(x)]
  <2>1. /\ z \in Seq(Nat) /\ Len(z) = Len(x) + Len(y)
        /\ \A i \in 1 .. Len(x) + Len(y) : z[i] = IF i <= Len(x) THEN x[i] ELSE y[i - Len(x)]
    <3>1. x \in Seq(Nat) /\ y \in Seq(Nat)
      BY <1>1, <1>2
    <3> QED BY <3>1, ConcatProperties, Zenon
  <2>2. L \in Nat /\ M \in Nat
    OBVIOUS
  <2> HIDE DEF L, M, z
  <2>3. Len(x) + Len(y) = L + M + 4
    <3>1. Len(x) = L + 2 /\ Len(y) = M + 2
      BY <1>1, <1>2
    <3> QED BY <2>2, <3>1
  <2> QED BY <2>1, <2>3
<1>4. /\ der \in Seq(Nat) /\ Len(der) = L + M + 6 /\ der[1] = Sequence /\ der[2] = L + M + 4
      /\ \A k \in 1 .. L + M + 4 : der[2 + k] = z[k]
  <2>1. /\ der \in Seq(Nat) /\ Len(der) = Len(z) + 2 /\ der[1] = Sequence /\ der[2] = Len(z)
        /\ \A k \in 1 .. Len(z) : der[2 + k] = z[k]
    <3> HIDE DEF L, M, z
    <3>1. z \in Seq(Nat) /\ der = Tagged(Sequence, z)
      BY <1>3 DEF z
    <3>2. /\ Tagged(Sequence, z) \in Seq(Nat) /\ Len(Tagged(Sequence, z)) = Len(z) + 2
          /\ Tagged(Sequence, z)[1] = Sequence /\ Tagged(Sequence, z)[2] = Len(z)
          /\ \A k \in 1 .. Len(z) : Tagged(Sequence, z)[2 + k] = z[k]
      BY <1>0, <3>1, TaggedIs, Zenon
    <3> QED BY <3>1, <3>2
  <2>2. L \in Nat /\ M \in Nat
    OBVIOUS
  <2> HIDE DEF L, M, z
  <2> QED BY <1>3, <2>1, <2>2
<1>5. L \in Nat /\ M \in Nat
  OBVIOUS
<1>6. \A k \in 1 .. L + 2 : der[2 + k] = x[k]
  <2> HIDE DEF L, M, z
  <2>1. \A k \in 1 .. L + 2 : k \in 1 .. L + M + 4 /\ k \in 1 .. Len(x) + Len(y) /\ k <= Len(x)
    <3>1. Len(x) = L + 2 /\ Len(y) = M + 2
      BY <1>1, <1>2
    <3> QED BY <1>5, <3>1
  <2> QED BY <1>3, <1>4, <2>1
<1>7. \A k \in 1 .. M + 2 : der[(L + 4) + k] = y[k]
  <2> HIDE DEF L, M, z
  <2>1. ASSUME NEW k \in 1 .. M + 2 PROVE der[(L + 4) + k] = y[k]
    <3> DEFINE i == (L + 2) + k
    <3>1. i \in 1 .. L + M + 4 /\ i \in 1 .. Len(x) + Len(y) /\ ~(i <= Len(x)) /\ i - Len(x) = k
      <4>1. Len(x) = L + 2 /\ Len(y) = M + 2
        BY <1>1, <1>2
      <4> QED BY <1>5, <4>1
    <3>2. 2 + i = (L + 4) + k
      BY <1>5
    <3> HIDE DEF i
    <3>3. der[2 + i] = z[i]
      BY <1>4, <3>1
    <3>4. z[i] = y[i - Len(x)]
      BY <1>3, <3>1
    <3> QED BY <3>1, <3>2, <3>3, <3>4
  <2> QED BY <2>1
<1>8. der[3] = Integer /\ der[4] = L /\ \A k \in 1 .. L : der[4 + k] = v[k]
  <2> HIDE DEF L, M
  <2>1. 1 \in 1 .. L + 2 /\ 2 \in 1 .. L + 2 /\ 2 + 1 = 3 /\ 2 + 2 = 4
    BY <1>5
  <2>2. \A k \in 1 .. L : 2 + k \in 1 .. L + 2 /\ 2 + (2 + k) = 4 + k
    BY <1>5
  <2> QED BY <1>1, <1>6, <2>1, <2>2, SMTT(30)
<1>9. der[L + 5] = Integer /\ der[L + 6] = M /\ \A k \in 1 .. M : der[(L + 6) + k] = w[k]
  <2> HIDE DEF L, M
  <2>1. 1 \in 1 .. M + 2 /\ 2 \in 1 .. M + 2 /\ (L + 4) + 1 = L + 5 /\ (L + 4) + 2 = L + 6
    BY <1>5
  <2>2. \A k \in 1 .. M : 2 + k \in 1 .. M + 2 /\ (L + 4) + (2 + k) = (L + 6) + k
    BY <1>5
  <2> QED BY <1>2, <1>7, <2>1, <2>2, SMTT(30)
<1>10. Len(der) <= Len(v) + Len(w) + 6
  BY <1>4, <1>5
<1> QED BY <1>4, <1>8, <1>9, <1>10 DEF Begins

\* What is cut off it still begins with it.
LEMMA CutBegins ==
    ASSUME NEW v \in Seq(Nat), NEW w \in Seq(Nat), NEW der \in Seq(Nat), Begins(der, v, w),
           NEW n \in 0 .. Len(der)
    PROVE /\ SubSeq(der, 1, n) \in Seq(Nat) /\ Len(SubSeq(der, 1, n)) = n
          /\ Begins(SubSeq(der, 1, n), v, w)
<1> DEFINE q == SubSeq(der, 1, n)
<1>1. q \in Seq(Nat) /\ Len(q) = n /\ \A k \in 1 .. n : q[k] = der[k]
  OBVIOUS
<1> HIDE DEF q
<1>2. /\ Len(v) \in Nat /\ Len(w) \in Nat /\ Len(der) \in Nat /\ n \in Nat /\ n <= Len(der)
      /\ \A k \in 1 .. Len(v) : 4 + k \in Nat /\ 4 + k >= 1
      /\ \A k \in 1 .. Len(w) : (Len(v) + 6) + k \in Nat /\ (Len(v) + 6) + k >= 1
  OBVIOUS
<1>3. Begins(q, v, w)
  <2> DEFINE L == Len(v)
             M == Len(w)
  <2>1. /\ Len(der) <= L + M + 6
        /\ 1 <= Len(der) => der[1] = Sequence
        /\ 2 <= Len(der) => der[2] = L + M + 4
        /\ 3 <= Len(der) => der[3] = Integer
        /\ 4 <= Len(der) => der[4] = L
        /\ \A k \in 1 .. L : 4 + k <= Len(der) => der[4 + k] = v[k]
        /\ L + 5 <= Len(der) => der[L + 5] = Integer
        /\ L + 6 <= Len(der) => der[L + 6] = M
        /\ \A k \in 1 .. M : (L + 6) + k <= Len(der) => der[(L + 6) + k] = w[k]
    BY DEF Begins
  <2>2. \A k \in Nat : k >= 1 /\ k <= n => k <= Len(der) /\ q[k] = der[k]
    BY <1>1, <1>2
  <2>3. L + 5 \in Nat /\ L + 5 >= 1 /\ L + 6 \in Nat /\ L + 6 >= 1 /\ n <= L + M + 6
    <3>1. /\ Len(der) <= L + M + 6 /\ L \in Nat /\ M \in Nat /\ Len(der) \in Nat /\ n \in Nat
          /\ n <= Len(der)
      BY <1>2, <2>1
    <3> HIDE DEF L, M
    <3> QED BY <3>1
  <2> HIDE DEF L, M
  <2>4. /\ n <= L + M + 6
        /\ 1 <= n => q[1] = Sequence
        /\ 2 <= n => q[2] = L + M + 4
        /\ 3 <= n => q[3] = Integer
        /\ 4 <= n => q[4] = L
        /\ L + 5 <= n => q[L + 5] = Integer
        /\ L + 6 <= n => q[L + 6] = M
    <3>1. \A k \in {1, 2, 3, 4} : k <= n => k <= Len(der) /\ q[k] = der[k]
      BY <2>2
    <3>2. L + 5 <= n => L + 5 <= Len(der) /\ q[L + 5] = der[L + 5]
      BY <2>2, <2>3
    <3>3. L + 6 <= n => L + 6 <= Len(der) /\ q[L + 6] = der[L + 6]
      BY <2>2, <2>3
    <3> QED BY <2>1, <2>3, <3>1, <3>2, <3>3
  <2>5. \A k \in 1 .. L : 4 + k <= n => q[4 + k] = v[k]
    BY <1>2, <2>1, <2>2 DEF L
  <2>6. \A k \in 1 .. M : (L + 6) + k <= n => q[(L + 6) + k] = w[k]
    BY <1>2, <2>1, <2>2 DEF L, M
  <2> QED BY <1>1, <2>4, <2>5, <2>6 DEF Begins, L, M
<1> QED BY <1>1, <1>3 DEF q

\* An encoding begins with the encodings of two integers, the scalars'.
LEMMA DerBegins ==
    ASSUME NEW r \in Scalar, NEW s \in Scalar
    PROVE \E v, w \in Seq(Nat) :
            /\ Len(v) \in 1 .. 61 /\ Len(w) \in 1 .. 61
            /\ FixedWidth(v) = r /\ FixedWidth(w) = s
            /\ DerOf(r, s) \in Seq(Nat) /\ Len(DerOf(r, s)) = Len(v) + Len(w) + 6
            /\ Begins(DerOf(r, s), v, w)
<1>1. PICK v \in Seq(Nat) : /\ Len(v) \in 1 .. ScalarWidth + 1
                            /\ DerInteger(r) = Tagged(Integer, v) /\ FixedWidth(v) = r
  BY IntegerEncodes
<1>2. PICK w \in Seq(Nat) : /\ Len(w) \in 1 .. ScalarWidth + 1
                            /\ DerInteger(s) = Tagged(Integer, w) /\ FixedWidth(w) = s
  BY IntegerEncodes
<1>3. DerOf(r, s) \in Seq(Nat) /\ Len(DerOf(r, s)) = Len(v) + Len(w) + 6 /\ Begins(DerOf(r, s), v, w)
  <2>1. DerOf(r, s) = Tagged(Sequence, DerInteger(r) \o DerInteger(s))
    BY DEF DerOf, Tagged
  <2> QED BY <1>1, <1>2, <2>1, WholeBegins
<1>4. Len(v) \in 1 .. 61 /\ Len(w) \in 1 .. 61
  <2>1. Len(v) \in 1 .. ScalarWidth + 1 /\ Len(w) \in 1 .. ScalarWidth + 1
    BY <1>1, <1>2
  <2>2. \A m \in 1 .. ScalarWidth + 1 : m \in 1 .. 61
    BY SignerAssumption
  <2> QED BY <2>1, <2>2, Zenon
<1> QED BY <1>1, <1>2, <1>3, <1>4

\* Of the encoding of two scalars only the whole is read, and as the two scalars.
LEMMA WholeOrNothing ==
    ASSUME NEW r \in Scalar, NEW s \in Scalar, NEW n \in 0 .. Len(DerOf(r, s))
    PROVE DerToRawSignature(SubSeq(DerOf(r, s), 1, n)) = IF n = Len(DerOf(r, s)) THEN r \o s ELSE <<>>
<1>1. PICK v \in Seq(Nat), w \in Seq(Nat) :
            /\ Len(v) \in 1 .. 61 /\ Len(w) \in 1 .. 61
            /\ FixedWidth(v) = r /\ FixedWidth(w) = s
            /\ DerOf(r, s) \in Seq(Nat) /\ Len(DerOf(r, s)) = Len(v) + Len(w) + 6
            /\ Begins(DerOf(r, s), v, w)
  BY DerBegins
<1> DEFINE q == SubSeq(DerOf(r, s), 1, n)
<1>2. q \in Seq(Nat) /\ Len(q) = n /\ Begins(q, v, w)
  BY <1>1, CutBegins
<1>3. r # <<>> /\ s # <<>>
  BY SignerAssumption DEF Scalar
<1> HIDE DEF q
<1>4. DerToRawSignature(q) = IF n = Len(v) + Len(w) + 6 THEN r \o s ELSE <<>>
  BY <1>1, <1>2, <1>3, PrefixReads
<1> QED BY <1>1, <1>4 DEF q

\* What an authenticator answers with is not empty, nor is what becomes of it.
LEMMA RawOfWhole ==
    ASSUME NEW r \in Scalar, NEW s \in Scalar
    PROVE /\ DerOf(r, s) \in Seq(Nat)
          /\ DerToRawSignature(DerOf(r, s)) = r \o s /\ r \o s \in Seq(Nat) /\ r \o s # <<>>
<1> DEFINE der == DerOf(r, s)
<1>1. der \in Seq(Nat)
  BY DerBegins
<1>2. \A n \in 0 .. Len(der) : DerToRawSignature(SubSeq(der, 1, n)) = IF n = Len(der) THEN r \o s ELSE <<>>
  BY WholeOrNothing
<1> HIDE DEF der
<1>3. DerToRawSignature(der) = r \o s
  <2>1. Len(der) \in 0 .. Len(der)
    BY <1>1
  <2> QED BY <1>1, <1>2, <2>1, SubSeqFull
<1>4. r \in Seq(Nat) /\ s \in Seq(Nat) /\ Len(r) > 0
  BY SignerAssumption DEF Scalar
<1>5. r \o s \in Seq(Nat) /\ r \o s # <<>>
  BY <1>4
<1> QED BY <1>1, <1>3, <1>5 DEF der

-----------------------------------------------------------------------------
(* The signers                                                             *)

EntrySteps == {"idle", "unchanged", "refused", "asked", "signed", "error", "cancelled"}
EntryRecord == [kind : {"source", "mine", "other"}, step : EntrySteps,
                payload : [network : Network \cup {NoNetwork}, expires : 0 .. 2, entry : Entry \cup {0}],
                raw : Seq(Nat)]

\* Unless two fetches were at the device at once, at most one is, and then no key
\* is known yet.
KeysInv ==
    /\ device \in Account \cup {NoAccount} /\ cachedPublicKey \in Account \cup {NoAccount}
    /\ keyFetches \in [KeyFetch -> {"idle", "asked", "failed", "answered"}]
    /\ keysSeen \subseteq Account /\ overlapped \in BOOLEAN
    /\ keysSeen # {} => cachedPublicKey \in keysSeen
    /\ ~overlapped =>
          /\ keysSeen \subseteq {cachedPublicKey}
          /\ \A f, g \in KeyFetch : keyFetches[f] = "asked" /\ keyFetches[g] = "asked" => f = g
          /\ \A f \in KeyFetch : keyFetches[f] = "asked" => cachedPublicKey = NoAccount /\ keysSeen = {}

\* An entry that is asked for is the signer's own, and has no signature yet.
AuthInv(e) ==
    LET n == entries[e]
    IN  /\ n.step = "asked" => n.kind = "mine" /\ n.payload.entry = e
        /\ n.step = "signed" =>
              n.kind = "mine" /\ n.payload.entry = e /\ n.raw = producedBy[e] /\ n.raw # <<>>
        /\ n.step # "signed" => n.raw = <<>> /\ producedBy[e] = <<>>

SignersInv ==
    /\ envelope # NoAccount <=> signing = "signed"
    /\ KeysInv
    /\ entries \in [Entry -> EntryRecord] /\ producedBy \in [Entry -> Seq(Nat)]
    /\ \A e \in Entry : AuthInv(e)

LEMMA InitSigners == SignersInit => SignersInv
<1> SUFFICES ASSUME SignersInit PROVE SignersInv
  OBVIOUS
<1>1. (envelope # NoAccount <=> signing = "signed") /\ KeysInv
  BY DEF SignersInit, KeysInv
<1>2. NoPayload \in [network : Network \cup {NoNetwork}, expires : 0 .. 2, entry : Entry \cup {0}]
  BY DEF NoPayload
<1>3. \A e \in Entry : entries[e] \in EntryRecord
  <2> DEFINE First == [kind : {"source", "mine", "other"}, step : {"idle"},
                       payload : {NoPayload}, raw : {<<>>}]
  <2>1. \A e \in Entry : entries[e] \in First
    BY DEF SignersInit
  <2>2. <<>> \in Seq(Nat) /\ "idle" \in EntrySteps
    BY DEF EntrySteps
  <2>3. First \subseteq EntryRecord
    <3> HIDE DEF NoPayload
    <3> QED BY <1>2, <2>2 DEF EntryRecord
  <2> HIDE DEF First
  <2> QED BY <2>1, <2>3
<1>4. entries \in [Entry -> EntryRecord]
  BY <1>3 DEF SignersInit
<1>5. producedBy \in [Entry -> Seq(Nat)] /\ \A e \in Entry : AuthInv(e)
  BY DEF SignersInit, AuthInv
<1> QED BY <1>1, <1>4, <1>5 DEF SignersInv

\* A key is fetched, and stays while another device is plugged in.
LEMMA FetchKeepsKeys ==
    ASSUME KeysInv, NEW f \in KeyFetch, FetchKey(f) \/ KeyFetched(f) PROVE KeysInv'
<1> USE SigningAssumption
<1>1. CASE FetchKey(f)
  <2>1. CASE cachedPublicKey # NoAccount
    BY <1>1, <2>1 DEF FetchKey, KeysInv
  <2>2. CASE cachedPublicKey = NoAccount
    <3>1. keysSeen = {}
      BY <2>2 DEF KeysInv
    <3> QED BY <1>1, <2>2, <3>1 DEF FetchKey, KeysInv
  <2> QED BY <2>1, <2>2
<1>2. CASE KeyFetched(f)
  BY <1>2 DEF KeyFetched, KeysInv
<1> QED BY <1>1, <1>2

\* An entry is signed with the whole of an answer, and with nothing less.
LEMMA AuthorizeKeepsEntries ==
    ASSUME SignersInv, NEW e \in Entry,
           \/ \E n \in Network, x \in 1 .. 2 : AuthorizeEntry(e, n, x)
           \/ AuthenticatorSigns(e) \/ AnswerCut(e) \/ AuthenticatorCancelled(e)
    PROVE /\ entries' \in [Entry -> EntryRecord] /\ producedBy' \in [Entry -> Seq(Nat)]
          /\ \A d \in Entry : AuthInv(d)'
<1>1. /\ entries \in [Entry -> EntryRecord] /\ producedBy \in [Entry -> Seq(Nat)]
      /\ \A d \in Entry : AuthInv(d)
  BY DEF SignersInv
<1>2. /\ entries[e] \in EntryRecord
      /\ entries[e].step # "signed" => entries[e].raw = <<>> /\ producedBy[e] = <<>>
  BY <1>1 DEF AuthInv
\* It is enough that this entry goes on as it must.
<1>3. ASSUME NEW new \in EntryRecord, entries' = [entries EXCEPT ![e] = new],
             NEW made \in Seq(Nat), producedBy' = [producedBy EXCEPT ![e] = made],
             new.step = "asked" => new.kind = "mine" /\ new.payload.entry = e,
             new.step = "signed" =>
                new.kind = "mine" /\ new.payload.entry = e /\ new.raw = made /\ new.raw # <<>>,
             new.step # "signed" => new.raw = <<>> /\ made = <<>>
      PROVE /\ entries' \in [Entry -> EntryRecord] /\ producedBy' \in [Entry -> Seq(Nat)]
            /\ \A d \in Entry : AuthInv(d)'
  <2>1. entries' \in [Entry -> EntryRecord] /\ producedBy' \in [Entry -> Seq(Nat)]
    BY <1>1, <1>3
  <2>2. entries'[e] = new /\ producedBy'[e] = made
    BY <1>1, <1>3
  <2>3. AuthInv(e)'
    BY <1>3, <2>2 DEF AuthInv
  <2>4. ASSUME NEW d \in Entry, d # e PROVE AuthInv(d)'
    <3>1. entries'[d] = entries[d] /\ producedBy'[d] = producedBy[d] /\ AuthInv(d)
      BY <1>1, <1>3, <2>4
    <3> QED BY <3>1 DEF AuthInv
  <2> QED BY <2>1, <2>3, <2>4
\* Where nothing is made, history stays.
<1>4. producedBy = [producedBy EXCEPT ![e] = producedBy[e]] /\ producedBy[e] \in Seq(Nat)
  BY <1>1
<1> DEFINE Goes(how) == entries' = [entries EXCEPT ![e].step = how]
<1>5. ASSUME NEW how \in EntrySteps \ {"asked", "signed"}, Goes(how), entries[e].step # "signed",
             UNCHANGED producedBy
      PROVE /\ entries' \in [Entry -> EntryRecord] /\ producedBy' \in [Entry -> Seq(Nat)]
            /\ \A d \in Entry : AuthInv(d)'
  <2> DEFINE new == [entries[e] EXCEPT !.step = how]
  <2>1. new \in EntryRecord /\ new.step = how /\ new.raw = <<>>
    BY <1>2, <1>5 DEF EntryRecord
  <2>2. entries' = [entries EXCEPT ![e] = new]
    BY <1>5
  <2>3. producedBy' = [producedBy EXCEPT ![e] = producedBy[e]] /\ producedBy[e] = <<>>
    BY <1>2, <1>4, <1>5
  <2> HIDE DEF new
  <2>4. new.step # "asked" /\ new.step # "signed"
    BY <2>1
  <2> QED BY <1>3, <1>4, <2>1, <2>2, <2>3, <2>4
<1>6. ASSUME NEW n \in Network, NEW x \in 1 .. 2, AuthorizeEntry(e, n, x)
      PROVE /\ entries' \in [Entry -> EntryRecord] /\ producedBy' \in [Entry -> Seq(Nat)]
            /\ \A d \in Entry : AuthInv(d)'
  <2>1. entries[e].step = "idle" /\ UNCHANGED producedBy
    BY <1>6 DEF AuthorizeEntry
  <2>2. CASE entries[e].kind = "source"
    <3>1. Goes("unchanged")
      BY <1>6, <2>2 DEF AuthorizeEntry
    <3> QED BY <1>5, <2>1, <3>1 DEF EntrySteps
  <2>3. CASE entries[e].kind = "other"
    <3>1. Goes("refused")
      BY <1>6, <2>3 DEF AuthorizeEntry
    <3> QED BY <1>5, <2>1, <3>1 DEF EntrySteps
  <2>4. CASE entries[e].kind = "mine"
    <3> DEFINE p == [network |-> n, expires |-> x, entry |-> e]
               new == [entries[e] EXCEPT !.step = "asked", !.payload = p]
    <3>1. /\ p \in [network : Network \cup {NoNetwork}, expires : 0 .. 2, entry : Entry \cup {0}]
          /\ p.entry = e
      OBVIOUS
    <3>2. entries' = [entries EXCEPT ![e] = new]
      BY <1>6, <2>4 DEF AuthorizeEntry
    <3> HIDE DEF p
    <3>3. /\ new \in EntryRecord /\ new.step = "asked" /\ new.kind = "mine" /\ new.payload = p
          /\ new.raw = entries[e].raw
      BY <1>2, <2>4, <3>1 DEF EntryRecord, EntrySteps
    <3>4. /\ producedBy' = [producedBy EXCEPT ![e] = producedBy[e]] /\ producedBy[e] = <<>>
          /\ entries[e].raw = <<>>
      BY <1>2, <1>4, <2>1
    <3> HIDE DEF new
    <3> QED BY <1>3, <1>4, <3>1, <3>2, <3>3, <3>4
  <2> QED BY <1>2, <2>2, <2>3, <2>4 DEF EntryRecord
<1>7. CASE AuthenticatorSigns(e)
  <2>1. PICK r \in Scalar, s \in Scalar :
            Asserted(e, DerOf(r, s)) /\ producedBy' = [producedBy EXCEPT ![e] = r \o s]
    BY <1>7 DEF AuthenticatorSigns
  <2>2. DerToRawSignature(DerOf(r, s)) = r \o s /\ r \o s # <<>> /\ r \o s \in Seq(Nat)
    BY RawOfWhole
  <2> DEFINE raw == r \o s
             new == [entries[e] EXCEPT !.step = "signed", !.raw = raw]
  <2>4. entries' = [entries EXCEPT ![e] = new]
    BY <2>1, <2>2 DEF Asserted
  <2>5. entries[e].kind = "mine" /\ entries[e].payload.entry = e
    BY <1>1, <1>7 DEF AuthInv, AuthenticatorSigns
  <2> HIDE DEF raw
  <2>6. /\ new \in EntryRecord /\ new.step = "signed" /\ new.raw = raw
        /\ new.kind = entries[e].kind /\ new.payload = entries[e].payload
    BY <1>2, <2>2 DEF EntryRecord, EntrySteps, raw
  <2> HIDE DEF new
  <2> QED BY <1>3, <2>1, <2>2, <2>4, <2>5, <2>6 DEF raw
<1>8. CASE AnswerCut(e)
  <2>0. PICK r \in Scalar, s \in Scalar :
            \E n \in 0 .. Len(DerOf(r, s)) - 1 : Asserted(e, SubSeq(DerOf(r, s), 1, n))
    BY <1>8 DEF AnswerCut
  <2>1. PICK n \in 0 .. Len(DerOf(r, s)) - 1 : Asserted(e, SubSeq(DerOf(r, s), 1, n))
    BY <2>0
  <2>2. DerToRawSignature(SubSeq(DerOf(r, s), 1, n)) = <<>>
    <3>1. Len(DerOf(r, s)) \in Nat
      BY RawOfWhole
    <3>2. n \in 0 .. Len(DerOf(r, s)) /\ n # Len(DerOf(r, s))
      BY <3>1
    <3> QED BY <3>2, WholeOrNothing
  <2>3. Goes("error") /\ entries[e].step = "asked" /\ UNCHANGED producedBy
    BY <1>8, <2>1, <2>2 DEF Asserted, AnswerCut
  <2> QED BY <1>5, <2>3 DEF EntrySteps
<1>9. CASE AuthenticatorCancelled(e)
  <2>1. Goes("cancelled") /\ entries[e].step = "asked" /\ UNCHANGED producedBy
    BY <1>9 DEF AuthenticatorCancelled
  <2> QED BY <1>5, <2>1 DEF EntrySteps
<1> QED BY <1>6, <1>7, <1>8, <1>9

LEMMA StepKeepsSigners == SignersInv /\ [SignersNext]_signersVars => SignersInv'
<1> SUFFICES ASSUME SignersInv, [SignersNext]_signersVars PROVE SignersInv'
  OBVIOUS
\* What the steps of a device, an envelope or an entry leave alone.
<1>a. ASSUME UNCHANGED authVars
      PROVE /\ entries' \in [Entry -> EntryRecord] /\ producedBy' \in [Entry -> Seq(Nat)]
            /\ \A e \in Entry : AuthInv(e)'
  <2>1. entries' = entries /\ producedBy' = producedBy
    BY <1>a DEF authVars
  <2> QED BY <2>1 DEF SignersInv, AuthInv
<1>d. ASSUME UNCHANGED <<device, deviceVars>> PROVE KeysInv'
  BY <1>d DEF SignersInv, KeysInv, deviceVars
<1>e. ASSUME UNCHANGED envelopeVars PROVE (envelope # NoAccount <=> signing = "signed")'
  BY <1>e DEF SignersInv, envelopeVars
<1>1. CASE KeypairSign \/ LedgerSignStarts \/ LedgerSigns \/ LedgerFails \/ SignatureTimesOut
  <2>1. UNCHANGED authVars /\ UNCHANGED <<device, deviceVars>>
    BY <1>1 DEF KeypairSign, LedgerSignStarts, LedgerSigns, LedgerFails, SignatureTimesOut
  <2>2. (envelope # NoAccount <=> signing = "signed")'
    BY <1>1, SigningAssumption
    DEF SignersInv, KeypairSign, LedgerSignStarts, LedgerSigns, LedgerFails, SignatureTimesOut
  <2> QED BY <1>a, <1>d, <2>1, <2>2 DEF SignersInv
<1>2. CASE DeviceChanges
  <2>1. UNCHANGED authVars /\ UNCHANGED envelopeVars
    BY <1>2 DEF DeviceChanges
  <2>2. KeysInv'
    BY <1>2 DEF DeviceChanges, SignersInv, KeysInv, deviceVars
  <2> QED BY <1>a, <1>e, <2>1, <2>2 DEF SignersInv
<1>3. ASSUME NEW f \in KeyFetch, FetchKey(f) \/ KeyFetched(f) PROVE SignersInv'
  <2>1. UNCHANGED authVars /\ UNCHANGED envelopeVars
    BY <1>3 DEF FetchKey, KeyFetched
  <2>2. KeysInv'
    BY <1>3, FetchKeepsKeys DEF SignersInv
  <2> QED BY <1>a, <1>e, <2>1, <2>2 DEF SignersInv
<1>4. ASSUME NEW e \in Entry,
             \/ \E n \in Network, x \in 1 .. 2 : AuthorizeEntry(e, n, x)
             \/ AuthenticatorSigns(e) \/ AnswerCut(e) \/ AuthenticatorCancelled(e)
      PROVE SignersInv'
  <2>1. UNCHANGED envelopeVars /\ UNCHANGED <<device, deviceVars>>
    BY <1>4 DEF AuthorizeEntry, AuthenticatorSigns, AnswerCut, AuthenticatorCancelled
  <2>2. /\ entries' \in [Entry -> EntryRecord] /\ producedBy' \in [Entry -> Seq(Nat)]
        /\ \A d \in Entry : AuthInv(d)'
    BY <1>4, AuthorizeKeepsEntries
  <2> QED BY <1>d, <1>e, <2>1, <2>2 DEF SignersInv
<1>5. CASE UNCHANGED signersVars
  <2>1. UNCHANGED authVars /\ UNCHANGED envelopeVars /\ UNCHANGED <<device, deviceVars>>
    BY <1>5 DEF signersVars
  <2> QED BY <1>a, <1>d, <1>e, <2>1 DEF SignersInv
<1> QED BY <1>1, <1>2, <1>3, <1>4, <1>5 DEF SignersNext

LEMMA SignersInvGives == SignersInv => SignersTruthful
<1> SUFFICES ASSUME SignersInv PROVE SignersTruthful
  OBVIOUS
<1>1. Cardinality(keysSeen) > 1 => overlapped
  <2> SUFFICES ASSUME ~overlapped PROVE ~(Cardinality(keysSeen) > 1)
    OBVIOUS
  <2>1. keysSeen \subseteq {cachedPublicKey}
    BY DEF SignersInv, KeysInv
  <2>2. IsFiniteSet({cachedPublicKey}) /\ Cardinality({cachedPublicKey}) = 1
    BY FS_Singleton
  <2>3. Cardinality(keysSeen) <= 1 /\ Cardinality(keysSeen) \in Nat
    BY <2>1, <2>2, FS_Subset, FS_CardinalityType
  <2> QED BY <2>3
<1> QED BY <1>1 DEF SignersInv, SignersTruthful, KeysInv, AuthInv

\* A signer has signed exactly when the call said so; a Ledger names two keys only
\* if two fetches overlapped; an entry's signature is for this entry, and is the
\* pair of scalars the authenticator answered with, of whatever lengths.
THEOREM AlwaysSignersTruthful == SignersSpec => []SignersTruthful
<1> QED BY InitSigners, StepKeepsSigners, SignersInvGives, PTL DEF SignersSpec

\* What a client signs, with its wallet or with one of its signers, is what the
\* call asked for: the two share no state, and each keeps its part.
THEOREM AlwaysSignaturesAsAsked == SigningSpec /\ SignersSpec => []SignaturesAsAsked
<1>1. SignedAsAsked /\ SignersTruthful => SignaturesAsAsked
  BY DEF SignaturesAsAsked
<1> QED BY <1>1, AlwaysSignedAsAsked, AlwaysSignersTruthful, PTL

-----------------------------------------------------------------------------
(* The meaning of an error                                                 *)

ClassName == ConduitClass \cup TransportClass \cup LocalClass \cup HorizonClass
               \cup {"Error", "TypeError", "ContractError"}
LayerRecord == [name : ClassName, contract : Contract \cup {"none"}, code : Int, status : Int,
                text : Int, network : BOOLEAN]

\* What the SDK can be told of.
OriginOK ==
    \/ /\ origin.kind = "answer" /\ origin.contract \in Contract \cup {"token"}
       /\ origin.code \in StreamCode \cup {99}
    \/ origin.kind = "status" /\ origin.code \in {400, 429, 500, 503}
    \/ origin.kind = "rpc" /\ origin.code \in {429, -32029, -32602}
    \/ /\ origin.kind = "class"
       /\ origin.class \in TransportClass \cup LocalClass \cup {"AmountExceedsWithdrawableError"}
    \/ origin.kind \in {"socket", "horizon", "trap"}

\* The error at the core tells the contract, the number and the verdict truly, and
\* so would what is parsed of it.
CoreOK(e) ==
    /\ e.contract # "none" =>
          /\ origin.kind = "answer" \/ e.name = "AmountExceedsWithdrawableError"
          /\ Known(origin) => e.contract = origin.contract /\ e.code = origin.code
    /\ RecoverableOnce(e) = "yes" <=> Transient
    /\ CodeFound(e) > 0 => \/ origin.kind = "answer" /\ CodeFound(e) = origin.code
                           \/ origin.kind = "class" /\ CodeFound(e) = 6 /\ ~Transient

\* m of the application's errors, the core, and behind that at most what the
\* socket threw.
ChainOK(m) ==
    /\ \A i \in 1 .. m : thrown[i] = Layer("Error")
    /\ CoreOK(thrown[m + 1])
    /\ \/ Len(thrown) = m + 1
       \/ /\ Len(thrown) = m + 2
          /\ thrown[m + 1].name \in TransportClass
          /\ thrown[m + 2] = [Layer("TypeError") EXCEPT !.network = TRUE]

ErrorInv ==
    /\ OriginOK /\ wraps \in Nat /\ thrown \in Seq(LayerRecord)
    /\ thrown # <<>> => \E m \in 0 .. wraps : ChainOK(m)

LEMMA InitError == ErrorInit => ErrorInv
<1> SUFFICES ASSUME ErrorInit PROVE ErrorInv
  OBVIOUS
<1>2. OriginOK
  <2>1. CASE origin \in Answers
    <3>1. CASE origin = [kind |-> "answer", contract |-> "token", code |-> 10]
      BY <3>1 DEF OriginOK, StreamCode
    <3>2. CASE \E c \in Contract, n \in StreamCode \cup {99} :
                  origin = [kind |-> "answer", contract |-> c, code |-> n]
      BY <3>2 DEF OriginOK
    <3> QED BY <2>1, <3>1, <3>2 DEF Answers
  <2>2. CASE origin \in Requests
    BY <2>2 DEF OriginOK, Requests
  <2>3. CASE origin \in Reported
    BY <2>3 DEF OriginOK, Reported
  <2>4. CASE origin \in Horizon \cup Trap
    BY <2>4 DEF OriginOK, Horizon, Trap
  <2> QED BY <2>1, <2>2, <2>3, <2>4 DEF ErrorInit
<1> QED BY <1>2 DEF ErrorInit, ErrorInv

\* One error without causes is a chain.
LEMMA OneIsChain ==
    ASSUME NEW e \in LayerRecord, thrown' = <<e>>, UNCHANGED origin, wraps' \in Nat, OriginOK, CoreOK(e)
    PROVE ErrorInv'
<1>1. thrown' \in Seq(LayerRecord) /\ Len(thrown') = 1 /\ thrown'[1] = e
  OBVIOUS
<1>2. OriginOK'
  BY DEF OriginOK
<1>3. CoreOK(e)'
  BY DEF CoreOK, Transient, Known
<1>4. ChainOK(0)'
  <2>1. 0 + 1 = 1 /\ thrown'[0 + 1] = e /\ Len(thrown') = 0 + 1
    BY <1>1
  <2> QED BY <1>3, <2>1 DEF ChainOK
<1> QED BY <1>1, <1>2, <1>4 DEF ErrorInv

\* The verdict on an answer of a contract, or on a failure that nothing repairs.
LEMMA AnswerIsFinal ==
    ASSUME NEW e, e.name \notin TransportClass, e.status = 0, ~e.network, e.code \in Int,
           e.code \notin RecoverableStatus
    PROVE RecoverableOnce(e) # "yes"
BY DEF RecoverableOnce

\* The number found in a chain is the core's, or none.
LEMMA NumberFound ==
    ASSUME thrown \in Seq(LayerRecord), NEW m \in Nat, ChainOK(m)
    PROVE ExtractContractErrorCode \in {0, CodeFound(thrown[m + 1])}
<1> DEFINE found == {i \in Reached : CodeFound(thrown[i]) > 0}
<1>1. \A i \in Reached : i \in Nat /\ i >= 1 /\ i <= Len(thrown)
  BY DEF Reached
<1>2. \A i \in 1 .. m : ~(CodeFound(thrown[i]) > 0)
  BY DEF ChainOK, CodeFound, Layer, ContractLayer
<1>3. Len(thrown) = m + 2 => ~(CodeFound(thrown[m + 2]) > 0)
  BY DEF ChainOK, CodeFound, Layer, ContractLayer
<1>4. found \subseteq {m + 1}
  <2>1. ASSUME NEW i \in Reached, i # m + 1 PROVE i \in 1 .. m \/ (i = m + 2 /\ Len(thrown) = m + 2)
    BY <1>1, <2>1 DEF ChainOK
  <2> QED BY <1>2, <1>3, <2>1
<1> HIDE DEF found
<1>5. found # {} => FirstOf(found) = m + 1
  <2> SUFFICES ASSUME found # {} PROVE FirstOf(found) = m + 1
    OBVIOUS
  <2>1. found = {m + 1}
    BY <1>4
  <2>2. \A j \in {m + 1} : m + 1 <= j
    OBVIOUS
  <2> QED BY <2>1, <2>2 DEF FirstOf
<1> QED BY <1>5 DEF ExtractContractErrorCode, found

LEMMA ContractLayerIs ==
    ASSUME NEW name \in ClassName, NEW c \in Contract \cup {"none"}, NEW n \in Int
    PROVE /\ ContractLayer(name, c, n) \in LayerRecord
          /\ ContractLayer(name, c, n).name = name /\ ContractLayer(name, c, n).contract = c
          /\ ContractLayer(name, c, n).code = n /\ ContractLayer(name, c, n).status = 0
          /\ ContractLayer(name, c, n).text = 0 /\ ~ContractLayer(name, c, n).network
BY DEF ContractLayer, LayerRecord

\* And what is parsed with it is the same answer.
LEMMA ParsedIsCore ==
    ASSUME OriginOK, NEW n \in Nat, n > 0, NEW c \in Contract, NEW context \in BOOLEAN,
           origin.kind = "answer", n = origin.code, Known(origin) => c = origin.contract
    PROVE Parsed(c, n, context) \in LayerRecord /\ CoreOK(Parsed(c, n, context))
<1> DEFINE e == Parsed(c, n, context)
<1>1. /\ e \in LayerRecord /\ e.contract = c /\ e.code = n /\ e.status = 0 /\ e.text = 0 /\ ~e.network
      /\ e.name \notin TransportClass
  <2>1. PICK name \in (ConduitClass \cup {"ContractError"}) : e = ContractLayer(name, c, n)
    BY DEF Parsed, TypedCode, ConduitError, ConduitClass
  <2>2. name \in ClassName /\ name \notin TransportClass
    BY DEF ClassName, ConduitClass, TransportClass
  <2> HIDE DEF e
  <2> QED BY <2>1, <2>2, ContractLayerIs
<1>2. n \in 1 .. 15 \cup {99}
  BY DEF OriginOK, StreamCode
<1> HIDE DEF e
<1>3. RecoverableOnce(e) # "yes"
  BY <1>1, <1>2, AnswerIsFinal DEF RecoverableStatus
<1>4. ~Transient
  BY DEF Transient
<1>5. CodeFound(e) = n
  BY <1>1 DEF CodeFound
<1> QED BY <1>1, <1>3, <1>4, <1>5 DEF CoreOK, e

LEMMA AmbiguousIsCore ==
    ASSUME OriginOK, NEW n \in Nat, n > 0,
           (origin.kind = "answer" /\ n = origin.code) \/ (origin.kind = "class" /\ n = 6 /\ ~Transient)
    PROVE Ambiguous(n) \in LayerRecord /\ CoreOK(Ambiguous(n))
<1> DEFINE e == Ambiguous(n)
<1>1. /\ e \in LayerRecord /\ e.contract = "none" /\ e.code = n /\ e.status = 0
      /\ e.text = 0 /\ ~e.network
      /\ e.name \notin TransportClass
  <2>1. "ContractError" \in ClassName /\ "ContractError" \notin TransportClass
    BY DEF ClassName, TransportClass
  <2>2. e = ContractLayer("ContractError", "none", n)
    BY DEF Ambiguous
  <2> HIDE DEF e
  <2> QED BY <2>1, <2>2, ContractLayerIs
<1>2. n \in 1 .. 15 \cup {99}
  BY DEF OriginOK, StreamCode
<1> HIDE DEF e
<1>3. RecoverableOnce(e) # "yes"
  BY <1>1, <1>2, AnswerIsFinal DEF RecoverableStatus
<1>4. ~Transient
  BY DEF Transient
<1>5. CodeFound(e) = n
  BY <1>1 DEF CodeFound
<1> QED BY <1>1, <1>3, <1>4, <1>5 DEF CoreOK, e

\* Every route gives the first error a true core.
LEMMA SimulationKeepsErrors ==
    ErrorInv /\ (SimulationFails \/ SimulationTraps \/ InvokeFails) => ErrorInv'
<1> SUFFICES ASSUME ErrorInv, SimulationFails \/ SimulationTraps \/ InvokeFails PROVE ErrorInv'
  OBVIOUS
<1>1. OriginOK /\ wraps' \in Nat /\ UNCHANGED origin
  BY DEF ErrorInv, SimulationFails, SimulationTraps, InvokeFails, Throw
<1> DEFINE plain == [Layer("Error") EXCEPT !.text = origin.code]
<1>2. ASSUME origin.kind = "answer"
      PROVE plain \in LayerRecord /\ CoreOK(plain) /\ plain.contract = "none"
  <2>1. origin.code \in StreamCode \cup {99} /\ origin.code \in Nat
    BY <1>1, <1>2 DEF OriginOK, StreamCode
  <2>2. /\ Layer("Error") \in LayerRecord /\ Layer("Error").name = "Error"
        /\ Layer("Error").contract = "none"
        /\ Layer("Error").code = 0 /\ Layer("Error").status = 0 /\ ~Layer("Error").network
    BY DEF Layer, ContractLayer, LayerRecord, ClassName
  <2>3. /\ plain \in LayerRecord /\ plain.name = "Error" /\ plain.contract = "none" /\ plain.code = 0
        /\ plain.status = 0 /\ ~plain.network /\ plain.text = origin.code
    BY <2>1, <2>2 DEF LayerRecord
  <2> HIDE DEF plain
  <2>4. RecoverableOnce(plain) # "yes"
    BY <2>3, AnswerIsFinal DEF TransportClass, RecoverableStatus
  <2> QED BY <1>2, <2>3, <2>4 DEF CoreOK, CodeFound, Transient
<1>3. CASE InvokeFails
  BY <1>1, <1>2, <1>3, OneIsChain DEF InvokeFails, Throw
<1>4. CASE SimulationTraps
  <2> DEFINE e == Layer("InsufficientBalanceError")
  <2>1. e \in LayerRecord /\ e.contract = "none" /\ e.code = 0 /\ e.text = 0
    BY DEF Layer, ContractLayer, LayerRecord, ClassName, HorizonClass
  <2>2. RecoverableOnce(e) # "yes"
    BY AnswerIsFinal DEF Layer, ContractLayer, TransportClass, RecoverableStatus
  <2>3. origin.kind = "trap" /\ thrown' = <<e>>
    BY <1>4 DEF SimulationTraps, Throw
  <2> HIDE DEF e
  <2>4. CoreOK(e)
    BY <2>1, <2>2, <2>3 DEF CoreOK, CodeFound, Transient
  <2> QED BY <1>1, <2>1, <2>3, <2>4, OneIsChain
<1>5. CASE SimulationFails
  <2>1. origin.kind = "answer"
    BY <1>5 DEF SimulationFails
  <2>2. PICK c \in Asked \ {"governor"} :
            LET e == FromSorobanMessage(c, origin.code)
            IN  \/ thrown' = <<e>>
                \/ thrown' = <<TranslateStreamError(e)>>
                \/ /\ e.contract = "stream" /\ e.code = 2
                   /\ thrown' = <<ContractLayer("StreamNotFoundError", "stream", 2)>>
    BY <1>5 DEF SimulationFails, Throw
  <2> DEFINE n == origin.code
             e == FromSorobanMessage(c, n)
  <2>3. c \in Contract /\ n \in StreamCode \cup {99} /\ n \in Nat /\ n > 0
    BY <1>1, <2>1 DEF OriginOK, Asked, Contract, StreamCode
  <2>4. Known(origin) => c = origin.contract
    BY DEF Known, Asked
  \* Whatever class names this contract and this number.
  <2>5. ASSUME NEW name \in ConduitClass
        PROVE ContractLayer(name, c, n) \in LayerRecord /\ CoreOK(ContractLayer(name, c, n))
    <3> DEFINE d == ContractLayer(name, c, n)
    <3>1. name \in ClassName /\ name \notin TransportClass
      BY DEF ClassName, ConduitClass, TransportClass
    <3>2. /\ d \in LayerRecord /\ d.name = name /\ d.contract = c /\ d.code = n /\ d.status = 0
          /\ d.text = 0
          /\ ~d.network
      BY <2>3, <3>1, ContractLayerIs
    <3> HIDE DEF d
    <3>3. RecoverableOnce(d) # "yes"
      <4>1. n \notin RecoverableStatus
        BY <2>3 DEF StreamCode, RecoverableStatus
      <4> QED BY <2>3, <3>1, <3>2, <4>1, AnswerIsFinal
    <3> QED BY <2>1, <2>3, <2>4, <3>2, <3>3 DEF CoreOK, CodeFound, Transient, d
  <2>6. e = plain \/ \E name \in ConduitClass : e = ContractLayer(name, c, n)
    BY DEF FromSorobanMessage, TypedCode, ConduitError, ConduitClass
  <2>7. CASE thrown' = <<e>>
    BY <1>1, <1>2, <2>1, <2>5, <2>6, <2>7, OneIsChain
  <2>8. ASSUME \/ thrown' = <<TranslateStreamError(e)>>
               \/ /\ e.contract = "stream" /\ e.code = 2
                  /\ thrown' = <<ContractLayer("StreamNotFoundError", "stream", 2)>>,
               thrown' # <<e>>
        PROVE \E name \in ConduitClass : thrown' = <<ContractLayer(name, c, n)>>
    <3>1. e.contract = "stream"
      BY <2>8 DEF TranslateStreamError
    <3>2. e.contract = c /\ e.code = n
      <4>1. plain.contract = "none"
        BY <1>2, <2>1
      <4>2. \A name : ContractLayer(name, c, n).contract = c /\ ContractLayer(name, c, n).code = n
        BY DEF ContractLayer
      <4> HIDE DEF plain, e
      <4> QED BY <2>6, <3>1, <4>1, <4>2
    <3> HIDE DEF e, n
    <3> QED BY <2>8, <3>1, <3>2 DEF TranslateStreamError, ConduitClass
  <2> HIDE DEF e, n
  <2> QED BY <1>1, <2>2, <2>5, <2>7, <2>8, OneIsChain DEF e, n
<1> QED BY <1>3, <1>4, <1>5

LEMMA MapperKeepsErrors ==
    ErrorInv /\ (MappedMessage \/ AttachMapper \/ DetachMapper \/ DisposeMapper) => ErrorInv'
<1> SUFFICES ASSUME ErrorInv, MappedMessage \/ AttachMapper \/ DetachMapper \/ DisposeMapper
             PROVE ErrorInv'
  OBVIOUS
<1>1. CASE UNCHANGED <<origin, thrown, wraps>>
  <2>1. origin' = origin /\ thrown' = thrown /\ wraps' = wraps
    BY <1>1
  <2>2. OriginOK'
    BY <2>1 DEF ErrorInv, OriginOK
  <2>3. ASSUME NEW m \in 0 .. wraps, ChainOK(m) PROVE ChainOK(m)'
    BY <2>1, <2>3 DEF ChainOK, CoreOK, Transient, Known
  <2> QED BY <2>1, <2>2, <2>3 DEF ErrorInv
<1>2. CASE MappedMessage
  <2> DEFINE c == origin.contract
             n == origin.code
             e == FromContractError(c, n)
  <2>1. /\ OriginOK /\ wraps' \in Nat /\ UNCHANGED origin /\ thrown' = <<e>>
        /\ origin.kind = "answer" /\ c \in Contract /\ n \in StreamCode \cup {99}
    BY <1>2 DEF ErrorInv, MappedMessage, Throw, OriginOK
  <2>2. PICK name \in ConduitClass, k \in {n, UnknownCode} :
            e = ContractLayer(name, c, k) /\ (n \in CodesOf(c) => k = n)
    BY DEF FromContractError, ConduitError, ConduitClass
  <2> HIDE DEF e
  <2>3. name \in ClassName /\ name \notin TransportClass
    BY DEF ClassName, ConduitClass, TransportClass
  <2>4. k \in Int /\ k \notin RecoverableStatus /\ (k > 0 => k = n)
    BY <2>1 DEF UnknownCode, StreamCode, RecoverableStatus
  <2>5. /\ e \in LayerRecord /\ e.name = name /\ e.contract = c /\ e.code = k /\ e.status = 0
        /\ e.text = 0 /\ ~e.network
    BY <2>1, <2>2, <2>3, <2>4, ContractLayerIs
  <2>6. RecoverableOnce(e) # "yes"
    BY <2>3, <2>4, <2>5, AnswerIsFinal
  <2>7. CoreOK(e)
    BY <2>1, <2>2, <2>4, <2>5, <2>6 DEF CoreOK, CodeFound, Transient, Known
  <2> QED BY <2>1, <2>5, <2>7, OneIsChain
<1> QED BY <1>1, <1>2 DEF AttachMapper, DetachMapper, DisposeMapper

\* A class that is thrown as it is, of a failure no contract reported.
LEMMA ClassIsCore ==
    ASSUME NEW name \in ClassName
    PROVE /\ Layer(name) \in LayerRecord /\ Layer(name).contract = "none" /\ ~(CodeFound(Layer(name)) > 0)
          /\ RecoverableOnce(Layer(name)) = "yes" <=> name \in TransportClass
          /\ (name \in TransportClass <=> Transient) => CoreOK(Layer(name))
<1> DEFINE e == Layer(name)
<1>1. /\ e \in LayerRecord /\ e.name = name /\ e.contract = "none" /\ e.code = 0
      /\ e.status = 0 /\ e.text = 0
      /\ ~e.network
  BY DEF Layer, ContractLayer, LayerRecord
<1> HIDE DEF e
<1>2. ~(CodeFound(e) > 0)
  BY <1>1 DEF CodeFound
<1>3. RecoverableOnce(e) = "yes" <=> name \in TransportClass
  <2>1. CASE name \in TransportClass
    BY <1>1, <2>1 DEF RecoverableOnce
  <2>2. CASE name \notin TransportClass
    BY <1>1, <2>2, AnswerIsFinal DEF RecoverableStatus
  <2> QED BY <2>1, <2>2
<1> QED BY <1>1, <1>2, <1>3 DEF CoreOK, e

LEMMA RequestKeepsErrors == ErrorInv /\ (RequestFails \/ ReportedByClass \/ HorizonRejects) => ErrorInv'
<1> SUFFICES ASSUME ErrorInv, RequestFails \/ ReportedByClass \/ HorizonRejects PROVE ErrorInv'
  OBVIOUS
<1>1. OriginOK /\ wraps' \in Nat /\ wraps' = wraps /\ UNCHANGED origin
  BY DEF ErrorInv, RequestFails, ReportedByClass, HorizonRejects, Throw
<1>2. ASSUME NEW name \in ClassName, thrown' = <<Layer(name)>>, name \in TransportClass <=> Transient
      PROVE ErrorInv'
  BY <1>1, <1>2, ClassIsCore, OneIsChain
<1>3. CASE HorizonRejects
  <2>1. PICK name \in HorizonClass \cup {"Error"} : thrown' = <<Layer(name)>>
    BY <1>3 DEF HorizonRejects, Throw, MapHorizonError, HorizonClass
  <2>2. name \in ClassName /\ name \notin TransportClass
    BY DEF ClassName, HorizonClass, TransportClass
  <2>3. ~Transient
    BY <1>3 DEF HorizonRejects, Transient
  <2> QED BY <1>2, <2>1, <2>2, <2>3
<1>4. CASE ReportedByClass
  <2>1. /\ origin.class \in TransportClass \cup LocalClass \cup {"AmountExceedsWithdrawableError"}
        /\ origin.kind = "class"
    BY <1>1, <1>4 DEF OriginOK, ReportedByClass
  <2>2. Transient <=> origin.class \in TransportClass
    BY <2>1 DEF Transient
  <2>3. CASE origin.class # "AmountExceedsWithdrawableError"
    <3>1. thrown' = <<Layer(origin.class)>>
      BY <1>4, <2>3 DEF ReportedByClass, Throw
    <3>2. origin.class \in ClassName
      BY <2>1, <2>3 DEF ClassName
    <3> QED BY <1>2, <2>2, <3>1, <3>2
  <2>4. CASE origin.class = "AmountExceedsWithdrawableError"
    <3> DEFINE e == ContractLayer("AmountExceedsWithdrawableError", "stream", 6)
    <3>1. thrown' = <<e>>
      BY <1>4, <2>4 DEF ReportedByClass, Throw
    <3>2. /\ "AmountExceedsWithdrawableError" \in ClassName
          /\ "AmountExceedsWithdrawableError" \notin TransportClass
      BY DEF ClassName, ConduitClass, TransportClass
    <3>3. /\ e \in LayerRecord /\ e.name = "AmountExceedsWithdrawableError"
          /\ e.contract = "stream" /\ e.code = 6
          /\ e.status = 0 /\ e.text = 0 /\ ~e.network
      BY <3>2, ContractLayerIs DEF Contract
    <3> HIDE DEF e
    <3>4. RecoverableOnce(e) # "yes"
      BY <3>2, <3>3, AnswerIsFinal DEF RecoverableStatus
    <3>5. CoreOK(e)
      BY <2>1, <2>2, <2>4, <3>2, <3>3, <3>4 DEF CoreOK, CodeFound, Known
    <3> QED BY <1>1, <3>1, <3>3, <3>5, OneIsChain
  <2> QED BY <2>3, <2>4
<1>5. CASE RequestFails
  <2>1. /\ origin.kind \in {"status", "rpc", "socket"}
        /\ thrown' = FromRpcError(CatchNetworkError(RawRequest))
    BY <1>5 DEF RequestFails, Throw
  <2>a. /\ "RateLimitError" \in ClassName /\ "RpcServiceUnavailableError" \in ClassName
        /\ "RateLimitError" \in TransportClass
        /\ "RpcServiceUnavailableError" \in TransportClass
    BY DEF ClassName, TransportClass
  <2>2. CASE origin.kind = "status"
    <3> DEFINE e == [Layer("Error") EXCEPT !.status = origin.code]
    <3>1. origin.code \in {400, 429, 500, 503}
      BY <1>1, <2>2 DEF OriginOK
    <3>2. /\ Layer("Error") \in LayerRecord /\ Layer("Error").name = "Error"
          /\ Layer("Error").contract = "none"
          /\ Layer("Error").code = 0 /\ Layer("Error").text = 0 /\ ~Layer("Error").network
      BY DEF Layer, ContractLayer, LayerRecord, ClassName
    <3>3. /\ e \in LayerRecord /\ e.name = "Error" /\ e.contract = "none" /\ e.code = 0
          /\ e.text = 0 /\ ~e.network /\ e.status = origin.code
      BY <3>1, <3>2 DEF LayerRecord
    <3>4. RawRequest = e
      BY <2>2 DEF RawRequest
    <3> HIDE DEF e
    <3>5. CatchNetworkError(RawRequest) = <<e>>
      BY <3>3, <3>4 DEF CatchNetworkError
    <3>6. Transient <=> origin.code # 400
      BY <2>2, <3>1 DEF Transient, RecoverableStatus
    <3>7. CASE origin.code = 429
      BY <1>2, <2>1, <2>a, <3>3, <3>5, <3>6, <3>7 DEF FromRpcError
    <3>8. CASE origin.code = 503
      BY <1>2, <2>1, <2>a, <3>3, <3>5, <3>6, <3>8 DEF FromRpcError
    <3>9. CASE origin.code \in {400, 500}
      <4>1. thrown' = <<e>>
        BY <2>1, <3>3, <3>5, <3>9 DEF FromRpcError
      <4>2. RecoverableOnce(e) = "yes" <=> origin.code = 500
        BY <3>3, <3>9 DEF RecoverableOnce, RecoverableStatus, IsConduitError, TransportClass, ConduitClass,
           LocalClass, HorizonClass
      <4>3. CoreOK(e)
        BY <3>3, <3>6, <3>9, <4>2 DEF CoreOK, CodeFound
      <4> QED BY <1>1, <3>3, <4>1, <4>3, OneIsChain
    <3> QED BY <3>1, <3>7, <3>8, <3>9
  <2>3. CASE origin.kind = "rpc"
    <3> DEFINE e == [Layer("Error") EXCEPT !.code = origin.code]
    <3>1. origin.code \in {429, -32029, -32602}
      BY <1>1, <2>3 DEF OriginOK
    <3>2. /\ Layer("Error") \in LayerRecord /\ Layer("Error").name = "Error"
          /\ Layer("Error").contract = "none"
          /\ Layer("Error").status = 0 /\ Layer("Error").text = 0 /\ ~Layer("Error").network
      BY DEF Layer, ContractLayer, LayerRecord, ClassName
    <3>3. /\ e \in LayerRecord /\ e.name = "Error" /\ e.contract = "none" /\ e.status = 0
          /\ e.text = 0 /\ ~e.network /\ e.code = origin.code
      BY <3>1, <3>2 DEF LayerRecord
    <3>4. RawRequest = e
      BY <2>3 DEF RawRequest
    <3> HIDE DEF e
    <3>5. CatchNetworkError(RawRequest) = <<e>>
      BY <3>3, <3>4 DEF CatchNetworkError
    <3>6. Transient <=> origin.code # -32602
      BY <2>3, <3>1 DEF Transient
    <3>7. CASE origin.code \in {429, -32029}
      BY <1>2, <2>1, <2>a, <3>3, <3>5, <3>6, <3>7 DEF FromRpcError
    <3>8. CASE origin.code = -32602
      <4>1. thrown' = <<e>>
        BY <2>1, <3>3, <3>5, <3>8 DEF FromRpcError
      <4>2. RecoverableOnce(e) # "yes"
        BY <3>3, <3>8, AnswerIsFinal DEF TransportClass, RecoverableStatus
      <4>3. CoreOK(e)
        BY <3>3, <3>6, <3>8, <4>2 DEF CoreOK, CodeFound
      <4> QED BY <1>1, <3>3, <4>1, <4>3, OneIsChain
    <3> QED BY <3>1, <3>7, <3>8
  <2>4. CASE origin.kind = "socket"
    <3> DEFINE d == Layer("StreamFiNetworkError")
               e == [Layer("TypeError") EXCEPT !.network = TRUE]
    <3>1. e \in LayerRecord /\ e.network
      <4>1. Layer("TypeError") \in LayerRecord
        BY DEF Layer, ContractLayer, LayerRecord, ClassName
      <4> QED BY <4>1 DEF LayerRecord
    <3>2. "StreamFiNetworkError" \in ClassName /\ "StreamFiNetworkError" \in TransportClass
      BY DEF ClassName, TransportClass
    <3>3. d \in LayerRecord /\ d.name = "StreamFiNetworkError" /\ d.status = 0 /\ d.code = 0
      BY <3>2 DEF Layer, ContractLayer, LayerRecord
    <3>4. CoreOK(d)
      BY <2>4, <3>2, ClassIsCore DEF Transient
    <3>5. RawRequest = e
      BY <2>4 DEF RawRequest
    <3> HIDE DEF d, e
    <3>6. thrown' = <<d, e>>
      <4>1. CatchNetworkError(RawRequest) = <<d, e>>
        BY <3>1, <3>5 DEF CatchNetworkError, d
      <4> QED BY <2>1, <3>3, <4>1 DEF FromRpcError
    <3>7. CoreOK(d)'
      BY <1>1, <3>4 DEF CoreOK, Transient, Known, d
    <3>8. ChainOK(0)'
      <4>1. 0 + 1 = 1 /\ 0 + 2 = 2 /\ thrown'[1] = d /\ thrown'[2] = e /\ Len(thrown') = 2
        BY <3>6
      <4> QED BY <3>2, <3>3, <3>7, <4>1 DEF ChainOK, e
    <3>9. thrown' \in Seq(LayerRecord) /\ OriginOK'
      BY <1>1, <3>1, <3>3, <3>6 DEF OriginOK
    <3> QED BY <1>1, <3>8, <3>9 DEF ErrorInv
  <2> QED BY <2>1, <2>2, <2>3, <2>4
<1> QED BY <1>3, <1>4, <1>5

\* One more error around a chain is a chain.
LEMMA WrapKeepsErrors == ErrorInv /\ WrappedByApplication => ErrorInv'
<1> SUFFICES ASSUME ErrorInv, WrappedByApplication PROVE ErrorInv'
  OBVIOUS
<1>1. /\ OriginOK /\ UNCHANGED origin /\ thrown \in Seq(LayerRecord) /\ wraps \in Nat
      /\ wraps' = wraps + 1
      /\ thrown' = <<Layer("Error")>> \o thrown
  BY DEF ErrorInv, WrappedByApplication
<1>2. PICK m \in 0 .. wraps : ChainOK(m)
  BY DEF ErrorInv, WrappedByApplication
<1>3. Layer("Error") \in LayerRecord
  BY DEF Layer, ContractLayer, LayerRecord, ClassName
<1> DEFINE first == Layer("Error")
<1> HIDE DEF first
<1>4. /\ thrown' \in Seq(LayerRecord) /\ Len(thrown') = Len(thrown) + 1 /\ thrown'[1] = first
      /\ \A i \in 1 .. Len(thrown) : thrown'[i + 1] = thrown[i]
  BY <1>1, <1>3 DEF first
<1>5. m \in Nat /\ m + 1 \in 0 .. wraps' /\ Len(thrown) \in {m + 1, m + 2}
  BY <1>1, <1>2 DEF ChainOK
<1>6. \A i \in 1 .. m + 1 : thrown'[i] = first
  <2>1. \A i \in 1 .. m : thrown[i] = first
    BY <1>2 DEF ChainOK, first
  <2>2. ASSUME NEW i \in 1 .. m + 1, i # 1 PROVE thrown'[i] = first
    <3>1. i - 1 \in 1 .. m /\ i - 1 \in 1 .. Len(thrown) /\ (i - 1) + 1 = i
      BY <1>5, <2>2
    <3> QED BY <1>4, <2>1, <3>1
  <2> QED BY <1>4, <2>2
<1>7. thrown'[(m + 1) + 1] = thrown[m + 1]
  BY <1>4, <1>5
<1>8. Len(thrown) = m + 2 => thrown'[(m + 1) + 2] = thrown[m + 2]
  <2>1. (m + 2) + 1 = (m + 1) + 2
    BY <1>5
  <2>2. Len(thrown) = m + 2 => m + 2 \in 1 .. Len(thrown)
    BY <1>5
  <2> QED BY <1>4, <2>1, <2>2
<1>9. ChainOK(m + 1)'
  <2>1. PICK e : e = thrown[m + 1] /\ CoreOK(e)
    BY <1>2 DEF ChainOK
  <2>2. CoreOK(e)'
    BY <1>1, <2>1 DEF CoreOK, Transient, Known
  <2>3. thrown'[(m + 1) + 1] = e
    BY <1>7, <2>1
  <2>4. \/ Len(thrown') = (m + 1) + 1
        \/ /\ Len(thrown') = (m + 1) + 2
           /\ thrown'[(m + 1) + 1].name \in TransportClass
           /\ thrown'[(m + 1) + 2] = [Layer("TypeError") EXCEPT !.network = TRUE]
    <3>1. CASE Len(thrown) = m + 1
      BY <1>4, <3>1
    <3>2. CASE Len(thrown) # m + 1
      <4>1. /\ Len(thrown) = m + 2 /\ thrown[m + 1].name \in TransportClass
            /\ thrown[m + 2] = [Layer("TypeError") EXCEPT !.network = TRUE]
        BY <1>2, <3>2 DEF ChainOK
      <4>2. Len(thrown') = (m + 1) + 2
        BY <1>4, <1>5, <4>1
      <4> QED BY <1>7, <1>8, <4>1, <4>2
    <3> QED BY <3>1, <3>2
  <2> QED BY <1>6, <2>2, <2>3, <2>4 DEF ChainOK, first
<1> QED BY <1>1, <1>4, <1>5, <1>9 DEF ErrorInv, OriginOK

\* What is parsed names the contract that answered, where we know the number.
LEMMA ParseKeepsErrors ==
    ASSUME ErrorInv, NEW named \in Contract \cup {"none"}, ParseContractError(named),
           named # "none" => origin.kind = "answer" /\ named \in Asked
    PROVE ErrorInv'
<1>1. /\ OriginOK /\ UNCHANGED origin /\ thrown \in Seq(LayerRecord) /\ wraps' \in Nat
  BY DEF ErrorInv, ParseContractError
<1>2. PICK m \in 0 .. wraps : ChainOK(m)
  BY DEF ErrorInv, ParseContractError
<1> DEFINE n == ExtractContractErrorCode
           core == thrown[m + 1]
           candidates == ContractsDefiningCode(n)
<1>3. n > 0 /\ n = CodeFound(core)
  <2>1. n > 0
    BY DEF ParseContractError
  <2>2. m \in Nat
    BY DEF ErrorInv
  <2>3. n \in {0, CodeFound(core)}
    BY <1>1, <1>2, <2>2, NumberFound
  <2> HIDE DEF n
  <2> QED BY <2>1, <2>3
<1>4. \/ origin.kind = "answer" /\ n = origin.code
      \/ origin.kind = "class" /\ n = 6 /\ ~Transient
  <2>1. CoreOK(core)
    BY <1>2 DEF ChainOK
  <2> HIDE DEF n, core
  <2> QED BY <1>3, <2>1 DEF CoreOK
<1>5. n \in 1 .. 15 \cup {99}
  BY <1>1, <1>4 DEF OriginOK, StreamCode
<1>6. PICK context \in BOOLEAN :
        thrown' = IF named # "none" THEN <<Parsed(named, n, context)>>
                  ELSE IF Cardinality(candidates) # 1 THEN <<Ambiguous(n)>>
                  ELSE <<Parsed(CHOOSE c \in candidates : TRUE, n, context)>>
  BY DEF ParseContractError
<1> HIDE DEF n, core
<1>7. CASE named # "none"
  <2>1. origin.kind = "answer" /\ n = origin.code /\ (Known(origin) => named = origin.contract)
    BY <1>4, <1>7 DEF Known, Asked
  <2>2. thrown' = <<Parsed(named, n, context)>>
    BY <1>6, <1>7
  <2>3. named \in Contract /\ n \in Nat /\ n > 0
    BY <1>1, <1>5, <1>7
  <2>4. Parsed(named, n, context) \in LayerRecord /\ CoreOK(Parsed(named, n, context))
    BY <1>1, <2>1, <2>3, ParsedIsCore
  <2> QED BY <1>1, <2>2, <2>4, OneIsChain
<1>8. CASE named = "none" /\ Cardinality(candidates) # 1
  <2>1. thrown' = <<Ambiguous(n)>>
    BY <1>6, <1>8
  <2> QED BY <1>1, <1>4, <1>5, <2>1, AmbiguousIsCore, OneIsChain
<1>9. CASE named = "none" /\ Cardinality(candidates) = 1
  <2> DEFINE c == CHOOSE x \in candidates : TRUE
  <2>1. candidates \subseteq Contract
    BY DEF ContractsDefiningCode
  <2>2. IsFiniteSet(Contract)
    <3>1. Contract = ({"stream"} \cup {"factory"}) \cup {"governor"}
      BY DEF Contract
    <3> QED BY <3>1, FS_Singleton, FS_Union
  <2>3. \E x : candidates = {x}
    BY <1>9, <2>1, <2>2, FS_Subset, FS_Singleton
  <2>4. c \in candidates /\ candidates = {c}
    <3> HIDE DEF candidates
    <3> QED BY <2>3
  <2>5. c \in Contract /\ n \in CodesOf(c) /\ \A x \in Contract : n \in CodesOf(x) => x = c
    <3> HIDE DEF c
    <3> QED BY <2>4 DEF ContractsDefiningCode
  <2>6. n # 6
    <3>1. "stream" \in Contract /\ "factory" \in Contract
      BY DEF Contract
    <3>2. 6 \in CodesOf("stream") /\ 6 \in CodesOf("factory")
      BY DEF CodesOf, StreamCode, FactoryCode
    <3> HIDE DEF c
    <3> QED BY <2>5, <3>1, <3>2
  <2>7. origin.kind = "answer" /\ n = origin.code
    BY <1>4, <2>6
  <2>8. Known(origin) => c = origin.contract
    <3> HIDE DEF c
    <3> QED BY <2>5, <2>7 DEF Known
  <2>9. thrown' = <<Parsed(c, n, context)>>
    BY <1>6, <1>9
  <2> HIDE DEF c
  <2>10. n \in Nat /\ n > 0
    BY <1>5
  <2>11. Parsed(c, n, context) \in LayerRecord /\ CoreOK(Parsed(c, n, context))
    BY <1>1, <2>5, <2>7, <2>8, <2>10, ParsedIsCore
  <2> QED BY <1>1, <2>9, <2>11, OneIsChain
<1> QED BY <1>6, <1>7, <1>8, <1>9

LEMMA StepKeepsErrors == ErrorInv /\ [ErrorNext]_errorVars => ErrorInv'
<1> SUFFICES ASSUME ErrorInv, [ErrorNext]_errorVars PROVE ErrorInv'
  OBVIOUS
<1>1. ASSUME origin.kind = "answer", NEW c \in Asked, ParseContractError(c) PROVE ErrorInv'
  <2>1. c \in Contract
    BY DEF Asked, Contract
  <2> QED BY <1>1, <2>1, ParseKeepsErrors
<1>2. CASE ParseContractError("none")
  BY <1>2, ParseKeepsErrors
<1>3. CASE UNCHANGED errorVars
  <2>1. origin' = origin /\ thrown' = thrown /\ wraps' = wraps
    BY <1>3 DEF errorVars
  <2>2. ASSUME NEW m \in 0 .. wraps, ChainOK(m) PROVE ChainOK(m)'
    BY <2>1, <2>2 DEF ChainOK, CoreOK, Transient, Known
  <2> QED BY <2>1, <2>2 DEF ErrorInv, OriginOK
<1> QED BY <1>1, <1>2, <1>3, SimulationKeepsErrors, MapperKeepsErrors, RequestKeepsErrors, WrapKeepsErrors
        DEF ErrorNext

\* The verdict on a chain is the verdict on its core, within five causes.
LEMMA InvGivesMeaning == ErrorInv => MeaningKept
<1> SUFFICES ASSUME ErrorInv, thrown # <<>>
             PROVE /\ \A i \in 1 .. Len(thrown) :
                        thrown[i].contract # "none" =>
                            /\ origin.kind = "answer" \/ thrown[i].name = "AmountExceedsWithdrawableError"
                            /\ Known(origin) =>
                                 thrown[i].contract = origin.contract /\ thrown[i].code = origin.code
                   /\ wraps < 5 => (IsRecoverableError <=> Transient)
  BY DEF MeaningKept
<1>1. PICK m \in 0 .. wraps : ChainOK(m)
  BY DEF ErrorInv
<1>2. thrown \in Seq(LayerRecord) /\ wraps \in Nat /\ m \in Nat /\ Len(thrown) \in {m + 1, m + 2}
  BY <1>1 DEF ErrorInv, ChainOK
<1>3. \A i \in 1 .. m : thrown[i] = Layer("Error")
  BY <1>1 DEF ChainOK
<1>4. \A i \in 1 .. Len(thrown) : i \in 1 .. m \/ i = m + 1 \/ (i = m + 2 /\ Len(thrown) = m + 2)
  BY <1>2
<1>5. Layer("Error").contract = "none" /\ RecoverableOnce(Layer("Error")) = "none"
  BY DEF Layer, ContractLayer, RecoverableOnce, IsConduitError, TransportClass, ConduitClass,
         LocalClass, HorizonClass
<1>6. Len(thrown) = m + 2 => thrown[m + 2].contract = "none" /\ RecoverableOnce(thrown[m + 1]) = "yes"
  BY <1>1, <1>2 DEF ChainOK, Layer, ContractLayer, RecoverableOnce
<1>7. CoreOK(thrown[m + 1])
  BY <1>1 DEF ChainOK
<1>8. \A i \in 1 .. Len(thrown) :
        thrown[i].contract # "none" =>
            /\ origin.kind = "answer" \/ thrown[i].name = "AmountExceedsWithdrawableError"
            /\ Known(origin) => thrown[i].contract = origin.contract /\ thrown[i].code = origin.code
  BY <1>3, <1>4, <1>5, <1>6, <1>7 DEF CoreOK
<1>9. ASSUME wraps < 5 PROVE IsRecoverableError <=> Transient
  <2> DEFINE decided == {i \in Reached : RecoverableOnce(thrown[i]) # "none"}
  <2>1. m + 1 \in Reached /\ \A i \in Reached : i \in 1 .. Len(thrown)
    BY <1>2, <1>9 DEF Reached
  <2>2. ASSUME NEW i \in decided PROVE i \in Nat /\ i >= m + 1
    <3>1. i \in 1 .. Len(thrown) /\ RecoverableOnce(thrown[i]) # "none"
      BY <2>1
    <3>2. ~(i \in 1 .. m)
      BY <1>3, <1>5, <3>1
    <3>3. i = m + 1 \/ i = m + 2
      BY <1>4, <3>1, <3>2
    <3> QED BY <1>2, <3>3
  <2>3. CASE RecoverableOnce(thrown[m + 1]) = "none"
    <3>1. decided = {}
      BY <1>4, <1>3, <1>5, <1>6, <2>1, <2>3
    <3> QED BY <1>7, <2>3, <3>1 DEF IsRecoverableError, CoreOK
  <2>4. CASE RecoverableOnce(thrown[m + 1]) # "none"
    <3>1. m + 1 \in decided
      BY <2>1, <2>4
    <3> HIDE DEF decided
    <3>2. FirstOf(decided) = m + 1
      BY <1>2, <2>2, <3>1 DEF FirstOf
    <3> QED BY <1>7, <3>1, <3>2 DEF IsRecoverableError, CoreOK, decided
  <2> QED BY <2>3, <2>4
<1> QED BY <1>8, <1>9

\* However often the application wraps an error, the contract and the number that
\* are found in it are those of the failure, and only what is worth retrying is
\* called recoverable.
THEOREM AlwaysMeaningKept == ErrorSpec => []MeaningKept
<1> QED BY InitError, StepKeepsErrors, InvGivesMeaning, PTL DEF ErrorSpec

-----------------------------------------------------------------------------
(* Amounts: arithmetic                                                     *)

LEMMA Associates ==
  ASSUME NEW a \in Int, NEW b \in Int, NEW c \in Int
  PROVE  a * (b * c) = (a * b) * c /\ a * b = b * a /\ a * b \in Int
OBVIOUS

LEMMA ProductPositive ==
  ASSUME NEW a \in Nat \ {0}, NEW b \in Nat \ {0}
  PROVE  a * b \in Nat \ {0}
OBVIOUS

\* Division by a positive number: the quotient and what is left of it.
LEMMA DividesInto ==
  ASSUME NEW a \in Nat, NEW b \in Nat \ {0}
  PROVE  /\ a \div b \in Nat /\ a % b \in Nat /\ a % b < b
         /\ a = b * (a \div b) + (a % b)
<1>1. a \div b \in Nat
  OBVIOUS
<1>2. a % b \in Nat /\ a % b < b
  OBVIOUS
<1>3. a = b * (a \div b) + (a % b)
  OBVIOUS
<1> QED BY <1>1, <1>2, <1>3

\* And the only ones.
LEMMA QuotientOnly ==
  ASSUME NEW b \in Nat \ {0}, NEW q \in Nat, NEW r \in Nat, r < b, NEW a, a = b * q + r
  PROVE  a \div b = q /\ a % b = r
OBVIOUS

\* The power of its definition, for any bound of the recursion.
PowerUpTo(b, n) == CHOOSE p : p = [k \in 0 .. n |-> IF k = 0 THEN 1 ELSE b * p[k - 1]]

LEMMA PowerUnrolls ==
  ASSUME NEW b, NEW n \in Nat
  PROVE  /\ Power(b, n) = PowerUpTo(b, n)[n]
         /\ PowerUpTo(b, n)[0] = 1
         /\ \A k \in 1 .. n : PowerUpTo(b, n)[k] = b * PowerUpTo(b, n)[k - 1]
<1> DEFINE Def(p, k) == IF k = 0 THEN 1 ELSE b * p[k - 1]
           T == {m \in Nat : \E p : p = [k \in 0 .. m |-> Def(p, k)]}
           It == PowerUpTo(b, n)
<1>1. Power(b, n) = It[n]
  BY DEF Power, PowerUpTo
<1>2. 0 \in T
  <2>1. 0 .. 0 = {0}
    OBVIOUS
  <2>2. [k \in {0} |-> 1] = [k \in {0} |-> Def([j \in {0} |-> 1], k)]
    OBVIOUS
  <2> QED BY <2>1, <2>2
<1>3. ASSUME NEW m \in 0 .. n - 1, m \in T PROVE m + 1 \in T
  <2>1. PICK p : p = [k \in 0 .. m |-> Def(p, k)]
    BY <1>3
  <2> DEFINE p2 == [k \in 0 .. m + 1 |-> Def(p, k)]
  <2>2. ASSUME NEW k \in 0 .. m + 1 PROVE Def(p, k) = Def(p2, k)
    <3>1. CASE k = 0
      BY <3>1
    <3>2. CASE k # 0
      <4>1. k - 1 \in 0 .. m /\ k - 1 \in 0 .. m + 1
        BY <3>2
      <4>2. p[k - 1] = Def(p, k - 1) /\ p2[k - 1] = Def(p, k - 1)
        <5> HIDE DEF Def
        <5> QED BY <2>1, <4>1
      <4>3. p[k - 1] = p2[k - 1]
        BY <4>2
      <4> HIDE DEF p2
      <4> QED BY <3>2, <4>3
    <3> QED BY <3>1, <3>2
  <2>3. p2 = [k \in 0 .. m + 1 |-> Def(p2, k)]
    <3> HIDE DEF Def
    <3> QED BY <2>2
  <2> HIDE DEF Def, p2
  <2> QED BY <2>3
<1>4. n \in T
  <2> HIDE DEF T
  <2>1. 0 .. n \subseteq T
    BY <1>2, <1>3, UpTo
  <2> QED BY <2>1
<1>5. It = [k \in 0 .. n |-> Def(It, k)]
  <2> HIDE DEF Def
  <2>1. It = CHOOSE p : p = [k \in 0 .. n |-> Def(p, k)]
    BY DEF PowerUpTo, Def
  <2> HIDE DEF It
  <2> QED BY <1>4, <2>1
<1> HIDE DEF It
<1>6. It[0] = 1
  BY <1>5
<1>7. ASSUME NEW k \in 1 .. n PROVE It[k] = b * It[k - 1]
  <2>1. k \in 0 .. n /\ k # 0
    OBVIOUS
  <2>2. It[k] = Def(It, k)
    <3> HIDE DEF Def
    <3> QED BY <1>5, <2>1
  <2> QED BY <2>1, <2>2
<1> QED BY <1>1, <1>6, <1>7 DEF It

LEMMA PowerIs ==
  ASSUME NEW b, NEW n \in Nat
  PROVE  Power(b, 0) = 1 /\ Power(b, n + 1) = b * Power(b, n)
<1> DEFINE p == PowerUpTo(b, n)
           q == PowerUpTo(b, n + 1)
<1>1. /\ p[0] = 1 /\ \A k \in 1 .. n : p[k] = b * p[k - 1]
      /\ Power(b, n) = p[n]
  BY PowerUnrolls
<1>2. /\ q[0] = 1 /\ \A k \in 1 .. n + 1 : q[k] = b * q[k - 1]
      /\ Power(b, n + 1) = q[n + 1]
  BY PowerUnrolls
<1>3. Power(b, 0) = 1
  BY PowerUnrolls
<1> HIDE DEF p, q
<1> DEFINE S == {k \in 0 .. n : p[k] = q[k]}
<1>4. 0 \in S
  BY <1>1, <1>2
<1>5. ASSUME NEW k \in 0 .. n - 1, k \in S PROVE k + 1 \in S
  <2>1. k + 1 \in 1 .. n /\ k + 1 \in 1 .. n + 1 /\ (k + 1) - 1 = k /\ k + 1 \in 0 .. n
    OBVIOUS
  <2>2. p[k + 1] = b * p[k] /\ q[k + 1] = b * q[k]
    BY <1>1, <1>2, <2>1
  <2> QED BY <1>5, <2>1, <2>2
<1> HIDE DEF S
<1>6. 0 .. n \subseteq S
  BY <1>4, <1>5, UpTo
<1>7. p[n] = q[n]
  BY <1>6 DEF S
<1>8. q[n + 1] = b * q[n]
  <2>1. n + 1 \in 1 .. n + 1 /\ (n + 1) - 1 = n
    OBVIOUS
  <2> QED BY <1>2, <2>1
<1> QED BY <1>1, <1>2, <1>3, <1>7, <1>8

LEMMA PowerPositive ==
  ASSUME NEW b \in Nat \ {0}, NEW n \in Nat
  PROVE  Power(b, n) \in Nat \ {0}
<1> DEFINE S == {k \in 0 .. n : Power(b, k) \in Nat \ {0}}
<1>1. 0 \in S
  BY PowerIs
<1>2. ASSUME NEW k \in 0 .. n - 1, k \in S PROVE k + 1 \in S
  <2>1. k \in Nat /\ k + 1 \in 0 .. n
    OBVIOUS
  <2>2. Power(b, k + 1) = b * Power(b, k)
    BY <2>1, PowerIs
  <2>3. b * Power(b, k) \in Nat \ {0}
    BY <1>2, ProductPositive
  <2> QED BY <2>1, <2>2, <2>3
<1> HIDE DEF S
<1>3. 0 .. n \subseteq S
  BY <1>1, <1>2, UpTo
<1> QED BY <1>3 DEF S

LEMMA PowerAdds ==
  ASSUME NEW b \in Nat \ {0}, NEW m \in Nat, NEW n \in Nat
  PROVE  Power(b, m + n) = Power(b, m) * Power(b, n)
<1> DEFINE x == Power(b, m)
           S == {k \in 0 .. n : Power(b, m + k) = x * Power(b, k)}
<1>0. x \in Nat \ {0}
  BY PowerPositive
<1>1. 0 \in S
  <2>1. Power(b, 0) = 1 /\ m + 0 = m
    BY PowerIs
  <2> QED BY <1>0, <2>1
<1>2. ASSUME NEW k \in 0 .. n - 1, k \in S PROVE k + 1 \in S
  <2>1. k \in Nat /\ k + 1 \in 0 .. n /\ m + k \in Nat /\ m + (k + 1) = (m + k) + 1
    OBVIOUS
  <2>2. Power(b, k + 1) = b * Power(b, k) /\ Power(b, (m + k) + 1) = b * Power(b, m + k)
    BY <2>1, PowerIs
  <2>3. Power(b, k) \in Nat \ {0}
    BY <2>1, PowerPositive
  <2>4. Power(b, m + k) = x * Power(b, k)
    BY <1>2
  <2> DEFINE y == Power(b, k)
  <2> HIDE DEF x, y
  <2>5. b * (x * y) = (b * x) * y /\ b * x = x * b /\ x * (b * y) = (x * b) * y
    BY <1>0, <2>3, Associates DEF y
  <2>6. Power(b, m + (k + 1)) = x * Power(b, k + 1)
    BY <2>1, <2>2, <2>4, <2>5 DEF y
  <2> QED BY <2>1, <2>6
<1> HIDE DEF S
<1>3. 0 .. n \subseteq S
  BY <1>1, <1>2, UpTo
<1> QED BY <1>3 DEF S

LEMMA TensAre ==
  /\ Pow10(0) = 1 /\ Pow10(1) = 10 /\ Pow10(2) = 100
  /\ \A n \in Nat : Pow10(n) \in Nat \ {0} /\ Pow10(n + 1) = 10 * Pow10(n)
<1>1. \A n \in Nat : Pow10(n) \in Nat \ {0} /\ Pow10(n + 1) = 10 * Pow10(n)
  BY PowerPositive, PowerIs DEF Pow10
<1>2. Pow10(0) = 1
  BY PowerIs DEF Pow10
<1>3. Pow10(0 + 1) = 10 * Pow10(0) /\ Pow10(1 + 1) = 10 * Pow10(1)
  BY <1>1
<1>4. 0 + 1 = 1 /\ 1 + 1 = 2
  OBVIOUS
<1> QED BY <1>1, <1>2, <1>3, <1>4

LEMMA TensAdd ==
  ASSUME NEW m \in Nat, NEW n \in Nat
  PROVE  Pow10(m + n) = Pow10(m) * Pow10(n)
BY PowerAdds DEF Pow10


\* Products keep an order.
LEMMA Multiplies ==
  ASSUME NEW c \in Nat \ {0}, NEW a \in Int, NEW b \in Int
  PROVE  /\ a <= b => c * a <= c * b /\ a * c <= b * c
         /\ a < b => c * a < c * b /\ a * c < b * c
<1>1. a <= b => c * a <= c * b
  OBVIOUS
<1>2. a < b => c * a < c * b
  OBVIOUS
<1>3. c * a = a * c /\ c * b = b * c
  BY Associates
<1> QED BY <1>1, <1>2, <1>3

LEMMA Distributes ==
  ASSUME NEW a \in Int, NEW b \in Int, NEW c \in Int
  PROVE  (a + b) * c = a * c + b * c /\ c * (a + b) = c * a + c * b
         /\ (a - b) * c = a * c - b * c
OBVIOUS

LEMMA NearestIs ==
  ASSUME NEW x \in Int, NEW y \in Int, NEW z \in Int
  PROVE  Nearest(x, y, z) <=> 2 * y - z < 2 * (x * z) /\ 2 * (x * z) <= 2 * y + z
<1>1. (2 * x) * z = 2 * (x * z)
  BY Associates
<1> QED BY <1>1 DEF Nearest

\* A number that is rounded may be scaled, and whole ones added to it.
LEMMA NearestScaled ==
  ASSUME NEW x \in Int, NEW y \in Int, NEW z \in Int, Nearest(x, y, z), NEW c \in Nat \ {0}
  PROVE  Nearest(x, y * c, z * c)
<1> DEFINE m == x * z
<1>1. m \in Int /\ y * c \in Int /\ z * c \in Int /\ m * c \in Int /\ x * (z * c) = m * c
  BY Associates
<1>2. 2 * y - z < 2 * m /\ 2 * m <= 2 * y + z
  BY NearestIs
<1> HIDE DEF m
<1>3. (2 * y - z) * c < (2 * m) * c /\ (2 * m) * c <= (2 * y + z) * c
  BY <1>1, <1>2, Multiplies
<1>4. /\ (2 * y - z) * c = 2 * (y * c) - z * c
      /\ (2 * y + z) * c = 2 * (y * c) + z * c
      /\ (2 * m) * c = 2 * (m * c)
  BY <1>1, Distributes, Associates
<1>5. 2 * (y * c) - z * c < 2 * (x * (z * c)) /\ 2 * (x * (z * c)) <= 2 * (y * c) + z * c
  BY <1>1, <1>3, <1>4
<1> QED BY <1>1, <1>5, NearestIs

LEMMA NearestShifted ==
  ASSUME NEW x \in Int, NEW y \in Int, NEW z \in Int, Nearest(x, y, z), NEW w \in Int
  PROVE  Nearest(w + x, w * z + y, z)
<1>1. (w + x) * z = w * z + x * z /\ w * z \in Int /\ x * z \in Int
  BY Distributes, Associates
<1>2. 2 * y - z < 2 * (x * z) /\ 2 * (x * z) <= 2 * y + z
  BY NearestIs
<1>3. 2 * (w * z + y) - z < 2 * ((w + x) * z) /\ 2 * ((w + x) * z) <= 2 * (w * z + y) + z
  BY <1>1, <1>2
<1>4. w + x \in Int /\ w * z + y \in Int
  BY <1>1
<1> QED BY <1>3, <1>4, NearestIs

\* A digit and what stands after it, cut off and rounded.
LEMMA DigitRounds ==
  ASSUME NEW unit \in Nat \ {0}, NEW q \in Nat, NEW last \in 0 .. 9, NEW s \in Nat, s < unit,
         NEW f, f = unit * (10 * q + last) + s,
         NEW r, r = q + IF last >= 5 THEN 1 ELSE 0
  PROVE  r \in Nat /\ Nearest(r, f, 10 * unit)
<1> DEFINE m == unit * q
           l == unit * last
<1>1. m \in Int /\ l \in Int /\ 10 * q \in Int /\ unit * (10 * q) = 10 * m
  BY Associates
<1>2. f = 10 * m + l + s
  <2>1. unit * (10 * q + last) = unit * (10 * q) + unit * last
    BY <1>1, Distributes
  <2> QED BY <1>1, <2>1
<1>3. /\ last >= 5 => unit * 5 <= l
      /\ last <= 4 => l <= unit * 4
      /\ l <= unit * 9 /\ 0 <= l
  <2>1. /\ last >= 5 => unit * 5 <= unit * last
        /\ last <= 4 => unit * last <= unit * 4
        /\ unit * last <= unit * 9 /\ unit * 0 <= unit * last
    BY Multiplies
  <2> QED BY <2>1
<1>4. r * (10 * unit) = IF last >= 5 THEN 10 * m + 10 * unit ELSE 10 * m
  <2>1. q * (10 * unit) = 10 * m
    BY Associates
  <2>2. (q + 1) * (10 * unit) = q * (10 * unit) + 10 * unit
    BY Distributes
  <2> HIDE DEF m
  <2> QED BY <2>1, <2>2
<1> HIDE DEF m, l
<1>5. f \in Int /\ r \in Int /\ 10 * unit \in Int
  BY <1>1, <1>2
<1>6. 2 * f - 10 * unit < 2 * (r * (10 * unit)) /\ 2 * (r * (10 * unit)) <= 2 * f + 10 * unit
  <2>1. CASE last >= 5
    BY <1>1, <1>2, <1>3, <1>4, <2>1
  <2>2. CASE ~(last >= 5)
    BY <1>1, <1>2, <1>3, <1>4, <2>2
  <2> QED BY <2>1, <2>2
<1> QED BY <1>5, <1>6, NearestIs

-----------------------------------------------------------------------------
(* Amounts: the conversions                                                *)

DecimalText(a) ==
    /\ a = Decimal(a.whole, a.frac, a.places)
    /\ a.whole \in Nat /\ a.places \in Nat /\ a.frac \in Nat /\ a.frac < Pow10(a.places)

\* toStroops() rounds a text of any length to a token of any decimals.
LEMMA StroopsRound ==
  ASSUME NEW a, DecimalText(a), NEW d \in Nat
  PROVE  /\ ToStroops(a, d) \in Nat
         /\ Nearest(ToStroops(a, d), Numerator(a) * Pow10(d), Pow10(a.places))
<1> DEFINE w == a.whole
           f == a.frac
           p == a.places
           tens == Pow10(d)
           scale == Pow10(p)
           kept == IF p >= d + 1 THEN f \div Pow10(p - (d + 1)) ELSE f * Pow10(d + 1 - p)
           last == kept % 10
           r == kept \div 10 + IF last >= 5 THEN 1 ELSE 0
<1>1. w \in Nat /\ p \in Nat /\ f \in Nat /\ tens \in Nat \ {0} /\ scale \in Nat \ {0}
  BY TensAre DEF DecimalText
<1>2. ToStroops(a, d) = w * tens + r /\ Numerator(a) = w * scale + f
  <2>1. ToStroops(a, d) = w * tens + kept \div 10 + IF last >= 5 THEN 1 ELSE 0
    BY DEF ToStroops
  <2>2. kept \in Nat
    <3>1. CASE p >= d + 1
      <4>1. p - (d + 1) \in Nat
        BY <1>1, <3>1
      <4>2. Pow10(p - (d + 1)) \in Nat \ {0}
        BY <4>1, TensAre
      <4> QED BY <1>1, <3>1, <4>2, DividesInto
    <3>2. CASE ~(p >= d + 1)
      <4>1. d + 1 - p \in Nat
        BY <1>1, <3>2
      <4>2. Pow10(d + 1 - p) \in Nat \ {0}
        BY <4>1, TensAre
      <4> QED BY <1>1, <3>2, <4>2
    <3> QED BY <3>1, <3>2
  <2>3. kept \div 10 \in Nat /\ w * tens \in Nat
    <3> HIDE DEF kept, w, tens
    <3>1. kept \div 10 \in Nat
      BY <2>2, DividesInto
    <3>2. w * tens \in Nat
      BY <1>1
    <3> QED BY <3>1, <3>2
  <2> HIDE DEF kept, w, tens
  <2>4. w * tens + kept \div 10 + (IF last >= 5 THEN 1 ELSE 0) = w * tens + r
    BY <2>3
  <2>5. Numerator(a) = w * scale + f
    BY DEF Numerator, w
  <2> QED BY <2>1, <2>4, <2>5
<1>3. r \in Nat /\ Nearest(r, f * tens, scale)
  <2>1. CASE p >= d + 1
    <3> DEFINE e == p - (d + 1)
               unit == Pow10(e)
               s == f % unit
               q == kept \div 10
    <3>1. e \in Nat /\ p = (1 + e) + d /\ e + 1 = 1 + e
      BY <1>1, <2>1
    <3>2. unit \in Nat \ {0}
      BY <3>1, TensAre
    <3>3. kept = f \div unit
      BY <2>1
    <3>4. kept \in Nat /\ s \in Nat /\ s < unit /\ f = unit * kept + s
      BY <1>1, <3>2, <3>3, DividesInto
    <3>5. q \in Nat /\ last \in 0 .. 9 /\ kept = 10 * q + last
      <4> HIDE DEF kept
      <4>1. kept \div 10 \in Nat /\ kept % 10 \in Nat /\ kept % 10 < 10
            /\ kept = 10 * (kept \div 10) + (kept % 10)
        BY <3>4, DividesInto
      <4>2. q \in Nat /\ last \in Nat /\ last < 10 /\ kept = 10 * q + last
        BY <4>1
      <4> HIDE DEF q, last
      <4> QED BY <4>2
    <3>6. scale = (10 * unit) * tens
      <4>1. Pow10((1 + e) + d) = Pow10(1 + e) * Pow10(d)
        <5>1. 1 + e \in Nat
          BY <3>1
        <5> QED BY <5>1, TensAdd
      <4>2. Pow10(1 + e) = 10 * Pow10(e)
        BY <3>1, TensAre
      <4> QED BY <3>1, <4>1, <4>2
    <3> HIDE DEF unit, s, last, kept
    <3>7. f = unit * (10 * q + last) + s
      BY <3>4, <3>5
    <3> HIDE DEF q, f
    <3>8. r = q + IF last >= 5 THEN 1 ELSE 0
      BY DEF q
    <3> HIDE DEF r
    <3>9. r \in Nat /\ Nearest(r, f, 10 * unit)
      BY <3>2, <3>4, <3>5, <3>7, <3>8, DigitRounds
    <3>10. r \in Int /\ f \in Int /\ 10 * unit \in Int
      BY <1>1, <3>2, <3>9
    <3> HIDE DEF tens, scale
    <3>11. Nearest(r, f * tens, (10 * unit) * tens)
      BY <1>1, <3>9, <3>10, NearestScaled
    <3> QED BY <3>6, <3>9, <3>11
  <2>2. CASE ~(p >= d + 1)
    <3> DEFINE e == d - p
               g == Pow10(e)
    <3>1. e \in Nat /\ d + 1 - p = e + 1 /\ d = e + p
      BY <1>1, <2>2
    <3>2. g \in Nat \ {0} /\ Pow10(e + 1) = 10 * g /\ tens = g * scale
      <4>1. Pow10(e + p) = Pow10(e) * Pow10(p)
        BY <1>1, <3>1, TensAdd
      <4> QED BY <3>1, <4>1, TensAre
    <3>3. f * (10 * g) = 10 * (f * g) /\ f * g \in Nat
      BY <1>1, <3>2, Associates
    <3>4. kept = 10 * (f * g) + 0
      BY <2>2, <3>1, <3>2, <3>3
    <3> HIDE DEF kept, g, f, tens, scale
    <3>5. kept \div 10 = f * g /\ last = 0
      BY <3>3, <3>4, QuotientOnly
    <3>6. r = f * g
      BY <3>3, <3>5
    <3>7. (f * g) * scale = f * tens
      BY <1>1, <3>2, Associates
    <3>8. f * tens \in Int /\ (f * g) \in Int /\ scale \in Int
      BY <1>1, <3>3, Associates
    <3>9. Nearest(f * g, f * tens, scale)
      <4>1. 2 * (f * tens) - scale < 2 * ((f * g) * scale)
            /\ 2 * ((f * g) * scale) <= 2 * (f * tens) + scale
        BY <1>1, <3>7, <3>8
      <4> QED BY <3>8, <4>1, NearestIs
    <3> HIDE DEF r
    <3> QED BY <3>3, <3>6, <3>9
  <2> QED BY <2>1, <2>2
<1> HIDE DEF r, w, f, tens, scale
<1>4. w * tens \in Int /\ f * tens \in Int /\ (w * tens) * scale = (w * scale) * tens
  <2>1. (w * tens) * scale = w * (tens * scale) /\ tens * scale = scale * tens
        /\ (w * scale) * tens = w * (scale * tens)
    BY <1>1, Associates
  <2> QED BY <1>1, <2>1, Associates
<1>5. Nearest(w * tens + r, (w * tens) * scale + f * tens, scale)
  <2>1. r \in Int /\ scale \in Int
    BY <1>1, <1>3
  <2> QED BY <1>3, <1>4, <2>1, NearestShifted
<1>6. (w * scale + f) * tens = (w * tens) * scale + f * tens
  <2>1. w * scale \in Int
    BY <1>1
  <2> QED BY <1>1, <1>4, <2>1, Distributes
<1>7. w * tens + r \in Nat
  <2>1. w * tens \in Nat
    BY <1>1
  <2> QED BY <1>3, <2>1
<1> QED BY <1>2, <1>5, <1>6, <1>7 DEF scale, tens

\* calculateRate() rounds to the nearest, for any number of seconds.
LEMMA RateRounds ==
  ASSUME NEW n \in Nat, NEW secs \in Nat \ {0}
  PROVE  Nearest(CalculateRate(n, secs), n, secs)
<1> DEFINE q == n \div secs
           m == q * secs
<1>1. q \in Nat /\ n % secs \in Nat /\ n % secs < secs /\ n = secs * q + (n % secs)
  BY DividesInto
<1>2. m \in Int /\ secs * q = m /\ (q + 1) * secs = m + secs /\ q \in Int
  <2> HIDE DEF q
  <2> QED BY <1>1, Associates, Distributes
<1>3. CalculateRate(n, secs) = IF (n - m) * 2 >= secs THEN q + 1 ELSE q
  BY DEF CalculateRate
<1> HIDE DEF m, q
<1>4. n - m \in Nat /\ n - m < secs
  BY <1>1, <1>2
<1>5. CASE (n - m) * 2 >= secs
  <2>1. 2 * n - secs < 2 * ((q + 1) * secs) /\ 2 * ((q + 1) * secs) <= 2 * n + secs
    BY <1>2, <1>4, <1>5
  <2>2. q + 1 \in Int /\ n \in Int /\ secs \in Int
    BY <1>2
  <2> QED BY <1>3, <1>5, <2>1, <2>2, NearestIs
<1>6. CASE ~((n - m) * 2 >= secs)
  <2>1. 2 * n - secs < 2 * (q * secs) /\ 2 * (q * secs) <= 2 * n + secs
    BY <1>2, <1>4, <1>6 DEF m
  <2>2. n \in Int /\ secs \in Int
    OBVIOUS
  <2> QED BY <1>2, <1>3, <1>6, <2>1, <2>2, NearestIs
<1> QED BY <1>5, <1>6


\* formatTokenAmount() rounds half up too, the carry into the whole part included.
LEMMA FormatRounds ==
  ASSUME NEW n \in Nat, NEW d \in Nat, NEW k \in Nat
  PROVE  LET shown == FormatTokenAmount(n, d, k)
         IN  Nearest(Numerator(shown), n * Pow10(k), Pow10(d)) /\ shown.frac < Pow10(k)
<1> DEFINE factor == Pow10(d)
           room == Pow10(k)
           whole == n \div factor
           rem == n % factor
           half == factor \div 2
           scaled == (rem * room + half) \div factor
           cut == (rem * room + half) % factor
           shown == FormatTokenAmount(n, d, k)
<1>1. factor \in Nat \ {0} /\ room \in Nat \ {0} /\ Pow10(0) = 1
  BY TensAre
<1>2. whole \in Nat /\ rem \in Nat /\ rem < factor /\ n = factor * whole + rem
  BY <1>1, DividesInto
<1>3. half \in Nat /\ (factor = 2 * half \/ factor = 2 * half + 1)
  <2> HIDE DEF factor
  <2>1. factor \div 2 \in Nat /\ factor % 2 \in Nat /\ factor % 2 < 2
        /\ factor = 2 * (factor \div 2) + (factor % 2)
    BY <1>1, DividesInto
  <2> DEFINE odd == factor % 2
  <2>2. half \in Nat /\ odd \in Nat /\ odd < 2 /\ factor = 2 * half + odd
    BY <2>1
  <2> HIDE DEF half, odd
  <2> QED BY <1>1, <2>2
<1>4. rem * room \in Nat
  <2> HIDE DEF rem, room
  <2> QED BY <1>1, <1>2
<1>5. scaled \in Nat /\ cut \in Nat /\ cut < factor /\ rem * room + half = factor * scaled + cut
  <2> DEFINE a == rem * room + half
  <2>1. a \in Nat
    <3> HIDE DEF rem, room, half
    <3> QED BY <1>3, <1>4
  <2> HIDE DEF a, factor
  <2>2. a \div factor \in Nat /\ a % factor \in Nat /\ a % factor < factor
        /\ a = factor * (a \div factor) + (a % factor)
    BY <1>1, <2>1, DividesInto
  <2> QED BY <2>2 DEF a
\* What is printed, as one number.
<1>6. /\ k = 0 => shown = Decimal(IF rem * 2 >= factor THEN whole + 1 ELSE whole, 0, 0)
      /\ k > 0 /\ scaled >= room => shown = Decimal(whole + 1, 0, k)
      /\ k > 0 /\ ~(scaled >= room) => shown = Decimal(whole, scaled, k)
  <2>1. shown = CASE k = 0 -> Decimal(IF rem * 2 >= factor THEN whole + 1 ELSE whole, 0, 0)
                  [] k > 0 /\ scaled >= room -> Decimal(whole + 1, 0, k)
                  [] OTHER -> Decimal(whole, scaled, k)
    BY DEF FormatTokenAmount
  <2> HIDE DEF shown, factor, room, rem, whole, scaled
  <2>2. CASE k = 0
    BY <2>1, <2>2
  <2>3. CASE k > 0 /\ scaled >= room
    BY <2>1, <2>3
  <2>4. CASE k > 0 /\ ~(scaled >= room)
    BY <2>1, <2>4
  <2>5. k = 0 \/ k > 0
    OBVIOUS
  <2> QED BY <2>2, <2>3, <2>4, <2>5
<1>7. shown.frac \in Nat /\ shown.frac < room
  <2> HIDE DEF shown, factor, room, whole, rem, scaled
  <2>1. k = 0 \/ (k > 0 /\ scaled >= room) \/ (k > 0 /\ ~(scaled >= room))
    OBVIOUS
  <2> QED BY <1>1, <1>5, <1>6, <2>1 DEF Decimal
<1>8. k > 0 /\ scaled >= room => scaled = room
  <2> SUFFICES ASSUME scaled >= room + 1 PROVE FALSE
    <3> HIDE DEF scaled, room
    <3> QED BY <1>1, <1>5
  <2>1. factor * (room + 1) <= factor * scaled /\ factor * (room + 1) = factor * room + factor
    <3> HIDE DEF factor, room, scaled
    <3> QED BY <1>1, <1>5, Multiplies, Distributes
  <2>2. rem * room <= factor * room
    <3> HIDE DEF factor, room, rem
    <3> QED BY <1>1, <1>2, Multiplies
  <2> DEFINE x == factor * room
             y == factor * scaled
             z == rem * room
  <2>3. x \in Int /\ y \in Int /\ z \in Nat
    <3> HIDE DEF factor, room, scaled, rem
    <3> QED BY <1>1, <1>4, <1>5
  <2>4. z <= x /\ x + factor <= y /\ z + half = y + cut
    BY <1>5, <2>1, <2>2
  <2> HIDE DEF x, y, z, half, cut, factor
  <2> QED BY <1>1, <1>3, <1>5, <2>3, <2>4
<1> DEFINE last == IF k = 0 THEN (IF rem * 2 >= factor THEN 1 ELSE 0) ELSE scaled
<1>9. last \in Nat /\ Numerator(shown) = whole * room + last
  <2>1. whole * 1 = whole /\ (whole + 1) * 1 = whole + 1 /\ (whole + 1) * room = whole * room + room
    <3> HIDE DEF whole, room
    <3> QED BY <1>1, <1>2, Distributes
  <2>2. whole * room \in Nat
    <3> HIDE DEF whole, room
    <3> QED BY <1>1, <1>2
  <2>3. Numerator(shown) = shown.whole * Pow10(shown.places) + shown.frac
    BY DEF Numerator
  <2>4. CASE k = 0
    <3>1. /\ shown.whole = IF rem * 2 >= factor THEN whole + 1 ELSE whole
          /\ shown.frac = 0 /\ shown.places = 0 /\ room = 1
      <4> HIDE DEF shown, factor, whole, rem
      <4> QED BY <1>1, <1>6, <2>4 DEF Decimal
    <3> HIDE DEF shown, factor, room, whole, rem
    <3> QED BY <1>1, <1>2, <2>1, <2>3, <2>4, <3>1
  <2>5. CASE k > 0 /\ scaled >= room
    <3>1. shown.whole = whole + 1 /\ shown.frac = 0 /\ shown.places = k /\ scaled = room
      <4> HIDE DEF shown, room, whole, scaled
      <4> QED BY <1>6, <1>8, <2>5 DEF Decimal
    <3>2. Numerator(shown) = (whole + 1) * room + 0
      <4> HIDE DEF shown, whole
      <4> QED BY <2>3, <3>1
    <3> HIDE DEF shown, factor, room, whole, rem, scaled
    <3> QED BY <1>1, <2>1, <2>2, <2>5, <3>1, <3>2
  <2>6. CASE k > 0 /\ ~(scaled >= room)
    <3>1. shown.whole = whole /\ shown.frac = scaled /\ shown.places = k
      <4> HIDE DEF shown, room, whole, scaled
      <4> QED BY <1>6, <2>6 DEF Decimal
    <3> HIDE DEF shown, factor, whole, rem, scaled
    <3> QED BY <1>5, <2>3, <2>6, <3>1
  <2> HIDE DEF shown, factor, room, whole, rem, scaled
  <2> QED BY <2>4, <2>5, <2>6
<1>10. Nearest(last, rem * room, factor)
  <2>1. CASE k = 0
    <3>1. room = 1 /\ rem * room = rem
      <4>1. rem * 1 = rem
        <5> HIDE DEF rem
        <5> QED BY <1>2
      <4> QED BY <1>1, <2>1, <4>1
    <3>2. last = IF rem * 2 >= factor THEN 1 ELSE 0
      BY <2>1
    <3>3. last \in Int /\ last * factor = IF rem * 2 >= factor THEN factor ELSE 0
      <4> HIDE DEF last, factor, rem
      <4> QED BY <1>1, <1>2, <3>2
    <3> HIDE DEF last, factor, rem, room
    <3>4. 2 * rem - factor < 2 * (last * factor) /\ 2 * (last * factor) <= 2 * rem + factor
      BY <1>1, <1>2, <3>3
    <3> QED BY <1>1, <1>2, <3>1, <3>3, <3>4, NearestIs
  <2>2. CASE k # 0
    <3>1. last = scaled
      BY <2>2
    <3>2. scaled * factor = factor * scaled /\ factor * scaled \in Int
      <4> HIDE DEF scaled, factor
      <4> QED BY <1>1, <1>5, Associates
    <3> DEFINE m == factor * scaled
               y == rem * room
    <3>3. m \in Int /\ y \in Int /\ y + half = m + cut /\ scaled * factor = m
      BY <1>4, <1>5, <3>2
    <3>4. cut \in Nat /\ cut < factor /\ scaled \in Int
      BY <1>5
    <3> HIDE DEF m, y, half, cut, factor, scaled, last
    <3>5. 2 * y - factor < 2 * (scaled * factor) /\ 2 * (scaled * factor) <= 2 * y + factor
      BY <1>1, <1>3, <3>3, <3>4
    <3> QED BY <1>1, <3>1, <3>3, <3>4, <3>5, NearestIs DEF y
  <2> QED BY <2>1, <2>2
<1> HIDE DEF last, shown, scaled, cut, half
<1>11. Nearest(whole * room + last, (whole * room) * factor + rem * room, factor)
  <2>1. whole * room \in Int
    <3> HIDE DEF whole, room
    <3> QED BY <1>1, <1>2
  <2> HIDE DEF whole, room, factor, rem
  <2>2. last \in Int /\ rem * room \in Int /\ factor \in Int
    BY <1>1, <1>4, <1>9
  <2> QED BY <1>10, <2>1, <2>2, NearestShifted
<1>12. n * room = (whole * room) * factor + rem * room
  <2> DEFINE m == factor * whole
  <2>0. n = m + rem /\ m \in Int
    <3>1. factor * whole \in Int
      <4> HIDE DEF factor, whole
      <4> QED BY <1>1, <1>2
    <3> QED BY <1>2, <3>1
  <2>1. (m + rem) * room = m * room + rem * room
    <3> HIDE DEF m, rem, room
    <3> QED BY <1>1, <1>2, <2>0, Distributes
  <2>2. (factor * whole) * room = (whole * room) * factor
    <3> HIDE DEF factor, whole, room
    <3>1. factor * (whole * room) = (factor * whole) * room /\ whole * room \in Int
      BY <1>1, <1>2, Associates
    <3>2. factor * (whole * room) = (whole * room) * factor
      BY <1>1, <3>1, Associates
    <3> QED BY <3>1, <3>2
  <2>3. n * room = (m + rem) * room
    BY <2>0
  <2> QED BY <2>1, <2>2, <2>3 DEF m
<1>13. Nearest(Numerator(shown), n * room, factor)
  <2> HIDE DEF whole, rem, room, factor
  <2> QED BY <1>9, <1>11, <1>12
<1> QED BY <1>7, <1>13 DEF shown, room, factor

\* The digits that are left of a fraction, and those that went.
LEMMA TrimmedIs ==
  ASSUME NEW frac \in Nat, NEW places \in Nat \ {0}
  PROVE  LET t == Trimmed(frac, places)
         IN  /\ t.places \in 1 .. places /\ t.frac \in Nat
             /\ frac = Pow10(places - t.places) * t.frac
<1> DEFINE P(p) == frac % Pow10(places - p) = 0
           E == {p \in 1 .. places : P(p)}
<1>1. ASSUME NEW p \in 1 .. places
      PROVE  places - p \in Nat /\ Pow10(places - p) \in Nat \ {0}
  <2>1. places - p \in Nat
    OBVIOUS
  <2> QED BY <2>1, TensAre
<1>2. E # {}
  <2>1. places \in 1 .. places /\ places - places = 0
    OBVIOUS
  <2>2. frac % 1 = 0
    <3>1. frac = 1 * frac + 0
      OBVIOUS
    <3> QED BY <3>1, QuotientOnly
  <2> QED BY <2>1, <2>2, TensAre
<1>3. PICK least \in E : \A p \in E : least <= p
  <2>1. E \in SUBSET Nat
    OBVIOUS
  <2> HIDE DEF E
  <2> QED BY <1>2, <2>1, LeastOf
<1>4. least \in 1 .. places /\ P(least)
  OBVIOUS
<1>5. least > 1 => frac % Pow10(places - least + 1) # 0
  <2> SUFFICES ASSUME least > 1, frac % Pow10(places - least + 1) = 0 PROVE FALSE
    OBVIOUS
  <2>1. least - 1 \in 1 .. places /\ places - (least - 1) = places - least + 1
    BY <1>4
  <2>2. least - 1 \in E
    BY <2>1
  <2> QED BY <1>3, <1>4, <2>2
<1> DEFINE end == CHOOSE p \in 1 .. places : P(p) /\ (p > 1 => frac % Pow10(places - p + 1) # 0)
<1>6. end \in 1 .. places /\ P(end)
  <2> HIDE DEF P
  <2> QED BY <1>4, <1>5
<1>7. Trimmed(frac, places) = [frac |-> frac \div Pow10(places - end), places |-> end]
  BY DEF Trimmed
<1> HIDE DEF end, E
<1> DEFINE unit == Pow10(places - end)
<1>8. unit \in Nat \ {0} /\ frac % unit = 0
  BY <1>1, <1>6
<1> HIDE DEF unit, P
<1>9. frac \div unit \in Nat /\ frac = unit * (frac \div unit)
  <2>1. frac \div unit \in Nat /\ frac = unit * (frac \div unit) + (frac % unit)
    BY <1>8, DividesInto
  <2>2. unit * (frac \div unit) \in Int
    BY <1>8, <2>1
  <2> QED BY <1>8, <2>1, <2>2
<1>10. Trimmed(frac, places) = [frac |-> frac \div unit, places |-> end]
  BY <1>7 DEF unit
<1> QED BY <1>6, <1>9, <1>10 DEF unit

\* What fromStroops() prints reads back as the same amount.
LEMMA ReadsBack ==
  ASSUME NEW n \in Nat, NEW d \in Nat
  PROVE  ToStroops(FromStroops(n, d), d) = n
<1> DEFINE factor == Pow10(d)
           rem == n % factor
           places == IF d = 0 THEN 1 ELSE d
           t == Trimmed(rem, places)
           a == FromStroops(n, d)
<1>1. factor \in Nat \ {0}
  BY TensAre
<1>2. n \div factor \in Nat /\ rem \in Nat /\ rem < factor /\ n = factor * (n \div factor) + rem
  BY <1>1, DividesInto
<1>3. places \in Nat \ {0}
  OBVIOUS
<1>4. a = Decimal(n \div factor, t.frac, t.places)
  <2>1. (IF n < 0 THEN -n ELSE n) = n
    OBVIOUS
  <2> QED BY <2>1 DEF FromStroops
<1>5. t.places \in 1 .. places /\ t.frac \in Nat /\ rem = Pow10(places - t.places) * t.frac
  <2> HIDE DEF rem, places
  <2> QED BY <1>2, <1>3, TrimmedIs
<1> HIDE DEF t
<1>6. a.whole = n \div factor /\ a.frac = t.frac /\ a.places = t.places
  <2> HIDE DEF a
  <2> QED BY <1>4 DEF Decimal
<1> HIDE DEF a
<1> DEFINE kept == IF a.places >= d + 1 THEN a.frac \div Pow10(a.places - (d + 1))
                   ELSE a.frac * Pow10(d + 1 - a.places)
           last == kept % 10
<1>7. ToStroops(a, d) = a.whole * factor + kept \div 10 + IF last >= 5 THEN 1 ELSE 0
  BY DEF ToStroops
<1>8. kept = 10 * rem + 0
  <2>1. CASE d = 0
    <3>1. factor = 1 /\ places = 1
      BY <2>1, TensAre
    <3>2. rem = 0 /\ t.places = 1
      <4>1. t.places \in 1 .. 1
        BY <1>5, <3>1
      <4>2. rem = 0
        <5> HIDE DEF rem
        <5> QED BY <1>2, <3>1
      <4> QED BY <4>1, <4>2
    <3>3. Pow10(places - t.places) = 1
      <4>1. places - t.places = 0
        BY <3>1, <3>2
      <4> QED BY <4>1, TensAre
    <3>4. t.frac = 0
      <4> HIDE DEF rem
      <4>1. 0 = 1 * t.frac
        BY <1>5, <3>2, <3>3
      <4> QED BY <1>5, <4>1
    <3>5. kept = 0 \div 1
      <4>1. a.places >= d + 1 /\ a.places - (d + 1) = 0
        BY <1>6, <2>1, <3>2
      <4> QED BY <1>6, <3>4, <4>1, TensAre
    <3>6. 0 \div 1 = 0
      OBVIOUS
    <3> HIDE DEF kept, rem
    <3> QED BY <3>2, <3>5, <3>6
  <2>2. CASE d # 0
    <3> DEFINE e == d - t.places
               g == Pow10(e)
    <3>1. places = d /\ e \in Nat /\ ~(t.places >= d + 1) /\ d + 1 - t.places = e + 1
      BY <1>5, <2>2
    <3>2. g \in Nat \ {0} /\ Pow10(e + 1) = 10 * g
      BY <3>1, TensAre
    <3>3. rem = g * t.frac
      BY <1>5, <3>1
    <3>4. kept = t.frac * (10 * g)
      BY <1>6, <3>1, <3>2
    <3> HIDE DEF g, kept, rem
    <3>5. t.frac * (10 * g) = 10 * (g * t.frac) /\ g * t.frac \in Int
      BY <1>5, <3>2, Associates
    <3> QED BY <3>3, <3>4, <3>5
  <2> QED BY <2>1, <2>2
<1>9. kept \div 10 = rem /\ last = 0
  <2> HIDE DEF kept, rem
  <2> QED BY <1>2, <1>8, QuotientOnly
<1> HIDE DEF kept, last
<1>10. a.whole * factor = factor * (n \div factor)
  <2> HIDE DEF factor
  <2> QED BY <1>1, <1>2, <1>6, Associates
<1> DEFINE m == factor * (n \div factor)
<1>11. m \in Int /\ n = m + rem /\ a.whole * factor = m
  <2>1. factor * (n \div factor) \in Int
    <3> HIDE DEF factor
    <3> QED BY <1>1, <1>2
  <2> QED BY <1>2, <1>10, <2>1
<1>12. ToStroops(a, d) = m + rem + 0
  <2> HIDE DEF m, rem
  <2> QED BY <1>7, <1>9, <1>11
<1> HIDE DEF m, rem
<1> QED BY <1>2, <1>11, <1>12 DEF a


-----------------------------------------------------------------------------
(* Amounts: durations                                                      *)

Unit == {"d", "h", "m", "s"}

LEMMA UnitsAre ==
  /\ DOMAIN UnitSeconds = Unit
  /\ UnitSeconds["d"] = 86400 /\ UnitSeconds["h"] = 3600
  /\ UnitSeconds["m"] = 60 /\ UnitSeconds["s"] = 1
  /\ \A u \in Unit : UnitSeconds[u] \in Nat \ {0}
BY DEF UnitSeconds, Unit

\* What the parts of a duration add up to, one after the other.
LEMMA SumUnrolls ==
  ASSUME NEW parts, Len(parts) \in Nat
  PROVE  \E sum : /\ SumOfParts(parts) = sum[Len(parts)]
                  /\ sum[0] = 0
                  /\ \A i \in 1 .. Len(parts) :
                        sum[i] = sum[i - 1] + parts[i][1] * UnitSeconds[parts[i][2]]
<1> DEFINE n == Len(parts)
           Def(g, i) == IF i = 0 THEN 0 ELSE g[i - 1] + parts[i][1] * UnitSeconds[parts[i][2]]
           T == {m \in Nat : \E g : g = [i \in 0 .. m |-> Def(g, i)]}
           It == CHOOSE g : g = [i \in 0 .. n |-> Def(g, i)]
<1>1. SumOfParts(parts) = It[n]
  BY DEF SumOfParts
<1>2. 0 \in T
  <2>1. 0 .. 0 = {0}
    OBVIOUS
  <2>2. [i \in {0} |-> 0] = [i \in {0} |-> Def([j \in {0} |-> 0], i)]
    OBVIOUS
  <2> QED BY <2>1, <2>2
<1>3. ASSUME NEW m \in 0 .. n - 1, m \in T PROVE m + 1 \in T
  <2>1. PICK g : g = [i \in 0 .. m |-> Def(g, i)]
    BY <1>3
  <2> DEFINE g2 == [i \in 0 .. m + 1 |-> Def(g, i)]
  <2>2. ASSUME NEW i \in 0 .. m + 1 PROVE Def(g, i) = Def(g2, i)
    <3>1. CASE i = 0
      BY <3>1
    <3>2. CASE i # 0
      <4>1. i - 1 \in 0 .. m /\ i - 1 \in 0 .. m + 1
        BY <3>2
      <4>2. g[i - 1] = Def(g, i - 1) /\ g2[i - 1] = Def(g, i - 1)
        <5> HIDE DEF Def
        <5> QED BY <2>1, <4>1
      <4>3. g[i - 1] = g2[i - 1]
        BY <4>2
      <4> HIDE DEF g2
      <4> QED BY <3>2, <4>3
    <3> QED BY <3>1, <3>2
  <2>3. g2 = [i \in 0 .. m + 1 |-> Def(g2, i)]
    <3> HIDE DEF Def
    <3> QED BY <2>2
  <2> HIDE DEF Def, g2
  <2> QED BY <2>3
<1>4. n \in T
  <2> HIDE DEF T
  <2>1. 0 .. n \subseteq T
    BY <1>2, <1>3, UpTo
  <2> QED BY <2>1
<1>5. It = [i \in 0 .. n |-> Def(It, i)]
  <2> HIDE DEF Def
  <2> QED BY <1>4
<1> HIDE DEF It
<1>6. It[0] = 0
  BY <1>5
<1>7. ASSUME NEW i \in 1 .. n PROVE It[i] = It[i - 1] + parts[i][1] * UnitSeconds[parts[i][2]]
  <2>1. i \in 0 .. n /\ i # 0
    OBVIOUS
  <2>2. It[i] = Def(It, i)
    <3> HIDE DEF Def
    <3> QED BY <1>5, <2>1
  <2> QED BY <2>1, <2>2
<1> QED BY <1>1, <1>6, <1>7

LEMMA SumIsNatural ==
  ASSUME NEW parts \in Seq(Nat \X Unit)
  PROVE  SumOfParts(parts) \in Nat
<1> DEFINE n == Len(parts)
<1>1. n \in Nat /\ \A i \in 1 .. n : parts[i][1] \in Nat /\ parts[i][2] \in Unit
  OBVIOUS
<1>2. PICK sum : /\ SumOfParts(parts) = sum[n] /\ sum[0] = 0
                 /\ \A i \in 1 .. n : sum[i] = sum[i - 1] + parts[i][1] * UnitSeconds[parts[i][2]]
  BY <1>1, SumUnrolls
<1> HIDE DEF n
<1> DEFINE S == {i \in 0 .. n : sum[i] \in Nat}
<1>3. 0 \in S
  BY <1>1, <1>2
<1>4. ASSUME NEW i \in 0 .. n - 1, i \in S PROVE i + 1 \in S
  <2>1. i + 1 \in 1 .. n /\ i + 1 \in 0 .. n /\ (i + 1) - 1 = i
    BY <1>1
  <2> DEFINE x == parts[i + 1][1]
             y == UnitSeconds[parts[i + 1][2]]
  <2>2. sum[i + 1] = sum[i] + x * y /\ sum[i] \in Nat
    BY <1>2, <1>4, <2>1
  <2>3. x \in Nat /\ y \in Nat
    BY <1>1, <2>1, UnitsAre
  <2> HIDE DEF x, y
  <2>4. x * y \in Nat
    BY <2>3
  <2> QED BY <2>1, <2>2, <2>4
<1> HIDE DEF S
<1>5. 0 .. n \subseteq S
  BY <1>1, <1>3, <1>4, UpTo
<1> QED BY <1>1, <1>2, <1>5 DEF S

LEMMA SumOfFew ==
  ASSUME NEW x \in Nat, NEW u \in Unit, NEW y \in Nat, NEW v \in Unit
  PROVE  /\ SumOfParts(<<<<x, u>>>>) = x * UnitSeconds[u]
         /\ SumOfParts(<<<<x, u>>, <<y, v>>>>) = x * UnitSeconds[u] + y * UnitSeconds[v]
<1>0. x * UnitSeconds[u] \in Int /\ y * UnitSeconds[v] \in Int
  BY UnitsAre, Associates
<1>1. SumOfParts(<<<<x, u>>>>) = x * UnitSeconds[u]
  <2> DEFINE parts == <<<<x, u>>>>
  <2>1. Len(parts) = 1 /\ parts[1][1] = x /\ parts[1][2] = u
    OBVIOUS
  <2> HIDE DEF parts
  <2>2. PICK sum : /\ SumOfParts(parts) = sum[Len(parts)] /\ sum[0] = 0
                   /\ \A i \in 1 .. Len(parts) :
                         sum[i] = sum[i - 1] + parts[i][1] * UnitSeconds[parts[i][2]]
    BY <2>1, SumUnrolls
  <2>3. sum[1] = sum[1 - 1] + x * UnitSeconds[u] /\ 1 - 1 = 0
    BY <2>1, <2>2
  <2>4. SumOfParts(parts) = x * UnitSeconds[u]
    BY <1>0, <2>1, <2>2, <2>3
  <2> QED BY <2>4 DEF parts
<1>2. SumOfParts(<<<<x, u>>, <<y, v>>>>) = x * UnitSeconds[u] + y * UnitSeconds[v]
  <2> DEFINE parts == <<<<x, u>>, <<y, v>>>>
  <2>1. /\ Len(parts) = 2 /\ parts[1][1] = x /\ parts[1][2] = u
        /\ parts[2][1] = y /\ parts[2][2] = v
    OBVIOUS
  <2> HIDE DEF parts
  <2>2. PICK sum : /\ SumOfParts(parts) = sum[Len(parts)] /\ sum[0] = 0
                   /\ \A i \in 1 .. Len(parts) :
                         sum[i] = sum[i - 1] + parts[i][1] * UnitSeconds[parts[i][2]]
    BY <2>1, SumUnrolls
  <2>3. sum[1] = sum[1 - 1] + x * UnitSeconds[u] /\ 1 - 1 = 0
    BY <2>1, <2>2
  <2>4. sum[2] = sum[2 - 1] + y * UnitSeconds[v] /\ 2 - 1 = 1
    BY <2>1, <2>2
  <2>5. SumOfParts(parts) = x * UnitSeconds[u] + y * UnitSeconds[v]
    BY <1>0, <2>1, <2>2, <2>3, <2>4
  <2> QED BY <2>5 DEF parts
<1> QED BY <1>1, <1>2

\* The four ways a duration is written.
LEMMA ByUnit ==
  ASSUME NEW secs \in Nat, NEW one, NEW minutes, NEW hours, NEW days
  PROVE  (CASE secs < 60 -> one
           [] secs >= 60 /\ secs < 3600 -> minutes
           [] secs >= 3600 /\ secs < 86400 -> hours
           [] OTHER -> days)
         = IF secs < 60 THEN one ELSE IF secs < 3600 THEN minutes
           ELSE IF secs < 86400 THEN hours ELSE days
<1>1. CASE secs < 60
  BY <1>1
<1>2. CASE ~(secs < 60) /\ secs < 3600
  BY <1>2
<1>3. CASE ~(secs < 3600) /\ secs < 86400
  BY <1>3
<1>4. CASE ~(secs < 86400)
  BY <1>4
<1> QED BY <1>1, <1>2, <1>3, <1>4

\* One sequence after the other.
LEMMA JoinsAre ==
  ASSUME NEW S, NEW s \in Seq(S), NEW t \in Seq(S)
  PROVE  /\ s \o t \in Seq(S) /\ Len(s \o t) = Len(s) + Len(t)
         /\ \A i \in 1 .. Len(s) + Len(t) :
               (s \o t)[i] = IF i <= Len(s) THEN s[i] ELSE t[i - Len(s)]
OBVIOUS

LEMMA PairJoins ==
  ASSUME NEW x, NEW y
  PROVE  <<x>> \o <<y>> = <<x, y>>
<1> DEFINE S == {x, y}
           s == <<x>>
           t == <<y>>
           z == s \o t
<1>1. s \in Seq(S) /\ t \in Seq(S) /\ Len(s) = 1 /\ Len(t) = 1 /\ s[1] = x /\ t[1] = y
  OBVIOUS
<1> HIDE DEF s, t, S
<1>2. /\ z \in Seq(S) /\ Len(z) = Len(s) + Len(t)
      /\ \A i \in 1 .. Len(s) + Len(t) : z[i] = IF i <= Len(s) THEN s[i] ELSE t[i - Len(s)]
  BY <1>1, JoinsAre
<1> HIDE DEF z
<1>3. Len(z) = 2 /\ \A i \in 1 .. 2 : z[i] = IF i <= 1 THEN s[i] ELSE t[i - 1]
  BY <1>1, <1>2
<1>4. z[1] = x
  BY <1>1, <1>3
<1>5. z[2] = y
  <2>1. z[2] = t[2 - 1] /\ 2 - 1 = 1
    BY <1>3
  <2> QED BY <1>1, <2>1
<1>6. z = <<x, y>>
  <2>1. z \in Seq(S) /\ Len(z) = 2 /\ z[1] = x /\ z[2] = y
    BY <1>2, <1>3, <1>4, <1>5
  <2> QED BY <2>1
<1> QED BY <1>6 DEF z, s, t

LEMMA AloneJoins ==
  ASSUME NEW x
  PROVE  <<x>> \o <<>> = <<x>>
<1> DEFINE s == <<x>>
           e == <<>>
           z2 == s \o e
<1>1. s \in Seq({x}) /\ Len(s) = 1 /\ s[1] = x /\ e \in Seq({x}) /\ Len(e) = 0
  OBVIOUS
<1>5. z2 \in Seq({x}) /\ Len(z2) = 1 /\ z2[1] = x
  <2> HIDE DEF s, e
  <2>1. 1 \in 1 .. 1 + 0 /\ 1 <= 1
    OBVIOUS
  <2> QED BY <1>1, <2>1, JoinsAre
<1>6. z2 = <<x>>
  <2> HIDE DEF z2
  <2> QED BY <1>5
<1> QED BY <1>6

\* A number of seconds in two units, and what is below the second.
TwoUnits(secs, big, small) ==
    LET rest == (secs % UnitSeconds[big]) \div UnitSeconds[small]
    IN  <<<<secs \div UnitSeconds[big], big>>>> \o IF rest > 0 THEN <<<<rest, small>>>> ELSE <<>>

LEMMA TwoUnitsAre ==
  ASSUME NEW secs \in Nat, NEW big \in Unit, NEW small \in Unit
  PROVE  /\ TwoUnits(secs, big, small) # <<>>
         /\ SumOfParts(TwoUnits(secs, big, small)) \in Nat
         /\ SumOfParts(TwoUnits(secs, big, small)) <= secs
         /\ secs - SumOfParts(TwoUnits(secs, big, small)) < UnitSeconds[small]
<1> DEFINE b == UnitSeconds[big]
           s == UnitSeconds[small]
           q == secs \div b
           left == secs % b
           rest == left \div s
           lost == left % s
           parts == TwoUnits(secs, big, small)
<1>1. b \in Nat \ {0} /\ s \in Nat \ {0}
  BY UnitsAre
<1>2. q \in Nat /\ left \in Nat /\ secs = b * q + left
  <2> HIDE DEF b
  <2> QED BY <1>1, DividesInto
<1>3. rest \in Nat /\ lost \in Nat /\ lost < s /\ left = s * rest + lost
  <2> HIDE DEF s, left
  <2> QED BY <1>1, <1>2, DividesInto
<1>4. parts = <<<<q, big>>>> \o IF rest > 0 THEN <<<<rest, small>>>> ELSE <<>>
  BY DEF TwoUnits
<1> HIDE DEF q, left, rest, lost, parts
<1>5. parts = IF rest > 0 THEN <<<<q, big>>, <<rest, small>>>> ELSE <<<<q, big>>>>
  <2> DEFINE one == <<q, big>>
             two == <<rest, small>>
  <2>1. parts = <<one>> \o IF rest > 0 THEN <<two>> ELSE <<>>
    BY <1>4
  <2>2. <<one>> \o <<two>> = <<one, two>> /\ <<one>> \o <<>> = <<one>>
    BY PairJoins, AloneJoins
  <2>3. parts = IF rest > 0 THEN <<one, two>> ELSE <<one>>
    <3> HIDE DEF one, two
    <3>1. CASE rest > 0
      BY <2>1, <2>2, <3>1
    <3>2. CASE ~(rest > 0)
      BY <2>1, <2>2, <3>2
    <3> QED BY <3>1, <3>2
  <2> QED BY <2>3
<1>6. /\ SumOfParts(<<<<q, big>>>>) = q * b
      /\ SumOfParts(<<<<q, big>>, <<rest, small>>>>) = q * b + rest * s
  BY <1>2, <1>3, SumOfFew
<1> HIDE DEF b, s
<1>7. q * b = b * q /\ rest * s = s * rest /\ q * b \in Nat /\ rest * s \in Nat
  BY <1>1, <1>2, <1>3, Associates
<1>8. SumOfParts(parts) = q * b + rest * s
  <2>1. CASE rest > 0
    BY <1>5, <1>6, <2>1
  <2>2. CASE ~(rest > 0)
    <3>1. rest = 0
      BY <1>3, <2>2
    <3>2. rest * s = 0
      BY <1>1, <3>1
    <3>3. SumOfParts(parts) = q * b
      BY <1>5, <1>6, <2>2
    <3> QED BY <1>7, <3>2, <3>3
  <2> QED BY <2>1, <2>2
<1>9. parts # <<>>
  BY <1>5
<1> DEFINE m == q * b
           l == rest * s
<1>10. m \in Nat /\ l \in Nat /\ secs = m + left /\ left = l + lost /\ SumOfParts(parts) = m + l
  BY <1>2, <1>3, <1>7, <1>8
<1> HIDE DEF m, l
<1>11. SumOfParts(parts) \in Nat /\ SumOfParts(parts) <= secs /\ secs - SumOfParts(parts) < s
  BY <1>1, <1>2, <1>3, <1>10
<1> QED BY <1>9, <1>11 DEF parts, s

\* formatDuration() loses less than its second unit.
LEMMA DurationsAre ==
  ASSUME NEW secs \in Nat
  PROVE  LET again == ParseDuration(FormatDuration(secs), 0, 0)
         IN  /\ again \in 0 .. secs
             /\ \E u \in DOMAIN UnitSeconds :
                   /\ secs - again < UnitSeconds[u]
                   /\ u = "s" \/ secs >= UnitSeconds[u]
<1> DEFINE parts == FormatDuration(secs)
           again == ParseDuration(parts, 0, 0)
<1>1. parts = IF secs < 60 THEN <<<<secs, "s">>>>
              ELSE IF secs < 3600 THEN TwoUnits(secs, "m", "s")
              ELSE IF secs < 86400 THEN TwoUnits(secs, "h", "m")
              ELSE TwoUnits(secs, "d", "h")
  <2> DEFINE one == <<<<secs, "s">>>>
             minutes == TwoUnits(secs, "m", "s")
             hours == TwoUnits(secs, "h", "m")
             days == TwoUnits(secs, "d", "h")
  <2>1. parts = CASE secs < 60 -> one
                  [] secs >= 60 /\ secs < 3600 -> minutes
                  [] secs >= 3600 /\ secs < 86400 -> hours
                  [] OTHER -> days
    BY DEF FormatDuration, TwoUnits
  <2> HIDE DEF parts, one, minutes, hours, days
  <2>2. parts = IF secs < 60 THEN one ELSE IF secs < 3600 THEN minutes
                ELSE IF secs < 86400 THEN hours ELSE days
    BY <2>1, ByUnit
  <2> QED BY <2>2 DEF one, minutes, hours, days
<1> HIDE DEF parts
<1>2. Unit = {"d", "h", "m", "s"}
  BY DEF Unit
<1>3. CASE secs < 60
  <2>1. parts = <<<<secs, "s">>>> /\ parts # <<>>
    BY <1>1, <1>3
  <2>2. SumOfParts(parts) = secs * UnitSeconds["s"]
    BY <1>2, <2>1, SumOfFew
  <2>3. SumOfParts(parts) = secs
    BY <2>2, UnitsAre
  <2>4. again = secs
    BY <2>1, <2>3 DEF ParseDuration
  <2>5. "s" \in DOMAIN UnitSeconds /\ secs - again < UnitSeconds["s"]
    BY <1>2, <2>4, UnitsAre
  <2> QED BY <2>4, <2>5 DEF parts
<1>4. ASSUME NEW big \in Unit, NEW small \in Unit, parts = TwoUnits(secs, big, small),
             secs >= UnitSeconds[small]
      PROVE  /\ again \in 0 .. secs
             /\ \E u \in DOMAIN UnitSeconds :
                   /\ secs - again < UnitSeconds[u]
                   /\ u = "s" \/ secs >= UnitSeconds[u]
  <2>1. /\ parts # <<>> /\ SumOfParts(parts) \in Nat /\ SumOfParts(parts) <= secs
        /\ secs - SumOfParts(parts) < UnitSeconds[small]
    BY <1>4, TwoUnitsAre
  <2>2. again = SumOfParts(parts)
    BY <2>1 DEF ParseDuration
  <2> HIDE DEF again
  <2> QED BY <1>4, <2>1, <2>2, UnitsAre
<1>5. CASE ~(secs < 60)
  <2>1. CASE secs < 3600
    <3>1. parts = TwoUnits(secs, "m", "s") /\ secs >= UnitSeconds["s"]
      BY <1>1, <1>5, <2>1, UnitsAre
    <3> QED BY <1>2, <1>4, <3>1 DEF parts
  <2>2. CASE ~(secs < 3600) /\ secs < 86400
    <3>1. parts = TwoUnits(secs, "h", "m") /\ secs >= UnitSeconds["m"]
      BY <1>1, <1>5, <2>2, UnitsAre
    <3> QED BY <1>2, <1>4, <3>1 DEF parts
  <2>3. CASE ~(secs < 86400)
    <3>1. parts = TwoUnits(secs, "d", "h") /\ secs >= UnitSeconds["h"]
      BY <1>1, <1>5, <2>3, UnitsAre
    <3> QED BY <1>2, <1>4, <3>1 DEF parts
  <2> QED BY <2>1, <2>2, <2>3
<1> QED BY <1>3, <1>5


-----------------------------------------------------------------------------
(* Amounts: the two halves of an i128                                      *)

HalvesOK ==
    /\ halves = <<halves[1], halves[2]>>
    /\ halves[1] \in -Power(2, Width - 1) .. Power(2, Width - 1) - 1
    /\ halves[2] \in 0 .. Power(2, Width) - 1

LEMMA HalvesAre ==
  /\ Power(2, Width - 1) \in Nat \ {0} /\ Power(2, Width) \in Nat \ {0}
  /\ Power(2, 2 * Width - 1) = Power(2, Width - 1) * Power(2, Width)
<1>1. Width \in Nat /\ Width - 1 \in Nat /\ 2 * Width - 1 = (Width - 1) + Width /\ 2 \in Nat \ {0}
  BY AmountAssumption
<1>2. Power(2, (Width - 1) + Width) = Power(2, Width - 1) * Power(2, Width)
  BY <1>1, PowerAdds
<1> QED BY <1>1, <1>2, PowerPositive

\* A high half within its range and a low half make one number within its own,
\* and the high half has its sign.
LEMMA HalvesMakeOne ==
  ASSUME NEW A \in Nat \ {0}, NEW B \in Nat \ {0}, NEW high \in -A .. A - 1, NEW low \in 0 .. B - 1
  PROVE  /\ high * B + low \in -(A * B) .. A * B - 1
         /\ high * B + low < 0 <=> high < 0
<1>1. high * B \in Int /\ (-A) * B = -(A * B) /\ (A - 1) * B = A * B - B /\ A * B \in Int
  BY Associates, Distributes
<1>2. (-A) * B <= high * B /\ high * B <= (A - 1) * B
  BY Multiplies
<1>3. high * B + low \in -(A * B) .. A * B - 1
  BY <1>1, <1>2
<1>4. CASE high < 0
  <2>1. high <= -1 /\ high * B <= (-1) * B /\ (-1) * B = -B
    BY <1>4, Multiplies
  <2> QED BY <1>1, <1>3, <1>4, <2>1
<1>5. CASE ~(high < 0)
  <2>1. 0 * B <= high * B /\ 0 * B = 0
    BY <1>5, Multiplies
  <2> QED BY <1>1, <1>3, <1>5, <2>1
<1> QED BY <1>3, <1>4, <1>5

LEMMA HalvesExact ==
  ASSUME HalvesOK
  PROVE  /\ ScValToI128(halves) \in -Power(2, 2 * Width - 1) .. Power(2, 2 * Width - 1) - 1
         /\ (ScValToI128(halves) < 0) = (halves[1] < 0)
<1> DEFINE A == Power(2, Width - 1)
           B == Power(2, Width)
           high == halves[1]
           low == halves[2]
<1>1. /\ A \in Nat \ {0} /\ B \in Nat \ {0} /\ high \in -A .. A - 1 /\ low \in 0 .. B - 1
      /\ Power(2, 2 * Width - 1) = A * B /\ ScValToI128(halves) = high * B + low
  BY HalvesAre DEF HalvesOK, ScValToI128
<1> HIDE DEF A, B, high, low
<1>2. /\ high * B + low \in -(A * B) .. A * B - 1
      /\ high * B + low < 0 <=> high < 0
  BY <1>1, HalvesMakeOne
<1> QED BY <1>1, <1>2 DEF high

-----------------------------------------------------------------------------
(* Amounts: what has been converted, and from what                         *)

AmountInv ==
    /\ DecimalText(entered) /\ decimals \in Nat
    /\ stroops # None0 => stroops = ToStroops(entered, decimals)
    /\ printed.places > 0 => stroops # None0 /\ printed = FromStroops(stroops, decimals)
    /\ duration \in Seq(Nat \X Unit)
    /\ seconds # None0 => seconds \in Nat
    /\ HalvesOK

LEMMA TextsAre ==
  ASSUME NEW a \in Texts
  PROVE  DecimalText(a)
<1>0. PICK k \in 0 .. MaxPlaces : a \in {Decimal(w, f, k) : w \in 0 .. MaxWhole, f \in 0 .. Pow10(k) - 1}
  BY DEF Texts
<1>1. PICK w \in 0 .. MaxWhole, f \in 0 .. Pow10(k) - 1 : a = Decimal(w, f, k)
  BY <1>0
<1>2. k \in Nat /\ w \in Nat
  BY AmountAssumption
<1>3. Pow10(k) \in Nat \ {0}
  BY <1>2, TensAre
<1>4. f \in Nat /\ f < Pow10(k)
  BY <1>3
<1>5. a.whole = w /\ a.frac = f /\ a.places = k
  BY <1>1 DEF Decimal
<1> QED BY <1>1, <1>2, <1>4, <1>5 DEF DecimalText

LEMMA DurationTextsAre ==
  ASSUME NEW t \in DurationTexts
  PROVE  t \in Seq(Nat \X Unit)
<1>1. Part \subseteq Nat \X Unit
  BY AmountAssumption, UnitsAre DEF Part
<1>2. CASE t \in {<<p>> : p \in Part}
  <2>1. PICK p \in Part : t = <<p>>
    BY <1>2
  <2> QED BY <1>1, <2>1
<1>3. CASE t \in Part \X Part
  <2>1. PICK p \in Part, q \in Part : t = <<p, q>>
    BY <1>3
  <2> QED BY <1>1, <2>1
<1> QED BY <1>2, <1>3 DEF DurationTexts

LEMMA InitAmount == AmountInit => AmountInv
<1> SUFFICES ASSUME AmountInit PROVE AmountInv
  OBVIOUS
<1>1. DecimalText(Decimal(0, 0, 0))
  BY TensAre DEF DecimalText, Decimal
<1>2. DecimalText(entered) /\ decimals \in Nat
  BY <1>1, TextsAre, AmountAssumption DEF AmountInit
<1>3. duration \in Seq(Nat \X Unit)
  <2>1. CASE duration = <<>>
    BY <2>1
  <2>2. CASE duration \in DurationTexts
    BY <2>2, DurationTextsAre
  <2> QED BY <2>1, <2>2 DEF AmountInit
<1>4. stroops = None0 /\ seconds = None0 /\ ~(printed.places > 0)
  BY DEF AmountInit, Decimal
<1>5. HalvesOK
  <2> DEFINE A == Power(2, Width - 1)
             B == Power(2, Width)
  <2>1. A \in Nat \ {0} /\ B \in Nat \ {0} /\ halves = <<-A, 0>>
    BY HalvesAre DEF AmountInit
  <2> HIDE DEF A, B
  <2>2. -A \in -A .. A - 1 /\ 0 \in 0 .. B - 1
    BY <2>1
  <2>3. halves[1] = -A /\ halves[2] = 0
    BY <2>1
  <2> QED BY <2>1, <2>2, <2>3 DEF HalvesOK, A, B
<1> QED BY <1>2, <1>3, <1>4, <1>5 DEF AmountInv

LEMMA CountingKeepsHalves == HalvesOK /\ LedgerCounts => HalvesOK'
<1> SUFFICES ASSUME HalvesOK, LedgerCounts PROVE HalvesOK'
  OBVIOUS
<1> DEFINE A == Power(2, Width - 1)
           B == Power(2, Width)
           high == halves[1]
           low == halves[2]
<1>1. A \in Nat \ {0} /\ B \in Nat \ {0} /\ high \in -A .. A - 1 /\ low \in 0 .. B - 1
  BY HalvesAre DEF HalvesOK
<1>2. high < A - 1 \/ low < B - 1
  BY DEF LedgerCounts
<1>3. halves' = IF low = B - 1 THEN <<high + 1, 0>> ELSE <<high, low + 1>>
  BY DEF LedgerCounts
<1> HIDE DEF A, B, high, low
<1>4. \E h \in -A .. A - 1, l \in 0 .. B - 1 : halves' = <<h, l>>
  <2>1. CASE low = B - 1
    <3>1. high + 1 \in -A .. A - 1 /\ 0 \in 0 .. B - 1
      BY <1>1, <1>2, <2>1
    <3> QED BY <1>3, <2>1, <3>1
  <2>2. CASE low # B - 1
    <3>1. low + 1 \in 0 .. B - 1
      BY <1>1, <2>2
    <3> QED BY <1>1, <1>3, <2>2, <3>1
  <2> QED BY <2>1, <2>2
<1>5. /\ halves' = <<halves'[1], halves'[2]>>
      /\ halves'[1] \in -A .. A - 1 /\ halves'[2] \in 0 .. B - 1
  BY <1>4
<1> QED BY <1>5 DEF HalvesOK, A, B

LEMMA StepKeepsAmount == AmountInv /\ [AmountNext]_amountVars => AmountInv'
<1> SUFFICES ASSUME AmountInv, [AmountNext]_amountVars PROVE AmountInv'
  OBVIOUS
<1> USE DEF AmountInv
<1>1. CASE Convert
  <2>1. DecimalText(entered)' /\ HalvesOK'
    BY <1>1 DEF Convert, DecimalText, HalvesOK
  <2> QED BY <1>1, <2>1 DEF Convert
<1>2. CASE Show
  <2>1. DecimalText(entered)' /\ HalvesOK'
    BY <1>2 DEF Show, DecimalText, HalvesOK
  <2> QED BY <1>2, <2>1 DEF Show
<1>3. CASE ReadDuration
  <2>1. DecimalText(entered)' /\ HalvesOK'
    BY <1>3 DEF ReadDuration, DecimalText, HalvesOK
  <2>2. seconds' # None0 => seconds' \in Nat
    BY <1>3, SumIsNatural DEF ReadDuration, ParseDuration
  <2> QED BY <1>3, <2>1, <2>2 DEF ReadDuration
<1>4. CASE LedgerCounts
  <2>1. DecimalText(entered)'
    BY <1>4 DEF LedgerCounts, DecimalText
  <2> QED BY <1>4, <2>1, CountingKeepsHalves DEF LedgerCounts
<1>5. CASE UNCHANGED amountVars
  <2>1. DecimalText(entered)' /\ HalvesOK'
    BY <1>5 DEF amountVars, DecimalText, HalvesOK
  <2> QED BY <1>5, <2>1 DEF amountVars
<1> QED BY <1>1, <1>2, <1>3, <1>4, <1>5 DEF AmountNext

LEMMA InvGivesExact == AmountInv => AmountsExact
<1> SUFFICES ASSUME AmountInv PROVE AmountsExact
  OBVIOUS
<1>1. ASSUME stroops # None0
      PROVE  stroops \in Nat /\ Nearest(stroops, Numerator(entered) * Pow10(decimals), Pow10(entered.places))
  BY <1>1, StroopsRound DEF AmountInv
<1>2. ASSUME stroops # None0, NEW secs \in 1 .. 3 PROVE Nearest(CalculateRate(stroops, secs), stroops, secs)
  BY <1>1, <1>2, RateRounds
<1>3. ASSUME stroops # None0, NEW k \in 0 .. 2
      PROVE  LET shown == FormatTokenAmount(stroops, decimals, k)
             IN  /\ Nearest(Numerator(shown), stroops * Pow10(k), Pow10(decimals))
                 /\ shown.frac < Pow10(k)
  BY <1>1, <1>3, FormatRounds DEF AmountInv
<1>4. printed.places > 0 => ToStroops(printed, decimals) = stroops
  BY <1>1, ReadsBack DEF AmountInv
<1>5. ASSUME seconds # None0
      PROVE  LET again == ParseDuration(FormatDuration(seconds), 0, 0)
             IN  /\ again \in 0 .. seconds
                 /\ \E u \in DOMAIN UnitSeconds :
                       /\ seconds - again < UnitSeconds[u]
                       /\ u = "s" \/ seconds >= UnitSeconds[u]
  BY <1>5, DurationsAre DEF AmountInv
<1>6. /\ ScValToI128(halves) \in -Power(2, 2 * Width - 1) .. Power(2, 2 * Width - 1) - 1
      /\ (ScValToI128(halves) < 0) = (halves[1] < 0)
  BY HalvesExact DEF AmountInv
<1> QED BY <1>1, <1>2, <1>3, <1>4, <1>5, <1>6 DEF AmountsExact

\* Whatever is entered, for a token of any decimals, is rounded to the nearest
\* unit and nowhere else; what is printed reads back as the same amount; a duration
\* loses less than its second unit; the two halves of an i128 are one number.
THEOREM AmountsAlwaysExact == AmountSpec => []AmountsExact
<1>1. AmountSpec => []AmountInv
  BY InitAmount, StepKeepsAmount, PTL DEF AmountSpec
<1> QED BY <1>1, InvGivesExact, PTL

-----------------------------------------------------------------------------
(* The circuit of an endpoint                                              *)


\* withRetry() sleeps only when a retry is left, so attempts stay within bounds.
SleepsToRetry == \A c \in Call : pc[c] = "sleeping" => attempt[c] < MaxRetries

CircuitInv == TypeOK /\ CountMatchesState /\ ListenersKnow /\ SleepsToRetry

USE CircuitAssumption

\* The two bounds of failureCount are thresholds, in order.
LEMMA Bounds == Cap \in Nat \ {0} /\ Low \in Nat \ {0} /\ Low <= Cap
  BY DEF Cap, Low

\* Every circuit starts closed, without failures, as listeners assume.
LEMMA InitInv == Init => CircuitInv
  BY Bounds DEF Init, CircuitInv, TypeOK, CountMatchesState, ListenersKnow, States,
     SleepsToRetry

\* What an operation on the entry has to keep: the part of the invariant that
\* speaks of the entry only.
EntryInv ==
    /\ state \in States
    /\ failureCount \in 0 .. Cap
    /\ cooldown \in 0 .. CooldownTicks
    /\ notified \in States
    /\ CountMatchesState
    /\ ListenersKnow

\* getCircuitState() keeps the entry consistent: becoming half-open is told.
LEMMA GetCircuitStateKeeps ==
  ASSUME EntryInv, GetCircuitState PROVE EntryInv'
  BY Bounds DEF EntryInv, GetCircuitState, Current, States, CountMatchesState, ListenersKnow

\* recordSuccess() keeps the entry consistent from every state.
LEMMA RecordSuccessKeeps ==
  ASSUME EntryInv, RecordSuccess PROVE EntryInv'
  BY Bounds DEF EntryInv, RecordSuccess, Current, States, CountMatchesState, ListenersKnow

\* recordFailure() keeps the entry consistent under both kinds' thresholds.
LEMMA RecordFailureKeeps ==
  ASSUME EntryInv, NEW threshold \in {BreakerThreshold, ProxyThreshold},
         RecordFailure(threshold)
  PROVE  EntryInv'
<1> DEFINE opens == Current = "half-open" \/ failureCount + 1 >= threshold
<1>0. Low <= threshold /\ threshold <= Cap /\ threshold \in Nat \ {0}
  BY DEF Cap, Low
<1>1. CASE opens
  <2>1. state' = "open" /\ cooldown' = CooldownTicks
    BY <1>1 DEF RecordFailure
  <2>2. failureCount' \in 0 .. Cap /\ failureCount' >= Low
    BY <1>0, <1>1, Bounds DEF RecordFailure, EntryInv, Current, CountMatchesState, States
  <2>3. notified' = "open"
    BY <2>1, <1>1 DEF RecordFailure, EntryInv, ListenersKnow, Current
  <2> QED
    BY <2>1, <2>2, <2>3 DEF EntryInv, States, CountMatchesState, ListenersKnow
<1>2. CASE ~opens
  <2>1. Current = state /\ state # "half-open"
    BY <1>2 DEF Current
  <2>2. state' = state /\ cooldown' = cooldown /\ notified' = notified
    BY <1>2, <2>1 DEF RecordFailure
  <2>3. failureCount' = failureCount + 1 /\ failureCount' < threshold
    BY <1>0, <1>2, Bounds DEF RecordFailure, EntryInv
  <2> QED
    BY <1>0, <2>1, <2>2, <2>3, Bounds DEF EntryInv, States, CountMatchesState, ListenersKnow
<1> QED BY <1>1, <1>2

\* Every step of the clock, the application and the calls keeps the invariant.
LEMMA NextInv == CircuitInv /\ [Next]_vars => CircuitInv'
<1> DEFINE CallsOK == /\ pc \in [Call -> {"idle", "running", "sleeping"}]
                      /\ attempt \in [Call -> 0 .. MaxRetries]
                      /\ admitted \in [Call -> States]
                      /\ SleepsToRetry
<1> SUFFICES ASSUME CircuitInv, [Next]_vars PROVE CircuitInv'
  OBVIOUS
<1>0. EntryInv /\ CallsOK
  BY DEF CircuitInv, EntryInv, TypeOK
<1>1. ASSUME UNCHANGED callVars PROVE CallsOK'
  BY <1>0, <1>1 DEF callVars, SleepsToRetry
<1>2. ASSUME NEW c \in Call, Return(c) PROVE CallsOK'
  BY <1>0, <1>2 DEF Return, SleepsToRetry
<1>3. Current \in States
  BY <1>0 DEF EntryInv, Current, States
<1> SUFFICES EntryInv' /\ CallsOK'
  BY DEF CircuitInv, EntryInv, TypeOK
<1>4. CASE Tick
  BY <1>0, <1>1, <1>4 DEF Tick, EntryInv, CountMatchesState, ListenersKnow
<1>5. CASE Poll
  BY <1>0, <1>1, <1>5, GetCircuitStateKeeps DEF Poll
<1>6. CASE ResetCircuit
  BY <1>0, <1>1, <1>6, Bounds
     DEF ResetCircuit, EntryInv, States, CountMatchesState, ListenersKnow
<1>7. ASSUME NEW c \in Call, Start(c) PROVE EntryInv' /\ CallsOK'
  <2>1. EntryInv'
    BY <1>0, <1>7, GetCircuitStateKeeps DEF Start
  <2>2. CallsOK'
    BY <1>0, <1>3, <1>7 DEF Start, SleepsToRetry
  <2> QED BY <2>1, <2>2
<1>8. CASE UNCHANGED vars
  BY <1>0, <1>1, <1>8
     DEF vars, entryVars, callVars, EntryInv, CountMatchesState, ListenersKnow
<1>9. ASSUME NEW c \in Call, FailFast(c) PROVE EntryInv' /\ CallsOK'
  BY <1>8, <1>9 DEF FailFast
<1>10. ASSUME NEW b \in BreakerCall, BreakerResponds(b) \/ BreakerTimesOut(b)
       PROVE  EntryInv' /\ CallsOK'
  BY <1>0, <1>2, <1>10, RecordSuccessKeeps, RecordFailureKeeps
     DEF BreakerResponds, BreakerTimesOut, Call
<1>11. ASSUME NEW p \in ProxyCall, ProxySucceeds(p) \/ ProxyFails(p)
       PROVE  EntryInv' /\ CallsOK'
  BY <1>0, <1>2, <1>11, RecordSuccessKeeps, RecordFailureKeeps
     DEF ProxySucceeds, ProxyFails, Call
<1>12. ASSUME NEW p \in ProxyCall, ProxyRateLimited(p) PROVE EntryInv' /\ CallsOK'
  <2>1. EntryInv'
    BY <1>0, <1>12 DEF ProxyRateLimited, entryVars, EntryInv, CountMatchesState, ListenersKnow
  <2>2. CallsOK'
    BY <1>0, <1>12 DEF ProxyRateLimited, SleepsToRetry, Call
  <2> QED BY <2>1, <2>2
<1>13. ASSUME NEW p \in ProxyCall, ProxyRetries(p) PROVE EntryInv' /\ CallsOK'
  <2>1. EntryInv'
    BY <1>0, <1>13 DEF ProxyRetries, entryVars, EntryInv, CountMatchesState, ListenersKnow
  <2>2. CallsOK'
    BY <1>0, <1>13 DEF ProxyRetries, SleepsToRetry, Call
  <2> QED BY <2>1, <2>2
<1> QED
  BY <1>4, <1>5, <1>6, <1>7, <1>8, <1>9, <1>10, <1>11, <1>12, <1>13 DEF Next

\* The circuit entry is well typed in every reachable state.
THEOREM CircuitTypeCorrect == Spec => []TypeOK
<1>1. CircuitInv => TypeOK
  BY DEF CircuitInv
<1> QED BY InitInv, NextInv, <1>1, PTL DEF Spec

\* The circuit and its failure counter agree, and only an open circuit cools
\* down, for any number of calls of both kinds and any two thresholds.
THEOREM CountAlwaysMatches == Spec => []CountMatchesState
<1>1. CircuitInv => CountMatchesState
  BY DEF CircuitInv
<1> QED BY InitInv, NextInv, <1>1, PTL DEF Spec

\* Listeners always know the state of the circuit.
THEOREM ListenersAlwaysKnow == Spec => []ListenersKnow
<1>1. CircuitInv => ListenersKnow
  BY DEF CircuitInv
<1> QED BY InitInv, NextInv, <1>1, PTL DEF Spec
=============================================================================
