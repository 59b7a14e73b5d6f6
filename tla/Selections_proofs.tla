-------------------------- MODULE Selections_proofs --------------------------
(***************************************************************************)
(* What the other proofs need of positions: induction over them, least     *)
(* and greatest ones, and the selections of Selections, which are          *)
(* ascending, whole, and stable while a set grows at its end.              *)
(***************************************************************************)
EXTENDS Selections, SequenceTheorems, FiniteSetTheorems, WellFoundedInduction, TLAPS

\* The library's induction, of a set instead of a formula.
LEMMA UpTo ==
  ASSUME NEW n \in Nat, NEW S, 0 \in S, \A k \in 0 .. n - 1 : k \in S => k + 1 \in S
  PROVE  0 .. n \subseteq S
<1> DEFINE R == {ss \in Nat \X Nat : ss[1] < ss[2]}
           T == (0 .. n) \ S
<1> SUFFICES ASSUME T # {} PROVE FALSE
  OBVIOUS
<1>1. IsWellFoundedOn(R, Nat) /\ T \subseteq Nat /\ T # {}
  BY NatLessThanWellFounded DEF OpToRel
<1>2. PICK x \in T : \A y \in T : ~(<<y, x>> \in R)
  <2> HIDE DEF R, T
  <2> QED BY <1>1, WFMin
<1>3. x \in 1 .. n /\ x - 1 \in 0 .. n - 1 /\ (x - 1) + 1 = x
  OBVIOUS
<1>4. x - 1 \in T /\ <<x - 1, x>> \in R
  BY <1>3
<1> QED BY <1>2, <1>4

\* A set of naturals has a least element.
LEMMA LeastOf ==
  ASSUME NEW S \in SUBSET Nat, S # {}
  PROVE  \E x \in S : \A y \in S : x <= y
<1> DEFINE R == {ss \in Nat \X Nat : ss[1] < ss[2]}
<1>1. IsWellFoundedOn(R, Nat)
  BY NatLessThanWellFounded DEF OpToRel
<1>2. PICK x \in S : \A y \in S : ~(<<y, x>> \in R)
  <2> HIDE DEF R
  <2> QED BY <1>1, WFMin
<1>3. \A y \in S : y \in Nat
  OBVIOUS
<1>4. \A y \in S : ~(y < x)
  BY <1>2, <1>3
<1> QED BY <1>3, <1>4

-----------------------------------------------------------------------------
(* Ranks                                                                   *)

\* How many numbers of a set are below one.
Below(S, i) == {j \in S : j < i}
Rank(S, i) == Cardinality(Below(S, i))

LEMMA BelowIs ==
  ASSUME NEW S, NEW i
  PROVE  \A j : j \in Below(S, i) <=> j \in S /\ j < i
BY DEF Below

LEMMA RankIs ==
  ASSUME NEW S \in SUBSET Nat, IsFiniteSet(S), NEW i \in Nat
  PROVE  /\ Rank(S, i) \in Nat /\ Cardinality(S) \in Nat /\ Rank(S, i) <= Cardinality(S)
         /\ i \in S => Rank(S, i) < Cardinality(S)
         /\ IsFiniteSet(Below(S, i))
<1>1. /\ IsFiniteSet(Below(S, i)) /\ Cardinality(Below(S, i)) <= Cardinality(S)
      /\ Cardinality(Below(S, i)) \in Nat /\ Cardinality(S) \in Nat
  <2>1. Below(S, i) \subseteq S
    BY DEF Below
  <2> QED BY <2>1, FS_Subset, FS_CardinalityType
<1>2. i \in S => Cardinality(Below(S, i)) # Cardinality(S)
  <2> SUFFICES ASSUME i \in S PROVE Cardinality(Below(S, i)) < Cardinality(S)
    BY <1>1
  <2>1. Below(S, i) \subseteq S /\ Below(S, i) # S
    BY DEF Below
  <2> QED BY <2>1, FS_Subset, <1>1
<1> QED BY <1>1, <1>2 DEF Rank

LEMMA RankGrows ==
  ASSUME NEW S \in SUBSET Nat, IsFiniteSet(S), NEW i \in S, NEW j \in Nat, i < j
  PROVE  Rank(S, i) < Rank(S, j)
<1>1. /\ IsFiniteSet(Below(S, i)) /\ IsFiniteSet(Below(S, j))
      /\ Rank(S, i) \in Nat /\ Rank(S, j) \in Nat
  BY RankIs
<1>0. \A x \in S : x \in Nat
  OBVIOUS
<1>2. Below(S, i) \subseteq Below(S, j) /\ i \in Below(S, j) /\ i \notin Below(S, i)
  <2>1. \A x \in S : x < i => x < j
    BY <1>0
  <2>2. ~(i < i)
    BY <1>0
  <2> QED BY <2>1, <2>2, BelowIs
<1>3. Cardinality(Below(S, i)) <= Cardinality(Below(S, j))
      /\ Cardinality(Below(S, i)) # Cardinality(Below(S, j))
  BY <1>1, <1>2, FS_Subset
<1> QED BY <1>1, <1>3 DEF Rank

\* The next rank belongs to the next number.
LEMMA NextRank ==
  ASSUME NEW S \in SUBSET Nat, IsFiniteSet(S), NEW i \in S, Rank(S, i) + 1 < Cardinality(S)
  PROVE  \E j \in S : Rank(S, j) = Rank(S, i) + 1
<1> DEFINE above == {j \in S : j > i}
<1>0. \A x \in S : x \in Nat
  OBVIOUS
<1>1. IsFiniteSet(Below(S, i)) /\ Rank(S, i) \in Nat /\ Cardinality(S) \in Nat
  BY RankIs
<1>2. i \notin Below(S, i)
  BY DEF Below
<1>3. /\ IsFiniteSet(Below(S, i) \cup {i})
      /\ Cardinality(Below(S, i) \cup {i}) = Rank(S, i) + 1
  BY <1>1, <1>2, FS_AddElement DEF Rank
<1>4. above # {}
  <2>1. ASSUME above = {} PROVE S = Below(S, i) \cup {i}
    <3>1. \A x \in S : x < i \/ x = i
      BY <1>0, <2>1
    <3> QED BY <3>1, BelowIs
  <2> HIDE DEF above
  <2> QED BY <1>1, <1>3, <2>1
<1>5. PICK j \in above : \A k \in above : j <= k
  BY <1>4, LeastOf
<1>6. Below(S, j) = Below(S, i) \cup {i}
  <2>1. \A x \in S : x < j <=> x < i \/ x = i
    BY <1>0, <1>5
  <2> QED BY <2>1, BelowIs
<1> QED BY <1>3, <1>5, <1>6 DEF Rank

\* Every rank is that of one number, which Nth() finds.
LEMMA NthIs ==
  ASSUME NEW S \in SUBSET Nat, IsFiniteSet(S), NEW k \in 1 .. Cardinality(S)
  PROVE  Nth(S, k) \in S /\ Rank(S, Nth(S, k)) = k - 1
<1>1. Cardinality(S) \in Nat
  BY FS_CardinalityType
<1> DEFINE T == {r \in Nat : r < Cardinality(S) => \E i \in S : Rank(S, i) = r}
<1>2. 0 \in T
  <2> SUFFICES ASSUME 0 < Cardinality(S) PROVE \E i \in S : Rank(S, i) = 0
    OBVIOUS
  <2>1. S # {}
    BY FS_EmptySet
  <2>2. PICK i \in S : \A y \in S : i <= y
    BY <2>1, LeastOf
  <2>3. Below(S, i) = {}
    <3>1. \A x \in S : x \in Nat
      OBVIOUS
    <3>2. \A x \in S : ~(x < i)
      BY <2>2, <3>1
    <3> QED BY <3>2, BelowIs
  <2> QED BY <2>3, FS_EmptySet DEF Rank
<1>3. ASSUME NEW r \in 0 .. k - 1 - 1, r \in T PROVE r + 1 \in T
  <2> SUFFICES ASSUME r + 1 < Cardinality(S) PROVE \E j \in S : Rank(S, j) = r + 1
    OBVIOUS
  <2>1. PICK i \in S : Rank(S, i) = r
    BY <1>1, <1>3
  <2> QED BY <2>1, NextRank
<1>4. k - 1 \in T
  <2> HIDE DEF T
  <2>1. 0 .. k - 1 \subseteq T
    BY <1>2, <1>3, UpTo
  <2> QED BY <2>1
<1>5. \E i \in S : Rank(S, i) = k - 1
  BY <1>1, <1>4
<1> QED BY <1>5 DEF Nth, Rank, Below

\* A number of a set is the one of its rank.
LEMMA NthOfRank ==
  ASSUME NEW S \in SUBSET Nat, IsFiniteSet(S), NEW i \in S
  PROVE  Rank(S, i) + 1 \in 1 .. Cardinality(S) /\ Nth(S, Rank(S, i) + 1) = i
<1>1. Rank(S, i) \in Nat /\ Rank(S, i) < Cardinality(S) /\ Cardinality(S) \in Nat
  BY RankIs
<1> DEFINE k == Rank(S, i) + 1
           n == Nth(S, k)
<1>2. k \in 1 .. Cardinality(S) /\ k - 1 = Rank(S, i)
  BY <1>1
<1>3. n \in S /\ Rank(S, n) = k - 1
  BY <1>2, NthIs
<1> HIDE DEF n, k
<1>4. n = i
  <2>1. CASE n < i
    BY <1>1, <1>2, <1>3, <2>1, RankGrows
  <2>2. CASE i < n
    BY <1>1, <1>2, <1>3, <2>2, RankGrows
  <2> QED BY <1>3, <2>1, <2>2
<1> QED BY <1>2, <1>4 DEF n, k

\* A selection ascends and holds each number of its set.
LEMMA NthAscends ==
  ASSUME NEW S \in SUBSET Nat, IsFiniteSet(S)
  PROVE  /\ Cardinality(S) \in Nat
         /\ \A k \in 1 .. Cardinality(S) : Nth(S, k) \in S
         /\ \A j, k \in 1 .. Cardinality(S) : j < k => Nth(S, j) < Nth(S, k)
         /\ \A i \in S : \E k \in 1 .. Cardinality(S) : Nth(S, k) = i
<1>1. Cardinality(S) \in Nat
  BY FS_CardinalityType
<1>2. \A k \in 1 .. Cardinality(S) : Nth(S, k) \in S /\ Rank(S, Nth(S, k)) = k - 1
  BY NthIs
<1>3. ASSUME NEW j \in 1 .. Cardinality(S), NEW k \in 1 .. Cardinality(S), j < k
      PROVE  Nth(S, j) < Nth(S, k)
  <2> DEFINE a == Nth(S, j)
             b == Nth(S, k)
  <2>1. a \in S /\ b \in S /\ Rank(S, a) = j - 1 /\ Rank(S, b) = k - 1
    BY <1>2
  <2> HIDE DEF a, b
  <2>2. CASE b < a
    <3>1. Rank(S, b) < Rank(S, a)
      BY <2>1, <2>2, RankGrows
    <3> QED BY <1>1, <1>3, <2>1, <3>1
  <2>3. CASE b = a
    BY <1>1, <1>3, <2>1, <2>3
  <2>4. a \in Nat /\ b \in Nat
    BY <2>1
  <2> QED BY <2>2, <2>3, <2>4 DEF a, b
<1>4. \A i \in S : \E k \in 1 .. Cardinality(S) : Nth(S, k) = i
  BY NthOfRank
<1> QED BY <1>1, <1>2, <1>3, <1>4

\* What is added behind a set does not move the numbers it holds.
LEMMA NthStable ==
  ASSUME NEW S \in SUBSET Nat, NEW T \in SUBSET Nat, IsFiniteSet(T), S \subseteq T,
         \A i \in S : \A j \in T : j < i => j \in S
  PROVE  /\ IsFiniteSet(S) /\ Cardinality(S) <= Cardinality(T)
         /\ \A k \in 1 .. Cardinality(S) : Nth(T, k) = Nth(S, k)
<1>1. IsFiniteSet(S) /\ Cardinality(S) <= Cardinality(T)
  BY FS_Subset
<1>2. Cardinality(S) \in Nat /\ Cardinality(T) \in Nat
  BY <1>1, FS_CardinalityType
<1>3. ASSUME NEW k \in 1 .. Cardinality(S) PROVE Nth(T, k) = Nth(S, k)
  <2> DEFINE i == Nth(S, k)
  <2>1. i \in S /\ Rank(S, i) = k - 1
    BY <1>1, NthIs
  <2> HIDE DEF i
  <2>2. Below(T, i) = Below(S, i)
    BY <2>1 DEF Below
  <2>3. Rank(T, i) + 1 = k
    BY <2>1, <2>2 DEF Rank
  <2>4. i \in T
    BY <2>1
  <2> QED BY <2>3, <2>4, NthOfRank DEF i
<1> QED BY <1>1, <1>3

\* The first numbers of a set: those below one of its members, or all.
FirstOnes(S, n) == {i \in S : Rank(S, i) < n}

LEMMA FirstOnesIs ==
  ASSUME NEW S \in SUBSET Nat, IsFiniteSet(S), NEW n \in Nat
  PROVE  /\ FirstOnes(S, n) \subseteq S /\ IsFiniteSet(FirstOnes(S, n))
         /\ \A i \in FirstOnes(S, n) : \A j \in S : j < i => j \in FirstOnes(S, n)
         /\ Cardinality(FirstOnes(S, n)) = IF n < Cardinality(S) THEN n ELSE Cardinality(S)
         /\ n >= Cardinality(S) => FirstOnes(S, n) = S
<1> DEFINE F == FirstOnes(S, n)
           m == Cardinality(F)
           c == Cardinality(S)
<1>1. F \subseteq S /\ IsFiniteSet(F) /\ m \in Nat /\ c \in Nat /\ m <= c
  <2>1. F \subseteq S
    BY DEF FirstOnes
  <2> QED BY <2>1, FS_Subset, FS_CardinalityType
<1>2. ASSUME NEW i \in F, NEW j \in S, j < i PROVE j \in F
  <2>1. i \in S /\ Rank(S, i) < n
    BY DEF FirstOnes
  <2>2. Rank(S, j) < Rank(S, i) /\ Rank(S, j) \in Nat /\ Rank(S, i) \in Nat
    BY <1>2, <2>1, RankGrows, RankIs
  <2> QED BY <2>1, <2>2 DEF FirstOnes
<1>3. \A k \in 1 .. m : Nth(S, k) = Nth(F, k)
  <2> HIDE DEF F
  <2> QED BY <1>1, <1>2, NthStable
<1>4. m <= n
  <2> SUFFICES ASSUME m # 0 PROVE m <= n
    BY <1>1
  <2>1. m \in 1 .. m /\ m \in 1 .. c
    BY <1>1
  <2>2. Nth(S, m) \in F
    <3> HIDE DEF F
    <3> QED BY <1>1, <1>3, <2>1, NthAscends
  <2>3. Rank(S, Nth(S, m)) < n
    BY <2>2 DEF FirstOnes
  <2>4. Rank(S, Nth(S, m)) = m - 1
    <3> HIDE DEF F, m
    <3> QED BY <2>1, NthIs
  <2> QED BY <1>1, <2>3, <2>4
<1>5. n >= c => F = S
  <2> SUFFICES ASSUME n >= c PROVE \A i \in S : i \in F
    BY <1>1
  <2> SUFFICES ASSUME NEW i \in S PROVE i \in F
    OBVIOUS
  <2>1. Rank(S, i) < c /\ Rank(S, i) \in Nat
    BY RankIs
  <2> QED BY <1>1, <2>1 DEF FirstOnes
<1>6. ASSUME n < c PROVE m >= n
  <2> SUFFICES ASSUME m < n PROVE FALSE
    BY <1>1
  <2> DEFINE x == Nth(S, m + 1)
  <2>1. m + 1 \in 1 .. c /\ (m + 1) - 1 = m
    BY <1>1, <1>6
  <2>2. x \in S /\ Rank(S, x) = m
    <3> HIDE DEF F, m
    <3> QED BY <2>1, NthIs
  <2> HIDE DEF x
  <2>3. x \in F
    BY <1>1, <2>2 DEF FirstOnes
  <2>4. PICK k \in 1 .. m : Nth(F, k) = x
    <3> HIDE DEF F
    <3> QED BY <1>1, <2>3, NthAscends
  <2>5. k \in 1 .. c /\ Rank(S, x) = k - 1
    <3>1. Nth(S, k) = x
      BY <1>3, <2>4
    <3>2. k \in 1 .. c
      BY <1>1
    <3> HIDE DEF F, m
    <3> QED BY <3>1, <3>2, NthIs
  <2> QED BY <1>1, <2>2, <2>4, <2>5
<1> QED BY <1>1, <1>2, <1>4, <1>5, <1>6

-----------------------------------------------------------------------------
(* Selections as sequences                                                 *)

Ascends(s) == \A j, k \in DOMAIN s : j < k => s[j] < s[k]
EntriesOf(s) == {s[k] : k \in DOMAIN s}

LEMMA AscendingIs ==
  ASSUME NEW S \in SUBSET Nat, IsFiniteSet(S)
  PROVE  /\ Ascending(S) \in Seq(S) /\ Ascending(S) \in Seq(Nat)
         /\ Cardinality(S) \in Nat /\ Len(Ascending(S)) = Cardinality(S)
         /\ \A k \in 1 .. Cardinality(S) : Ascending(S)[k] = Nth(S, k)
         /\ Ascends(Ascending(S)) /\ EntriesOf(Ascending(S)) = S
<1>1. /\ Cardinality(S) \in Nat
      /\ \A k \in 1 .. Cardinality(S) : Nth(S, k) \in S
      /\ \A j, k \in 1 .. Cardinality(S) : j < k => Nth(S, j) < Nth(S, k)
      /\ \A i \in S : \E k \in 1 .. Cardinality(S) : Nth(S, k) = i
  BY NthAscends
<1> DEFINE s == Ascending(S)
           c == Cardinality(S)
<1>2. s = [k \in 1 .. c |-> Nth(S, k)]
  BY DEF Ascending
<1> HIDE DEF s, c
<1>3. c \in Nat /\ \A k \in 1 .. c : Nth(S, k) \in S
  BY <1>1 DEF c
<1>4. s \in Seq(S) /\ Len(s) = c /\ DOMAIN s = 1 .. c /\ \A k \in 1 .. c : s[k] = Nth(S, k)
  BY <1>2, <1>3
<1>5. s \in Seq(Nat)
  <2>1. \A i \in S : i \in Nat
    OBVIOUS
  <2>2. \A k \in 1 .. c : Nth(S, k) \in Nat
    BY <1>3, <2>1
  <2> QED BY <1>2, <1>3, <2>2
<1>6. Ascends(s)
  BY <1>1, <1>4 DEF Ascends, c
<1>7. EntriesOf(s) = S
  BY <1>1, <1>3, <1>4 DEF EntriesOf, c
<1> QED BY <1>3, <1>4, <1>5, <1>6, <1>7 DEF s, c

\* What is ascending and lies behind is appended.
LEMMA AppendAscends ==
  ASSUME NEW r \in Seq(Nat), Ascends(r), NEW w \in Nat, \A i \in EntriesOf(r) : i <= w,
         NEW T \in SUBSET Nat, IsFiniteSet(T), \A i \in T : w < i
  PROVE  /\ r \o Ascending(T) \in Seq(Nat) /\ Ascends(r \o Ascending(T))
         /\ EntriesOf(r \o Ascending(T)) = EntriesOf(r) \cup T
<1> DEFINE t == Ascending(T)
<1>1. t \in Seq(Nat) /\ Ascends(t) /\ EntriesOf(t) = T
  BY AscendingIs
<1> HIDE DEF t
<1> DEFINE m == Len(r)
           n == Len(t)
           u == r \o t
<1>2. /\ m \in Nat /\ n \in Nat /\ u \in Seq(Nat) /\ Len(u) = m + n
      /\ DOMAIN r = 1 .. m /\ DOMAIN t = 1 .. n /\ DOMAIN u = 1 .. m + n
      /\ \A k \in 1 .. m : u[k] = r[k]
      /\ \A k \in m + 1 .. m + n : u[k] = t[k - m]
  BY <1>1
<1>3. /\ \A k \in 1 .. m : r[k] \in Nat /\ r[k] \in EntriesOf(r) /\ r[k] <= w
      /\ \A k \in 1 .. n : t[k] \in Nat /\ t[k] \in T /\ w < t[k]
  <2>1. \A k \in 1 .. m : r[k] \in EntriesOf(r)
    BY <1>2 DEF EntriesOf
  <2>2. \A k \in 1 .. n : t[k] \in T
    BY <1>1, <1>2 DEF EntriesOf
  <2>3. \A k \in 1 .. m : r[k] \in Nat
    BY <1>2
  <2>4. \A k \in 1 .. n : t[k] \in Nat
    BY <1>1, <1>2
  <2> QED BY <2>1, <2>2, <2>3, <2>4
<1> HIDE DEF m, n, u
<1>4. ASSUME NEW j \in 1 .. m + n, NEW k \in 1 .. m + n, j < k PROVE u[j] < u[k]
  <2>1. CASE k \in 1 .. m
    <3>1. j \in 1 .. m
      BY <1>2, <1>4, <2>1
    <3> QED BY <1>2, <1>4, <2>1, <3>1 DEF Ascends
  <2>2. CASE j \in m + 1 .. m + n
    <3>1. j - m \in 1 .. n /\ k - m \in 1 .. n /\ j - m < k - m /\ k \in m + 1 .. m + n
      BY <1>2, <1>4, <2>2
    <3> QED BY <1>1, <1>2, <2>2, <3>1 DEF Ascends
  <2>3. CASE j \in 1 .. m /\ k \in m + 1 .. m + n
    <3>1. k - m \in 1 .. n
      BY <1>2, <2>3
    <3>2. u[j] = r[j] /\ u[k] = t[k - m]
      BY <1>2, <2>3
    <3>3. r[j] \in Nat /\ r[j] <= w /\ t[k - m] \in Nat /\ w < t[k - m]
      BY <1>3, <2>3, <3>1
    <3> QED BY <3>2, <3>3
  <2> QED BY <1>2, <1>4, <2>1, <2>2, <2>3
<1>5. EntriesOf(u) = EntriesOf(r) \cup T
  <2>1. ASSUME NEW x \in EntriesOf(u) PROVE x \in EntriesOf(r) \cup T
    <3>1. PICK k \in 1 .. m + n : x = u[k]
      BY <1>2, <2>1 DEF EntriesOf
    <3>2. CASE k \in 1 .. m
      BY <1>2, <1>3, <3>1, <3>2
    <3>3. CASE k \in m + 1 .. m + n
      <4>1. k - m \in 1 .. n
        BY <1>2, <3>3
      <4> QED BY <1>2, <1>3, <3>1, <3>3, <4>1
    <3> QED BY <1>2, <3>2, <3>3
  <2>2. ASSUME NEW x \in EntriesOf(r) PROVE x \in EntriesOf(u)
    <3>1. PICK k \in 1 .. m : x = r[k]
      BY <1>2, <2>2 DEF EntriesOf
    <3>2. k \in 1 .. m + n /\ u[k] = x
      BY <1>2, <3>1
    <3> QED BY <1>2, <3>2 DEF EntriesOf
  <2>3. ASSUME NEW x \in T PROVE x \in EntriesOf(u)
    <3>1. PICK k \in 1 .. n : x = t[k]
      BY <1>1, <1>2, <2>3 DEF EntriesOf
    <3>2. k + m \in m + 1 .. m + n /\ (k + m) - m = k
      BY <1>2, <3>1
    <3>3. k + m \in 1 .. m + n
      BY <1>2, <3>1
    <3>4. u[k + m] = x
      BY <1>2, <3>1, <3>2
    <3> QED BY <1>2, <3>3, <3>4 DEF EntriesOf
  <2> QED BY <2>1, <2>2, <2>3
<1>6. Ascends(u)
  BY <1>2, <1>4 DEF Ascends
<1> QED BY <1>2, <1>5, <1>6 DEF u, t

\* A piece of what is ascending.
LEMMA PickedIs ==
  ASSUME NEW V, NEW s \in Seq(V), NEW S \in SUBSET Nat, IsFiniteSet(S), S \subseteq DOMAIN s
  PROVE  /\ Picked(s, S) \in Seq(V) /\ Cardinality(S) \in Nat
         /\ Len(Picked(s, S)) = Cardinality(S) /\ DOMAIN Picked(s, S) = 1 .. Cardinality(S)
         /\ \A k \in 1 .. Cardinality(S) : Nth(S, k) \in S /\ Picked(s, S)[k] = s[Nth(S, k)]
         /\ EntriesOf(Picked(s, S)) = {s[i] : i \in S}
<1>1. /\ Cardinality(S) \in Nat
      /\ \A k \in 1 .. Cardinality(S) : Nth(S, k) \in S
      /\ \A i \in S : \E k \in 1 .. Cardinality(S) : Nth(S, k) = i
  BY NthAscends
<1> DEFINE p == Picked(s, S)
           c == Cardinality(S)
<1>2. p = [k \in 1 .. c |-> s[Nth(S, k)]]
  BY DEF Picked
<1> HIDE DEF p, c
<1>3. c \in Nat /\ (\A k \in 1 .. c : Nth(S, k) \in S) /\ \A i \in S : s[i] \in V
  BY <1>1 DEF c
<1>4. /\ p \in Seq(V) /\ Len(p) = c /\ DOMAIN p = 1 .. c
      /\ \A k \in 1 .. c : p[k] = s[Nth(S, k)]
  <2>1. \A k \in 1 .. c : s[Nth(S, k)] \in V
    BY <1>3
  <2> QED BY <1>2, <1>3, <2>1
<1>5. EntriesOf(p) = {s[i] : i \in S}
  <2>1. /\ \A k \in 1 .. c : Nth(S, k) \in S
        /\ \A i \in S : \E k \in 1 .. c : Nth(S, k) = i
    BY <1>1 DEF c
  <2>2. EntriesOf(p) = {p[k] : k \in 1 .. c}
    BY <1>4 DEF EntriesOf
  <2>3. \A k \in 1 .. c : p[k] = s[Nth(S, k)]
    BY <1>4
  <2>4. ASSUME NEW k \in 1 .. c PROVE p[k] \in {s[i] : i \in S}
    BY <2>1, <2>3
  <2>5. ASSUME NEW i \in S PROVE s[i] \in {p[k] : k \in 1 .. c}
    <3>1. PICK k \in 1 .. c : Nth(S, k) = i
      BY <2>1
    <3>2. p[k] = s[i]
      BY <2>3, <3>1
    <3> QED BY <3>2
  <2> QED BY <2>2, <2>4, <2>5
<1> QED BY <1>3, <1>4, <1>5 DEF p, c
=============================================================================
