---------------------------- MODULE Events_proofs ----------------------------
(***************************************************************************)
(* A subscription hands each event over once, in order, for any number of  *)
(* events and ledgers, any page limits and any window.                     *)
(*                                                                         *)
(* poll() and the repairs handle a page event by event, which the model    *)
(* folds.  A fold is first unrolled into the states between two events     *)
(* (FoldPolled, FoldDispatch); what each event preserves then holds of the *)
(* whole page by induction over a set of positions (UpTo).                 *)
(***************************************************************************)
EXTENDS EventSubscription, SequenceTheorems, FiniteSetTheorems, WellFoundedInduction, TLAPS

-----------------------------------------------------------------------------
(* Induction over positions, and the end of a page                         *)

\* The library's induction, of a set instead of a formula.
LEMMA UpTo ==
  ASSUME NEW n \in Nat, NEW S, 0 \in S, \A k \in 0 .. n - 1 : k \in S => k + 1 \in S
  PROVE  0 .. n \subseteq S
<1> DEFINE R == {ss \in Nat \X Nat : ss[1] < ss[2]}
           T == (0 .. n) \ S
<1> SUFFICES ASSUME T # {} PROVE FALSE
  OBVIOUS
<1>1. IsWellFoundedOn(R, Nat) /\ T \subseteq Nat /\ T # {}
  BY NatLessThanWellFounded DEF OpToRel
<1>2. PICK x \in T : \A y \in T : ~(<<y, x>> \in R)
  <2> HIDE DEF R, T
  <2> QED BY <1>1, WFMin
<1>3. x \in 1 .. n /\ x - 1 \in 0 .. n - 1 /\ (x - 1) + 1 = x
  OBVIOUS
<1>4. x - 1 \in T /\ <<x - 1, x>> \in R
  BY <1>3
<1> QED BY <1>2, <1>4

\* A set of naturals with a bound has a greatest element.
LEMMA Greatest ==
  ASSUME NEW n \in Nat, NEW S \in SUBSET (0 .. n), S # {}
  PROVE  Max(S) \in S /\ \A y \in S : Max(S) >= y
<1> DEFINE T == {k \in Nat : S \cap (0 .. k) = {} \/ \E x \in S : \A y \in S \cap (0 .. k) : x >= y}
<1>1. 0 \in T
  <2>1. CASE 0 \in S
    BY <2>1
  <2>2. CASE 0 \notin S
    BY <2>2
  <2> QED BY <2>1, <2>2
<1>2. ASSUME NEW k \in 0 .. n - 1, k \in T PROVE k + 1 \in T
  <2>1. CASE k + 1 \in S
    <3>1. \A y \in S \cap (0 .. k + 1) : k + 1 >= y
      OBVIOUS
    <3> QED BY <2>1, <3>1
  <2>2. CASE k + 1 \notin S
    <3>1. S \cap (0 .. k + 1) = S \cap (0 .. k)
      BY <2>2
    <3> QED BY <1>2, <3>1
  <2> QED BY <2>1, <2>2
<1>3. n \in T
  <2> HIDE DEF T
  <2>1. 0 .. n \subseteq T
    BY <1>1, <1>2, UpTo
  <2> QED BY <2>1
<1>4. \E x \in S : \A y \in S : x >= y
  BY <1>3
<1> QED BY <1>4 DEF Max

\* A fold takes the greatest position off a set of positions, each time.
LEMMA TakeGreatest ==
  ASSUME NEW n \in Nat, NEW s \in SUBSET (1 .. n)
  PROVE  /\ Cardinality(s) \in Nat /\ Cardinality(s) <= n /\ (Cardinality(s) = 0 <=> s = {})
         /\ s # {} => /\ Max(s) \in s /\ \A y \in s : Max(s) >= y
                      /\ Cardinality(s \ {Max(s)}) = Cardinality(s) - 1
<1>1. IsFiniteSet(1 .. n) /\ Cardinality(1 .. n) = n
  BY FS_Interval
<1>2. IsFiniteSet(s) /\ Cardinality(s) <= n
  BY <1>1, FS_Subset
<1>3. Cardinality(s) \in Nat /\ (Cardinality(s) = 0 <=> s = {})
  BY <1>2, FS_CardinalityType, FS_EmptySet
<1>4. ASSUME s # {} PROVE Max(s) \in s /\ \A y \in s : Max(s) >= y
  <2>1. s \in SUBSET (0 .. n)
    BY 1 .. n \subseteq 0 .. n
  <2> QED BY <1>4, <2>1, Greatest
<1>5. ASSUME s # {} PROVE Cardinality(s \ {Max(s)}) = Cardinality(s) - 1
  BY <1>2, <1>4, <1>5, FS_RemoveElement
<1> QED BY <1>2, <1>3, <1>4, <1>5

LEMMA TakeLast ==
  ASSUME NEW n \in Nat, NEW i \in 1 .. n
  PROVE  /\ 1 .. i \in SUBSET (1 .. n) /\ 1 .. i # {}
         /\ Max(1 .. i) = i /\ (1 .. i) \ {i} = 1 .. (i - 1)
<1>1. 1 .. i \subseteq 1 .. n /\ i \in 1 .. i /\ (1 .. i) \ {i} = 1 .. (i - 1)
  OBVIOUS
<1>2. Max(1 .. i) \in 1 .. i /\ Max(1 .. i) >= i
  BY <1>1, TakeGreatest
<1> QED BY <1>1, <1>2

-----------------------------------------------------------------------------
(* Folds, unrolled                                                         *)

\* The states between the events of an answer, handled one by one by poll().
PolledStates(h, base, seq, n) ==
    h[0] = base /\ \A i \in 1 .. n : h[i] = Polled(h[i - 1], seq[i])

LEMMA FoldPolled ==
  ASSUME NEW base, NEW seq, NEW n \in Nat, DOMAIN seq = 1 .. n
  PROVE  \E h : PolledStates(h, base, seq, n) /\ PolledPage(base, seq) = h[n]
<1> DEFINE D == DOMAIN seq
           Def(g, s) == IF s = {} THEN base ELSE Polled(g[s \ {Max(s)}], seq[Max(s)])
           Small(k) == {s \in SUBSET D : Cardinality(s) <= k}
           T == {k \in Nat : \E g : g = [s \in Small(k) |-> Def(g, s)]}
           It == CHOOSE g : g = [s \in SUBSET D |-> Def(g, s)]
<1>1. PolledPage(base, seq) = It[D]
  BY DEF PolledPage, FoldLeft, MapThenFoldSet
<1>0. ASSUME NEW s \in SUBSET D
      PROVE  Cardinality(s) \in Nat /\ Cardinality(s) <= n /\ (Cardinality(s) = 0 <=> s = {})
  BY TakeGreatest
<1>2. 0 \in T
  <2>1. Small(0) = {{}}
    <3>1. ASSUME NEW s \in SUBSET D PROVE Cardinality(s) <= 0 <=> s = {}
      BY <1>0
    <3> QED BY <3>1
  <2>2. [s \in {{}} |-> base] = [s \in {{}} |-> Def([t \in {{}} |-> base], s)]
    OBVIOUS
  <2> QED BY <2>1, <2>2
<1>3. ASSUME NEW k \in 0 .. n - 1, k \in T PROVE k + 1 \in T
  <2>1. PICK g : g = [s \in Small(k) |-> Def(g, s)]
    BY <1>3
  <2> DEFINE g2 == [s \in Small(k + 1) |-> Def(g, s)]
  <2>2. ASSUME NEW s \in Small(k + 1) PROVE Def(g, s) = Def(g2, s)
    <3>1. CASE s = {}
      BY <3>1
    <3>2. CASE s # {}
      <4> DEFINE t == s \ {Max(s)}
      <4>1. t \in SUBSET D /\ Cardinality(t) <= k /\ Cardinality(t) <= k + 1
        <5>1. Cardinality(s) \in Nat /\ Cardinality(s) <= k + 1 /\ s \in SUBSET D
          BY <1>0
        <5>2. Cardinality(t) = Cardinality(s) - 1
          BY <3>2, <5>1, TakeGreatest
        <5> QED BY <5>1, <5>2
      <4>2. g[t] = Def(g, t) /\ g2[t] = Def(g, t)
        <5> HIDE DEF Def, t
        <5> QED BY <2>1, <4>1
      <4>3. g[t] = g2[t]
        BY <4>2
      <4> HIDE DEF g2
      <4> QED BY <3>2, <4>3
    <3> QED BY <3>1, <3>2
  <2>3. g2 = [s \in Small(k + 1) |-> Def(g2, s)]
    <3> HIDE DEF Def, Small
    <3> QED BY <2>2
  <2> HIDE DEF Def, Small, g2
  <2> QED BY <2>3
<1>4. n \in T
  <2> HIDE DEF T
  <2>1. 0 .. n \subseteq T
    BY <1>2, <1>3, UpTo
  <2> QED BY <2>1
<1>5. Small(n) = SUBSET D
  BY <1>0
<1>6. It = [s \in SUBSET D |-> Def(It, s)]
  <2> HIDE DEF Def, Small
  <2> QED BY <1>4, <1>5
<1> DEFINE h == [i \in 0 .. n |-> It[1 .. i]]
<1>7. h[0] = base
  <2>1. 1 .. 0 = {} /\ {} \in SUBSET D
    OBVIOUS
  <2> HIDE DEF It
  <2> QED BY <1>6, <2>1
<1>8. ASSUME NEW i \in 1 .. n PROVE h[i] = Polled(h[i - 1], seq[i])
  <2>1. 1 .. i \in SUBSET D /\ 1 .. i # {} /\ Max(1 .. i) = i /\ (1 .. i) \ {i} = 1 .. (i - 1)
    BY TakeLast
  <2>2. It[1 .. i] = Polled(It[1 .. (i - 1)], seq[i])
    <3> HIDE DEF It
    <3> QED BY <1>6, <2>1
  <2> HIDE DEF It
  <2> QED BY <2>2
<1>9. PolledPage(base, seq) = h[n]
  BY <1>1
<1> HIDE DEF h
<1>10. PolledStates(h, base, seq, n)
  BY <1>7, <1>8 DEF PolledStates
<1> QED BY <1>9, <1>10

\* The same of the events that a repair has missed.
DispatchStates(h, base, seq, n) ==
    h[0] = base /\ \A i \in 1 .. n : h[i] = Dispatch(h[i - 1], seq[i])

LEMMA FoldDispatch ==
  ASSUME NEW base, NEW seq, NEW n \in Nat, DOMAIN seq = 1 .. n
  PROVE  \E h : DispatchStates(h, base, seq, n) /\ DispatchPage(base, seq) = h[n]
<1> DEFINE D == DOMAIN seq
           Def(g, s) == IF s = {} THEN base ELSE Dispatch(g[s \ {Max(s)}], seq[Max(s)])
           Small(k) == {s \in SUBSET D : Cardinality(s) <= k}
           T == {k \in Nat : \E g : g = [s \in Small(k) |-> Def(g, s)]}
           It == CHOOSE g : g = [s \in SUBSET D |-> Def(g, s)]
<1>1. DispatchPage(base, seq) = It[D]
  BY DEF DispatchPage, FoldLeft, MapThenFoldSet
<1>0. ASSUME NEW s \in SUBSET D
      PROVE  Cardinality(s) \in Nat /\ Cardinality(s) <= n /\ (Cardinality(s) = 0 <=> s = {})
  BY TakeGreatest
<1>2. 0 \in T
  <2>1. Small(0) = {{}}
    <3>1. ASSUME NEW s \in SUBSET D PROVE Cardinality(s) <= 0 <=> s = {}
      BY <1>0
    <3> QED BY <3>1
  <2>2. [s \in {{}} |-> base] = [s \in {{}} |-> Def([t \in {{}} |-> base], s)]
    OBVIOUS
  <2> QED BY <2>1, <2>2
<1>3. ASSUME NEW k \in 0 .. n - 1, k \in T PROVE k + 1 \in T
  <2>1. PICK g : g = [s \in Small(k) |-> Def(g, s)]
    BY <1>3
  <2> DEFINE g2 == [s \in Small(k + 1) |-> Def(g, s)]
  <2>2. ASSUME NEW s \in Small(k + 1) PROVE Def(g, s) = Def(g2, s)
    <3>1. CASE s = {}
      BY <3>1
    <3>2. CASE s # {}
      <4> DEFINE t == s \ {Max(s)}
      <4>1. t \in SUBSET D /\ Cardinality(t) <= k /\ Cardinality(t) <= k + 1
        <5>1. Cardinality(s) \in Nat /\ Cardinality(s) <= k + 1 /\ s \in SUBSET D
          BY <1>0
        <5>2. Cardinality(t) = Cardinality(s) - 1
          BY <3>2, <5>1, TakeGreatest
        <5> QED BY <5>1, <5>2
      <4>2. g[t] = Def(g, t) /\ g2[t] = Def(g, t)
        <5> HIDE DEF Def, t
        <5> QED BY <2>1, <4>1
      <4>3. g[t] = g2[t]
        BY <4>2
      <4> HIDE DEF g2
      <4> QED BY <3>2, <4>3
    <3> QED BY <3>1, <3>2
  <2>3. g2 = [s \in Small(k + 1) |-> Def(g2, s)]
    <3> HIDE DEF Def, Small
    <3> QED BY <2>2
  <2> HIDE DEF Def, Small, g2
  <2> QED BY <2>3
<1>4. n \in T
  <2> HIDE DEF T
  <2>1. 0 .. n \subseteq T
    BY <1>2, <1>3, UpTo
  <2> QED BY <2>1
<1>5. Small(n) = SUBSET D
  BY <1>0
<1>6. It = [s \in SUBSET D |-> Def(It, s)]
  <2> HIDE DEF Def, Small
  <2> QED BY <1>4, <1>5
<1> DEFINE h == [i \in 0 .. n |-> It[1 .. i]]
<1>7. h[0] = base
  <2>1. 1 .. 0 = {} /\ {} \in SUBSET D
    OBVIOUS
  <2> HIDE DEF It
  <2> QED BY <1>6, <2>1
<1>8. ASSUME NEW i \in 1 .. n PROVE h[i] = Dispatch(h[i - 1], seq[i])
  <2>1. 1 .. i \in SUBSET D /\ 1 .. i # {} /\ Max(1 .. i) = i /\ (1 .. i) \ {i} = 1 .. (i - 1)
    BY TakeLast
  <2>2. It[1 .. i] = Dispatch(It[1 .. (i - 1)], seq[i])
    <3> HIDE DEF It
    <3> QED BY <1>6, <2>1
  <2> HIDE DEF It
  <2> QED BY <2>2
<1>9. DispatchPage(base, seq) = h[n]
  BY <1>1
<1> HIDE DEF h
<1>10. DispatchStates(h, base, seq, n)
  BY <1>7, <1>8 DEF DispatchStates
<1> QED BY <1>9, <1>10

-----------------------------------------------------------------------------
(* The RPC node's answers                                                  *)

Events == Len(EventLedger)

\* How many events lie in ledgers before one.
Before(ledger) == Cardinality({e \in Event : EventLedger[e] < ledger})

LEMMA EventFacts ==
  /\ Events \in Nat /\ Event = 1 .. Events
  /\ IsFiniteSet(Event) /\ Cardinality(Event) = Events
  /\ \A e \in Event : EventLedger[e] \in Nat /\ EventLedger[e] > 0
  /\ \A d, e \in Event : d < e => EventLedger[d] <= EventLedger[e]
  /\ None \notin Nat /\ PageLimit \in Nat /\ PageLimit > 0 /\ BackfillLimit \in Nat
  /\ DedupWindow \in Nat /\ MaxFailures \in Nat /\ MaxFailures > 0
<1>1. Events \in Nat /\ Event = 1 .. Events /\ \A e \in Event : EventLedger[e] \in Nat \ {0}
  BY EventAssumption DEF Events, Event
<1>2. IsFiniteSet(1 .. Events) /\ Cardinality(1 .. Events) = Events
  BY <1>1, FS_Interval
<1> QED BY <1>1, <1>2, EventAssumption

LEMMA EventSets ==
  ASSUME NEW S \in SUBSET Event
  PROVE  IsFiniteSet(S) /\ Cardinality(S) \in 0 .. Events /\ (Cardinality(S) = 0 <=> S = {})
<1>1. IsFiniteSet(Event) /\ Cardinality(Event) = Events /\ Events \in Nat
  BY EventFacts
<1>2. IsFiniteSet(S) /\ Cardinality(S) <= Events
  BY <1>1, FS_Subset
<1>3. Cardinality(S) \in Nat /\ (Cardinality(S) = 0 <=> S = {})
  BY <1>2, FS_CardinalityType, FS_EmptySet
<1> QED BY <1>1, <1>2, <1>3

\* The events are numbered in the order of their ledgers: those before a ledger
\* are the first ones.
LEMMA BeforeExact ==
  ASSUME NEW l \in Nat
  PROVE  Before(l) \in 0 .. Events /\ \A e \in Event : EventLedger[e] < l <=> e <= Before(l)
<1> DEFINE S == {e \in Event : EventLedger[e] < l}
<1>1. CASE S = {}
  <2>1. Before(l) = 0
    BY <1>1, FS_EmptySet DEF Before
  <2> QED BY <1>1, <2>1, EventFacts
<1>2. CASE S # {}
  <2>1. S \in SUBSET (0 .. Events)
    BY EventFacts
  <2> DEFINE m == Max(S)
  <2>2. m \in S /\ \A e \in S : m >= e
    BY <1>2, <2>1, EventFacts, Greatest
  <2> HIDE DEF m
  <2>3. m \in Event /\ m \in 1 .. Events /\ EventLedger[m] < l
    BY <2>2, EventFacts
  <2>4. ASSUME NEW e \in Event PROVE EventLedger[e] < l <=> e <= m
    <3>1. e < m => EventLedger[e] <= EventLedger[m]
      BY <2>3, EventFacts
    <3>2. e <= m => e < m \/ e = m
      BY <2>3, EventFacts
    <3> QED BY <2>2, <2>3, <3>1, <3>2, EventFacts
  <2>5. S = 1 .. m
    BY <2>3, <2>4, EventFacts
  <2>6. Before(l) = m
    <3>1. m \in Nat /\ Cardinality(1 .. m) = m
      BY <2>3, EventFacts, FS_Interval
    <3> QED BY <2>5, <3>1 DEF Before
  <2> QED BY <2>3, <2>4, <2>6
<1> QED BY <1>1, <1>2

LEMMA BeforeGrows ==
  ASSUME NEW k \in Nat, NEW l \in Nat, k <= l
  PROVE  /\ Before(k) \in Nat /\ Before(l) \in Nat /\ Before(k + 1) \in Nat /\ Before(l + 1) \in Nat
         /\ Before(k) <= Before(k + 1) /\ Before(k + 1) <= Before(l + 1)
<1>0. Events \in Nat /\ k + 1 \in Nat /\ l + 1 \in Nat /\ k <= k + 1 /\ k + 1 <= l + 1
  BY EventFacts
<1>1. ASSUME NEW a \in Nat, NEW b \in Nat, a <= b PROVE Before(a) \in Nat /\ Before(a) <= Before(b)
  <2>1. Before(a) \in 0 .. Events /\ \A e \in Event : EventLedger[e] < a <=> e <= Before(a)
    BY BeforeExact
  <2>2. Before(b) \in 0 .. Events /\ \A e \in Event : EventLedger[e] < b <=> e <= Before(b)
    BY BeforeExact
  <2>3. CASE Before(a) = 0
    BY <2>1, <2>2, <2>3
  <2>4. CASE Before(a) # 0
    <3>1. Before(a) \in Event /\ EventLedger[Before(a)] < a
      BY <2>1, <2>4, EventFacts
    <3>2. EventLedger[Before(a)] < b
      BY <1>1, <3>1, EventFacts
    <3> QED BY <1>0, <2>1, <2>2, <3>1, <3>2
  <2> QED BY <2>3, <2>4
<1> QED BY <1>0, <1>1

\* Every rank up to the size of a set is that of one of its events.
LEMMA Ranks ==
  ASSUME NEW S \in SUBSET Event, NEW i \in 1 .. Cardinality(S)
  PROVE  \E e \in S : Cardinality({d \in S : d <= e}) = i
<1> DEFINE Ranked(U, k) == \A j \in 1 .. k : \E e \in U : Cardinality({d \in U : d <= e}) = j
           T == {k \in Nat : \A U \in SUBSET Event : Cardinality(U) = k => Ranked(U, k)}
<1>1. 0 \in T
  OBVIOUS
<1>2. ASSUME NEW k \in 0 .. Events - 1, k \in T PROVE k + 1 \in T
  <2>0. k \in Nat /\ k + 1 \in Nat
    BY EventFacts
  <2> SUFFICES ASSUME NEW U \in SUBSET Event, Cardinality(U) = k + 1 PROVE Ranked(U, k + 1)
    BY <2>0
  <2> SUFFICES ASSUME NEW j \in 1 .. k + 1
               PROVE  \E e \in U : Cardinality({d \in U : d <= e}) = j
    OBVIOUS
  <2> DEFINE m == Max(U)
             V == U \ {m}
  <2>1. U # {}
    BY <2>0, EventSets
  <2>2. m \in U /\ (\A d \in U : m >= d) /\ Cardinality(V) = k
    <3>1. U \in SUBSET (1 .. Events)
      BY EventFacts
    <3>2. m \in U /\ (\A d \in U : m >= d) /\ Cardinality(U \ {m}) = Cardinality(U) - 1
      BY <2>1, <3>1, EventFacts, TakeGreatest
    <3> QED BY <2>0, <3>2
  <2> HIDE DEF m
  <2>3. CASE j = k + 1
    <3>1. {d \in U : d <= m} = U
      BY <2>2, EventFacts
    <3> QED BY <2>2, <2>3, <3>1
  <2>4. CASE j # k + 1
    <3>1. j \in 1 .. k /\ V \in SUBSET Event
      BY <2>4
    <3>2. PICK e \in V : Cardinality({d \in V : d <= e}) = j
      BY <1>2, <2>2, <3>1
    <3>3. {d \in U : d <= e} = {d \in V : d <= e}
      BY <2>2, EventFacts
    <3> QED BY <3>2, <3>3
  <2> QED BY <2>3, <2>4
<1>3. 0 .. Events \subseteq T
  <2> HIDE DEF T
  <2> QED BY <1>1, <1>2, EventFacts, UpTo
<1>4. Cardinality(S) \in 0 .. Events
  BY EventSets
<1> QED BY <1>3, <1>4

\* A page holds events of its set, as many as there are up to the limit.
LEMMA PageOfSet ==
  ASSUME NEW S \in SUBSET Event, NEW limit \in Nat
  PROVE  /\ Page(S, limit) \in Seq(S)
         /\ \E n \in Nat : /\ DOMAIN Page(S, limit) = 1 .. n
                           /\ \A i \in 1 .. n : Page(S, limit)[i] \in S
<1> DEFINE n == IF Cardinality(S) < limit THEN Cardinality(S) ELSE limit
<1>1. Cardinality(S) \in Nat
  BY EventFacts, EventSets
<1>2. Page(S, limit) = [i \in 1 .. n |-> CHOOSE e \in S : Cardinality({d \in S : d <= e}) = i]
  BY DEF Page
<1>3. n \in Nat /\ n <= Cardinality(S)
  BY <1>1
<1> HIDE DEF n
<1>4. ASSUME NEW i \in 1 .. n PROVE Page(S, limit)[i] \in S
  <2>1. i \in 1 .. Cardinality(S)
    BY <1>1, <1>3
  <2>2. \E e \in S : Cardinality({d \in S : d <= e}) = i
    BY <2>1, Ranks
  <2> QED BY <1>2, <2>2
<1>5. Page(S, limit) \in [1 .. n -> S]
  BY <1>2, <1>4
<1>6. Page(S, limit) \in Seq(S)
  <2>1. \A s : s \in [1 .. n -> S] => s \in Seq(S)
    BY <1>3
  <2> QED BY <1>5, <2>1
<1>7. DOMAIN Page(S, limit) = 1 .. n
  BY <1>5
<1> QED BY <1>3, <1>4, <1>6, <1>7

\* A page of a run of events is the beginning of the run.
LEMMA PageOfRun ==
  ASSUME NEW a \in 0 .. Events, NEW c \in 0 .. Events, NEW limit \in Nat
  PROVE  \E n \in Nat : /\ Page(a + 1 .. c, limit) = [i \in 1 .. n |-> a + i]
                        /\ n <= limit /\ (n = 0 \/ a + n <= c) /\ (n = limit \/ n = 0 \/ a + n = c)
                        /\ n = 0 => limit = 0 \/ c <= a
<1> DEFINE S == a + 1 .. c
           size == Cardinality(S)
           n == IF size < limit THEN size ELSE limit
<1>1. size = (IF a + 1 > c THEN 0 ELSE c - a) /\ a \in Nat /\ c \in Nat
  BY EventFacts, FS_Interval
<1>2. Page(S, limit) = [i \in 1 .. n |-> CHOOSE e \in S : Cardinality({d \in S : d <= e}) = i]
  BY DEF Page
<1>3. n \in Nat /\ n <= limit /\ (n = 0 \/ a + n <= c) /\ (n = limit \/ n = 0 \/ a + n = c) /\ (n = 0 => limit = 0 \/ c <= a)
  BY <1>1
<1> HIDE DEF n
<1>4. ASSUME NEW i \in 1 .. n PROVE (CHOOSE e \in S : Cardinality({d \in S : d <= e}) = i) = a + i
  <2>1. ASSUME NEW e \in S PROVE Cardinality({d \in S : d <= e}) = e - a
    <3>1. {d \in S : d <= e} = a + 1 .. e
      BY <1>1
    <3>2. a + 1 \in Int /\ e \in Int /\ e >= a + 1 /\ e - (a + 1) + 1 = e - a
      BY <1>1
    <3>3. Cardinality(a + 1 .. e) = e - a
      BY <3>2, FS_Interval
    <3> QED BY <3>1, <3>3
  <2>2. a + i \in S
    BY <1>1, <1>3
  <2>3. \A e \in S : Cardinality({d \in S : d <= e}) = i <=> e = a + i
    <3>1. \A e \in S : e - a = i <=> e = a + i
      BY <1>1
    <3> HIDE DEF S
    <3> QED BY <2>1, <3>1
  <2> HIDE DEF S
  <2> QED BY <2>2, <2>3
<1> QED BY <1>2, <1>3, <1>4

-----------------------------------------------------------------------------
(* What the handling of one event keeps                                    *)

Replays == [expected : Nat, actual : Nat, from : Nat]
Backfills == [expected : Nat, actual : Nat]
Streams == [ledger : Nat, sequence : Nat, recent : Seq(Event),
            replay : Replays \cup {None}, backfill : Backfills \cup {None}, log : Seq(Event)]

\* Of a window that holds every event: what was handed over is in it, and
\* neither holds an event twice.
Once(st) ==
    DedupWindow >= Cardinality(Event) =>
        /\ IsInjective(st.log) /\ IsInjective(st.recent)
        /\ Range(st.log) \subseteq Range(st.recent)

\* The window and the log after an event that is not in the window.
LEMMA DispatchChanges ==
  ASSUME NEW st \in Streams, NEW e \in Event
  PROVE  /\ Seen(st, e) => Dispatch(st, e) = st
         /\ ~Seen(st, e) =>
              /\ Dispatch(st, e) \in Streams
              /\ Dispatch(st, e).log = IF unsubscribed THEN st.log ELSE Append(st.log, e)
              /\ Dispatch(st, e).recent = IF Len(Append(st.recent, e)) > DedupWindow
                                          THEN Tail(Append(st.recent, e)) ELSE Append(st.recent, e)
              /\ Dispatch(st, e).ledger = st.ledger /\ Dispatch(st, e).sequence = st.sequence
              /\ Dispatch(st, e).replay = st.replay /\ Dispatch(st, e).backfill = st.backfill
<1>1. Append(st.recent, e) \in Seq(Event) /\ Append(st.recent, e) # <<>> /\ Append(st.log, e) \in Seq(Event)
  BY DEF Streams
<1>2. Tail(Append(st.recent, e)) \in Seq(Event)
  BY <1>1
<1> DEFINE window == IF Len(Append(st.recent, e)) > DedupWindow
                     THEN Tail(Append(st.recent, e)) ELSE Append(st.recent, e)
           told == IF unsubscribed THEN st.log ELSE Append(st.log, e)
<1>3. window \in Seq(Event) /\ told \in Seq(Event)
  BY <1>1, <1>2 DEF Streams
<1>4. ~Seen(st, e) => Dispatch(st, e) = [[st EXCEPT !.recent = window] EXCEPT !.log = told]
  BY DEF Dispatch, Remember, Streams
<1> HIDE DEF window, told
<1>5. LET new == [[st EXCEPT !.recent = window] EXCEPT !.log = told]
      IN  /\ new \in Streams /\ new.log = told /\ new.recent = window
          /\ new.ledger = st.ledger /\ new.sequence = st.sequence
          /\ new.replay = st.replay /\ new.backfill = st.backfill
  BY <1>3 DEF Streams
<1> QED BY <1>4, <1>5 DEF Dispatch, window, told

LEMMA AppendOnce ==
  ASSUME NEW s \in Seq(Event), IsInjective(s), NEW e \in Event, e \notin Range(s)
  PROVE  /\ IsInjective(Append(s, e)) /\ Range(Append(s, e)) = Range(s) \cup {e}
         /\ Len(Append(s, e)) <= Cardinality(Event)
<1>1. /\ Append(s, e) \in Seq(Event) /\ Len(Append(s, e)) = Len(s) + 1
      /\ \A i \in 1 .. Len(s) + 1 : Append(s, e)[i] = IF i = Len(s) + 1 THEN e ELSE s[i]
  OBVIOUS
<1> DEFINE t == Append(s, e)
<1>2. DOMAIN t = 1 .. Len(s) + 1 /\ DOMAIN s = 1 .. Len(s) /\ Len(s) \in Nat
  BY <1>1
<1>3. \A i \in 1 .. Len(s) : t[i] = s[i] /\ s[i] \in Range(s) /\ s[i] # e
  BY <1>1 DEF Range
<1>4. t[Len(s) + 1] = e
  BY <1>1
<1>5. t \in [1 .. Len(s) + 1 -> Event]
  BY <1>1, LenProperties
<1> HIDE DEF t
<1>6. IsInjective(t)
  BY <1>2, <1>3, <1>4 DEF IsInjective
<1>7. Range(t) = Range(s) \cup {e}
  BY <1>2, <1>3, <1>4 DEF Range
<1>8. Cardinality(1 .. Len(s) + 1) <= Cardinality(Event)
  <2>1. t \in Injection(1 .. Len(s) + 1, Event)
    BY <1>5, <1>6 DEF Injection
  <2> QED BY <2>1, EventFacts, FS_Injection
<1>9. Cardinality(1 .. Len(s) + 1) = Len(s) + 1
  BY <1>2, FS_Interval
<1> QED BY <1>1, <1>6, <1>7, <1>8, <1>9 DEF t

LEMMA DispatchKeeps ==
  ASSUME NEW st \in Streams, Once(st), NEW e \in Event
  PROVE  Dispatch(st, e) \in Streams /\ Once(Dispatch(st, e))
<1>1. CASE Seen(st, e)
  BY <1>1, DispatchChanges
<1>2. CASE ~Seen(st, e)
  <2> DEFINE new == Dispatch(st, e)
  <2>1. /\ new \in Streams
        /\ new.log = IF unsubscribed THEN st.log ELSE Append(st.log, e)
        /\ new.recent = IF Len(Append(st.recent, e)) > DedupWindow
                        THEN Tail(Append(st.recent, e)) ELSE Append(st.recent, e)
    BY <1>2, DispatchChanges
  <2> HIDE DEF new
  <2>2. ASSUME DedupWindow >= Cardinality(Event)
        PROVE  /\ IsInjective(new.log) /\ IsInjective(new.recent)
               /\ Range(new.log) \subseteq Range(new.recent)
    <3>1. /\ IsInjective(st.log) /\ IsInjective(st.recent) /\ Range(st.log) \subseteq Range(st.recent)
          /\ st.log \in Seq(Event) /\ st.recent \in Seq(Event) /\ e \notin Range(st.recent)
      BY <1>2, <2>2 DEF Once, Streams, Seen
    <3>2. /\ IsInjective(Append(st.recent, e)) /\ Range(Append(st.recent, e)) = Range(st.recent) \cup {e}
          /\ Len(Append(st.recent, e)) <= Cardinality(Event)
      BY <3>1, AppendOnce
    <3>3. /\ IsInjective(Append(st.log, e)) /\ Range(Append(st.log, e)) = Range(st.log) \cup {e}
      BY <3>1, AppendOnce
    <3>4. Len(Append(st.recent, e)) \in Nat
      BY <3>1
    <3>5. new.recent = Append(st.recent, e)
      BY <2>1, <2>2, <3>2, <3>4, EventFacts
    <3> QED BY <2>1, <3>1, <3>2, <3>3, <3>5
  <2> QED BY <2>1, <2>2 DEF Once, new
<1> QED BY <1>1, <1>2

\* What observe() and the check of the sequence number change.
LEMMA ObserveChanges ==
  ASSUME NEW st \in Streams, NEW e \in Event
  PROVE  LET new == Observe(st, e) IN
         /\ new \in Streams
         /\ new.log = st.log /\ new.recent = st.recent
         /\ new.sequence = st.sequence /\ new.replay = st.replay
         /\ new.ledger = IF EventLedger[e] > st.ledger THEN EventLedger[e] ELSE st.ledger
         /\ new.backfill = IF st.ledger # 0 /\ EventLedger[e] > st.ledger + 1 /\ st.backfill = None
                           THEN [expected |-> st.ledger + 1, actual |-> EventLedger[e]]
                           ELSE st.backfill
<1> DEFINE ledger == IF EventLedger[e] > st.ledger THEN EventLedger[e] ELSE st.ledger
           gap == IF st.ledger # 0 /\ EventLedger[e] > st.ledger + 1 /\ st.backfill = None
                  THEN [expected |-> st.ledger + 1, actual |-> EventLedger[e]]
                  ELSE st.backfill
<1>1. EventLedger[e] \in Nat /\ st.ledger \in Nat /\ st.ledger + 1 \in Nat
  BY EventFacts DEF Streams
<1>2. ledger \in Nat /\ gap \in Backfills \cup {None}
  BY <1>1 DEF Streams, Backfills
<1>3. Observe(st, e) = [[st EXCEPT !.ledger = ledger] EXCEPT !.backfill = gap]
  BY DEF Observe, Streams
<1> HIDE DEF ledger, gap
<1>4. LET new == [[st EXCEPT !.ledger = ledger] EXCEPT !.backfill = gap]
      IN  /\ new \in Streams /\ new.log = st.log /\ new.recent = st.recent
          /\ new.sequence = st.sequence /\ new.replay = st.replay
          /\ new.ledger = ledger /\ new.backfill = gap
  BY <1>2 DEF Streams
<1> QED BY <1>3, <1>4 DEF ledger, gap

LEMMA CheckChanges ==
  ASSUME NEW st \in Streams, NEW e \in Event, lastStartLedger \in Nat
  PROVE  LET new == CheckSequence(st, e) IN
         /\ new \in Streams
         /\ new.log = st.log /\ new.recent = st.recent
         /\ new.ledger = st.ledger /\ new.backfill = st.backfill /\ new.sequence = e
         /\ st.sequence = 0 \/ e = st.sequence + 1 => new.replay = st.replay
<1> DEFINE gap == IF (st.sequence # 0 /\ e # st.sequence + 1) /\ st.replay = None /\ lastStartLedger > 0
                  THEN [expected |-> st.sequence, actual |-> e, from |-> lastStartLedger]
                  ELSE st.replay
<1>1. e \in Nat /\ gap \in Replays \cup {None}
  BY EventFacts DEF Streams, Replays
<1>2. CheckSequence(st, e) = [[st EXCEPT !.sequence = e] EXCEPT !.replay = gap]
  BY DEF CheckSequence, Streams
<1>3. st.sequence = 0 \/ e = st.sequence + 1 => gap = st.replay
  OBVIOUS
<1> HIDE DEF gap
<1>4. LET new == [[st EXCEPT !.sequence = e] EXCEPT !.replay = gap]
      IN  /\ new \in Streams /\ new.log = st.log /\ new.recent = st.recent
          /\ new.ledger = st.ledger /\ new.backfill = st.backfill
          /\ new.sequence = e /\ new.replay = gap
  BY <1>1 DEF Streams
<1> QED BY <1>2, <1>3, <1>4

LEMMA PolledKeeps ==
  ASSUME NEW st \in Streams, Once(st), NEW e \in Event, lastStartLedger \in Nat
  PROVE  Polled(st, e) \in Streams /\ Once(Polled(st, e))
<1> DEFINE observed == Observe(st, e)
<1>1. observed \in Streams /\ Once(observed)
  BY ObserveChanges DEF Once
<1> HIDE DEF observed
<1>2. CASE Seen(observed, e)
  BY <1>1, <1>2 DEF Polled, observed
<1>3. CASE ~Seen(observed, e)
  <2> DEFINE told == Dispatch(observed, e)
  <2>1. told \in Streams /\ Once(told)
    BY <1>1, DispatchKeeps
  <2> HIDE DEF told
  <2>2. CheckSequence(told, e) \in Streams /\ Once(CheckSequence(told, e))
    BY <2>1, CheckChanges DEF Once
  <2> QED BY <1>3, <2>2 DEF Polled, observed, told
<1> QED BY <1>2, <1>3

\* Both folds keep what one event keeps.
LEMMA PageKeeps ==
  ASSUME NEW st \in Streams, Once(st), lastStartLedger \in Nat,
         NEW page, NEW n \in Nat, DOMAIN page = 1 .. n, \A i \in 1 .. n : page[i] \in Event
  PROVE  /\ PolledPage(st, page) \in Streams /\ Once(PolledPage(st, page))
         /\ DispatchPage(st, page) \in Streams /\ Once(DispatchPage(st, page))
<1>1. PolledPage(st, page) \in Streams /\ Once(PolledPage(st, page))
  <2>0. PICK h : PolledStates(h, st, page, n) /\ PolledPage(st, page) = h[n]
    BY FoldPolled
  <2>1. /\ h[0] = st /\ \A i \in 1 .. n : h[i] = Polled(h[i - 1], page[i])
        /\ PolledPage(st, page) = h[n]
    BY <2>0 DEF PolledStates
  <2> DEFINE T == {i \in 0 .. n : h[i] \in Streams /\ Once(h[i])}
  <2>2. 0 \in T
    BY <2>1
  <2>3. ASSUME NEW i \in 0 .. n - 1, i \in T PROVE i + 1 \in T
    <3>1. i + 1 \in 1 .. n /\ (i + 1) - 1 = i /\ page[i + 1] \in Event
      OBVIOUS
    <3>2. h[i + 1] = Polled(h[i], page[i + 1])
      BY <2>1, <3>1
    <3> QED BY <2>3, <3>1, <3>2, PolledKeeps
  <2>4. 0 .. n \subseteq T
    <3> HIDE DEF T
    <3> QED BY <2>2, <2>3, UpTo
  <2> QED BY <2>1, <2>4
<1>2. DispatchPage(st, page) \in Streams /\ Once(DispatchPage(st, page))
  <2>0. PICK h : DispatchStates(h, st, page, n) /\ DispatchPage(st, page) = h[n]
    BY FoldDispatch
  <2>1. /\ h[0] = st /\ \A i \in 1 .. n : h[i] = Dispatch(h[i - 1], page[i])
        /\ DispatchPage(st, page) = h[n]
    BY <2>0 DEF DispatchStates
  <2> DEFINE T == {i \in 0 .. n : h[i] \in Streams /\ Once(h[i])}
  <2>2. 0 \in T
    BY <2>1
  <2>3. ASSUME NEW i \in 0 .. n - 1, i \in T PROVE i + 1 \in T
    <3>1. i + 1 \in 1 .. n /\ (i + 1) - 1 = i /\ page[i + 1] \in Event
      OBVIOUS
    <3>2. h[i + 1] = Dispatch(h[i], page[i + 1])
      BY <2>1, <3>1
    <3> QED BY <2>3, <3>1, <3>2, DispatchKeeps
  <2>4. 0 .. n \subseteq T
    <3> HIDE DEF T
    <3> QED BY <2>2, <2>3, UpTo
  <2> QED BY <2>1, <2>4
<1> QED BY <1>1, <1>2

-----------------------------------------------------------------------------
(* A node with cursors that leaves nothing out                             *)

Base == Before(lastStartLedger)

\* The events up to p were handled: those after Base were handed over, in order,
\* and what follows is the next one, so that a replay never starts; a backfill
\* starts where ledgers hold no event, and finds none.
Ordered(st, p) ==
    /\ p \in Base .. Events
    /\ \A e \in Range(st.recent) : e <= p
    /\ Len(st.log) <= p - Base /\ (~unsubscribed => Len(st.log) = p - Base)
    /\ \A i \in DOMAIN st.log : st.log[i] = Base + i
    /\ st.sequence \in {0, p}
    /\ st.ledger # 0 => p \in Event /\ st.ledger = EventLedger[p]
    /\ st.replay = None
    /\ st.backfill # None =>
          \A e \in Event : ~(st.backfill.expected <= EventLedger[e] /\ EventLedger[e] < st.backfill.actual)

\* The window never holds what was not handled.
LEMMA WindowBehind ==
  ASSUME NEW s \in Seq(Event), NEW p \in Nat, \A e \in Range(s) : e <= p, p + 1 \in Event
  PROVE  /\ \A e \in Range(Append(s, p + 1)) : e <= p + 1
         /\ \A e \in Range(Tail(Append(s, p + 1))) : e <= p + 1
<1> DEFINE t == Append(s, p + 1)
<1>1. /\ t \in Seq(Event) /\ Len(t) = Len(s) + 1 /\ Len(s) \in Nat
      /\ \A i \in 1 .. Len(s) + 1 : t[i] = IF i = Len(s) + 1 THEN p + 1 ELSE s[i]
  OBVIOUS
<1>2. \A i \in 1 .. Len(s) : s[i] \in Range(s) /\ s[i] \in Nat
  BY EventFacts DEF Range
<1>3. \A i \in 1 .. Len(t) : t[i] <= p + 1
  <2> SUFFICES ASSUME NEW i \in 1 .. Len(t) PROVE t[i] <= p + 1
    OBVIOUS
  <2>1. CASE i = Len(s) + 1
    BY <1>1, <2>1
  <2>2. CASE i # Len(s) + 1
    <3>1. i \in 1 .. Len(s) /\ t[i] = s[i]
      BY <1>1, <2>2
    <3>2. s[i] <= p /\ s[i] \in Nat
      BY <1>2, <3>1
    <3> QED BY <3>1, <3>2
  <2> QED BY <2>1, <2>2
<1>4. Len(Tail(t)) = Len(t) - 1 /\ \A i \in 1 .. Len(t) - 1 : Tail(t)[i] = t[i + 1]
  BY <1>1
<1>5. DOMAIN t = 1 .. Len(t) /\ DOMAIN Tail(t) = 1 .. Len(t) - 1
  BY <1>1, <1>4
<1> HIDE DEF t
<1>6. \A e \in Range(t) : e <= p + 1
  BY <1>3, <1>5 DEF Range
<1>7. \A i \in 1 .. Len(t) - 1 : Tail(t)[i] <= p + 1
  BY <1>1, <1>3, <1>4
<1>8. \A e \in Range(Tail(t)) : e <= p + 1
  BY <1>5, <1>7 DEF Range
<1> QED BY <1>6, <1>8 DEF t

LEMMA PolledOrders ==
  ASSUME NEW st \in Streams, NEW p, Ordered(st, p), p + 1 \in Event, lastStartLedger \in Nat
  PROVE  Ordered(Polled(st, p + 1), p + 1)
<1> DEFINE e == p + 1
           observed == Observe(st, e)
           told == Dispatch(observed, e)
           new == CheckSequence(told, e)
<1>0. Base \in 0 .. Events /\ p \in Base .. Events
  BY BeforeExact DEF Ordered, Base
<1>1. /\ Base \in 0 .. Events /\ Events \in Nat /\ p \in Nat /\ Base <= p
      /\ e \in Event /\ e \in Nat /\ p + 1 = e /\ e \in Base .. Events
  BY <1>0, EventFacts
<1>2. /\ observed \in Streams
      /\ observed.log = st.log /\ observed.recent = st.recent
      /\ observed.sequence = st.sequence /\ observed.replay = st.replay
      /\ observed.ledger = IF EventLedger[e] > st.ledger THEN EventLedger[e] ELSE st.ledger
      /\ observed.backfill = IF st.ledger # 0 /\ EventLedger[e] > st.ledger + 1 /\ st.backfill = None
                             THEN [expected |-> st.ledger + 1, actual |-> EventLedger[e]]
                             ELSE st.backfill
  BY <1>1, ObserveChanges
<1> HIDE DEF observed
<1>3. ~Seen(observed, e)
  BY <1>1, <1>2 DEF Seen, Ordered
<1>4. /\ told \in Streams
      /\ told.log = IF unsubscribed THEN observed.log ELSE Append(observed.log, e)
      /\ told.recent = IF Len(Append(observed.recent, e)) > DedupWindow
                       THEN Tail(Append(observed.recent, e)) ELSE Append(observed.recent, e)
      /\ told.ledger = observed.ledger /\ told.sequence = observed.sequence
      /\ told.replay = observed.replay /\ told.backfill = observed.backfill
  BY <1>1, <1>2, <1>3, DispatchChanges
<1> HIDE DEF told
<1>5. /\ new \in Streams
      /\ new.log = told.log /\ new.recent = told.recent
      /\ new.ledger = told.ledger /\ new.backfill = told.backfill /\ new.sequence = e
      /\ told.sequence = 0 \/ e = told.sequence + 1 => new.replay = told.replay
  BY <1>1, <1>4, CheckChanges
<1>6. Polled(st, e) = new
  BY <1>3 DEF Polled, observed, told
<1> HIDE DEF new
<1>7. \A d \in Range(new.recent) : d <= e
  <2>1. st.recent \in Seq(Event) /\ \A d \in Range(st.recent) : d <= p
    BY DEF Ordered, Streams
  <2>2. /\ \A d \in Range(Append(st.recent, e)) : d <= e
        /\ \A d \in Range(Tail(Append(st.recent, e))) : d <= e
    BY <1>1, <2>1, WindowBehind
  <2> QED BY <1>2, <1>4, <1>5, <2>2
<1>8. /\ Len(new.log) <= e - Base /\ (~unsubscribed => Len(new.log) = e - Base)
      /\ \A i \in DOMAIN new.log : new.log[i] = Base + i
  <2>1. /\ st.log \in Seq(Event) /\ Len(st.log) \in Nat /\ DOMAIN st.log = 1 .. Len(st.log)
        /\ Len(st.log) <= p - Base /\ (~unsubscribed => Len(st.log) = p - Base)
        /\ \A i \in DOMAIN st.log : st.log[i] = Base + i
    BY DEF Ordered, Streams
  <2>2. CASE unsubscribed
    <3>1. new.log = st.log
      BY <1>2, <1>4, <1>5, <2>2
    <3> QED BY <1>1, <2>1, <2>2, <3>1
  <2>3. CASE ~unsubscribed
    <3>1. new.log = Append(st.log, e)
      BY <1>2, <1>4, <1>5, <2>3
    <3>2. /\ Len(Append(st.log, e)) = Len(st.log) + 1 /\ DOMAIN Append(st.log, e) = 1 .. Len(st.log) + 1
          /\ \A i \in 1 .. Len(st.log) + 1 :
                Append(st.log, e)[i] = IF i = Len(st.log) + 1 THEN e ELSE st.log[i]
      BY <1>1, <2>1
    <3>3. Len(st.log) + 1 = e - Base /\ e = Base + (Len(st.log) + 1)
      BY <1>1, <2>1, <2>3
    <3>4. ASSUME NEW i \in 1 .. Len(st.log) + 1 PROVE Append(st.log, e)[i] = Base + i
      <4>1. CASE i = Len(st.log) + 1
        BY <3>2, <3>3, <4>1
      <4>2. CASE i # Len(st.log) + 1
        <5>1. i \in DOMAIN st.log /\ Append(st.log, e)[i] = st.log[i]
          BY <2>1, <3>2, <4>2
        <5> QED BY <2>1, <5>1
      <4> QED BY <4>1, <4>2
    <3> QED BY <3>1, <3>2, <3>3, <3>4
  <2> QED BY <2>2, <2>3
<1>9. new.replay = None
  <2>1. told.sequence \in {0, p} /\ told.replay = None
    BY <1>2, <1>4 DEF Ordered
  <2> QED BY <1>1, <1>5, <2>1
<1>10. new.ledger # 0 => e \in Event /\ new.ledger = EventLedger[e]
  <2>1. st.ledger \in Nat /\ EventLedger[e] \in Nat /\ EventLedger[e] > 0
    BY <1>1, EventFacts DEF Streams
  <2>2. st.ledger # 0 => st.ledger <= EventLedger[e]
    <3>1. st.ledger # 0 => p \in Event /\ st.ledger = EventLedger[p]
      BY DEF Ordered
    <3>2. p < e
      BY <1>1
    <3> QED BY <1>1, <3>1, <3>2, EventFacts
  <2> QED BY <1>1, <1>2, <1>4, <1>5, <2>1, <2>2
<1>11. ASSUME new.backfill # None, NEW d \in Event,
              new.backfill.expected <= EventLedger[d], EventLedger[d] < new.backfill.actual
       PROVE  FALSE
  <2>1. new.backfill = IF st.ledger # 0 /\ EventLedger[e] > st.ledger + 1 /\ st.backfill = None
                       THEN [expected |-> st.ledger + 1, actual |-> EventLedger[e]]
                       ELSE st.backfill
    BY <1>2, <1>4, <1>5
  <2>2. CASE new.backfill = st.backfill
    BY <1>11, <2>2 DEF Ordered
  <2>3. CASE new.backfill # st.backfill
    <3>1. st.ledger + 1 <= EventLedger[d] /\ EventLedger[d] < EventLedger[e] /\ st.ledger # 0
      BY <1>11, <2>1, <2>3
    <3>2. p \in Event /\ st.ledger = EventLedger[p]
      BY <3>1 DEF Ordered
    <3>3. /\ EventLedger[d] \in Nat /\ EventLedger[e] \in Nat /\ EventLedger[p] \in Nat
          /\ d \in Nat /\ p \in Nat
      BY <1>1, <3>2, EventFacts
    <3>4. d <= p \/ d >= e
      BY <1>1, <3>3
    <3>5. d <= p => EventLedger[d] <= EventLedger[p]
      <4>1. d < p => EventLedger[d] <= EventLedger[p]
        BY <3>2, EventFacts
      <4>2. d = p => EventLedger[d] <= EventLedger[p]
        BY <3>3
      <4> QED BY <3>3, <4>1, <4>2
    <3>6. d >= e => EventLedger[d] >= EventLedger[e]
      <4>1. e < d => EventLedger[e] <= EventLedger[d]
        BY <1>1, EventFacts
      <4>2. d = e => EventLedger[e] <= EventLedger[d]
        BY <3>3
      <4> QED BY <1>1, <3>3, <4>1, <4>2
    <3> QED BY <3>1, <3>2, <3>3, <3>4, <3>5, <3>6
  <2> QED BY <2>2, <2>3
<1> QED BY <1>1, <1>5, <1>6, <1>7, <1>8, <1>9, <1>10, <1>11 DEF Ordered

\* The page of the n events that follow p.
RunAfter(page, p, n) == DOMAIN page = 1 .. n /\ \A i \in 1 .. n : page[i] = p + i

\* A page that continues where the last one ended keeps the order.
LEMMA PageOrders ==
  ASSUME NEW st \in Streams, Once(st), NEW p \in Nat, Ordered(st, p), lastStartLedger \in Nat,
         NEW n \in Nat, p + n <= Events, NEW page, RunAfter(page, p, n)
  PROVE  Ordered(PolledPage(st, page), p + n)
<1>0. p \in Nat /\ Events \in Nat /\ Event = 1 .. Events
  BY BeforeExact, EventFacts DEF Ordered, Base
<1>5. PICK h : PolledStates(h, st, page, n) /\ PolledPage(st, page) = h[n]
  <2>1. DOMAIN page = 1 .. n
    BY DEF RunAfter
  <2> QED BY <2>1, FoldPolled
<1>1. /\ h[0] = st /\ \A i \in 1 .. n : h[i] = Polled(h[i - 1], page[i])
      /\ PolledPage(st, page) = h[n]
  BY <1>5 DEF PolledStates
<1> DEFINE T == {i \in 0 .. n : h[i] \in Streams /\ Once(h[i]) /\ Ordered(h[i], p + i)}
<1>2. 0 \in T
  BY <1>0, <1>1
<1>3. ASSUME NEW i \in 0 .. n - 1, i \in T PROVE i + 1 \in T
  <2>1. /\ i + 1 \in 1 .. n /\ (i + 1) - 1 = i /\ page[i + 1] = (p + i) + 1
        /\ (p + i) + 1 \in Event /\ p + (i + 1) = (p + i) + 1
    BY <1>0 DEF RunAfter
  <2>2. h[i + 1] = Polled(h[i], (p + i) + 1)
    BY <1>1, <2>1
  <2>3. Ordered(Polled(h[i], (p + i) + 1), (p + i) + 1)
    BY <1>3, <2>1, PolledOrders
  <2>4. Polled(h[i], (p + i) + 1) \in Streams /\ Once(Polled(h[i], (p + i) + 1))
    BY <1>3, <2>1, PolledKeeps
  <2> QED BY <2>1, <2>2, <2>3, <2>4
<1>4. 0 .. n \subseteq T
  <2> HIDE DEF T
  <2> QED BY <1>2, <1>3, UpTo
<1> QED BY <1>1, <1>4

-----------------------------------------------------------------------------
(* subscribeToStream(): the invariant                                      *)

EventTypes ==
    /\ node \in [cursor : BOOLEAN, hides : SUBSET Event]
    /\ head \in Nat
    /\ pc \in {"waiting", "seeding", "fetching", "over"}
    /\ startLedger \in Nat /\ lastStartLedger \in Nat
    /\ ledgerSeeded \in BOOLEAN /\ stopped \in BOOLEAN /\ unsubscribed \in BOOLEAN
    /\ cursor \in 0 .. Events \cup {None}
    /\ Stream \in Streams

\* The loop is over as soon as enough polls have failed in a row.
FailuresExact ==
    /\ consecutiveFailures \in 0 .. MaxFailures
    /\ pc # "over" => consecutiveFailures < MaxFailures

\* Nothing is fetched before the ledger to start from is known.
Unseeded ==
    /\ pc = "seeding" => ~ledgerSeeded
    /\ ~ledgerSeeded =>
          /\ pc # "fetching" /\ cursor = None
          /\ Stream = [ledger |-> 0, sequence |-> 0, recent |-> <<>>,
                       replay |-> None, backfill |-> None, log |-> <<>>]

\* The last event of the pages fetched so far.
Position == IF cursor # None THEN cursor ELSE Base

\* The node's pages continue one another, and it has no event before Position
\* that it has not handed out.
Follows ==
    node.cursor /\ node.hides = {} /\ ledgerSeeded =>
        /\ startLedger = lastStartLedger
        /\ Ordered(Stream, Position)
        /\ Position <= Before(head + 1)

EventInv == EventTypes /\ FailuresExact /\ Once(Stream) /\ Unseeded /\ Follows

LEMMA InitEvents == Init => EventInv
<1> SUFFICES ASSUME Init PROVE EventInv
  OBVIOUS
<1>1. node \in [cursor : BOOLEAN, hides : SUBSET Event] /\ head \in Nat
  BY EventAssumption DEF Init
<1>2. Stream = [ledger |-> 0, sequence |-> 0, recent |-> <<>>, replay |-> None, backfill |-> None, log |-> <<>>]
  BY DEF Init, Stream
<1>3. Stream \in Streams /\ Once(Stream)
  BY <1>2 DEF Streams, Once, IsInjective, Range
<1>4. ledgerSeeded = FALSE /\ pc = "waiting" /\ cursor = None /\ startLedger = 0 /\ lastStartLedger = 0
      /\ stopped = FALSE /\ unsubscribed = FALSE /\ consecutiveFailures = 0
  BY DEF Init
<1>5. EventTypes
  BY <1>1, <1>3, <1>4 DEF EventTypes
<1>6. FailuresExact
  BY <1>4, EventFacts DEF FailuresExact
<1>7. Unseeded /\ Follows
  BY <1>2, <1>4 DEF Unseeded, Follows
<1> QED BY <1>3, <1>5, <1>6, <1>7 DEF EventInv

\* What is stored is what the handlers have collected.
LEMMA StreamStored == ASSUME NEW st \in Streams, SetStream(st) PROVE Stream' = st
BY DEF SetStream, Stream, Streams

\* The steps around the fetches.
LEMMA OtherStepsKeep ==
  ASSUME EventInv, CloseLedger \/ Poll \/ Seed \/ PollFails \/ Unsubscribe \/ UNCHANGED vars
  PROVE  EventInv'
<1>0. UNCHANGED <<streamVars, node, cursor>> /\ Stream' = Stream
  BY DEF CloseLedger, Poll, Seed, PollFails, Unsubscribe, vars, pollVars, streamVars, Stream
<1>1. /\ node' \in [cursor : BOOLEAN, hides : SUBSET Event] /\ Stream' \in Streams /\ Once(Stream')
      /\ cursor' \in 0 .. Events \cup {None}
  BY <1>0 DEF EventInv, EventTypes
<1>2. /\ head' \in Nat /\ head' >= head
      /\ pc' \in {"waiting", "seeding", "fetching", "over"}
      /\ startLedger' \in Nat /\ lastStartLedger' \in Nat
      /\ ledgerSeeded' \in BOOLEAN /\ stopped' \in BOOLEAN /\ unsubscribed' \in BOOLEAN
  <2>1. CASE CloseLedger
    BY <2>1 DEF CloseLedger, pollVars, EventInv, EventTypes
  <2>2. CASE Poll
    BY <2>2 DEF Poll, EventInv, EventTypes
  <2>3. CASE Seed
    BY <2>3 DEF Seed, EventInv, EventTypes
  <2>4. CASE PollFails
    BY <2>4 DEF PollFails, Schedule, EventInv, EventTypes
  <2>5. CASE Unsubscribe
    BY <2>5 DEF Unsubscribe, EventInv, EventTypes
  <2>6. CASE UNCHANGED vars
    BY <2>6 DEF vars, pollVars, EventInv, EventTypes
  <2> QED BY <2>1, <2>2, <2>3, <2>4, <2>5, <2>6
<1>3. FailuresExact'
  <2>1. CASE CloseLedger \/ UNCHANGED vars
    BY <2>1 DEF CloseLedger, vars, pollVars, EventInv, FailuresExact
  <2>2. CASE Poll \/ Seed \/ Unsubscribe
    BY <2>2 DEF Poll, Seed, Unsubscribe, EventInv, FailuresExact
  <2>3. CASE PollFails
    <3>1. /\ consecutiveFailures \in 0 .. MaxFailures /\ consecutiveFailures < MaxFailures
          /\ MaxFailures \in Nat
      BY <2>3, EventFacts DEF PollFails, EventInv, FailuresExact
    <3>2. /\ consecutiveFailures' = consecutiveFailures + 1
          /\ pc' # "over" => ~(consecutiveFailures' >= MaxFailures)
      BY <2>3 DEF PollFails, Schedule
    <3> QED BY <3>1, <3>2 DEF FailuresExact
  <2> QED BY <2>1, <2>2, <2>3
<1>4. Unseeded'
  <2>1. CASE CloseLedger \/ UNCHANGED vars
    BY <1>0, <2>1 DEF CloseLedger, vars, pollVars, EventInv, Unseeded
  <2>2. CASE Poll \/ PollFails \/ Unsubscribe
    BY <1>0, <2>2 DEF Poll, PollFails, Schedule, Unsubscribe, EventInv, Unseeded
  <2>3. CASE Seed
    BY <1>0, <2>3 DEF Seed, Unseeded
  <2> QED BY <2>1, <2>2, <2>3
<1>6. head' \in Nat /\ head' >= head
  BY <1>2
<1>5. Follows'
  <2>1. CASE Seed
    <3>1. /\ lastStartLedger' = head /\ startLedger' = head /\ UNCHANGED <<head, unsubscribed>>
          /\ cursor' = None
          /\ Stream' = [ledger |-> 0, sequence |-> 0, recent |-> <<>>,
                        replay |-> None, backfill |-> None, log |-> <<>>]
      BY <1>0, <2>1 DEF Seed, EventInv, Unseeded
    <3> DEFINE b == Before(head)
    <3>2. /\ head \in Nat /\ head + 1 \in Nat /\ b \in 0 .. Events /\ Before(head + 1) \in 0 .. Events
          /\ \A e \in Event : EventLedger[e] < head <=> e <= b
          /\ \A e \in Event : EventLedger[e] < head + 1 <=> e <= Before(head + 1)
      BY BeforeExact DEF EventInv, EventTypes
    <3>3. b <= Before(head + 1)
      BY <3>2, BeforeGrows
    <3>4. Position' = b /\ Base' = b
      BY <3>1 DEF Position, Base, Before
    <3>5. Ordered(Stream, Position)'
      <4> DEFINE none == <<>>
      <4>1. Len(none) = 0 /\ DOMAIN none = {} /\ Range(none) = {}
        BY DEF Range
      <4>2. b \in b .. Events /\ b - b = 0
        BY <3>2, EventFacts
      <4> QED BY <3>1, <3>4, <4>1, <4>2 DEF Ordered
    <3> QED BY <3>1, <3>3, <3>4, <3>5 DEF Follows, Before
  <2>2. CASE ~Seed
    <3>1. /\ UNCHANGED <<ledgerSeeded, startLedger, lastStartLedger>> /\ (unsubscribed => unsubscribed')
          /\ UNCHANGED <<node, cursor>>
      BY <1>0, <2>2 DEF CloseLedger, Poll, PollFails, Unsubscribe, vars, pollVars, EventInv, EventTypes
    <3> SUFFICES ASSUME node.cursor, node.hides = {}, ledgerSeeded
                 PROVE  /\ startLedger = lastStartLedger
                        /\ Ordered(Stream, Position)' /\ (Position <= Before(head + 1))'
      BY <3>1 DEF Follows
    <3>2. /\ startLedger = lastStartLedger
          /\ Ordered(Stream, Position) /\ Position <= Before(head + 1)
      BY DEF EventInv, Follows
    <3>3. Position' = Position /\ Base' = Base
      BY <3>1 DEF Position, Base, Before
    <3>4. Ordered(Stream, Position)'
      BY <1>0, <3>1, <3>2, <3>3 DEF Ordered
    <3>5. /\ Before(head + 1) \in Nat /\ Before(head' + 1) \in Nat
          /\ Before(head + 1) <= Before(head' + 1)
      <4>1. head \in Nat
        BY DEF EventInv, EventTypes
      <4> QED BY <1>6, <4>1, BeforeGrows
    <3>6. (Position <= Before(head + 1))'
      <4>1. lastStartLedger \in Nat
        BY DEF EventInv, EventTypes
      <4>2. Base \in 0 .. Events /\ Events \in Nat
        BY <4>1, BeforeExact, EventFacts DEF Base
      <4>3. Position \in Nat
        BY <3>2, <4>2 DEF Ordered
      <4>4. Position <= Before(head' + 1)
        BY <3>2, <3>5, <4>3
      <4> QED BY <3>3, <4>4 DEF Before
    <3> QED BY <3>2, <3>4, <3>6
  <2> QED BY <2>1, <2>2
<1> QED BY <1>1, <1>2, <1>3, <1>4, <1>5 DEF EventInv, EventTypes

-----------------------------------------------------------------------------
(* A poll that is answered                                                 *)

\* The events the node may answer with: all but those it leaves out.
Reach == IF cursor # None THEN After(cursor) ELSE From(startLedger)

LEMMA ClosedExact ==
  ASSUME head \in Nat
  PROVE  /\ {e \in Event : Closed(e)} \in SUBSET Event
         /\ Cardinality({e \in Event : Closed(e)}) = Before(head + 1)
         /\ Before(head + 1) \in 0 .. Events
         /\ \A e \in Event : Closed(e) <=> e <= Before(head + 1)
<1>1. head + 1 \in Nat
  OBVIOUS
<1>2. \A e \in Event : Closed(e) <=> EventLedger[e] < head + 1
  BY EventFacts DEF Closed
<1>3. {e \in Event : Closed(e)} = {e \in Event : EventLedger[e] < head + 1}
  BY <1>2
<1> QED BY <1>1, <1>2, <1>3, BeforeExact DEF Before

\* Under Follows a poll asks for the events right after Position.
LEMMA ReachExact ==
  ASSUME head \in Nat, lastStartLedger \in Nat, startLedger = lastStartLedger,
         cursor \in 0 .. Events \cup {None}
  PROVE  Position \in 0 .. Events /\ Reach = Position + 1 .. Before(head + 1)
<1>1. /\ Before(head + 1) \in 0 .. Events /\ Events \in Nat /\ Event = 1 .. Events
      /\ \A e \in Event : Closed(e) <=> e <= Before(head + 1)
  BY ClosedExact, EventFacts
<1>2. CASE cursor # None
  <2>1. Position = cursor /\ Reach = {e \in Event : Closed(e) /\ e > cursor} /\ cursor \in 0 .. Events
    BY <1>2 DEF Position, Reach, After
  <2> QED BY <1>1, <2>1
<1>3. CASE cursor = None
  <2>1. Base \in 0 .. Events /\ \A e \in Event : EventLedger[e] < lastStartLedger <=> e <= Base
    BY BeforeExact DEF Base
  <2>2. Position = Base /\ Reach = {e \in Event : Closed(e) /\ EventLedger[e] >= lastStartLedger}
    BY <1>3 DEF Position, Reach, From
  <2>3. \A e \in Event : EventLedger[e] >= lastStartLedger <=> e > Base
    BY <1>1, <2>1, EventFacts
  <2>4. Reach = {e \in Event : Closed(e) /\ e > Base}
    BY <2>2, <2>3
  <2> QED BY <1>1, <2>1, <2>2, <2>4
<1> QED BY <1>2, <1>3

\* The answer of a node that leaves nothing out is the page, and the page is
\* the run of events after Position.
LEMMA AnswerExact ==
  ASSUME NEW p \in 0 .. Events, NEW c \in 0 .. Events
  PROVE  \E n \in Nat : /\ Page(p + 1 .. c, PageLimit) = [i \in 1 .. n |-> p + i]
                        /\ Page(ToSet(Page(p + 1 .. c, PageLimit)) \ {}, PageLimit) = [i \in 1 .. n |-> p + i]
                        /\ n = 0 \/ p + n <= c
                        /\ n = 0 => c <= p
<1> DEFINE page == Page(p + 1 .. c, PageLimit)
           answer == Page(ToSet(page) \ {}, PageLimit)
<1>0. PageLimit \in Nat /\ PageLimit > 0 /\ p \in Nat /\ c \in Nat /\ Events \in Nat
  BY EventFacts
<1>1. PICK n \in Nat : /\ page = [i \in 1 .. n |-> p + i]
                       /\ n <= PageLimit /\ (n = 0 \/ p + n <= c)
                       /\ n = 0 => PageLimit = 0 \/ c <= p
  BY <1>0, PageOfRun
<1>2. p + n \in 0 .. Events
  BY <1>0, <1>1
<1>3. ToSet(page) \ {} = p + 1 .. p + n
  <2>1. ToSet(page) = {p + i : i \in 1 .. n}
    BY <1>1 DEF ToSet
  <2>2. {p + i : i \in 1 .. n} = p + 1 .. p + n
    <3>1. ASSUME NEW e \in p + 1 .. p + n PROVE e \in {p + i : i \in 1 .. n}
      <4>1. e - p \in 1 .. n /\ p + (e - p) = e
        BY <1>0
      <4> QED BY <4>1
    <3>2. ASSUME NEW i \in 1 .. n PROVE p + i \in p + 1 .. p + n
      BY <1>0
    <3> QED BY <3>1, <3>2
  <2> QED BY <2>1, <2>2
<1>4. PICK m \in Nat : /\ Page(p + 1 .. p + n, PageLimit) = [i \in 1 .. m |-> p + i]
                       /\ m <= PageLimit /\ (m = 0 \/ p + m <= p + n)
                       /\ (m = PageLimit \/ m = 0 \/ p + m = p + n)
                       /\ m = 0 => PageLimit = 0 \/ p + n <= p
  BY <1>0, <1>2, PageOfRun
<1>5. m = n
  BY <1>0, <1>1, <1>4
<1>6. answer = [i \in 1 .. n |-> p + i]
  BY <1>3, <1>4, <1>5
<1>7. n = 0 => c <= p
  BY <1>0, <1>1
<1>8. page = [i \in 1 .. n |-> p + i] /\ (n = 0 \/ p + n <= c)
  BY <1>1
<1> QED BY <1>6, <1>7, <1>8

LEMMA FetchKeeps == ASSUME EventInv, Fetch PROVE EventInv'
<1>0. /\ node \in [cursor : BOOLEAN, hides : SUBSET Event] /\ head \in Nat
      /\ startLedger \in Nat /\ lastStartLedger \in Nat /\ Stream \in Streams /\ Once(Stream)
      /\ cursor \in 0 .. Events \cup {None}
      /\ ledgerSeeded \in BOOLEAN /\ stopped \in BOOLEAN /\ unsubscribed \in BOOLEAN
  BY DEF EventInv, EventTypes
<1>1. /\ pc = "fetching" /\ consecutiveFailures' = 0
      /\ UNCHANGED <<node, head, ledgerSeeded, stopped, unsubscribed>>
      /\ pc' \in {"waiting", "over"}
  BY DEF Fetch, Schedule
<1> DEFINE page == Page(Reach, PageLimit)
           last == IF page # <<>> THEN page[Len(page)] ELSE Cardinality({e \in Event : Closed(e)})
<1>2. PICK missing \in SUBSET node.hides :
         /\ SetStream(PolledPage(Stream, Page(ToSet(page) \ missing, PageLimit)))
         /\ Advance(last)
  BY DEF Fetch, Reach
<1> DEFINE answer == Page(ToSet(page) \ missing, PageLimit)
           new == PolledPage(Stream, answer)
<1>3. Reach \in SUBSET Event
  BY DEF Reach, After, From
<1>4. page \in Seq(Event)
  <2>1. page \in Seq(Reach)
    BY <1>3, EventFacts, PageOfSet
  <2> HIDE DEF page
  <2> QED BY <1>3, <2>1
<1>5. last \in 0 .. Events
  <2>1. CASE page # <<>>
    <3> HIDE DEF page
    <3>1. Len(page) \in DOMAIN page /\ page[Len(page)] \in Event
      BY <1>4, <2>1
    <3> QED BY <2>1, <3>1, EventFacts
  <2>2. CASE page = <<>>
    BY <1>0, <2>2, ClosedExact
  <2> QED BY <2>1, <2>2
<1>6. ToSet(page) \ missing \in SUBSET Event
  <2> HIDE DEF page
  <2> QED BY <1>4 DEF ToSet
<1>7. new \in Streams /\ Once(new)
  <2>1. PICK n \in Nat : DOMAIN answer = 1 .. n /\ \A i \in 1 .. n : answer[i] \in ToSet(page) \ missing
    BY <1>6, EventFacts, PageOfSet
  <2>2. \A i \in 1 .. n : answer[i] \in Event
    BY <1>6, <2>1
  <2> HIDE DEF answer
  <2> QED BY <1>0, <2>1, <2>2, PageKeeps
<1>8. Stream' = new
  <2> HIDE DEF new
  <2>1. SetStream(new)
    BY <1>2 DEF new
  <2> QED BY <1>7, <2>1, StreamStored
<1>9. /\ cursor' \in 0 .. Events \cup {None} /\ startLedger' \in Nat /\ lastStartLedger' \in Nat
      /\ node.cursor => cursor' = last /\ UNCHANGED <<startLedger, lastStartLedger>>
  <2> HIDE DEF last
  <2> QED BY <1>0, <1>2, <1>5 DEF Advance
<1>10. ledgerSeeded
  BY <1>1 DEF EventInv, Unseeded
<1>11. Follows'
  <2> SUFFICES ASSUME node.cursor, node.hides = {}
               PROVE  /\ startLedger' = lastStartLedger'
                      /\ Ordered(Stream, Position)' /\ (Position <= Before(head + 1))'
    BY <1>1 DEF Follows
  <2> DEFINE p == Position
             c == Before(head + 1)
  <2>1. startLedger = lastStartLedger /\ Ordered(Stream, p) /\ p <= c
    BY <1>10 DEF EventInv, Follows
  <2>2. p \in 0 .. Events /\ c \in 0 .. Events /\ Reach = p + 1 .. c
    BY <1>0, <2>1, ReachExact, ClosedExact
  <2>3. missing = {}
    OBVIOUS
  <2>4. PICK n \in Nat : /\ page = [i \in 1 .. n |-> p + i] /\ answer = [i \in 1 .. n |-> p + i]
                         /\ n = 0 \/ p + n <= c
                         /\ n = 0 => c <= p
    <3> HIDE DEF p, c
    <3> QED BY <2>2, <2>3, AnswerExact
  <2>5. p \in Nat /\ c \in Nat /\ Events \in Nat /\ p + n <= c /\ p + n <= Events
    BY <2>1, <2>2, <2>4, EventFacts
  <2>6. Ordered(new, p + n)
    <3> HIDE DEF p, answer
    <3>1. RunAfter(answer, p, n)
      BY <2>4 DEF RunAfter
    <3> QED BY <1>0, <2>1, <2>5, <3>1, PageOrders DEF new
  <2>7. last = p + n
    <3>1. CASE n = 0
      <4>1. page = <<>>
        <5> HIDE DEF p, page
        <5>1. page = [i \in 1 .. 0 |-> p + i]
          BY <2>4, <3>1
        <5> QED BY <1>4, <5>1
      <4>2. p = c
        BY <2>1, <2>4, <2>5, <3>1
      <4>3. Cardinality({e \in Event : Closed(e)}) = c
        BY <1>0, ClosedExact
      <4> QED BY <2>5, <3>1, <4>1, <4>2, <4>3
    <3>2. CASE n # 0
      <4> HIDE DEF p, page
      <4>1. DOMAIN page = 1 .. n /\ n \in 1 .. n /\ page[n] = p + n
        BY <2>4, <3>2
      <4>2. Len(page) = n /\ page # <<>>
        BY <1>4, <3>2, <4>1
      <4> QED BY <4>1, <4>2
    <3> QED BY <3>1, <3>2
  <2>8. cursor' = p + n /\ UNCHANGED <<startLedger, lastStartLedger>>
    BY <1>9, <2>7
  <2>9. Position' = p + n /\ Base' = Base
    <3>1. cursor' # None
      BY <2>5, <2>8, EventFacts
    <3> QED BY <2>8, <3>1 DEF Position, Base, Before
  <2>10. Ordered(Stream, Position)'
    <3> HIDE DEF p, new
    <3>1. unsubscribed' = unsubscribed
      BY <1>1
    <3> QED BY <1>8, <2>6, <2>9, <3>1 DEF Ordered
  <2>11. (Position <= Before(head + 1))'
    BY <1>1, <2>5, <2>9 DEF Before
  <2> QED BY <2>1, <2>8, <2>10, <2>11
<1>12. EventTypes'
  <2> HIDE DEF new, last
  <2> QED BY <1>0, <1>1, <1>7, <1>8, <1>9 DEF EventTypes
<1>13. FailuresExact' /\ Unseeded'
  BY <1>1, <1>10, EventFacts DEF FailuresExact, Unseeded
<1> HIDE DEF new
<1> QED BY <1>7, <1>8, <1>11, <1>12, <1>13 DEF EventInv, Once

-----------------------------------------------------------------------------
(* The repairs                                                             *)

\* What a repair dispatches are events of the contract.
LEMMA RepairKeeps ==
  ASSUME EventInv, NEW S \in SUBSET Event
  PROVE  LET new == DispatchPage(Stream, Page(S, BackfillLimit)) IN
         /\ new \in Streams /\ Once(new)
         /\ S = {} => new = Stream
<1> DEFINE missed == Page(S, BackfillLimit)
<1>0. Stream \in Streams /\ Once(Stream) /\ lastStartLedger \in Nat /\ BackfillLimit \in Nat
  BY EventFacts DEF EventInv, EventTypes
<1>1. PICK n \in Nat : DOMAIN missed = 1 .. n /\ \A i \in 1 .. n : missed[i] \in S
  BY <1>0, PageOfSet
<1> HIDE DEF missed
<1>2. \A i \in 1 .. n : missed[i] \in Event
  BY <1>1
<1>3. DispatchPage(Stream, missed) \in Streams /\ Once(DispatchPage(Stream, missed))
  BY <1>0, <1>1, <1>2, PageKeeps
<1>4. ASSUME S = {} PROVE DispatchPage(Stream, missed) = Stream
  <2>0. PICK h : DispatchStates(h, Stream, missed, n) /\ DispatchPage(Stream, missed) = h[n]
    BY <1>1, FoldDispatch
  <2>1. /\ h[0] = Stream /\ \A i \in 1 .. n : h[i] = Dispatch(h[i - 1], missed[i])
        /\ DispatchPage(Stream, missed) = h[n]
    BY <2>0 DEF DispatchStates
  <2>2. n = 0
    BY <1>1, <1>4
  <2> QED BY <2>1, <2>2
<1> QED BY <1>3, <1>4 DEF missed

\* The events a poll's answer gave the application are not disturbed by a
\* repair: where the node's pages follow one another there is nothing to repair.
LEMMA RepairsKeep ==
  ASSUME EventInv, ReplayGap \/ BackfillLedgerGap \/ ReplayFails \/ BackfillFails
  PROVE  EventInv'
<1>0. /\ Stream \in Streams /\ Once(Stream)
      /\ UNCHANGED <<node, head, pc, startLedger, lastStartLedger, ledgerSeeded, cursor,
                     consecutiveFailures, stopped, unsubscribed>>
  BY DEF EventInv, EventTypes, ReplayGap, BackfillLedgerGap, ReplayFails, BackfillFails, pollVars
<1>1. ASSUME NEW st \in Streams, Once(st),
             \/ replay # None /\ Stream' = [st EXCEPT !.replay = None]
             \/ /\ backfill # None /\ Stream' = [st EXCEPT !.backfill = None]
                /\ node.cursor /\ node.hides = {} /\ ledgerSeeded => st = Stream
      PROVE  EventInv'
  <2>0. replay = Stream.replay /\ backfill = Stream.backfill
    BY DEF Stream
  <2>1. /\ Stream' \in Streams /\ Stream'.log = st.log /\ Stream'.recent = st.recent
        /\ Stream'.sequence = st.sequence /\ Stream'.ledger = st.ledger
        /\ backfill # None /\ Stream' = [st EXCEPT !.backfill = None] =>
              Stream'.backfill = None /\ Stream'.replay = st.replay
    BY <1>1 DEF Streams
  <2>2. Once(Stream)'
    BY <1>1, <2>1 DEF Once
  <2>3. ledgerSeeded
    BY <1>1, <2>0 DEF EventInv, Unseeded
  <2>4. Follows'
    <3> SUFFICES ASSUME node.cursor, node.hides = {}
                 PROVE  /\ startLedger' = lastStartLedger'
                        /\ Ordered(Stream, Position)' /\ (Position <= Before(head + 1))'
      BY <1>0 DEF Follows
    <3>1. startLedger = lastStartLedger /\ Ordered(Stream, Position) /\ Position <= Before(head + 1)
      BY <2>3 DEF EventInv, Follows
    <3>2. Stream.replay = None
      BY <3>1 DEF Ordered
    <3>3. st = Stream /\ backfill # None /\ Stream' = [st EXCEPT !.backfill = None]
      BY <1>1, <2>0, <2>3, <3>2
    <3>4. Position' = Position /\ Base' = Base
      BY <1>0 DEF Position, Base, Before
    <3>5. Ordered(Stream, Position)'
      BY <1>0, <2>1, <3>1, <3>2, <3>3, <3>4 DEF Ordered
    <3> QED BY <1>0, <3>1, <3>4, <3>5 DEF Before
  <2>5. EventTypes'
    BY <1>0, <2>1 DEF EventInv, EventTypes
  <2>6. FailuresExact' /\ Unseeded'
    BY <1>0, <2>3 DEF EventInv, FailuresExact, Unseeded
  <2> QED BY <2>2, <2>4, <2>5, <2>6 DEF EventInv
<1>2. CASE ReplayGap
  <2> DEFINE S == {e \in ToSet(Page(From(replay.from), BackfillLimit)) : e > replay.expected /\ e < replay.actual}
             st == DispatchPage(Stream, Page(S, BackfillLimit))
  <2>1. S \in SUBSET Event
    <3>1. From(replay.from) \in SUBSET Event
      BY DEF From
    <3>2. Page(From(replay.from), BackfillLimit) \in Seq(From(replay.from))
      BY <3>1, EventFacts, PageOfSet
    <3> QED BY <3>1, <3>2 DEF ToSet
  <2>2. replay # None /\ SetStream([st EXCEPT !.replay = None])
    BY <1>2 DEF ReplayGap
  <2> HIDE DEF S
  <2>3. st \in Streams /\ Once(st)
    BY <2>1, RepairKeeps
  <2> HIDE DEF st
  <2>4. [st EXCEPT !.replay = None] \in Streams
    BY <2>3 DEF Streams
  <2>5. Stream' = [st EXCEPT !.replay = None]
    BY <2>2, <2>4, StreamStored
  <2> QED BY <1>1, <2>2, <2>3, <2>5
<1>3. CASE BackfillLedgerGap
  <2> DEFINE fetched == Page(From(backfill.expected), BackfillLimit)
             S == {e \in ToSet(fetched) : EventLedger[e] < backfill.actual}
             st == DispatchPage(Stream, Page(S, BackfillLimit))
  <2>0. ToSet(fetched) \subseteq From(backfill.expected) /\ From(backfill.expected) \subseteq Event
    <3>1. From(backfill.expected) \in SUBSET Event
      BY DEF From
    <3>2. fetched \in Seq(From(backfill.expected))
      BY <3>1, EventFacts, PageOfSet
    <3> HIDE DEF fetched
    <3> QED BY <3>1, <3>2 DEF ToSet
  <2>1. S \in SUBSET Event
    BY <2>0
  <2>2. backfill # None /\ SetStream([st EXCEPT !.backfill = None])
    BY <1>3 DEF BackfillLedgerGap
  <2>3. ASSUME node.cursor, node.hides = {}, ledgerSeeded PROVE S = {}
    <3>1. \A e \in Event : ~(backfill.expected <= EventLedger[e] /\ EventLedger[e] < backfill.actual)
      BY <2>2, <2>3 DEF EventInv, Follows, Ordered, Stream
    <3>2. \A e \in From(backfill.expected) : backfill.expected <= EventLedger[e]
      <4>1. backfill.expected \in Nat
        BY <1>0, <2>2 DEF Streams, Backfills, Stream
      <4> QED BY <4>1, EventFacts DEF From
    <3> HIDE DEF fetched
    <3> QED BY <2>0, <3>1, <3>2
  <2> HIDE DEF S
  <2>4. st \in Streams /\ Once(st) /\ (S = {} => st = Stream)
    BY <2>1, RepairKeeps
  <2> HIDE DEF st
  <2>5. [st EXCEPT !.backfill = None] \in Streams
    BY <2>4 DEF Streams
  <2>6. Stream' = [st EXCEPT !.backfill = None]
    BY <2>2, <2>5, StreamStored
  <2> QED BY <1>1, <2>2, <2>3, <2>4, <2>6
<1>4. CASE ReplayFails
  <2>1. Stream' = [Stream EXCEPT !.replay = None]
    BY <1>4 DEF ReplayFails, Stream
  <2> QED BY <1>0, <1>1, <1>4, <2>1 DEF ReplayFails
<1>5. CASE BackfillFails
  <2>1. Stream' = [Stream EXCEPT !.backfill = None]
    BY <1>5 DEF BackfillFails, Stream
  <2> QED BY <1>0, <1>1, <1>5, <2>1 DEF BackfillFails
<1> QED BY <1>2, <1>3, <1>4, <1>5

-----------------------------------------------------------------------------
\* Every reachable state satisfies the inductive invariant.
THEOREM EventInvariant == Spec => []EventInv
<1>1. ASSUME EventInv, [Next]_vars PROVE EventInv'
  BY <1>1, OtherStepsKeep, FetchKeeps, RepairsKeep DEF Next
<1> QED BY <1>1, InitEvents, PTL DEF Spec

\* Each event is handed to the application at most once, if the window holds
\* every event; in order and without a hole from the ledger the subscription
\* started at, if the node has cursors and leaves nothing out; and the failures
\* in a row are counted up to maxConsecutiveFailures.
THEOREM AlwaysDeliveredExactly == Spec => []DeliveredExactly
<1>1. ASSUME EventInv PROVE DeliveredExactly
  <2>0. Stream.log = log /\ log \in Seq(Event) /\ lastStartLedger \in Nat
    BY <1>1 DEF EventInv, EventTypes, Streams, Stream
  <2>4. Base \in Nat
    <3>1. Base \in 0 .. Events /\ Events \in Nat
      BY <2>0, BeforeExact, EventFacts DEF Base
    <3> QED BY <3>1
  <2>1. AtMostOnce
    BY <1>1, <2>0 DEF EventInv, Once, AtMostOnce
  <2>2. GaplessOrder
    <3> SUFFICES ASSUME node.cursor, node.hides = {}, NEW i \in DOMAIN log
                 PROVE  log[i] = i + Base
      BY DEF GaplessOrder, Base, Before
    <3>1. ledgerSeeded
      <4>1. log # <<>>
        OBVIOUS
      <4> QED BY <1>1, <2>0, <4>1 DEF EventInv, Unseeded
    <3>2. log[i] = Base + i
      BY <1>1, <2>0, <3>1 DEF EventInv, Follows, Ordered
    <3>3. i \in Nat
      BY <2>0
    <3> QED BY <2>4, <3>2, <3>3
  <2>3. consecutiveFailures <= MaxFailures
    BY <1>1, EventFacts DEF EventInv, FailuresExact
  <2> QED BY <2>1, <2>2, <2>3 DEF DeliveredExactly
<1> QED BY <1>1, EventInvariant, PTL

-----------------------------------------------------------------------------
(* Silence                                                                 *)

\* After unsubscribe() the handling of an event leaves the log alone.
LEMMA OneSilent ==
  ASSUME unsubscribed, NEW st \in Streams, NEW e \in Event, lastStartLedger \in Nat
  PROVE  /\ Dispatch(st, e) \in Streams /\ Dispatch(st, e).log = st.log
         /\ Polled(st, e) \in Streams /\ Polled(st, e).log = st.log
<1>1. ASSUME NEW any \in Streams PROVE Dispatch(any, e) \in Streams /\ Dispatch(any, e).log = any.log
  BY DispatchChanges
<1> DEFINE observed == Observe(st, e)
           told == Dispatch(observed, e)
<1>2. observed \in Streams /\ observed.log = st.log
  BY ObserveChanges
<1>3. told \in Streams /\ told.log = st.log
  <2> HIDE DEF observed
  <2> QED BY <1>1, <1>2
<1>4. CheckSequence(told, e) \in Streams /\ CheckSequence(told, e).log = st.log
  <2> HIDE DEF told
  <2> QED BY <1>3, CheckChanges
<1>5. Polled(st, e) = IF Seen(observed, e) THEN observed ELSE CheckSequence(told, e)
  BY DEF Polled
<1> HIDE DEF observed, told
<1> QED BY <1>1, <1>2, <1>4, <1>5

LEMMA PageSilent ==
  ASSUME unsubscribed, NEW st \in Streams, lastStartLedger \in Nat,
         NEW page, NEW n \in Nat, DOMAIN page = 1 .. n, \A i \in 1 .. n : page[i] \in Event
  PROVE  PolledPage(st, page).log = st.log /\ DispatchPage(st, page).log = st.log
<1>1. PolledPage(st, page).log = st.log
  <2>0. PICK h : PolledStates(h, st, page, n) /\ PolledPage(st, page) = h[n]
    BY FoldPolled
  <2>1. /\ h[0] = st /\ \A i \in 1 .. n : h[i] = Polled(h[i - 1], page[i])
        /\ PolledPage(st, page) = h[n]
    BY <2>0 DEF PolledStates
  <2> DEFINE T == {i \in 0 .. n : h[i] \in Streams /\ h[i].log = st.log}
  <2>2. 0 \in T
    BY <2>1
  <2>3. ASSUME NEW i \in 0 .. n - 1, i \in T PROVE i + 1 \in T
    <3>1. i + 1 \in 1 .. n /\ (i + 1) - 1 = i /\ page[i + 1] \in Event
      OBVIOUS
    <3>2. h[i + 1] = Polled(h[i], page[i + 1])
      BY <2>1, <3>1
    <3> QED BY <2>3, <3>1, <3>2, OneSilent
  <2>4. n \in T
    <3> HIDE DEF T
    <3>1. 0 .. n \subseteq T
      BY <2>2, <2>3, UpTo
    <3> QED BY <3>1
  <2> QED BY <2>1, <2>4
<1>2. DispatchPage(st, page).log = st.log
  <2>0. PICK h : DispatchStates(h, st, page, n) /\ DispatchPage(st, page) = h[n]
    BY FoldDispatch
  <2>1. /\ h[0] = st /\ \A i \in 1 .. n : h[i] = Dispatch(h[i - 1], page[i])
        /\ DispatchPage(st, page) = h[n]
    BY <2>0 DEF DispatchStates
  <2> DEFINE T == {i \in 0 .. n : h[i] \in Streams /\ h[i].log = st.log}
  <2>2. 0 \in T
    BY <2>1
  <2>3. ASSUME NEW i \in 0 .. n - 1, i \in T PROVE i + 1 \in T
    <3>1. i + 1 \in 1 .. n /\ (i + 1) - 1 = i /\ page[i + 1] \in Event
      OBVIOUS
    <3>2. h[i + 1] = Dispatch(h[i], page[i + 1])
      BY <2>1, <3>1
    <3> QED BY <2>3, <3>1, <3>2, OneSilent
  <2>4. n \in T
    <3> HIDE DEF T
    <3>1. 0 .. n \subseteq T
      BY <2>2, <2>3, UpTo
    <3> QED BY <3>1
  <2> QED BY <2>1, <2>4
<1> QED BY <1>1, <1>2

\* Once unsubscribe() has returned no event reaches the application, whatever a
\* poll and two repairs still in flight are answered.
THEOREM AlwaysSilent == Spec => SilentAfterUnsubscribe
<1>1. ASSUME EventInv, [Next]_vars, unsubscribed PROVE log' = log
  <2>0. /\ Stream \in Streams /\ lastStartLedger \in Nat /\ Stream.log = log
        /\ PageLimit \in Nat /\ BackfillLimit \in Nat
    BY <1>1, EventFacts DEF EventInv, EventTypes, Stream
  <2>1. ASSUME NEW S \in SUBSET Event, NEW limit \in Nat
        PROVE  /\ PolledPage(Stream, Page(S, limit)).log = log
               /\ DispatchPage(Stream, Page(S, limit)).log = log
               /\ DispatchPage(Stream, Page(S, limit)) \in Streams
    <3>1. PICK n \in Nat : /\ DOMAIN Page(S, limit) = 1 .. n
                           /\ \A i \in 1 .. n : Page(S, limit)[i] \in S
      BY PageOfSet
    <3>2. \A i \in 1 .. n : Page(S, limit)[i] \in Event
      BY <3>1
    <3>3. Once(Stream)
      BY <1>1 DEF EventInv
    <3> QED BY <1>1, <2>0, <3>1, <3>2, <3>3, PageSilent, PageKeeps
  <2>2. ASSUME NEW R \in SUBSET Event, NEW limit \in Nat PROVE ToSet(Page(R, limit)) \in SUBSET Event
    <3>1. Page(R, limit) \in Seq(R)
      BY PageOfSet
    <3> QED BY <3>1 DEF ToSet
  <2>3. CASE Fetch
    <3>1. PICK missing \in SUBSET node.hides :
             SetStream(PolledPage(Stream, Page(ToSet(Page(Reach, PageLimit)) \ missing, PageLimit)))
      BY <2>3 DEF Fetch, Reach
    <3>2. Reach \in SUBSET Event
      BY DEF Reach, After, From
    <3> DEFINE answered == ToSet(Page(Reach, PageLimit)) \ missing
    <3>3. answered \in SUBSET Event
      BY <2>0, <2>2, <3>2
    <3>4. log' = PolledPage(Stream, Page(answered, PageLimit)).log
      BY <3>1 DEF SetStream
    <3> HIDE DEF answered
    <3> QED BY <2>0, <2>1, <3>3, <3>4
  <2>4. CASE ReplayGap
    <3> DEFINE S == {e \in ToSet(Page(From(replay.from), BackfillLimit)) :
                        e > replay.expected /\ e < replay.actual}
    <3>1. SetStream([DispatchPage(Stream, Page(S, BackfillLimit)) EXCEPT !.replay = None])
      BY <2>4 DEF ReplayGap
    <3>2. From(replay.from) \in SUBSET Event
      BY DEF From
    <3>3. S \in SUBSET Event
      BY <2>0, <2>2, <3>2
    <3> HIDE DEF S
    <3>4. log' = [DispatchPage(Stream, Page(S, BackfillLimit)) EXCEPT !.replay = None].log
      BY <3>1 DEF SetStream
    <3>5. \A st \in Streams : [st EXCEPT !.replay = None].log = st.log
      BY DEF Streams
    <3> QED BY <2>0, <2>1, <3>3, <3>4, <3>5
  <2>5. CASE BackfillLedgerGap
    <3> DEFINE S == {e \in ToSet(Page(From(backfill.expected), BackfillLimit)) :
                        EventLedger[e] < backfill.actual}
    <3>1. SetStream([DispatchPage(Stream, Page(S, BackfillLimit)) EXCEPT !.backfill = None])
      BY <2>5 DEF BackfillLedgerGap
    <3>2. From(backfill.expected) \in SUBSET Event
      BY DEF From
    <3>3. S \in SUBSET Event
      BY <2>0, <2>2, <3>2
    <3> HIDE DEF S
    <3>4. log' = [DispatchPage(Stream, Page(S, BackfillLimit)) EXCEPT !.backfill = None].log
      BY <3>1 DEF SetStream
    <3>5. \A st \in Streams : [st EXCEPT !.backfill = None].log = st.log
      BY DEF Streams
    <3> QED BY <2>0, <2>1, <3>3, <3>4, <3>5
  <2>6. CASE ~(Fetch \/ ReplayGap \/ BackfillLedgerGap)
    <3>1. \/ CloseLedger \/ Poll \/ Seed \/ PollFails \/ Unsubscribe \/ ReplayFails \/ BackfillFails
          \/ UNCHANGED vars
      BY <1>1, <2>6 DEF Next
    <3> QED BY <3>1 DEF CloseLedger, Poll, Seed, PollFails, Unsubscribe, ReplayFails, BackfillFails,
                       vars, streamVars
  <2> QED BY <2>3, <2>4, <2>5, <2>6
<1>2. ASSUME EventInv, [Next]_vars PROVE [unsubscribed => log' = log]_vars
  BY <1>1, <1>2
<1> QED BY <1>2, EventInvariant, PTL DEF Spec, SilentAfterUnsubscribe

==============================================================================
