---------------------------- MODULE UsagesProofs ----------------------------
(***************************************************************************)
(* Proofs about Usages, for any number of keys, usages and slots.  All of   *)
(* them count entries: of every set of usages the list holds as many as are *)
(* wanted, or else the list has been full.                                  *)
(***************************************************************************)
EXTENDS Usages, FiniteSetTheorems, WellFoundedInduction, TLAPS

Lists == [1 .. Slots -> Usage \cup {NONE}]

\* How many entries of a list hold a usage of S, and how many are wanted when the keys
\* of d are down and the step s is played.
Count(l, S) == Cardinality(Positions(l, S))
Wants(d, s, S) == Cardinality({k \in d : UsageOf[k] \in S}) + Cardinality(Positions(s, S))

\* Never more than is wanted; and if fewer, the entries are all taken, by these and by
\* what is wanted besides.
Balanced(l, d, s, S) ==
  /\ Count(l, S) <= Wants(d, s, S)
  /\ Count(l, S) = Wants(d, s, S) \/ Count(l, S) + Wants(d, s, Usage \ S) >= Slots

\* Once the shifts have been turned around they are no longer what is wanted.
CountInv ==
  \A S \in SUBSET Usage :
    (~scanning => S \cap Shifts = {}) => Balanced(hid_usage_list, down, step, S)

IInv == TypeOK /\ CountInv /\ ShiftInverted

-----------------------------------------------------------------------------
(* Sizes and counts *)

LEMMA Sizes ==
  /\ Slots \in Nat /\ Slots = Cardinality(Modifiers) + BootKeys + ConsumerKeys
  /\ Cardinality(Modifiers) \in Nat \ {0} /\ BootKeys \in Nat \ {0}
  /\ ConsumerKeys \in Nat \ {0}
<1>1. IsFiniteSet(Modifiers)
  BY UsageAssumption, FS_Subset DEF Usage
<1>2. Cardinality(Modifiers) \in Nat
  BY <1>1, FS_CardinalityType
<1>3. Modifiers # {}
  BY DEF Modifiers, Shifts
<1>4. Cardinality(Modifiers) # 0
  BY <1>1, <1>3, FS_EmptySet
<1>. QED BY <1>2, <1>4, SlotAssumption DEF Slots

\* The least of a set of indices.
LEMMA Least ==
  ASSUME NEW n \in Nat, NEW P, P \subseteq 1 .. n, P # {}
  PROVE  Min(P) \in P
<1>. DEFINE R == OpToRel(<, Nat)
<1>1. R = {ss \in Nat \X Nat : ss[1] < ss[2]}
  BY DEF OpToRel
<1>2. IsWellFoundedOn(R, Nat)
  BY NatLessThanWellFounded
<1>3. P \subseteq Nat
  OBVIOUS
<1>. HIDE DEF R
<1>4. PICK x \in P : \A y \in P : <<y, x>> \notin R
  BY <1>2, <1>3, WFMin
<1>5. ASSUME NEW y \in P
      PROVE  x <= y
  <2>1. x \in Nat /\ y \in Nat
    BY <1>3
  <2>2. <<y, x>> \notin {ss \in Nat \X Nat : ss[1] < ss[2]}
    BY <1>1, <1>4
  <2>3. ~ (y < x)
    BY <2>1, <2>2
  <2>. QED BY <2>1, <2>3
<1>. QED BY <1>5 DEF Min

LEMMA PositionsType ==
  ASSUME NEW n \in Nat, NEW l, DOMAIN l = 1 .. n, NEW S
  PROVE  /\ Positions(l, S) \subseteq 1 .. n /\ IsFiniteSet(Positions(l, S))
         /\ Count(l, S) \in Nat /\ Count(l, S) <= n
<1>1. Positions(l, S) \in SUBSET (1 .. n)
  BY DEF Positions
<1>2. IsFiniteSet(1 .. n) /\ Cardinality(1 .. n) = n
  BY FS_Interval
<1>3. IsFiniteSet(Positions(l, S)) /\ Count(l, S) <= n
  BY <1>1, <1>2, FS_Subset DEF Count
<1>. QED BY <1>1, <1>3, FS_CardinalityType DEF Count

LEMMA PositionsSplit ==
  ASSUME NEW n \in Nat, NEW l, DOMAIN l = 1 .. n, NEW S, NEW T, S \cap T = {}
  PROVE  Count(l, S \cup T) = Count(l, S) + Count(l, T)
<1>. DEFINE P == Positions(l, S)
            Q == Positions(l, T)
<1>1. Positions(l, S \cup T) = P \cup Q /\ P \cap Q = {}
  BY DEF Positions
<1>2. IsFiniteSet(P) /\ IsFiniteSet(Q) /\ Count(l, S) \in Nat /\ Count(l, T) \in Nat
  BY PositionsType
<1>3. /\ Count(l, S) = Cardinality(P) /\ Count(l, T) = Cardinality(Q)
      /\ Count(l, S \cup T) = Cardinality(P \cup Q)
  BY <1>1 DEF Count
<1>. HIDE DEF P, Q
<1>4. Cardinality(P \cup Q) = Cardinality(P) + Cardinality(Q) - Cardinality(P \cap Q)
  BY <1>2, FS_Union
<1>5. Cardinality(P \cap Q) = 0
  BY <1>1, FS_EmptySet
<1>. QED BY <1>2, <1>3, <1>4, <1>5

\* A usage is in a list just when the list has an entry for it.
LEMMA CountSome ==
  ASSUME NEW n \in Nat, NEW l, DOMAIN l = 1 .. n, NEW S
  PROVE  Count(l, S) = 0 <=> Positions(l, S) = {}
  BY PositionsType, FS_EmptySet DEF Count

LEMMA ListDomain ==
  /\ \A l \in Lists : DOMAIN l = 1 .. Slots
  /\ \A s \in Seq(Usage) : Len(s) \in Nat /\ DOMAIN s = 1 .. Len(s)
  BY Sizes DEF Lists

LEMMA WantsType ==
  ASSUME NEW d, d \subseteq Keys, NEW s \in Seq(Usage), NEW S
  PROVE  /\ IsFiniteSet({k \in d : UsageOf[k] \in S})
         /\ Cardinality({k \in d : UsageOf[k] \in S}) \in Nat
         /\ Wants(d, s, S) \in Nat
<1>1. {k \in d : UsageOf[k] \in S} \in SUBSET Keys
  OBVIOUS
<1>2. IsFiniteSet({k \in d : UsageOf[k] \in S})
  BY <1>1, KeyAssumption, FS_Subset
<1>3. Cardinality({k \in d : UsageOf[k] \in S}) \in Nat
  BY <1>2, FS_CardinalityType
<1>4. Count(s, S) \in Nat
  BY PositionsType, ListDomain
<1>. QED BY <1>2, <1>3, <1>4 DEF Wants, Count

LEMMA WantsSplit ==
  ASSUME NEW d, d \subseteq Keys, NEW s \in Seq(Usage), NEW S, NEW T, S \cap T = {}
  PROVE  Wants(d, s, S \cup T) = Wants(d, s, S) + Wants(d, s, T)
<1>. DEFINE P == {k \in d : UsageOf[k] \in S}
            Q == {k \in d : UsageOf[k] \in T}
<1>1. {k \in d : UsageOf[k] \in S \cup T} = P \cup Q /\ P \cap Q = {}
  OBVIOUS
<1>2. /\ IsFiniteSet(P) /\ IsFiniteSet(Q)
      /\ Cardinality(P) \in Nat /\ Cardinality(Q) \in Nat
  BY WantsType
<1>3. Count(s, S \cup T) = Count(s, S) + Count(s, T)
  BY PositionsSplit, ListDomain
<1>4. Count(s, S) \in Nat /\ Count(s, T) \in Nat
  BY PositionsType, ListDomain
<1>5. /\ Wants(d, s, S) = Cardinality(P) + Count(s, S)
      /\ Wants(d, s, T) = Cardinality(Q) + Count(s, T)
      /\ Wants(d, s, S \cup T) = Cardinality(P \cup Q) + Count(s, S \cup T)
  BY <1>1 DEF Wants, Count
<1>. HIDE DEF P, Q
<1>6. Cardinality(P \cup Q) = Cardinality(P) + Cardinality(Q) - Cardinality(P \cap Q)
  BY <1>2, FS_Union
<1>7. Cardinality(P \cap Q) = 0
  BY <1>1, FS_EmptySet
<1>. QED BY <1>2, <1>3, <1>4, <1>5, <1>6, <1>7

\* A list without a free entry is full of usages.
LEMMA Full ==
  ASSUME NEW l \in Lists, ~ Has(l, NONE)
  PROVE  Count(l, Usage) = Slots
<1>1. Positions(l, Usage) = 1 .. Slots
  BY ListDomain DEF Lists, Has, Positions
<1>. QED BY <1>1, Sizes, FS_Interval DEF Count

-----------------------------------------------------------------------------
(* The operations of the list *)

LEMMA FreeEntry ==
  ASSUME NEW l \in Lists, NEW u, Has(l, u)
  PROVE  Min(Positions(l, {u})) \in 1 .. Slots /\ l[Min(Positions(l, {u}))] = u
<1>1. Positions(l, {u}) \subseteq 1 .. Slots
  BY ListDomain DEF Positions
<1>2. Min(Positions(l, {u})) \in Positions(l, {u})
  BY <1>1, Sizes, Least DEF Has
<1>. QED BY <1>1, <1>2 DEF Positions

\* What adding a usage does to the entries of any set of usages.
LEMMA Added ==
  ASSUME NEW l \in Lists, NEW u \in Usage
  PROVE  /\ Add(l, u) \in Lists
         /\ ~ Has(l, NONE) => Add(l, u) = l
         /\ Has(l, NONE) =>
              \A S \in SUBSET Usage :
                Count(Add(l, u), S) = IF u \in S THEN Count(l, S) + 1 ELSE Count(l, S)
<1>1. CASE ~ Has(l, NONE)
  BY <1>1 DEF Add
<1>2. CASE Has(l, NONE)
  <2>. DEFINE i == Min(Positions(l, {NONE}))
  <2>1. i \in 1 .. Slots /\ l[i] = NONE
    BY <1>2, FreeEntry
  <2>2. Add(l, u) = [l EXCEPT ![i] = u]
    BY <1>2 DEF Add
  <2>. HIDE DEF i
  <2>3. Add(l, u) \in Lists
    BY <2>1, <2>2 DEF Lists
  <2>4. ASSUME NEW S \in SUBSET Usage
        PROVE  Count(Add(l, u), S) = IF u \in S THEN Count(l, S) + 1 ELSE Count(l, S)
    <3>1. i \notin Positions(l, S)
      BY <2>1, UsageAssumption DEF Positions
    <3>2. Positions(Add(l, u), S) =
            IF u \in S THEN Positions(l, S) \cup {i} ELSE Positions(l, S)
      BY <2>1, <2>2, <3>1 DEF Positions, Lists
    <3>3. IsFiniteSet(Positions(l, S))
      BY PositionsType, ListDomain, Sizes
    <3>. QED BY <3>1, <3>2, <3>3, FS_AddElement DEF Count
  <2>. QED BY <1>2, <2>3, <2>4
<1>. QED BY <1>1, <1>2

\* What removing a usage does: one entry less of it, nothing else.
LEMMA TakenOnce ==
  ASSUME NEW l \in Lists, NEW u \in Usage
  PROVE  /\ Taken(l, u) \in Lists
         /\ \A S \in SUBSET Usage : u \notin S => Positions(Taken(l, u), S) = Positions(l, S)
         /\ Count(l, {u}) <= 1 => Positions(Taken(l, u), {u}) = {}
<1>1. CASE ~ Has(l, u)
  BY <1>1 DEF Taken, Has
<1>2. CASE Has(l, u)
  <2>. DEFINE i == Min(Positions(l, {u}))
  <2>1. i \in 1 .. Slots /\ l[i] = u
    BY <1>2, FreeEntry
  <2>2. Taken(l, u) = [l EXCEPT ![i] = NONE]
    BY <1>2 DEF Taken
  <2>. HIDE DEF i
  <2>3. Taken(l, u) \in Lists
    BY <2>1, <2>2 DEF Lists
  <2>4. ASSUME NEW S \in SUBSET Usage, u \notin S
        PROVE  Positions(Taken(l, u), S) = Positions(l, S)
    BY <2>1, <2>2, <2>4, UsageAssumption DEF Positions, Lists
  <2>5. Positions(Taken(l, u), {u}) = Positions(l, {u}) \ {i} /\ i \in Positions(l, {u})
    BY <2>1, <2>2, UsageAssumption DEF Positions, Lists
  <2>6. ASSUME Count(l, {u}) <= 1
        PROVE  Positions(l, {u}) \ {i} = {}
    <3>1. IsFiniteSet(Positions(l, {u})) /\ Count(l, {u}) \in Nat
      BY PositionsType, ListDomain, Sizes
    <3>2. Cardinality(Positions(l, {u}) \ {i}) = Count(l, {u}) - 1
      BY <2>5, <3>1, FS_RemoveElement DEF Count
    <3>3. /\ IsFiniteSet(Positions(l, {u}) \ {i})
          /\ Cardinality(Positions(l, {u}) \ {i}) \in Nat
      BY <3>1, FS_RemoveElement, FS_CardinalityType
    <3>4. Cardinality(Positions(l, {u}) \ {i}) = 0
      BY <2>6, <3>1, <3>2, <3>3
    <3>. QED BY <3>3, <3>4, FS_EmptySet
  <2>. QED BY <2>3, <2>4, <2>5, <2>6
<1>. QED BY <1>1, <1>2

\* Played is what hid_usage_list_add makes of a cleared list, one usage after another.
LEMMA PlayedInTurn ==
  /\ Played(<<>>) = Empty
  /\ \A s \in Seq(Usage), u \in Usage : Played(Append(s, u)) = Add(Played(s), u)
<1>1. Played(<<>>) = Empty
  BY DEF Played, Empty
<1>2. ASSUME NEW s \in Seq(Usage), NEW u \in Usage
      PROVE  Played(Append(s, u)) = Add(Played(s), u)
  <2>. DEFINE n == Len(s)
              t == Append(s, u)
  <2>1. /\ n \in Nat /\ Len(t) = n + 1 /\ t[n + 1] = u
        /\ \A i \in 1 .. n : t[i] = s[i] /\ s[i] \in Usage
    OBVIOUS
  <2>2. Positions(Played(s), {NONE}) = {i \in 1 .. Slots : i > n}
    BY <2>1, Sizes, UsageAssumption DEF Played, Positions
  <2>. HIDE DEF n, t
  <2>3. CASE n < Slots
    <3>1. Min({i \in 1 .. Slots : i > n}) = n + 1
      <4>. DEFINE M == {i \in 1 .. Slots : i > n}
      <4>1. n + 1 \in M /\ \A i \in M : n + 1 <= i
        BY <2>1, <2>3, Sizes
      <4>2. \A x, y \in M : (\A i \in M : x <= i) /\ (\A i \in M : y <= i) => x = y
        BY Sizes
      <4>. HIDE DEF M
      <4>3. Min(M) = n + 1
        BY <4>1, <4>2 DEF Min
      <4>. QED BY <4>3 DEF M
    <3>2. n + 1 \in {i \in 1 .. Slots : i > n}
      BY <2>1, <2>3, Sizes
    <3>3. Has(Played(s), NONE)
      BY <2>2, <3>2 DEF Has
    <3>4. Add(Played(s), u) = [Played(s) EXCEPT ![n + 1] = u]
      BY <2>2, <3>1, <3>3 DEF Add
    <3>5. /\ Played(s) = [i \in 1 .. Slots |-> IF i <= n THEN s[i] ELSE NONE]
          /\ Played(t) = [i \in 1 .. Slots |-> IF i <= n + 1 THEN t[i] ELSE NONE]
      BY <2>1 DEF Played, n
    <3>6. Played(t) = [Played(s) EXCEPT ![n + 1] = u]
      <4>1. [Played(s) EXCEPT ![n + 1] = u]
              = [i \in 1 .. Slots |-> IF i = n + 1 THEN u ELSE Played(s)[i]]
        BY <3>5
      <4>2. \A i \in 1 .. Slots :
              (IF i = n + 1 THEN u ELSE Played(s)[i])
                = (IF i <= n + 1 THEN t[i] ELSE NONE)
        BY <2>1, <3>5, Sizes
      <4>. QED BY <3>5, <4>1, <4>2
    <3>. QED BY <3>4, <3>6 DEF t
  <2>4. CASE n >= Slots
    <3>1. ~ Has(Played(s), NONE)
      <4>1. {i \in 1 .. Slots : i > n} = {}
        BY <2>1, <2>4, Sizes
      <4>. QED BY <2>2, <4>1 DEF Has
    <3>2. Played(t) = Played(s)
      <4>1. /\ Played(s) = [i \in 1 .. Slots |-> IF i <= n THEN s[i] ELSE NONE]
            /\ Played(t) = [i \in 1 .. Slots |-> IF i <= n + 1 THEN t[i] ELSE NONE]
        BY <2>1 DEF Played, n
      <4>. QED BY <2>1, <2>4, <4>1, Sizes
    <3>. QED BY <3>1, <3>2 DEF Add, t
  <2>. QED BY <2>1, <2>3, <2>4, Sizes
<1>. QED BY <1>1, <1>2

-----------------------------------------------------------------------------
(* The list against what is wanted *)

\* A full list holds of S at least what the rest leaves.
LEMMA FullHolds ==
  ASSUME NEW l \in Lists, NEW S \in SUBSET Usage, ~ Has(l, NONE)
  PROVE  Count(l, S) + Count(l, Usage \ S) = Slots
<1>1. S \cup (Usage \ S) = Usage /\ S \cap (Usage \ S) = {}
  OBVIOUS
<1>2. Count(l, Usage) = Count(l, S) + Count(l, Usage \ S)
  BY <1>1, PositionsSplit, ListDomain, Sizes
<1>. QED BY <1>2, Full

LEMMA PlayedBalanced ==
  ASSUME NEW s \in Seq(Usage)
  PROVE  /\ Played(s) \in Lists
         /\ \A S \in SUBSET Usage : Balanced(Played(s), {}, s, S)
<1>. DEFINE n == Len(s)
<1>1. n \in Nat /\ DOMAIN s = 1 .. n /\ \A i \in 1 .. n : s[i] \in Usage
  OBVIOUS
<1>2. Played(s) = [i \in 1 .. Slots |-> IF i <= n THEN s[i] ELSE NONE]
  BY DEF Played
<1>. HIDE DEF n
<1>3. Played(s) \in Lists
  BY <1>1, <1>2 DEF Lists
<1>4. ASSUME NEW S \in SUBSET Usage
      PROVE  /\ Count(Played(s), S) <= Count(s, S)
             /\ n <= Slots => Count(Played(s), S) = Count(s, S)
  <2>1. Positions(Played(s), S) = {i \in Positions(s, S) : i <= Slots}
    BY <1>1, <1>2, Sizes, UsageAssumption DEF Positions
  <2>2. IsFiniteSet(Positions(s, S))
    BY <1>1, PositionsType
  <2>3. Positions(Played(s), S) \in SUBSET Positions(s, S)
    BY <2>1
  <2>4. n <= Slots => Positions(Played(s), S) = Positions(s, S)
    BY <1>1, <2>1, Sizes DEF Positions
  <2>. QED BY <2>2, <2>3, <2>4, FS_Subset DEF Count
<1>5. ASSUME NEW S \in SUBSET Usage
      PROVE  Wants({}, s, S) = Count(s, S)
  <2>1. {k \in {} : UsageOf[k] \in S} = {}
    OBVIOUS
  <2>2. Count(s, S) \in Nat
    BY <1>1, PositionsType
  <2>. QED BY <2>1, <2>2, FS_EmptySet DEF Wants, Count
<1>6. ASSUME NEW S \in SUBSET Usage
      PROVE  Balanced(Played(s), {}, s, S)
  <2>1. Usage \ S \in SUBSET Usage
    OBVIOUS
  <2>2. CASE n <= Slots
    BY <1>4, <1>5, <2>2 DEF Balanced
  <2>3. CASE n > Slots
    <3>1. ~ Has(Played(s), NONE)
      BY <1>1, <1>2, <2>3, Sizes, UsageAssumption DEF Has, Positions
    <3>2. Count(Played(s), S) + Count(Played(s), Usage \ S) = Slots
      BY <1>3, <3>1, FullHolds
    <3>3. /\ Count(Played(s), S) \in Nat /\ Count(Played(s), Usage \ S) \in Nat
          /\ Count(s, Usage \ S) \in Nat
      BY <1>1, <1>3, PositionsType, ListDomain, Sizes
    <3>4. Count(Played(s), Usage \ S) <= Count(s, Usage \ S)
      BY <1>4, <2>1
    <3>5. Count(Played(s), S) + Count(s, Usage \ S) >= Slots
      BY <3>2, <3>3, <3>4, Sizes
    <3>. QED BY <1>4, <1>5, <2>1, <3>5 DEF Balanced
  <2>. QED BY <1>1, <2>2, <2>3, Sizes
<1>. QED BY <1>3, <1>6

\* One more key down.
LEMMA WantsKey ==
  ASSUME NEW d, d \subseteq Keys, NEW s \in Seq(Usage), NEW k \in Keys, k \notin d, NEW S
  PROVE  Wants(d \cup {k}, s, S) =
           IF UsageOf[k] \in S THEN Wants(d, s, S) + 1 ELSE Wants(d, s, S)
<1>. DEFINE P == {m \in d : UsageOf[m] \in S}
<1>1. {m \in d \cup {k} : UsageOf[m] \in S} = IF UsageOf[k] \in S THEN P \cup {k} ELSE P
  OBVIOUS
<1>2. IsFiniteSet(P) /\ Cardinality(P) \in Nat /\ k \notin P
  BY WantsType
<1>3. Count(s, S) \in Nat
  BY PositionsType, ListDomain
<1>4. Wants(d, s, S) = Cardinality(P) + Count(s, S)
  BY DEF Wants, Count
<1>5. Wants(d \cup {k}, s, S) =
        Cardinality(IF UsageOf[k] \in S THEN P \cup {k} ELSE P) + Count(s, S)
  BY <1>1 DEF Wants, Count
<1>. HIDE DEF P
<1>6. Cardinality(P \cup {k}) = Cardinality(P) + 1
  BY <1>2, FS_AddElement
<1>. QED BY <1>2, <1>3, <1>4, <1>5, <1>6

LEMMA AddBalanced ==
  ASSUME NEW l \in Lists, NEW d, d \subseteq Keys, NEW s \in Seq(Usage),
         NEW k \in Keys, k \notin d,
         \A S \in SUBSET Usage : Balanced(l, d, s, S)
  PROVE  \A S \in SUBSET Usage : Balanced(Add(l, UsageOf[k]), d \cup {k}, s, S)
<1>. DEFINE u == UsageOf[k]
            m == Add(l, u)
            e == d \cup {k}
<1>1. u \in Usage
  BY KeyAssumption
<1>2. TAKE S \in SUBSET Usage
<1>. DEFINE T == Usage \ S
<1>3. T \in SUBSET Usage /\ (u \in T <=> u \notin S)
  BY <1>1
<1>4. /\ Wants(e, s, S) = IF u \in S THEN Wants(d, s, S) + 1 ELSE Wants(d, s, S)
      /\ Wants(e, s, T) = IF u \in T THEN Wants(d, s, T) + 1 ELSE Wants(d, s, T)
  BY WantsKey
<1>5. /\ Wants(d, s, S) \in Nat /\ Wants(d, s, T) \in Nat
      /\ Count(l, S) \in Nat /\ Count(l, T) \in Nat /\ Slots \in Nat
  BY WantsType, PositionsType, ListDomain, Sizes
<1>6. Balanced(l, d, s, S) /\ Balanced(l, d, s, T)
  BY <1>3
<1>7. CASE Has(l, NONE)
  <2>1. Count(m, S) = IF u \in S THEN Count(l, S) + 1 ELSE Count(l, S)
    BY <1>1, <1>7, Added
  <2>. HIDE DEF u, m, e, T
  <2>2. Balanced(m, e, s, S)
    BY <1>3, <1>4, <1>5, <1>6, <2>1 DEF Balanced, T
  <2>. QED BY <2>2 DEF u, m, e
<1>8. CASE ~ Has(l, NONE)
  <2>1. m = l
    BY <1>1, <1>8, Added
  <2>2. Count(l, S) + Count(l, T) = Slots
    BY <1>8, FullHolds
  <2>. HIDE DEF u, m, e, T
  <2>3. Count(l, S) <= Wants(d, s, S) /\ Count(l, T) <= Wants(d, s, T)
    BY <1>6 DEF Balanced
  <2>4. Wants(d, s, S) <= Wants(e, s, S) /\ Wants(d, s, T) <= Wants(e, s, T)
        /\ Wants(e, s, S) \in Nat /\ Wants(e, s, T) \in Nat
    BY <1>4, <1>5
  <2>5. Count(l, S) <= Wants(e, s, S) /\ Count(l, S) + Wants(e, s, T) >= Slots
    BY <1>5, <2>2, <2>3, <2>4
  <2>6. Balanced(m, e, s, S)
    BY <2>1, <2>5 DEF Balanced, T
  <2>. QED BY <2>6 DEF u, m, e
<1>. QED BY <1>7, <1>8

\* The post-processing touches no entries but those of the shifts.
LEMMA ShiftsOnly ==
  ASSUME NEW l \in Lists
  PROVE  /\ ShiftUpdated(l) \in Lists
         /\ \A S \in SUBSET Usage :
              S \cap Shifts = {} => Count(ShiftUpdated(l), S) = Count(l, S)
<1>1. LeftShift \in Usage /\ RightShift \in Usage /\ LeftShift \in Shifts /\ RightShift \in Shifts
  BY DEF Usage, Modifiers, Shifts
<1>2. CASE ShiftUpdated(l) = l
  BY <1>2
<1>3. CASE ShiftUpdated(l) = Taken(Taken(l, LeftShift), RightShift)
  <2>. DEFINE m == Taken(l, LeftShift)
  <2>. HIDE DEF m
  <2>1. m \in Lists
    BY <1>1, TakenOnce DEF m
  <2>2. ShiftUpdated(l) = Taken(m, RightShift)
    BY <1>3 DEF m
  <2>3. ShiftUpdated(l) \in Lists
    BY <1>1, <2>1, <2>2, TakenOnce
  <2>4. ASSUME NEW S \in SUBSET Usage, S \cap Shifts = {}
        PROVE  Count(ShiftUpdated(l), S) = Count(l, S)
    <3>1. LeftShift \notin S /\ RightShift \notin S
      BY <1>1, <2>4
    <3>2. Positions(m, S) = Positions(l, S)
      BY <1>1, <3>1, TakenOnce DEF m
    <3>3. Positions(Taken(m, RightShift), S) = Positions(m, S)
      BY <1>1, <2>1, <3>1, TakenOnce
    <3>. QED BY <2>2, <3>2, <3>3 DEF Count
  <2>. QED BY <2>3, <2>4
<1>4. CASE ShiftUpdated(l) = Add(l, LeftShift)
  <2>1. ASSUME NEW S \in SUBSET Usage, S \cap Shifts = {}
        PROVE  Count(ShiftUpdated(l), S) = Count(l, S)
    <3>1. LeftShift \notin S
      BY <1>1, <2>1
    <3>. QED BY <1>1, <1>4, <3>1, Added
  <2>. QED BY <1>1, <1>4, <2>1, Added
<1>. QED BY <1>2, <1>3, <1>4 DEF ShiftUpdated, Invert

\* Where everything that is wanted has room, the list holds what is wanted.
LEMMA Exact ==
  ASSUME NEW l \in Lists, NEW d, d \subseteq Keys, NEW s \in Seq(Usage),
         NEW S \in SUBSET Usage, Balanced(l, d, s, S), Wants(d, s, Usage) <= Slots
  PROVE  Count(l, S) = Wants(d, s, S)
<1>1. S \cup (Usage \ S) = Usage /\ S \cap (Usage \ S) = {}
  OBVIOUS
<1>2. Wants(d, s, Usage) = Wants(d, s, S) + Wants(d, s, Usage \ S)
  BY <1>1, WantsSplit
<1>3. /\ Wants(d, s, S) \in Nat /\ Wants(d, s, Usage \ S) \in Nat
      /\ Count(l, S) \in Nat /\ Slots \in Nat
  BY WantsType, PositionsType, ListDomain, Sizes
<1>. QED BY <1>2, <1>3 DEF Balanced

\* What of the step and of the keys is wanted at all.
LEMMA WantedCount ==
  ASSUME TypeOK, NEW S
  PROVE  Wants(down, step, S) = 0 <=> Wanted \cap S = {}
<1>1. step \in Seq(Usage) /\ down \subseteq Keys
  BY StepAssumption DEF TypeOK
<1>. DEFINE P == {k \in down : UsageOf[k] \in S}
<1>2. IsFiniteSet(P) /\ Cardinality(P) \in Nat
  BY <1>1, WantsType
<1>3. Count(step, S) \in Nat /\ (Count(step, S) = 0 <=> Positions(step, S) = {})
  BY <1>1, PositionsType, CountSome, ListDomain
<1>4. Cardinality(P) = 0 <=> P = {}
  BY <1>2, FS_EmptySet
<1>5. Wants(down, step, S) = Cardinality(P) + Count(step, S)
  BY DEF Wants, Count
<1>6. Wanted \cap S = {} <=> P = {} /\ Positions(step, S) = {}
  BY DEF Wanted, Positions, Range
<1>. HIDE DEF P
<1>7. Wants(down, step, S) = 0 <=> Cardinality(P) = 0 /\ Count(step, S) = 0
  BY <1>2, <1>3, <1>5
<1>. QED BY <1>3, <1>4, <1>6, <1>7

LEMMA ManyIsWants == \A S : Many(S) = Wants(down, step, S)
  BY DEF Many, Wants

\* What fits the reports fits the list.
LEMMA FitsSlots ==
  ASSUME TypeOK, Fits
  PROVE  Wants(down, step, Usage) <= Slots
<1>1. step \in Seq(Usage) /\ down \subseteq Keys
  BY StepAssumption DEF TypeOK
<1>2. Wants(down, step, Modifiers \cup Ordinary) = Many(Modifiers) + Many(Ordinary)
  BY <1>1, WantsSplit, ManyIsWants, UsageAssumption
<1>3. Wants(down, step, Usage) = Wants(down, step, Modifiers \cup Ordinary) + Many(Consumers)
  BY <1>1, WantsSplit, ManyIsWants, UsageAssumption DEF Usage
<1>4. Many(Modifiers) \in Nat /\ Many(Ordinary) \in Nat /\ Many(Consumers) \in Nat
  BY <1>1, WantsType, ManyIsWants
<1>. QED BY <1>2, <1>3, <1>4, Sizes DEF Fits

\* A usage is in the list just when the list has an entry for it.
LEMMA InList ==
  ASSUME NEW l \in Lists, NEW u
  PROVE  (u \in Range(l) <=> Has(l, u)) /\ (Has(l, u) <=> Count(l, {u}) # 0)
<1>1. u \in Range(l) <=> Has(l, u)
  BY DEF Range, Has, Positions
<1>2. Has(l, u) <=> Count(l, {u}) # 0
  BY CountSome, ListDomain, Sizes DEF Has
<1>. QED BY <1>1, <1>2

LEMMA SingleShifts ==
  /\ LeftShift \in Usage /\ RightShift \in Usage /\ LeftShift # RightShift
  /\ Shifts = {LeftShift, RightShift} /\ Controls \in SUBSET Usage
  BY UsageAssumption DEF Usage, Modifiers, Shifts

\* The premises under which shifts are turned around, and what they say of the list
\* when the scan ends.
OneEach == Fits /\ \A u \in Shifts : Many({u}) <= 1

LEMMA AllListed ==
  ASSUME TypeOK, OneEach,
         \A S \in SUBSET Usage : Balanced(hid_usage_list, down, step, S)
  PROVE  /\ \A S \in SUBSET Usage : Count(hid_usage_list, S) = Many(S)
         /\ \A u \in Usage : Has(hid_usage_list, u) <=> u \in Wanted
<1>1. hid_usage_list \in Lists /\ step \in Seq(Usage) /\ down \subseteq Keys
  BY StepAssumption DEF TypeOK, Lists
<1>2. ASSUME NEW S \in SUBSET Usage
      PROVE  Count(hid_usage_list, S) = Many(S)
  BY <1>1, Exact, FitsSlots, ManyIsWants DEF OneEach
<1>3. ASSUME NEW u \in Usage
      PROVE  Has(hid_usage_list, u) <=> u \in Wanted
  <2>1. Has(hid_usage_list, u) <=> Many({u}) # 0
    BY <1>1, <1>2, InList
  <2>2. Many({u}) = 0 <=> Wanted \cap {u} = {}
    BY WantedCount, ManyIsWants
  <2>. QED BY <2>1, <2>2
<1>. QED BY <1>2, <1>3

\* What the post-processing makes of the shifts.
LEMMA Inverted ==
  ASSUME TypeOK, OneEach,
         \A S \in SUBSET Usage : Balanced(hid_usage_list, down, step, S)
  PROVE  /\ Range(hid_usage_list) \cap Shifts = Wanted \cap Shifts
         /\ Range(ShiftUpdated(hid_usage_list)) \cap Shifts =
              IF Wanted \cap Controls = {}
              THEN (IF Wanted \cap Shifts = {} THEN {LeftShift} ELSE {})
              ELSE Wanted \cap Shifts
<1>. DEFINE l == hid_usage_list
            r == ShiftUpdated(l)
<1>1. l \in Lists /\ step \in Seq(Usage) /\ down \subseteq Keys
  BY StepAssumption DEF TypeOK, Lists
<1>2. \A S \in SUBSET Usage : Count(l, S) = Many(S)
  BY AllListed
<1>3. \A u \in Usage : Has(l, u) <=> u \in Wanted
  BY AllListed
<1>4. r \in Lists
  BY <1>1, ShiftsOnly
<1>. HIDE DEF l, r
<1>5. Range(l) \cap Shifts = Wanted \cap Shifts
  BY <1>1, <1>3, InList, SingleShifts
<1>6. CASE Wanted \cap Controls # {}
  <2>1. \E u \in Controls : Has(l, u)
    BY <1>3, <1>6, SingleShifts
  <2>2. r = l
    BY <2>1 DEF r, ShiftUpdated
  <2>. QED BY <1>5, <1>6, <2>2 DEF l, r
<1>7. CASE Wanted \cap Controls = {} /\ Wanted \cap Shifts # {}
  <2>. DEFINE m == Taken(l, LeftShift)
  <2>1. r = Taken(m, RightShift)
    BY <1>3, <1>7, SingleShifts DEF r, ShiftUpdated, Invert
  <2>2. Count(l, {LeftShift}) <= 1 /\ Count(l, {RightShift}) <= 1
    BY <1>2, SingleShifts DEF OneEach
  <2>3. /\ m \in Lists /\ Positions(m, {LeftShift}) = {}
        /\ Positions(m, {RightShift}) = Positions(l, {RightShift})
    <3>1. {RightShift} \in SUBSET Usage /\ LeftShift \notin {RightShift}
      BY SingleShifts
    <3>2. Positions(m, {RightShift}) = Positions(l, {RightShift})
      BY <1>1, <3>1, TakenOnce, SingleShifts
    <3>. QED BY <1>1, <2>2, <3>2, TakenOnce, SingleShifts
  <2>. HIDE DEF m
  <2>4. Count(m, {RightShift}) <= 1
    BY <2>2, <2>3 DEF Count
  <2>5. /\ Positions(Taken(m, RightShift), {RightShift}) = {}
        /\ Positions(Taken(m, RightShift), {LeftShift}) = {}
    BY <2>3, <2>4, TakenOnce, SingleShifts
  <2>6. Range(r) \cap Shifts = {}
    BY <1>4, <2>1, <2>5, InList, SingleShifts DEF Has
  <2>. QED BY <1>5, <1>7, <2>6 DEF l, r
<1>8. CASE Wanted \cap Controls = {} /\ Wanted \cap Shifts = {}
  <2>1. r = Add(l, LeftShift)
    BY <1>3, <1>8, SingleShifts DEF r, ShiftUpdated, Invert
  <2>2. Many(Modifiers) = 0
    BY <1>8, WantedCount, ManyIsWants DEF Modifiers
  <2>3. /\ Many(Modifiers \cup Ordinary) = Many(Modifiers) + Many(Ordinary)
        /\ Many(Usage) = Many(Modifiers \cup Ordinary) + Many(Consumers)
    BY <1>1, WantsSplit, ManyIsWants, UsageAssumption DEF Usage
  <2>4. Many(Ordinary) \in Nat /\ Many(Consumers) \in Nat
    BY <1>1, WantsType, ManyIsWants
  <2>5. Many(Usage) < Slots
    BY <2>2, <2>3, <2>4, Sizes DEF OneEach, Fits
  <2>6. Has(l, NONE)
    BY <1>1, <1>2, <2>5, Full, Sizes
  <2>7. Count(l, {LeftShift}) = 0 /\ Count(l, {RightShift}) = 0
    BY <1>1, <1>3, <1>8, InList, SingleShifts
  <2>8. Count(r, {LeftShift}) = 1 /\ Count(r, {RightShift}) = 0
    <3>1. /\ {LeftShift} \in SUBSET Usage /\ {RightShift} \in SUBSET Usage
          /\ LeftShift \in {LeftShift} /\ LeftShift \notin {RightShift}
      BY SingleShifts
    <3>2. \A S \in SUBSET Usage :
            Count(Add(l, LeftShift), S) =
              IF LeftShift \in S THEN Count(l, S) + 1 ELSE Count(l, S)
      BY <1>1, <2>6, Added, SingleShifts
    <3>3. /\ Count(r, {LeftShift}) = Count(l, {LeftShift}) + 1
          /\ Count(r, {RightShift}) = Count(l, {RightShift})
      BY <2>1, <3>1, <3>2
    <3>. QED BY <2>7, <3>3
  <2>9. Range(r) \cap Shifts = {LeftShift}
    <3>1. Has(r, LeftShift) /\ ~ Has(r, RightShift)
      BY <1>4, <2>8, InList
    <3>2. LeftShift \in Range(r) /\ RightShift \notin Range(r)
      BY <1>4, <3>1, InList
    <3>. QED BY <3>2, SingleShifts
  <2>. QED BY <1>5, <1>8, <2>9 DEF l, r
<1>. QED BY <1>6, <1>7, <1>8

-----------------------------------------------------------------------------
(* The invariant *)

\* The variables hold values of their types: a list is never longer or shorter than it
\* was made, and holds usages and free entries only.
THEOREM TypeCorrect == Spec => []TypeOK
<1>1. Init => TypeOK
  BY StepAssumption DEF Init, TypeOK, Empty
<1>2. TypeOK /\ [Next]_vars => TypeOK'
  <2>. SUFFICES ASSUME TypeOK, [Next]_vars
                PROVE  TypeOK'
    OBVIOUS
  <2>1. hid_usage_list \in Lists
    BY DEF TypeOK, Lists
  <2>2. CASE Start
    <3>1. Played(step') \in Lists
      BY <2>2, PlayedBalanced, StepAssumption DEF Start
    <3>. QED BY <2>2, <3>1 DEF Start, TypeOK, Lists
  <2>3. ASSUME NEW k \in Keys, KeyDown(k)
        PROVE  TypeOK'
    <3>1. Add(hid_usage_list, UsageOf[k]) \in Lists
      BY <2>1, Added, KeyAssumption
    <3>2. hid_usage_list' \in Lists /\ down' \subseteq Keys /\ scanning' = scanning /\ step' = step
      BY <2>3, <3>1 DEF KeyDown, TypeOK
    <3>3. do_shifted' \in BOOLEAN
      BY <2>3 DEF KeyDown, TypeOK
    <3>. QED BY <3>2, <3>3 DEF TypeOK, Lists
  <2>4. CASE Finish
    <3>1. ShiftUpdated(hid_usage_list) \in Lists
      BY <2>1, ShiftsOnly
    <3>. QED BY <2>1, <2>4, <3>1 DEF Finish, TypeOK, Lists
  <2>5. CASE UNCHANGED vars
    BY <2>5 DEF vars, TypeOK
  <2>. QED BY <2>2, <2>3, <2>4, <2>5 DEF Next
<1>. QED BY <1>1, <1>2, PTL DEF Spec

LEMMA InitInv == Init => CountInv /\ ShiftInverted
<1>. SUFFICES ASSUME Init
              PROVE  CountInv /\ ShiftInverted
  OBVIOUS
<1>1. hid_usage_list = Played(<<>>) /\ step = <<>> /\ down = {} /\ do_shifted = FALSE
  BY PlayedInTurn DEF Init
<1>2. <<>> \in Seq(Usage)
  OBVIOUS
<1>3. \A S \in SUBSET Usage : Balanced(hid_usage_list, down, step, S)
  BY <1>1, <1>2, PlayedBalanced
<1>4. Range(hid_usage_list) \cap Usage = {}
  BY UsageAssumption DEF Init, Empty, Range
<1>5. hid_in_report_boot.modifiers \cap Shifts = {}
  BY <1>4, SingleShifts DEF hid_in_report_boot, Entries
<1>6. Wanted = {}
  BY <1>1 DEF Wanted, Range
<1>. QED BY <1>1, <1>3, <1>5, <1>6 DEF CountInv, ShiftInverted

LEMMA CountStep ==
  ASSUME TypeOK, CountInv, [Next]_vars
  PROVE  CountInv'
<1>1. hid_usage_list \in Lists /\ step \in Seq(Usage) /\ down \subseteq Keys
  BY StepAssumption DEF TypeOK, Lists
<1>2. CASE Start
  <2>1. step' \in Seq(Usage) /\ hid_usage_list' = Played(step') /\ down' = {}
    BY <1>2, StepAssumption DEF Start
  <2>2. \A S \in SUBSET Usage : Balanced(hid_usage_list', down', step', S)
    BY <2>1, PlayedBalanced
  <2>. QED BY <2>2 DEF CountInv
<1>3. ASSUME NEW k \in Keys, KeyDown(k)
      PROVE  CountInv'
  <2>1. k \notin down /\ \A S \in SUBSET Usage : Balanced(hid_usage_list, down, step, S)
    BY <1>3 DEF KeyDown, CountInv
  <2>2. \A S \in SUBSET Usage :
          Balanced(Add(hid_usage_list, UsageOf[k]), down \cup {k}, step, S)
    BY <1>1, <2>1, AddBalanced
  <2>3. \A S \in SUBSET Usage : Balanced(hid_usage_list', down', step', S)
    BY <1>3, <2>2 DEF KeyDown
  <2>. QED BY <2>3 DEF CountInv
<1>4. CASE Finish
  <2>1. ASSUME NEW S \in SUBSET Usage, S \cap Shifts = {}
        PROVE  Balanced(hid_usage_list', down', step', S)
    <3>1. Balanced(hid_usage_list, down, step, S)
      BY <1>4, <2>1 DEF Finish, CountInv
    <3>2. Count(hid_usage_list', S) = Count(hid_usage_list, S)
      BY <1>1, <1>4, <2>1, ShiftsOnly DEF Finish
    <3>3. down' = down /\ step' = step
      BY <1>4 DEF Finish
    <3>. QED BY <3>1, <3>2, <3>3 DEF Balanced
  <2>2. ~ scanning'
    BY <1>4 DEF Finish
  <2>. QED BY <2>1, <2>2 DEF CountInv
<1>5. CASE UNCHANGED vars
  BY <1>5 DEF vars, CountInv
<1>. QED BY <1>2, <1>3, <1>4, <1>5 DEF Next

LEMMA ShiftStep ==
  ASSUME TypeOK, CountInv, ShiftInverted, [Next]_vars
  PROVE  ShiftInverted'
<1>1. CASE Start \/ \E k \in Keys : KeyDown(k)
  <2>1. scanning'
    BY <1>1 DEF Start, KeyDown
  <2>. QED BY <2>1 DEF ShiftInverted
<1>2. CASE Finish
  <2>1. scanning /\ down' = down /\ step' = step /\ do_shifted' = do_shifted
    BY <1>2 DEF Finish
  <2>2. /\ Wanted' = Wanted /\ \A S : Many(S)' = Many(S)
    BY <2>1 DEF Wanted, Many
  <2>3. Fits' = Fits
    BY <2>2 DEF Fits
  <2>4. SUFFICES ASSUME OneEach
                 PROVE  hid_in_report_boot'.modifiers \cap Shifts =
                          IF do_shifted /\ Wanted \cap Controls = {}
                          THEN (IF Wanted \cap Shifts = {} THEN {LeftShift} ELSE {})
                          ELSE Wanted \cap Shifts
    BY <2>1, <2>2, <2>3 DEF ShiftInverted, OneEach
  <2>5. \A S \in SUBSET Usage : Balanced(hid_usage_list, down, step, S)
    BY <2>1 DEF CountInv
  <2>6. hid_in_report_boot'.modifiers \cap Shifts = Range(hid_usage_list') \cap Shifts
    BY DEF hid_in_report_boot, Entries, Modifiers
  <2>7. hid_usage_list' = IF do_shifted THEN ShiftUpdated(hid_usage_list) ELSE hid_usage_list
    BY <1>2 DEF Finish
  <2>. QED BY <2>4, <2>5, <2>6, <2>7, Inverted
<1>3. CASE UNCHANGED vars
  BY <1>3 DEF vars, ShiftInverted, Fits, Many, Wanted, hid_in_report_boot, Entries,
              KeysListed, TooMany
<1>. QED BY <1>1, <1>2, <1>3 DEF Next

\* The counts of the list are what is wanted, or the list has been full.
THEOREM Invariant == Spec => []IInv
<1>1. Init => CountInv /\ ShiftInverted
  BY InitInv
<1>2. TypeOK /\ CountInv /\ ShiftInverted /\ [Next]_vars => CountInv' /\ ShiftInverted'
  BY CountStep, ShiftStep
<1>3. TypeOK /\ CountInv /\ ShiftInverted => IInv
  BY DEF IInv
<1>. QED BY <1>1, <1>2, <1>3, TypeCorrect, PTL DEF Spec

\* A shifted key turns the shift of its sample around wherever the shift keys are in the
\* matrix, and leaves it alone next to Control, Alt or GUI.
THEOREM ShiftTurned == Spec => []ShiftInverted
<1>1. IInv => ShiftInverted
  BY DEF IInv
<1>. QED BY <1>1, Invariant, PTL

-----------------------------------------------------------------------------
(* What the reports say *)

\* The host's view of a set of usages untouched by the post-processing.
LEMMA Reported ==
  ASSUME IInv, NEW S \in SUBSET Usage, S \cap Shifts = {}, Fits
  PROVE  /\ Count(hid_usage_list, S) = Many(S)
         /\ Range(hid_usage_list) \cap S = Wanted \cap S
<1>1. /\ TypeOK /\ hid_usage_list \in Lists /\ step \in Seq(Usage) /\ down \subseteq Keys
  BY StepAssumption DEF IInv, TypeOK, Lists
<1>2. ASSUME NEW T \in SUBSET Usage, T \cap Shifts = {}
      PROVE  Count(hid_usage_list, T) = Many(T)
  <2>1. Balanced(hid_usage_list, down, step, T)
    BY <1>2 DEF IInv, CountInv
  <2>. QED BY <1>1, <2>1, Exact, FitsSlots, ManyIsWants
<1>3. ASSUME NEW u \in S
      PROVE  u \in Range(hid_usage_list) <=> u \in Wanted
  <2>1. {u} \in SUBSET Usage /\ {u} \cap Shifts = {}
    OBVIOUS
  <2>2. Count(hid_usage_list, {u}) = Many({u})
    BY <1>2, <2>1
  <2>3. u \in Range(hid_usage_list) <=> Count(hid_usage_list, {u}) # 0
    BY <1>1, InList
  <2>4. Many({u}) = 0 <=> Wanted \cap {u} = {}
    BY <1>1, WantedCount, ManyIsWants
  <2>. QED BY <2>2, <2>3, <2>4
<1>. QED BY <1>2, <1>3

LEMMA Pages ==
  /\ Ordinary \in SUBSET Usage /\ Ordinary \cap Shifts = {}
  /\ Consumers \in SUBSET Usage /\ Consumers \cap Shifts = {}
  /\ Controls \in SUBSET Usage /\ Controls \cap Shifts = {}
  /\ Modifiers \ Shifts = Controls
  BY UsageAssumption DEF Usage, Modifiers

LEMMA ListedImage ==
  ASSUME NEW l \in Lists, NEW S
  PROVE  Range([i \in Positions(l, S) |-> l[i]]) = Range(l) \cap S
  BY DEF Range, Positions

LEMMA IInvExact == IInv => ReportExact
<1>. SUFFICES ASSUME IInv, Fits
              PROVE  /\ Range(hid_in_report_boot.keys) = Wanted \cap Ordinary
                     /\ Cardinality(DOMAIN hid_in_report_boot.keys) = Many(Ordinary)
                     /\ hid_in_report_boot.modifiers \ Shifts = Wanted \cap Controls
                     /\ Range(hid_in_report_extra) = Wanted \cap Consumers
  BY DEF ReportExact
<1>. DEFINE l == hid_usage_list
<1>1. l \in Lists
  BY DEF IInv, TypeOK, Lists
<1>2. /\ Count(l, Ordinary) = Many(Ordinary) /\ Range(l) \cap Ordinary = Wanted \cap Ordinary
      /\ Count(l, Consumers) = Many(Consumers)
      /\ Range(l) \cap Consumers = Wanted \cap Consumers
      /\ Range(l) \cap Controls = Wanted \cap Controls
  BY Reported, Pages
<1>3. /\ Count(l, Ordinary) \in Nat /\ Count(l, Ordinary) <= BootKeys
      /\ Count(l, Consumers) \in Nat /\ Count(l, Consumers) <= ConsumerKeys
  BY <1>1, <1>2, PositionsType, ListDomain, Sizes DEF Fits
<1>4. hid_in_report_boot.keys = [i \in Positions(l, Ordinary) |-> l[i]]
  <2>1. ~ TooMany
    BY <1>3, Sizes DEF TooMany, KeysListed, Entries, Count
  <2>. QED BY <2>1 DEF hid_in_report_boot, KeysListed, Entries
<1>5. /\ Range(hid_in_report_boot.keys) = Wanted \cap Ordinary
      /\ Cardinality(DOMAIN hid_in_report_boot.keys) = Many(Ordinary)
  BY <1>1, <1>2, <1>4, ListedImage DEF Count
<1>6. hid_in_report_boot.modifiers \ Shifts = Wanted \cap Controls
  <2>1. hid_in_report_boot.modifiers = Range(l) \cap Modifiers
    BY DEF hid_in_report_boot, Entries
  <2>. QED BY <1>2, <2>1, Pages
<1>7. hid_in_report_extra = [i \in Positions(l, Consumers) |-> l[i]]
  <2>. DEFINE C == Positions(l, Consumers)
              before(i) == {j \in C : j < i}
  <2>1. IsFiniteSet(C) /\ C \subseteq 1 .. Slots
    BY <1>1, PositionsType, ListDomain, Sizes
  <2>2. ASSUME NEW i \in C
        PROVE  Cardinality(before(i)) < ConsumerKeys
    <3>1. before(i) \in SUBSET C /\ i \notin before(i)
      BY <2>1, Sizes
    <3>. HIDE DEF C, before
    <3>2. IsFiniteSet(before(i)) /\ Cardinality(before(i)) <= Cardinality(C)
          /\ (Cardinality(before(i)) = Cardinality(C) => before(i) = C)
      BY <2>1, <3>1, FS_Subset
    <3>3. Cardinality(before(i)) \in Nat /\ Cardinality(C) \in Nat
      BY <2>1, <3>2, FS_CardinalityType
    <3>4. Cardinality(before(i)) # Cardinality(C)
      BY <2>2, <3>1, <3>2
    <3>5. Cardinality(C) <= ConsumerKeys
      BY <1>3 DEF Count, C
    <3>. QED BY <3>2, <3>3, <3>4, <3>5, Sizes
  <2>3. {i \in C : Cardinality(before(i)) < ConsumerKeys} = C
    BY <2>2
  <2>4. hid_in_report_extra =
          [i \in {i \in C : Cardinality(before(i)) < ConsumerKeys} |-> l[i]]
    BY DEF hid_in_report_extra, ConsumersListed, Entries
  <2>. QED BY <2>3, <2>4
<1>8. Range(hid_in_report_extra) = Wanted \cap Consumers
  BY <1>1, <1>2, <1>7, ListedImage
<1>. QED BY <1>5, <1>6, <1>8

\* Within the capacity of the two reports they say exactly what is down and what the
\* sequence plays.
THEOREM Exactly == Spec => []ReportExact
  BY Invariant, IInvExact, PTL

LEMMA IInvRollover == IInv => RolloverShown
<1>. SUFFICES ASSUME IInv,
                     Many(Modifiers \cup Consumers) < Cardinality(Modifiers) + ConsumerKeys
              PROVE  ROLLOVER \in Range(hid_in_report_boot.keys) <=> Many(Ordinary) > BootKeys
  BY DEF RolloverShown
<1>. DEFINE l == hid_usage_list
<1>1. /\ l \in Lists /\ step \in Seq(Usage) /\ down \subseteq Keys
  BY StepAssumption DEF IInv, TypeOK, Lists
<1>2. /\ Count(l, Ordinary) \in Nat /\ Many(Ordinary) \in Nat
      /\ Many(Modifiers \cup Consumers) \in Nat
  BY <1>1, PositionsType, ListDomain, WantsType, ManyIsWants, Sizes
<1>3. Usage \ Ordinary = Modifiers \cup Consumers
  BY UsageAssumption DEF Usage
<1>4. /\ Count(l, Ordinary) <= Many(Ordinary)
      /\ Count(l, Ordinary) = Many(Ordinary)
           \/ Count(l, Ordinary) + Many(Modifiers \cup Consumers) >= Slots
  <2>1. Balanced(l, down, step, Ordinary)
    BY Pages DEF IInv, CountInv
  <2>. QED BY <1>3, <2>1, ManyIsWants DEF Balanced
<1>5. Count(l, Ordinary) > BootKeys <=> Many(Ordinary) > BootKeys
  BY <1>2, <1>4, Sizes
<1>6. TooMany <=> Count(l, Ordinary) > BootKeys
  BY DEF TooMany, KeysListed, Entries, Count
<1>7. ASSUME TooMany
      PROVE  ROLLOVER \in Range(hid_in_report_boot.keys)
  <2>1. hid_in_report_boot.keys = [i \in 1 .. BootKeys |-> ROLLOVER] /\ 1 \in 1 .. BootKeys
    BY <1>7, Sizes DEF hid_in_report_boot
  <2>. QED BY <2>1 DEF Range
<1>8. ASSUME ~ TooMany
      PROVE  ROLLOVER \notin Range(hid_in_report_boot.keys)
  <2>1. hid_in_report_boot.keys = [i \in Positions(l, Ordinary) |-> l[i]]
    BY <1>8 DEF hid_in_report_boot, KeysListed, Entries
  <2>2. Range(hid_in_report_boot.keys) \subseteq Ordinary
    BY <1>1, <2>1, ListedImage
  <2>. QED BY <2>2, UsageAssumption DEF Usage
<1>. QED BY <1>5, <1>6, <1>7, <1>8

\* Too many ordinary keys are reported as such, and only then, even where the list has
\* dropped some of them.
THEOREM Rollover == Spec => []RolloverShown
  BY Invariant, IInvRollover, PTL
=============================================================================
