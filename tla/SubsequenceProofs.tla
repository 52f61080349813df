------------------------- MODULE SubsequenceProofs --------------------------
(***************************************************************************)
(* What the operators of Subsequence return, for every sequence: the facts *)
(* that the proofs about the block pool cite.  Induction over a length is  *)
(* done with the least counterexample, which exists because inclusion is   *)
(* well founded on the finite sets.                                        *)
(***************************************************************************)
EXTENDS Subsequence, FiniteSetTheorems, TLAPS

(* A set of naturals that has a member has a least member. *)
LEMMA LeastMember ==
    ASSUME NEW T \in SUBSET Nat, T # {}
    PROVE  \E m \in T : \A k \in T : m <= k
<1> DEFINE Below == {0..t : t \in T}
<1>1. Below \subseteq FiniteSubsetsOf(Nat) /\ Below # {}
  <2>1. ASSUME NEW t \in T PROVE 0..t \in FiniteSubsetsOf(Nat)
    BY FS_Interval DEF FiniteSubsetsOf
  <2>2. QED BY Zenon, <2>1
<1>2. PICK X \in Below : \A Y \in Below : ~ (<<Y, X>> \in StrictSubsetOrdering(Nat))
  BY Zenon, <1>1, WFMin, FS_StrictSubsetOrderingWellFounded
<1>3. PICK m \in T : X = 0..m
  BY <1>2
<1>4. ASSUME NEW k \in T PROVE m <= k
  <2>1. SUFFICES ASSUME k < m PROVE FALSE OBVIOUS
  <2>2. 0..k \in Below OBVIOUS
  <2>3. 0..k \subseteq 0..m /\ 0..k # 0..m
    <3>1. m \in 0..m /\ m \notin 0..k BY <2>1
    <3>2. QED BY <2>1, <3>1
  <2>4. 0..k \in SUBSET Nat /\ 0..m \in SUBSET Nat OBVIOUS
  <2>5. <<0..k, 0..m>> \in StrictSubsetOrdering(Nat)
    BY <2>3, <2>4 DEF StrictSubsetOrdering
  <2>6. QED BY Zenon, <1>2, <1>3, <2>2, <2>5
<1>5. QED
  BY <1>4

(* A set of positions of a sequence is finite, and so are its parts. *)
LEMMA PositionsFinite ==
    ASSUME NEW n \in Nat, NEW I \in SUBSET (1..n)
    PROVE  /\ IsFiniteSet(I)
           /\ Cardinality(I) \in 0..n
           /\ \A i : IsFiniteSet(I \cap 1..i) /\ Cardinality(I \cap 1..i) \in 0..Cardinality(I)
<1>1. IsFiniteSet(1..n) /\ Cardinality(1..n) = n
  BY FS_Interval
<1>2. IsFiniteSet(I) /\ Cardinality(I) <= n
  BY Zenon, <1>1, FS_Subset
<1>3. Cardinality(I) \in Nat
  BY <1>2, FS_CardinalityType
<1>4. ASSUME NEW i
      PROVE  IsFiniteSet(I \cap 1..i) /\ Cardinality(I \cap 1..i) \in 0..Cardinality(I)
  <2>1. IsFiniteSet(I \cap 1..i) /\ Cardinality(I \cap 1..i) <= Cardinality(I)
    BY <1>2, FS_Intersection
  <2>2. Cardinality(I \cap 1..i) \in Nat
    BY <2>1, FS_CardinalityType
  <2>3. QED
    BY <1>3, <2>1, <2>2
<1>5. QED
  BY <1>2, <1>3, <1>4

(* Every rank up to the size of a set of positions is taken. *)
LEMMA EveryRankTaken ==
    ASSUME NEW n \in Nat, NEW I \in SUBSET (1..n), NEW k \in 1..Cardinality(I)
    PROVE  \E i \in I : Cardinality(I \cap 1..i) = k
<1> DEFINE Good(m) == \A J \in SUBSET (1..m) : \A l \in 1..Cardinality(J) :
                          \E j \in J : Cardinality(J \cap 1..j) = l
           Bad == {m \in Nat : ~ Good(m)}
<1>1. SUFFICES ASSUME Bad # {} PROVE FALSE
  <2>1. SUFFICES Good(n) BY <2>1
  <2>2. QED BY Zenon, <1>1
<1>2. PICK m \in Bad : \A y \in Bad : m <= y
  BY Zenon, <1>1, LeastMember
<1> HIDE DEF Bad, Good
<1>a. m \in Nat /\ ~ Good(m)
  BY <1>2 DEF Bad
<1>b. \A y \in Nat : y < m => Good(y)
  BY <1>2, <1>a DEF Bad
<1>3. PICK J \in SUBSET (1..m) :
          \E l \in 1..Cardinality(J) : \A j \in J : Cardinality(J \cap 1..j) # l
  BY Zenon, <1>a DEF Good
<1>4. PICK l \in 1..Cardinality(J) : \A j \in J : Cardinality(J \cap 1..j) # l
  BY <1>3
<1>5. IsFiniteSet(J) /\ Cardinality(J) \in Nat
  BY <1>a, PositionsFinite
<1>6. m # 0
  <2>1. SUFFICES ASSUME m = 0 PROVE FALSE OBVIOUS
  <2>2. J = {} BY <2>1
  <2>3. Cardinality(J) = 0 BY <2>2, FS_EmptySet
  <2>4. QED BY <2>3
<1>7. m - 1 \in Nat /\ Good(m - 1)
  BY <1>a, <1>b, <1>6
<1>8. CASE m \notin J
  <2>1. J \in SUBSET (1..(m - 1)) BY <1>8, <1>a
  <2>2. QED BY Zenon, <2>1, <1>7, <1>4 DEF Good
<1>9. CASE m \in J
  <2> DEFINE K == J \ {m}
  <2>1. K \in SUBSET (1..(m - 1)) BY <1>a
  <2>2. Cardinality(K) = Cardinality(J) - 1
    BY Zenon, <1>5, <1>9, FS_RemoveElement
  <2>3. J \cap 1..m = J BY Zenon, <1>a
  <2>4. l # Cardinality(J) BY <1>4, <1>9, <2>3
  <2>5. l \in 1..Cardinality(K) BY <2>2, <2>4, <1>5
  <2>6. PICK j \in K : Cardinality(K \cap 1..j) = l BY <2>1, <2>5, <1>7 DEF Good
  <2>7. K \cap 1..j = J \cap 1..j BY <2>1, <1>a
  <2>8. QED BY <2>6, <2>7, <1>4
<1>10. QED
  BY <1>8, <1>9

(* The k-th position is one of the positions and has rank k. *)
LEMMA KthPosition ==
    ASSUME NEW n \in Nat, NEW I \in SUBSET (1..n), NEW k \in 1..Cardinality(I)
    PROVE  Kth(I, k) \in I /\ Cardinality(I \cap 1..Kth(I, k)) = k
BY Zenon, EveryRankTaken DEF Kth

(* Two positions of the same set have different ranks. *)
LEMMA RanksDiffer ==
    ASSUME NEW n \in Nat, NEW I \in SUBSET (1..n), NEW i \in I, NEW j \in I,
           Cardinality(I \cap 1..i) = Cardinality(I \cap 1..j)
    PROVE  i = j
<1>1. ASSUME NEW a \in I, NEW b \in I, a < b,
             Cardinality(I \cap 1..a) = Cardinality(I \cap 1..b)
      PROVE  FALSE
  <2>1. IsFiniteSet(I \cap 1..b) BY PositionsFinite
  <2>2. I \cap 1..a \in SUBSET (I \cap 1..b) BY <1>1
  <2>3. I \cap 1..a = I \cap 1..b BY <2>1, <2>2, <1>1, FS_Subset
  <2>4. b \in I \cap 1..b /\ b \notin I \cap 1..a BY <1>1
  <2>5. QED BY <2>3, <2>4
<1>2. i \in Nat /\ j \in Nat OBVIOUS
<1>3. QED
  BY <1>1, <1>2

(* Every position of the set is its k-th for its own rank k. *)
LEMMA KthOfRank ==
    ASSUME NEW n \in Nat, NEW I \in SUBSET (1..n), NEW i \in I
    PROVE  /\ Cardinality(I \cap 1..i) \in 1..Cardinality(I)
           /\ Kth(I, Cardinality(I \cap 1..i)) = i
<1>1. IsFiniteSet(I \cap 1..i) /\ Cardinality(I \cap 1..i) \in 0..Cardinality(I)
  BY Zenon, PositionsFinite
<1>2. i \in I \cap 1..i OBVIOUS
<1>3. Cardinality(I \cap 1..i) # 0
  BY <1>1, <1>2, FS_EmptySet
<1>4. Cardinality(I \cap 1..i) \in 1..Cardinality(I)
  BY <1>1, <1>3
<1> DEFINE k == Cardinality(I \cap 1..i)
<1>5. Kth(I, k) \in I /\ Cardinality(I \cap 1..Kth(I, k)) = k
  BY Zenon, <1>4, KthPosition
<1>6. Kth(I, k) = i
  BY Zenon, <1>5, RanksDiffer
<1>7. QED
  BY <1>4, <1>6

-----------------------------------------------------------------------------
(* Select returns the elements at the selected positions, one for each.    *)
LEMMA SelectProperties ==
    ASSUME NEW S, NEW s \in Seq(S), NEW I \in SUBSET (1..Len(s))
    PROVE  /\ Select(s, I) \in Seq(S)
           /\ Len(Select(s, I)) = Cardinality(I)
           /\ Elems(Select(s, I)) = {s[i] : i \in I}
           /\ (\A i, j \in I : s[i] = s[j] => i = j) => Distinct(Select(s, I))
<1> DEFINE r == Select(s, I)
           c == Cardinality(I)
<1>1. Len(s) \in Nat /\ c \in Nat
  BY PositionsFinite
<1>2. \A k \in 1..c : Kth(I, k) \in I /\ Cardinality(I \cap 1..Kth(I, k)) = k
  BY Zenon, <1>1, KthPosition
<1>3. r = [k \in 1..c |-> s[Kth(I, k)]]
  BY DEF Select
<1>4. \A k \in 1..c : s[Kth(I, k)] \in S
  <2>1. \A i \in 1..Len(s) : s[i] \in S OBVIOUS
  <2>2. QED BY Zenon, <1>2, <2>1
<1>5. r \in Seq(S) /\ Len(r) = c
  <2>1. r \in [1..c -> S] BY <1>3, <1>4
  <2>2. r \in Seq(S) BY <1>1, <2>1
  <2>3. QED BY <1>1, <2>1, <2>2
<1>6. Elems(r) = {s[i] : i \in I}
  <2>1. ASSUME NEW i \in I PROVE s[i] \in Elems(r)
    <3>1. Cardinality(I \cap 1..i) \in 1..c /\ Kth(I, Cardinality(I \cap 1..i)) = i
      BY Zenon, <1>1, KthOfRank
    <3>2. r[Cardinality(I \cap 1..i)] = s[i] BY <1>3, <3>1
    <3>3. QED BY <1>5, <3>1, <3>2 DEF Elems
  <2>2. ASSUME NEW k \in 1..c PROVE r[k] \in {s[i] : i \in I}
    BY Zenon, <1>2, <1>3
  <2>3. QED BY <1>5, <2>1, <2>2 DEF Elems
<1>7. ASSUME \A i, j \in I : s[i] = s[j] => i = j
      PROVE  Distinct(r)
  <2>1. SUFFICES ASSUME NEW k \in 1..c, NEW l \in 1..c, r[k] = r[l] PROVE k = l
    BY <1>5 DEF Distinct
  <2>2. s[Kth(I, k)] = s[Kth(I, l)] BY <1>3, <2>1
  <2>3. Kth(I, k) = Kth(I, l) BY Zenon, <1>2, <1>7, <2>2
  <2>4. QED BY Zenon, <1>2, <2>3
<1>8. QED
  BY <1>5, <1>6, <1>7

(* Dropping elements keeps the others and adds no repetition. *)
LEMMA DropProperties ==
    ASSUME NEW S, NEW s \in Seq(S), NEW T
    PROVE  /\ Drop(s, T) \in Seq(S)
           /\ Elems(Drop(s, T)) = Elems(s) \ T
           /\ Distinct(s) => Distinct(Drop(s, T))
<1> DEFINE I == {i \in 1..Len(s) : s[i] \notin T}
<1>1. I \in SUBSET (1..Len(s)) OBVIOUS
<1>2. Drop(s, T) = Select(s, I) BY DEF Drop
<1>3. {s[i] : i \in I} = Elems(s) \ T BY DEF Elems
<1>4. Distinct(s) => \A i, j \in I : s[i] = s[j] => i = j BY DEF Distinct
<1> HIDE DEF I
<1>5. QED
  BY <1>1, <1>2, <1>3, <1>4, SelectProperties

(* Dropping the element at position j closes the gap. *)
LEMMA DropOne ==
    ASSUME NEW S, NEW s \in Seq(S), Distinct(s), NEW j \in 1..Len(s)
    PROVE  /\ Len(Drop(s, {s[j]})) = Len(s) - 1
           /\ \A i \in 1..(Len(s) - 1) : Drop(s, {s[j]})[i] = IF i < j THEN s[i] ELSE s[i + 1]
<1> DEFINE I == {i \in 1..Len(s) : s[i] \notin {s[j]}}
           L == Len(s)
<1>1. L \in Nat
  OBVIOUS
<1>2. I = (1..L) \ {j}
  BY DEF Distinct
<1>3. I \in SUBSET (1..L)
  BY <1>2
<1>4. Drop(s, {s[j]}) = [k \in 1..Cardinality(I) |-> s[Kth(I, k)]]
  BY DEF Drop, Select
<1> HIDE DEF I
<1>5. IsFiniteSet(1..L) /\ Cardinality(1..L) = L
  BY <1>1, FS_Interval
<1>6. Cardinality(I) = L - 1
  BY Zenon, <1>2, <1>5, FS_RemoveElement
<1>7. ASSUME NEW k \in 1..(L - 1) PROVE Kth(I, k) = IF k < j THEN k ELSE k + 1
  <2>1. CASE k < j
    <3>1. I \cap 1..k = 1..k /\ k \in I BY <1>1, <1>2, <2>1
    <3>2. Cardinality(1..k) = k BY FS_Interval
    <3>3. Kth(I, Cardinality(I \cap 1..k)) = k BY Zenon, <1>1, <1>3, <3>1, KthOfRank
    <3> QED BY Zenon, <2>1, <3>1, <3>2, <3>3
  <2>2. CASE ~ k < j
    <3>1. I \cap 1..(k + 1) = (1..(k + 1)) \ {j} /\ k + 1 \in I /\ j \in 1..(k + 1) BY <1>1, <1>2, <2>2
    <3>2. IsFiniteSet(1..(k + 1)) /\ Cardinality(1..(k + 1)) = k + 1 BY FS_Interval
    <3>3. Cardinality((1..(k + 1)) \ {j}) = k
      <4>1. Cardinality((1..(k + 1)) \ {j}) = Cardinality(1..(k + 1)) - 1
        BY Zenon, <3>1, <3>2, FS_RemoveElement
      <4> QED BY <3>2, <4>1
    <3>4. Kth(I, Cardinality(I \cap 1..(k + 1))) = k + 1 BY Zenon, <1>1, <1>3, <3>1, KthOfRank
    <3> QED BY Zenon, <2>2, <3>1, <3>3, <3>4
  <2> QED BY <2>1, <2>2
<1>8. Len(Drop(s, {s[j]})) = L - 1
  BY <1>1, <1>4, <1>6
<1>9. ASSUME NEW k \in 1..(L - 1)
      PROVE  Drop(s, {s[j]})[k] = IF k < j THEN s[k] ELSE s[k + 1]
  <2>1. Drop(s, {s[j]})[k] = s[Kth(I, k)] BY <1>4, <1>6
  <2> QED BY <1>7, <2>1
<1> QED
  BY Zenon, <1>8, <1>9

(* A set of positions that has a member has a last member. *)
LEMMA LastMember ==
    ASSUME NEW n \in Nat, NEW I \in SUBSET (1..n), I # {}
    PROVE  \E m \in I : \A k \in I : k <= m
<1>1. IsFiniteSet(I) /\ Cardinality(I) \in Nat BY PositionsFinite
<1>2. Cardinality(I) # 0 BY <1>1, FS_EmptySet
<1>3. Cardinality(I) \in 1..Cardinality(I) BY <1>1, <1>2
<1>4. PICK m \in I : Cardinality(I \cap 1..m) = Cardinality(I) BY Zenon, <1>3, EveryRankTaken
<1>5. I \cap 1..m \in SUBSET I OBVIOUS
<1>6. I \cap 1..m = I BY <1>1, <1>4, <1>5, FS_Subset
<1>7. QED BY <1>6

(* Selecting last occurrences returns each of the elements exactly once. *)
LEMMA SelectLastProperties ==
    ASSUME NEW S, NEW s \in Seq(S), NEW I \in SUBSET (1..Len(s))
    PROVE  /\ Select(s, LastOf(s, I)) \in Seq(S)
           /\ Elems(Select(s, LastOf(s, I))) = {s[i] : i \in I}
           /\ Distinct(Select(s, LastOf(s, I)))
<1> DEFINE L == LastOf(s, I)
<1>1. L \in SUBSET (1..Len(s)) /\ L \subseteq I BY Zenon DEF LastOf
<1>2. \A i, j \in L : s[i] = s[j] => i = j
  <2>1. SUFFICES ASSUME NEW i \in L, NEW j \in L, s[i] = s[j] PROVE i = j OBVIOUS
  <2>2. i \in Nat /\ j \in Nat BY <1>1
  <2>3. i <= j /\ j <= i BY <2>1, <1>1 DEF LastOf
  <2>4. QED BY <2>2, <2>3
<1>3. ASSUME NEW i \in I PROVE \E m \in L : s[m] = s[i]
  <2> DEFINE J == {j \in I : s[j] = s[i]}
  <2>1. J \in SUBSET (1..Len(s)) /\ i \in J BY Zenon
  <2> HIDE DEF J
  <2>2. PICK m \in J : \A k \in J : k <= m
    <3>1. Len(s) \in Nat /\ J # {} BY <2>1
    <3>2. QED BY Zenon, <2>1, <3>1, LastMember
  <2>3. m \in I /\ s[m] = s[i] BY DEF J
  <2>4. \A j \in I : s[j] = s[m] => j <= m BY <2>2, <2>3 DEF J
  <2>5. QED BY <2>3, <2>4 DEF LastOf
<1>4. {s[i] : i \in L} = {s[i] : i \in I} BY <1>1, <1>3
<1> HIDE DEF L
<1>5. Select(s, L) \in Seq(S) /\ Elems(Select(s, L)) = {s[i] : i \in L} /\ Distinct(Select(s, L))
  BY <1>1, <1>2, SelectProperties
<1>6. QED BY Zenon, <1>4, <1>5 DEF L

(* KeepLast keeps exactly the elements of T, once each. *)
LEMMA KeepLastProperties ==
    ASSUME NEW S, NEW s \in Seq(S), NEW T
    PROVE  /\ KeepLast(s, T) \in Seq(S)
           /\ Elems(KeepLast(s, T)) = Elems(s) \cap T
           /\ Distinct(KeepLast(s, T))
<1> DEFINE I == {i \in 1..Len(s) : s[i] \in T}
<1>1. I \in SUBSET (1..Len(s)) OBVIOUS
<1>2. KeepLast(s, T) = Select(s, LastOf(s, I)) BY DEF KeepLast
<1>3. {s[i] : i \in I} = Elems(s) \cap T BY DEF Elems
<1> HIDE DEF I
<1>4. QED BY <1>1, <1>2, <1>3, SelectLastProperties, Zenon

-----------------------------------------------------------------------------
(* Concatenation of two lists that share no element. *)
LEMMA ConcatElems ==
    ASSUME NEW S, NEW s \in Seq(S), NEW t \in Seq(S)
    PROVE  /\ s \o t \in Seq(S)
           /\ Elems(s \o t) = Elems(s) \cup Elems(t)
           /\ (Distinct(s) /\ Distinct(t) /\ Elems(s) \cap Elems(t) = {}) => Distinct(s \o t)
<1>1. /\ s \o t \in Seq(S)
      /\ Len(s \o t) = Len(s) + Len(t)
      /\ \A i \in 1..Len(s) : (s \o t)[i] = s[i]
      /\ \A i \in (Len(s) + 1)..(Len(s) + Len(t)) : (s \o t)[i] = t[i - Len(s)]
  OBVIOUS
<1>2. Len(s) \in Nat /\ Len(t) \in Nat OBVIOUS
<1>3. Elems(s) \cup Elems(t) \subseteq Elems(s \o t)
  <2>1. ASSUME NEW i \in 1..Len(s) PROVE s[i] \in Elems(s \o t) BY <1>1, <1>2 DEF Elems
  <2>2. ASSUME NEW i \in 1..Len(t) PROVE t[i] \in Elems(s \o t)
    <3>1. Len(s) + i \in (Len(s) + 1)..(Len(s) + Len(t)) BY <1>2
    <3>2. (s \o t)[Len(s) + i] = t[i] BY <1>1, <1>2, <3>1
    <3>3. QED BY <1>1, <1>2, <3>1, <3>2 DEF Elems
  <2>3. QED BY Zenon, <2>1, <2>2 DEF Elems
<1>4. ASSUME NEW i \in 1..Len(s \o t)
      PROVE  \/ i \in 1..Len(s) /\ (s \o t)[i] = s[i]
             \/ i - Len(s) \in 1..Len(t) /\ (s \o t)[i] = t[i - Len(s)]
  BY <1>1, <1>2
<1>5. Elems(s \o t) \subseteq Elems(s) \cup Elems(t)
  BY <1>4 DEF Elems
<1>6. ASSUME Distinct(s), Distinct(t), Elems(s) \cap Elems(t) = {}
      PROVE  Distinct(s \o t)
  <2>1. SUFFICES ASSUME NEW i \in 1..Len(s \o t), NEW j \in 1..Len(s \o t),
                        (s \o t)[i] = (s \o t)[j]
                 PROVE  i = j
    BY DEF Distinct
  <2>2. \A a \in 1..Len(s), b \in 1..Len(t) : s[a] # t[b] BY SMTT(30), <1>6 DEF Elems
  <2>3. i \in Nat /\ j \in Nat BY <1>1, <1>2
  <2>4. QED BY <1>2, <1>4, <1>6, <2>1, <2>2, <2>3 DEF Distinct
<1>7. QED
  BY <1>1, <1>3, <1>5, <1>6

(* Splitting a list after its first n elements. *)
LEMMA SplitElems ==
    ASSUME NEW S, NEW s \in Seq(S), NEW n \in 0..Len(s)
    PROVE  /\ SubSeq(s, 1, n) \in Seq(S) /\ Len(SubSeq(s, 1, n)) = n
           /\ SubSeq(s, n + 1, Len(s)) \in Seq(S)
           /\ Elems(SubSeq(s, 1, n)) \cup Elems(SubSeq(s, n + 1, Len(s))) = Elems(s)
           /\ Distinct(s) => /\ Distinct(SubSeq(s, 1, n))
                             /\ Distinct(SubSeq(s, n + 1, Len(s)))
                             /\ Elems(SubSeq(s, 1, n)) \cap Elems(SubSeq(s, n + 1, Len(s))) = {}
<1> DEFINE a == SubSeq(s, 1, n)
           b == SubSeq(s, n + 1, Len(s))
<1>1. Len(s) \in Nat /\ n \in Nat OBVIOUS
<1>2. a \in Seq(S) /\ Len(a) = n /\ \A i \in 1..n : a[i] = s[i]
  BY <1>1
<1>3. b \in Seq(S) /\ Len(b) = Len(s) - n /\ \A i \in 1..(Len(s) - n) : b[i] = s[n + i]
  BY <1>1
<1> HIDE DEF a, b
<1>4. Elems(a) = {s[i] : i \in 1..n}
  BY <1>1, <1>2 DEF Elems
<1>5. Elems(b) = {s[i] : i \in (n + 1)..Len(s)}
  <2>1. ASSUME NEW i \in 1..(Len(s) - n) PROVE b[i] \in {s[j] : j \in (n + 1)..Len(s)}
    BY <1>1, <1>3
  <2>2. ASSUME NEW j \in (n + 1)..Len(s) PROVE s[j] \in Elems(b)
    <3>1. j - n \in 1..(Len(s) - n) /\ n + (j - n) = j BY <1>1
    <3>2. b[j - n] = s[j] BY <1>3, <3>1
    <3>3. QED BY <1>3, <3>1, <3>2 DEF Elems
  <2>3. QED BY Zenon, <1>3, <2>1, <2>2 DEF Elems
<1>6. Elems(a) \cup Elems(b) = Elems(s)
  <2>1. 1..Len(s) = (1..n) \cup ((n + 1)..Len(s)) BY <1>1
  <2>2. Elems(s) = {s[i] : i \in (1..n) \cup ((n + 1)..Len(s))} BY <2>1 DEF Elems
  <2>3. QED BY <1>4, <1>5, <2>2
<1>7. Distinct(s) => Distinct(a) /\ Distinct(b) /\ Elems(a) \cap Elems(b) = {}
  <2>1. SUFFICES ASSUME Distinct(s) PROVE Distinct(a) /\ Distinct(b) /\ Elems(a) \cap Elems(b) = {}
    OBVIOUS
  <2>2. Distinct(a) BY <1>1, <1>2, <2>1 DEF Distinct
  <2>3. Distinct(b)
    <3>1. SUFFICES ASSUME NEW i \in 1..(Len(s) - n), NEW j \in 1..(Len(s) - n), b[i] = b[j]
                   PROVE  i = j
      BY <1>3 DEF Distinct
    <3>2. n + i \in 1..Len(s) /\ n + j \in 1..Len(s) BY <1>1
    <3>3. s[n + i] = s[n + j] BY SMTT(30), <1>3, <3>1
    <3>4. n + i = n + j BY <2>1, <3>2, <3>3 DEF Distinct
    <3>5. QED BY <1>1, <3>4
  <2>4. Elems(a) \cap Elems(b) = {} BY <1>1, <1>4, <1>5, <2>1 DEF Distinct
  <2>5. QED BY <2>2, <2>3, <2>4
<1>8. QED
  BY <1>2, <1>3, <1>6, <1>7 DEF a, b

(* A one-to-one correspondence given by a function. *)
LEMMA SameSize ==
    ASSUME NEW S, NEW T, IsFiniteSet(S), NEW f \in [S -> T],
           \A a, b \in S : f[a] = f[b] => a = b,
           \A t \in T : \E a \in S : f[a] = t
    PROVE  IsFiniteSet(T) /\ Cardinality(T) = Cardinality(S)
<1>1. f \in Bijection(S, T) BY DEF Bijection, Injection, Surjection, IsInjective
<1>2. ExistsBijection(S, T) BY <1>1 DEF ExistsBijection
<1>3. QED BY <1>2, FS_Bijection

(* Dropping elements of a list without repetition shortens it by as many. *)
LEMMA DropLength ==
    ASSUME NEW S, NEW s \in Seq(S), Distinct(s), NEW T \in SUBSET Elems(s)
    PROVE  Len(Drop(s, T)) = Len(s) - Cardinality(T)
<1> DEFINE I == {i \in 1..Len(s) : s[i] \notin T}
           J == {i \in 1..Len(s) : s[i] \in T}
<1>1. Len(s) \in Nat OBVIOUS
<1>2. I \in SUBSET (1..Len(s)) /\ J \in SUBSET (1..Len(s)) /\ I \cup J = 1..Len(s) /\ I \cap J = {}
  OBVIOUS
<1>3. Drop(s, T) = Select(s, I) BY DEF Drop
<1>4. Cardinality(J) = Cardinality(T)
  <2> DEFINE f == [i \in J |-> s[i]]
  <2>1. f \in [J -> T] OBVIOUS
  <2>2. \A a, b \in J : f[a] = f[b] => a = b BY DEF Distinct
  <2>3. \A t \in T : \E a \in J : f[a] = t BY DEF Elems
  <2>4. IsFiniteSet(J) BY <1>1, <1>2, PositionsFinite
  <2> HIDE DEF f, J
  <2>5. QED BY Zenon, <2>1, <2>2, <2>3, <2>4, SameSize
<1> HIDE DEF I, J
<1>5. Len(Drop(s, T)) = Cardinality(I) BY <1>2, <1>3, SelectProperties
<1>6. IsFiniteSet(I) /\ IsFiniteSet(J) /\ Cardinality(I) \in Nat /\ Cardinality(J) \in Nat
  BY <1>1, <1>2, PositionsFinite
<1>7. Cardinality(I \cup J) = Cardinality(I) + Cardinality(J) - Cardinality(I \cap J)
  BY <1>6, FS_Union
<1>8. Cardinality(1..Len(s)) = Len(s)
  <2> DEFINE n == Len(s)
  <2>1. n \in Nat OBVIOUS
  <2> HIDE DEF n
  <2>2. Cardinality(1..n) = IF 1 > n THEN 0 ELSE n - 1 + 1 BY <2>1, FS_Interval
  <2>3. Cardinality(1..n) = n BY <2>1, <2>2
  <2>4. QED BY <2>3 DEF n
<1>9. Cardinality(I \cap J) = 0 BY Zenon, <1>2, FS_EmptySet
<1>10. Len(s) = Cardinality(I) + Cardinality(J)
  <2>1. Cardinality(I \cup J) = Len(s) BY Zenon, <1>2, <1>8
  <2>2. QED BY <1>6, <1>7, <1>9, <2>1
<1>11. QED
  BY <1>4, <1>5, <1>6, <1>10

(* Appending an element. *)
LEMMA AppendElems ==
    ASSUME NEW S, NEW s \in Seq(S), NEW e \in S
    PROVE  /\ Append(s, e) \in Seq(S)
           /\ Len(Append(s, e)) = Len(s) + 1
           /\ Elems(Append(s, e)) = Elems(s) \cup {e}
           /\ (Distinct(s) /\ e \notin Elems(s)) => Distinct(Append(s, e))
<1>1. /\ Append(s, e) \in Seq(S)
      /\ Len(Append(s, e)) = Len(s) + 1
      /\ \A i \in 1..Len(s) : Append(s, e)[i] = s[i]
      /\ Append(s, e)[Len(s) + 1] = e
  OBVIOUS
<1>2. Len(s) \in Nat /\ 1..(Len(s) + 1) = 1..Len(s) \cup {Len(s) + 1} OBVIOUS
<1>3. Elems(Append(s, e)) = Elems(s) \cup {e}
  BY <1>1, <1>2 DEF Elems
<1>4. ASSUME Distinct(s), e \notin Elems(s) PROVE Distinct(Append(s, e))
  BY <1>1, <1>2, <1>4 DEF Distinct, Elems
<1>5. QED BY <1>1, <1>3, <1>4


-----------------------------------------------------------------------------
(* How often an element occurs.                                            *)

(* The number of occurrences in a sequence is a natural number. *)
LEMMA OccurrencesNat ==
    ASSUME NEW S, NEW s \in Seq(S), NEW e
    PROVE  /\ Occurrences(s, e) \in Nat
           /\ Occurrences(s, e) = 0 <=> e \notin Elems(s)
           /\ IsFiniteSet({i \in 1..Len(s) : s[i] = e})
<1> DEFINE P == {i \in 1..Len(s) : s[i] = e}
<1>1. Len(s) \in Nat /\ P \in SUBSET (1..Len(s)) OBVIOUS
<1>2. IsFiniteSet(P) /\ Cardinality(P) \in 0..Len(s) BY <1>1, PositionsFinite
<1>3. Cardinality(P) = 0 <=> P = {} BY Zenon, <1>2, FS_EmptySet
<1>4. P = {} <=> e \notin Elems(s) BY DEF Elems
<1>5. QED BY <1>1, <1>2, <1>3, <1>4 DEF Occurrences

(* An element of a sequence without repetition occurs once. *)
LEMMA OccurrencesDistinct ==
    ASSUME NEW S, NEW s \in Seq(S), Distinct(s), NEW e
    PROVE  Occurrences(s, e) = IF e \in Elems(s) THEN 1 ELSE 0
<1>1. CASE e \notin Elems(s) BY Zenon, <1>1, OccurrencesNat
<1>2. CASE e \in Elems(s)
  <2>1. PICK i \in 1..Len(s) : s[i] = e BY <1>2 DEF Elems
  <2>2. {j \in 1..Len(s) : s[j] = e} = {i} BY <2>1 DEF Distinct
  <2>3. Cardinality({i}) = 1 BY Zenon, FS_Singleton
  <2>4. QED BY Zenon, <1>2, <2>2, <2>3 DEF Occurrences
<1>3. QED BY <1>1, <1>2

(* Occurrences add up over concatenation. *)
LEMMA OccurrencesConcat ==
    ASSUME NEW S, NEW s \in Seq(S), NEW t \in Seq(S), NEW e
    PROVE  Occurrences(s \o t, e) = Occurrences(s, e) + Occurrences(t, e)
<1> DEFINE P == {i \in 1..Len(s) : s[i] = e}
           Q == {i \in 1..Len(t) : t[i] = e}
           M == {i \in (Len(s) + 1)..(Len(s) + Len(t)) : t[i - Len(s)] = e}
           U == {i \in 1..Len(s \o t) : (s \o t)[i] = e}
<1>1. Len(s) \in Nat /\ Len(t) \in Nat OBVIOUS
<1>2. /\ Len(s \o t) = Len(s) + Len(t)
      /\ \A i \in 1..(Len(s) + Len(t)) : (s \o t)[i] = IF i <= Len(s) THEN s[i] ELSE t[i - Len(s)]
  OBVIOUS
<1>3. U = P \cup M
  <2>1. \A i \in 1..(Len(s) + Len(t)) : i \in 1..Len(s) \/ i \in (Len(s) + 1)..(Len(s) + Len(t))
    BY <1>1
  <2>2. \A i \in 1..Len(s) : i \in 1..(Len(s) + Len(t)) /\ i <= Len(s) BY <1>1
  <2>3. \A i \in (Len(s) + 1)..(Len(s) + Len(t)) : i \in 1..(Len(s) + Len(t)) /\ ~ (i <= Len(s))
    BY <1>1
  <2>4. QED BY <1>2, <2>1, <2>2, <2>3
<1>4. P \cap M = {} BY <1>1
<1>5. IsFiniteSet(P) /\ IsFiniteSet(Q) BY Zenon, OccurrencesNat
<1>6. IsFiniteSet(M) /\ Cardinality(M) = Cardinality(Q)
  <2> DEFINE f == [i \in Q |-> i + Len(s)]
  <2>1. f \in [Q -> M] BY <1>1
  <2>2. \A a, b \in Q : f[a] = f[b] => a = b BY <1>1
  <2>3. \A m \in M : \E a \in Q : f[a] = m
    <3>1. SUFFICES ASSUME NEW m \in M PROVE \E a \in Q : f[a] = m OBVIOUS
    <3>2. m - Len(s) \in Q BY <1>1
    <3>3. f[m - Len(s)] = m BY <1>1, <3>2
    <3>4. QED BY <3>2, <3>3
  <2> HIDE DEF f, Q, M
  <2>4. QED BY Zenon, <1>5, <2>1, <2>2, <2>3, SameSize
<1>7. Cardinality(P \cup M) = Cardinality(P) + Cardinality(M)
  <2>1. Cardinality(P \cap M) = 0 BY Zenon, <1>4, FS_EmptySet
  <2>2. Cardinality(P) \in Nat /\ Cardinality(M) \in Nat BY <1>5, <1>6, FS_CardinalityType
  <2> HIDE DEF P, M
  <2>3. Cardinality(P \cup M) = Cardinality(P) + Cardinality(M) - Cardinality(P \cap M)
    BY <1>5, <1>6, FS_Union
  <2>4. QED BY <2>1, <2>2, <2>3
<1>8. Cardinality(U) = Cardinality(P) + Cardinality(Q) BY Zenon, <1>3, <1>6, <1>7
<1>9. QED BY Zenon, <1>8 DEF Occurrences

(* Reversing a sequence changes no occurrence count. *)
LEMMA OccurrencesReversed ==
    ASSUME NEW S, NEW s \in Seq(S), NEW e
    PROVE  /\ Reversed(s) \in Seq(S)
           /\ Occurrences(Reversed(s), e) = Occurrences(s, e)
<1> DEFINE n == Len(s)
           P == {i \in 1..Len(s) : s[i] = e}
           r == Reversed(s)
           Q == {i \in 1..Len(r) : r[i] = e}
           f == [i \in P |-> n + 1 - i]
<1>1. n \in Nat OBVIOUS
<1>2. r \in Seq(S) /\ Len(r) = n /\ \A i \in 1..n : r[i] = s[n + 1 - i]
  <2>1. \A i \in 1..n : n + 1 - i \in 1..n BY <1>1
  <2>2. r \in [1..n -> S] BY <1>1, <2>1 DEF Reversed
  <2>3. QED BY <1>1, <2>2 DEF Reversed
<1> HIDE DEF r
<1>3. f \in [P -> Q]
  <2>1. SUFFICES ASSUME NEW i \in P PROVE n + 1 - i \in Q OBVIOUS
  <2>2. n + 1 - i \in 1..n /\ n + 1 - (n + 1 - i) = i BY <1>1
  <2>3. r[n + 1 - i] = s[i] BY <1>2, <2>2
  <2>4. QED BY <1>2, <2>2, <2>3
<1>4. \A a, b \in P : f[a] = f[b] => a = b BY <1>1
<1>5. \A q \in Q : \E a \in P : f[a] = q
  <2>1. SUFFICES ASSUME NEW q \in Q PROVE \E a \in P : f[a] = q BY SMTT(30)
  <2>2. q \in 1..n BY <1>2
  <2>3. n + 1 - q \in 1..n /\ n + 1 - (n + 1 - q) = q BY <1>1, <2>2
  <2>4. s[n + 1 - q] = e BY <1>2, <2>2
  <2>5. n + 1 - q \in P BY <2>3, <2>4
  <2>6. f[n + 1 - q] = q BY <2>3, <2>5
  <2>7. QED BY <2>5, <2>6
<1>6. IsFiniteSet(P) BY Zenon, OccurrencesNat
<1>7. Cardinality(Q) = Cardinality(P)
  <2> HIDE DEF f, P, Q
  <2>1. QED BY Zenon, <1>3, <1>4, <1>5, <1>6, SameSize
<1>8. QED BY <1>2, <1>7 DEF Occurrences, r

(* The positions among J at which s has e, and two lists of one length    *)
(* that agree at all other positions.                                      *)
PositionsOf(s, e, J) == {i \in J : s[i] = e}
AgreeOutside(s, t, J) == Len(t) = Len(s) /\ \A i \in 1..Len(s) : i \notin J => t[i] = s[i]

(* Occurrences in sequences that agree outside J differ by those in J. *)
LEMMA OccurrencesChange ==
    ASSUME NEW S, NEW s \in Seq(S), NEW t \in Seq(S), NEW e,
           NEW J \in SUBSET (1..Len(s)), AgreeOutside(s, t, J)
    PROVE  /\ Cardinality(PositionsOf(s, e, J)) \in Nat
           /\ Cardinality(PositionsOf(t, e, J)) \in Nat
           /\ Occurrences(t, e) = Occurrences(s, e) - Cardinality(PositionsOf(s, e, J))
                                                    + Cardinality(PositionsOf(t, e, J))
<1> DEFINE A == PositionsOf(s, e, J)
           B == PositionsOf(t, e, J)
           R == {i \in (1..Len(s)) \ J : s[i] = e}
           P == {i \in 1..Len(s) : s[i] = e}
           Q == {i \in 1..Len(t) : t[i] = e}
<1>1. Len(s) \in Nat /\ A \in SUBSET (1..Len(s)) /\ B \in SUBSET (1..Len(s)) /\ R \in SUBSET (1..Len(s))
  <2>1. Len(s) \in Nat OBVIOUS
  <2>2. A \in SUBSET (1..Len(s)) /\ B \in SUBSET (1..Len(s)) BY Zenon DEF PositionsOf
  <2>3. R \in SUBSET (1..Len(s)) OBVIOUS
  <2>4. QED BY <2>1, <2>2, <2>3
<1>2. P = R \cup A /\ R \cap A = {} BY Zenon DEF PositionsOf
<1>3. Q = R \cup B /\ R \cap B = {} BY Zenon DEF PositionsOf, AgreeOutside
<1> HIDE DEF A, B, R, P, Q
<1>4. /\ IsFiniteSet(A) /\ IsFiniteSet(B) /\ IsFiniteSet(R)
      /\ Cardinality(A) \in 0..Len(s) /\ Cardinality(B) \in 0..Len(s) /\ Cardinality(R) \in 0..Len(s)
  BY <1>1, PositionsFinite
<1>5. Cardinality(R \cap A) = 0 /\ Cardinality(R \cap B) = 0 BY Zenon, <1>2, <1>3, FS_EmptySet
<1>6. Cardinality(R \cup A) = Cardinality(R) + Cardinality(A) - Cardinality(R \cap A) BY <1>4, FS_Union
<1>7. Cardinality(R \cup B) = Cardinality(R) + Cardinality(B) - Cardinality(R \cap B) BY <1>4, FS_Union
<1>8. Cardinality(P) = Cardinality(R) + Cardinality(A) BY <1>1, <1>2, <1>4, <1>5, <1>6
<1>9. Cardinality(Q) = Cardinality(R) + Cardinality(B) BY <1>1, <1>3, <1>4, <1>5, <1>7
<1>10. Cardinality(Q) = Cardinality(P) - Cardinality(A) + Cardinality(B) BY <1>1, <1>4, <1>8, <1>9
<1>11. QED BY <1>1, <1>4, <1>10 DEF Occurrences, A, B, P, Q

(* Replacing one element. *)
LEMMA OccurrencesUpdate ==
    ASSUME NEW S, NEW s \in Seq(S), NEW i \in 1..Len(s), NEW x \in S, NEW e
    PROVE  /\ [s EXCEPT ![i] = x] \in Seq(S) /\ Len([s EXCEPT ![i] = x]) = Len(s)
           /\ Occurrences([s EXCEPT ![i] = x], e) =
                Occurrences(s, e) - (IF s[i] = e THEN 1 ELSE 0) + (IF x = e THEN 1 ELSE 0)
<1> DEFINE t == [s EXCEPT ![i] = x]
<1>1. t \in Seq(S) /\ Len(t) = Len(s) /\ t[i] = x /\ \A j \in 1..Len(s) : j \notin {i} => t[j] = s[j]
  OBVIOUS
<1> HIDE DEF t
<1>2. {i} \in SUBSET (1..Len(s)) OBVIOUS
<1> DEFINE A == PositionsOf(s, e, {i})
           B == PositionsOf(t, e, {i})
<1>3. Occurrences(t, e) = Occurrences(s, e) - Cardinality(A) + Cardinality(B)
  <2>1. AgreeOutside(s, t, {i}) BY <1>1 DEF AgreeOutside
  <2>2. QED BY <1>1, <1>2, <2>1, OccurrencesChange
<1>4. Cardinality({i}) = 1 /\ Cardinality({}) = 0 BY Zenon, FS_Singleton, FS_EmptySet
<1>5. Cardinality(A) = IF s[i] = e THEN 1 ELSE 0
  <2>1. A = IF s[i] = e THEN {i} ELSE {} BY DEF PositionsOf
  <2>2. QED BY Zenon, <1>4, <2>1
<1>6. Cardinality(B) = IF x = e THEN 1 ELSE 0
  <2>1. B = IF x = e THEN {i} ELSE {} BY <1>1 DEF PositionsOf
  <2>2. QED BY Zenon, <1>4, <2>1
<1> HIDE DEF A, B
<1>7. QED BY <1>1, <1>3, <1>5, <1>6 DEF t

(* Selecting the same positions of lists that agree there. *)
LEMMA SelectAgrees ==
    ASSUME NEW n \in Nat, NEW I \in SUBSET (1..n), NEW s, NEW t, \A i \in I : s[i] = t[i]
    PROVE  Select(s, I) = Select(t, I)
<1>1. \A k \in 1..Cardinality(I) : Kth(I, k) \in I BY Zenon, KthPosition
<1>2. \A k \in 1..Cardinality(I) : s[Kth(I, k)] = t[Kth(I, k)] BY Zenon, <1>1
<1>3. QED BY Zenon, <1>2 DEF Select

(* e occurs among the selected elements once for each position it is       *)
(* selected from.                                                          *)
LEMMA OccurrencesSelect ==
    ASSUME NEW S, NEW s \in Seq(S), NEW I \in SUBSET (1..Len(s)), NEW e
    PROVE  Occurrences(Select(s, I), e) = Cardinality(PositionsOf(s, e, I))
<1> DEFINE u == Select(s, I)
           A == PositionsOf(s, e, I)
           Q == {k \in 1..Len(u) : u[k] = e}
           rank(i) == Cardinality(I \cap 1..i)
           f == [i \in A |-> rank(i)]
<1>1. Len(s) \in Nat OBVIOUS
<1>2. /\ u \in Seq(S) /\ Len(u) = Cardinality(I)
      /\ \A k \in 1..Cardinality(I) : u[k] = s[Kth(I, k)]
  <2>1. u \in Seq(S) /\ Len(u) = Cardinality(I) BY Zenon, SelectProperties
  <2>2. \A k \in 1..Cardinality(I) : u[k] = s[Kth(I, k)] BY Zenon DEF Select
  <2>3. QED BY Zenon, <2>1, <2>2
<1>3. A \in SUBSET I /\ \A i \in I : i \in A <=> s[i] = e BY Zenon DEF PositionsOf
<1>4. \A i \in I : rank(i) \in 1..Cardinality(I) /\ Kth(I, rank(i)) = i
  BY Zenon, <1>1, KthOfRank
<1>5. \A i \in I : u[rank(i)] = s[i] BY Zenon, <1>2, <1>4
<1>6. \A k \in 1..Cardinality(I) : Kth(I, k) \in I /\ rank(Kth(I, k)) = k
  BY Zenon, <1>1, KthPosition
<1> HIDE DEF u, A, rank
<1>7. f \in [A -> Q]
  <2>1. \A i \in A : rank(i) \in Q BY Zenon, <1>2, <1>3, <1>4, <1>5
  <2>2. QED BY Zenon, <2>1
<1>8. \A a, b \in A : f[a] = f[b] => a = b BY Zenon, <1>3, <1>4
<1>9. \A q \in Q : \E a \in A : f[a] = q
  <2>1. SUFFICES ASSUME NEW q \in Q PROVE \E a \in A : f[a] = q OBVIOUS
  <2>2. q \in 1..Cardinality(I) /\ u[q] = e BY Zenon, <1>2
  <2>3. Kth(I, q) \in A BY Zenon, <1>2, <1>3, <1>6, <2>2
  <2>4. f[Kth(I, q)] = q BY Zenon, <1>6, <2>2, <2>3
  <2>5. QED BY Zenon, <2>3, <2>4
<1>10. IsFiniteSet(A)
  <2>1. A \in SUBSET (1..Len(s)) BY Zenon, <1>3
  <2>2. QED BY <1>1, <2>1, PositionsFinite
<1>11. Cardinality(Q) = Cardinality(A)
  <2> HIDE DEF f, Q
  <2>1. QED BY Zenon, <1>7, <1>8, <1>9, <1>10, SameSize
<1>12. QED BY <1>11 DEF Occurrences, u, A, Q

(* Overwriting the positions I by z takes away what they held. *)
LEMMA OccurrencesMask ==
    ASSUME NEW S, NEW s \in Seq(S), NEW I \in SUBSET (1..Len(s)), NEW z \in S, NEW e, e # z
    PROVE  LET t == [i \in 1..Len(s) |-> IF i \in I THEN z ELSE s[i]]
           IN  /\ t \in Seq(S) /\ Len(t) = Len(s)
               /\ Occurrences(t, e) = Occurrences(s, e) - Occurrences(Select(s, I), e)
<1> DEFINE t == [i \in 1..Len(s) |-> IF i \in I THEN z ELSE s[i]]
<1>1. t \in Seq(S) /\ Len(t) = Len(s) /\ \A i \in 1..Len(s) : t[i] = IF i \in I THEN z ELSE s[i]
  OBVIOUS
<1> HIDE DEF t
<1>2. /\ Cardinality(PositionsOf(s, e, I)) \in Nat
      /\ Occurrences(t, e) = Occurrences(s, e) - Cardinality(PositionsOf(s, e, I))
                                               + Cardinality(PositionsOf(t, e, I))
  <2>1. AgreeOutside(s, t, I) BY <1>1 DEF AgreeOutside
  <2>2. QED BY <1>1, <2>1, OccurrencesChange
<1>3. Cardinality(PositionsOf(t, e, I)) = 0
  <2>1. PositionsOf(t, e, I) = {} BY Zenon, <1>1 DEF PositionsOf
  <2>2. QED BY Zenon, <2>1, FS_EmptySet
<1>4. Occurrences(Select(s, I), e) = Cardinality(PositionsOf(s, e, I)) BY OccurrencesSelect
<1>5. Occurrences(s, e) \in Nat BY Zenon, OccurrencesNat
<1>6. QED BY <1>1, <1>2, <1>3, <1>4, <1>5 DEF t
=============================================================================
