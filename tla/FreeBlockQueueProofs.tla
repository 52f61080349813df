------------------------ MODULE FreeBlockQueueProofs ------------------------
(***************************************************************************)
(* The doubly linked free list implements the abstract queue, for every    *)
(* number of blocks and every set of lists that callers put back.          *)
(***************************************************************************)
EXTENDS FreeBlockQueue, SubsequenceProofs

(* Node i of the list that holds the blocks of q between the fake ends. *)
At(q, i) == IF i = 0 THEN FakeHead ELSE IF i = Len(q) + 1 THEN FakeTail ELSE q[i]

(* The links nx and pv chain the blocks of q, and no others. *)
Spells(nx, pv, q) ==
    /\ nx \in [Nodes -> Nodes \cup {None}] /\ pv \in [Nodes -> Nodes \cup {None}]
    /\ \A i \in 0..Len(q) : nx[At(q, i)] = At(q, i + 1)
    /\ \A i \in 1..(Len(q) + 1) : pv[At(q, i)] = At(q, i - 1)
    /\ nx[FakeTail] = None /\ pv[FakeHead] = None
    /\ \A b \in Blocks \ Elems(q) : nx[b] = None /\ pv[b] = None

(* The inductive invariant: the links spell some list without repetition,  *)
(* whose length is the counter.                                            *)
Listed(q) == /\ q \in Seq(Blocks) /\ Distinct(q)
             /\ Spells(next, prev, q) /\ num_free_blocks = Len(q)
IInv == \E q \in Seq(Blocks) : Listed(q)

-----------------------------------------------------------------------------
(* The nodes of a list.                                                    *)

(* The nodes of a list are different from each other and from None. *)
LEMMA AtFacts ==
    ASSUME NEW q \in Seq(Blocks), Distinct(q)
    PROVE  /\ Len(q) \in Nat /\ At(q, 0) = FakeHead /\ At(q, Len(q) + 1) = FakeTail
           /\ \A i \in 1..Len(q) : At(q, i) = q[i] /\ q[i] \in Blocks
           /\ \A i \in 0..(Len(q) + 1) : At(q, i) \in Nodes /\ At(q, i) # None
           /\ \A i, j \in 0..(Len(q) + 1) : At(q, i) = At(q, j) => i = j
<1>1. Len(q) \in Nat /\ \A i \in 1..Len(q) : q[i] \in Blocks
  OBVIOUS
<1>2. At(q, 0) = FakeHead /\ At(q, Len(q) + 1) = FakeTail /\ \A i \in 1..Len(q) : At(q, i) = q[i]
  BY <1>1 DEF At
<1>3. \A b \in Blocks : b # FakeHead /\ b # FakeTail /\ b # None /\ b \in Nodes
  BY NumBlocksAssumption DEF Blocks, FakeHead, FakeTail, None, Nodes
<1>4. FakeHead # FakeTail /\ FakeHead # None /\ FakeTail # None /\ {FakeHead, FakeTail} \subseteq Nodes
  BY NumBlocksAssumption DEF FakeHead, FakeTail, None, Nodes
<1>5. \A i \in 0..(Len(q) + 1) : i = 0 \/ i = Len(q) + 1 \/ i \in 1..Len(q)
  BY <1>1
<1>6. \A i \in 0..(Len(q) + 1) : At(q, i) \in Nodes /\ At(q, i) # None
  BY <1>1, <1>2, <1>3, <1>4, <1>5
<1>7. \A i, j \in 0..(Len(q) + 1) : At(q, i) = At(q, j) => i = j
  BY <1>1, <1>2, <1>3, <1>4, <1>5 DEF Distinct
<1> QED
  BY <1>1, <1>2, <1>6, <1>7

(* A list without repetition has as many blocks as elements, at most NumBlocks. *)
LEMMA ListFits ==
    ASSUME NEW q \in Seq(Blocks), Distinct(q)
    PROVE  Len(q) \in 0..NumBlocks
<1> DEFINE f == [i \in 1..Len(q) |-> q[i]]
<1>1. Len(q) \in Nat
  OBVIOUS
<1>2. IsFiniteSet(1..Len(q)) /\ Cardinality(1..Len(q)) = Len(q)
  <2>1. 1 \in Int /\ Len(q) \in Int
    BY <1>1
  <2>2. /\ IsFiniteSet(1..Len(q))
        /\ Cardinality(1..Len(q)) = IF 1 > Len(q) THEN 0 ELSE Len(q) - 1 + 1
    BY Zenon, <2>1, FS_Interval
  <2> QED BY <1>1, <2>2
<1>3. /\ f \in [1..Len(q) -> Elems(q)]
      /\ \A a, b \in 1..Len(q) : f[a] = f[b] => a = b
      /\ \A t \in Elems(q) : \E a \in 1..Len(q) : f[a] = t
  BY DEF Elems, Distinct
<1>4. Cardinality(Elems(q)) = Len(q)
  <2> HIDE DEF f
  <2> QED BY Zenon, <1>2, <1>3, SameSize
<1>5. Elems(q) \in SUBSET Blocks
  BY DEF Elems
<1>6. IsFiniteSet(Blocks) /\ Cardinality(Blocks) = NumBlocks
  BY FS_Interval, NumBlocksAssumption DEF Blocks
<1>7. Cardinality(Elems(q)) <= Cardinality(Blocks)
  BY <1>5, <1>6, FS_Subset
<1> QED
  BY <1>1, <1>4, <1>6, <1>7, NumBlocksAssumption

-----------------------------------------------------------------------------
(* Walking the links.                                                      *)

(* One step of the walk from each position that h has reached. *)
Walk(nx, k, h) == [i \in 0..k |-> IF i = 0 THEN FakeHead
                                  ELSE IF h[i - 1] = None THEN None ELSE nx[h[i - 1]]]
Reach(nx, k) == (CHOOSE h : h = Walk(nx, k, h))[k]

(* k links from the fake head lead to node k of the list. *)
LEMMA ReachNode ==
    ASSUME NEW nx, NEW pv, NEW q \in Seq(Blocks), Distinct(q), Spells(nx, pv, q),
           NEW k \in 0..(Len(q) + 1)
    PROVE  Reach(nx, k) = At(q, k)
<1> DEFINE g == [i \in 0..k |-> At(q, i)]
           h == CHOOSE h : h = Walk(nx, k, h)
<1>1. /\ Len(q) \in Nat /\ At(q, 0) = FakeHead
      /\ \A i \in 0..(Len(q) + 1) : At(q, i) # None
  BY AtFacts
<1>2. \A i \in 1..k : nx[At(q, i - 1)] = At(q, i)
  <2>1. \A i \in 1..k : i - 1 \in 0..Len(q) /\ (i - 1) + 1 = i
    BY <1>1
  <2> QED BY <2>1 DEF Spells
<1>3. g = Walk(nx, k, g)
  <2>1. ASSUME NEW i \in 0..k
        PROVE  At(q, i) = IF i = 0 THEN FakeHead
                          ELSE IF g[i - 1] = None THEN None ELSE nx[g[i - 1]]
    <3>1. CASE i = 0 BY <3>1, <1>1
    <3>2. CASE i # 0
      <4>1. i \in 1..k /\ i - 1 \in 0..k /\ i - 1 \in 0..(Len(q) + 1) BY <1>1, <3>2
      <4>2. g[i - 1] = At(q, i - 1) BY <4>1
      <4> QED BY <1>1, <1>2, <3>2, <4>1, <4>2
    <3> QED BY <3>1, <3>2
  <2> QED BY Zenon, <2>1 DEF Walk
<1>4. h = Walk(nx, k, h)
  <2> HIDE DEF g
  <2> QED BY Zenon, <1>3
<1> HIDE DEF h
<1>5. \A i \in 0..k : h[i] = IF i = 0 THEN FakeHead
                             ELSE IF h[i - 1] = None THEN None ELSE nx[h[i - 1]]
  BY Zenon, <1>4 DEF Walk
<1>6. \A i \in 0..k : h[i] = At(q, i)
  <2> DEFINE Bad == {i \in 0..k : h[i] # At(q, i)}
  <2>1. SUFFICES ASSUME Bad # {} PROVE FALSE OBVIOUS
  <2>2. Bad \in SUBSET Nat OBVIOUS
  <2>3. PICK m \in Bad : \A i \in Bad : m <= i
    <3> HIDE DEF Bad
    <3> QED BY Zenon, <2>1, <2>2, LeastMember
  <2>4. m \in 0..k /\ h[m] # At(q, m) OBVIOUS
  <2>5. m # 0
    <3>1. h[0] = FakeHead BY <1>5, <2>4
    <3> QED BY <1>1, <2>4, <3>1
  <2>6. m \in 1..k /\ m - 1 \in 0..k /\ ~ m <= m - 1 /\ m - 1 \in 0..(Len(q) + 1)
    BY <1>1, <2>4, <2>5
  <2>7. h[m - 1] = At(q, m - 1) BY <2>3, <2>6
  <2>8. h[m] = nx[At(q, m - 1)] BY <1>1, <1>5, <2>5, <2>6, <2>7
  <2> QED BY <1>2, <2>4, <2>6, <2>8
<1> QED
  BY <1>6 DEF Reach, h

(* get_all_free_blocks on the links nx. *)
Collect(nx) ==
    LET stop == {k \in 1..(NumBlocks + 1) : Reach(nx, k) = None \/ nx[Reach(nx, k)] = None}
        n    == IF stop = {} THEN NumBlocks + 1
                ELSE (CHOOSE k \in stop : \A l \in stop : k <= l) - 1
    IN  [k \in 1..n |-> Reach(nx, k)]

(* The walk finds the blocks of the list, in its order. *)
LEMMA CollectList ==
    ASSUME NEW nx, NEW pv, NEW q \in Seq(Blocks), Distinct(q), Spells(nx, pv, q)
    PROVE  Collect(nx) = q
<1> DEFINE stop == {k \in 1..(NumBlocks + 1) : Reach(nx, k) = None \/ nx[Reach(nx, k)] = None}
           first == CHOOSE k \in stop : \A l \in stop : k <= l
           n == IF stop = {} THEN NumBlocks + 1 ELSE first - 1
<1>1. Len(q) \in 0..NumBlocks /\ Len(q) \in Nat
  BY ListFits
<1>2. \A k \in 0..(Len(q) + 1) : Reach(nx, k) = At(q, k)
  BY ReachNode
<1>3. /\ At(q, Len(q) + 1) = FakeTail
      /\ \A i \in 0..(Len(q) + 1) : At(q, i) # None
      /\ \A i \in 1..Len(q) : At(q, i) = q[i]
  BY AtFacts
<1>4. Len(q) + 1 \in stop
  <2>1. Reach(nx, Len(q) + 1) = FakeTail BY <1>1, <1>2, <1>3
  <2>2. nx[FakeTail] = None BY DEF Spells
  <2>3. Len(q) + 1 \in 1..(NumBlocks + 1) BY <1>1, NumBlocksAssumption
  <2> QED BY <2>1, <2>2, <2>3
<1>5. \A k \in stop : k >= Len(q) + 1
  <2>1. SUFFICES ASSUME NEW k \in stop, ~ k >= Len(q) + 1 PROVE FALSE OBVIOUS
  <2>2. k \in 1..Len(q) /\ k \in 0..Len(q) /\ k \in 0..(Len(q) + 1) /\ k + 1 \in 0..(Len(q) + 1)
    BY <1>1, <2>1, NumBlocksAssumption
  <2>3. Reach(nx, k) = At(q, k) /\ nx[At(q, k)] = At(q, k + 1)
    BY <1>2, <2>2 DEF Spells
  <2>4. At(q, k) # None /\ At(q, k + 1) # None
    BY <1>3, <2>2
  <2> QED BY <2>3, <2>4
<1>6. stop \subseteq Nat
  BY NumBlocksAssumption
<1> HIDE DEF stop
<1>7. first = Len(q) + 1
  <2>1. first \in stop /\ \A l \in stop : first <= l
    BY Zenon, <1>4, <1>5, <1>1, <1>6
  <2> HIDE DEF first
  <2> QED BY <1>1, <1>4, <1>5, <1>6, <2>1
<1>8. n = Len(q)
  <2> HIDE DEF first
  <2> QED BY <1>1, <1>4, <1>7
<1>9. Collect(nx) = [k \in 1..n |-> Reach(nx, k)]
  BY DEF Collect, stop
<1> HIDE DEF n
<1>10. \A k \in 1..Len(q) : Reach(nx, k) = q[k]
  BY <1>1, <1>2, <1>3
<1> QED
  BY <1>8, <1>9, <1>10

(* After and get_all_free_blocks, now and in the next state. *)
LEMMA WalkIsReach ==
    /\ \A k : After(k) = Reach(next, k)
    /\ get_all_free_blocks = Collect(next)
    /\ get_all_free_blocks' = Collect(next')
<1>1. \A k : After(k) = Reach(next, k)
  BY DEF After, Reach, Walk
<1>2. \A k : After(k)' = Reach(next', k)
  BY DEF After, Reach, Walk
<1>3. get_all_free_blocks = Collect(next)
  BY Zenon, <1>1 DEF get_all_free_blocks, Collect
<1>4. get_all_free_blocks' = Collect(next')
  BY Zenon, <1>2 DEF get_all_free_blocks, Collect
<1> QED
  BY <1>1, <1>3, <1>4

-----------------------------------------------------------------------------
(* Taking blocks out.                                                      *)

(* The links after the first n blocks are popped spell the others. *)
LEMMA PopNodes ==
    ASSUME NEW nx, NEW pv, NEW q \in Seq(Blocks), Distinct(q), Spells(nx, pv, q),
           NEW n \in 0..Len(q)
    PROVE  LET curr == At(q, n + 1)
               popped == {At(q, k) : k \in 1..n}
               nx2 == [x \in Nodes |-> IF x \in popped THEN None
                                       ELSE IF x = FakeHead /\ curr # None THEN curr ELSE nx[x]]
               pv2 == [x \in Nodes |-> IF x = curr THEN FakeHead
                                       ELSE IF x \in popped THEN None ELSE pv[x]]
               t == SubSeq(q, n + 1, Len(q))
           IN  /\ t \in Seq(Blocks) /\ Distinct(t) /\ Len(t) = Len(q) - n
               /\ Spells(nx2, pv2, t)
<1> DEFINE curr == At(q, n + 1)
           popped == {At(q, k) : k \in 1..n}
           nx2 == [x \in Nodes |-> IF x \in popped THEN None
                                   ELSE IF x = FakeHead /\ curr # None THEN curr ELSE nx[x]]
           pv2 == [x \in Nodes |-> IF x = curr THEN FakeHead
                                   ELSE IF x \in popped THEN None ELSE pv[x]]
           t == SubSeq(q, n + 1, Len(q))
           L == Len(q)
<1>1. /\ L \in Nat /\ At(q, 0) = FakeHead /\ At(q, L + 1) = FakeTail
      /\ \A i \in 1..L : At(q, i) = q[i] /\ q[i] \in Blocks
      /\ \A i \in 0..(L + 1) : At(q, i) \in Nodes /\ At(q, i) # None
      /\ \A i, j \in 0..(L + 1) : At(q, i) = At(q, j) => i = j
  BY AtFacts
<1>2. /\ t \in Seq(Blocks) /\ Distinct(t) /\ Len(t) = L - n
      /\ \A i \in 1..(L - n) : t[i] = q[n + i]
  <2>1. t \in Seq(Blocks) /\ Len(t) = L - n /\ \A i \in 1..(L - n) : t[i] = q[n + i]
    BY <1>1
  <2>2. Distinct(t)
    BY SplitElems
  <2> QED BY <2>1, <2>2
<1> HIDE DEF t
<1>3. \A i \in 1..(L - n + 1) : At(t, i) = At(q, n + i)
  <2>1. ASSUME NEW i \in 1..(L - n + 1) PROVE At(t, i) = At(q, n + i)
    <3>1. CASE i = L - n + 1
      <4>1. n + i = L + 1 /\ i # 0 BY <1>1, <3>1
      <4> QED BY <1>1, <1>2, <3>1, <4>1 DEF At
    <3>2. CASE i # L - n + 1
      <4>1. i \in 1..(L - n) /\ n + i \in 1..L /\ i # 0 BY <1>1, <3>2
      <4> QED BY <1>1, <1>2, <3>2, <4>1 DEF At
    <3> QED BY <3>1, <3>2
  <2> QED BY <2>1
<1>4. At(t, 0) = FakeHead
  BY DEF At
<1>5. /\ nx \in [Nodes -> Nodes \cup {None}] /\ pv \in [Nodes -> Nodes \cup {None}]
      /\ \A i \in 0..L : nx[At(q, i)] = At(q, i + 1)
      /\ \A i \in 1..(L + 1) : pv[At(q, i)] = At(q, i - 1)
      /\ nx[FakeTail] = None /\ pv[FakeHead] = None
      /\ \A b \in Blocks \ Elems(q) : nx[b] = None /\ pv[b] = None
  BY DEF Spells
<1>6. \A i \in 0..(L + 1) : At(q, i) \in popped <=> i \in 1..n
  BY <1>1
<1>7. FakeHead \in Nodes /\ FakeTail \in Nodes /\ FakeHead \notin popped /\ FakeTail \notin popped
  BY <1>1, <1>6
<1>8. curr \in Nodes /\ curr # None /\ curr \notin popped
  BY <1>1, <1>6
<1>9. popped \subseteq Blocks
  BY <1>1
<1> HIDE DEF popped, curr
<1>10. nx2 \in [Nodes -> Nodes \cup {None}] /\ pv2 \in [Nodes -> Nodes \cup {None}]
  BY <1>5, <1>7, <1>8
<1>11. \A i \in 0..(L - n) : nx2[At(t, i)] = At(t, i + 1)
  <2>1. nx2[FakeHead] = curr /\ curr = At(t, 1)
    BY <1>1, <1>3, <1>7, <1>8 DEF curr
  <2>2. ASSUME NEW i \in 1..(L - n) PROVE nx2[At(t, i)] = At(t, i + 1)
    <3>1. /\ n + i \in 0..L /\ n + i \in 0..(L + 1) /\ n + i \notin 1..n /\ n + i # 0
          /\ i \in 1..(L - n + 1) /\ i + 1 \in 1..(L - n + 1) /\ n + (i + 1) = (n + i) + 1
      BY <1>1
    <3>2. At(t, i) = At(q, n + i) /\ At(t, i + 1) = At(q, (n + i) + 1)
      BY <1>3, <3>1
    <3>3. At(q, n + i) \in Nodes /\ At(q, n + i) \notin popped /\ At(q, n + i) # FakeHead
      BY <1>1, <1>6, <3>1
    <3> QED BY <1>5, <3>1, <3>2, <3>3
  <2>3. ASSUME NEW i \in 0..(L - n) PROVE nx2[At(t, i)] = At(t, i + 1)
    <3> HIDE DEF nx2
    <3>1. CASE i = 0 BY <1>4, <2>1, <3>1
    <3>2. CASE i # 0 BY <1>1, <2>2, <3>2
    <3> QED BY <3>1, <3>2
  <2> QED BY Zenon, <2>3
<1>12. \A i \in 1..(L - n + 1) : pv2[At(t, i)] = At(t, i - 1)
  <2>1. ASSUME NEW i \in 1..(L - n + 1) PROVE pv2[At(t, i)] = At(t, i - 1)
    <3>1. CASE i = 1
      BY <1>1, <1>3, <1>4, <1>8, <3>1 DEF curr
    <3>2. CASE i # 1
      <4>1. /\ n + i \in 1..(L + 1) /\ n + i \in 0..(L + 1) /\ n + i \notin 1..n /\ n + i # n + 1
            /\ i - 1 \in 1..(L - n + 1) /\ n + (i - 1) = (n + i) - 1 /\ n + 1 \in 0..(L + 1)
        BY <1>1, <3>2
      <4>2. At(t, i) = At(q, n + i) /\ At(t, i - 1) = At(q, (n + i) - 1)
        BY <1>3, <4>1
      <4>3. At(q, n + i) \in Nodes /\ At(q, n + i) \notin popped /\ At(q, n + i) # curr
        BY <1>1, <1>6, <4>1 DEF curr
      <4> QED BY <1>5, <4>1, <4>2, <4>3
    <3> QED BY <3>1, <3>2
  <2> QED BY Zenon, <2>1
<1>13. nx2[FakeTail] = None /\ pv2[FakeHead] = None
  <2>1. FakeTail # FakeHead BY <1>1
  <2>2. curr # FakeHead BY <1>1 DEF curr
  <2> QED BY <1>5, <1>7, <2>1, <2>2
<1>14. \A b \in Blocks \ Elems(t) : nx2[b] = None /\ pv2[b] = None
  <2>1. SUFFICES ASSUME NEW b \in Blocks \ Elems(t) PROVE nx2[b] = None /\ pv2[b] = None
    BY Zenon
  <2>2. b \in Nodes /\ b # FakeHead /\ b # FakeTail
    BY NumBlocksAssumption DEF Blocks, Nodes, FakeHead, FakeTail
  <2>3. b # curr
    <3>1. CASE n = L BY <1>1, <2>2, <3>1 DEF curr
    <3>2. CASE n # L
      <4>1. 1 \in 1..(L - n) /\ n + 1 \in 1..L BY <1>1, <3>2
      <4>2. t[1] = curr BY <1>1, <1>2, <4>1 DEF curr
      <4> QED BY <1>2, <4>1, <4>2 DEF Elems
    <3> QED BY <3>1, <3>2
  <2>4. CASE b \in Elems(q)
    <3>1. PICK k \in 1..L : b = q[k] BY <2>4 DEF Elems
    <3>2. k \in 1..n
      <4>1. SUFFICES ASSUME k \notin 1..n PROVE FALSE OBVIOUS
      <4>2. k - n \in 1..(L - n) /\ n + (k - n) = k BY <1>1, <4>1
      <4>3. t[k - n] = b BY <1>2, <3>1, <4>2
      <4> QED BY <1>2, <4>2, <4>3 DEF Elems
    <3>3. b \in popped BY <1>1, <1>6, <3>1, <3>2
    <3> QED BY <2>2, <2>3, <3>3
  <2>5. CASE b \notin Elems(q)
    <3>1. nx[b] = None /\ pv[b] = None BY <1>5, <2>5
    <3> QED BY <2>2, <2>3, <3>1
  <2> QED BY <2>4, <2>5
<1>15. Spells(nx2, pv2, t)
  <2> HIDE DEF nx2, pv2
  <2> QED BY <1>2, <1>10, <1>11, <1>12, <1>13, <1>14 DEF Spells
<1> QED
  BY <1>2, <1>15 DEF t, curr, popped

(* The links after block j of the list is removed spell the others. *)
LEMMA RemoveNode ==
    ASSUME NEW nx, NEW pv, NEW q \in Seq(Blocks), Distinct(q), Spells(nx, pv, q),
           NEW j \in 1..Len(q)
    PROVE  LET b == q[j]
               nx2 == [nx EXCEPT ![pv[b]] = nx[b], ![b] = None]
               pv2 == [pv EXCEPT ![nx[b]] = pv[b], ![b] = None]
               t == Drop(q, {b})
           IN  /\ t \in Seq(Blocks) /\ Distinct(t) /\ Len(t) = Len(q) - 1
               /\ Spells(nx2, pv2, t)
<1> DEFINE b == q[j]
           nx2 == [nx EXCEPT ![pv[b]] = nx[b], ![b] = None]
           pv2 == [pv EXCEPT ![nx[b]] = pv[b], ![b] = None]
           t == Drop(q, {b})
           L == Len(q)
<1>1. /\ L \in Nat /\ At(q, 0) = FakeHead /\ At(q, L + 1) = FakeTail
      /\ \A i \in 1..L : At(q, i) = q[i] /\ q[i] \in Blocks
      /\ \A i \in 0..(L + 1) : At(q, i) \in Nodes /\ At(q, i) # None
      /\ \A i, k \in 0..(L + 1) : At(q, i) = At(q, k) => i = k
  BY AtFacts
<1>2. /\ t \in Seq(Blocks) /\ Distinct(t) /\ Elems(t) = Elems(q) \ {b}
      /\ Len(t) = L - 1 /\ \A i \in 1..(L - 1) : t[i] = IF i < j THEN q[i] ELSE q[i + 1]
  <2>1. t \in Seq(Blocks) /\ Distinct(t) /\ Elems(t) = Elems(q) \ {b}
    BY Zenon, DropProperties
  <2>2. Len(t) = L - 1 /\ \A i \in 1..(L - 1) : t[i] = IF i < j THEN q[i] ELSE q[i + 1]
    BY DropOne
  <2> QED BY Zenon, <2>1, <2>2
<1> HIDE DEF t
<1>3. \A i \in 0..L : At(t, i) = IF i < j THEN At(q, i) ELSE At(q, i + 1)
  <2>1. ASSUME NEW i \in 0..L PROVE At(t, i) = IF i < j THEN At(q, i) ELSE At(q, i + 1)
    <3>1. CASE i = 0 BY <1>1, <3>1 DEF At
    <3>2. CASE i = L
      <4>1. ~ i < j /\ i # 0 /\ i = Len(t) + 1 BY <1>1, <1>2, <3>2
      <4> QED BY <1>1, <3>2, <4>1 DEF At
    <3>3. CASE i \in 1..(L - 1)
      <4>1. i # 0 /\ i # Len(t) + 1 /\ i \in 1..L /\ i + 1 \in 1..L BY <1>1, <1>2, <3>3
      <4>2. At(t, i) = t[i] BY <4>1 DEF At
      <4> QED BY <1>1, <1>2, <3>3, <4>1, <4>2
    <3> QED BY <1>1, <3>1, <3>2, <3>3
  <2> QED BY <2>1
<1>4. /\ nx \in [Nodes -> Nodes \cup {None}] /\ pv \in [Nodes -> Nodes \cup {None}]
      /\ \A i \in 0..L : nx[At(q, i)] = At(q, i + 1)
      /\ \A i \in 1..(L + 1) : pv[At(q, i)] = At(q, i - 1)
      /\ nx[FakeTail] = None /\ pv[FakeHead] = None
      /\ \A c \in Blocks \ Elems(q) : nx[c] = None /\ pv[c] = None
  BY DEF Spells
<1>5. /\ b = At(q, j) /\ nx[b] = At(q, j + 1) /\ pv[b] = At(q, j - 1)
      /\ j \in 0..(L + 1) /\ j + 1 \in 0..(L + 1) /\ j - 1 \in 0..(L + 1)
  BY <1>1, <1>4
<1>6. \A i \in 0..(L + 1) : /\ i = j <=> At(q, i) = b
                            /\ i = j - 1 <=> At(q, i) = pv[b]
                            /\ i = j + 1 <=> At(q, i) = nx[b]
  BY <1>1, <1>5
<1>7. b \in Nodes /\ nx[b] \in Nodes /\ pv[b] \in Nodes /\ nx[b] # b /\ pv[b] # b
  BY <1>1, <1>5
<1>8. /\ nx2 \in [Nodes -> Nodes \cup {None}]
      /\ \A x \in Nodes : nx2[x] = IF x = b THEN None ELSE IF x = pv[b] THEN nx[b] ELSE nx[x]
  BY Zenon, <1>4, <1>7
<1>9. /\ pv2 \in [Nodes -> Nodes \cup {None}]
      /\ \A x \in Nodes : pv2[x] = IF x = b THEN None ELSE IF x = nx[b] THEN pv[b] ELSE pv[x]
  BY Zenon, <1>4, <1>7
<1> HIDE DEF nx2, pv2, b
<1>10. ASSUME NEW i \in 0..(L - 1) PROVE nx2[At(t, i)] = At(t, i + 1)
  <2>1. i \in 0..L /\ i + 1 \in 0..L /\ i \in 0..(L + 1) /\ i + 1 \in 0..(L + 1) /\ (i + 1) + 1 \in 0..(L + 1)
    BY <1>1
  <2>2. CASE i < j - 1
    <3>1. At(t, i) = At(q, i) /\ At(t, i + 1) = At(q, i + 1) BY <1>3, <2>1, <2>2
    <3>2. nx2[At(q, i)] = nx[At(q, i)] BY <1>1, <1>6, <1>8, <2>1, <2>2
    <3> QED BY <1>4, <2>1, <3>1, <3>2
  <2>3. CASE i = j - 1
    <3>1. At(t, i) = pv[b] /\ At(t, i + 1) = nx[b]
      <4>1. i < j /\ ~ i + 1 < j /\ (i + 1) + 1 = j + 1 BY <2>3
      <4> QED BY <1>3, <1>5, <2>1, <2>3, <4>1
    <3> QED BY <1>7, <1>8, <3>1
  <2>4. CASE i > j - 1
    <3>1. At(t, i) = At(q, i + 1) /\ At(t, i + 1) = At(q, (i + 1) + 1)
      BY <1>3, <2>1, <2>4
    <3>2. nx2[At(q, i + 1)] = nx[At(q, i + 1)]
      <4>1. i + 1 # j /\ i + 1 # j - 1 BY <2>4
      <4>2. At(q, i + 1) # b /\ At(q, i + 1) # pv[b] /\ At(q, i + 1) \in Nodes BY <1>1, <1>6, <2>1, <4>1
      <4> QED BY <1>8, <4>2
    <3> QED BY <1>4, <2>1, <3>1, <3>2
  <2> QED BY <2>2, <2>3, <2>4
<1>11. ASSUME NEW i \in 1..L PROVE pv2[At(t, i)] = At(t, i - 1)
  <2>1. i \in 0..L /\ i - 1 \in 0..L /\ i \in 0..(L + 1) /\ i + 1 \in 0..(L + 1) /\ i \in 1..(L + 1) /\ i + 1 \in 1..(L + 1)
    BY <1>1
  <2>2. CASE i < j
    <3>1. At(t, i) = At(q, i) /\ At(t, i - 1) = At(q, i - 1) BY <1>3, <2>1, <2>2
    <3>2. pv2[At(q, i)] = pv[At(q, i)]
      <4>1. i # j /\ i # j + 1 BY <2>2
      <4> QED BY <1>1, <1>6, <1>9, <2>1, <4>1
    <3> QED BY <1>4, <2>1, <3>1, <3>2
  <2>3. CASE i = j
    <3>1. At(t, i) = nx[b] /\ At(t, i - 1) = pv[b]
      <4>1. ~ i < j /\ i - 1 < j BY <2>3
      <4> QED BY <1>3, <1>5, <2>1, <2>3, <4>1
    <3> QED BY <1>7, <1>9, <3>1
  <2>4. CASE i > j
    <3>1. At(t, i) = At(q, i + 1) /\ At(t, i - 1) = At(q, i)
      <4>1. ~ i < j /\ ~ i - 1 < j /\ (i - 1) + 1 = i BY <2>4
      <4> QED BY <1>3, <2>1, <4>1
    <3>2. pv2[At(q, i + 1)] = pv[At(q, i + 1)]
      <4>1. i + 1 # j /\ i + 1 # j + 1 BY <2>4
      <4>2. At(q, i + 1) # b /\ At(q, i + 1) # nx[b] /\ At(q, i + 1) \in Nodes BY <1>1, <1>6, <2>1, <4>1
      <4> QED BY <1>9, <4>2
    <3>3. pv[At(q, i + 1)] = At(q, i)
      <4>1. (i + 1) - 1 = i OBVIOUS
      <4> QED BY <1>4, <2>1, <4>1
    <3> QED BY <3>1, <3>2, <3>3
  <2> QED BY <2>2, <2>3, <2>4
<1>12. nx2[FakeTail] = None /\ pv2[FakeHead] = None
  <2>1. FakeTail # pv[b] /\ FakeHead # nx[b] /\ FakeTail \in Nodes /\ FakeHead \in Nodes
    BY <1>1, <1>5
  <2> QED BY <1>4, <1>8, <1>9, <2>1
<1>13. ASSUME NEW c \in Blocks \ Elems(t) PROVE nx2[c] = None /\ pv2[c] = None
  <2>1. c \in Nodes BY DEF Nodes
  <2>2. CASE c = b BY <1>8, <1>9, <2>1, <2>2
  <2>3. CASE c # b
    <3>1. c \notin Elems(q) BY <1>2, <2>3
    <3>2. nx[c] = None /\ pv[c] = None BY <1>4, <3>1
    <3>3. c # pv[b] /\ c # nx[b]
      <4>1. nx[pv[b]] = b /\ pv[nx[b]] = b
        <5>1. j - 1 \in 0..L /\ (j - 1) + 1 = j /\ j + 1 \in 1..(L + 1) /\ (j + 1) - 1 = j BY <1>1
        <5> QED BY <1>4, <1>5, <5>1
      <4>2. b # None BY <1>1, <1>5
      <4> QED BY <3>2, <4>1, <4>2
    <3> QED BY <1>8, <1>9, <2>1, <2>3, <3>2, <3>3
  <2> QED BY <2>2, <2>3
<1>14. Spells(nx2, pv2, t)
  <2>1. Len(t) = L - 1 /\ Len(t) + 1 = L BY <1>1, <1>2
  <2> QED BY <1>8, <1>9, <1>10, <1>11, <1>12, <1>13, <2>1 DEF Spells
<1> QED
  BY <1>2, <1>14 DEF t, nx2, pv2, b

-----------------------------------------------------------------------------
(* Putting blocks back.                                                    *)

(* Node i of the chain of s between a and b, and the links that Chain sets. *)
Link(s, a, b, i) == IF i = 0 THEN a ELSE IF i = Len(s) + 1 THEN b ELSE s[i]
ChainNext(nx, s, a, b) ==
    [x \in Nodes |-> IF \E i \in 0..Len(s) : Link(s, a, b, i) = x
                     THEN Link(s, a, b, (CHOOSE i \in 0..Len(s) : Link(s, a, b, i) = x) + 1)
                     ELSE nx[x]]
ChainPrev(pv, s, a, b) ==
    [x \in Nodes |-> IF \E i \in 1..(Len(s) + 1) : Link(s, a, b, i) = x
                     THEN Link(s, a, b, (CHOOSE i \in 1..(Len(s) + 1) : Link(s, a, b, i) = x) - 1)
                     ELSE pv[x]]

(* t is q with s inserted after position p. *)
Inserted(q, s, p, t) ==
    /\ t \in Seq(Blocks) /\ Distinct(t) /\ Len(t) = Len(q) + Len(s)
    /\ \A i \in 0..p : At(t, i) = At(q, i)
    /\ \A i \in 1..Len(s) : At(t, p + i) = s[i]
    /\ \A i \in (p + 1)..(Len(q) + 1) : At(t, Len(s) + i) = At(q, i)
    /\ Elems(q) \cup Elems(s) \subseteq Elems(t)

(* The links after s is chained in after position p spell the longer list. *)
LEMMA InsertNodes ==
    ASSUME NEW nx, NEW pv, NEW q \in Seq(Blocks), Distinct(q), Spells(nx, pv, q),
           NEW s \in Seq(Blocks), NEW p \in 0..Len(q), NEW t, Inserted(q, s, p, t)
    PROVE  Spells(ChainNext(nx, s, At(q, p), At(q, p + 1)),
                  ChainPrev(pv, s, At(q, p), At(q, p + 1)), t)
<1> DEFINE a == At(q, p)
           b == At(q, p + 1)
           L == Len(q)
           n == Len(s)
           nx2 == ChainNext(nx, s, a, b)
           pv2 == ChainPrev(pv, s, a, b)
<1>1. L \in Nat /\ n \in Nat /\ At(q, 0) = FakeHead /\ At(q, L + 1) = FakeTail
  BY AtFacts
<1>2. /\ t \in Seq(Blocks) /\ Distinct(t) /\ Len(t) = L + n
      /\ \A i \in 0..p : At(t, i) = At(q, i)
      /\ \A i \in 1..n : At(t, p + i) = s[i]
      /\ \A i \in (p + 1)..(L + 1) : At(t, n + i) = At(q, i)
      /\ Elems(q) \cup Elems(s) \subseteq Elems(t)
  BY DEF Inserted
<1>3. /\ At(t, 0) = FakeHead /\ At(t, L + n + 1) = FakeTail
      /\ \A i \in 1..(L + n) : At(t, i) = t[i] /\ t[i] \in Blocks
      /\ \A i \in 0..(L + n + 1) : At(t, i) \in Nodes /\ At(t, i) # None
      /\ \A i, j \in 0..(L + n + 1) : At(t, i) = At(t, j) => i = j
  <2>1. /\ At(t, 0) = FakeHead /\ At(t, Len(t) + 1) = FakeTail
        /\ \A i \in 1..Len(t) : At(t, i) = t[i] /\ t[i] \in Blocks
        /\ \A i \in 0..(Len(t) + 1) : At(t, i) \in Nodes /\ At(t, i) # None
        /\ \A i, j \in 0..(Len(t) + 1) : At(t, i) = At(t, j) => i = j
    BY Zenon, <1>2, AtFacts
  <2> QED BY Zenon, <1>2, <2>1
<1>4. \A i \in 0..(n + 1) : Link(s, a, b, i) = At(t, p + i)
  <2>1. ASSUME NEW i \in 0..(n + 1) PROVE Link(s, a, b, i) = At(t, p + i)
    <3>1. CASE i = 0
      <4>1. p + i = p /\ p \in 0..p BY <1>1, <3>1
      <4> QED BY <1>2, <3>1, <4>1 DEF Link
    <3>2. CASE i = n + 1
      <4>1. p + i = n + (p + 1) /\ p + 1 \in (p + 1)..(L + 1) /\ i # 0 BY <1>1, <3>2
      <4> QED BY <1>2, <3>2, <4>1 DEF Link
    <3>3. CASE i \in 1..n
      BY <1>1, <1>2, <3>3 DEF Link
    <3> QED BY <1>1, <3>1, <3>2, <3>3
  <2> QED BY <2>1
<1>5. /\ nx \in [Nodes -> Nodes \cup {None}] /\ pv \in [Nodes -> Nodes \cup {None}]
      /\ \A i \in 0..L : nx[At(q, i)] = At(q, i + 1)
      /\ \A i \in 1..(L + 1) : pv[At(q, i)] = At(q, i - 1)
      /\ nx[FakeTail] = None /\ pv[FakeHead] = None
      /\ \A c \in Blocks \ Elems(q) : nx[c] = None /\ pv[c] = None
  BY DEF Spells
<1>6. \A i \in 0..(n + 1) : p + i \in 0..(L + n + 1)
  BY <1>1
<1> HIDE DEF a, b
(* Inside the chain the links follow it. *)
<1>7. ASSUME NEW i \in 0..n
      PROVE  nx2[At(t, p + i)] = At(t, p + (i + 1))
  <2> DEFINE x == At(t, p + i)
             c == CHOOSE k \in 0..n : Link(s, a, b, k) = x
  <2>1. i \in 0..(n + 1) /\ i + 1 \in 0..(n + 1) BY <1>1
  <2>2. x \in Nodes /\ Link(s, a, b, i) = x BY <1>3, <1>4, <1>6, <2>1
  <2>3. c \in 0..n /\ Link(s, a, b, c) = x BY <2>2
  <2>4. c = i
    <3> HIDE DEF c
    <3>1. c \in 0..(n + 1) BY <1>1, <2>3
    <3>2. p + c \in 0..(L + n + 1) /\ p + i \in 0..(L + n + 1) BY <1>6, <2>1, <3>1
    <3>3. At(t, p + c) = At(t, p + i) BY <1>4, <2>3, <3>1
    <3>4. p + c = p + i BY Zenon, <1>3, <3>2, <3>3
    <3> QED BY <1>1, <3>1, <3>4
  <2>5. nx2[x] = Link(s, a, b, c + 1) BY <2>2 DEF ChainNext
  <2> QED BY Zenon, <1>4, <2>1, <2>4, <2>5
<1>8. ASSUME NEW i \in 1..(n + 1)
      PROVE  pv2[At(t, p + i)] = At(t, p + (i - 1))
  <2> DEFINE x == At(t, p + i)
             c == CHOOSE k \in 1..(n + 1) : Link(s, a, b, k) = x
  <2>1. i \in 0..(n + 1) /\ i - 1 \in 0..(n + 1) BY <1>1
  <2>2. x \in Nodes /\ Link(s, a, b, i) = x BY <1>3, <1>4, <1>6, <2>1
  <2>3. c \in 1..(n + 1) /\ Link(s, a, b, c) = x BY <2>2
  <2>4. c = i
    <3> HIDE DEF c
    <3>1. c \in 0..(n + 1) BY <1>1, <2>3
    <3>2. p + c \in 0..(L + n + 1) /\ p + i \in 0..(L + n + 1) BY <1>6, <2>1, <3>1
    <3>3. At(t, p + c) = At(t, p + i) BY <1>4, <2>3, <3>1
    <3>4. p + c = p + i BY Zenon, <1>3, <3>2, <3>3
    <3> QED BY <1>1, <3>1, <3>4
  <2>5. pv2[x] = Link(s, a, b, c - 1) BY <2>2 DEF ChainPrev
  <2> QED BY Zenon, <1>4, <2>1, <2>4, <2>5
(* Outside the chain they are left alone. *)
<1>9. ASSUME NEW x \in Nodes, \A i \in 0..n : x # At(t, p + i)
      PROVE  nx2[x] = nx[x]
  <2>1. \A i \in 0..n : Link(s, a, b, i) # x
    <3>1. \A i \in 0..n : i \in 0..(n + 1) BY <1>1
    <3> QED BY <1>4, <1>9, <3>1
  <2> QED BY <2>1 DEF ChainNext
<1>10. ASSUME NEW x \in Nodes, \A i \in 1..(n + 1) : x # At(t, p + i)
       PROVE  pv2[x] = pv[x]
  <2>1. \A i \in 1..(n + 1) : Link(s, a, b, i) # x
    <3>1. \A i \in 1..(n + 1) : i \in 0..(n + 1) BY <1>1
    <3> QED BY <1>4, <1>10, <3>1
  <2> QED BY <2>1 DEF ChainPrev
<1> HIDE DEF nx2, pv2
<1>11. \A i \in 0..(L + n) : nx2[At(t, i)] = At(t, i + 1)
  <2>1. SUFFICES ASSUME NEW i \in 0..(L + n) PROVE nx2[At(t, i)] = At(t, i + 1) OBVIOUS
  <2>2. CASE i \in p..(p + n)
    <3>1. i - p \in 0..n /\ p + (i - p) = i /\ p + ((i - p) + 1) = i + 1 BY <1>1, <2>2
    <3> QED BY Zenon, <1>7, <3>1
  <2>3. CASE i < p
    <3>1. i \in 0..p /\ i + 1 \in 0..p /\ i \in 0..L /\ i \in 0..(L + n + 1) BY <1>1, <2>3
    <3>2. \A k \in 0..n : At(t, i) # At(t, p + k)
      <4>1. \A k \in 0..n : p + k \in 0..(L + n + 1) /\ p + k # i BY <1>1, <2>3
      <4> QED BY <1>3, <3>1, <4>1
    <3>3. nx2[At(t, i)] = nx[At(t, i)] BY <1>3, <1>9, <3>1, <3>2
    <3> QED BY <1>2, <1>5, <3>1, <3>3
  <2>4. CASE i > p + n
    <3>1. /\ i - n \in (p + 1)..(L + 1) /\ n + (i - n) = i /\ i - n \in 0..L /\ i \in 0..(L + n + 1)
          /\ (i - n) + 1 \in (p + 1)..(L + 1) /\ n + ((i - n) + 1) = i + 1
      BY <1>1, <2>4
    <3>2. \A k \in 0..n : At(t, i) # At(t, p + k)
      <4>1. \A k \in 0..n : p + k \in 0..(L + n + 1) /\ p + k # i BY <1>1, <2>4
      <4> QED BY <1>3, <3>1, <4>1
    <3>3. nx2[At(t, i)] = nx[At(t, i)] BY <1>3, <1>9, <3>1, <3>2
    <3>4. At(t, i) = At(q, i - n) /\ At(t, i + 1) = At(q, (i - n) + 1) BY <1>2, <3>1
    <3> QED BY Zenon, <1>5, <3>1, <3>3, <3>4
  <2> QED BY <1>1, <2>2, <2>3, <2>4
<1>12. \A i \in 1..(L + n + 1) : pv2[At(t, i)] = At(t, i - 1)
  <2>1. SUFFICES ASSUME NEW i \in 1..(L + n + 1) PROVE pv2[At(t, i)] = At(t, i - 1) OBVIOUS
  <2>2. CASE i \in (p + 1)..(p + n + 1)
    <3>1. i - p \in 1..(n + 1) /\ p + (i - p) = i /\ p + ((i - p) - 1) = i - 1 BY <1>1, <2>2
    <3> QED BY Zenon, <1>8, <3>1
  <2>3. CASE i < p + 1
    <3>1. i \in 0..p /\ i - 1 \in 0..p /\ i \in 1..(L + 1) /\ i \in 0..(L + n + 1) BY <1>1, <2>3
    <3>2. \A k \in 1..(n + 1) : At(t, i) # At(t, p + k)
      <4>1. \A k \in 1..(n + 1) : p + k \in 0..(L + n + 1) /\ p + k # i BY <1>1, <2>3
      <4> QED BY <1>3, <3>1, <4>1
    <3>3. pv2[At(t, i)] = pv[At(t, i)] BY <1>3, <1>10, <3>1, <3>2
    <3> QED BY <1>2, <1>5, <3>1, <3>3
  <2>4. CASE i > p + n + 1
    <3>1. /\ i - n \in (p + 1)..(L + 1) /\ n + (i - n) = i /\ i - n \in 1..(L + 1) /\ i \in 0..(L + n + 1)
          /\ (i - n) - 1 \in (p + 1)..(L + 1) /\ n + ((i - n) - 1) = i - 1
      BY <1>1, <2>4
    <3>2. \A k \in 1..(n + 1) : At(t, i) # At(t, p + k)
      <4>1. \A k \in 1..(n + 1) : p + k \in 0..(L + n + 1) /\ p + k # i BY <1>1, <2>4
      <4> QED BY <1>3, <3>1, <4>1
    <3>3. pv2[At(t, i)] = pv[At(t, i)] BY <1>3, <1>10, <3>1, <3>2
    <3>4. At(t, i) = At(q, i - n) /\ At(t, i - 1) = At(q, (i - n) - 1) BY <1>2, <3>1
    <3> QED BY <1>5, <3>1, <3>3, <3>4
  <2> QED BY <1>1, <2>2, <2>3, <2>4
<1>13. nx2[FakeTail] = None /\ pv2[FakeHead] = None
  <2>1. \A i \in 0..n : FakeTail # At(t, p + i)
    <3>1. \A i \in 0..n : p + i \in 0..(L + n + 1) /\ p + i # L + n + 1 BY <1>1
    <3>2. L + n + 1 \in 0..(L + n + 1) BY <1>1
    <3> QED BY <1>3, <3>1, <3>2
  <2>2. \A i \in 1..(n + 1) : FakeHead # At(t, p + i)
    <3>1. \A i \in 1..(n + 1) : p + i \in 0..(L + n + 1) /\ p + i # 0 BY <1>1
    <3>2. 0 \in 0..(L + n + 1) BY <1>1
    <3> QED BY <1>3, <3>1, <3>2
  <2>3. FakeTail \in Nodes /\ FakeHead \in Nodes BY DEF Nodes
  <2> QED BY <1>5, <1>9, <1>10, <2>1, <2>2, <2>3
<1>14. ASSUME NEW c \in Blocks \ Elems(t) PROVE nx2[c] = None /\ pv2[c] = None
  <2>1. c \in Nodes /\ c # FakeHead /\ c # FakeTail
    BY NumBlocksAssumption DEF Blocks, Nodes, FakeHead, FakeTail
  <2>2. \A i \in 0..(L + n + 1) : At(t, i) # c
    <3>1. \A i \in 1..(L + n) : t[i] # c BY <1>2 DEF Elems
    <3>2. \A i \in 0..(L + n + 1) : i = 0 \/ i = L + n + 1 \/ i \in 1..(L + n) BY <1>1
    <3> QED BY <1>3, <2>1, <3>1, <3>2
  <2>3. \A i \in 0..(n + 1) : c # At(t, p + i) BY <1>6, <2>2
  <2>4. nx2[c] = nx[c] /\ pv2[c] = pv[c]
    <3>1. (\A i \in 0..n : i \in 0..(n + 1)) /\ (\A i \in 1..(n + 1) : i \in 0..(n + 1)) BY <1>1
    <3> QED BY <1>9, <1>10, <2>1, <2>3, <3>1
  <2>5. c \notin Elems(q) BY <1>2
  <2> QED BY <1>5, <2>4, <2>5
<1>15. nx2 \in [Nodes -> Nodes \cup {None}] /\ pv2 \in [Nodes -> Nodes \cup {None}]
  <2>1. ASSUME NEW x \in Nodes PROVE nx2[x] \in Nodes \cup {None}
    <3>1. CASE \E i \in 0..n : x = At(t, p + i)
      <4>1. PICK i \in 0..n : x = At(t, p + i) BY <3>1
      <4>2. p + (i + 1) \in 0..(L + n + 1) BY <1>1
      <4> QED BY <1>3, <1>7, <4>1, <4>2
    <3>2. CASE ~ \E i \in 0..n : x = At(t, p + i)
      <4>1. nx2[x] = nx[x] BY <1>9, <3>2
      <4> QED BY <1>5, <4>1
    <3> QED BY <3>1, <3>2
  <2>2. ASSUME NEW x \in Nodes PROVE pv2[x] \in Nodes \cup {None}
    <3>1. CASE \E i \in 1..(n + 1) : x = At(t, p + i)
      <4>1. PICK i \in 1..(n + 1) : x = At(t, p + i) BY <3>1
      <4>2. p + (i - 1) \in 0..(L + n + 1) BY <1>1
      <4> QED BY <1>3, <1>8, <4>1, <4>2
    <3>2. CASE ~ \E i \in 1..(n + 1) : x = At(t, p + i)
      <4>1. pv2[x] = pv[x] BY <1>10, <3>2
      <4> QED BY <1>5, <4>1
    <3> QED BY <3>1, <3>2
  <2>3. nx2 = [x \in Nodes |-> nx2[x]] /\ pv2 = [x \in Nodes |-> pv2[x]]
    BY DEF nx2, pv2, ChainNext, ChainPrev
  <2> QED BY Zenon, <2>1, <2>2, <2>3
<1> QED
  <2>1. Spells(nx2, pv2, t)
    BY <1>2, <1>11, <1>12, <1>13, <1>14, <1>15 DEF Spells
  <2> QED BY <2>1 DEF nx2, pv2, a, b

(* Putting a list in front is inserting it after position 0. *)
LEMMA InsertFront ==
    ASSUME NEW q \in Seq(Blocks), Distinct(q), NEW s \in Seq(Blocks), Distinct(s),
           Elems(s) \cap Elems(q) = {}
    PROVE  Inserted(q, s, 0, s \o q)
<1> DEFINE t == s \o q
           L == Len(q)
           n == Len(s)
<1>1. L \in Nat /\ n \in Nat
  OBVIOUS
<1>2. t \in Seq(Blocks) /\ Distinct(t) /\ Elems(t) = Elems(s) \cup Elems(q)
  BY ConcatElems
<1>3. /\ Len(t) = n + L
      /\ \A i \in 1..n : t[i] = s[i]
      /\ \A i \in 1..L : t[n + i] = q[i]
  BY <1>1
<1> HIDE DEF t
<1>4. \A i \in 0..0 : At(t, i) = At(q, i)
  BY DEF At
<1>5. \A i \in 1..n : At(t, 0 + i) = s[i]
  <2>1. \A i \in 1..n : 0 + i = i /\ i # 0 /\ i # Len(t) + 1 BY <1>1, <1>3
  <2> QED BY <1>3, <2>1 DEF At
<1>6. \A i \in 1..(L + 1) : At(t, n + i) = At(q, i)
  <2>1. ASSUME NEW i \in 1..(L + 1) PROVE At(t, n + i) = At(q, i)
    <3>1. n + i # 0 /\ i # 0 BY <1>1
    <3>2. CASE i = L + 1
      <4>1. n + i = Len(t) + 1 BY <1>1, <1>3, <3>2
      <4> QED BY <3>1, <3>2, <4>1 DEF At
    <3>3. CASE i # L + 1
      <4>1. n + i # Len(t) + 1 /\ i \in 1..L BY <1>1, <1>3, <3>3
      <4> QED BY <1>3, <3>1, <3>3, <4>1 DEF At
    <3> QED BY <3>2, <3>3
  <2> QED BY <2>1
<1>7. Len(t) = L + n /\ 0 + 1 = 1
  BY <1>1, <1>3
<1> QED
  BY <1>2, <1>4, <1>5, <1>6, <1>7 DEF Inserted, t

(* Putting a list at the back is inserting it after the last position. *)
LEMMA InsertBack ==
    ASSUME NEW q \in Seq(Blocks), Distinct(q), NEW s \in Seq(Blocks), Distinct(s),
           Elems(s) \cap Elems(q) = {}
    PROVE  Inserted(q, s, Len(q), q \o s)
<1> DEFINE t == q \o s
           L == Len(q)
           n == Len(s)
<1>1. L \in Nat /\ n \in Nat
  OBVIOUS
<1>2. t \in Seq(Blocks) /\ Distinct(t) /\ Elems(t) = Elems(q) \cup Elems(s)
  BY ConcatElems
<1>3. /\ Len(t) = L + n
      /\ \A i \in 1..L : t[i] = q[i]
      /\ \A i \in 1..n : t[L + i] = s[i]
  BY <1>1
<1> HIDE DEF t
<1>4. \A i \in 0..L : At(t, i) = At(q, i)
  <2>1. ASSUME NEW i \in 0..L PROVE At(t, i) = At(q, i)
    <3>1. i # L + 1 /\ i # Len(t) + 1 /\ (i = 0 \/ i \in 1..L) BY <1>1, <1>3
    <3> QED BY <1>3, <3>1 DEF At
  <2> QED BY <2>1
<1>5. \A i \in 1..n : At(t, L + i) = s[i]
  <2>1. \A i \in 1..n : L + i # 0 /\ L + i # Len(t) + 1 BY <1>1, <1>3
  <2> QED BY <1>3, <2>1 DEF At
<1>6. \A i \in (L + 1)..(L + 1) : At(t, n + i) = At(q, i)
  <2>1. \A i \in (L + 1)..(L + 1) : i = L + 1 /\ i # 0 /\ n + i = Len(t) + 1 /\ n + i # 0 BY <1>1, <1>3
  <2> QED BY <2>1 DEF At
<1> QED
  BY <1>2, <1>3, <1>4, <1>5, <1>6 DEF Inserted, t

(* What append sets is the chain of one block. *)
OneNext(ny, nx, b, a, z) == ny = ChainNext(nx, <<b>>, a, z)
OnePrev(ny, nx, b, a, z) == ny = ChainPrev(nx, <<b>>, a, z)

LEMMA ChainOneNext ==
    ASSUME NEW nx, NEW ny \in [Nodes -> Nodes \cup {None}],
           NEW a \in Nodes, NEW b \in Nodes, NEW z \in Nodes, a # b, b # z, a # z,
           ny[a] = b, ny[b] = z, \A x \in Nodes \ {a, b} : ny[x] = nx[x]
    PROVE  OneNext(ny, nx, b, a, z)
<1> DEFINE s == <<b>>
<1>1. Len(s) = 1 /\ Len(s) + 1 = 2 /\ s[1] = b
  OBVIOUS
<1>2. Link(s, a, z, 0) = a /\ Link(s, a, z, 1) = b /\ Link(s, a, z, 2) = z
  BY <1>1 DEF Link
<1> HIDE DEF s
<1>3. 0..Len(s) = {0, 1}
  BY <1>1
<1>4. ASSUME NEW x \in Nodes PROVE ChainNext(nx, s, a, z)[x] = IF x = b THEN z ELSE IF x = a THEN b ELSE nx[x]
  <2> DEFINE c == CHOOSE i \in {0, 1} : Link(s, a, z, i) = x
  <2>1. ChainNext(nx, s, a, z)[x] = IF \E i \in {0, 1} : Link(s, a, z, i) = x
                                    THEN Link(s, a, z, c + 1) ELSE nx[x]
    BY Zenon, <1>3 DEF ChainNext
  <2>2. (\E i \in {0, 1} : Link(s, a, z, i) = x) <=> x \in {a, b}
    BY <1>2
  <2>3. x \in {a, b} => c \in {0, 1} /\ Link(s, a, z, c) = x
    BY <1>2
  <2> HIDE DEF c
  <2>4. x = a => c = 0
    BY <1>2, <2>3
  <2>5. x = b => c = 1
    BY <1>2, <2>3
  <2> QED BY <1>2, <2>1, <2>2, <2>4, <2>5
<1>5. ChainNext(nx, s, a, z) = [x \in Nodes |-> ChainNext(nx, s, a, z)[x]]
  BY DEF ChainNext
<1>6. \A x \in Nodes : ny[x] = ChainNext(nx, s, a, z)[x]
  BY <1>4
<1>7. ny = [x \in Nodes |-> ny[x]]
  OBVIOUS
<1> QED
  BY <1>5, <1>6, <1>7 DEF s, OneNext

LEMMA ChainOnePrev ==
    ASSUME NEW nx, NEW ny \in [Nodes -> Nodes \cup {None}],
           NEW a \in Nodes, NEW b \in Nodes, NEW z \in Nodes, a # b, b # z, a # z,
           ny[b] = a, ny[z] = b, \A x \in Nodes \ {b, z} : ny[x] = nx[x]
    PROVE  OnePrev(ny, nx, b, a, z)
<1> DEFINE s == <<b>>
<1>1. Len(s) = 1 /\ Len(s) + 1 = 2 /\ s[1] = b
  OBVIOUS
<1>2. Link(s, a, z, 0) = a /\ Link(s, a, z, 1) = b /\ Link(s, a, z, 2) = z
  BY <1>1 DEF Link
<1> HIDE DEF s
<1>3. 1..(Len(s) + 1) = {1, 2}
  BY <1>1
<1>4. ASSUME NEW x \in Nodes PROVE ChainPrev(nx, s, a, z)[x] = IF x = b THEN a ELSE IF x = z THEN b ELSE nx[x]
  <2> DEFINE c == CHOOSE i \in {1, 2} : Link(s, a, z, i) = x
  <2>1. ChainPrev(nx, s, a, z)[x] = IF \E i \in {1, 2} : Link(s, a, z, i) = x
                                    THEN Link(s, a, z, c - 1) ELSE nx[x]
    BY Zenon, <1>3 DEF ChainPrev
  <2>2. (\E i \in {1, 2} : Link(s, a, z, i) = x) <=> x \in {b, z}
    BY <1>2
  <2>3. x \in {b, z} => c \in {1, 2} /\ Link(s, a, z, c) = x
    BY <1>2
  <2> HIDE DEF c
  <2>4. x = b => c = 1
    BY <1>2, <2>3
  <2>5. x = z => c = 2
    BY <1>2, <2>3
  <2> QED BY <1>2, <2>1, <2>2, <2>4, <2>5
<1>5. ChainPrev(nx, s, a, z) = [x \in Nodes |-> ChainPrev(nx, s, a, z)[x]]
  BY DEF ChainPrev
<1>6. \A x \in Nodes : ny[x] = ChainPrev(nx, s, a, z)[x]
  BY <1>4
<1>7. ny = [x \in Nodes |-> ny[x]]
  OBVIOUS
<1> QED
  BY <1>5, <1>6, <1>7 DEF s, OnePrev

-----------------------------------------------------------------------------
(* The operations.                                                         *)

(* A step of the abstract queue from q to t. *)
QueueStep(q, t) ==
    \/ \E n \in 1..Len(q) : t = SubSeq(q, n + 1, Len(q)) /\ call' = <<"popleft_n", <<n>>>>
    \/ \E b \in Blocks : b \in Elems(q) /\ t = Drop(q, {b}) /\ call' = <<"remove", <<b>>>>
    \/ \E s \in BlockLists :
          /\ Distinct(s) /\ Elems(s) \cap Elems(q) = {}
          /\ \/ t = q \o s /\ call' = <<"append_n", s>>
             \/ t = s \o q /\ call' = <<"prepend_n", s>>

(* Blocks are neither fake ends nor None. *)
LEMMA NodeNames ==
    /\ \A b \in Blocks : b \in Nodes /\ b # FakeHead /\ b # FakeTail /\ b # None
    /\ FakeHead \in Nodes /\ FakeTail \in Nodes /\ None \notin Nodes /\ FakeHead # FakeTail
BY NumBlocksAssumption DEF Blocks, FakeHead, FakeTail, None, Nodes

(* The nodes with a next link are the fake head and the listed blocks; those *)
(* with a previous link are the listed blocks and the fake tail.             *)
LEMMA LinkedNodes ==
    ASSUME NEW nx, NEW pv, NEW q \in Seq(Blocks), Distinct(q), Spells(nx, pv, q)
    PROVE  /\ \A x \in Nodes : nx[x] # None => \E i \in 0..Len(q) : x = At(q, i)
           /\ \A x \in Nodes : pv[x] # None => \E i \in 1..(Len(q) + 1) : x = At(q, i)
           /\ \A b \in Blocks : (nx[b] # None <=> b \in Elems(q)) /\ (pv[b] # None <=> b \in Elems(q))
           /\ nx[FakeHead] = At(q, 1) /\ pv[FakeTail] = At(q, Len(q))
<1>1. /\ Len(q) \in Nat /\ At(q, 0) = FakeHead /\ At(q, Len(q) + 1) = FakeTail
      /\ \A i \in 1..Len(q) : At(q, i) = q[i]
      /\ \A i \in 0..(Len(q) + 1) : At(q, i) # None
  BY AtFacts
<1>2. /\ \A i \in 0..Len(q) : nx[At(q, i)] = At(q, i + 1)
      /\ \A i \in 1..(Len(q) + 1) : pv[At(q, i)] = At(q, i - 1)
      /\ nx[FakeTail] = None /\ pv[FakeHead] = None
      /\ \A b \in Blocks \ Elems(q) : nx[b] = None /\ pv[b] = None
  BY DEF Spells
<1>3. \A b \in Elems(q) : /\ \E i \in 1..Len(q) : b = At(q, i)
                          /\ nx[b] # None /\ pv[b] # None
  <2>1. SUFFICES ASSUME NEW i \in 1..Len(q)
                 PROVE  q[i] = At(q, i) /\ nx[q[i]] # None /\ pv[q[i]] # None
    BY DEF Elems
  <2>2. i \in 0..Len(q) /\ i + 1 \in 0..(Len(q) + 1) /\ i \in 1..(Len(q) + 1) /\ i - 1 \in 0..(Len(q) + 1)
    BY <1>1
  <2> QED BY <1>1, <1>2, <2>2
<1>4. \A i \in 1..Len(q) : i \in 0..Len(q) /\ i \in 1..(Len(q) + 1)
  BY <1>1
<1>5. 0 \in 0..Len(q) /\ Len(q) + 1 \in 1..(Len(q) + 1) /\ 0 + 1 = 1 /\ (Len(q) + 1) - 1 = Len(q)
  BY <1>1
<1>6. \A x \in Nodes : x \in Blocks \/ x = FakeHead \/ x = FakeTail
  BY DEF Nodes
<1>7. \A x \in Nodes : nx[x] # None => \E i \in 0..Len(q) : x = At(q, i)
  BY <1>1, <1>2, <1>3, <1>4, <1>5, <1>6
<1>8. \A x \in Nodes : pv[x] # None => \E i \in 1..(Len(q) + 1) : x = At(q, i)
  BY <1>1, <1>2, <1>3, <1>4, <1>5, <1>6
<1>9. nx[FakeHead] = At(q, 1) /\ pv[FakeTail] = At(q, Len(q))
  BY <1>1, <1>2, <1>5
<1> QED
  BY <1>2, <1>3, <1>7, <1>8, <1>9

(* popleft_n takes the first n blocks. *)
LEMMA PopleftNStep ==
    ASSUME NEW q, Listed(q), NEW n \in 1..NumBlocks, popleft_n(n), Called("popleft_n", <<n>>)
    PROVE  \E t \in Seq(Blocks) : Listed(t)' /\ QueueStep(q, t)
<1> DEFINE t == SubSeq(q, n + 1, Len(q))
<1>1. q \in Seq(Blocks) /\ Distinct(q) /\ Spells(next, prev, q) /\ num_free_blocks = Len(q)
  BY DEF Listed
<1>2. Len(q) \in Nat /\ n \in 0..Len(q) /\ n \in 1..Len(q)
  BY <1>1 DEF popleft_n
<1>3. \A k \in 0..(Len(q) + 1) : After(k) = At(q, k)
  BY <1>1, WalkIsReach, ReachNode
<1>4. After(n + 1) = At(q, n + 1) /\ {After(k) : k \in 1..n} = {At(q, k) : k \in 1..n}
  <2>1. n + 1 \in 0..(Len(q) + 1) /\ \A k \in 1..n : k \in 0..(Len(q) + 1) BY <1>2
  <2> QED BY <1>3, <2>1
<1>5. t \in Seq(Blocks) /\ Distinct(t) /\ Len(t) = Len(q) - n /\ Spells(next', prev', t)
  <2>1. /\ next' = [x \in Nodes |-> IF x \in {At(q, k) : k \in 1..n} THEN None
                                     ELSE IF x = FakeHead /\ At(q, n + 1) # None THEN At(q, n + 1)
                                     ELSE next[x]]
        /\ prev' = [x \in Nodes |-> IF x = At(q, n + 1) THEN FakeHead
                                     ELSE IF x \in {At(q, k) : k \in 1..n} THEN None
                                     ELSE prev[x]]
    BY Zenon, <1>4 DEF popleft_n
  <2> QED BY Zenon, <1>1, <1>2, <2>1, PopNodes
<1>6. num_free_blocks' = Len(t)
  BY <1>1, <1>2, <1>5 DEF popleft_n
<1>7. Listed(t)'
  BY <1>5, <1>6 DEF Listed
<1>8. QueueStep(q, t)
  BY <1>2 DEF QueueStep, Called
<1> QED
  BY Zenon, <1>5, <1>7, <1>8

(* popleft takes the first block. *)
LEMMA PopleftStep ==
    ASSUME NEW q, Listed(q), popleft, Called("popleft_n", << 1 >>)
    PROVE  \E t \in Seq(Blocks) : Listed(t)' /\ QueueStep(q, t)
<1> DEFINE t == SubSeq(q, 1 + 1, Len(q))
           first == next[FakeHead]
           P == {At(q, k) : k \in 1..1}
<1>1. q \in Seq(Blocks) /\ Distinct(q) /\ Spells(next, prev, q) /\ num_free_blocks = Len(q)
  BY DEF Listed
<1>2. /\ Len(q) \in Nat /\ At(q, 0) = FakeHead /\ At(q, Len(q) + 1) = FakeTail
      /\ \A i \in 1..Len(q) : At(q, i) = q[i] /\ q[i] \in Blocks
      /\ \A i \in 0..(Len(q) + 1) : At(q, i) \in Nodes /\ At(q, i) # None
      /\ \A i, j \in 0..(Len(q) + 1) : At(q, i) = At(q, j) => i = j
  BY <1>1, AtFacts
<1>3. first = At(q, 1)
  BY <1>1, LinkedNodes
<1>4. Len(q) # 0
  BY <1>2, <1>3 DEF popleft
<1>5. 1 \in 0..Len(q) /\ 1 \in 1..Len(q) /\ {0, 1, 2} \subseteq 0..(Len(q) + 1)
  BY <1>2, <1>4
<1>6. next[first] = At(q, 2)
  BY <1>1, <1>3, <1>5 DEF Spells
<1>7. /\ first \in Nodes /\ At(q, 2) \in Nodes /\ FakeHead \in Nodes /\ first # FakeHead
      /\ At(q, 2) # first /\ At(q, 2) # None /\ At(q, 2) # FakeHead
  BY <1>2, <1>3, <1>5
<1>8. P = {first}
  BY <1>3
<1>9. next \in [Nodes -> Nodes \cup {None}] /\ prev \in [Nodes -> Nodes \cup {None}]
  BY <1>1 DEF Spells
<1> HIDE DEF P
<1>10. next' = [x \in Nodes |-> IF x \in P THEN None
                                 ELSE IF x = FakeHead /\ At(q, 1 + 1) # None THEN At(q, 1 + 1)
                                 ELSE next[x]]
  <2>1. next' = [next EXCEPT ![FakeHead] = At(q, 2), ![first] = None]
    BY <1>6 DEF popleft
  <2>2. 1 + 1 = 2 OBVIOUS
  <2> HIDE DEF first
  <2> QED BY Zenon, <1>7, <1>8, <1>9, <2>1, <2>2
<1>11. prev' = [x \in Nodes |-> IF x = At(q, 1 + 1) THEN FakeHead
                                 ELSE IF x \in P THEN None ELSE prev[x]]
  <2>1. prev' = [prev EXCEPT ![At(q, 2)] = FakeHead, ![first] = None]
    BY <1>6 DEF popleft
  <2>2. 1 + 1 = 2 OBVIOUS
  <2> HIDE DEF first
  <2> QED BY Zenon, <1>7, <1>8, <1>9, <2>1, <2>2
<1>12. t \in Seq(Blocks) /\ Distinct(t) /\ Len(t) = Len(q) - 1 /\ Spells(next', prev', t)
  BY Zenon, <1>1, <1>5, <1>10, <1>11, PopNodes DEF P
<1>13. num_free_blocks' = Len(t)
  BY <1>1, <1>12 DEF popleft
<1>14. Listed(t)'
  BY <1>12, <1>13 DEF Listed
<1>15. QueueStep(q, t)
  BY <1>5 DEF QueueStep, Called
<1> QED
  BY Zenon, <1>12, <1>14, <1>15

(* remove unlinks a listed block. *)
LEMMA RemoveStep ==
    ASSUME NEW q, Listed(q), NEW b \in Blocks, remove(b), Called("remove", <<b>>)
    PROVE  \E t \in Seq(Blocks) : Listed(t)' /\ QueueStep(q, t)
<1> DEFINE t == Drop(q, {b})
<1>1. q \in Seq(Blocks) /\ Distinct(q) /\ Spells(next, prev, q) /\ num_free_blocks = Len(q)
  BY DEF Listed
<1>2. b \in Elems(q)
  BY <1>1, LinkedNodes DEF remove
<1>3. PICK j \in 1..Len(q) : b = q[j]
  BY <1>2 DEF Elems
<1>4. t \in Seq(Blocks) /\ Distinct(t) /\ Len(t) = Len(q) - 1 /\ Spells(next', prev', t)
  <2>1. /\ next' = [next EXCEPT ![prev[q[j]]] = next[q[j]], ![q[j]] = None]
        /\ prev' = [prev EXCEPT ![next[q[j]]] = prev[q[j]], ![q[j]] = None]
    BY Zenon, <1>3 DEF remove
  <2> QED BY Zenon, <1>1, <1>3, <2>1, RemoveNode
<1>5. num_free_blocks' = Len(t)
  BY <1>1, <1>4 DEF remove
<1>6. Listed(t)'
  BY <1>4, <1>5 DEF Listed
<1>7. QueueStep(q, t)
  BY Zenon, <1>2 DEF QueueStep, Called
<1> QED
  BY <1>4, <1>6, <1>7

(* Blocks that have no links are not listed. *)
LEMMA OutsideUnlisted ==
    ASSUME NEW q, Listed(q), NEW s \in Seq(Blocks), Outside(s)
    PROVE  Distinct(s) /\ Elems(s) \cap Elems(q) = {}
<1>1. q \in Seq(Blocks) /\ Distinct(q) /\ Spells(next, prev, q)
  BY DEF Listed
<1>2. \A b \in Blocks : next[b] # None <=> b \in Elems(q)
  BY <1>1, LinkedNodes
<1>3. Elems(s) \subseteq Blocks
  BY DEF Elems
<1> QED
  BY <1>2, <1>3 DEF Outside

(* The links of Chain, as the lemmas above name them. *)
LEMMA ChainLinks ==
    \A s, a, b : /\ Chain(s, a, b).nxt = ChainNext(next, s, a, b)
                 /\ Chain(s, a, b).prv = ChainPrev(prev, s, a, b)
BY DEF Chain, ChainNext, ChainPrev, Link

(* append_n puts a list at the back. *)
LEMMA AppendNStep ==
    ASSUME NEW q, Listed(q), NEW s \in BlockLists, Outside(s),
           next' = ChainNext(next, s, prev[FakeTail], FakeTail),
           prev' = ChainPrev(prev, s, prev[FakeTail], FakeTail),
           num_free_blocks' = num_free_blocks + Len(s), Called("append_n", s)
    PROVE  \E t \in Seq(Blocks) : Listed(t)' /\ QueueStep(q, t)
<1> DEFINE t == q \o s
<1>1. q \in Seq(Blocks) /\ Distinct(q) /\ Spells(next, prev, q) /\ num_free_blocks = Len(q)
  BY DEF Listed
<1>2. s \in Seq(Blocks)
  BY BlockListsAssumption
<1>3. Distinct(s) /\ Elems(s) \cap Elems(q) = {}
  BY <1>2, OutsideUnlisted
<1>4. Inserted(q, s, Len(q), t)
  BY <1>1, <1>2, <1>3, InsertBack
<1>5. Len(q) \in 0..Len(q) /\ prev[FakeTail] = At(q, Len(q)) /\ FakeTail = At(q, Len(q) + 1)
  <2>1. Len(q) \in 0..Len(q)
    BY <1>1
  <2>2. prev[FakeTail] = At(q, Len(q))
    BY Zenon, <1>1, LinkedNodes
  <2>3. FakeTail = At(q, Len(q) + 1)
    BY Zenon, <1>1, AtFacts
  <2> QED BY Zenon, <2>1, <2>2, <2>3
<1> HIDE DEF t
<1>6. Spells(next', prev', t)
  BY Zenon, <1>1, <1>2, <1>4, <1>5, InsertNodes
<1>7. t \in Seq(Blocks) /\ Distinct(t) /\ Len(t) = Len(q) + Len(s)
  BY <1>4 DEF Inserted
<1>8. Listed(t)'
  BY <1>1, <1>6, <1>7 DEF Listed
<1>9. QueueStep(q, t)
  BY <1>3 DEF QueueStep, Called, t
<1> QED
  BY <1>7, <1>8, <1>9

(* prepend_n puts a list in front. *)
LEMMA PrependNStep ==
    ASSUME NEW q, Listed(q), NEW s \in BlockLists, Outside(s), prepend_n(s),
           Called("prepend_n", s)
    PROVE  \E t \in Seq(Blocks) : Listed(t)' /\ QueueStep(q, t)
<1> DEFINE t == s \o q
<1>1. q \in Seq(Blocks) /\ Distinct(q) /\ Spells(next, prev, q) /\ num_free_blocks = Len(q)
  BY DEF Listed
<1>2. s \in Seq(Blocks)
  BY BlockListsAssumption
<1>3. Distinct(s) /\ Elems(s) \cap Elems(q) = {}
  BY <1>2, OutsideUnlisted
<1>4. Inserted(q, s, 0, t)
  BY <1>1, <1>2, <1>3, InsertFront
<1>5. 0 \in 0..Len(q) /\ FakeHead = At(q, 0) /\ next[FakeHead] = At(q, 0 + 1)
  <2>1. Len(q) \in Nat /\ At(q, 0) = FakeHead
    BY Zenon, <1>1, AtFacts
  <2>2. next[FakeHead] = At(q, 1)
    BY Zenon, <1>1, LinkedNodes
  <2> QED BY <2>1, <2>2
<1> HIDE DEF t
<1>6. /\ next' = ChainNext(next, s, At(q, 0), At(q, 0 + 1))
      /\ prev' = ChainPrev(prev, s, At(q, 0), At(q, 0 + 1))
  <2>1. /\ next' = Chain(s, FakeHead, next[FakeHead]).nxt
        /\ prev' = Chain(s, FakeHead, next[FakeHead]).prv
    BY DEF prepend_n
  <2>2. /\ next' = ChainNext(next, s, FakeHead, next[FakeHead])
        /\ prev' = ChainPrev(prev, s, FakeHead, next[FakeHead])
    BY Zenon, <2>1, ChainLinks
  <2> QED BY <1>5, <2>2
<1>7. Spells(next', prev', t)
  BY Zenon, <1>1, <1>2, <1>4, <1>5, <1>6, InsertNodes
<1>8. t \in Seq(Blocks) /\ Distinct(t) /\ Len(t) = Len(q) + Len(s)
  BY <1>4 DEF Inserted
<1>9. Listed(t)'
  BY <1>1, <1>7, <1>8 DEF Listed, prepend_n
<1>10. QueueStep(q, t)
  BY <1>3 DEF QueueStep, Called, t
<1> QED
  BY <1>8, <1>9, <1>10

(* Every step of the links is a step of the queue they spell. *)
LEMMA NextListed ==
    ASSUME NEW q, Listed(q), Next
    PROVE  \E t \in Seq(Blocks) : Listed(t)' /\ QueueStep(q, t)
<1>1. ASSUME NEW b \in Blocks, Outside(<<b>>), append(b), Called("append_n", <<b>>)
      PROVE  \E t \in Seq(Blocks) : Listed(t)' /\ QueueStep(q, t)
  <2>1. q \in Seq(Blocks) /\ Distinct(q) /\ Spells(next, prev, q)
    BY DEF Listed
  <2>2. <<b>> \in BlockLists /\ <<b>> \in Seq(Blocks) /\ Len(<<b>>) = 1
    BY BlockListsAssumption
  <2>3. prev[FakeTail] \in Nodes /\ prev[FakeTail] # FakeTail /\ prev[FakeTail] # b
    <3>1. /\ Len(q) \in Nat /\ At(q, Len(q) + 1) = FakeTail
          /\ \A i \in 0..(Len(q) + 1) : At(q, i) \in Nodes /\ At(q, i) # None
          /\ \A i, j \in 0..(Len(q) + 1) : At(q, i) = At(q, j) => i = j
      BY <2>1, AtFacts
    <3>2. prev[FakeTail] = At(q, Len(q))
      BY <2>1, LinkedNodes
    <3>3. next[prev[FakeTail]] = FakeTail
      BY <2>1, <3>1, <3>2 DEF Spells
    <3>4. next[b] = None
      BY <1>1 DEF Outside, Elems
    <3>5. FakeTail # None
      BY NodeNames
    <3>6. Len(q) \in 0..(Len(q) + 1) /\ Len(q) + 1 \in 0..(Len(q) + 1) /\ Len(q) # Len(q) + 1
      BY <3>1
    <3> QED BY <3>1, <3>2, <3>3, <3>4, <3>5, <3>6
  <2>4. next \in [Nodes -> Nodes \cup {None}] /\ prev \in [Nodes -> Nodes \cup {None}]
    BY <2>1 DEF Spells
  <2>5. b \in Nodes /\ FakeTail \in Nodes /\ b # FakeTail
    BY NodeNames
  <2>6. /\ next' = ChainNext(next, <<b>>, prev[FakeTail], FakeTail)
        /\ prev' = ChainPrev(prev, <<b>>, prev[FakeTail], FakeTail)
    <3> DEFINE a == prev[FakeTail]
    <3>1. a \in Nodes /\ a # FakeTail /\ a # b
      BY <2>3
    <3>2. /\ next' = [next EXCEPT ![a] = b, ![b] = FakeTail]
          /\ prev' = [prev EXCEPT ![b] = a, ![FakeTail] = b]
      BY <1>1 DEF append
    <3> HIDE DEF a
    <3>3. /\ next' \in [Nodes -> Nodes \cup {None}] /\ next'[a] = b /\ next'[b] = FakeTail
          /\ \A x \in Nodes \ {a, b} : next'[x] = next[x]
      BY <2>4, <2>5, <3>1, <3>2
    <3>4. /\ prev' \in [Nodes -> Nodes \cup {None}] /\ prev'[b] = a /\ prev'[FakeTail] = b
          /\ \A x \in Nodes \ {b, FakeTail} : prev'[x] = prev[x]
      BY <2>4, <2>5, <3>1, <3>2
    <3>5. OneNext(next', next, b, a, FakeTail)
      BY Zenon, <2>5, <3>1, <3>3, ChainOneNext
    <3>6. OnePrev(prev', prev, b, a, FakeTail)
      BY Zenon, <2>5, <3>1, <3>4, ChainOnePrev
    <3> QED BY Zenon, <3>5, <3>6 DEF a, OneNext, OnePrev
  <2>7. num_free_blocks' = num_free_blocks + Len(<<b>>)
    BY <1>1, <2>2 DEF append
  <2> QED BY Zenon, <1>1, <2>2, <2>6, <2>7, AppendNStep
<1>2. ASSUME NEW s \in BlockLists, Outside(s), append_n(s), Called("append_n", s)
      PROVE  \E t \in Seq(Blocks) : Listed(t)' /\ QueueStep(q, t)
  <2>1. /\ next' = ChainNext(next, s, prev[FakeTail], FakeTail)
        /\ prev' = ChainPrev(prev, s, prev[FakeTail], FakeTail)
    <3>1. /\ next' = Chain(s, prev[FakeTail], FakeTail).nxt
          /\ prev' = Chain(s, prev[FakeTail], FakeTail).prv
      BY <1>2 DEF append_n
    <3> QED BY Zenon, <3>1, ChainLinks
  <2> QED BY <1>2, <2>1, AppendNStep DEF append_n
<1> QED
  BY Zenon, <1>1, <1>2, PopleftStep, PopleftNStep, RemoveStep, PrependNStep DEF Next

(* A fresh list holds all blocks in the order of their numbers. *)
LEMMA InitListed == Init => Listed([i \in 1..NumBlocks |-> i - 1])
<1> SUFFICES ASSUME Init PROVE Listed([i \in 1..NumBlocks |-> i - 1])
  OBVIOUS
<1> DEFINE q == [i \in 1..NumBlocks |-> i - 1]
           N == NumBlocks
<1>1. /\ N \in Nat /\ q \in Seq(Blocks) /\ Len(q) = N /\ Distinct(q)
      /\ \A i \in 1..N : q[i] = i - 1
  BY NumBlocksAssumption DEF Blocks, Distinct
<1>2. \A b \in Blocks : b + 1 \in 1..N /\ q[b + 1] = b
  BY <1>1 DEF Blocks
<1>3. Elems(q) = Blocks
  BY <1>1, <1>2 DEF Elems
<1> HIDE DEF q
<1>4. \A i \in 0..(N + 1) : At(q, i) = IF i = 0 THEN FakeHead ELSE IF i = N + 1 THEN FakeTail ELSE i - 1
  BY <1>1 DEF At
<1>5. next \in [Nodes -> Nodes \cup {None}] /\ prev \in [Nodes -> Nodes \cup {None}]
  BY <1>1 DEF Init, Nodes, Blocks, FakeHead, FakeTail, None
<1>6. \A i \in 0..N : next[At(q, i)] = At(q, i + 1)
  <2>1. ASSUME NEW i \in 0..N PROVE next[At(q, i)] = At(q, i + 1)
    <3>1. i \in 0..(N + 1) /\ i + 1 \in 0..(N + 1) BY <1>1
    <3>2. At(q, i) \in Nodes /\ next[At(q, i)] = IF At(q, i) = FakeHead THEN (IF N = 0 THEN FakeTail ELSE 0)
                               ELSE IF At(q, i) = FakeTail THEN None
                               ELSE IF At(q, i) = N - 1 THEN FakeTail ELSE At(q, i) + 1
      <4>1. At(q, i) \in Nodes BY <1>1, <1>4, <3>1 DEF Nodes, Blocks
      <4> QED BY <4>1 DEF Init
    <3>3. At(q, i) = (IF i = 0 THEN FakeHead ELSE i - 1) /\ At(q, i + 1) = (IF i = N THEN FakeTail ELSE i)
      BY <1>1, <1>4, <3>1
    <3> QED BY <1>1, <3>2, <3>3 DEF FakeHead, FakeTail
  <2> QED BY <2>1
<1>7. \A i \in 1..(N + 1) : prev[At(q, i)] = At(q, i - 1)
  <2>1. ASSUME NEW i \in 1..(N + 1) PROVE prev[At(q, i)] = At(q, i - 1)
    <3>1. i \in 0..(N + 1) /\ i - 1 \in 0..(N + 1) BY <1>1
    <3>2. At(q, i) \in Nodes /\ prev[At(q, i)] = IF At(q, i) = FakeHead THEN None
                               ELSE IF At(q, i) = FakeTail THEN (IF N = 0 THEN FakeHead ELSE N - 1)
                               ELSE IF At(q, i) = 0 THEN FakeHead ELSE At(q, i) - 1
      <4>1. At(q, i) \in Nodes BY <1>1, <1>4, <3>1 DEF Nodes, Blocks
      <4> QED BY <4>1 DEF Init
    <3>3. At(q, i) = (IF i = N + 1 THEN FakeTail ELSE i - 1) /\ At(q, i - 1) = (IF i = 1 THEN FakeHead ELSE i - 2)
      BY <1>1, <1>4, <3>1
    <3> QED BY <1>1, <3>2, <3>3 DEF FakeHead, FakeTail
  <2> QED BY <2>1
<1>8. next[FakeTail] = None /\ prev[FakeHead] = None
  BY <1>1 DEF Init, Nodes, FakeHead, FakeTail, None
<1>9. Spells(next, prev, q)
  BY <1>1, <1>3, <1>5, <1>6, <1>7, <1>8 DEF Spells
<1>10. num_free_blocks = Len(q)
  BY <1>1 DEF Init
<1> QED
  BY <1>1, <1>9, <1>10 DEF Listed, q

-----------------------------------------------------------------------------
(* The theorems.                                                           *)

(* The links always spell a list, and the counter is its length. *)
THEOREM AlwaysListed == Spec => []IInv
<1>1. Init => IInv
  BY Zenon, InitListed DEF IInv, Listed
<1>2. IInv /\ [Next]_vars => IInv'
  <2>1. IInv /\ Next => IInv'
    <3> SUFFICES ASSUME IInv, Next PROVE IInv'
      OBVIOUS
    <3>1. PICK q \in Seq(Blocks) : Listed(q) BY DEF IInv
    <3>2. PICK t \in Seq(Blocks) : Listed(t)' BY <3>1, NextListed
    <3> QED BY <3>2 DEF IInv
  <2>2. IInv /\ UNCHANGED vars => IInv'
    BY DEF IInv, Listed, Spells, vars
  <2> QED BY <2>1, <2>2
<1> QED
  BY <1>1, <1>2, PTL DEF Spec

(* Links name nodes or nothing, and num_free_blocks never leaves 0..NumBlocks, *)
(* however often blocks are popped, removed and put back.                      *)
THEOREM LinkTypes == Spec => []TypeOK
<1>1. IInv => TypeOK
  BY ListFits DEF IInv, Listed, Spells, TypeOK
<1> QED
  BY <1>1, AlwaysListed, PTL

(* The two directions of the list agree, so popleft, remove and append never *)
(* meet the half-linked node that makes them raise a RuntimeError.           *)
THEOREM LinksAlwaysMirror == Spec => []LinksMirror
<1>1. IInv => LinksMirror
  <2> SUFFICES ASSUME NEW q \in Seq(Blocks), Listed(q) PROVE LinksMirror
    BY DEF IInv
  <2>1. Distinct(q) /\ Spells(next, prev, q)
    BY DEF Listed
  <2>2. /\ \A x \in Nodes : next[x] # None => \E i \in 0..Len(q) : x = At(q, i)
        /\ \A x \in Nodes : prev[x] # None => \E i \in 1..(Len(q) + 1) : x = At(q, i)
        /\ \A b \in Blocks : (next[b] # None <=> b \in Elems(q)) /\ (prev[b] # None <=> b \in Elems(q))
        /\ next[FakeHead] = At(q, 1) /\ prev[FakeTail] = At(q, Len(q))
    BY <2>1, LinkedNodes
  <2>3. /\ Len(q) \in Nat /\ \A i \in 0..(Len(q) + 1) : At(q, i) # None
    BY <2>1, AtFacts
  <2>4. /\ \A i \in 0..Len(q) : next[At(q, i)] = At(q, i + 1)
        /\ \A i \in 1..(Len(q) + 1) : prev[At(q, i)] = At(q, i - 1)
        /\ next[FakeTail] = None /\ prev[FakeHead] = None
    BY <2>1 DEF Spells
  <2>5. \A x \in Nodes : next[x] # None => prev[next[x]] = x
    <3>1. SUFFICES ASSUME NEW i \in 0..Len(q) PROVE prev[next[At(q, i)]] = At(q, i)
      BY <2>2
    <3>2. i + 1 \in 1..(Len(q) + 1) /\ (i + 1) - 1 = i BY <2>3
    <3> QED BY <2>4, <3>2
  <2>6. \A x \in Nodes : prev[x] # None => next[prev[x]] = x
    <3>1. SUFFICES ASSUME NEW i \in 1..(Len(q) + 1) PROVE next[prev[At(q, i)]] = At(q, i)
      BY <2>2
    <3>2. i - 1 \in 0..Len(q) /\ (i - 1) + 1 = i BY <2>3
    <3> QED BY <2>4, <3>2
  <2>7. next[FakeHead] # None /\ prev[FakeTail] # None
    <3>1. 1 \in 0..(Len(q) + 1) /\ Len(q) \in 0..(Len(q) + 1) BY <2>3
    <3> QED BY <2>2, <2>3, <3>1
  <2>8. \A b \in Blocks : (prev[b] = None) <=> (next[b] = None)
    BY <2>2
  <2> QED BY <2>4, <2>5, <2>6, <2>7, <2>8 DEF LinksMirror
<1> QED
  BY <1>1, AlwaysListed, PTL

(* num_free_blocks is the number of blocks that a walk finds, and the walk   *)
(* finds every block that has links.                                         *)
THEOREM CountAlwaysMatches == Spec => []CountMatchesLinks
<1>1. IInv => CountMatchesLinks
  <2> SUFFICES ASSUME NEW q \in Seq(Blocks), Listed(q) PROVE CountMatchesLinks
    BY DEF IInv
  <2>1. Distinct(q) /\ Spells(next, prev, q) /\ num_free_blocks = Len(q)
    BY DEF Listed
  <2>2. get_all_free_blocks = q
    BY <2>1, CollectList, WalkIsReach
  <2>3. \A b \in Blocks : next[b] # None <=> b \in Elems(q)
    BY <2>1, LinkedNodes
  <2>4. Elems(q) \subseteq Blocks
    BY DEF Elems
  <2>5. Elems(q) = {b \in Blocks : next[b] # None}
    BY <2>3, <2>4
  <2> QED BY <2>1, <2>2, <2>5 DEF CountMatchesLinks
<1> QED
  BY <1>1, AlwaysListed, PTL

(* The abstract queue speaks of lists in the same terms. *)
LEMMA SameLists ==
    /\ \A s : Abstract!Elems(s) = Elems(s) /\ (Abstract!Distinct(s) <=> Distinct(s))
    /\ \A s, S : Abstract!Drop(s, S) = Drop(s, S)
<1>1. \A s : Abstract!Elems(s) = Elems(s) /\ (Abstract!Distinct(s) <=> Distinct(s))
  BY DEF Abstract!Elems, Elems, Abstract!Distinct, Distinct
<1>2. \A S : Abstract!Cardinality(S) = Cardinality(S)
  BY DEF Abstract!Cardinality, Cardinality
<1>3. \A I, k : Abstract!Kth(I, k) = Kth(I, k)
  BY Zenon, <1>2 DEF Abstract!Kth, Kth
<1>4. \A s, I : Abstract!Select(s, I) = Select(s, I)
  BY <1>2, <1>3 DEF Abstract!Select, Select
<1> QED
  BY <1>1, <1>4 DEF Abstract!Drop, Drop

(* The linked list is the queue the BlockPool counts on: each operation on   *)
(* the links is the operation of BlockQueue of the same name and argument.   *)
THEOREM LinksImplementQueue == Spec => ImplementsBlockQueue
<1>1. Init => Abstract!Init
  <2> SUFFICES ASSUME Init PROVE Abstract!Init
    OBVIOUS
  <2> DEFINE q == [i \in 1..NumBlocks |-> i - 1]
  <2>1. Listed(q) BY InitListed
  <2> HIDE DEF q
  <2>2. get_all_free_blocks = q
    BY <2>1, CollectList, WalkIsReach DEF Listed
  <2> QED BY <2>2 DEF Abstract!Init, Init, q
<1>2. IInv /\ [Next]_vars => [Abstract!Next]_(Abstract!vars)
  <2> SUFFICES ASSUME IInv, [Next]_vars PROVE [Abstract!Next]_(Abstract!vars)
    OBVIOUS
  <2>1. CASE Next
    <3>1. PICK q \in Seq(Blocks) : Listed(q) BY DEF IInv
    <3>2. PICK t \in Seq(Blocks) : Listed(t)' /\ QueueStep(q, t) BY <2>1, <3>1, NextListed
    <3>3. get_all_free_blocks = q
      BY <3>1, CollectList, WalkIsReach DEF Listed
    <3>4. get_all_free_blocks' = t
      BY <3>2, CollectList, WalkIsReach DEF Listed
    <3>5. CASE \E n \in 1..Len(q) : t = SubSeq(q, n + 1, Len(q)) /\ call' = <<"popleft_n", <<n>>>>
      <4>1. PICK n \in 1..Len(q) : t = SubSeq(q, n + 1, Len(q)) /\ call' = <<"popleft_n", <<n>>>>
        BY <3>5
      <4>2. n <= Len(q) BY <3>1
      <4>3. Abstract!PopLeftN(n)
        BY <3>3, <3>4, <4>1, <4>2 DEF Abstract!PopLeftN, Abstract!popleft_n
      <4> QED BY <3>3, <4>3 DEF Abstract!Next
    <3>6. CASE \E b \in Blocks : b \in Elems(q) /\ t = Drop(q, {b}) /\ call' = <<"remove", <<b>>>>
      <4>1. PICK b \in Blocks : b \in Elems(q) /\ t = Drop(q, {b}) /\ call' = <<"remove", <<b>>>>
        BY Zenon, <3>6
      <4>2. Abstract!Remove(b)
        BY <3>3, <3>4, <4>1, SameLists DEF Abstract!Remove, Abstract!remove
      <4> QED BY <4>2 DEF Abstract!Next
    <3>7. CASE \E s \in BlockLists :
                  /\ Distinct(s) /\ Elems(s) \cap Elems(q) = {}
                  /\ \/ t = q \o s /\ call' = <<"append_n", s>>
                     \/ t = s \o q /\ call' = <<"prepend_n", s>>
      <4>1. PICK s \in BlockLists :
                  /\ Distinct(s) /\ Elems(s) \cap Elems(q) = {}
                  /\ \/ t = q \o s /\ call' = <<"append_n", s>>
                     \/ t = s \o q /\ call' = <<"prepend_n", s>>
        BY <3>7
      <4>2. Abstract!MayInsert(s)
        BY <3>3, <4>1, SameLists DEF Abstract!MayInsert
      <4>3. Abstract!AppendN(s) \/ Abstract!PrependN(s)
        BY Zenon, <3>3, <3>4, <4>1, <4>2 DEF Abstract!AppendN, Abstract!PrependN, Abstract!append_n,
           Abstract!prepend_n
      <4> QED BY <4>3 DEF Abstract!Next
    <3> QED BY Zenon, <3>2, <3>5, <3>6, <3>7 DEF QueueStep
  <2>2. CASE UNCHANGED vars
    <3>1. get_all_free_blocks' = get_all_free_blocks
      BY <2>2, WalkIsReach DEF vars
    <3> QED BY <2>2, <3>1 DEF vars, Abstract!vars
  <2> QED BY <2>1, <2>2
<1> QED
  BY <1>1, <1>2, AlwaysListed, PTL DEF Spec, ImplementsBlockQueue, Abstract!Spec

=============================================================================
