------------------------ MODULE BlockPoolUseProofs -------------------------
(***************************************************************************)
(* The reference side of the block pool, and the theorems.  The first part *)
(* shows what the queue operations preserve, the second how a change of a  *)
(* holder's list changes the number of places that refer to a block, the   *)
(* third puts them together action by action.                              *)
(***************************************************************************)
EXTENDS BlockPoolProofs

-----------------------------------------------------------------------------
(* Reference counts and the free queue.                                    *)

(* A pool with the same hashes, other references and another queue. *)
Rewired(p, r, s) == [p EXCEPT !.ref_cnt = r, !.free_queue = s]

(* An operation that only changes counts and queue keeps the hash side. *)
LEMMA RewiredKeeps ==
    ASSUME NEW p, HashOK(p), NEW r \in [Blocks -> Int], NEW s \in Seq(Blocks)
    PROVE  LET q == Rewired(p, r, s)
           IN  HashOK(q) /\ q.ref_cnt = r /\ q.free_queue = s /\ q.block_hash = p.block_hash
<1> DEFINE q == Rewired(p, r, s)
<1>1. p \in Pools BY DEF HashOK
<1>2. /\ q.ref_cnt = r /\ q.free_queue = s /\ q.block_hash = p.block_hash
      /\ q.hash_tokens = p.hash_tokens /\ q.extra_hashes = p.extra_hashes
      /\ q.hash_to_block = p.hash_to_block /\ q.announced = p.announced
      /\ q.reported = p.reported
  BY <1>1 DEF Pools, Rewired
<1>3. q \in Pools BY Zenon, <1>1 DEF Pools, Rewired
<1> HIDE DEF q
<1>4. HashOK(q) BY <1>2, <1>3, SameHashes
<1>5. QED BY <1>2, <1>4 DEF q

(* Popped blocks were unreferenced; they leave without a hash and with one *)
(* reference.                                                              *)
LEMMA GetNewKeeps ==
    ASSUME NEW p, HashOK(p), FreeQueueOK(p), NEW n \in 0..Len(p.free_queue)
    PROVE  LET q   == get_new_blocks(p, n)
               new == Elems(SubSeq(p.free_queue, 1, n))
           IN  /\ HashOK(q) /\ FreeQueueOK(q)
               /\ new \in SUBSET (Blocks \ {NullBlock})
               /\ q.ref_cnt = [b \in Blocks |-> IF b \in new THEN p.ref_cnt[b] + 1 ELSE p.ref_cnt[b]]
               /\ \A b \in new : p.ref_cnt[b] = 0 /\ q.block_hash[b] = None
<1> DEFINE q   == get_new_blocks(p, n)
           new == Elems(SubSeq(p.free_queue, 1, n))
           e   == evict_hashes(p, new)
           s   == SubSeq(p.free_queue, n + 1, Len(p.free_queue))
           r   == [b \in Blocks |-> IF b \in new THEN p.ref_cnt[b] + 1 ELSE p.ref_cnt[b]]
<1>1. p \in Pools /\ p.free_queue \in Seq(Blocks) /\ p.ref_cnt \in [Blocks -> Int]
      /\ HashIndexOK(p) /\ HashTokensOK(p) /\ EventsOK(p)
  BY DEF HashOK, Pools
<1>2. /\ Distinct(p.free_queue)
      /\ Elems(p.free_queue) = {b \in Blocks \ {NullBlock} : p.ref_cnt[b] = 0}
  BY DEF FreeQueueOK
<1>3. /\ s \in Seq(Blocks) /\ Distinct(s)
      /\ new \cup Elems(s) = Elems(p.free_queue) /\ new \cap Elems(s) = {}
  BY <1>1, <1>2, SplitElems
<1>4. new \in SUBSET (Blocks \ {NullBlock}) /\ new \in SUBSET Blocks /\ \A b \in new : p.ref_cnt[b] = 0
  BY <1>2, <1>3
<1>5. e \in Pools /\ e.ref_cnt = p.ref_cnt /\ e.free_queue = p.free_queue
  BY Zenon, <1>1, <1>4, EvictFields
<1>6. HashOK(e)
  <2>1. HashIndexOK(e) /\ HashTokensOK(e) /\ EventsOK(e) BY <1>1, <1>4, EvictKeepsIndex
  <2>2. QED BY <1>5, <2>1 DEF HashOK
<1>7. q = Rewired(e, r, s)
  <2>1. q = [e EXCEPT !.free_queue = SubSeq(e.free_queue, n + 1, Len(e.free_queue)),
                      !.ref_cnt = [b \in Blocks |-> IF b \in new THEN e.ref_cnt[b] + 1 ELSE e.ref_cnt[b]]]
    BY <1>5 DEF get_new_blocks, Pools
  <2> HIDE DEF q, e
  <2>2. q = [e EXCEPT !.free_queue = s, !.ref_cnt = r] BY <1>5, <2>1
  <2> HIDE DEF r, s
  <2>3. QED BY Zenon, <1>5, <2>2 DEF Pools, Rewired
<1>8. r \in [Blocks -> Int] BY <1>1
<1>9. \A b \in new : e.block_hash[b] = None
  BY <1>4, EvictedCarryNothing
<1>10. HashOK(q) /\ q.ref_cnt = r /\ q.free_queue = s /\ q.block_hash = e.block_hash
  <2> HIDE DEF q, r, s, e
  <2>1. QED BY <1>3, <1>6, <1>7, <1>8, RewiredKeeps
<1>11. FreeQueueOK(q)
  <2> HIDE DEF q, e, s, new
  <2>1. Elems(s) = {b \in Blocks \ {NullBlock} : r[b] = 0}
    <3>1. \A b \in Blocks : r[b] = IF b \in new THEN p.ref_cnt[b] + 1 ELSE p.ref_cnt[b] OBVIOUS
    <3>2. \A b \in Blocks : b \in new => r[b] # 0 BY <1>4, <3>1
    <3>3. QED BY <1>2, <1>3, <3>1, <3>2
  <2>2. QED BY <1>3, <1>10, <2>1 DEF FreeQueueOK
<1>12. QED
  <2> HIDE DEF q, e, s, new
  <2>1. QED BY <1>4, <1>9, <1>10, <1>11 DEF q, new

(* Counts are never negative. *)
RefsNat(p) == \A b \in Blocks \ {NullBlock} : p.ref_cnt[b] \in Nat

(* A touched block has one reference more for each time it is listed. *)
LEMMA TouchKeeps ==
    ASSUME NEW p, HashOK(p), FreeQueueOK(p), RefsNat(p), NEW s \in Seq(Blocks)
    PROVE  LET q == touch(p, s)
           IN  /\ HashOK(q) /\ FreeQueueOK(q)
               /\ \A b \in Blocks \ {NullBlock} : q.ref_cnt[b] = p.ref_cnt[b] + Occurrences(s, b)
<1> DEFINE q == touch(p, s)
           T == {b \in Elems(s) \ {NullBlock} : p.ref_cnt[b] = 0}
           d == Drop(p.free_queue, T)
           r == [b \in Blocks |-> IF b = NullBlock THEN p.ref_cnt[b]
                                                   ELSE p.ref_cnt[b] + Occurrences(s, b)]
<1>1. p \in Pools /\ p.free_queue \in Seq(Blocks) /\ p.ref_cnt \in [Blocks -> Int]
  BY DEF HashOK, Pools
<1>2. \A b : Occurrences(s, b) \in Nat /\ (Occurrences(s, b) = 0 <=> b \notin Elems(s))
  BY Zenon, OccurrencesNat
<1>3. r \in [Blocks -> Int] BY <1>1, <1>2
<1>4. d \in Seq(Blocks) /\ Elems(d) = Elems(p.free_queue) \ T /\ Distinct(d)
  BY <1>1, DropProperties DEF FreeQueueOK
<1>5. q = Rewired(p, r, d)
  BY Zenon, <1>1 DEF touch, Pools, Rewired
<1> HIDE DEF q, d
<1>6. HashOK(q) /\ q.ref_cnt = r /\ q.free_queue = d
  <2> HIDE DEF r
  <2>1. QED BY <1>3, <1>4, <1>5, RewiredKeeps
<1>7. \A b \in Blocks \ {NullBlock} : r[b] = p.ref_cnt[b] + Occurrences(s, b) OBVIOUS
<1> HIDE DEF r
<1>8. \A b \in Blocks \ {NullBlock} : r[b] = 0 <=> (p.ref_cnt[b] = 0 /\ b \notin Elems(s))
  BY <1>2, <1>7 DEF RefsNat
<1>9. Elems(d) = {b \in Blocks \ {NullBlock} : r[b] = 0}
  BY <1>4, <1>8 DEF FreeQueueOK
<1>10. FreeQueueOK(q) BY <1>4, <1>6, <1>9 DEF FreeQueueOK
<1>11. QED BY <1>6, <1>7, <1>10 DEF q

(* Freeing takes one reference for each time a block is listed; a block    *)
(* whose last reference goes enters the queue, once.                       *)
LEMMA FreeKeeps ==
    ASSUME NEW p, HashOK(p), FreeQueueOK(p), RefsNat(p), NEW s \in Seq(Blocks),
           \A b \in Blocks \ {NullBlock} : Occurrences(s, b) <= p.ref_cnt[b]
    PROVE  LET q == free_blocks(p, s)
           IN  /\ HashOK(q) /\ FreeQueueOK(q)
               /\ \A b \in Blocks \ {NullBlock} : q.ref_cnt[b] = p.ref_cnt[b] - Occurrences(s, b)
<1> DEFINE q == free_blocks(p, s)
           freed == {b \in Elems(s) \ {NullBlock} : p.ref_cnt[b] - Occurrences(s, b) = 0}
           first == {b \in freed : p.block_hash[b] = None}
           a == KeepLast(s, first)
           z == KeepLast(s, freed \ first)
           t == a \o p.free_queue \o z
           r == [b \in Blocks |-> IF b = NullBlock THEN p.ref_cnt[b]
                                                   ELSE p.ref_cnt[b] - Occurrences(s, b)]
<1>1. p \in Pools /\ p.free_queue \in Seq(Blocks) /\ p.ref_cnt \in [Blocks -> Int]
  BY DEF HashOK, Pools
<1>2. \A b : Occurrences(s, b) \in Nat /\ (Occurrences(s, b) = 0 <=> b \notin Elems(s))
  BY Zenon, OccurrencesNat
<1>3. Elems(s) \in SUBSET Blocks BY DEF Elems
<1>4. r \in [Blocks -> Int] BY <1>1, <1>2
<1>5. q = Rewired(p, r, t)
  BY Zenon, <1>1 DEF free_blocks, Pools, Rewired
<1>6. \A b \in Blocks \ {NullBlock} : r[b] = p.ref_cnt[b] - Occurrences(s, b) OBVIOUS
<1>7. freed \cap Elems(p.free_queue) = {}
  BY <1>2, <1>3 DEF FreeQueueOK, RefsNat
<1>8. \A b \in Blocks \ {NullBlock} : r[b] = 0 <=> (b \in freed \/ p.ref_cnt[b] = 0)
  <2>1. SUFFICES ASSUME NEW b \in Blocks \ {NullBlock}
                 PROVE  r[b] = 0 <=> (b \in freed \/ p.ref_cnt[b] = 0)
    OBVIOUS
  <2>2. /\ p.ref_cnt[b] \in Nat /\ Occurrences(s, b) \in Nat /\ Occurrences(s, b) <= p.ref_cnt[b]
        /\ r[b] = p.ref_cnt[b] - Occurrences(s, b)
    BY <1>2, <1>6 DEF RefsNat
  <2>3. CASE b \in Elems(s) BY <1>2, <2>2, <2>3
  <2>4. CASE b \notin Elems(s) BY <1>2, <2>2, <2>4
  <2>5. QED BY <2>3, <2>4
<1>9. freed \in SUBSET Elems(s) /\ first \in SUBSET freed /\ freed \in SUBSET (Blocks \ {NullBlock})
  BY <1>3
<1> HIDE DEF q, freed, first, r
<1>10. a \in Seq(Blocks) /\ Elems(a) = first /\ Distinct(a)
  <2>1. a \in Seq(Blocks) /\ Elems(a) = Elems(s) \cap first /\ Distinct(a) BY KeepLastProperties
  <2>2. QED BY <1>9, <2>1
<1>11. z \in Seq(Blocks) /\ Elems(z) = freed \ first /\ Distinct(z)
  <2>1. z \in Seq(Blocks) /\ Elems(z) = Elems(s) \cap (freed \ first) /\ Distinct(z) BY KeepLastProperties
  <2>2. QED BY Zenon, <1>9, <2>1
<1> HIDE DEF a, z
<1>12. /\ a \o p.free_queue \in Seq(Blocks) /\ Distinct(a \o p.free_queue)
       /\ Elems(a \o p.free_queue) = first \cup Elems(p.free_queue)
  <2>1. Elems(a) \cap Elems(p.free_queue) = {} BY <1>7, <1>9, <1>10
  <2>2. QED BY <1>1, <1>10, <2>1, ConcatElems DEF FreeQueueOK
<1>13. t \in Seq(Blocks) /\ Distinct(t) /\ Elems(t) = freed \cup Elems(p.free_queue)
  <2> DEFINE u == a \o p.free_queue
  <2>1. u \in Seq(Blocks) /\ Distinct(u) /\ Elems(u) = first \cup Elems(p.free_queue) BY <1>12
  <2> HIDE DEF u
  <2>2. Elems(u) \cap Elems(z) = {} BY <1>7, <1>9, <1>11, <2>1
  <2>3. u \o z \in Seq(Blocks) /\ Elems(u \o z) = Elems(u) \cup Elems(z) /\ Distinct(u \o z)
    BY <1>11, <2>1, <2>2, ConcatElems
  <2>4. first \cup Elems(p.free_queue) \cup (freed \ first) = freed \cup Elems(p.free_queue) BY <1>9
  <2>5. QED BY <1>11, <2>1, <2>3, <2>4 DEF u
<1> HIDE DEF t
<1>14. HashOK(q) /\ q.ref_cnt = r /\ q.free_queue = t
  BY <1>4, <1>5, <1>13, RewiredKeeps
<1>15. Elems(t) = {b \in Blocks \ {NullBlock} : r[b] = 0}
  <2>1. Elems(p.free_queue) = {b \in Blocks \ {NullBlock} : p.ref_cnt[b] = 0} BY DEF FreeQueueOK
  <2>2. QED BY <1>8, <1>9, <1>13, <2>1
<1>16. FreeQueueOK(q) BY <1>13, <1>14, <1>15 DEF FreeQueueOK
<1>17. QED BY <1>6, <1>14, <1>16 DEF q

(* Refreshing only reorders the queue. *)
LEMMA RefreshKeeps ==
    ASSUME NEW p, HashOK(p), FreeQueueOK(p), NEW s \in Seq(Blocks), NEW ks
    PROVE  LET q == refresh_cached_free_blocks(p, s, ks)
           IN  HashOK(q) /\ FreeQueueOK(q) /\ q.ref_cnt = p.ref_cnt
<1> DEFINE q == refresh_cached_free_blocks(p, s, ks)
           valid == {i \in 1..Len(s) : /\ s[i] # NullBlock
                                       /\ p.ref_cnt[s[i]] = 0
                                       /\ p.block_hash[s[i]] = ks[i]}
           V == {s[i] : i \in valid}
           d == Drop(p.free_queue, V)
           l == Select(s, LastOf(s, valid))
           t == d \o l
<1>1. p \in Pools /\ p.free_queue \in Seq(Blocks) /\ p.ref_cnt \in [Blocks -> Int]
  BY DEF HashOK, Pools
<1>2. q = Rewired(p, p.ref_cnt, t)
  BY Zenon, <1>1 DEF refresh_cached_free_blocks, Pools, Rewired
<1>3. V \in SUBSET Elems(p.free_queue) BY DEF FreeQueueOK
<1>4. valid \in SUBSET (1..Len(s)) OBVIOUS
<1> HIDE DEF q, valid
<1>5. d \in Seq(Blocks) /\ Elems(d) = Elems(p.free_queue) \ V /\ Distinct(d)
  <2> HIDE DEF V
  <2>1. QED BY <1>1, DropProperties DEF FreeQueueOK
<1>6. l \in Seq(Blocks) /\ Elems(l) = V /\ Distinct(l)
  BY <1>4, SelectLastProperties
<1> HIDE DEF d, l, V
<1>7. t \in Seq(Blocks) /\ Elems(t) = Elems(p.free_queue) /\ Distinct(t)
  <2>1. Elems(d) \cap Elems(l) = {} BY <1>5, <1>6
  <2>2. t \in Seq(Blocks) /\ Elems(t) = Elems(d) \cup Elems(l) /\ Distinct(t)
    BY <1>5, <1>6, <2>1, ConcatElems
  <2>3. QED BY <1>3, <1>5, <1>6, <2>2
<1> HIDE DEF t
<1>8. HashOK(q) /\ q.ref_cnt = p.ref_cnt /\ q.free_queue = t
  BY <1>1, <1>2, <1>7, RewiredKeeps
<1>9. FreeQueueOK(q) BY <1>7, <1>8 DEF FreeQueueOK
<1>10. QED BY <1>8, <1>9 DEF q

(* One more reference on a block that is in use. *)
LEMMA AddRefKeeps ==
    ASSUME NEW p, HashOK(p), FreeQueueOK(p), NEW b \in Blocks \ {NullBlock},
           p.ref_cnt[b] \in Nat \ {0}
    PROVE  LET q == [p EXCEPT !.ref_cnt[b] = @ + 1]
           IN  /\ HashOK(q) /\ FreeQueueOK(q)
               /\ q.ref_cnt = [p.ref_cnt EXCEPT ![b] = p.ref_cnt[b] + 1]
<1> DEFINE q == [p EXCEPT !.ref_cnt[b] = @ + 1]
           r == [p.ref_cnt EXCEPT ![b] = p.ref_cnt[b] + 1]
<1>1. p \in Pools /\ p.free_queue \in Seq(Blocks) /\ p.ref_cnt \in [Blocks -> Int]
  BY DEF HashOK, Pools
<1>2. r \in [Blocks -> Int] BY <1>1
<1>3. q = Rewired(p, r, p.free_queue) BY Zenon, <1>1 DEF Pools, Rewired
<1>4. \A c \in Blocks \ {NullBlock} : r[c] = 0 <=> p.ref_cnt[c] = 0 BY <1>1
<1> HIDE DEF q, r
<1>5. HashOK(q) /\ q.ref_cnt = r /\ q.free_queue = p.free_queue BY <1>1, <1>2, <1>3, RewiredKeeps
<1>6. FreeQueueOK(q) BY <1>4, <1>5 DEF FreeQueueOK
<1>7. QED BY <1>5, <1>6 DEF q, r

-----------------------------------------------------------------------------
(* The places that refer to a block.                                       *)

BlockTables == [Holders -> Seq(Blocks)]

(* The places outside the list of h. *)
OtherSites(hd, h, b) == {s \in RefSites(hd, b) : s[1] # h}

(* There are finitely many places that can refer to a block. *)
LEMMA HoldersFinite == IsFiniteSet(Holders \X (1..MaxHeld))
<1>1. IsFiniteSet(Requests) /\ MaxHeld \in Nat BY BlockPoolUseAssumption
<1>2. IsFiniteSet(Holders)
  <2>1. IsFiniteSet({Copies}) BY FS_Singleton
  <2>2. QED BY Zenon, <1>1, <2>1, FS_Union DEF Holders
<1>3. IsFiniteSet(1..MaxHeld) BY <1>1, FS_Interval
<1>4. QED BY Zenon, <1>2, <1>3, FS_Product

(* The places that refer to b are those in the list of h and the others. *)
LEMMA SitesSplit ==
    ASSUME NEW hd \in BlockTables, NEW h \in Holders, NEW b, Len(hd[h]) <= MaxHeld
    PROVE  /\ Cardinality(OtherSites(hd, h, b)) \in Nat
           /\ Cardinality(RefSites(hd, b)) = Cardinality(OtherSites(hd, h, b)) + Occurrences(hd[h], b)
<1> DEFINE P == {i \in 1..Len(hd[h]) : hd[h][i] = b}
           M == {s \in RefSites(hd, b) : s[1] = h}
           O == OtherSites(hd, h, b)
           f == [i \in P |-> <<h, i>>]
<1>1. hd[h] \in Seq(Blocks) /\ MaxHeld \in Nat BY BlockPoolUseAssumption DEF BlockTables
<1>2. IsFiniteSet(P) BY Zenon, <1>1, OccurrencesNat
<1>3. f \in [P -> M]
  <2>1. SUFFICES ASSUME NEW i \in P PROVE <<h, i>> \in M OBVIOUS
  <2>2. i \in 1..MaxHeld /\ i <= Len(hd[h]) /\ hd[h][i] = b BY <1>1
  <2>3. <<h, i>> \in Sites(hd) BY <2>2 DEF Sites
  <2>4. QED BY <2>2, <2>3 DEF RefSites
<1>4. \A i, j \in P : f[i] = f[j] => i = j OBVIOUS
<1>5. \A s \in M : \E i \in P : f[i] = s
  <2>1. SUFFICES ASSUME NEW s \in M PROVE \E i \in P : f[i] = s OBVIOUS
  <2>2. s \in Holders \X (1..MaxHeld) /\ s[1] = h /\ s[2] <= Len(hd[h]) /\ hd[h][s[2]] = b
    BY DEF RefSites, Sites
  <2>3. s[2] \in P /\ s = <<h, s[2]>> BY <1>1, <2>2
  <2>4. QED BY <2>3
<1>6. IsFiniteSet(M) /\ Cardinality(M) = Cardinality(P)
  <2> HIDE DEF P, M, f
  <2>1. QED BY <1>2, <1>3, <1>4, <1>5, SameSize
<1>7. IsFiniteSet(O)
  <2>1. O \in SUBSET (Holders \X (1..MaxHeld)) BY DEF OtherSites, RefSites, Sites
  <2> HIDE DEF O
  <2>2. QED BY <2>1, HoldersFinite, FS_Subset
<1>8. RefSites(hd, b) = O \cup M /\ O \cap M = {} BY DEF OtherSites
<1> HIDE DEF O, M
<1>9. Cardinality(O) \in Nat /\ Cardinality(M) \in Nat BY <1>6, <1>7, FS_CardinalityType
<1>10. Cardinality(O \cap M) = 0 BY Zenon, <1>8, FS_EmptySet
<1>11. Cardinality(O \cup M) = Cardinality(O) + Cardinality(M) - Cardinality(O \cap M)
  BY <1>6, <1>7, FS_Union
<1>12. Cardinality(RefSites(hd, b)) = Cardinality(O) + Cardinality(M) BY <1>8, <1>9, <1>10, <1>11
<1>13. Occurrences(hd[h], b) = Cardinality(M) BY <1>6 DEF Occurrences
<1>14. QED BY <1>9, <1>12, <1>13 DEF O

(* Giving holder h another list. *)
LEMMA ReplaceList ==
    ASSUME NEW hd \in BlockTables, NEW h \in Holders, NEW t \in Seq(Blocks), NEW b,
           Len(hd[h]) <= MaxHeld, Len(t) <= MaxHeld
    PROVE  /\ Cardinality(RefSites(hd, b)) \in Nat
           /\ Occurrences(hd[h], b) <= Cardinality(RefSites(hd, b))
           /\ Cardinality(RefSites([hd EXCEPT ![h] = t], b)) =
                  Cardinality(RefSites(hd, b)) - Occurrences(hd[h], b) + Occurrences(t, b)
<1> DEFINE e == [hd EXCEPT ![h] = t]
<1>1. /\ e \in BlockTables /\ e[h] = t /\ \A g \in Holders : g # h => e[g] = hd[g]
  BY DEF BlockTables
<1>2. hd[h] \in Seq(Blocks) BY DEF BlockTables
<1> HIDE DEF e
<1>3. OtherSites(e, h, b) = OtherSites(hd, h, b)
  <2>1. ASSUME NEW s \in Holders \X (1..MaxHeld), s[1] # h
        PROVE  s \in OtherSites(e, h, b) <=> s \in OtherSites(hd, h, b)
    <3>1. s[1] \in Holders OBVIOUS
    <3>2. e[s[1]] = hd[s[1]] BY <1>1, <2>1, <3>1
    <3>3. QED BY <2>1, <3>2 DEF OtherSites, RefSites, Sites
  <2>2. \A s \in OtherSites(e, h, b) \cup OtherSites(hd, h, b) :
            s \in Holders \X (1..MaxHeld) /\ s[1] # h
    BY DEF OtherSites, RefSites, Sites
  <2>3. QED BY <2>1, <2>2
<1>4. Occurrences(hd[h], b) \in Nat /\ Occurrences(t, b) \in Nat BY Zenon, <1>2, OccurrencesNat
<1>5. /\ Cardinality(OtherSites(hd, h, b)) \in Nat
      /\ Cardinality(RefSites(hd, b)) = Cardinality(OtherSites(hd, h, b)) + Occurrences(hd[h], b)
  BY SitesSplit
<1>6. Cardinality(RefSites(e, b)) = Cardinality(OtherSites(e, h, b)) + Occurrences(e[h], b)
  BY <1>1, SitesSplit
<1>7. QED BY <1>1, <1>3, <1>4, <1>5, <1>6 DEF e

-----------------------------------------------------------------------------
(* The inductive invariant, of a pool and the lists of its holders.        *)

Good(p, hd) ==
    /\ HashOK(p) /\ FreeQueueOK(p)
    /\ hd \in BlockTables /\ \A h \in Holders : Len(hd[h]) <= MaxHeld
    /\ \A b \in Blocks \ {NullBlock} : p.ref_cnt[b] = Cardinality(RefSites(hd, b))

(* In a good state every reference count is a natural number. *)
LEMMA GoodRefsNat ==
    ASSUME NEW p, NEW hd, Good(p, hd)
    PROVE  RefsNat(p)
<1>1. SUFFICES ASSUME NEW b \in Blocks \ {NullBlock} PROVE Cardinality(RefSites(hd, b)) \in Nat
  BY DEF Good, RefsNat
<1>2. RefSites(hd, b) \in SUBSET (Holders \X (1..MaxHeld)) BY DEF RefSites, Sites
<1>3. IsFiniteSet(RefSites(hd, b)) BY <1>2, HoldersFinite, FS_Subset
<1>4. QED BY <1>3, FS_CardinalityType

(* A step that changes only hashes. *)
LEMMA HashStep ==
    ASSUME NEW p, NEW hd, Good(p, hd), NEW q, HashOK(q),
           q.ref_cnt = p.ref_cnt, q.free_queue = p.free_queue
    PROVE  Good(q, hd)
BY DEF Good, FreeQueueOK

(* A step that gives holder h the list t. *)
LEMMA RefStep ==
    ASSUME NEW p, NEW hd, Good(p, hd), NEW q, HashOK(q), FreeQueueOK(q),
           NEW h \in Holders, NEW t \in Seq(Blocks), Len(t) <= MaxHeld,
           \A b \in Blocks \ {NullBlock} :
               q.ref_cnt[b] = p.ref_cnt[b] - Occurrences(hd[h], b) + Occurrences(t, b)
    PROVE  Good(q, [hd EXCEPT ![h] = t])
<1> DEFINE e == [hd EXCEPT ![h] = t]
<1>1. hd \in BlockTables /\ \A g \in Holders : Len(hd[g]) <= MaxHeld BY DEF Good
<1>2. e \in BlockTables /\ \A g \in Holders : Len(e[g]) <= MaxHeld BY <1>1 DEF BlockTables
<1>3. ASSUME NEW b \in Blocks \ {NullBlock} PROVE q.ref_cnt[b] = Cardinality(RefSites(e, b))
  <2>1. Cardinality(RefSites(e, b)) =
          Cardinality(RefSites(hd, b)) - Occurrences(hd[h], b) + Occurrences(t, b)
    BY <1>1, ReplaceList
  <2>2. QED BY <2>1 DEF Good
<1> HIDE DEF e
<1>4. Good(q, e) BY <1>2, <1>3 DEF Good
<1>5. QED BY <1>4 DEF e

(* A block that a list mentions is in use. *)
LEMMA HeldInUse ==
    ASSUME NEW p, NEW hd, Good(p, hd), NEW h \in Holders, NEW i \in 1..Len(hd[h]),
           hd[h][i] # NullBlock
    PROVE  /\ hd[h][i] \in Blocks \ {NullBlock}
           /\ p.ref_cnt[hd[h][i]] \in Nat \ {0}
           /\ hd[h][i] \notin Elems(p.free_queue)
<1> DEFINE b == hd[h][i]
<1>1. hd \in BlockTables /\ Len(hd[h]) <= MaxHeld /\ hd[h] \in Seq(Blocks) BY DEF Good, BlockTables
<1>2. b \in Blocks \ {NullBlock} /\ b \in Elems(hd[h]) BY <1>1 DEF Elems
<1> HIDE DEF b
<1>3. Occurrences(hd[h], b) \in Nat /\ Occurrences(hd[h], b) # 0 BY Zenon, <1>1, <1>2, OccurrencesNat
<1>4. /\ Cardinality(RefSites(hd, b)) \in Nat
      /\ Occurrences(hd[h], b) <= Cardinality(RefSites(hd, b))
  <2>1. <<>> \in Seq(Blocks) /\ Len(<<>>) <= MaxHeld BY BlockPoolUseAssumption
  <2>2. QED BY Zenon, <1>1, <2>1, ReplaceList
<1>5. p.ref_cnt[b] = Cardinality(RefSites(hd, b)) BY <1>2 DEF Good
<1>6. p.ref_cnt[b] \in Nat \ {0} BY <1>3, <1>4, <1>5
<1>7. b \notin Elems(p.free_queue) BY <1>6 DEF Good, FreeQueueOK
<1>8. QED BY SMTT(30), <1>2, <1>6, <1>7 DEF b

(* A list never mentions a block more often than it has references. *)
LEMMA ListWithinRefs ==
    ASSUME NEW p, NEW hd, Good(p, hd), NEW h \in Holders, NEW b \in Blocks \ {NullBlock}
    PROVE  Occurrences(hd[h], b) <= p.ref_cnt[b]
<1>1. hd \in BlockTables /\ Len(hd[h]) <= MaxHeld BY DEF Good
<1>2. <<>> \in Seq(Blocks) /\ Len(<<>>) <= MaxHeld BY BlockPoolUseAssumption
<1>3. Occurrences(hd[h], b) <= Cardinality(RefSites(hd, b)) BY Zenon, <1>1, <1>2, ReplaceList
<1>4. QED BY <1>3 DEF Good

(* Nothing occurs in the empty list. *)
LEMMA EmptyList == \A b : Occurrences(<<>>, b) = 0
<1>1. <<>> \in Seq(Blocks) /\ Elems(<<>>) = {} BY DEF Elems
<1>2. QED BY Zenon, <1>1, OccurrencesNat

(* The list s \o t in place of s. *)
LEMMA Lengthen ==
    ASSUME NEW s \in Seq(Blocks), NEW t \in Seq(Blocks)
    PROVE  /\ s \o t \in Seq(Blocks) /\ Len(s \o t) = Len(s) + Len(t)
           /\ \A b : /\ Occurrences(s, b) \in Nat /\ Occurrences(t, b) \in Nat
                     /\ Occurrences(s \o t, b) = Occurrences(s, b) + Occurrences(t, b)
<1>1. s \o t \in Seq(Blocks) /\ Len(s \o t) = Len(s) + Len(t) OBVIOUS
<1>2. ASSUME NEW b
      PROVE  /\ Occurrences(s, b) \in Nat /\ Occurrences(t, b) \in Nat
             /\ Occurrences(s \o t, b) = Occurrences(s, b) + Occurrences(t, b)
  <2>1. Occurrences(s, b) \in Nat /\ Occurrences(t, b) \in Nat BY Zenon, OccurrencesNat
  <2>2. Occurrences(s \o t, b) = Occurrences(s, b) + Occurrences(t, b) BY OccurrencesConcat
  <2>3. QED BY <2>1, <2>2
<1>3. QED BY <1>1, <1>2

-----------------------------------------------------------------------------
(* One lemma per action that moves references.                             *)

(* Allocating new blocks for a request preserves Good. *)
LEMMA GetNewBlocksGood ==
    ASSUME Good(pool, held), NEW r \in Requests, NEW n \in 1..NumGpuBlocks, GetNewBlocks(r, n)
    PROVE  Good(pool, held)'
<1> DEFINE new == SubSeq(pool.free_queue, 1, n)
           q == get_new_blocks(pool, n)
           t == held[r] \o new
<1>1. HashOK(pool) /\ FreeQueueOK(pool) /\ pool.free_queue \in Seq(Blocks) /\ held[r] \in Seq(Blocks)
      /\ pool.ref_cnt \in [Blocks -> Int] /\ r \in Holders
  BY DEF Good, HashOK, Pools, BlockTables, Holders
<1>2. n \in 0..Len(pool.free_queue) /\ Len(held[r]) + n <= MaxHeld
      /\ pool' = q /\ held' = [held EXCEPT ![r] = t]
  BY <1>1 DEF GetNewBlocks, HasRoom
<1>3. new \in Seq(Blocks) /\ Len(new) = n /\ Distinct(new)
  BY <1>1, <1>2, SplitElems DEF FreeQueueOK
<1>4. /\ HashOK(q) /\ FreeQueueOK(q)
      /\ q.ref_cnt = [b \in Blocks |-> IF b \in Elems(new) THEN pool.ref_cnt[b] + 1 ELSE pool.ref_cnt[b]]
  BY <1>1, <1>2, GetNewKeeps
<1> HIDE DEF new, q
<1>5. \A b : Occurrences(new, b) = IF b \in Elems(new) THEN 1 ELSE 0
  BY <1>3, OccurrencesDistinct
<1>6. /\ t \in Seq(Blocks) /\ Len(t) = Len(held[r]) + n
      /\ \A b : Occurrences(held[r], b) \in Nat /\ Occurrences(t, b) = Occurrences(held[r], b) + Occurrences(new, b)
  BY Zenon, <1>1, <1>3, Lengthen
<1> HIDE DEF t
<1>7. \A b \in Blocks \ {NullBlock} :
          q.ref_cnt[b] = pool.ref_cnt[b] - Occurrences(held[r], b) + Occurrences(t, b)
  BY <1>1, <1>4, <1>5, <1>6
<1>8. Len(t) <= MaxHeld BY <1>2, <1>6
<1>9. Good(q, [held EXCEPT ![r] = t]) BY Zenon, <1>1, <1>4, <1>6, <1>7, <1>8, RefStep
<1>10. QED BY <1>2, <1>9

(* Reporting a prefix hit preserves Good. *)
LEMMA ReportGood ==
    ASSUME NEW p, NEW hd, Good(p, hd), NEW named \in ReportLists \cup {<<>>}
    PROVE  LET e == emit_cached_block_events(p, Elems(named))
           IN  Good(e, hd) /\ e.ref_cnt = p.ref_cnt
<1> DEFINE e == emit_cached_block_events(p, Elems(named))
<1>1. Elems(named) \in SUBSET Keys
  <2>1. CASE named \in ReportLists
    <3>1. named \in KeyLists BY <2>1, BlockPoolUseAssumption
    <3>2. named \in Seq(Keys) BY <3>1, BlockPoolUseAssumption
    <3>3. QED BY <3>2 DEF Elems
  <2>2. CASE named = <<>> BY <2>2 DEF Elems
  <2>3. QED BY <2>1, <2>2
<1>2. HashOK(p) BY DEF Good
<1>3. HashOK(e) /\ e.ref_cnt = p.ref_cnt /\ e.free_queue = p.free_queue
  BY <1>1, <1>2, ReportKeepsIndex
<1> HIDE DEF e
<1>4. Good(e, hd) BY <1>3, HashStep
<1>5. QED BY <1>3, <1>4 DEF e

(* Taking over the blocks of a prefix hit preserves Good. *)
LEMMA TouchHitsGood ==
    ASSUME Good(pool, held), NEW r \in Requests, NEW ks \in KeyLists,
           NEW named \in ReportLists \cup {<<>>}, TouchHits(r, ks, named)
    PROVE  Good(pool, held)'
<1> DEFINE hits == [i \in 1..Len(ks) |-> get_cached_block(pool, ks[i])]
           e == emit_cached_block_events(pool, Elems(named))
           q == touch(e, hits)
           t == held[r] \o hits
<1>0. /\ Good(e, held) /\ HashOK(e) /\ FreeQueueOK(e) /\ RefsNat(e)
      /\ e.ref_cnt = pool.ref_cnt
  <2>1. Good(e, held) /\ e.ref_cnt = pool.ref_cnt BY ReportGood
  <2> HIDE DEF e
  <2>2. QED BY Zenon, <2>1, GoodRefsNat DEF Good
<1>1. HashOK(pool) /\ FreeQueueOK(pool) /\ held[r] \in Seq(Blocks) /\ RefsNat(pool)
      /\ pool.hash_to_block \in [Keys -> Seq(Blocks)] /\ r \in Holders
      /\ pool.ref_cnt \in [Blocks -> Int]
  BY Zenon, GoodRefsNat DEF Good, HashOK, Pools, BlockTables, Holders
<1>2. ks \in Seq(Keys) /\ Len(ks) \in Nat BY BlockPoolUseAssumption
<1>3. /\ \A i \in 1..Len(ks) : pool.hash_to_block[ks[i]] # <<>>
      /\ Len(held[r]) + Len(ks) <= MaxHeld
      /\ pool' = q /\ held' = [held EXCEPT ![r] = t]
  BY DEF TouchHits, Finds, HasRoom
<1> HIDE DEF e
<1>4. hits \in Seq(Blocks) /\ Len(hits) = Len(ks)
  <2>1. ASSUME NEW i \in 1..Len(ks) PROVE get_cached_block(pool, ks[i]) \in Blocks
    <3>1. ks[i] \in Keys BY <1>2
    <3>2. pool.hash_to_block[ks[i]] \in Seq(Blocks) /\ pool.hash_to_block[ks[i]] # <<>>
      BY <1>1, <1>3, <3>1
    <3>3. QED BY <3>2 DEF get_cached_block
  <2>2. hits \in [1..Len(ks) -> Blocks] BY <2>1
  <2> HIDE DEF hits
  <2>3. QED BY <1>2, <2>2
<1> HIDE DEF hits
<1>5. /\ HashOK(q) /\ FreeQueueOK(q)
      /\ \A b \in Blocks \ {NullBlock} : q.ref_cnt[b] = pool.ref_cnt[b] + Occurrences(hits, b)
  BY SMTT(30), <1>0, <1>4, TouchKeeps
<1> HIDE DEF q
<1>6. /\ t \in Seq(Blocks) /\ Len(t) = Len(held[r]) + Len(ks)
      /\ \A b : /\ Occurrences(held[r], b) \in Nat /\ Occurrences(hits, b) \in Nat
                /\ Occurrences(t, b) = Occurrences(held[r], b) + Occurrences(hits, b)
  BY Zenon, <1>1, <1>4, Lengthen
<1> HIDE DEF t
<1>7. \A b \in Blocks \ {NullBlock} :
          q.ref_cnt[b] = pool.ref_cnt[b] - Occurrences(held[r], b) + Occurrences(t, b)
  BY <1>1, <1>5, <1>6
<1>8. Len(t) <= MaxHeld BY <1>3, <1>6
<1>9. \A b \in Blocks \ {NullBlock} :
          q.ref_cnt[b] = e.ref_cnt[b] - Occurrences(held[r], b) + Occurrences(t, b)
  BY Zenon, <1>0, <1>7
<1>10. Good(q, [held EXCEPT ![r] = t]) BY Zenon, <1>0, <1>1, <1>5, <1>6, <1>8, <1>9, RefStep
<1>11. QED BY <1>3, <1>10

(* Both Free and FreeRetained: list s is holder h's, in some order. *)
LEMMA FreeListGood ==
    ASSUME NEW p, NEW hd, Good(p, hd), NEW h \in Holders, NEW s \in Seq(Blocks),
           \A b : Occurrences(s, b) = Occurrences(hd[h], b)
    PROVE  Good(free_blocks(p, s), [hd EXCEPT ![h] = <<>>])
<1> DEFINE q == free_blocks(p, s)
<1>1. /\ HashOK(p) /\ FreeQueueOK(p) /\ RefsNat(p) /\ hd[h] \in Seq(Blocks)
      /\ p.ref_cnt \in [Blocks -> Int]
  BY Zenon, GoodRefsNat DEF Good, HashOK, Pools, BlockTables
<1>2. \A b \in Blocks \ {NullBlock} : Occurrences(s, b) <= p.ref_cnt[b] BY ListWithinRefs
<1>3. /\ HashOK(q) /\ FreeQueueOK(q)
      /\ \A b \in Blocks \ {NullBlock} : q.ref_cnt[b] = p.ref_cnt[b] - Occurrences(s, b)
  BY <1>1, <1>2, FreeKeeps
<1> HIDE DEF q
<1>4. \A b : Occurrences(hd[h], b) \in Nat BY Zenon, <1>1, OccurrencesNat
<1>5. \A b \in Blocks \ {NullBlock} :
          q.ref_cnt[b] = p.ref_cnt[b] - Occurrences(hd[h], b) + Occurrences(<<>>, b)
  BY <1>1, <1>3, <1>4, EmptyList
<1>6. <<>> \in Seq(Blocks) /\ Len(<<>>) <= MaxHeld BY BlockPoolUseAssumption
<1>7. QED BY Zenon, <1>3, <1>5, <1>6, RefStep DEF q

(* Without as a list: what it takes away is what the positions held. *)
LEMMA WithoutList ==
    ASSUME NEW l \in Seq(Blocks), NEW I \in SUBSET (1..Len(l))
    PROVE  /\ Without(l, I) \in Seq(Blocks) /\ Len(Without(l, I)) = Len(l)
           /\ \A i \in 1..Len(l) : Without(l, I)[i] = IF i \in I THEN NullBlock ELSE l[i]
           /\ \A b \in Blocks \ {NullBlock} :
                 Occurrences(Without(l, I), b) = Occurrences(l, b) - Occurrences(Select(l, I), b)
<1>1. NullBlock \in Blocks BY BlockPoolAssumption DEF Blocks, NullBlock
<1>2. /\ Without(l, I) \in Seq(Blocks) /\ Len(Without(l, I)) = Len(l)
      /\ \A i \in 1..Len(l) : Without(l, I)[i] = IF i \in I THEN NullBlock ELSE l[i]
  BY <1>1 DEF Without
<1>3. ASSUME NEW b \in Blocks \ {NullBlock}
      PROVE  Occurrences(Without(l, I), b) = Occurrences(l, b) - Occurrences(Select(l, I), b)
  <2>1. b # NullBlock OBVIOUS
  <2>2. Occurrences([i \in 1..Len(l) |-> IF i \in I THEN NullBlock ELSE l[i]], b) =
          Occurrences(l, b) - Occurrences(Select(l, I), b)
    BY SMTT(30), <1>1, <2>1, OccurrencesMask
  <2>3. QED BY Zenon, <2>2 DEF Without
<1>4. QED BY Zenon, <1>2, <1>3

(* Freeing, in some order u, the blocks at positions I of holder h's list  *)
(* and leaving null blocks there preserves Good.                           *)
LEMMA RemovePositionsGood ==
    ASSUME NEW p, NEW hd, Good(p, hd), NEW h \in Holders, NEW I \in SUBSET (1..Len(hd[h])),
           NEW u \in Seq(Blocks), \A b : Occurrences(u, b) = Occurrences(Select(hd[h], I), b)
    PROVE  Good(free_blocks(p, u), [hd EXCEPT ![h] = Without(@, I)])
<1> DEFINE t == Without(hd[h], I)
           q == free_blocks(p, u)
<1>1. /\ HashOK(p) /\ FreeQueueOK(p) /\ RefsNat(p) /\ hd[h] \in Seq(Blocks)
      /\ p.ref_cnt \in [Blocks -> Int] /\ Len(hd[h]) <= MaxHeld
      /\ hd \in BlockTables
  BY Zenon, GoodRefsNat DEF Good, HashOK, Pools, BlockTables
<1>2. /\ t \in Seq(Blocks) /\ Len(t) = Len(hd[h])
      /\ \A b \in Blocks \ {NullBlock} :
            Occurrences(t, b) = Occurrences(hd[h], b) - Occurrences(u, b)
  <2>1. /\ t \in Seq(Blocks) /\ Len(t) = Len(hd[h])
        /\ \A b \in Blocks \ {NullBlock} :
              Occurrences(t, b) = Occurrences(hd[h], b) - Occurrences(Select(hd[h], I), b)
    BY SMTT(30), <1>1, WithoutList
  <2> HIDE DEF t
  <2>2. QED BY Zenon, <2>1
<1> HIDE DEF t
<1>3. \A b : /\ Occurrences(hd[h], b) \in Nat /\ Occurrences(u, b) \in Nat
             /\ Occurrences(t, b) \in Nat
  BY Zenon, <1>1, <1>2, OccurrencesNat
<1>4. ASSUME NEW b \in Blocks \ {NullBlock} PROVE Occurrences(u, b) <= p.ref_cnt[b]
  <2>1. Occurrences(hd[h], b) <= p.ref_cnt[b] BY <1>1, ListWithinRefs
  <2>2. p.ref_cnt[b] \in Int BY <1>1
  <2>3. QED BY SMTT(30), <1>2, <1>3, <2>1, <2>2
<1>5. /\ HashOK(q) /\ FreeQueueOK(q)
      /\ \A b \in Blocks \ {NullBlock} : q.ref_cnt[b] = p.ref_cnt[b] - Occurrences(u, b)
  BY <1>1, <1>4, FreeKeeps
<1> HIDE DEF q
<1>6. ASSUME NEW b \in Blocks \ {NullBlock}
      PROVE  q.ref_cnt[b] = p.ref_cnt[b] - Occurrences(hd[h], b) + Occurrences(t, b)
  <2>1. p.ref_cnt[b] \in Int BY <1>1
  <2>2. QED BY SMTT(30), <1>2, <1>3, <1>5, <2>1
<1>7. Len(t) <= MaxHeld BY <1>1, <1>2
<1>8. Good(q, [hd EXCEPT ![h] = t]) BY SMTT(30), <1>1, <1>2, <1>5, <1>6, <1>7, RefStep
<1>9. QED BY Zenon, <1>8 DEF q, t

(* The same for the blocks read backwards, as every caller's first loop    *)
(* collects them.                                                          *)
LEMMA RemoveBackwardsGood ==
    ASSUME NEW p, NEW hd, Good(p, hd), NEW h \in Holders, NEW I \in SUBSET (1..Len(hd[h]))
    PROVE  Good(free_blocks(p, Reversed(Select(hd[h], I))), [hd EXCEPT ![h] = Without(@, I)])
<1> DEFINE u == Reversed(Select(hd[h], I))
<1>1. hd[h] \in Seq(Blocks) BY Zenon DEF Good, BlockTables
<1>2. Select(hd[h], I) \in Seq(Blocks) BY Zenon, <1>1, SelectProperties
<1>3. u \in Seq(Blocks) /\ \A b : Occurrences(u, b) = Occurrences(Select(hd[h], I), b)
  BY Zenon, <1>2, OccurrencesReversed
<1> HIDE DEF u
<1>4. Good(free_blocks(p, u), [hd EXCEPT ![h] = Without(@, I)]) BY Zenon, <1>3, RemovePositionsGood
<1>5. QED BY Zenon, <1>4 DEF u

(* Replacing skipped positions by the null block preserves Good. *)
LEMMA RemoveSkippedGood ==
    ASSUME Good(pool, held), NEW r \in Requests, NEW l \in 1..MaxHeld, NEW m \in 1..MaxHeld,
           RemoveSkipped(r, l, m)
    PROVE  Good(pool, held)'
<1> DEFINE I == l..m
<1>1. r \in Holders /\ held[r] \in Seq(Blocks) BY Zenon DEF Good, BlockTables, Holders
<1>2. I \in SUBSET (1..Len(held[r]))
  BY <1>1, BlockPoolUseAssumption DEF RemoveSkipped
<1>3. pool' = free_blocks(pool, Reversed(Select(held[r], I))) /\ held' = [held EXCEPT ![r] = Without(@, I)]
  BY Zenon DEF RemoveSkipped
<1> HIDE DEF I
<1>4. Good(free_blocks(pool, Reversed(Select(held[r], I))), [held EXCEPT ![r] = Without(@, I)])
  BY Zenon, <1>1, <1>2, RemoveBackwardsGood
<1>5. QED BY Zenon, <1>3, <1>4

(* So does letting go of the blocks without a hash, and of the block of    *)
(* the last state in a second call of free_blocks.                         *)
LEMMA RemoveUnhashedGood ==
    ASSUME Good(pool, held), NEW r \in Requests, NEW l \in 1..MaxHeld, NEW m \in 1..MaxHeld,
           NEW j \in 0..(l - 1), RemoveUnhashed(r, j, l, m)
    PROVE  Good(pool, held)'
<1> DEFINE unhashed(i) == held[r][i] # NullBlock /\ pool.block_hash[held[r][i]] = None
           I == {i \in l..m : unhashed(i)}
           J == {i \in {j} \ {0} : unhashed(i)}
           p == free_blocks(pool, Reversed(Select(held[r], I)))
           t == Without(held[r], I)
           hd == [held EXCEPT ![r] = Without(@, I)]
           u == Select(held[r], J)
<1>1. /\ r \in Holders /\ held[r] \in Seq(Blocks) /\ held \in [Holders -> Seq(Blocks)]
      /\ Len(held[r]) \in Nat
  BY DEF Good, BlockTables, Holders
<1>2. I \in SUBSET (1..Len(held[r])) /\ J \in SUBSET (1..Len(held[r])) /\ I \cap J = {}
  <2>1. l <= Len(held[r]) /\ m <= Len(held[r]) BY DEF RemoveUnhashed
  <2>2. l \in Nat \ {0} /\ m \in Nat /\ j \in Nat /\ j < l BY BlockPoolUseAssumption
  <2>3. l..m \subseteq 1..Len(held[r]) /\ {j} \ {0} \subseteq 1..Len(held[r]) /\ j \notin l..m
    BY <1>1, <2>1, <2>2
  <2>4. I \subseteq l..m /\ J \subseteq {j} \ {0} BY Zenon
  <2> HIDE DEF I, J
  <2>5. QED BY Zenon, <2>3, <2>4
<1>3. pool' = free_blocks(p, u) /\ held' = [held EXCEPT ![r] = Without(@, I \cup J)]
  BY Zenon DEF RemoveUnhashed
<1> HIDE DEF I, J
<1>4. Good(p, hd) BY Zenon, <1>1, <1>2, RemoveBackwardsGood
<1>5. hd[r] = t BY Zenon, <1>1
<1>6. /\ t \in Seq(Blocks) /\ Len(t) = Len(held[r])
      /\ \A i \in 1..Len(held[r]) : t[i] = IF i \in I THEN NullBlock ELSE held[r][i]
  BY SMTT(30), <1>1, <1>2, WithoutList
<1>7. u \in Seq(Blocks) BY Zenon, <1>1, <1>2, SelectProperties
<1>8. u = Select(t, J)
  <2>1. \A i \in J : held[r][i] = t[i] BY Zenon, <1>2, <1>6
  <2> HIDE DEF t
  <2>2. QED BY Zenon, <1>1, <1>2, <2>1, SelectAgrees
<1>9. [held EXCEPT ![r] = Without(@, I \cup J)] = [hd EXCEPT ![r] = Without(@, J)]
  <2>1. Without(held[r], I \cup J) = Without(t, J)
    <3>1. \A i \in 1..Len(held[r]) : (IF i \in I \cup J THEN NullBlock ELSE held[r][i])
                                   = (IF i \in J THEN NullBlock ELSE t[i])
      BY Zenon, <1>6
    <3> HIDE DEF t
    <3>2. QED BY Zenon, <1>6, <3>1 DEF Without
  <2>2. [hd EXCEPT ![r] = Without(@, J)] = [held EXCEPT ![r] = Without(t, J)]
    <3> HIDE DEF t
    <3>1. hd = [held EXCEPT ![r] = t] BY Zenon DEF t
    <3> HIDE DEF hd
    <3>2. QED BY <1>1, <1>5, <3>1
  <2>3. [held EXCEPT ![r] = Without(@, I \cup J)] = [held EXCEPT ![r] = Without(held[r], I \cup J)]
    BY Zenon, <1>1
  <2>4. QED BY Zenon, <2>1, <2>2, <2>3
<1> HIDE DEF p, t, hd, u
<1>10. /\ J \in SUBSET (1..Len(hd[r]))
       /\ \A b : Occurrences(u, b) = Occurrences(Select(hd[r], J), b)
  BY Zenon, <1>2, <1>5, <1>6, <1>8
<1>11. Good(free_blocks(p, u), [hd EXCEPT ![r] = Without(@, J)])
  BY Zenon, <1>1, <1>4, <1>7, <1>10, RemovePositionsGood
<1>12. QED BY Zenon, <1>3, <1>9, <1>11

(* A fresh block at the head of the queue. *)
LEMMA FreshBlock ==
    ASSUME NEW p, NEW hd, Good(p, hd), p.free_queue # <<>>
    PROVE  LET cow == Head(p.free_queue)
               q   == get_new_blocks(p, 1)
           IN  /\ cow \in Blocks \ {NullBlock} /\ cow \in Elems(p.free_queue)
               /\ HashOK(q) /\ FreeQueueOK(q)
               /\ p.ref_cnt[cow] = 0 /\ q.block_hash[cow] = None
               /\ \A b \in Blocks : q.ref_cnt[b] = p.ref_cnt[b] + (IF b = cow THEN 1 ELSE 0)
<1> DEFINE cow == Head(p.free_queue)
           s == SubSeq(p.free_queue, 1, 1)
           q == get_new_blocks(p, 1)
<1>1. /\ HashOK(p) /\ FreeQueueOK(p) /\ p.free_queue \in Seq(Blocks)
      /\ p.ref_cnt \in [Blocks -> Int]
  BY DEF Good, HashOK, Pools
<1>2. 1 \in 0..Len(p.free_queue) /\ 1 \in 1..Len(p.free_queue) /\ cow = p.free_queue[1]
  BY <1>1
<1>3. Elems(s) = {cow}
  <2>1. s \in Seq(Blocks) /\ Len(s) = 1 /\ s[1] = p.free_queue[1]
    BY <1>1, <1>2
  <2> HIDE DEF s
  <2>2. QED BY <1>2, <2>1 DEF Elems
<1>4. /\ HashOK(q) /\ FreeQueueOK(q) /\ Elems(s) \in SUBSET (Blocks \ {NullBlock})
      /\ q.ref_cnt = [b \in Blocks |-> IF b \in Elems(s) THEN p.ref_cnt[b] + 1 ELSE p.ref_cnt[b]]
      /\ \A b \in Elems(s) : p.ref_cnt[b] = 0 /\ q.block_hash[b] = None
  BY <1>1, <1>2, GetNewKeeps
<1> HIDE DEF q, s
<1>5. cow \in Elems(p.free_queue) BY <1>2 DEF Elems
<1> HIDE DEF cow
<1>6. \A b \in Blocks : q.ref_cnt[b] = p.ref_cnt[b] + (IF b = cow THEN 1 ELSE 0)
  BY <1>1, <1>3, <1>4
<1>7. QED BY SMTT(30), <1>3, <1>4, <1>5, <1>6 DEF cow, q

(* The two endpoints of a copy, as a list. *)
LEMMA Endpoints ==
    ASSUME NEW x \in Blocks, NEW y \in Blocks, x # y
    PROVE  /\ <<x, y>> \in Seq(Blocks) /\ Len(<<x, y>>) = 2
           /\ \A b : Occurrences(<<x, y>>, b) = (IF b = x THEN 1 ELSE 0) + (IF b = y THEN 1 ELSE 0)
<1>1. /\ <<x, y>> \in Seq(Blocks) /\ Len(<<x, y>>) = 2 /\ Distinct(<<x, y>>)
      /\ Elems(<<x, y>>) = {x, y}
  BY DEF Distinct, Elems
<1>2. \A b : Occurrences(<<x, y>>, b) = IF b \in {x, y} THEN 1 ELSE 0
  BY Zenon, <1>1, OccurrencesDistinct
<1>3. QED BY <1>1, <1>2

(* Copy-on-write for a running request preserves Good. *)
LEMMA CowRunningGood ==
    ASSUME Good(pool, held), NEW r \in Requests, NEW i \in 1..Len(held[r]), CowRunning(r, i)
    PROVE  Good(pool, held)'
<1> DEFINE source == held[r][i]
           cow == Head(pool.free_queue)
           p == get_new_blocks(pool, 1)
           m == move_block_hashes(p, source, cow)
           q == [m EXCEPT !.ref_cnt[source] = @ + 1]
           t == held[Copies] \o <<source, cow>>
<1>1. /\ source # NullBlock /\ pool.free_queue # <<>> /\ Len(held[Copies]) + 2 <= MaxHeld
      /\ pool' = q /\ held' = [held EXCEPT ![Copies] = t]
  BY DEF CowRunning, HasRoom
<1>2. r \in Holders /\ Copies \in Holders /\ held[Copies] \in Seq(Blocks)
      /\ pool.ref_cnt \in [Blocks -> Int]
  BY DEF Holders, Good, HashOK, Pools, BlockTables
<1>3. /\ source \in Blocks \ {NullBlock} /\ pool.ref_cnt[source] \in Nat \ {0}
      /\ source \notin Elems(pool.free_queue)
  BY SMTT(30), <1>1, <1>2, HeldInUse
<1>4. /\ cow \in Blocks \ {NullBlock} /\ cow \in Elems(pool.free_queue)
      /\ HashOK(p) /\ FreeQueueOK(p) /\ p.block_hash[cow] = None
      /\ \A b \in Blocks : p.ref_cnt[b] = pool.ref_cnt[b] + (IF b = cow THEN 1 ELSE 0)
  BY SMTT(30), <1>1, FreshBlock
<1>5. source # cow /\ source \in Blocks BY SMTT(30), <1>3, <1>4
<1> HIDE DEF source, cow, p
<1>6. HashOK(m) /\ m.ref_cnt = p.ref_cnt /\ m.free_queue = p.free_queue
  BY SMTT(30), <1>4, <1>5, MoveKeepsIndex
<1> HIDE DEF m
<1>7. FreeQueueOK(m) BY SMTT(30), <1>4, <1>6 DEF FreeQueueOK
<1>8. m.ref_cnt[source] \in Nat \ {0} BY SMTT(30), <1>3, <1>4, <1>5, <1>6
<1>9. HashOK(q) /\ FreeQueueOK(q) /\ q.ref_cnt = [m.ref_cnt EXCEPT ![source] = m.ref_cnt[source] + 1]
  BY Zenon, <1>3, <1>6, <1>7, <1>8, AddRefKeeps
<1> HIDE DEF q
<1>10. m.ref_cnt \in [Blocks -> Int] BY <1>6 DEF HashOK, Pools
<1>11. \A b \in Blocks : q.ref_cnt[b] = m.ref_cnt[b] + (IF b = source THEN 1 ELSE 0)
  BY SMTT(30), <1>5, <1>9, <1>10
<1>12. /\ <<source, cow>> \in Seq(Blocks) /\ Len(<<source, cow>>) = 2
       /\ \A b : Occurrences(<<source, cow>>, b)
                    = (IF b = source THEN 1 ELSE 0) + (IF b = cow THEN 1 ELSE 0)
  BY SMTT(30), <1>3, <1>4, <1>5, Endpoints
<1>13. /\ t \in Seq(Blocks) /\ Len(t) = Len(held[Copies]) + 2
       /\ \A b : /\ Occurrences(held[Copies], b) \in Nat
                 /\ Occurrences(t, b) = Occurrences(held[Copies], b) + Occurrences(<<source, cow>>, b)
  BY ZenonT(60), <1>2, <1>12, Lengthen
<1> HIDE DEF t
<1>14. ASSUME NEW b \in Blocks \ {NullBlock}
       PROVE  q.ref_cnt[b] = pool.ref_cnt[b] - Occurrences(held[Copies], b) + Occurrences(t, b)
  <2>1. pool.ref_cnt[b] \in Int /\ Occurrences(held[Copies], b) \in Nat BY <1>2, <1>13
  <2>2. q.ref_cnt[b] = pool.ref_cnt[b] + (IF b = cow THEN 1 ELSE 0) + (IF b = source THEN 1 ELSE 0)
    BY <1>4, <1>6, <1>11
  <2>3. Occurrences(t, b) = Occurrences(held[Copies], b) + (IF b = source THEN 1 ELSE 0)
                                                         + (IF b = cow THEN 1 ELSE 0)
    BY SMTT(30), <1>12, <1>13, <2>1
  <2>4. QED BY <2>1, <2>2, <2>3
<1>15. Len(t) <= MaxHeld BY <1>1, <1>13
<1>16. Good(q, [held EXCEPT ![Copies] = t]) BY Zenon, <1>2, <1>9, <1>13, <1>14, <1>15, RefStep
<1>17. QED BY <1>1, <1>16

(* Copy-on-write of a block just hit preserves Good. *)
LEMMA CowOnHitGood ==
    ASSUME Good(pool, held), NEW r \in Requests, NEW i \in 1..Len(held[r]), CowOnHit(r, i)
    PROVE  Good(pool, held)'
<1> DEFINE source == held[r][i]
           cow == Head(pool.free_queue)
           p == get_new_blocks(pool, 1)
           q == [p EXCEPT !.ref_cnt[cow] = @ + 1]
           u == [held[r] EXCEPT ![i] = cow]
           e == [held EXCEPT ![r] = u]
           t == held[Copies] \o <<source, cow>>
           g == [e EXCEPT ![Copies] = t]
<1>1. r \in Holders /\ Copies \in Holders /\ r # Copies BY BlockPoolUseAssumption DEF Holders
<1>2. /\ held \in BlockTables /\ held[Copies] \in Seq(Blocks) /\ held[r] \in Seq(Blocks)
      /\ Len(held[r]) <= MaxHeld /\ Len(held[Copies]) <= MaxHeld
      /\ \A h \in Holders : Len(held[h]) <= MaxHeld
      /\ pool.ref_cnt \in [Blocks -> Int]
  BY <1>1 DEF Good, HashOK, Pools, BlockTables
<1>3. /\ source # NullBlock /\ pool.free_queue # <<>> /\ Len(held[Copies]) + 2 <= MaxHeld
      /\ pool' = q /\ held' = [held EXCEPT ![r][i] = cow, ![Copies] = held[Copies] \o <<source, cow>>]
  BY <1>1, <1>2 DEF CowOnHit, HasRoom, BlockTables
<1>4. held' = g BY SMTT(30), <1>1, <1>2, <1>3 DEF BlockTables
<1>5. /\ source \in Blocks \ {NullBlock} /\ source \notin Elems(pool.free_queue)
  BY SMTT(30), <1>1, <1>3, HeldInUse
<1>6. /\ cow \in Blocks \ {NullBlock} /\ cow \in Elems(pool.free_queue)
      /\ HashOK(p) /\ FreeQueueOK(p) /\ pool.ref_cnt[cow] = 0
      /\ \A b \in Blocks : p.ref_cnt[b] = pool.ref_cnt[b] + (IF b = cow THEN 1 ELSE 0)
  BY SMTT(30), <1>3, FreshBlock
<1>7. source # cow /\ source \in Blocks /\ cow \in Blocks BY SMTT(30), <1>5, <1>6
<1> HIDE DEF cow, p
<1>8. p.ref_cnt[cow] \in Nat \ {0} BY <1>6
<1>9. HashOK(q) /\ FreeQueueOK(q) /\ q.ref_cnt = [p.ref_cnt EXCEPT ![cow] = p.ref_cnt[cow] + 1]
  BY ZenonT(60), <1>6, <1>8, AddRefKeeps
<1> HIDE DEF q
<1>10. p.ref_cnt \in [Blocks -> Int] BY <1>6 DEF HashOK, Pools
<1>11. \A b \in Blocks : q.ref_cnt[b] = p.ref_cnt[b] + (IF b = cow THEN 1 ELSE 0)
  BY <1>9, <1>10
<1>12. /\ u \in Seq(Blocks) /\ Len(u) = Len(held[r])
       /\ \A b : Occurrences(u, b) = Occurrences(held[r], b) - (IF source = b THEN 1 ELSE 0)
                                                             + (IF cow = b THEN 1 ELSE 0)
  BY SMTT(30), <1>2, <1>7, OccurrencesUpdate
<1> HIDE DEF u
<1>13. /\ e \in BlockTables /\ e[Copies] = held[Copies]
       /\ \A h \in Holders : Len(e[h]) <= MaxHeld
  BY SMTT(30), <1>1, <1>2, <1>12 DEF BlockTables
<1>14. ASSUME NEW b
       PROVE  /\ Cardinality(RefSites(held, b)) \in Nat
              /\ Cardinality(RefSites(e, b))
                   = Cardinality(RefSites(held, b)) - Occurrences(held[r], b) + Occurrences(u, b)
  BY SMTT(30), <1>1, <1>2, <1>12, ReplaceList
<1> HIDE DEF e, source
<1>15. /\ <<source, cow>> \in Seq(Blocks) /\ Len(<<source, cow>>) = 2
       /\ \A b : Occurrences(<<source, cow>>, b)
                    = (IF b = source THEN 1 ELSE 0) + (IF b = cow THEN 1 ELSE 0)
  BY SMTT(30), <1>7, Endpoints
<1>16. /\ t \in Seq(Blocks) /\ Len(t) = Len(held[Copies]) + 2
       /\ \A b : /\ Occurrences(held[Copies], b) \in Nat
                 /\ Occurrences(t, b) = Occurrences(held[Copies], b) + Occurrences(<<source, cow>>, b)
  <2> DEFINE ends == <<source, cow>>
  <2>1. ends \in Seq(Blocks) /\ Len(ends) = 2 /\ held[Copies] \in Seq(Blocks) BY <1>2, <1>15
  <2>2. t = held[Copies] \o ends OBVIOUS
  <2> HIDE DEF ends, t
  <2>3. QED BY ZenonT(60), <2>1, <2>2, Lengthen DEF ends
<1> HIDE DEF t
<1>17. Len(t) <= MaxHeld BY <1>3, <1>16
<1>18. ASSUME NEW b
       PROVE  Cardinality(RefSites(g, b))
                 = Cardinality(RefSites(e, b)) - Occurrences(held[Copies], b) + Occurrences(t, b)
  <2>1. Len(e[Copies]) <= MaxHeld BY SMTT(30), <1>1, <1>13
  <2>2. Cardinality(RefSites([e EXCEPT ![Copies] = t], b))
                 = Cardinality(RefSites(e, b)) - Occurrences(e[Copies], b) + Occurrences(t, b)
    BY Zenon, <1>1, <1>13, <1>16, <1>17, <2>1, ReplaceList
  <2>3. QED BY SMTT(30), <1>13, <2>2
<1>19. g \in BlockTables /\ \A h \in Holders : Len(g[h]) <= MaxHeld
  BY Zenon, <1>13, <1>16, <1>17 DEF BlockTables
<1> HIDE DEF g
<1>20. ASSUME NEW b \in Blocks \ {NullBlock} PROVE q.ref_cnt[b] = Cardinality(RefSites(g, b))
  <2>1. Occurrences(held[r], b) \in Nat /\ Occurrences(held[Copies], b) \in Nat
    BY ZenonT(60), <1>2, OccurrencesNat
  <2>2. pool.ref_cnt[b] = Cardinality(RefSites(held, b)) BY DEF Good
  <2>3. q.ref_cnt[b] = pool.ref_cnt[b] + (IF b = cow THEN 1 ELSE 0) + (IF b = cow THEN 1 ELSE 0)
    BY <1>6, <1>11
  <2>4. Cardinality(RefSites(e, b)) = pool.ref_cnt[b] - (IF source = b THEN 1 ELSE 0)
                                                      + (IF cow = b THEN 1 ELSE 0)
    BY SMTT(30), <1>12, <1>14, <2>1, <2>2
  <2>5. Occurrences(t, b) = Occurrences(held[Copies], b) + (IF b = source THEN 1 ELSE 0)
                                                         + (IF b = cow THEN 1 ELSE 0)
    BY SMTT(30), <1>15, <1>16, <2>1
  <2>6. pool.ref_cnt[b] \in Int BY <1>2
  <2>7. QED BY SMTT(30), <1>18, <2>1, <2>3, <2>4, <2>5, <2>6
<1>21. Good(q, g) BY SMTT(30), <1>9, <1>19, <1>20 DEF Good
<1>22. QED BY Zenon, <1>3, <1>4, <1>21

(* Caching full blocks of a request preserves Good. *)
LEMMA CacheFullBlocksGood ==
    ASSUME Good(pool, held), NEW r \in Requests, NEW i \in 1..Len(held[r]), NEW ks \in KeyLists,
           CacheFullBlocks(r, i, ks)
    PROVE  Good(pool, held)'
<1> DEFINE at(j) == held[r][i + j - 1]
           js    == {j \in 1..Len(ks) : at(j) # NullBlock}
           f     == [b \in {at(j) : j \in js} |-> ks[CHOOSE j \in js : at(j) = b]]
<1>1. held[r] \in Seq(Blocks) /\ HashOK(pool) BY DEF Good, BlockTables, Holders
<1>2. ks \in Seq(Keys) /\ Distinct(ks) BY SMTT(30), BlockPoolUseAssumption
<1>3. /\ i + Len(ks) - 1 <= Len(held[r]) /\ pool' = cache_full_blocks(pool, f) /\ held' = held
  BY DEF CacheFullBlocks
<1>4. \A j \in js : at(j) \in Blocks \ {NullBlock}
  <2>1. SUFFICES ASSUME NEW j \in js PROVE at(j) \in Blocks \ {NullBlock} OBVIOUS
  <2>2. i + j - 1 \in 1..Len(held[r]) BY SMTT(30), <1>1, <1>2, <1>3
  <2>3. QED BY SMTT(30), <1>1, <2>2
<1>5. ASSUME NEW b \in {at(j) : j \in js}
      PROVE  /\ (CHOOSE j \in js : at(j) = b) \in js
             /\ at(CHOOSE j \in js : at(j) = b) = b
  <2>1. \E j \in js : at(j) = b OBVIOUS
  <2> HIDE DEF at, js
  <2>2. QED BY <2>1
<1>6. f \in Assignments
  <2> DEFINE D == {at(j) : j \in js}
             c(b) == CHOOSE j \in js : at(j) = b
  <2>1. D \in SUBSET (Blocks \ {NullBlock}) BY SMTT(30), <1>4
  <2>2. \A b \in D : c(b) \in js /\ at(c(b)) = b BY SMTT(30), <1>5
  <2>3. \A b \in D : c(b) \in 1..Len(ks) BY <2>2
  <2>4. f = [b \in D |-> ks[c(b)]] OBVIOUS
  <2> HIDE DEF at, js, D, c, f
  <2>5. f \in [D -> Keys] BY SMTT(30), <1>2, <2>3, <2>4
  <2>6. \A a, b \in D : f[a] = f[b] => a = b
    <3>1. SUFFICES ASSUME NEW a \in D, NEW b \in D, f[a] = f[b] PROVE a = b OBVIOUS
    <3>2. ks[c(a)] = ks[c(b)] BY <2>4, <3>1
    <3>3. c(a) = c(b) BY SMTT(30), <1>2, <2>3, <3>2 DEF Distinct
    <3>4. QED BY <2>2, <3>3
  <2>7. DOMAIN f = D BY <2>4
  <2>8. QED BY SMTT(30), <2>1, <2>5, <2>6, <2>7 DEF Assignments
<1> HIDE DEF f
<1>7. /\ HashOK(cache_full_blocks(pool, f)) /\ cache_full_blocks(pool, f).ref_cnt = pool.ref_cnt
      /\ cache_full_blocks(pool, f).free_queue = pool.free_queue
  BY SMTT(30), <1>1, <1>6, CacheFullKeepsIndex
<1>8. Good(cache_full_blocks(pool, f), held) BY SMTT(30), <1>7, HashStep
<1>9. QED BY <1>3, <1>8

-----------------------------------------------------------------------------
(* The theorems.                                                           *)

(* The pool that BlockPool() builds, with nothing held. *)
LEMMA InitGood == Init => Good(pool, held)
<1> SUFFICES ASSUME Init PROVE Good(pool, held) OBVIOUS
<1> DEFINE p == InitPool
           fq == [i \in 1..(NumGpuBlocks - 1) |-> i]
<1>1. NumGpuBlocks \in Nat \ {0} /\ NumGpuBlocks - 1 \in Nat BY BlockPoolAssumption
<1>2. /\ p.ref_cnt = [b \in Blocks |-> 0] /\ p.free_queue = fq
      /\ p.block_hash = [b \in Blocks |-> None] /\ p.hash_tokens = [b \in Blocks |-> 0]
      /\ p.extra_hashes = [b \in Blocks |-> {}] /\ p.hash_to_block = [k \in Keys |-> <<>>]
      /\ p.announced = [k \in Keys |-> 0] /\ p.reported = [k \in Keys |-> 0]
  BY DEF InitPool
<1>3. fq \in Seq(Blocks) /\ Len(fq) = NumGpuBlocks - 1 /\ Distinct(fq)
      /\ Elems(fq) = 1..(NumGpuBlocks - 1)
  <2>1. fq \in [1..(NumGpuBlocks - 1) -> Blocks] BY <1>1 DEF Blocks
  <2>2. \A i \in 1..(NumGpuBlocks - 1) : fq[i] = i OBVIOUS
  <2> HIDE DEF fq
  <2>3. fq \in Seq(Blocks) /\ Len(fq) = NumGpuBlocks - 1 BY SMTT(30), <1>1, <2>1
  <2>4. QED BY SMTT(30), <1>1, <2>2, <2>3 DEF Distinct, Elems
<1>4. p \in Pools
  <2> DEFINE a == [b \in Blocks |-> 0]
             c == [b \in Blocks |-> None]
             d == [b \in Blocks |-> {}]
             g == [k \in Keys |-> <<>>]
             z == [k \in Keys |-> 0]
  <2>1. /\ a \in [Blocks -> Int] /\ a \in [Blocks -> Nat] /\ c \in [Blocks -> Keys \cup {None}]
        /\ d \in [Blocks -> SUBSET Keys] /\ g \in [Keys -> Seq(Blocks)] /\ z \in [Keys -> Int]
        /\ z \in [Keys -> Nat]
    OBVIOUS
  <2>2. p = [ref_cnt |-> a, free_queue |-> fq, block_hash |-> c, hash_tokens |-> a,
             extra_hashes |-> d, hash_to_block |-> g, announced |-> z, reported |-> z]
    BY DEF InitPool
  <2> HIDE DEF p, a, c, d, g, z, fq
  <2>3. QED BY SMTT(30), <1>3, <2>1, <2>2 DEF Pools
<1> HIDE DEF p
<1>5. HashOK(p)
  <2>1. HashIndexOK(p) /\ HashTokensOK(p) /\ EventsOK(p) BY Zenon, <1>2, NothingCached
  <2>2. QED BY SMTT(30), <1>4, <2>1 DEF HashOK
<1>6. FreeQueueOK(p)
  <2>1. 1..(NumGpuBlocks - 1) = {b \in Blocks \ {NullBlock} : p.ref_cnt[b] = 0}
    BY <1>1, <1>2 DEF Blocks, NullBlock
  <2> HIDE DEF fq
  <2>2. QED BY <1>2, <1>3, <2>1 DEF FreeQueueOK
<1>7. held \in BlockTables /\ \A h \in Holders : held[h] = <<>> /\ Len(held[h]) = 0
  BY DEF Init, BlockTables
<1>8. \A h \in Holders : Len(held[h]) <= MaxHeld BY <1>7, BlockPoolUseAssumption
<1>9. \A b : Cardinality(RefSites(held, b)) = 0
  <2>1. \A b : RefSites(held, b) = {} BY <1>7 DEF RefSites, Sites
  <2>2. QED BY <2>1, FS_EmptySet
<1>10. \A b \in Blocks \ {NullBlock} : p.ref_cnt[b] = Cardinality(RefSites(held, b)) BY SMTT(30), <1>2, <1>9
<1>11. QED BY SMTT(30), <1>5, <1>6, <1>7, <1>8, <1>10 DEF Good, Init, p

(* Every step keeps the invariant. *)
LEMMA NextGood == Good(pool, held) /\ [Next]_vars => Good(pool, held)'
<1> SUFFICES ASSUME Good(pool, held), [Next]_vars PROVE Good(pool, held)' OBVIOUS
<1>1. HashOK(pool) /\ FreeQueueOK(pool) /\ pool \in Pools /\ held \in BlockTables BY DEF Good, HashOK
<1>2. ASSUME NEW r \in Requests, NEW n \in 1..NumGpuBlocks, GetNewBlocks(r, n) PROVE Good(pool, held)'
  BY <1>2, GetNewBlocksGood
<1>3. ASSUME NEW r \in Requests, NEW ks \in KeyLists, NEW named \in ReportLists \cup {<<>>},
             LookUp(r, ks, named) \/ TouchHits(r, ks, named)
      PROVE  Good(pool, held)'
  <2>1. CASE LookUp(r, ks, named)
    <3> DEFINE e == emit_cached_block_events(pool, Elems(named))
    <3>1. pool' = e /\ held' = held BY <2>1 DEF LookUp
    <3>2. Good(e, held) BY ReportGood
    <3> HIDE DEF e
    <3>3. QED BY <3>1, <3>2
  <2>2. CASE TouchHits(r, ks, named) BY <2>2, TouchHitsGood
  <2>3. QED BY <1>3, <2>1, <2>2
<1>4. ASSUME NEW r \in Requests, NEW ks \in BoundaryLists \cup {<<>>},
             NEW s \in [1..Len(ks) -> Blocks \ {NullBlock}], Free(r, s, ks)
      PROVE  Good(pool, held)'
  <2> DEFINE q == refresh_cached_free_blocks(pool, s, ks)
  <2>1. s \in Seq(Blocks)
    <3>1. Len(ks) \in Nat BY BlockPoolUseAssumption
    <3>2. s \in [1..Len(ks) -> Blocks] OBVIOUS
    <3>3. QED BY <3>1, <3>2
  <2>2. HashOK(q) /\ FreeQueueOK(q) /\ q.ref_cnt = pool.ref_cnt BY SMTT(30), <1>1, <2>1, RefreshKeeps
  <2>3. pool' = free_blocks(q, Reversed(held[r])) /\ held' = [held EXCEPT ![r] = <<>>]
    BY <1>4 DEF Free
  <2> HIDE DEF q
  <2>4. Good(q, held) BY <2>2 DEF Good
  <2>5. r \in Holders /\ held[r] \in Seq(Blocks) BY <1>1 DEF Holders, BlockTables
  <2>6. Reversed(held[r]) \in Seq(Blocks)
        /\ \A b : Occurrences(Reversed(held[r]), b) = Occurrences(held[r], b)
    BY <2>5, OccurrencesReversed
  <2>7. Good(free_blocks(q, Reversed(held[r])), [held EXCEPT ![r] = <<>>])
    BY Zenon, <2>4, <2>5, <2>6, FreeListGood
  <2>8. QED BY <2>3, <2>7
<1>5. ASSUME NEW r \in Requests, NEW l \in 1..MaxHeld, NEW m \in 1..MaxHeld,
             RemoveSkipped(r, l, m) \/ \E j \in 0..(l - 1) : RemoveUnhashed(r, j, l, m)
      PROVE  Good(pool, held)'
  BY Zenon, <1>5, RemoveSkippedGood, RemoveUnhashedGood
<1>6. ASSUME NEW r \in Requests, NEW i \in 1..Len(held[r]), CowOnHit(r, i) PROVE Good(pool, held)'
  BY <1>6, CowOnHitGood
<1>7. ASSUME NEW r \in Requests, NEW i \in 1..Len(held[r]), CowRunning(r, i) PROVE Good(pool, held)'
  BY SMTT(30), <1>7, CowRunningGood
<1>8. ASSUME NEW r \in Requests, NEW i \in 1..Len(held[r]), NEW ks \in KeyLists, CacheFullBlocks(r, i, ks)
      PROVE  Good(pool, held)'
  BY <1>8, CacheFullBlocksGood
<1>9. ASSUME NEW r \in Requests, NEW i \in 1..Len(held[r]), NEW k \in Keys, NEW replace \in BOOLEAN,
             CachePartialBlock(r, i, k, replace)
      PROVE  Good(pool, held)'
  <2> DEFINE b == held[r][i]
             q == cache_partial_block(pool, b, k, replace)
  <2>1. held[r] \in Seq(Blocks) BY <1>1 DEF Holders, BlockTables
  <2>2. b \in Blocks \ {NullBlock} BY <1>9, <2>1 DEF CachePartialBlock
  <2>3. pool' = q /\ held' = held BY <1>9 DEF CachePartialBlock
  <2> HIDE DEF b
  <2>4. HashOK(q) /\ q.ref_cnt = pool.ref_cnt /\ q.free_queue = pool.free_queue
    BY <1>1, <2>2, CachePartialKeepsIndex
  <2> HIDE DEF q
  <2>5. Good(q, held) BY <2>4, HashStep
  <2>6. QED BY <2>3, <2>5
<1>10. ASSUME FreeRetained PROVE Good(pool, held)'
  <2>1. Copies \in Holders /\ held[Copies] \in Seq(Blocks) BY <1>1 DEF Holders, BlockTables
  <2>2. Good(free_blocks(pool, held[Copies]), [held EXCEPT ![Copies] = <<>>])
    BY <2>1, FreeListGood
  <2>3. QED BY <1>10, <2>2 DEF FreeRetained
<1>11. ASSUME NEW B \in SUBSET {b \in Blocks : pool.block_hash[b] # None}, EvictBlocks(B)
       PROVE  Good(pool, held)'
  <2> DEFINE q == evict_hashes(pool, B)
  <2>1. pool' = q /\ held' = held /\ B \in SUBSET Blocks BY SMTT(30), <1>11 DEF EvictBlocks
  <2>2. q \in Pools /\ q.ref_cnt = pool.ref_cnt /\ q.free_queue = pool.free_queue
    BY Zenon, <1>1, <2>1, EvictFields
  <2>3. HashIndexOK(q) /\ HashTokensOK(q) /\ EventsOK(q)
    BY <1>1, <2>1, EvictKeepsIndex DEF HashOK
  <2> HIDE DEF q
  <2>4. HashOK(q) BY <2>2, <2>3 DEF HashOK
  <2>5. Good(q, held) BY <2>2, <2>4, HashStep
  <2>6. QED BY <2>1, <2>5
<1>12. ASSUME ResetPrefixCache PROVE Good(pool, held)'
  <2> DEFINE q == reset_prefix_cache(pool)
  <2>1. pool' = q /\ held' = held BY <1>12 DEF ResetPrefixCache
  <2>2. HashOK(q) /\ q.ref_cnt = pool.ref_cnt /\ q.free_queue = pool.free_queue
    BY <1>1, ResetKeepsIndex
  <2> HIDE DEF q
  <2>3. Good(q, held) BY <2>2, HashStep
  <2>4. QED BY <2>1, <2>3
<1>13. CASE UNCHANGED vars BY <1>13 DEF vars, Good
<1>14. QED
  BY SMTT(30), <1>2, <1>3, <1>4, <1>5, <1>6, <1>7, <1>8, <1>9, <1>10, <1>11, <1>12, <1>13 DEF Next

(* The inductive invariant holds in every reachable state. *)
THEOREM AlwaysGood == Spec => []Good(pool, held)
<1>1. QED BY InitGood, NextGood, PTL DEF Spec

(* The pool and the block lists keep their types: in particular every list *)
(* entry is a block id of the pool.                                        *)
THEOREM PoolTypes == Spec => []TypeOK
<1>1. Good(pool, held) => TypeOK BY DEF Good, HashOK, BlockTables, TypeOK
<1>2. QED BY AlwaysGood, <1>1, PTL

(* For any number of blocks, requests and keys, ref_cnt counts exactly the *)
(* places that refer to a block, through get_new_blocks, touch,            *)
(* free_blocks and both kinds of copy-on-write.                            *)
THEOREM RefCounts == Spec => []RefCntExact
<1>1. Good(pool, held) => RefCntExact BY DEF Good, RefCntExact
<1>2. QED BY AlwaysGood, <1>1, PTL

(* The free queue is exactly the unreferenced blocks, so get_new_blocks    *)
(* never hands out a block in use and remove always finds its block.       *)
THEOREM FreeQueue == Spec => []FreeQueueExact
<1>1. Good(pool, held) => FreeQueueExact BY DEF Good, FreeQueueExact
<1>2. QED BY AlwaysGood, <1>1, PTL

(* The prefix-cache index and the hashes that the blocks carry agree in    *)
(* both directions.                                                        *)
THEOREM HashIndex == Spec => []HashIndexConsistent
<1>1. Good(pool, held) => HashIndexConsistent BY DEF Good, HashOK, HashIndexConsistent
<1>2. QED BY AlwaysGood, <1>1, PTL

(* block_hash_num_tokens is the length of the primary hash, the longest of *)
(* the prefixes that the block is found under.                             *)
THEOREM LongestPrimary == Spec => []PrimaryIsLongest
<1>1. Good(pool, held) => PrimaryIsLongest BY DEF Good, HashOK, PrimaryIsLongest
<1>2. QED BY AlwaysGood, <1>1, PTL

(* Stored minus removed events is, for each key, the number of blocks that *)
(* the index has for it and the full reports that named it.                *)
THEOREM EventsBalance == Spec => []EventsMatchIndex
<1>1. Good(pool, held) => EventsMatchIndex BY DEF Good, HashOK, EventsMatchIndex
<1>2. QED BY AlwaysGood, <1>1, PTL
=============================================================================
