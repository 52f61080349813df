-------------------------- MODULE BlockPoolProofs ---------------------------
(***************************************************************************)
(* What each pool operation preserves on the hash side of the pool: its    *)
(* type, the agreement of the index with the blocks, the longest primary   *)
(* hash, and the balance of events with the index.  BlockPoolUseProofs     *)
(* puts this together with the reference counts and the free queue.        *)
(***************************************************************************)
EXTENDS BlockPoolUse, SubsequenceProofs

(* The hash side of a pool is in order. *)
HashOK(p) == p \in Pools /\ HashIndexOK(p) /\ HashTokensOK(p) /\ EventsOK(p)

-----------------------------------------------------------------------------
(* The hash index.                                                         *)

(* A consistent pool pops a key for exactly the blocks that carry it. *)
LEMMA PoppedIsCarried ==
    ASSUME NEW p \in Pools, HashIndexOK(p), NEW B \in SUBSET Blocks, NEW k \in Keys
    PROVE  Popped(p, B, k) = {b \in B : k \in HashesOf(p, b)}
BY DEF Popped, HashIndexOK

(* Forgetting the hashes of some blocks changes these fields. *)
LEMMA RemoveFields ==
    ASSUME NEW p \in Pools, NEW B \in SUBSET Blocks
    PROVE  LET q == remove_cached_block_hashes(p, B)
           IN  /\ q \in Pools
               /\ q.ref_cnt = p.ref_cnt /\ q.free_queue = p.free_queue
               /\ q.announced = p.announced /\ q.reported = p.reported
               /\ q.block_hash = [b \in Blocks |-> IF b \in B THEN None ELSE p.block_hash[b]]
               /\ q.hash_tokens = [b \in Blocks |-> IF b \in B THEN 0 ELSE p.hash_tokens[b]]
               /\ q.extra_hashes = [b \in Blocks |-> IF b \in B THEN {} ELSE p.extra_hashes[b]]
               /\ q.hash_to_block = [k \in Keys |-> Drop(p.hash_to_block[k], Popped(p, B, k))]
<1> DEFINE q == remove_cached_block_hashes(p, B)
<1>1. \A k \in Keys : Drop(p.hash_to_block[k], Popped(p, B, k)) \in Seq(Blocks)
  <2>1. \A k \in Keys : p.hash_to_block[k] \in Seq(Blocks) BY DEF Pools
  <2>2. QED BY <2>1, DropProperties
<1>2. /\ q.ref_cnt = p.ref_cnt /\ q.free_queue = p.free_queue
      /\ q.announced = p.announced /\ q.reported = p.reported
      /\ q.block_hash = [b \in Blocks |-> IF b \in B THEN None ELSE p.block_hash[b]]
      /\ q.hash_tokens = [b \in Blocks |-> IF b \in B THEN 0 ELSE p.hash_tokens[b]]
      /\ q.extra_hashes = [b \in Blocks |-> IF b \in B THEN {} ELSE p.extra_hashes[b]]
      /\ q.hash_to_block = [k \in Keys |-> Drop(p.hash_to_block[k], Popped(p, B, k))]
  BY SMTT(30) DEF remove_cached_block_hashes, Pools
<1>3. q \in Pools
  BY Zenon, <1>1 DEF remove_cached_block_hashes, Pools
<1>4. QED
  BY <1>2, <1>3

(* The keys that are left after forgetting the hashes of B. *)
LEMMA RemoveHashesOf ==
    ASSUME NEW p \in Pools, NEW B \in SUBSET Blocks, NEW b \in Blocks
    PROVE  HashesOf(remove_cached_block_hashes(p, B), b) = IF b \in B THEN {} ELSE HashesOf(p, b)
<1> DEFINE q == remove_cached_block_hashes(p, B)
<1>1. None \notin Keys BY BlockPoolAssumption
<1>2. /\ q.block_hash[b] = IF b \in B THEN None ELSE p.block_hash[b]
      /\ q.extra_hashes[b] = IF b \in B THEN {} ELSE p.extra_hashes[b]
  <2>1. /\ q.block_hash = [c \in Blocks |-> IF c \in B THEN None ELSE p.block_hash[c]]
        /\ q.extra_hashes = [c \in Blocks |-> IF c \in B THEN {} ELSE p.extra_hashes[c]]
    BY Zenon, RemoveFields
  <2> HIDE DEF q
  <2>2. QED BY <2>1
<1> HIDE DEF q
<1>3. HashesOf(q, b) = IF b \in B THEN {} ELSE HashesOf(p, b)
  BY <1>1, <1>2 DEF HashesOf
<1>4. QED BY <1>3 DEF q

(* Removing all hashes of a set of blocks leaves index and lengths in order. *)
LEMMA RemoveKeepsIndex ==
    ASSUME NEW p \in Pools, HashIndexOK(p), HashTokensOK(p), NEW B \in SUBSET Blocks
    PROVE  /\ HashIndexOK(remove_cached_block_hashes(p, B))
           /\ HashTokensOK(remove_cached_block_hashes(p, B))
<1> DEFINE q == remove_cached_block_hashes(p, B)
<1>1. /\ q.block_hash = [b \in Blocks |-> IF b \in B THEN None ELSE p.block_hash[b]]
      /\ q.hash_tokens = [b \in Blocks |-> IF b \in B THEN 0 ELSE p.hash_tokens[b]]
      /\ q.extra_hashes = [b \in Blocks |-> IF b \in B THEN {} ELSE p.extra_hashes[b]]
      /\ q.hash_to_block = [k \in Keys |-> Drop(p.hash_to_block[k], Popped(p, B, k))]
  BY RemoveFields
<1>2. \A b \in Blocks : HashesOf(q, b) = IF b \in B THEN {} ELSE HashesOf(p, b)
  BY RemoveHashesOf
<1> HIDE DEF q
<1>3. ASSUME NEW k \in Keys
      PROVE  /\ Distinct(q.hash_to_block[k])
             /\ Elems(q.hash_to_block[k]) = {b \in Blocks : k \in HashesOf(q, b)}
  <2>1. p.hash_to_block[k] \in Seq(Blocks) BY DEF Pools
  <2>2. /\ Distinct(p.hash_to_block[k])
        /\ Elems(p.hash_to_block[k]) = {b \in Blocks : k \in HashesOf(p, b)}
    BY DEF HashIndexOK
  <2>3. /\ Elems(q.hash_to_block[k]) = Elems(p.hash_to_block[k]) \ Popped(p, B, k)
        /\ Distinct(q.hash_to_block[k])
    BY <1>1, <2>1, <2>2, DropProperties
  <2>4. Popped(p, B, k) = {b \in B : k \in HashesOf(p, b)} BY PoppedIsCarried
  <2>5. QED BY <1>2, <2>2, <2>3, <2>4
<1>4. ASSUME NEW b \in Blocks
      PROVE  /\ q.block_hash[b] = None => q.extra_hashes[b] = {}
             /\ q.block_hash[b] \notin q.extra_hashes[b]
  BY <1>1 DEF HashIndexOK
<1>5. HashesOf(q, NullBlock) = {}
  <2>1. NullBlock \in Blocks BY BlockPoolAssumption DEF NullBlock, Blocks
  <2>2. QED BY <1>2, <2>1 DEF HashIndexOK
<1>6. HashIndexOK(q)
  BY <1>3, <1>4, <1>5 DEF HashIndexOK
<1>7. HashTokensOK(q)
  BY <1>1 DEF HashTokensOK
<1>8. QED
  BY <1>6, <1>7 DEF q

(* Finitely many blocks are given up. *)
LEMMA PoppedCount ==
    ASSUME NEW p, NEW B \in SUBSET Blocks, NEW k
    PROVE  Cardinality(Popped(p, B, k)) \in Nat
<1>1. IsFiniteSet(Blocks) BY BlockPoolAssumption, FS_Interval DEF Blocks
<1>2. Popped(p, B, k) \in SUBSET Blocks BY DEF Popped
<1>3. IsFiniteSet(Popped(p, B, k)) BY <1>1, <1>2, FS_Subset
<1>4. QED BY <1>3, FS_CardinalityType

(* The same for the index with its events: each entry that goes is         *)
(* announced.                                                              *)
LEMMA EvictFields ==
    ASSUME NEW p \in Pools, NEW B \in SUBSET Blocks
    PROVE  LET q == remove_cached_block_hashes(p, B)
               e == evict_hashes(p, B)
           IN  /\ e \in Pools
               /\ e.ref_cnt = p.ref_cnt /\ e.free_queue = p.free_queue
               /\ e.block_hash = q.block_hash /\ e.hash_tokens = q.hash_tokens
               /\ e.extra_hashes = q.extra_hashes /\ e.hash_to_block = q.hash_to_block
               /\ e.announced = [k \in Keys |-> p.announced[k] - Cardinality(Popped(p, B, k))]
               /\ e.reported = p.reported
<1> DEFINE q == remove_cached_block_hashes(p, B)
           e == evict_hashes(p, B)
<1>1. /\ q \in Pools /\ q.announced = p.announced /\ q.reported = p.reported
      /\ q.ref_cnt = p.ref_cnt /\ q.free_queue = p.free_queue
  BY ZenonT(60), RemoveFields
<1>2. \A k \in Keys : Cardinality(Popped(p, B, k)) \in Int
  BY PoppedCount
<1>3. e = [q EXCEPT !.announced = [k \in Keys |-> q.announced[k] - Cardinality(Popped(p, B, k))]]
  BY DEF evict_hashes
<1> HIDE DEF q, e
<1>4. \A k \in Keys : p.announced[k] - Cardinality(Popped(p, B, k)) \in Int
  BY <1>2 DEF Pools
<1>5. e \in Pools
  BY Zenon, <1>1, <1>3, <1>4 DEF Pools
<1>6. /\ e.ref_cnt = p.ref_cnt /\ e.free_queue = p.free_queue
      /\ e.block_hash = q.block_hash /\ e.hash_tokens = q.hash_tokens
      /\ e.extra_hashes = q.extra_hashes /\ e.hash_to_block = q.hash_to_block
      /\ e.announced = [k \in Keys |-> p.announced[k] - Cardinality(Popped(p, B, k))]
      /\ e.reported = p.reported
  BY <1>1, <1>3 DEF Pools
<1>7. QED
  BY <1>5, <1>6 DEF q, e

(* Evicting a set of blocks leaves the events in order as well. *)
LEMMA EvictKeepsIndex ==
    ASSUME NEW p \in Pools, HashIndexOK(p), HashTokensOK(p), EventsOK(p),
           NEW B \in SUBSET Blocks
    PROVE  LET e == evict_hashes(p, B)
           IN  HashIndexOK(e) /\ HashTokensOK(e) /\ EventsOK(e)
<1> DEFINE q == remove_cached_block_hashes(p, B)
           e == evict_hashes(p, B)
<1>1. HashIndexOK(q) /\ HashTokensOK(q)
  BY RemoveKeepsIndex
<1>2. /\ e.block_hash = q.block_hash /\ e.hash_tokens = q.hash_tokens
      /\ e.extra_hashes = q.extra_hashes /\ e.hash_to_block = q.hash_to_block
      /\ e.announced = [k \in Keys |-> p.announced[k] - Cardinality(Popped(p, B, k))]
      /\ e.reported = p.reported
  BY EvictFields
<1>3. q.hash_to_block = [k \in Keys |-> Drop(p.hash_to_block[k], Popped(p, B, k))]
  BY Zenon, RemoveFields
<1> HIDE DEF q, e
<1>4. HashIndexOK(e) /\ HashTokensOK(e)
  BY <1>1, <1>2 DEF HashIndexOK, HashTokensOK, HashesOf
<1>5. ASSUME NEW k \in Keys PROVE e.announced[k] = Len(e.hash_to_block[k]) + e.reported[k]
  <2>1. p.hash_to_block[k] \in Seq(Blocks) /\ Distinct(p.hash_to_block[k])
    BY DEF Pools, HashIndexOK
  <2>2. Popped(p, B, k) \in SUBSET Elems(p.hash_to_block[k]) BY DEF Popped
  <2>3. Len(Drop(p.hash_to_block[k], Popped(p, B, k)))
            = Len(p.hash_to_block[k]) - Cardinality(Popped(p, B, k))
    BY <2>1, <2>2, DropLength
  <2>4. p.announced[k] = Len(p.hash_to_block[k]) + p.reported[k] BY DEF EventsOK
  <2>5. Len(Drop(p.hash_to_block[k], Popped(p, B, k))) \in Nat
        /\ Len(p.hash_to_block[k]) \in Nat /\ p.reported[k] \in Nat
    BY <1>3, <2>1 DEF Pools
  <2>6. /\ e.announced[k] = p.announced[k] - Cardinality(Popped(p, B, k))
        /\ e.reported[k] = p.reported[k]
        /\ e.hash_to_block[k] = Drop(p.hash_to_block[k], Popped(p, B, k))
    BY <1>2, <1>3
  <2>7. Cardinality(Popped(p, B, k)) \in Nat BY PoppedCount
  <2>8. QED BY <2>3, <2>4, <2>5, <2>6, <2>7
<1>6. QED
  BY <1>4, <1>5 DEF EventsOK, e

(* An assignment of distinct keys to distinct blocks, none of them null. *)
Assignments == {f \in UNION {[D -> Keys] : D \in SUBSET (Blocks \ {NullBlock})} :
                    \A a, b \in DOMAIN f : f[a] = f[b] => a = b}

(* Inserting keys keeps the index, provided that a key which becomes an    *)
(* extra one reaches no further than the primary one.                      *)
LEMMA InsertKeepsIndex ==
    ASSUME NEW p \in Pools, HashIndexOK(p), HashTokensOK(p),
           NEW f \in Assignments,
           \A b \in DOMAIN f : p.block_hash[b] # None => KeyTokens[f[b]] <= p.hash_tokens[b]
    PROVE  LET q == insert_block_hashes(p, f)
           IN  /\ q \in Pools
               /\ q.ref_cnt = p.ref_cnt /\ q.free_queue = p.free_queue
               /\ q.announced = p.announced /\ q.reported = p.reported
               /\ HashIndexOK(q) /\ HashTokensOK(q)
               /\ \A k \in Keys :
                     Len(q.hash_to_block[k]) =
                        IF \E b \in DOMAIN f : f[b] = k /\ IsNewEntry(p, b, k)
                        THEN Len(p.hash_to_block[k]) + 1 ELSE Len(p.hash_to_block[k])
<1> DEFINE q == insert_block_hashes(p, f)
           new == {b \in DOMAIN f : IsNewEntry(p, b, f[b])}
           prim == {b \in new : p.block_hash[b] = None}
           holder(k) == CHOOSE b \in new : f[b] = k
<1>1. DOMAIN f \in SUBSET (Blocks \ {NullBlock}) /\ \A b \in DOMAIN f : f[b] \in Keys
  BY DEF Assignments
<1>2. \A a, b \in DOMAIN f : f[a] = f[b] => a = b
  BY DEF Assignments
<1>3. /\ q.ref_cnt = p.ref_cnt /\ q.free_queue = p.free_queue
      /\ q.announced = p.announced /\ q.reported = p.reported
      /\ q.block_hash = [b \in Blocks |-> IF b \in prim THEN f[b] ELSE p.block_hash[b]]
      /\ q.hash_tokens = [b \in Blocks |-> IF b \in prim THEN KeyTokens[f[b]] ELSE p.hash_tokens[b]]
      /\ q.extra_hashes = [b \in Blocks |-> IF b \in new \ prim THEN p.extra_hashes[b] \cup {f[b]}
                                            ELSE p.extra_hashes[b]]
      /\ q.hash_to_block = [k \in Keys |-> IF \E b \in new : f[b] = k
                                           THEN Append(p.hash_to_block[k], holder(k))
                                           ELSE p.hash_to_block[k]]
  BY DEF insert_block_hashes, Pools
<1>4. new \in SUBSET (Blocks \ {NullBlock}) /\ prim \subseteq new
  BY <1>1
<1>5. \A b \in new : f[b] \in Keys /\ p.block_hash[b] # f[b] /\ b \notin Elems(p.hash_to_block[f[b]])
  BY <1>1 DEF IsNewEntry
<1>6. \A b \in new : holder(f[b]) = b
  BY <1>2
<1>7. \A b \in prim : p.block_hash[b] = None
  OBVIOUS
<1>8. \A b \in new : b \notin prim => p.block_hash[b] # None /\ KeyTokens[f[b]] <= p.hash_tokens[b]
  OBVIOUS
<1>9. \A k \in Keys : (\E b \in DOMAIN f : f[b] = k /\ IsNewEntry(p, b, k)) <=> (\E b \in new : f[b] = k)
  OBVIOUS
<1>10. q \in Pools
  <2>1. \A k \in Keys : (\E b \in new : f[b] = k) => holder(k) \in Blocks
    BY <1>4
  <2>2. \A k \in Keys : p.hash_to_block[k] \in Seq(Blocks) BY DEF Pools
  <2>3. q.hash_to_block \in [Keys -> Seq(Blocks)]
    BY <1>3, <2>1, <2>2
  <2>4. q.block_hash \in [Blocks -> Keys \cup {None}] BY SMTT(30), <1>3, <1>4, <1>5 DEF Pools
  <2>5. q.hash_tokens \in [Blocks -> Nat]
    BY SMTT(30), <1>3, <1>4, <1>5, BlockPoolAssumption DEF Pools
  <2>6. q.extra_hashes \in [Blocks -> SUBSET Keys] BY SMTT(30), <1>3, <1>4, <1>5 DEF Pools
  <2>7. \E a1, a2, a3, a4 : q = [p EXCEPT !.block_hash = a1, !.hash_tokens = a2,
                                         !.extra_hashes = a3, !.hash_to_block = a4]
    BY Zenon DEF insert_block_hashes
  <2> HIDE DEF q
  <2>8. QED BY Zenon, <2>3, <2>4, <2>5, <2>6, <2>7 DEF Pools
<1> HIDE DEF q, new, prim, holder
<1>11. None \notin Keys BY BlockPoolAssumption
<1>12. \A b \in Blocks : HashesOf(q, b) = IF b \in new THEN HashesOf(p, b) \cup {f[b]} ELSE HashesOf(p, b)
  <2>1. SUFFICES ASSUME NEW b \in Blocks
                 PROVE  HashesOf(q, b) = IF b \in new THEN HashesOf(p, b) \cup {f[b]} ELSE HashesOf(p, b)
    OBVIOUS
  <2>2. CASE b \in prim
    <3>1. q.block_hash[b] = f[b] /\ q.extra_hashes[b] = p.extra_hashes[b] /\ b \in new
      BY <1>3, <1>4, <2>2
    <3>2. p.block_hash[b] = None BY <1>7, <2>2
    <3>3. QED BY <1>5, <1>11, <3>1, <3>2 DEF HashesOf
  <2>3. CASE b \notin prim
    <3>1. /\ q.block_hash[b] = p.block_hash[b]
          /\ q.extra_hashes[b] = IF b \in new THEN p.extra_hashes[b] \cup {f[b]} ELSE p.extra_hashes[b]
      BY <1>3, <2>3
    <3>2. QED BY <1>5, <3>1 DEF HashesOf
  <2>4. QED BY <2>2, <2>3
<1>13. ASSUME NEW k \in Keys
       PROVE  /\ Distinct(q.hash_to_block[k])
              /\ Elems(q.hash_to_block[k]) = {b \in Blocks : k \in HashesOf(q, b)}
              /\ Len(q.hash_to_block[k]) = IF \E b \in new : f[b] = k
                                           THEN Len(p.hash_to_block[k]) + 1 ELSE Len(p.hash_to_block[k])
  <2>1. /\ p.hash_to_block[k] \in Seq(Blocks) /\ Distinct(p.hash_to_block[k])
        /\ Elems(p.hash_to_block[k]) = {b \in Blocks : k \in HashesOf(p, b)}
    BY DEF Pools, HashIndexOK
  <2>2. CASE \E b \in new : f[b] = k
    <3>1. PICK b \in new : f[b] = k BY <2>2
    <3>2. holder(k) = b BY <1>6, <3>1
    <3>3. q.hash_to_block[k] = Append(p.hash_to_block[k], b) BY <1>3, <2>2, <3>2
    <3>4. b \in Blocks /\ b \notin Elems(p.hash_to_block[k]) BY <1>4, <1>5, <3>1
    <3>5. \A c \in new : f[c] = k => c = b BY <1>6, <3>1
    <3>6. /\ Elems(q.hash_to_block[k]) = Elems(p.hash_to_block[k]) \cup {b}
          /\ Distinct(q.hash_to_block[k])
          /\ Len(q.hash_to_block[k]) = Len(p.hash_to_block[k]) + 1
      BY <2>1, <3>3, <3>4, AppendElems
    <3>7. \A c \in Blocks : k \in HashesOf(q, c) <=> (c = b \/ k \in HashesOf(p, c))
      BY <1>12, <3>1, <3>5
    <3>8. QED BY <2>1, <2>2, <3>4, <3>6, <3>7
  <2>3. CASE ~ \E b \in new : f[b] = k
    <3>1. q.hash_to_block[k] = p.hash_to_block[k] BY <1>3, <2>3
    <3>2. \A c \in Blocks : k \in HashesOf(q, c) <=> k \in HashesOf(p, c) BY <1>12, <2>3
    <3>3. QED BY SMTT(30), <2>1, <2>3, <3>1, <3>2
  <2>4. QED BY <2>2, <2>3
<1>14. ASSUME NEW b \in Blocks
       PROVE  /\ q.block_hash[b] = None => q.extra_hashes[b] = {}
              /\ q.block_hash[b] \notin q.extra_hashes[b]
  BY SMTT(30), <1>3, <1>4, <1>5, <1>7, <1>8, <1>11 DEF HashIndexOK
<1>15. HashesOf(q, NullBlock) = {}
  <2>1. NullBlock \in Blocks /\ NullBlock \notin new
    BY <1>4, BlockPoolAssumption DEF NullBlock, Blocks
  <2>2. QED BY <1>12, <2>1 DEF HashIndexOK
<1>16. HashIndexOK(q)
  BY <1>13, <1>14, <1>15 DEF HashIndexOK
<1>17. HashTokensOK(q)
  <2>1. SUFFICES ASSUME NEW b \in Blocks
                 PROVE  /\ q.block_hash[b] = None => q.hash_tokens[b] = 0
                        /\ q.block_hash[b] # None => q.hash_tokens[b] = KeyTokens[q.block_hash[b]]
                        /\ \A k \in q.extra_hashes[b] : KeyTokens[k] <= q.hash_tokens[b]
    BY DEF HashTokensOK
  <2>2. CASE b \in prim
    <3>1. p.extra_hashes[b] = {} BY <1>7, <2>2 DEF HashIndexOK
    <3>2. QED BY SMTT(30), <1>3, <1>4, <1>5, <1>11, <2>2, <3>1
  <2>3. CASE b \notin prim
    BY <1>3, <1>8, <2>3 DEF HashTokensOK
  <2>4. QED BY <2>2, <2>3
<1>18. QED
  BY SMTT(30), <1>3, <1>9, <1>10, <1>13, <1>16, <1>17 DEF q

(* Inserting keys that are all there already changes nothing. *)
LEMMA InsertNothing ==
    ASSUME NEW p \in Pools, NEW f \in Assignments,
           \A b \in DOMAIN f : ~ IsNewEntry(p, b, f[b])
    PROVE  insert_block_hashes(p, f) = p
<1> DEFINE new == {b \in DOMAIN f : IsNewEntry(p, b, f[b])}
<1>1. new = {} OBVIOUS
<1>2. /\ p.block_hash = [b \in Blocks |-> p.block_hash[b]]
      /\ p.hash_tokens = [b \in Blocks |-> p.hash_tokens[b]]
      /\ p.extra_hashes = [b \in Blocks |-> p.extra_hashes[b]]
      /\ p.hash_to_block = [k \in Keys |-> p.hash_to_block[k]]
  BY DEF Pools
<1>3. insert_block_hashes(p, f) =
        [p EXCEPT !.block_hash = p.block_hash, !.hash_tokens = p.hash_tokens,
                  !.extra_hashes = p.extra_hashes, !.hash_to_block = p.hash_to_block]
  BY Zenon, <1>1, <1>2 DEF insert_block_hashes
<1>4. QED BY Zenon, <1>3 DEF Pools

(* The blocks whose hashes were removed carry no key. *)
LEMMA EvictedCarryNothing ==
    ASSUME NEW p, HashOK(p), NEW B \in SUBSET Blocks, NEW b \in Blocks,
           b \in B \/ p.block_hash[b] = None
    PROVE  LET e == evict_hashes(p, B)
           IN  /\ e.block_hash[b] = None
               /\ \A k \in Keys : IsNewEntry(e, b, k)
<1> DEFINE e == evict_hashes(p, B)
<1>1. HashIndexOK(e)
  BY EvictKeepsIndex DEF HashOK
<1>2. e.block_hash[b] = None
  <2>1. p \in Pools BY DEF HashOK
  <2>2. e.block_hash = [c \in Blocks |-> IF c \in B THEN None ELSE p.block_hash[c]]
    <3> DEFINE r == remove_cached_block_hashes(p, B)
    <3>1. e.block_hash = r.block_hash BY Zenon, <2>1, EvictFields
    <3>2. r.block_hash = [c \in Blocks |-> IF c \in B THEN None ELSE p.block_hash[c]]
      BY Zenon, <2>1, RemoveFields
    <3>3. QED BY <3>1, <3>2
  <2> HIDE DEF e
  <2>3. QED BY <2>2
<1> HIDE DEF e
<1>3. None \notin Keys BY BlockPoolAssumption
<1>4. e.extra_hashes[b] = {} BY <1>1, <1>2 DEF HashIndexOK
<1>5. HashesOf(e, b) = {} BY <1>2, <1>3, <1>4 DEF HashesOf
<1>6. \A k \in Keys : b \notin Elems(e.hash_to_block[k])
  BY <1>1, <1>5 DEF HashIndexOK
<1>7. \A k \in Keys : IsNewEntry(e, b, k)
  BY <1>2, <1>3, <1>6 DEF IsNewEntry
<1>8. QED BY <1>2, <1>7 DEF e

(* Announcing the keys whose lists grew by one restores the balance. *)
LEMMA StoredKeepsIndex ==
    ASSUME NEW p, HashOK(p), NEW q \in Pools, HashIndexOK(q), HashTokensOK(q),
           q.announced = p.announced /\ q.reported = p.reported, NEW K \in SUBSET Keys,
           \A k \in Keys : Len(q.hash_to_block[k]) =
                IF k \in K THEN Len(p.hash_to_block[k]) + 1 ELSE Len(p.hash_to_block[k])
    PROVE  /\ HashOK(emit_stored(q, K))
           /\ emit_stored(q, K).ref_cnt = q.ref_cnt
           /\ emit_stored(q, K).free_queue = q.free_queue
<1> DEFINE e == emit_stored(q, K)
<1>1. /\ e.ref_cnt = q.ref_cnt /\ e.free_queue = q.free_queue
      /\ e.block_hash = q.block_hash /\ e.hash_tokens = q.hash_tokens
      /\ e.extra_hashes = q.extra_hashes /\ e.hash_to_block = q.hash_to_block
      /\ e.announced = [k \in Keys |-> IF k \in K THEN q.announced[k] + 1 ELSE q.announced[k]]
      /\ e.reported = q.reported /\ e \in Pools
  <2>1. \A k \in Keys : (IF k \in K THEN q.announced[k] + 1 ELSE q.announced[k]) \in Int
    BY DEF Pools
  <2>2. e = [q EXCEPT !.announced = [k \in Keys |-> IF k \in K THEN q.announced[k] + 1 ELSE q.announced[k]]]
    BY DEF emit_stored
  <2> HIDE DEF e
  <2>3. e \in Pools BY Zenon, <2>1, <2>2 DEF Pools
  <2>4. QED BY Zenon, <2>2, <2>3 DEF Pools
<1> HIDE DEF e
<1>2. HashIndexOK(e) /\ HashTokensOK(e)
  BY <1>1 DEF HashIndexOK, HashTokensOK, HashesOf
<1>3. EventsOK(e)
  <2>1. SUFFICES ASSUME NEW k \in Keys
                 PROVE  e.announced[k] = Len(e.hash_to_block[k]) + e.reported[k]
    BY DEF EventsOK
  <2>2. p.announced[k] = Len(p.hash_to_block[k]) + p.reported[k] BY DEF HashOK, EventsOK
  <2>3. Len(p.hash_to_block[k]) \in Nat /\ p.reported[k] \in Nat BY DEF HashOK, Pools
  <2>4. e.announced[k] = IF k \in K THEN p.announced[k] + 1 ELSE p.announced[k]
    BY <1>1
  <2>5. e.reported[k] = p.reported[k] /\ e.hash_to_block[k] = q.hash_to_block[k] BY <1>1
  <2>6. Len(q.hash_to_block[k]) =
            IF k \in K THEN Len(p.hash_to_block[k]) + 1 ELSE Len(p.hash_to_block[k])
    OBVIOUS
  <2>7. CASE k \in K BY <2>2, <2>3, <2>4, <2>5, <2>6, <2>7
  <2>8. CASE k \notin K BY <2>2, <2>3, <2>4, <2>5, <2>6, <2>8
  <2>9. QED BY <2>7, <2>8
<1>4. QED BY SMTT(30), <1>1, <1>2, <1>3 DEF HashOK, e

(* A report adds one to the count of each key that it names, and nothing   *)
(* else changes.                                                           *)
LEMMA ReportKeepsIndex ==
    ASSUME NEW p, HashOK(p), NEW K \in SUBSET Keys
    PROVE  LET e == emit_cached_block_events(p, K)
           IN  /\ HashOK(e)
               /\ e.ref_cnt = p.ref_cnt /\ e.free_queue = p.free_queue
               /\ e.block_hash = p.block_hash /\ e.hash_to_block = p.hash_to_block
<1> DEFINE a == [k \in Keys |-> IF k \in K THEN p.announced[k] + 1 ELSE p.announced[k]]
           c == [k \in Keys |-> IF k \in K THEN p.reported[k] + 1 ELSE p.reported[k]]
           e == [p EXCEPT !.announced = a, !.reported = c]
<1>1. p \in Pools /\ HashIndexOK(p) /\ HashTokensOK(p) /\ EventsOK(p) BY DEF HashOK
<1>2. p.announced \in [Keys -> Int] /\ p.reported \in [Keys -> Nat] BY <1>1 DEF Pools
<1>3. a \in [Keys -> Int] /\ c \in [Keys -> Nat] BY <1>2
<1>4. emit_cached_block_events(p, K) = e
  BY <1>1 DEF emit_cached_block_events, emit_stored, Pools
<1> HIDE DEF a, c
<1>5. e \in Pools BY Zenon, <1>1, <1>3 DEF Pools
<1>6. /\ e.ref_cnt = p.ref_cnt /\ e.free_queue = p.free_queue
      /\ e.block_hash = p.block_hash /\ e.hash_tokens = p.hash_tokens
      /\ e.extra_hashes = p.extra_hashes /\ e.hash_to_block = p.hash_to_block
      /\ e.announced = a /\ e.reported = c
  BY <1>1 DEF Pools
<1> HIDE DEF e
<1>7. HashIndexOK(e) /\ HashTokensOK(e)
  BY <1>1, <1>6 DEF HashIndexOK, HashTokensOK, HashesOf
<1>8. EventsOK(e)
  <2>1. SUFFICES ASSUME NEW k \in Keys
                 PROVE  e.announced[k] = Len(e.hash_to_block[k]) + e.reported[k]
    BY DEF EventsOK
  <2>2. p.announced[k] = Len(p.hash_to_block[k]) + p.reported[k] BY <1>1 DEF EventsOK
  <2>3. Len(p.hash_to_block[k]) \in Nat /\ p.reported[k] \in Nat BY <1>1 DEF Pools
  <2>4. /\ e.announced[k] = IF k \in K THEN p.announced[k] + 1 ELSE p.announced[k]
        /\ e.reported[k] = IF k \in K THEN p.reported[k] + 1 ELSE p.reported[k]
    BY <1>6 DEF a, c
  <2>5. QED BY <1>6, <2>2, <2>3, <2>4
<1>9. QED BY Zenon, <1>4, <1>5, <1>6, <1>7, <1>8 DEF HashOK

(* Caching full blocks, promotion included, keeps the hash side in order. *)
LEMMA CacheFullKeepsIndex ==
    ASSUME NEW p, HashOK(p), NEW f \in Assignments
    PROVE  /\ HashOK(cache_full_blocks(p, f))
           /\ cache_full_blocks(p, f).ref_cnt = p.ref_cnt
           /\ cache_full_blocks(p, f).free_queue = p.free_queue
<1> DEFINE hashed == {b \in DOMAIN f : p.block_hash[b] # None}
           e == evict_hashes(p, hashed)
           q == insert_block_hashes(e, f)
           K == {f[b] : b \in DOMAIN f}
<1>1. /\ DOMAIN f \in SUBSET Blocks /\ hashed \in SUBSET Blocks
      /\ \A b \in DOMAIN f : f[b] \in Keys
      /\ K \in SUBSET Keys
  BY DEF Assignments
<1>2. \A b \in DOMAIN f : b \in hashed \/ p.block_hash[b] = None
  OBVIOUS
<1>3. cache_full_blocks(p, f) = emit_stored(q, K)
  BY DEF cache_full_blocks
<1> HIDE DEF hashed
<1>4. HashOK(e) /\ e.ref_cnt = p.ref_cnt /\ e.free_queue = p.free_queue
  BY Zenon, <1>1, EvictKeepsIndex, EvictFields DEF HashOK
<1>5. \A b \in DOMAIN f : e.block_hash[b] = None /\ \A k \in Keys : IsNewEntry(e, b, k)
  BY <1>1, <1>2, EvictedCarryNothing
<1> HIDE DEF e
<1>6. /\ q \in Pools /\ HashIndexOK(q) /\ HashTokensOK(q)
      /\ q.ref_cnt = e.ref_cnt /\ q.free_queue = e.free_queue
      /\ q.announced = e.announced /\ q.reported = e.reported
      /\ \A k \in Keys : Len(q.hash_to_block[k]) =
                        IF \E b \in DOMAIN f : f[b] = k /\ IsNewEntry(e, b, k)
                        THEN Len(e.hash_to_block[k]) + 1 ELSE Len(e.hash_to_block[k])
  <2>1. \A b \in DOMAIN f : e.block_hash[b] # None => KeyTokens[f[b]] <= e.hash_tokens[b]
    BY <1>5
  <2>2. e \in Pools /\ HashIndexOK(e) /\ HashTokensOK(e) BY <1>4 DEF HashOK
  <2>3. QED BY <2>1, <2>2, InsertKeepsIndex
<1> HIDE DEF q
<1>7. \A k \in Keys : (\E b \in DOMAIN f : f[b] = k /\ IsNewEntry(e, b, k)) <=> k \in K
  BY <1>5
<1> HIDE DEF K
<1>8. \A k \in Keys : Len(q.hash_to_block[k]) =
            IF k \in K THEN Len(e.hash_to_block[k]) + 1 ELSE Len(e.hash_to_block[k])
  BY <1>6, <1>7
<1>9. /\ HashOK(emit_stored(q, K))
      /\ emit_stored(q, K).ref_cnt = q.ref_cnt
      /\ emit_stored(q, K).free_queue = q.free_queue
  BY SMTT(30), <1>1, <1>4, <1>6, <1>8, StoredKeepsIndex
<1>10. QED BY <1>3, <1>4, <1>6, <1>9

(* So does caching a partial block. *)
LEMMA CachePartialKeepsIndex ==
    ASSUME NEW p, HashOK(p), NEW b \in Blocks \ {NullBlock}, NEW k \in Keys,
           NEW replace \in BOOLEAN
    PROVE  /\ HashOK(cache_partial_block(p, b, k, replace))
           /\ cache_partial_block(p, b, k, replace).ref_cnt = p.ref_cnt
           /\ cache_partial_block(p, b, k, replace).free_queue = p.free_queue
<1> DEFINE f == [x \in {b} |-> k]
           already == ~ IsNewEntry(p, b, k)
           longer == ~ already /\ p.block_hash[b] # None /\ p.hash_tokens[b] < KeyTokens[k]
           e == evict_hashes(p, {b})
           res == cache_partial_block(p, b, k, replace)
<1>1. f \in Assignments /\ DOMAIN f = {b} /\ f[b] = k
  <2>1. f \in [{b} -> Keys] /\ {b} \in SUBSET (Blocks \ {NullBlock}) OBVIOUS
  <2>2. DOMAIN f = {b} /\ f[b] = k OBVIOUS
  <2> HIDE DEF f
  <2>3. QED BY <2>1, <2>2 DEF Assignments
<1> HIDE DEF f
<1>2. CASE replace \/ longer
  <2>1. res = emit_stored(insert_block_hashes(e, f), {k})
    BY SMTT(30), <1>2 DEF cache_partial_block, f
  <2>2. HashOK(e) /\ e.ref_cnt = p.ref_cnt /\ e.free_queue = p.free_queue
    BY Zenon, EvictKeepsIndex, EvictFields DEF HashOK
  <2>3. e.block_hash[b] = None /\ IsNewEntry(e, b, k)
    BY EvictedCarryNothing
  <2> HIDE DEF e
  <2> DEFINE q == insert_block_hashes(e, f)
  <2>4. /\ q \in Pools /\ HashIndexOK(q) /\ HashTokensOK(q)
        /\ q.ref_cnt = e.ref_cnt /\ q.free_queue = e.free_queue
        /\ q.announced = e.announced /\ q.reported = e.reported
        /\ \A l \in Keys : Len(q.hash_to_block[l]) =
                          IF \E c \in DOMAIN f : f[c] = l /\ IsNewEntry(e, c, l)
                          THEN Len(e.hash_to_block[l]) + 1 ELSE Len(e.hash_to_block[l])
    <3>1. \A c \in DOMAIN f : e.block_hash[c] # None => KeyTokens[f[c]] <= e.hash_tokens[c]
      BY <1>1, <2>3
    <3>2. e \in Pools /\ HashIndexOK(e) /\ HashTokensOK(e) BY <2>2 DEF HashOK
    <3>3. QED BY <1>1, <3>1, <3>2, InsertKeepsIndex
  <2> HIDE DEF q
  <2>5. \A l \in Keys : Len(q.hash_to_block[l]) =
            IF l \in {k} THEN Len(e.hash_to_block[l]) + 1 ELSE Len(e.hash_to_block[l])
    BY SMTT(30), <1>1, <2>3, <2>4
  <2>6. /\ HashOK(emit_stored(q, {k}))
        /\ emit_stored(q, {k}).ref_cnt = q.ref_cnt
        /\ emit_stored(q, {k}).free_queue = q.free_queue
    BY SMTT(30), <2>2, <2>4, <2>5, StoredKeepsIndex
  <2>7. QED BY SMTT(30), <2>1, <2>2, <2>4, <2>6 DEF q
<1>3. CASE ~ replace /\ ~ longer
  <2> DEFINE q == insert_block_hashes(p, f)
  <2>1. res = IF already THEN q ELSE emit_stored(q, {k})
    BY <1>3 DEF cache_partial_block, f
  <2>2. CASE already
    <3>1. \A c \in DOMAIN f : ~ IsNewEntry(p, c, f[c]) BY <1>1, <2>2
    <3>2. q = p BY <3>1, <1>1, InsertNothing DEF HashOK
    <3>3. QED BY <2>1, <2>2, <3>2
  <2>3. CASE ~ already
    <3>1. p.block_hash[b] # None => KeyTokens[k] <= p.hash_tokens[b]
      <4>1. KeyTokens[k] \in Nat /\ p.hash_tokens[b] \in Nat
        BY BlockPoolAssumption DEF HashOK, Pools
      <4>2. QED BY <1>3, <2>3, <4>1
    <3>2. /\ q \in Pools /\ HashIndexOK(q) /\ HashTokensOK(q)
          /\ q.ref_cnt = p.ref_cnt /\ q.free_queue = p.free_queue
          /\ q.announced = p.announced /\ q.reported = p.reported
          /\ \A l \in Keys : Len(q.hash_to_block[l]) =
                          IF \E c \in DOMAIN f : f[c] = l /\ IsNewEntry(p, c, l)
                          THEN Len(p.hash_to_block[l]) + 1 ELSE Len(p.hash_to_block[l])
      BY SMTT(30), <1>1, <3>1, InsertKeepsIndex DEF HashOK
    <3> HIDE DEF q
    <3>3. \A l \in Keys : Len(q.hash_to_block[l]) =
            IF l \in {k} THEN Len(p.hash_to_block[l]) + 1 ELSE Len(p.hash_to_block[l])
      BY SMTT(30), <1>1, <2>3, <3>2
    <3>4. /\ HashOK(emit_stored(q, {k}))
          /\ emit_stored(q, {k}).ref_cnt = q.ref_cnt
          /\ emit_stored(q, {k}).free_queue = q.free_queue
      BY <3>2, <3>3, StoredKeepsIndex
    <3>5. QED BY SMTT(30), <2>1, <2>3, <3>2, <3>4
  <2>4. QED BY <2>2, <2>3
<1>4. QED
  BY <1>2, <1>3

(* Moving the keys of src to a block that carries none. *)
LEMMA MoveKeepsIndex ==
    ASSUME NEW p, HashOK(p), NEW src \in Blocks, NEW dst \in Blocks \ {NullBlock}, src # dst,
           p.block_hash[dst] = None
    PROVE  LET m == move_block_hashes(p, src, dst)
           IN  HashOK(m) /\ m.ref_cnt = p.ref_cnt /\ m.free_queue = p.free_queue
<1> DEFINE q == remove_cached_block_hashes(p, {src})
           moved == {k \in HashesOf(p, src) : src \in Elems(p.hash_to_block[k])}
           m == move_block_hashes(p, src, dst)
<1>1. p \in Pools /\ HashIndexOK(p) /\ HashTokensOK(p) /\ EventsOK(p) BY DEF HashOK
<1>2. None \notin Keys /\ {src} \in SUBSET Blocks BY BlockPoolAssumption
<1>3. HashesOf(p, src) \subseteq Keys BY <1>1 DEF HashesOf, Pools
<1>4. moved = HashesOf(p, src) /\ moved \subseteq Keys BY SMTT(30), <1>1, <1>3 DEF HashIndexOK
<1>5. /\ q \in Pools
      /\ q.ref_cnt = p.ref_cnt /\ q.free_queue = p.free_queue
      /\ q.announced = p.announced /\ q.reported = p.reported
      /\ q.hash_to_block = [k \in Keys |-> Drop(p.hash_to_block[k], Popped(p, {src}, k))]
  BY ZenonT(60), <1>1, <1>2, RemoveFields
<1>6. HashIndexOK(q) /\ HashTokensOK(q) BY <1>1, RemoveKeepsIndex
<1>7. \A b \in Blocks : HashesOf(q, b) = IF b = src THEN {} ELSE HashesOf(p, b)
  BY <1>1, RemoveHashesOf
<1>8. HashesOf(p, dst) = {} /\ p.extra_hashes[dst] = {}
  BY <1>1, <1>2 DEF HashIndexOK, HashesOf
<1>9. \A k \in Keys : Popped(p, {src}, k) = IF k \in moved THEN {src} ELSE {}
  <2>1. SUFFICES ASSUME NEW k \in Keys PROVE Popped(p, {src}, k) = IF k \in moved THEN {src} ELSE {}
    OBVIOUS
  <2>2. Popped(p, {src}, k) = {b \in {src} : k \in HashesOf(p, b)} BY <1>1, PoppedIsCarried
  <2>3. QED BY <1>4, <2>2
<1>10. \A k \in Keys : Len(q.hash_to_block[k]) =
            IF k \in moved THEN Len(p.hash_to_block[k]) - 1 ELSE Len(p.hash_to_block[k])
  <2>1. SUFFICES ASSUME NEW k \in Keys
                 PROVE  Len(q.hash_to_block[k]) = IF k \in moved THEN Len(p.hash_to_block[k]) - 1
                                                                 ELSE Len(p.hash_to_block[k])
    BY Zenon
  <2>2. p.hash_to_block[k] \in Seq(Blocks) /\ Distinct(p.hash_to_block[k])
    BY <1>1 DEF Pools, HashIndexOK
  <2>3. Popped(p, {src}, k) \in SUBSET Elems(p.hash_to_block[k]) BY DEF Popped
  <2>4. Len(Drop(p.hash_to_block[k], Popped(p, {src}, k)))
            = Len(p.hash_to_block[k]) - Cardinality(Popped(p, {src}, k))
    BY Zenon, <2>2, <2>3, DropLength
  <2>5. q.hash_to_block[k] = Drop(p.hash_to_block[k], Popped(p, {src}, k)) BY <1>5
  <2>6. Cardinality(Popped(p, {src}, k)) = IF k \in moved THEN 1 ELSE 0
    BY Zenon, <1>9, FS_Singleton, FS_EmptySet
  <2>7. Len(p.hash_to_block[k]) \in Nat BY <2>2
  <2>8. QED BY <2>4, <2>5, <2>6, <2>7
<1>11. CASE moved = {}
  <2>1. m = q BY <1>11 DEF move_block_hashes
  <2>2. EventsOK(q)
    BY Zenon, <1>1, <1>5, <1>10, <1>11 DEF EventsOK
  <2>3. QED BY <1>5, <1>6, <2>1, <2>2 DEF HashOK
<1>12. CASE moved # {}
  <2>1. p.block_hash[src] \in Keys /\ p.block_hash[src] # None
    BY SMTT(30), <1>1, <1>2, <1>4, <1>12 DEF HashIndexOK, HashesOf, Pools
  <2>2. /\ m.ref_cnt = q.ref_cnt /\ m.free_queue = q.free_queue
        /\ m.announced = q.announced /\ m.reported = q.reported
        /\ m.block_hash = [q.block_hash EXCEPT ![dst] = p.block_hash[src]]
        /\ m.hash_tokens = [q.hash_tokens EXCEPT ![dst] = p.hash_tokens[src]]
        /\ m.extra_hashes = [q.extra_hashes EXCEPT ![dst] = moved \ {p.block_hash[src]}]
        /\ m.hash_to_block = [k \in Keys |-> IF k \in moved THEN Append(q.hash_to_block[k], dst)
                                                             ELSE q.hash_to_block[k]]
        /\ m \in Pools
    <3>1. m = [q EXCEPT !.block_hash[dst]   = p.block_hash[src],
                        !.hash_tokens[dst]  = p.hash_tokens[src],
                        !.extra_hashes[dst] = moved \ {p.block_hash[src]},
                        !.hash_to_block     = [k \in Keys |-> IF k \in moved
                                                   THEN Append(q.hash_to_block[k], dst)
                                                   ELSE q.hash_to_block[k]]]
      BY <1>12 DEF move_block_hashes
    <3>2. p.hash_tokens[src] \in Nat BY <1>1 DEF Pools
    <3>3. [k \in Keys |-> IF k \in moved THEN Append(q.hash_to_block[k], dst)
                          ELSE q.hash_to_block[k]] \in [Keys -> Seq(Blocks)]
      <4>1. q.hash_to_block \in [Keys -> Seq(Blocks)] BY Zenon, <1>5 DEF Pools
      <4> HIDE DEF q, moved
      <4>2. \A k \in Keys : q.hash_to_block[k] \in Seq(Blocks) BY <4>1
      <4>3. \A k \in Keys : Append(q.hash_to_block[k], dst) \in Seq(Blocks) BY <4>2, AppendElems
      <4>4. QED BY <4>2, <4>3
    <3> HIDE DEF m, q, moved
    <3>4. m \in Pools BY ZenonT(60), <1>4, <1>5, <2>1, <3>1, <3>2, <3>3 DEF Pools
    <3>5. QED BY Zenon, <1>5, <3>1, <3>4 DEF Pools
  <2>3. q.block_hash[dst] = None /\ q.extra_hashes[dst] = {} /\ \A k \in Keys : dst \notin Elems(q.hash_to_block[k])
    <3>1. /\ q.block_hash = [b \in Blocks |-> IF b \in {src} THEN None ELSE p.block_hash[b]]
          /\ q.extra_hashes = [b \in Blocks |-> IF b \in {src} THEN {} ELSE p.extra_hashes[b]]
      BY ZenonT(60), <1>1, <1>2, RemoveFields
    <3> HIDE DEF q
    <3>2. q.block_hash[dst] = None /\ q.extra_hashes[dst] = {} BY <1>8, <3>1
    <3>3. HashesOf(q, dst) = {} BY <1>7, <1>8
    <3>4. QED BY SMTT(30), <1>6, <3>2, <3>3 DEF HashIndexOK
  <2> HIDE DEF m, q, moved
  <2>4. \A b \in Blocks : HashesOf(m, b) = IF b = dst THEN moved ELSE HashesOf(q, b)
    <3>1. SUFFICES ASSUME NEW b \in Blocks PROVE HashesOf(m, b) = IF b = dst THEN moved ELSE HashesOf(q, b)
      OBVIOUS
    <3>2. q.block_hash \in [Blocks -> Keys \cup {None}] /\ q.extra_hashes \in [Blocks -> SUBSET Keys]
      BY <1>5 DEF Pools
    <3>3. CASE b = dst
      <4>1. m.block_hash[b] = p.block_hash[src] /\ m.extra_hashes[b] = moved \ {p.block_hash[src]}
        BY <2>2, <3>2, <3>3
      <4>2. p.block_hash[src] \in moved BY <1>4, <2>1 DEF HashesOf
      <4>3. QED BY SMTT(30), <1>4, <2>1, <3>3, <4>1, <4>2 DEF HashesOf
    <3>4. CASE b # dst
      <4>1. m.block_hash[b] = q.block_hash[b] /\ m.extra_hashes[b] = q.extra_hashes[b]
        BY SMTT(30), <2>2, <3>2, <3>4
      <4>2. QED BY SMTT(30), <3>4, <4>1 DEF HashesOf
    <3>5. QED BY <3>3, <3>4
  <2>5. ASSUME NEW k \in Keys
        PROVE  /\ Distinct(m.hash_to_block[k])
               /\ Elems(m.hash_to_block[k]) = {b \in Blocks : k \in HashesOf(m, b)}
               /\ m.announced[k] = Len(m.hash_to_block[k]) + m.reported[k]
    <3>1. /\ q.hash_to_block[k] \in Seq(Blocks) /\ Distinct(q.hash_to_block[k])
          /\ Elems(q.hash_to_block[k]) = {b \in Blocks : k \in HashesOf(q, b)}
      BY Zenon, <1>5, <1>6 DEF Pools, HashIndexOK
    <3>2. dst \notin Elems(q.hash_to_block[k]) /\ k \notin HashesOf(q, dst)
      BY <2>3, <3>1
    <3>3. m.announced[k] = Len(p.hash_to_block[k]) + m.reported[k]
      BY <1>1, <1>5, <2>2 DEF EventsOK
    <3>4. Len(p.hash_to_block[k]) \in Nat BY <1>1 DEF Pools
    <3>5. CASE k \in moved
      <4>1. m.hash_to_block[k] = Append(q.hash_to_block[k], dst) BY SMTT(30), <2>2, <3>5
      <4>2. /\ Elems(m.hash_to_block[k]) = Elems(q.hash_to_block[k]) \cup {dst}
            /\ Distinct(m.hash_to_block[k])
            /\ Len(m.hash_to_block[k]) = Len(q.hash_to_block[k]) + 1
        BY SMTT(30), <3>1, <3>2, <4>1, AppendElems
      <4>3. \A b \in Blocks : k \in HashesOf(m, b) <=> (b = dst \/ k \in HashesOf(q, b))
        BY <2>4, <3>5
      <4>4. Len(q.hash_to_block[k]) = Len(p.hash_to_block[k]) - 1 BY SMTT(30), <1>10, <3>5
      <4>5. QED BY SMTT(30), <3>1, <3>3, <3>4, <4>2, <4>3, <4>4
    <3>6. CASE k \notin moved
      <4>1. m.hash_to_block[k] = q.hash_to_block[k] BY <2>2, <3>6
      <4>2. \A b \in Blocks : k \in HashesOf(m, b) <=> k \in HashesOf(q, b)
        BY SMTT(30), <2>4, <3>2, <3>6
      <4>3. QED BY SMTT(30), <1>10, <3>1, <3>3, <3>6, <4>1, <4>2
    <3>7. QED BY SMTT(30), <3>5, <3>6
  <2>6. ASSUME NEW b \in Blocks
        PROVE  /\ m.block_hash[b] = None => m.extra_hashes[b] = {}
               /\ m.block_hash[b] \notin m.extra_hashes[b]
               /\ m.block_hash[b] = None => m.hash_tokens[b] = 0
               /\ m.block_hash[b] # None => m.hash_tokens[b] = KeyTokens[m.block_hash[b]]
               /\ \A k \in m.extra_hashes[b] : KeyTokens[k] <= m.hash_tokens[b]
    <3>1. /\ q.block_hash \in [Blocks -> Keys \cup {None}] /\ q.extra_hashes \in [Blocks -> SUBSET Keys]
          /\ q.hash_tokens \in [Blocks -> Nat]
      BY SMTT(30), <1>5 DEF Pools
    <3>2. CASE b = dst
      <4>1. /\ m.block_hash[b] = p.block_hash[src] /\ m.extra_hashes[b] = moved \ {p.block_hash[src]}
            /\ m.hash_tokens[b] = p.hash_tokens[src]
        BY SMTT(30), <2>2, <3>1, <3>2
      <4>2. moved \ {p.block_hash[src]} \subseteq p.extra_hashes[src] BY SMTT(30), <1>4 DEF HashesOf
      <4>3. QED BY SMTT(30), <1>1, <2>1, <4>1, <4>2 DEF HashTokensOK
    <3>3. CASE b # dst
      <4>1. /\ m.block_hash[b] = q.block_hash[b] /\ m.extra_hashes[b] = q.extra_hashes[b]
            /\ m.hash_tokens[b] = q.hash_tokens[b]
        BY SMTT(30), <2>2, <3>1, <3>3
      <4>2. QED BY SMTT(30), <1>6, <4>1 DEF HashIndexOK, HashTokensOK
    <3>4. QED BY SMTT(30), <3>2, <3>3
  <2>7. HashesOf(m, NullBlock) = {}
    <3>1. NullBlock \in Blocks BY SMTT(30), BlockPoolAssumption DEF NullBlock, Blocks
    <3>2. QED BY <1>6, <2>4, <3>1 DEF HashIndexOK
  <2>8. HashIndexOK(m) /\ HashTokensOK(m) /\ EventsOK(m)
    BY SMTT(30), <2>5, <2>6, <2>7 DEF HashIndexOK, HashTokensOK, EventsOK
  <2>9. QED BY <1>5, <2>2, <2>8 DEF HashOK, m
<1>13. QED
  BY <1>11, <1>12

(* A pool that carries no hash. *)
LEMMA NothingCached ==
    ASSUME NEW q,
           q.block_hash = [b \in Blocks |-> None], q.hash_tokens = [b \in Blocks |-> 0],
           q.extra_hashes = [b \in Blocks |-> {}], q.hash_to_block = [k \in Keys |-> <<>>],
           q.announced = [k \in Keys |-> 0], q.reported = [k \in Keys |-> 0]
    PROVE  HashIndexOK(q) /\ HashTokensOK(q) /\ EventsOK(q)
<1>1. None \notin Keys /\ NullBlock \in Blocks BY BlockPoolAssumption DEF Blocks, NullBlock
<1>2. \A b \in Blocks : HashesOf(q, b) = {} BY <1>1 DEF HashesOf
<1>3. Elems(<<>>) = {} /\ Distinct(<<>>) /\ Len(<<>>) = 0 BY DEF Elems, Distinct
<1>4. HashIndexOK(q) BY SMTT(30), <1>1, <1>2, <1>3 DEF HashIndexOK
<1>5. HashTokensOK(q) BY DEF HashTokensOK
<1>6. EventsOK(q) BY SMTT(30), <1>3 DEF EventsOK
<1>7. QED BY <1>4, <1>5, <1>6

(* Forgetting everything, and the pool that has cached nothing yet. *)
LEMMA ResetKeepsIndex ==
    ASSUME NEW p \in Pools
    PROVE  LET q == reset_prefix_cache(p)
           IN  HashOK(q) /\ q.ref_cnt = p.ref_cnt /\ q.free_queue = p.free_queue
<1> DEFINE q == reset_prefix_cache(p)
<1>1. /\ q.ref_cnt = p.ref_cnt /\ q.free_queue = p.free_queue
      /\ q.block_hash = [b \in Blocks |-> None] /\ q.hash_tokens = [b \in Blocks |-> 0]
      /\ q.extra_hashes = [b \in Blocks |-> {}] /\ q.hash_to_block = [k \in Keys |-> <<>>]
      /\ q.announced = [k \in Keys |-> 0] /\ q.reported = [k \in Keys |-> 0]
  BY DEF reset_prefix_cache, Pools
<1>2. q \in Pools
  <2>1. [k \in Keys |-> <<>>] \in [Keys -> Seq(Blocks)] OBVIOUS
  <2>2. [b \in Blocks |-> None] \in [Blocks -> Keys \cup {None}] OBVIOUS
  <2>3. [b \in Blocks |-> 0] \in [Blocks -> Nat] /\ [b \in Blocks |-> {}] \in [Blocks -> SUBSET Keys]
        /\ [k \in Keys |-> 0] \in [Keys -> Nat]
    OBVIOUS
  <2> DEFINE a == [b \in Blocks |-> None]
             c == [b \in Blocks |-> 0]
             d == [b \in Blocks |-> {}]
             g == [k \in Keys |-> <<>>]
             h == [k \in Keys |-> 0]
  <2>4. /\ a \in [Blocks -> Keys \cup {None}] /\ c \in [Blocks -> Nat] /\ d \in [Blocks -> SUBSET Keys]
        /\ g \in [Keys -> Seq(Blocks)] /\ h \in [Keys -> Nat] /\ h \in [Keys -> Int]
    BY <2>1, <2>2, <2>3
  <2>5. q = [p EXCEPT !.block_hash = a, !.hash_tokens = c, !.extra_hashes = d,
                      !.hash_to_block = g, !.announced = h, !.reported = h]
    BY DEF reset_prefix_cache
  <2> HIDE DEF q, a, c, d, g, h
  <2>6. QED BY Zenon, <2>4, <2>5 DEF Pools
<1> HIDE DEF q
<1>3. HashIndexOK(q) /\ HashTokensOK(q) /\ EventsOK(q)
  BY Zenon, <1>1, NothingCached
<1>4. QED BY <1>1, <1>2, <1>3 DEF HashOK, q

(* Pools that differ only in references and the free queue. *)
LEMMA SameHashes ==
    ASSUME NEW p, HashOK(p), NEW q \in Pools,
           q.block_hash = p.block_hash, q.hash_tokens = p.hash_tokens,
           q.extra_hashes = p.extra_hashes, q.hash_to_block = p.hash_to_block,
           q.announced = p.announced /\ q.reported = p.reported
    PROVE  HashOK(q)
<1>1. \A b \in Blocks : HashesOf(q, b) = HashesOf(p, b) BY DEF HashesOf
<1>2. NullBlock \in Blocks BY BlockPoolAssumption DEF Blocks, NullBlock
<1>3. HashIndexOK(q) BY <1>1, <1>2 DEF HashOK, HashIndexOK
<1>4. HashTokensOK(q) /\ EventsOK(q) BY DEF HashOK, HashTokensOK, EventsOK
<1>5. QED BY <1>3, <1>4 DEF HashOK
=============================================================================
