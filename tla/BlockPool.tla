----------------------------- MODULE BlockPool ------------------------------
(***************************************************************************)
(* The pool of GPU KV-cache blocks (vllm/v1/core/block_pool.py): reference *)
(* counts, the free queue that doubles as eviction order, the prefix-cache *)
(* index from block hashes to blocks and back, and the cache events that   *)
(* an external router follows.                                             *)
(*                                                                         *)
(* Each method is an operator from pool to pool; a caller that makes       *)
(* several calls in one handler composes them.  BlockPoolUse is the state  *)
(* machine of a pool and the holders of its blocks.                        *)
(*                                                                         *)
(* A key stands for a block hash with its group id; KeyTokens gives the    *)
(* length of the prefix that it hashes.  enable_caching and                *)
(* enable_kv_cache_events are on.  The ref_cnt of the null block is not    *)
(* maintained by the code and not modelled: no branch reads it without     *)
(* testing is_null.                                                        *)
(***************************************************************************)
EXTENDS Subsequence

CONSTANTS NumGpuBlocks,   \* num_gpu_blocks, the null block included
          Keys,           \* BlockHashWithGroupId values
          None,           \* "no hash"
          KeyTokens       \* prefix length that each key hashes

ASSUME BlockPoolAssumption ==
    /\ NumGpuBlocks \in Nat \ {0}
    /\ None \notin Keys
    /\ KeyTokens \in [Keys -> Nat \ {0}]

Blocks    == 0..(NumGpuBlocks - 1)
NullBlock == 0

Pools == [ref_cnt       : [Blocks -> Int],
          free_queue    : Seq(Blocks),
          block_hash    : [Blocks -> Keys \cup {None}],
          hash_tokens   : [Blocks -> Nat],             \* 0 is None
          extra_hashes  : [Blocks -> SUBSET Keys],     \* cached_block_hashes_by_block
          hash_to_block : [Keys -> Seq(Blocks)],       \* in insertion order
          announced     : [Keys -> Int],               \* stored minus removed events
          reported      : [Keys -> Nat]]               \* stored events for reused blocks

(* BlockPool(): block 0 is popped to be the null block. *)
InitPool ==
    [ref_cnt       |-> [b \in Blocks |-> 0],
     free_queue    |-> [i \in 1..(NumGpuBlocks - 1) |-> i],
     block_hash    |-> [b \in Blocks |-> None],
     hash_tokens   |-> [b \in Blocks |-> 0],
     extra_hashes  |-> [b \in Blocks |-> {}],
     hash_to_block |-> [k \in Keys |-> <<>>],
     announced     |-> [k \in Keys |-> 0],
     reported      |-> [k \in Keys |-> 0]]

----------------------------------------------------------------------------
(* The hash index.                                                         *)

(* Every key under which the pool believes block b can be found. *)
HashesOf(p, b) == {k \in Keys : k = p.block_hash[b]} \cup p.extra_hashes[b]

(* The blocks of B that the index gives up when key k is popped for them. *)
Popped(p, B, k) == {b \in B : k \in HashesOf(p, b) /\ b \in Elems(p.hash_to_block[k])}

(* Mutant: the extra entries of the blocks stay in the index. *)
remove_primary_hashes(p, B) ==
    [p EXCEPT !.block_hash    = [b \in Blocks |-> IF b \in B THEN None ELSE @[b]],
              !.hash_tokens   = [b \in Blocks |-> IF b \in B THEN 0 ELSE @[b]],
              !.extra_hashes  = [b \in Blocks |-> IF b \in B THEN {} ELSE @[b]],
              !.hash_to_block = [k \in Keys |-> Drop(@[k], {b \in B : p.block_hash[b] = k})]]

(* Forget every hash of the blocks of B. *)
remove_cached_block_hashes(p, B) ==
    [p EXCEPT !.block_hash    = [b \in Blocks |-> IF b \in B THEN None ELSE @[b]],
              !.hash_tokens   = [b \in Blocks |-> IF b \in B THEN 0 ELSE @[b]],
              !.extra_hashes  = [b \in Blocks |-> IF b \in B THEN {} ELSE @[b]],
              !.hash_to_block = [k \in Keys |-> Drop(@[k], Popped(p, B, k))]]

(* The same with one BlockRemoved event for each entry that was popped. *)
evict_hashes(p, B) ==
    [remove_cached_block_hashes(p, B) EXCEPT
        !.announced = [k \in Keys |-> @[k] - Cardinality(Popped(p, B, k))]]

(* Whether _insert_block_hash gets past its two early returns. *)
IsNewEntry(p, b, k) == p.block_hash[b] # k /\ b \notin Elems(p.hash_to_block[k])

(* Insert key f[b] for every block b of DOMAIN f; f maps distinct blocks   *)
(* to distinct keys, so the order of the insertions does not matter.       *)
insert_block_hashes(p, f) ==
    LET new == {b \in DOMAIN f : IsNewEntry(p, b, f[b])}
        prim == {b \in new : p.block_hash[b] = None}
    IN  [p EXCEPT
          !.block_hash    = [b \in Blocks |-> IF b \in prim THEN f[b] ELSE @[b]],
          !.hash_tokens   = [b \in Blocks |-> IF b \in prim THEN KeyTokens[f[b]] ELSE @[b]],
          !.extra_hashes  = [b \in Blocks |-> IF b \in new \ prim THEN @[b] \cup {f[b]} ELSE @[b]],
          !.hash_to_block = [k \in Keys |->
                                IF \E b \in new : f[b] = k
                                THEN Append(@[k], CHOOSE b \in new : f[b] = k)
                                ELSE @[k]]]

(* One BlockStored event that lists the keys of K. *)
emit_stored(p, K) ==
    [p EXCEPT !.announced = [k \in Keys |-> IF k \in K THEN @[k] + 1 ELSE @[k]]]

(* One BlockStored event for blocks that a request reuses.  It cannot be   *)
(* told from that of cache_full_blocks; reported keeps count of it.        *)
emit_cached_block_events(p, K) ==
    [emit_stored(p, K) EXCEPT
        !.reported = [k \in Keys |-> IF k \in K THEN @[k] + 1 ELSE @[k]]]

(* Any block with the given hash: the one inserted first. *)
get_cached_block(p, k) == Head(p.hash_to_block[k])

(* Mutant: a promoted block's partial entry is withdrawn without an event. *)
cache_full_blocks_silent(p, f) ==
    LET hashed == {b \in DOMAIN f : p.block_hash[b] # None}
    IN  emit_stored(insert_block_hashes(remove_cached_block_hashes(p, hashed), f),
                    {f[b] : b \in DOMAIN f})

(* f[b] is the hash that full block b gets; a block that had a partial     *)
(* hash is promoted, which the code asserts to be a longer prefix.         *)
cache_full_blocks(p, f) ==
    LET hashed == {b \in DOMAIN f : p.block_hash[b] # None}
    IN  emit_stored(insert_block_hashes(evict_hashes(p, hashed), f),
                    {f[b] : b \in DOMAIN f})

PromotionAllowed(p, f) ==
    \A b \in DOMAIN f : p.block_hash[b] # None => p.hash_tokens[b] < KeyTokens[f[b]]

(* Mutant: a longer partial entry does not displace the shorter ones. *)
cache_partial_block_beside(p, b, k, replace_existing_hashes) ==
    LET already == ~ IsNewEntry(p, b, k)
        q       == IF replace_existing_hashes THEN evict_hashes(p, {b}) ELSE p
        r       == insert_block_hashes(q, [x \in {b} |-> k])
    IN  IF already /\ ~ replace_existing_hashes THEN r ELSE emit_stored(r, {k})

cache_partial_block(p, b, k, replace_existing_hashes) ==
    LET already == ~ IsNewEntry(p, b, k)
        longer  == ~ already /\ p.block_hash[b] # None /\ p.hash_tokens[b] < KeyTokens[k]
        q       == IF replace_existing_hashes \/ longer THEN evict_hashes(p, {b}) ELSE p
        r       == insert_block_hashes(q, [x \in {b} |-> k])
    IN  IF already /\ ~ replace_existing_hashes THEN r ELSE emit_stored(r, {k})

(* dst takes over the entries of src, the primary hash first; no events. *)
move_block_hashes(p, src, dst) ==
    LET moved == {k \in HashesOf(p, src) : src \in Elems(p.hash_to_block[k])}
        q     == remove_cached_block_hashes(p, {src})
    IN  IF moved = {} THEN q
        ELSE [q EXCEPT
                !.block_hash[dst]   = p.block_hash[src],
                !.hash_tokens[dst]  = p.hash_tokens[src],
                !.extra_hashes[dst] = moved \ {p.block_hash[src]},
                !.hash_to_block     = [k \in Keys |-> IF k \in moved THEN Append(@[k], dst)
                                                                     ELSE @[k]]]

----------------------------------------------------------------------------
(* Reference counts and the free queue.                                    *)

(* popleft_n, then eviction and the first reference for each block. *)
get_new_blocks(p, n) ==
    LET new == Elems(SubSeq(p.free_queue, 1, n))
    IN  [evict_hashes(p, new) EXCEPT
            !.free_queue = SubSeq(@, n + 1, Len(@)),
            !.ref_cnt    = [b \in Blocks |-> IF b \in new THEN @[b] + 1 ELSE @[b]]]

(* A block that was free leaves the queue; every occurrence is a reference. *)
touch(p, s) ==
    [p EXCEPT
        !.free_queue = Drop(@, {b \in Elems(s) \ {NullBlock} : p.ref_cnt[b] = 0}),
        !.ref_cnt    = [b \in Blocks |-> IF b = NullBlock THEN @[b]
                                         ELSE @[b] + Occurrences(s, b)]]

(* Blocks whose last reference goes: unhashed ones to the front of the     *)
(* queue, cached ones to its back, each in the order of the list (a block  *)
(* that is listed twice counts where its last reference goes).             *)
free_blocks(p, s) ==
    LET left(b)     == p.ref_cnt[b] - Occurrences(s, b)
        freed       == {b \in Elems(s) \ {NullBlock} : left(b) = 0}
        evict_first == {b \in freed : p.block_hash[b] = None}
    IN  [p EXCEPT
            !.free_queue = KeepLast(s, evict_first) \o @ \o KeepLast(s, freed \ evict_first),
            !.ref_cnt    = [b \in Blocks |-> IF b = NullBlock THEN @[b] ELSE left(b)]]

(* Mutant: a block that is in use again under the same hash is not skipped. *)
refresh_cached_blocks(p, s, ks) ==
    LET valid == {i \in 1..Len(s) : s[i] # NullBlock /\ p.block_hash[s[i]] = ks[i]}
    IN  [p EXCEPT !.free_queue = Drop(@, {s[i] : i \in valid})
                                     \o Select(s, LastOf(s, valid))]

(* Blocks s[i] with the hashes ks[i] that they were freed with; those     *)
(* still free under that hash go to the back of the queue, one by one.     *)
refresh_cached_free_blocks(p, s, ks) ==
    LET valid == {i \in 1..Len(s) : /\ s[i] # NullBlock
                                    /\ p.ref_cnt[s[i]] = 0
                                    /\ p.block_hash[s[i]] = ks[i]}
    IN  [p EXCEPT !.free_queue = Drop(@, {s[i] : i \in valid})
                                     \o Select(s, LastOf(s, valid))]

(* Everything is forgotten, with one AllBlocksCleared event. *)
reset_prefix_cache(p) ==
    [p EXCEPT !.block_hash    = [b \in Blocks |-> None],
              !.hash_tokens   = [b \in Blocks |-> 0],
              !.extra_hashes  = [b \in Blocks |-> {}],
              !.hash_to_block = [k \in Keys |-> <<>>],
              !.announced     = [k \in Keys |-> 0],
              !.reported      = [k \in Keys |-> 0]]

----------------------------------------------------------------------------
(* What a pool is in between two calls.                                    *)

(* The free queue holds exactly the unreferenced blocks, each once, and    *)
(* never the null block.                                                   *)
FreeQueueOK(p) ==
    /\ Distinct(p.free_queue)
    /\ Elems(p.free_queue) = {b \in Blocks \ {NullBlock} : p.ref_cnt[b] = 0}

(* A key leads to a block iff the block carries that key, once each; extra *)
(* keys exist only beside a primary one; the null block carries none.      *)
HashIndexOK(p) ==
    /\ \A k \in Keys : /\ Distinct(p.hash_to_block[k])
                       /\ Elems(p.hash_to_block[k]) = {b \in Blocks : k \in HashesOf(p, b)}
    /\ \A b \in Blocks : /\ p.block_hash[b] = None => p.extra_hashes[b] = {}
                         /\ p.block_hash[b] \notin p.extra_hashes[b]
    /\ HashesOf(p, NullBlock) = {}

(* hash_tokens is the prefix length of the primary hash, and no extra hash *)
(* reaches further.                                                        *)
HashTokensOK(p) ==
    \A b \in Blocks :
        /\ p.block_hash[b] = None => p.hash_tokens[b] = 0
        /\ p.block_hash[b] # None => p.hash_tokens[b] = KeyTokens[p.block_hash[b]]
        /\ \A k \in p.extra_hashes[b] : KeyTokens[k] <= p.hash_tokens[b]

(* Stored minus removed events is the number of blocks in the index, and   *)
(* one more for each report of a reused block.                             *)
EventsOK(p) ==
    \A k \in Keys : p.announced[k] = Len(p.hash_to_block[k]) + p.reported[k]
=============================================================================
