---------------------------- MODULE BlockPoolUse ----------------------------
(***************************************************************************)
(* A BlockPool and the holders of its blocks: the state machine that the   *)
(* single-type cache managers, the copy-on-write hand-over and the         *)
(* scheduler's free paths drive.  Each holder's list is the references     *)
(* that the counts are supposed to count: one list per request             *)
(* (req_to_blocks), and one (Copies) for the two ends of every pending     *)
(* copy-on-write.  Which tokens a request has is left open, so a block may *)
(* be cached under any key.                                                *)
(***************************************************************************)
EXTENDS BlockPool

CONSTANTS Requests,       \* the request holders
          Copies,         \* the holder of pending copy-on-write endpoints
          KeyLists,       \* lists of distinct keys: consecutive block hashes
          ReportLists,    \* those that requests with full reports start with
          BoundaryLists,  \* hashes of early freed states, the latest first
          MaxHeld,        \* bound: length of a holder's block list
          MaxRefs,        \* bound: length of all the block lists together
          MaxReports      \* bound: reports of a key since the last reset

ASSUME BlockPoolUseAssumption ==
    /\ Copies \notin Requests
    /\ IsFiniteSet(Requests)
    /\ KeyLists \subseteq Seq(Keys)
    /\ \A ks \in KeyLists : Distinct(ks)
    /\ ReportLists \subseteq KeyLists
    /\ BoundaryLists \subseteq Seq(Keys)
    /\ MaxHeld \in Nat /\ MaxRefs \in Nat /\ MaxReports \in Nat

Holders == Requests \cup {Copies}

VARIABLES pool,   \* the BlockPool object
          held    \* the block list of each holder

vars == <<pool, held>>

(* The pool is a well-typed BlockPool and every holder has a list of blocks.*)
TypeOK == /\ pool \in Pools
          /\ held \in [Holders -> Seq(Blocks)]

Init == /\ pool = InitPool
        /\ held = [h \in Holders |-> <<>>]

(* The places in the block lists hd. *)
Sites(hd) == {s \in Holders \X (1..MaxHeld) : s[2] <= Len(hd[s[1]])}

HasRoom(h, n) == /\ Len(held[h]) + n <= MaxHeld
                 /\ Cardinality(Sites(held)) + n <= MaxRefs

----------------------------------------------------------------------------
(* References.                                                             *)

(* allocate_new_blocks: too few free blocks is a ValueError. *)
GetNewBlocks(r, n) ==
    /\ n <= Len(pool.free_queue)
    /\ HasRoom(r, n)
    /\ pool' = get_new_blocks(pool, n)
    /\ held' = [held EXCEPT ![r] = @ \o SubSeq(pool.free_queue, 1, n)]

(* get_computed_blocks finds the keys ks for a request without blocks.  If  *)
(* its kv_cache_report_mode is "full" it also reports the hit, under the    *)
(* hashes named of the request's own blocks: those of the null blocks that  *)
(* stand for a prefix outside the sliding window come first, and a partial  *)
(* entry at the end is named as if its block were full.  No report: <<>>.   *)
Finds(r, ks, named) ==
    /\ held[r] = <<>>
    /\ \A i \in 1..Len(ks) : pool.hash_to_block[ks[i]] # <<>>
    /\ named # <<>> =>
          /\ ks # <<>> /\ Len(named) >= Len(ks)
          /\ \A i \in 1..(Len(ks) - 1) : named[Len(named) - Len(ks) + i] = ks[i]
    /\ \A k \in Elems(named) : pool.reported[k] < MaxReports

(* The request is not admitted; the next pass looks up, and reports, again. *)
LookUp(r, ks, named) ==
    /\ Finds(r, ks, named)
    /\ pool' = emit_cached_block_events(pool, Elems(named))
    /\ UNCHANGED held

(* It is: add_local_computed_blocks, the first allocation of a request,     *)
(* touches and appends the hit blocks.  The null blocks are references to   *)
(* nothing; the list starts after them.                                     *)
TouchHits(r, ks, named) ==
    LET hits == [i \in 1..Len(ks) |-> get_cached_block(pool, ks[i])]
    IN  /\ Finds(r, ks, named)
        /\ HasRoom(r, Len(ks))
        /\ pool' = touch(emit_cached_block_events(pool, Elems(named)), hits)
        /\ held' = [held EXCEPT ![r] = @ \o hits]

(* free: the boundary states s that a Mamba request let go of early, under  *)
(* the hashes ks, are made young again (none: empty lists), if nobody has   *)
(* hit or taken them since; then the blocks are freed, so that the last one *)
(* is evicted first.  Each such state left a null block in the list.  (The  *)
(* pool's interface is exercised here: RemoveUnhashed frees no state with a *)
(* hash, so in this version of the code the manager has none to pass.)      *)
Free(r, s, ks) ==
    /\ held[r] # <<>>
    /\ Len(ks) <= Occurrences(held[r], NullBlock)
    /\ pool' = free_blocks(refresh_cached_free_blocks(pool, s, ks), Reversed(held[r]))
    /\ held' = [held EXCEPT ![r] = <<>>]

(* Mutant: the freed positions are cleared instead of pointing to the null *)
(* block.                                                                  *)
WithoutCleared(l, I) == [i \in 1..Len(l) |-> IF i \in I THEN None ELSE l[i]]

(* The list l with null blocks at the positions I. *)
Without(l, I) == [i \in 1..Len(l) |-> IF i \in I THEN NullBlock ELSE l[i]]

(* _remove_blocks_in_range: backwards from position m until a null block or *)
(* the first position of the range, so down to position l.                  *)
RemoveSkipped(r, l, m) ==
    /\ l <= m /\ m <= Len(held[r])
    /\ \A i \in l..m : held[r][i] # NullBlock
    /\ pool' = free_blocks(pool, Reversed(Select(held[r], l..m)))
    /\ held' = [held EXCEPT ![r] = Without(@, l..m)]

(* remove_skipped_blocks of a Mamba request in "align" mode: of positions l *)
(* to m, those not looked at yet (none: l > m), only blocks without a hash  *)
(* are freed; then the block of the last state, at an earlier position j,   *)
(* if it lost its hash since (no such block: 0).                            *)
RemoveUnhashed(r, j, l, m) ==
    LET unhashed(i) == held[r][i] # NullBlock /\ pool.block_hash[held[r][i]] = None
        I           == {i \in l..m : unhashed(i)}
        J           == {i \in {j} \ {0} : unhashed(i)}
    IN  /\ l <= Len(held[r]) /\ m <= Len(held[r])
        /\ I \cup J # {}
        /\ pool' = free_blocks(free_blocks(pool, Reversed(Select(held[r], I))),
                               Select(held[r], J))
        /\ held' = [held EXCEPT ![r] = Without(@, I \cup J)]

(* Mutant: the copy gets no reference of its own while it is pending. *)
CowOnHitUnretained(r, i) ==
    LET source == held[r][i]
        cow    == Head(pool.free_queue)
    IN  /\ source # NullBlock
        /\ pool.free_queue # <<>>
        /\ HasRoom(Copies, 2)
        /\ pool' = get_new_blocks(pool, 1)
        /\ held' = [held EXCEPT ![r][i] = cow, ![Copies] = @ \o <<source, cow>>]

(* _apply_cow: the request moves from the hit block to a private copy; the *)
(* hit reference and one more reference on the copy are retained.          *)
CowOnHit(r, i) ==
    LET source == held[r][i]
        cow    == Head(pool.free_queue)
        p      == get_new_blocks(pool, 1)
    IN  /\ source # NullBlock
        /\ pool.free_queue # <<>>
        /\ HasRoom(Copies, 2)
        /\ pool' = [p EXCEPT !.ref_cnt[cow] = @ + 1]
        /\ held' = [held EXCEPT ![r][i] = cow, ![Copies] = @ \o <<source, cow>>]

(* MambaManager.allocate_new_blocks for a running request: it keeps        *)
(* writing into source, so the cache entries, if they are not evicted yet, *)
(* move to the copy.                                                       *)
CowRunning(r, i) ==
    LET source == held[r][i]
        cow    == Head(pool.free_queue)
        p      == move_block_hashes(get_new_blocks(pool, 1), source, cow)
    IN  /\ source # NullBlock
        /\ pool.free_queue # <<>>
        /\ HasRoom(Copies, 2)
        /\ pool' = [p EXCEPT !.ref_cnt[source] = @ + 1]
        /\ held' = [held EXCEPT ![Copies] = @ \o <<source, cow>>]

(* _free_cow_retained_blocks, once the copies have run. *)
FreeRetained ==
    /\ held[Copies] # <<>>
    /\ pool' = free_blocks(pool, held[Copies])
    /\ held' = [held EXCEPT ![Copies] = <<>>]

----------------------------------------------------------------------------
(* The prefix cache.                                                       *)

(* Full blocks from position i on get the hashes ks; null blocks are        *)
(* skipped.  A request's table has no block twice among these positions.    *)
CacheFullBlocks(r, i, ks) ==
    LET at(j) == held[r][i + j - 1]
        js    == {j \in 1..Len(ks) : at(j) # NullBlock}
        f     == [b \in {at(j) : j \in js} |-> ks[CHOOSE j \in js : at(j) = b]]
    IN  /\ i + Len(ks) - 1 <= Len(held[r])
        /\ \A j, l \in js : at(j) = at(l) => j = l
        /\ PromotionAllowed(pool, f)
        /\ pool' = cache_full_blocks(pool, f)
        /\ UNCHANGED held

CachePartialBlock(r, i, k, replace) ==
    /\ held[r][i] # NullBlock
    /\ pool' = cache_partial_block(pool, held[r][i], k, replace)
    /\ UNCHANGED held

(* Blocks whose contents turned out invalid, held or free. *)
EvictBlocks(B) ==
    /\ pool' = evict_hashes(pool, B)
    /\ UNCHANGED held

(* Refused unless the null block is the only one in use. *)
ResetPrefixCache ==
    /\ NumGpuBlocks - Len(pool.free_queue) = 1
    /\ pool' = reset_prefix_cache(pool)
    /\ UNCHANGED held

Next ==
    \/ \E r \in Requests :
        \/ \E n \in 1..NumGpuBlocks : GetNewBlocks(r, n)
        \/ \E ks \in KeyLists, named \in ReportLists \cup {<<>>} :
              LookUp(r, ks, named) \/ TouchHits(r, ks, named)
        \/ \E ks \in BoundaryLists \cup {<<>>} :
              \E s \in [1..Len(ks) -> Blocks \ {NullBlock}] : Free(r, s, ks)
        \/ \E l, m \in 1..MaxHeld :
              RemoveSkipped(r, l, m) \/ \E j \in 0..(l - 1) : RemoveUnhashed(r, j, l, m)
        \/ \E i \in 1..Len(held[r]) :
            \/ CowOnHit(r, i)
            \/ CowRunning(r, i)
            \/ \E ks \in KeyLists : CacheFullBlocks(r, i, ks)
            \/ \E k \in Keys, replace \in BOOLEAN : CachePartialBlock(r, i, k, replace)
    \/ FreeRetained
    \/ \E B \in SUBSET {b \in Blocks : pool.block_hash[b] # None} : EvictBlocks(B)
    \/ ResetPrefixCache

Spec == Init /\ [][Next]_vars

----------------------------------------------------------------------------
(* The places in the block lists hd that refer to block b. *)
RefSites(hd, b) == {s \in Sites(hd) : hd[s[1]][s[2]] = b}

(* A block's ref_cnt is the number of places that refer to it, across      *)
(* requests sharing a prefix and both ends of pending copies: a block is   *)
(* never reclaimed under a holder and never leaks.                         *)
RefCntExact == \A b \in Blocks \ {NullBlock} :
                  pool.ref_cnt[b] = Cardinality(RefSites(held, b))

(* The free queue holds exactly the unreferenced blocks, each once, and    *)
(* never the null block: touch, bulk pops and the two-ended free agree     *)
(* with the counts, so `assert block.ref_cnt == 0` in get_new_blocks and   *)
(* the RuntimeError of remove are unreachable.                             *)
FreeQueueExact == FreeQueueOK(pool)

(* The index and the blocks agree in both directions, so a lookup never    *)
(* returns a block that was handed out for something else and an evicted   *)
(* block leaves no entry behind, whatever partial entries, promotions and  *)
(* copy-on-write moves came before.                                        *)
HashIndexConsistent == HashIndexOK(pool)

(* block_hash_num_tokens, which decides whether a partial entry may be     *)
(* replaced by a longer one, is the prefix length of the primary hash, and *)
(* no extra hash reaches further: promotion and the move to a copy-on-     *)
(* write block keep the longest prefix as the primary one.                 *)
PrimaryIsLongest == HashTokensOK(pool)

(* A consumer that adds one for each BlockStored and takes one away for    *)
(* each BlockRemoved knows how many blocks the index has for every key, as *)
(* long as no request asks for a full report: evictions, promotions,       *)
(* silent moves and duplicates are all accounted.  Each report of a reused *)
(* block puts the count of its key one too high until the next reset, so a *)
(* consumer never takes a cached block for a missing one.                  *)
EventsMatchIndex == EventsOK(pool)
=============================================================================
