--------------------------- MODULE FreeBlockQueue ---------------------------
(***************************************************************************)
(* FreeKVCacheBlockQueue (vllm/v1/core/kv_cache_utils.py): the free list   *)
(* as prev_free_block / next_free_block links between the block objects,   *)
(* a fake head and a fake tail, and the counter num_free_blocks that the   *)
(* BlockPool reads instead of walking the list.                            *)
(***************************************************************************)
EXTENDS Subsequence

CONSTANTS NumBlocks,    \* number of KVCacheBlock objects
          BlockLists    \* the lists of blocks a caller may put back

ASSUME NumBlocksAssumption == NumBlocks \in Nat

Blocks == 0..(NumBlocks - 1)
FakeHead == NumBlocks           \* fake_free_list_head
FakeTail == NumBlocks + 1       \* fake_free_list_tail
None   == -1
Nodes  == Blocks \cup {FakeHead, FakeTail}

(* append is append_n of a list of one block. *)
ASSUME BlockListsAssumption ==
    BlockLists \subseteq Seq(Blocks) /\ \A b \in Blocks : <<b>> \in BlockLists

VARIABLES prev, next,         \* prev_free_block, next_free_block
          num_free_blocks,
          call                \* the last operation called, with its argument

vars == <<prev, next, num_free_blocks, call>>

----------------------------------------------------------------------------
(* The loops.                                                              *)

(* The node reached after k next links from the fake head. *)
After(k) == LET f[i \in 0..k] == IF i = 0 THEN FakeHead
                                 ELSE IF f[i-1] = None THEN None
                                 ELSE next[f[i-1]]
            IN  f[k]

(* get_all_free_blocks: walk until a node that has no next link. *)
get_all_free_blocks ==
    LET stop == {k \in 1..(NumBlocks + 1) :
                    After(k) = None \/ next[After(k)] = None}
        n    == IF stop = {} THEN NumBlocks + 1
                ELSE (CHOOSE k \in stop : \A l \in stop : k <= l) - 1
    IN  [k \in 1..n |-> After(k)]

(* The links after the loop that chains the blocks of s between a and b. *)
Chain(s, a, b) ==
    LET n == Len(s)
        at(i) == IF i = 0 THEN a ELSE IF i = n + 1 THEN b ELSE s[i]
    IN  [nxt |-> [x \in Nodes |-> IF \E i \in 0..n : at(i) = x
                                  THEN at((CHOOSE i \in 0..n : at(i) = x) + 1)
                                  ELSE next[x]],
         prv |-> [x \in Nodes |-> IF \E i \in 1..(n + 1) : at(i) = x
                                  THEN at((CHOOSE i \in 1..(n + 1) : at(i) = x) - 1)
                                  ELSE prev[x]]]

----------------------------------------------------------------------------
Init ==
    /\ num_free_blocks = NumBlocks
    /\ call = <<"init", <<>>>>
    /\ next = [x \in Nodes |-> IF x = FakeHead THEN (IF NumBlocks = 0 THEN FakeTail ELSE 0)
                               ELSE IF x = FakeTail THEN None
                               ELSE IF x = NumBlocks - 1 THEN FakeTail ELSE x + 1]
    /\ prev = [x \in Nodes |-> IF x = FakeHead THEN None
                               ELSE IF x = FakeTail THEN (IF NumBlocks = 0 THEN FakeHead ELSE NumBlocks - 1)
                               ELSE IF x = 0 THEN FakeHead ELSE x - 1]

(* Mutant: the new first block keeps its link to the popped one. *)
popleftStaleLink ==
    /\ next[FakeHead] \notin {FakeTail, None}
    /\ LET first == next[FakeHead]
       IN  /\ next[first] # None
           /\ next' = [next EXCEPT ![FakeHead] = next[first], ![first] = None]
           /\ prev' = [prev EXCEPT ![first] = None]
    /\ num_free_blocks' = num_free_blocks - 1

(* An empty list makes popleft raise and leaves the links alone. *)
popleft ==
    /\ next[FakeHead] \notin {FakeTail, None}
    /\ LET first == next[FakeHead]
       IN  /\ next[first] # None
           /\ next' = [next EXCEPT ![FakeHead] = next[first], ![first] = None]
           /\ prev' = [prev EXCEPT ![next[first]] = FakeHead, ![first] = None]
    /\ num_free_blocks' = num_free_blocks - 1

popleft_n(n) ==
    /\ num_free_blocks >= n
    /\ num_free_blocks' = num_free_blocks - n
    /\ \A k \in 1..n : After(k) # None
    /\ LET popped == {After(k) : k \in 1..n}
           curr   == After(n + 1)
       IN  /\ next' = [x \in Nodes |-> IF x \in popped THEN None
                                       ELSE IF x = FakeHead /\ curr # None THEN curr
                                       ELSE next[x]]
           /\ prev' = [x \in Nodes |-> IF x = curr THEN FakeHead
                                       ELSE IF x \in popped THEN None
                                       ELSE prev[x]]

(* Mutant: the counter is not taken down. *)
removeUncounted(b) ==
    /\ prev[b] # None /\ next[b] # None
    /\ next' = [next EXCEPT ![prev[b]] = next[b], ![b] = None]
    /\ prev' = [prev EXCEPT ![next[b]] = prev[b], ![b] = None]
    /\ UNCHANGED num_free_blocks

remove(b) ==
    /\ prev[b] # None /\ next[b] # None
    /\ next' = [next EXCEPT ![prev[b]] = next[b], ![b] = None]
    /\ prev' = [prev EXCEPT ![next[b]] = prev[b], ![b] = None]
    /\ num_free_blocks' = num_free_blocks - 1

append(b) ==
    /\ prev[FakeTail] # None
    /\ next' = [next EXCEPT ![prev[FakeTail]] = b, ![b] = FakeTail]
    /\ prev' = [prev EXCEPT ![b] = prev[FakeTail], ![FakeTail] = b]
    /\ num_free_blocks' = num_free_blocks + 1

(* Mutants: one count for the whole list; each block put in front of the   *)
(* previous one.                                                           *)
prepend_nCountedOnce(s) ==
    /\ next[FakeHead] # None
    /\ LET c == Chain(s, FakeHead, next[FakeHead]) IN next' = c.nxt /\ prev' = c.prv
    /\ num_free_blocks' = num_free_blocks + 1
append_nReversed(s) ==
    /\ prev[FakeTail] # None
    /\ LET c == Chain(Reversed(s), prev[FakeTail], FakeTail) IN next' = c.nxt /\ prev' = c.prv
    /\ num_free_blocks' = num_free_blocks + Len(s)

prepend_n(s) ==
    /\ next[FakeHead] # None
    /\ LET c == Chain(s, FakeHead, next[FakeHead]) IN next' = c.nxt /\ prev' = c.prv
    /\ num_free_blocks' = num_free_blocks + Len(s)

append_n(s) ==
    /\ prev[FakeTail] # None
    /\ LET c == Chain(s, prev[FakeTail], FakeTail) IN next' = c.nxt /\ prev' = c.prv
    /\ num_free_blocks' = num_free_blocks + Len(s)

(* The callers put back blocks that are outside the list (their reference  *)
(* count just reached 0) and remove blocks that are in it.                 *)
Outside(s) == Distinct(s) /\ \A b \in Elems(s) : prev[b] = None /\ next[b] = None

Called(op, s) == call' = <<op, s>>

Next == \/ popleft /\ Called("popleft_n", <<1>>)
        \/ \E n \in 1..NumBlocks : popleft_n(n) /\ Called("popleft_n", <<n>>)
        \/ \E b \in Blocks : remove(b) /\ Called("remove", <<b>>)
        \/ \E b \in Blocks : Outside(<<b>>) /\ append(b) /\ Called("append_n", <<b>>)
        \/ \E s \in BlockLists : /\ s # <<>> /\ Outside(s)
                                 /\ \/ prepend_n(s) /\ Called("prepend_n", s)
                                    \/ append_n(s) /\ Called("append_n", s)

Spec == Init /\ [][Next]_vars
----------------------------------------------------------------------------
(* Links name nodes of the list or nothing, and the count of free blocks   *)
(* stays within the number of blocks.                                      *)
TypeOK == /\ prev \in [Nodes -> Nodes \cup {None}]
          /\ next \in [Nodes -> Nodes \cup {None}]
          /\ num_free_blocks \in 0..NumBlocks

(* The two directions of the list agree node by node, and a block that is  *)
(* outside has neither link: whatever was unlinked from the middle, popped *)
(* in bulk or chained in front, iter_blocks_after and the O(1) remove see  *)
(* the same neighbours.  It is what keeps the RuntimeErrors of popleft,    *)
(* remove and append unreachable.                                          *)
LinksMirror ==
    /\ \A x \in Nodes : next[x] # None => prev[next[x]] = x
    /\ \A x \in Nodes : prev[x] # None => next[prev[x]] = x
    /\ \A b \in Blocks : (prev[b] = None) <=> (next[b] = None)
    /\ prev[FakeHead] = None /\ next[FakeTail] = None
    /\ next[FakeHead] # None /\ prev[FakeTail] # None

(* num_free_blocks, which the pool trusts for every capacity decision, is  *)
(* the number of blocks that a walk of the links finds, and the walk finds *)
(* every block that has links (no block is stranded off the chain).        *)
CountMatchesLinks ==
    /\ num_free_blocks = Len(get_all_free_blocks)
    /\ Elems(get_all_free_blocks) = {b \in Blocks : next[b] # None}

(* The list that the links spell behaves as the abstract queue. *)
Abstract == INSTANCE BlockQueue WITH
                Blocks     <- Blocks,
                FirstQueue <- [i \in 1..NumBlocks |-> i - 1],
                BlockLists <- BlockLists,
                queue      <- get_all_free_blocks,
                call       <- call

(* Every operation on the links is the same operation of BlockQueue, with  *)
(* the same argument, on the list they spell: bulk pops keep the order of the rest, prepend_n puts a list *)
(* in front in its own order, append_n behind.                             *)
ImplementsBlockQueue == Abstract!Spec
=============================================================================
