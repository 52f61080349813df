----------------------------- MODULE BlockQueue -----------------------------
(***************************************************************************)
(* What the free block queue promises its callers (the BlockPool): an      *)
(* ordered list without repetition, taken from at the front, put back at   *)
(* the back or at the front, and from which any member can be removed.     *)
(* The order is the eviction order.  FreeBlockQueue implements this        *)
(* specification with a doubly linked list; BlockPool keeps such a list.    *)
(***************************************************************************)
EXTENDS Subsequence

CONSTANTS Blocks,       \* the KVCacheBlock objects
          FirstQueue,   \* the blocks in block ID order, as __init__ gets them
          BlockLists    \* the lists of blocks a caller may put back

VARIABLES queue,
          call      \* the last operation called, with its argument

vars == <<queue, call>>

----------------------------------------------------------------------------
(* The operations as functions of the queue.                               *)

popleft_n(q, n) == SubSeq(q, n + 1, Len(q))
remove(q, S)    == Drop(q, S)
append_n(q, s)  == q \o s
prepend_n(q, s) == s \o q

----------------------------------------------------------------------------
TypeOK == queue \in Seq(Blocks)

Init == queue = FirstQueue /\ call = <<"init", <<>>>>

PopLeftN(n) == /\ n <= Len(queue)
               /\ queue' = popleft_n(queue, n)
               /\ call' = <<"popleft_n", <<n>>>>

Remove(b) == /\ b \in Elems(queue)
             /\ queue' = remove(queue, {b})
             /\ call' = <<"remove", <<b>>>>

(* A list goes in only when its blocks are outside and it has no repeats.  *)
MayInsert(s) == Distinct(s) /\ Elems(s) \cap Elems(queue) = {}

AppendN(s) == /\ MayInsert(s)
              /\ queue' = append_n(queue, s)
              /\ call' = <<"append_n", s>>

PrependN(s) == /\ MayInsert(s)
               /\ queue' = prepend_n(queue, s)
               /\ call' = <<"prepend_n", s>>

Next == \/ \E n \in 1..Len(queue) : PopLeftN(n)
        \/ \E b \in Blocks : Remove(b)
        \/ \E s \in BlockLists : AppendN(s) \/ PrependN(s)

Spec == Init /\ [][Next]_vars
=============================================================================
