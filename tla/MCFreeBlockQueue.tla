-------------------------- MODULE MCFreeBlockQueue --------------------------
(* Instance of FreeBlockQueue for TLC: every list of at most three blocks. *)
EXTENDS FreeBlockQueue

MCBlockLists == UNION {[1..n -> 0..(NumBlocks - 1)] : n \in 0..3}
=============================================================================
