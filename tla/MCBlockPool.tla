---------------------------- MODULE MCBlockPool -----------------------------
(* Instance of BlockPoolUse for TLC. *)
EXTENDS BlockPoolUse, TLC
CONSTANTS k1, k2, r1, r2

MCKeyTokens == k1 :> 1 @@ k2 :> 2
MCKeyLists  == {<<k1>>, <<k1, k2>>}
MCReportLists   == {<<k1, k2>>}
MCBoundaryLists == {<<k2, k1>>}
Symmetry    == Permutations({r1, r2})
=============================================================================
