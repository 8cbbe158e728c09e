------------------------------ MODULE MCTokenPath ------------------------------
(* Two requests at a time over two keys, one of them with a source file, a  *)
(* memory that holds one; a free model and a paid one, a limit two calls    *)
(* reach.                                                                   *)
EXTENDS TokenPath, TLC

CONSTANTS r1, r2, k1, k2

MCRequests == {r1, r2}
MCKeys == {k1, k2}
MCSourced == {k1}
MCCostOf == [k \in MCKeys |-> IF k = k1 THEN 1 ELSE 0]

Symmetry == Permutations(MCRequests)
=============================================================================
