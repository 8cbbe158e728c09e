------------------------------ MODULE MCJournal ------------------------------
(* Two handles contend for the lock; three records are enough for one that *)
(* is acknowledged, one that is lost and one written after the recovery.   *)
EXTENDS Journal, TLC

CONSTANTS h1, h2

MCHandles == {h1, h2}

Symmetry == Permutations(MCHandles)
=============================================================================
