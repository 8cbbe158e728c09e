----------------------------- MODULE MCStateStore -----------------------------
(* Two processes and two keys; a prefix that covers one key and one that    *)
(* covers both. Four calls: what one process knows of a key, a Clear and a  *)
(* Write of the other, and a WriteIfVersion that finds the old version.     *)
EXTENDS StateStore, TLC

CONSTANTS k1, k2, p1, p2

MCPrefixes == {{k1}, {k1, k2}}
Symmetry == Permutations(Procs)
=============================================================================
