------------------------------- MODULE MCTeam -------------------------------
(* Task b waits for a; created with b as its dependency, a would close the  *)
(* circle. Five sequence numbers are the team's creation, the two creations *)
(* and two updates, or more of a kind after crashes.                        *)
EXTENDS Team, TLC

CONSTANTS a, b, t1, t2

Circle == {[id |-> a, deps |-> <<>>], [id |-> a, deps |-> <<b>>],
           [id |-> b, deps |-> <<a>>]}

Symmetry == Permutations(Threads)
=============================================================================
