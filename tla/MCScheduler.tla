----------------------------- MODULE MCScheduler -----------------------------
(* Three ids and lists of at most two dependencies: enough for a cycle of  *)
(* three tasks, a diamond without its tip, a dependency named twice, a     *)
(* task that names itself and one that names a task not created yet.       *)
EXTENDS Scheduler, TLC

SeqExt == INSTANCE SequencesExt

CONSTANTS a, b, c

MCIds == {a, b, c}
MCDepLists == SeqExt!BoundedSeq(MCIds, 2)

Symmetry == Permutations(MCIds)
=============================================================================
