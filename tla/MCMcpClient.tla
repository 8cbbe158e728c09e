----------------------------- MODULE MCMcpClient -----------------------------
(* Two goroutines and three calls: initialize, then two at a time, or one   *)
(* after another that timed out. Pipes of one message fill up at once, and  *)
(* a server that answers twice can fill a channel.                          *)
EXTENDS McpClient, TLC

CONSTANTS c1, c2

Symmetry == Permutations(Callers)
=============================================================================
