------------------------------ MODULE ChatStream ------------------------------
(***************************************************************************)
(* A streamed answer of a model: postSSE (internal/model/http.go) and the  *)
(* ChatStream methods built like it. A goroutine reads the answer's body   *)
(* line by line and sends chunks on a buffered channel, whose other end    *)
(* belongs to the command that asked: a skill (SkillRun) or the synthesis  *)
(* of a mixture of agents (Moa). Delta n is the n-th piece of text.        *)
(***************************************************************************)
EXTENDS Naturals, Sequences

CONSTANTS
  Buffer,     \* the capacity of the channel, 64 in the code
  MaxDeltas   \* bound on the pieces of an answer

ASSUME ChatStreamAssumption == Buffer \in Nat \ {0} /\ MaxDeltas \in Nat

VARIABLES
  ctx,     \* the command's context: "live", or "done" after a signal
  reader,  \* where the reading goroutine is
  served,  \* the number of deltas read of the body
  hand,    \* the chunk it has not sent yet: a delta, or Done
  chunks,  \* the channel
  output   \* the deltas the command has written out

streamVars == <<ctx, reader, served, hand, chunks, output>>

\* The terminal chunk.
Done == 0

StreamTypeOK ==
  /\ ctx \in {"live", "done"}
  /\ reader \in {"none", "scan", "send", "close", "ended"}
  /\ served \in 0..MaxDeltas
  /\ hand \in 0..MaxDeltas
  /\ chunks \in Seq(0..MaxDeltas) /\ Len(chunks) <= Buffer
  /\ output \in Seq(1..MaxDeltas)

StreamInit ==
  /\ ctx = "live" /\ reader = "none"
  /\ served = 0 /\ hand = Done
  /\ chunks = <<>> /\ output = <<>>

-----------------------------------------------------------------------------
\* The signal handler cancels the context.
CtxEnds ==
  /\ ctx = "live"
  /\ ctx' = "done"
  /\ UNCHANGED <<reader, served, hand, chunks, output>>

\* The request is answered with status 200 and its goroutine starts; or an
\* error, a status or a context that is over refuses it.
Asks == reader = "none" /\ ctx = "live" /\ reader' = "scan"
Refused == reader = "none" /\ UNCHANGED reader

\* A line with a delta.
ReadDelta ==
  /\ reader = "scan" /\ served < MaxDeltas
  /\ served' = served + 1 /\ hand' = served + 1
  /\ reader' = "send"
  /\ UNCHANGED <<ctx, chunks, output>>

\* The reader is done with the body; the chunk it sends is always the same.
FinishScan ==
  /\ reader = "scan"
  /\ hand' = Done
  /\ reader' = "send"
  /\ UNCHANGED <<ctx, served, chunks, output>>

\* "[DONE]", message_stop, the end of the body, a line that is too long or a
\* lost connection.
BodyEnds == FinishScan

\* Mistake: the request is made without the context.
ReadOn == FALSE /\ FinishScan

\* The end of the context makes the next read fail.
ReadCancelled == ctx = "done" /\ FinishScan

\* Mistake: a chunk the channel has no room for is dropped.
SendOrDrop ==
  /\ reader = "send"
  /\ chunks' = IF Len(chunks) < Buffer THEN Append(chunks, hand) ELSE chunks
  /\ reader' = IF hand = Done THEN "close" ELSE "scan"
  /\ UNCHANGED <<ctx, served, hand, output>>

\* The goroutine waits for room.
Send ==
  /\ reader = "send"
  /\ Len(chunks) < Buffer
  /\ chunks' = Append(chunks, hand)
  /\ reader' = IF hand = Done THEN "close" ELSE "scan"
  /\ UNCHANGED <<ctx, served, hand, output>>

\* The deferred close of the channel and of the body.
CloseChunks ==
  /\ reader = "close"
  /\ reader' = "ended"
  /\ UNCHANGED <<ctx, served, hand, chunks, output>>

\* The command takes the next chunk.
Takes(c) == chunks # <<>> /\ c = Head(chunks) /\ chunks' = Tail(chunks)

ReaderCode == ReadCancelled \/ Send \/ CloseChunks

StreamNext == CtxEnds \/ ReadDelta \/ BodyEnds \/ ReaderCode
=============================================================================
