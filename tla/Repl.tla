--------------------------------- MODULE Repl ---------------------------------
(***************************************************************************)
(* The commands that talk to one model: the interactive loop (runREPL,     *)
(* cmd/clue-code/repl.go and repl_meta.go), its batch mode for a stdin     *)
(* that is no terminal (runBatchStdin), and "chat" (chat.go). Each         *)
(* exchange has a stream of its own (ChatStream). A message of the history *)
(* is its role and the exchange it belongs to.                             *)
(***************************************************************************)
EXTENDS ChatStream

CONSTANTS
  MaxExchanges,  \* bound on the messages a user sends
  ModelIds,      \* ids that "/model" may name
  Usable         \* those NewClient builds a client for

ASSUME ReplAssumption ==
  MaxExchanges \in Nat \ {0} /\ Usable \subseteq ModelIds /\ Usable # {}

VARIABLES
  talk,      \* where the command is
  kind,      \* "repl", "batch" or "chat"
  history,   \* the session's messages
  exchange,  \* the number of the last message sent
  usage,     \* exchanges whose tokens are counted
  modelID,   \* the session's model
  client,    \* the model that is asked
  lines,     \* batch: lines wait to be sent
  meta,      \* batch: a meta-command waits for them to be sent
  status     \* the exit status

sessVars == <<history, usage, modelID, client>>
batchVars == <<lines, meta>>
talkVars == <<talk, kind, sessVars, exchange, batchVars, status>>

Msg(role) == [role |-> role, of |-> exchange]

TalkTypeOK ==
  /\ talk \in {"none", "prompt", "ask", "range", "check", "over"}
  /\ kind \in {"repl", "batch", "chat"}
  /\ history \in Seq([role : {"user", "assistant"}, of : 1..MaxExchanges])
  /\ exchange \in 0..MaxExchanges /\ usage \in 0..MaxExchanges
  /\ modelID \in ModelIds /\ client \in Usable
  /\ lines \in BOOLEAN /\ meta \in BOOLEAN /\ status \in 0..1

\* A first client that cannot be built ends the command: it is not followed.
TalkInit ==
  /\ kind \in {"repl", "batch", "chat"}
  /\ history = <<>> /\ exchange = 0 /\ usage = 0
  /\ client \in Usable /\ modelID = client
  /\ lines = (kind = "chat") /\ meta = FALSE /\ status = 0

-----------------------------------------------------------------------------
TalkEnds(code) == talk' = "over" /\ status' = code

\* A message of the user, with its continued lines.
TypeMessage ==
  /\ talk = "prompt" /\ kind = "repl" /\ exchange < MaxExchanges
  /\ exchange' = exchange + 1
  /\ history' = Append(history, [role |-> "user", of |-> exchange + 1])
  /\ talk' = "ask"
  /\ UNCHANGED <<streamVars, kind, usage, modelID, client, batchVars, status>>

\* "/model": the session's model changes even when no client can be built for
\* it; the client that was there goes on then.
SwitchModel(id) ==
  /\ talk = "prompt" /\ kind = "repl"
  /\ modelID' = id
  /\ client' = IF id \in Usable THEN id ELSE client
  /\ UNCHANGED <<streamVars, talk, kind, history, usage, exchange, batchVars, status>>

\* "/clear". The tokens stay counted.
Clear ==
  /\ talk = "prompt" /\ kind = "repl"
  /\ history' = <<>>
  /\ UNCHANGED <<streamVars, talk, kind, usage, modelID, client, exchange, batchVars, status>>

\* "/exit", or the end of stdin.
Exit ==
  /\ talk = "prompt" /\ kind = "repl"
  /\ TalkEnds(0)
  /\ UNCHANGED <<streamVars, kind, sessVars, exchange, batchVars>>

\* Batch: lines are gathered until a meta-command or the end of stdin; the
\* session they could change is not the one that is asked. "chat" has its one
\* prompt from the start.
GatherLine ==
  /\ talk = "prompt" /\ kind = "batch" /\ exchange < MaxExchanges
  /\ lines' = TRUE
  /\ UNCHANGED <<streamVars, talk, kind, sessVars, exchange, meta, status>>

Flush ==
  /\ talk = "prompt" /\ kind # "repl"
  /\ IF lines
     THEN /\ exchange' = exchange + 1 /\ lines' = FALSE
          /\ meta' \in (IF kind = "batch" THEN BOOLEAN ELSE {FALSE})
          /\ talk' = "ask" /\ UNCHANGED status
     ELSE TalkEnds(0) /\ UNCHANGED <<exchange, lines, meta>>
  /\ UNCHANGED <<streamVars, kind, sessVars>>

-----------------------------------------------------------------------------
\* Mistake: the message of an exchange that failed stays in the history.
KeepMessage == UNCHANGED history

\* The message that was appended is taken back.
TakeBack == history' = SubSeq(history, 1, Len(history) - 1)

\* Where an exchange that failed leads. One that the context ended gives the
\* loop a new context; Ctrl+C at the prompt costs the next message.
ExchangeFails(rearmed) ==
  IF kind = "repl"
  THEN TakeBack /\ talk' = "prompt" /\ ctx' = rearmed /\ UNCHANGED status
  ELSE TalkEnds(1) /\ UNCHANGED <<ctx, history>>

\* ChatStream is refused: by an error, or because the context is over.
SendRefused ==
  /\ talk = "ask"
  /\ \E err \in {"error", "canceled"} :
       /\ err = "canceled" => ctx = "done"
       /\ ExchangeFails(IF err = "canceled" THEN "live" ELSE ctx)
  /\ UNCHANGED <<reader, served, hand, chunks, output>>
  /\ UNCHANGED <<kind, usage, modelID, client, exchange, batchVars>>

\* Or answered. The goroutine of the exchange before has at most its channel
\* left to close.
SendAnswered ==
  /\ talk = "ask" /\ ctx = "live" /\ reader \in {"none", "close", "ended"}
  /\ reader' = "scan" /\ served' = 0 /\ hand' = Done
  /\ chunks' = <<>> /\ output' = <<>>
  /\ talk' = "range"
  /\ UNCHANGED <<ctx, kind, sessVars, exchange, batchVars, status>>

\* The range over the channel, which does not look at the context.
PrintChunk ==
  /\ talk = "range"
  /\ \E c \in 0..MaxDeltas :
       /\ Takes(c)
       /\ IF c = Done THEN talk' = "check" /\ UNCHANGED output
          ELSE output' = Append(output, c) /\ UNCHANGED talk
  /\ UNCHANGED <<ctx, reader, served, hand, kind, sessVars, exchange, batchVars, status>>

\* The context is looked at once the stream has ended, but not by "chat".
Interrupted ==
  /\ talk = "check" /\ ctx = "done" /\ kind # "chat"
  /\ ExchangeFails("live")
  /\ UNCHANGED <<reader, served, hand, chunks, output>>
  /\ UNCHANGED <<kind, usage, modelID, client, exchange, batchVars>>

Completed ==
  /\ talk = "check" /\ (ctx = "live" \/ kind = "chat")
  /\ IF kind = "repl"
     THEN history' = Append(history, Msg("assistant")) /\ usage' = usage + 1
     ELSE UNCHANGED <<history, usage>>
  /\ IF kind = "repl" \/ meta THEN talk' = "prompt" /\ UNCHANGED status ELSE TalkEnds(0)
  /\ meta' = FALSE
  /\ UNCHANGED <<streamVars, kind, modelID, client, exchange, lines>>

TalkCode == SendRefused \/ SendAnswered \/ PrintChunk \/ Interrupted \/ Completed

TalkNext ==
  \/ TypeMessage \/ Clear \/ Exit \/ GatherLine \/ Flush
  \/ (\E id \in ModelIds : SwitchModel(id))
  \/ TalkCode
=============================================================================
