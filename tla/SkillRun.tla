------------------------------- MODULE SkillRun -------------------------------
(***************************************************************************)
(* The run of a skill: Engine.Run (internal/skillrunner/engine.go), the    *)
(* RealRunner under it (run_real.go, transcript.go) and the hooks both     *)
(* fire (internal/hooks/manager.go, runner.go).                            *)
(*                                                                         *)
(* A hook is a subprocess: how it ends is the environment's choice, and so *)
(* is which hooks an event has. Hooks that the allowlist or the matcher    *)
(* excludes are left out of an event's list. What is injected is not used  *)
(* by a run.                                                               *)
(***************************************************************************)
EXTENDS ChatStream, FiniteSets

CONSTANTS
  HookLists,    \* the lists of hooks an event may have
  MaxHookDepth, \* 3 in the code
  NotFiring     \* no Fire is in progress

ASSUME SkillRunAssumption ==
  /\ HookLists \subseteq Seq({"blocking", "plain"}) /\ <<>> \in HookLists
  /\ MaxHookDepth \in Nat
  /\ NotFiring \notin Seq({"blocking", "plain"})

VARIABLES
  step,        \* where the run is: the name of an event while that is fired
  envDepth,    \* CLUE_CODE_HOOK_DEPTH
  depth,       \* the in-process count of Fires of the session
  specs,       \* the hooks still to run of the event being fired
  owed,        \* blocking hooks of the events before the model that have not passed
  got,         \* the chunk in hand
  transcript,  \* the assistant's deltas in the transcript
  result       \* what Run returns: "nil", "error" or, for ctx.Err(), "cancelled"

hookVars == <<envDepth, depth, specs, owed>>
skillVars == <<step, hookVars, got, transcript, result>>

\* Events fired before the model is asked, and those fired with a context
\* of their own.
Before == {"SessionStart", "UserPromptSubmit", "PreToolUse"}
After == {"PostToolUse", "Stop"}

Steps ==
  Before \cup After
    \cup {"none", "begin", "body", "system", "user", "chat", "loop", "write", "persist", "over"}

SkillTypeOK ==
  /\ step \in Steps
  /\ envDepth \in 0..MaxHookDepth
  /\ depth = (IF specs = NotFiring THEN 0 ELSE 1)
  /\ specs = NotFiring \/ specs \in Seq({"blocking", "plain"})
  /\ specs # NotFiring => step \in Before \cup After
  /\ owed \in Nat
  /\ got \in 0..MaxDeltas
  /\ transcript \in Seq(1..MaxDeltas)
  /\ result \in {"nil", "error", "cancelled"}

SkillInit ==
  /\ envDepth \in 0..MaxHookDepth
  /\ depth = 0 /\ specs = NotFiring /\ owed = 0
  /\ got = Done /\ transcript = <<>>
  /\ result = "nil"

-----------------------------------------------------------------------------
\* The run goes on at s, or with error e at s: a deferred call only sets the
\* result when there is none.
Continue(s) == step' = s /\ UNCHANGED result
Return(s, e) == step' = s /\ result' = IF result = "nil" THEN e ELSE result

\* Where each Fire leads. Stop is only deferred once SessionStart has passed,
\* PostToolUse once the transcript holds the request.
Passed ==
  Continue(CASE step = "SessionStart" -> "body"
             [] step = "UserPromptSubmit" -> "system"
             [] step = "PreToolUse" -> "chat"
             [] step = "PostToolUse" -> "Stop"
             [] step = "Stop" -> "over")

Failed ==
  Return(CASE step \in {"SessionStart", "Stop"} -> "over"
           [] step \in {"UserPromptSubmit", "PostToolUse"} -> "Stop"
           [] step = "PreToolUse" -> "PostToolUse",
         "error")

Firing == step \in Before \cup After

\* An invalid or unknown name, or too deep a skill: nothing has happened.
Rejects ==
  /\ step = "begin"
  /\ Return("over", "error")
  /\ UNCHANGED <<streamVars, hookVars, got, transcript>>

Begins ==
  /\ step = "begin"
  /\ Continue("SessionStart")
  /\ UNCHANGED <<streamVars, hookVars, got, transcript>>

\* Fire of an event without hooks.
FiresNothing ==
  /\ Firing /\ specs = NotFiring
  /\ Passed
  /\ UNCHANGED <<streamVars, hookVars, got, transcript>>

\* Fire of an event whose hooks are list. Too deep a recursion, of this
\* process or among its goroutines, is refused.
Fire(list) ==
  /\ Firing /\ specs = NotFiring /\ list # <<>>
  /\ owed' = IF step \in Before
             THEN owed + Cardinality({i \in DOMAIN list : list[i] = "blocking"}) ELSE owed
  /\ IF envDepth >= MaxHookDepth \/ depth >= MaxHookDepth
     THEN Failed /\ UNCHANGED <<depth, specs>>
     ELSE depth' = depth + 1 /\ specs' = list /\ UNCHANGED <<step, result>>
  /\ UNCHANGED <<streamVars, envDepth, got, transcript>>

\* How a hook ends: with status 0, with another one, killed at its time
\* limit, or not started. A context that is over kills it or prevents it.
Outcomes ==
  IF ctx = "done" /\ step \in Before
  THEN {"nonzero", "error"} ELSE {"zero", "nonzero", "timeout", "error"}

\* Mistake: the exit code of a hook that timed out stays 0.
HookTimeoutPasses ==
  /\ Firing /\ specs \notin {NotFiring, <<>>}
  /\ \E outcome \in Outcomes :
       /\ owed' = IF step \in Before /\ Head(specs) = "blocking" /\ outcome = "zero"
                  THEN owed - 1 ELSE owed
       /\ IF Head(specs) = "blocking" /\ outcome \in {"nonzero", "error"}
          THEN Failed /\ specs' = NotFiring /\ depth' = depth - 1
          ELSE specs' = Tail(specs) /\ UNCHANGED <<step, result, depth>>
  /\ UNCHANGED <<streamVars, envDepth, got, transcript>>

\* The next hook runs; a blocking one that does not pass ends the Fire.
RunHook ==
  /\ Firing /\ specs \notin {NotFiring, <<>>}
  /\ \E outcome \in Outcomes :
       /\ owed' = IF step \in Before /\ Head(specs) = "blocking" /\ outcome = "zero"
                  THEN owed - 1 ELSE owed
       /\ IF Head(specs) = "blocking" /\ outcome # "zero"
          THEN Failed /\ specs' = NotFiring /\ depth' = depth - 1
          ELSE specs' = Tail(specs) /\ UNCHANGED <<step, result, depth>>
  /\ UNCHANGED <<streamVars, envDepth, got, transcript>>

\* All hooks of the event have run.
Fired ==
  /\ Firing /\ specs = <<>>
  /\ Passed
  /\ specs' = NotFiring /\ depth' = depth - 1
  /\ UNCHANGED <<streamVars, envDepth, owed, got, transcript>>

-----------------------------------------------------------------------------
\* The body of the run: RealRunner when there is a model, whose prompt may
\* not render; else the offline function or a run of aider, one step each.
Body ==
  /\ step = "body"
  /\ \/ Continue("UserPromptSubmit")
     \/ Return("Stop", "error")
     \/ ctx = "live" /\ Continue("Stop")
     \/ ctx = "done" /\ Return("Stop", "cancelled")
  /\ UNCHANGED <<streamVars, hookVars, got, transcript>>

\* PersistEntry of the system's and of the user's message.
PersistRequest ==
  /\ \/ step = "system" /\ Continue("user")
     \/ step = "user" /\ Continue("PreToolUse")
     \/ step \in {"system", "user"} /\ Return("Stop", "error")
  /\ UNCHANGED <<streamVars, hookVars, got, transcript>>

\* ChatStream.
AskModel ==
  /\ step = "chat"
  /\ \/ Asks /\ Continue("loop")
     \/ Refused /\ Return("PostToolUse", "error")
  /\ UNCHANGED <<ctx, served, hand, chunks, output, hookVars, got, transcript>>

\* The select of the loop: the context, or a chunk. A closed channel never
\* shows, since the terminal chunk is taken before.
SeeCancel ==
  /\ step = "loop" /\ ctx = "done"
  /\ Return("PostToolUse", "cancelled")
  /\ UNCHANGED <<streamVars, hookVars, got, transcript>>

TakeChunk ==
  /\ step = "loop"
  /\ \E c \in 0..MaxDeltas : Takes(c) /\ got' = c
  /\ Continue(IF got' = Done THEN "persist" ELSE "write")
  /\ UNCHANGED <<ctx, reader, served, hand, output, hookVars, transcript>>

WriteDelta ==
  /\ step = "write"
  /\ \/ output' = Append(output, got) /\ Continue("persist")
     \/ UNCHANGED output /\ Return("PostToolUse", "error")
  /\ UNCHANGED <<ctx, reader, served, hand, chunks, hookVars, got, transcript>>

PersistChunk ==
  /\ step = "persist"
  /\ \/ /\ got # Done
        /\ transcript' = Append(transcript, got)
        /\ Continue("loop")
     \/ /\ got = Done
        /\ UNCHANGED transcript
        /\ Continue("PostToolUse")
     \/ UNCHANGED transcript /\ Return("PostToolUse", "error")
  /\ UNCHANGED <<streamVars, hookVars, got>>

\* A panic in the body runs the deferred PostToolUse, if it is registered, and
\* is an error once the engine has recovered it.
Panics ==
  /\ step \in {"body", "system", "user", "chat", "loop", "write", "persist"}
  /\ Return(IF step \in {"body", "system", "user"} THEN "Stop" ELSE "PostToolUse", "error")
  /\ UNCHANGED <<streamVars, hookVars, got, transcript>>

RunCode ==
  \/ Begins \/ FiresNothing \/ (\E list \in HookLists : Fire(list)) \/ RunHook \/ Fired
  \/ Body \/ PersistRequest \/ AskModel \/ SeeCancel \/ TakeChunk
  \/ WriteDelta \/ PersistChunk

SkillNext == RunCode \/ Rejects \/ Panics
=============================================================================
