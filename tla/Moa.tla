--------------------------------- MODULE Moa ---------------------------------
(***************************************************************************)
(* A mixture of agents: Dispatcher.MoA (internal/orchestrator/moa.go) asks *)
(* the configured models in parallel, one goroutine each, and has an agent *)
(* synthesize the answers; Dispatcher.Dispatch (dispatch.go) reads that    *)
(* agent's stream. A model may be configured twice.                        *)
(***************************************************************************)
EXTENDS ChatStream, FiniteSets

CONSTANTS
  ModelLists  \* the lists of models a run may be configured with

ASSUME MoaAssumption == \A list \in ModelLists : Len(list) \in Nat \ {0}

VARIABLES
  models,     \* the configured models
  stage,      \* where MoA is
  tctx,       \* the context of the parallel phase
  asking,     \* where the goroutine of each entry of models is
  said,       \* what it will report: "ok" or "error"
  results,    \* the channel of the reports, by entry
  closed,     \* that channel is closed
  responses,  \* the models with a response
  errors,     \* the models with an error
  buf,        \* the synthesis so far
  moaErr      \* what MoA returns: "nil" or "error"

moaVars == <<models, stage, tctx, asking, said, results, closed, responses, errors, buf, moaErr>>

Entries == 1..Len(models)

MoaTypeOK ==
  /\ models \in ModelLists
  /\ stage \in {"none", "begin", "collect", "ask", "range", "check", "final", "over"}
  /\ tctx \in {"live", "done"}
  /\ asking \in [Entries -> {"idle", "chat", "report", "leave", "gone"}]
  /\ said \in [Entries -> {"ok", "error"}]
  /\ results \in Seq(Entries) /\ Len(results) <= Len(models)
  /\ closed \in BOOLEAN
  /\ responses \subseteq {models[i] : i \in Entries}
  /\ errors \subseteq {models[i] : i \in Entries}
  /\ buf \in Seq(1..MaxDeltas)
  /\ moaErr \in {"nil", "error"}

MoaInit ==
  /\ models \in ModelLists
  /\ tctx = "live"
  /\ asking = [i \in Entries |-> "idle"]
  /\ said = [i \in Entries |-> "error"]
  /\ results = <<>> /\ closed = FALSE
  /\ responses = {} /\ errors = {}
  /\ buf = <<>> /\ moaErr = "nil"

-----------------------------------------------------------------------------
Launch ==
  /\ stage = "begin"
  /\ stage' = "collect"
  /\ asking' = [i \in Entries |-> "chat"]
  /\ UNCHANGED <<streamVars, models, tctx, said, results, closed, responses, errors, buf, moaErr>>

\* The time limit of the parallel phase, or the end of the context above.
Expire ==
  /\ stage = "collect" /\ tctx = "live"
  /\ tctx' = "done"
  /\ UNCHANGED <<streamVars, models, stage, asking, said, results, closed, responses, errors, buf, moaErr>>

Reports(i, what) ==
  /\ asking[i] = "chat"
  /\ said' = [said EXCEPT ![i] = what]
  /\ asking' = [asking EXCEPT ![i] = "report"]
  /\ UNCHANGED <<streamVars, models, stage, tctx, results, closed, responses, errors, buf, moaErr>>

\* The model answers in time.
Answers(i) == tctx = "live" /\ Reports(i, "ok")

\* An error of the request, or a recovered panic.
Errs(i) == Reports(i, "error")

\* A request whose context is over fails.
GivesUp(i) == tctx = "done" /\ Reports(i, "error")

\* The channel has room for a report of each.
Report(i) ==
  /\ asking[i] = "report" /\ ~closed
  /\ Len(results) < Len(models)
  /\ results' = Append(results, i)
  /\ asking' = [asking EXCEPT ![i] = "leave"]
  /\ UNCHANGED <<streamVars, models, stage, tctx, said, closed, responses, errors, buf, moaErr>>

\* wg.Done, the last of the deferred calls.
Leave(i) ==
  /\ asking[i] = "leave"
  /\ asking' = [asking EXCEPT ![i] = "gone"]
  /\ UNCHANGED <<streamVars, models, stage, tctx, said, results, closed, responses, errors, buf, moaErr>>

\* Mistake: wg.Done is called before the report.
CloseEarly ==
  /\ stage # "begin" /\ ~closed
  /\ \A i \in Entries : asking[i] \in {"report", "leave", "gone"}
  /\ closed' = TRUE
  /\ UNCHANGED <<streamVars, models, stage, tctx, asking, said, results, responses, errors, buf, moaErr>>

\* wg.Wait returns when all have gone.
CloseResults ==
  /\ stage # "begin" /\ ~closed
  /\ \A i \in Entries : asking[i] = "gone"
  /\ closed' = TRUE
  /\ UNCHANGED <<streamVars, models, stage, tctx, asking, said, results, responses, errors, buf, moaErr>>

\* One round of the range over the reports.
Collect ==
  /\ stage = "collect" /\ results # <<>>
  /\ LET i == Head(results) IN
       IF said[i] = "ok"
       THEN responses' = responses \cup {models[i]} /\ UNCHANGED errors
       ELSE errors' = errors \cup {models[i]} /\ UNCHANGED responses
  /\ results' = Tail(results)
  /\ UNCHANGED <<streamVars, models, stage, tctx, asking, said, closed, buf, moaErr>>

\* Two thirds of the configured models, rounded up.
Threshold == (2 * Len(models) + 2) \div 3

Fails(e) == stage' = "over" /\ moaErr' = e

\* The range is over: enough responses, or an error.
Judge ==
  /\ stage = "collect" /\ results = <<>> /\ closed
  /\ IF Cardinality(responses) < Threshold
     THEN Fails("error") ELSE stage' = "ask" /\ UNCHANGED moaErr
  /\ UNCHANGED <<streamVars, models, tctx, asking, said, results, closed, responses, errors, buf>>

-----------------------------------------------------------------------------
\* Dispatch: an unknown agent and a refused request are errors.
AskAgent ==
  /\ stage = "ask"
  /\ \/ Asks /\ stage' = "range" /\ UNCHANGED moaErr
     \/ Refused /\ Fails("error")
  /\ UNCHANGED <<ctx, served, hand, chunks, output, models, tctx, asking, said, results, closed,
                 responses, errors, buf>>

\* One round of the range over the chunks, without a select: it waits for a
\* chunk whatever the context. An error of the output is ignored.
TakeDelta ==
  /\ stage = "range"
  /\ \E c \in 1..MaxDeltas :
       /\ Takes(c)
       /\ buf' = Append(buf, c)
       /\ output' \in {output, Append(output, c)}
  /\ stage' = "check"
  /\ UNCHANGED <<ctx, reader, served, hand, models, tctx, asking, said, results, closed,
                 responses, errors, moaErr>>

TakeDone ==
  /\ stage = "range"
  /\ Takes(Done)
  /\ stage' = "final"
  /\ UNCHANGED <<ctx, reader, served, hand, output, models, tctx, asking, said, results, closed,
                 responses, errors, buf, moaErr>>

\* The tests of the context between two chunks, and after the last.
Check ==
  /\ stage \in {"check", "final"}
  /\ \/ ctx = "done" /\ Fails("error")
     \/ ctx = "live" /\ stage = "check" /\ stage' = "range" /\ UNCHANGED moaErr
     \/ ctx = "live" /\ stage = "final" /\ stage' = "over" /\ UNCHANGED moaErr
  /\ UNCHANGED <<streamVars, models, tctx, asking, said, results, closed, responses, errors, buf>>

MoaCode ==
  \/ Launch \/ CloseResults \/ Collect \/ Judge \/ AskAgent \/ TakeDelta \/ TakeDone \/ Check
  \/ \E i \in Entries : GivesUp(i) \/ Report(i) \/ Leave(i)

MoaNext == MoaCode \/ Expire \/ \E i \in Entries : Answers(i) \/ Errs(i)
=============================================================================
