------------------------------- MODULE Commands -------------------------------
(***************************************************************************)
(* The commands of the program, of which a process runs one: those that    *)
(* ask a model and read its stream, "skill run" (SkillRun), "agent moa"    *)
(* (Moa), "chat" and the interactive loop (Repl), each with the signal     *)
(* handler and the goroutine of its stream (ChatStream); "setup" and "mode *)
(* set" (Wizard); "team demo" with its worker (WorkerTransport); and "tui" *)
(* (Dashboard) or another watcher, beside the processes that start the     *)
(* sessions it lists (SessionRegistry).                                    *)
(***************************************************************************)
EXTENDS SkillRun, Moa, Repl, Wizard, WorkerTransport, Dashboard

CONSTANTS
  Races,     \* sets of processes that start a session at once
  Additions  \* pairs of a listed process and one that starts a session

ASSUME CommandsAssumption ==
  Races \subseteq SUBSET Starters /\ Additions \subseteq Starters \X Starters

hostVars == <<registryVars, dashVars>>
vars == <<streamVars, skillVars, moaVars, talkVars, wizardVars, demoVars, hostVars>>

TypeOK ==
  /\ StreamTypeOK /\ SkillTypeOK /\ MoaTypeOK /\ TalkTypeOK /\ WizardTypeOK
  /\ DemoTypeOK /\ RegistryTypeOK /\ DashTypeOK

-----------------------------------------------------------------------------
\* A command that is not run stays in one initial state.
NoSkill == step = "none" /\ envDepth = 0
NoMoa == stage = "none" /\ models = CHOOSE list \in ModelLists : TRUE
NoTalk == talk = "none" /\ kind = "repl" /\ client = CHOOSE id \in Usable : TRUE
NoSetup == page = "none" /\ userEnv = {} /\ yaml = <<>>
NoDemo == demo = "none" /\ transport = "inproc"
NoDashboard == tui = "off" /\ pending = {}
NoSession == index = <<>> /\ at = [p \in Starters |-> "off"]
NoHost == NoDashboard /\ NoSession /\ watch.at = "off"

\* Sessions start at once on an empty registry that is watched; or one starts,
\* again under its id or beside another, while the dashboard is up; or the
\* dashboard is up and no session starts.
Begin(procs) == at = [p \in Starters |-> IF p \in procs THEN "begin" ELSE "off"]

SomeHost ==
  \/ /\ watch.at = "first" /\ NoDashboard
     /\ index = <<>> /\ \E procs \in Races : Begin(procs)
  \/ /\ watch.at = "off" /\ tui = "up" /\ pending = {"state"}
     /\ \E pair \in Additions : index = <<pair[1]>> /\ Begin({pair[2]})
  \/ /\ watch.at = "off" /\ tui = "up" /\ pending = Pickers \cup {"state"}
     /\ NoSession

Init ==
  /\ StreamInit /\ SkillInit /\ MoaInit /\ TalkInit /\ WizardInit /\ DemoInit
  /\ RegistryInit /\ DashInit
  /\ \/ step = "begin" /\ NoMoa /\ NoTalk /\ NoSetup /\ NoDemo /\ NoHost
     \/ stage = "begin" /\ NoSkill /\ NoTalk /\ NoSetup /\ NoDemo /\ NoHost
     \/ talk = "prompt" /\ NoSkill /\ NoMoa /\ NoSetup /\ NoDemo /\ NoHost
     \/ page = "start" /\ NoSkill /\ NoMoa /\ NoTalk /\ NoDemo /\ NoHost
     \/ demo = "spawn" /\ NoSkill /\ NoMoa /\ NoTalk /\ NoSetup /\ NoHost
     \/ SomeHost /\ NoSkill /\ NoMoa /\ NoTalk /\ NoSetup /\ NoDemo

notStream == <<skillVars, moaVars, talkVars, wizardVars, demoVars, hostVars>>
notSkill == <<moaVars, talkVars, wizardVars, demoVars, hostVars>>
notMoa == <<skillVars, talkVars, wizardVars, demoVars, hostVars>>
notTalk == <<skillVars, moaVars, wizardVars, demoVars, hostVars>>
notSetup == <<skillVars, moaVars, talkVars, demoVars, hostVars>>
notDemo == <<streamVars, skillVars, moaVars, talkVars, wizardVars, hostVars>>
notHost == <<streamVars, skillVars, moaVars, talkVars, wizardVars, demoVars>>

\* The dashboard and a watcher have contexts of their own.
HasCtx == step # "none" \/ stage # "none" \/ talk # "none" \/ page # "none"

Next ==
  \/ HasCtx /\ StreamNext /\ UNCHANGED notStream
  \/ SkillNext /\ UNCHANGED notSkill
  \/ MoaNext /\ UNCHANGED notMoa
  \/ TalkNext /\ UNCHANGED notTalk
  \/ WizardNext /\ UNCHANGED notSetup
  \/ demo # "none" /\ DemoNext /\ UNCHANGED notDemo
  \/ RegistryNext /\ UNCHANGED <<dashVars, notHost>>
  \/ DashNext /\ UNCHANGED <<registryVars, notHost>>

Spec == Init /\ [][Next]_vars

\* The code of the one command that runs, or of a watcher.
CommandCode ==
  \/ step # "none" /\ RunCode /\ UNCHANGED notSkill
  \/ stage # "none" /\ MoaCode /\ UNCHANGED notMoa
  \/ talk # "none" /\ TalkCode /\ UNCHANGED notTalk
  \/ demo # "none" /\ (DemoCode \/ WorkerCode) /\ UNCHANGED notDemo
  \/ watch.at # "off" /\ WatchCode /\ UNCHANGED <<indexVars, dashVars, notHost>>

DashStep(A) == tui = "up" /\ A /\ UNCHANGED <<registryVars, notHost>>

\* The Go scheduler runs what can run; a hook ends at its time limit, 30 s at
\* most; the parallel phase has a timer. No model has to answer, no stream to
\* end, no signal to come and no user to type. A watcher looks at the index
\* every second, and the dashboard every five; the commands of the dashboard
\* read the index and deliver their messages, one in each slot. A worker
\* process runs when it can.
FairSpec ==
  /\ Spec
  /\ WF_vars(HasCtx /\ ReaderCode /\ UNCHANGED notStream)
  /\ WF_vars(CommandCode)
  /\ WF_vars(stage # "none" /\ Expire /\ UNCHANGED notMoa)
  /\ \A s \in Loads : WF_vars(DashStep(LoadReads(s) \/ LoadDelivers(s)))
  /\ WF_vars(DashStep(WatcherFires))

-----------------------------------------------------------------------------
Over == step = "over" \/ stage = "over" \/ talk = "over"
Succeeded == (step = "over" /\ result = "nil") \/ (stage = "over" /\ moaErr = "nil")
AskedModel == reader # "none"

\* A model hears of a skill only when every blocking hook of SessionStart,
\* UserPromptSubmit and PreToolUse has run and ended with status 0: a hook
\* that is killed at its limit, cannot start, or is refused because the
\* recursion is too deep, blocks as one that says no (manager.go:54).
HooksGateModel == step # "none" /\ AskedModel => owed = 0

\* What a command writes is what the model sent, in order and without a gap,
\* and what the transcript or the synthesis holds is the same but for the one
\* piece in hand; a command that succeeds, and an exchange whose stream has
\* ended, has all that was read of the answer.
OutputIsTheAnswer ==
  /\ stage = "none" => output = [n \in 1..Len(output) |-> n]
  /\ step # "none" =>
       /\ transcript = [n \in 1..Len(transcript) |-> n]
       /\ Len(transcript) \in {Len(output), Len(output) - 1}
  /\ buf = [n \in 1..Len(buf) |-> n]
  /\ Succeeded /\ AskedModel =>
       IF stage = "none" THEN Len(transcript) = served ELSE Len(buf) = served
  /\ talk = "check" => Len(output) = served

\* When the parallel phase is over each configured model is accounted for, by
\* its response or its error, and the synthesis is asked for only when two
\* thirds of the requests were answered (moa.go:62).
AllModelsCount ==
  stage \in {"ask", "range", "check", "final", "over"} =>
    /\ responses = {models[i] : i \in {j \in Entries : said[j] = "ok"}}
    /\ errors = {models[i] : i \in {j \in Entries : said[j] = "error"}}
    /\ AskedModel => 3 * Cardinality({i \in Entries : said[i] = "ok"}) >= 2 * Len(models)

Exchanging == talk \in {"ask", "range", "check"}

\* The history of the interactive loop is a dialogue, whatever fails or is
\* interrupted: each message of the user is followed by the answer to it, the
\* last one while it is asked only, and each pair's tokens were counted.
HistoryIsTheDialogue ==
  talk # "none" /\ kind = "repl" =>
    LET pairs == Len(history) \div 2
    IN /\ Len(history) = 2 * pairs + (IF Exchanging THEN 1 ELSE 0)
       /\ \A n \in 1..pairs :
            /\ history[2 * n - 1].role = "user" /\ history[2 * n].role = "assistant"
            /\ history[2 * n - 1].of = history[2 * n].of
       /\ Exchanging => history[Len(history)] = Msg("user")
       /\ pairs <= usage

\* The goroutine of the stream stands before a full channel that nobody reads.
Abandoned == reader = "send" /\ Len(chunks) = Buffer

HasToEnd ==
  \/ ctx = "done" /\ (step \notin {"none", "begin"} \/ stage # "none" \/ Exchanging)
  \/ reader = "ended" /\ talk # "ask"
  \/ demo = "spawn"

\* A process runs one command: each of the three is about one kind of them.
HasEnded == Over \/ talk = "prompt" \/ (demo = "over" /\ worker \in {"none", "gone"})

\* A command ends, or the loop is back at its prompt, when its context is over
\* and when its model's stream is; the parallel phase of a mixture ends by
\* itself. The goroutine of the stream ends once the command is over and its
\* context with it, unless it stands before a channel that is full.
CommandEnds ==
  /\ HasToEnd ~> HasEnded
  /\ (stage = "collect") ~> (stage # "collect")
  /\ (Over /\ ctx = "done") ~> (reader \in {"none", "ended"} \/ Abandoned)

\* The acks of a demo come in the order of its pings, none missing between
\* them; it reports a success only when all pings are sent and answered, and a
\* failure only when its worker did not start, was interrupted or died: ending
\* the worker never costs an ack the demo counts on.
DemoIsHonest ==
  /\ acks = [n \in 1..Len(acks) |-> n]
  /\ verdict = "ok" => sent = MaxPings /\ Len(acks) = MaxPings
  /\ verdict = "error" => disturbed

-----------------------------------------------------------------------------
\* Processes that start sessions at once, fail and die lose no other's
\* descriptor, never double an id and never show a half-written index; and the
\* last descriptor of the last list the watcher emitted is the last event its
\* owner has, however many of the older ones found no room.
RegistryKeeps ==
  /\ index # Torn
  /\ \A i, j \in DOMAIN index : IdOf[index[i]] = IdOf[index[j]] => i = j
  /\ \A p \in Starters :
       at[p] \in {"release", "beat", "alive"} => StatusOf(IdOf[p]) # "not found"
  /\ watch.at = "wait" /\ watch.last # <<>> =>
       watch.last[Len(watch.last)] = (IF events = <<>> THEN heard ELSE events[Len(events)])

\* Once no more sessions start, a watcher that is not stopped has announced the
\* sessions of the index, and the dashboard lists them as they are there, also
\* when one has started again under its id.
RegistryIsSeen ==
  <>[]( /\ watch.at \notin {"off", "closed"} => Ids(watch.last) = Ids(index)
        /\ tui = "up" => listed["sessions"] = index )

\* On a terminal of more than three columns and rows no view cuts a list, a
\* body or a line outside of its bounds, whatever keys, loads and changes of
\* size came before: such a cut is a panic.
RendersInBounds ==
  size[1] > 3 /\ size[2] > 3 =>
    \A v \in Views : \A c \in Cuts(v) : 0 <= c.from /\ c.from <= c.to /\ c.to <= c.of

-----------------------------------------------------------------------------
\* What the wizard installs is what its user asked for: over crashes, resumes
\* and restarts it takes no yes from an earlier round of questions; what it
\* installs for a user with sensitive data or without a connection is local
\* unless a conflict was arbitrated, and then it is the last choice made.
AdviceIsHonoured ==
  page \in {"install", "anthropic", "mode", "done", "clear"} =>
    LET conflicts == DetectConflicts(answers)
    IN /\ \A q \in Questions : answers[q] => told[q]
       /\ IF conflicts = <<>>
          THEN answers["sensitive"] \/ answers["offline"] => provider \in LocalProviders
          ELSE \E i \in 1..3 : provider = conflicts[Len(conflicts)][i]

\* After a setup of a cloud provider that says it succeeded, every later command
\* has a key for it, whatever modes are set since; and a command that chats
\* resolves to its model when there is no config.yaml (to anthropic's also when
\* there is one without a model of anthropic, and the mode is not local).
ConfiguredIsUsed ==
  outcome.how = "ok" /\ outcome.configured \in Keyed =>
    /\ HasKey(outcome.configured, config, userEnv)
    /\ \/ yaml = <<>>
       \/ /\ outcome.configured = "anthropic" /\ config.mode # "local"
          /\ \A i \in DOMAIN yaml : yaml[i] # "anthropic"
       => ResolveModel(yaml, config) = outcome.configured
=============================================================================
