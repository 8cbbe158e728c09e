-------------------------------- MODULE Wizard --------------------------------
(***************************************************************************)
(* "clue-code setup" (cmd/clue-code/setup.go, internal/setup), run again   *)
(* after an end or a crash, and "clue-code mode set" (mode.go). The        *)
(* progress file and config.json survive; each is rewritten in place, so   *)
(* that a crash inside the write leaves a file that cannot be parsed.      *)
(* A prompt returns a line, or "" at an empty line, at the end of stdin    *)
(* and when the context is over: a line stands for what it is read as.     *)
(***************************************************************************)
EXTENDS ProviderChoice, ChatStream

CONSTANTS
  Environments,  \* sets of providers whose key the user's environment may hold
  YamlFiles,     \* providers of the models of config.yaml, <<>> without a file
  Modes,         \* what "mode set" is called with
  NoFile,        \* no progress file
  Garbled        \* a file that cannot be parsed

Keyed == {"anthropic", "deepseek"}

ASSUME WizardAssumption ==
  /\ YamlFiles \subseteq Seq(STRING)
  /\ Garbled \notin [keys : SUBSET Keyed, default : Keyed \cup {"none"},
                      mode : Modes \cup {"none", "hybrid"}]

VARIABLES
  page,      \* where the wizard is
  answers,   \* the answers it works with
  told,      \* the questions the user has said yes to since they were last put
  progress,  \* setup-progress.json: NoFile, Garbled, or the stage and the answers
  config,    \* config.json, NoConfig when absent
  env,       \* the process's environment: providers with a key
  userEnv,   \* the user's
  yaml,      \* config.yaml
  ollama,    \* ollama is installed
  conflict,  \* the conflict that is arbitrated
  provider,  \* the provider chosen
  outcome    \* how the run ended, and what it told it has configured

wizData == <<answers, told, conflict, provider>>
wizFiles == <<progress, config>>
wizHost == <<env, userEnv, yaml, ollama>>
wizardVars == <<page, wizData, wizFiles, wizHost, outcome>>

Providers == {ProviderTable[i].provider : i \in DOMAIN ProviderTable} \cup {Hybrid}
Saves == {"q1", "q2", "q3", "install", "done"}
Pages == {"none", "start", "resume?", "q1", "q2", "q3", "advise", "arbitrate", "confirm",
          "menu", "install", "anthropic", "mode", "done", "clear", "over"}

Outcome(how, what) == [how |-> how, configured |-> what]

WizardTypeOK ==
  /\ page \in Pages /\ answers \in AnswerSets /\ told \in AnswerSets
  /\ progress \in {NoFile, Garbled} \cup [stage : Saves, answers : AnswerSets]
  /\ config \in {Garbled} \cup [keys : SUBSET Keyed, default : Keyed \cup {"none"},
                               mode : Modes \cup {"none", "hybrid"}]
  /\ env \subseteq Keyed /\ userEnv \in Environments /\ yaml \in YamlFiles
  /\ ollama \in BOOLEAN
  /\ conflict \in 0..2 /\ provider \in Providers \cup {"none"}
  /\ outcome.how \in {"running", "ok", "error", "killed"}
  /\ outcome.configured \in Providers \cup {"none"}

WizardInit ==
  /\ answers = NoAnswers /\ told = NoAnswers /\ conflict = 0 /\ provider = "none"
  /\ progress = NoFile /\ config = NoConfig
  /\ userEnv \in Environments /\ env = userEnv /\ yaml \in YamlFiles
  /\ ollama = FALSE
  /\ outcome = Outcome("running", "none")

-----------------------------------------------------------------------------
Goto(p) == page' = p /\ UNCHANGED outcome
Ends(how) == page' = "over" /\ outcome' = Outcome(how, "none")
Killed == Ends("killed")

\* SaveProgress, and where the wizard is next: it does not look whether the
\* file could be opened and written, and may be killed before or in the write.
SaveProgress(stage, a, next) ==
  \/ progress' = [stage |-> stage, answers |-> a] /\ Goto(next)
  \/ (progress' = Garbled \/ UNCHANGED progress) /\ (Goto(next) \/ Killed)

ClearProgress == progress' = NoFile

StartsOver ==
  /\ Goto("q1")
  /\ answers' = NoAnswers /\ told' = NoAnswers /\ conflict' = 0 /\ provider' = "none"

\* runSetup: a progress file that is there and can be read leads to a prompt.
RunSetup ==
  /\ page = "start"
  /\ IF progress \in {NoFile, Garbled} THEN StartsOver ELSE Goto("resume?") /\ UNCHANGED wizData
  /\ UNCHANGED <<streamVars, wizFiles, wizHost>>

\* resumeSetup: "" is a yes. The questions that were not asked have the answer
\* no, and are not asked.
Resume ==
  /\ page = "resume?"
  /\ Goto("advise")
  /\ answers' = progress.answers
  /\ conflict' = 0 /\ provider' = "none"
  /\ UNCHANGED <<streamVars, told, wizFiles, wizHost>>

Decline ==
  /\ page = "resume?"
  /\ ClearProgress /\ StartsOver
  /\ UNCHANGED <<streamVars, config, wizHost>>

\* A question of runWizard, its stage and the next page. "" ends the wizard and
\* leaves what was saved.
Ask(q, stage, next) ==
  /\ page = stage
  /\ \/ \E yes \in BOOLEAN :
          /\ answers' = [answers EXCEPT ![q] = yes] /\ told' = [told EXCEPT ![q] = yes]
          /\ SaveProgress(stage, answers', next)
     \/ Ends("error") /\ UNCHANGED <<answers, told, progress>>
  /\ UNCHANGED <<streamVars, conflict, provider, config, wizHost>>

AskAll == Ask("sensitive", "q1", "q2") \/ Ask("cost", "q2", "q3") \/ Ask("offline", "q3", "advise")

-----------------------------------------------------------------------------
\* runInstallPhase: the conflicts, one after the other, or the menu.
Advise ==
  /\ page = "advise"
  /\ IF DetectConflicts(answers) = <<>> THEN Goto("menu") /\ UNCHANGED conflict
     ELSE Goto("arbitrate") /\ conflict' = 1
  /\ UNCHANGED <<streamVars, answers, told, provider, wizFiles, wizHost>>

\* resolveConflicts: the choice of the last conflict is the one that counts.
Arbitrate ==
  /\ page = "arbitrate"
  /\ LET options == DetectConflicts(answers)
     IN \E i \in DOMAIN options[conflict] :
          /\ provider' = options[conflict][i]
          /\ IF conflict < Len(options) THEN Goto("arbitrate") /\ conflict' = conflict + 1
             ELSE Goto("confirm") /\ UNCHANGED conflict
  /\ UNCHANGED <<streamVars, answers, told, wizFiles, wizHost>>

\* "" at a conflict; three answers that are none, or the end of the context,
\* at the confirmation. What was saved stays.
Cancel ==
  /\ page \in {"arbitrate", "confirm"}
  /\ Ends("error")
  /\ UNCHANGED <<streamVars, wizData, wizFiles, wizHost>>

Confirm ==
  /\ page = "confirm"
  /\ SaveProgress("install", answers, "install")
  /\ UNCHANGED <<streamVars, wizData, config, wizHost>>

\* The menu; "" is its first entry, unless the context is over.
Choose ==
  /\ page = "menu"
  /\ \E i \in 1..3 : provider' = Menu(answers)[i].provider
  /\ SaveProgress("install", answers, "install")
  /\ UNCHANGED <<streamVars, answers, told, conflict, config, wizHost>>

\* Mistake: the progress of the session that is given up stays.
RestartOnly ==
  /\ page = "menu"
  /\ StartsOver
  /\ UNCHANGED <<streamVars, wizFiles, wizHost>>

Restart ==
  /\ page = "menu"
  /\ ClearProgress /\ StartsOver
  /\ UNCHANGED <<streamVars, config, wizHost>>

\* "n" at the confirmation or the menu, and at the menu three answers that are
\* none or the end of the context: the progress goes and the status is 0.
GiveUp ==
  /\ page \in {"confirm", "menu"}
  /\ ClearProgress /\ Ends("ok")
  /\ UNCHANGED <<streamVars, wizData, config, wizHost>>

-----------------------------------------------------------------------------
\* InstallOllama: ollama may be there after a failure too.
InstallOllama(next) ==
  \/ ollama' = TRUE /\ Goto(next)
  \/ ollama' \in {ollama, TRUE} /\ Ends("error")

\* The map a write starts from: a file that cannot be parsed is an empty one.
Existing == IF config = Garbled THEN NoConfig ELSE config

\* Mistake: the key is written and the default provider is not.
WithKeyOnly(p) == [Existing EXCEPT !.keys = @ \cup {p}]

WithKey(p) == [Existing EXCEPT !.keys = @ \cup {p}, !.default = p]

\* ConfigureDeepSeek and ConfigureAnthropic: no key, one that is refused, or
\* one that is written and put in the environment; or the write fails or dies.
Configure(p, next) ==
  \/ Ends("error") /\ UNCHANGED <<config, env>>
  \/ config' = WithKey(p) /\ env' = env \cup {p} /\ Goto(next)
  \/ config' = Garbled /\ UNCHANGED env /\ (Ends("error") \/ Killed)

Install ==
  /\ page = "install"
  /\ \/ /\ provider = "ollama"
        /\ InstallOllama("done")
        /\ UNCHANGED <<wizFiles, env>>
     \/ /\ provider \in Keyed
        /\ Configure(provider, "done")
        /\ UNCHANGED <<progress, ollama>>
     \/ /\ provider \notin Keyed \cup {"ollama", Hybrid}
        /\ ClearProgress /\ Ends("ok")
        /\ UNCHANGED <<config, env, ollama>>
     \/ /\ provider = Hybrid
        /\ IF ollama THEN Goto("anthropic") /\ UNCHANGED ollama ELSE InstallOllama("anthropic")
        /\ UNCHANGED <<wizFiles, env>>
  /\ UNCHANGED <<streamVars, wizData, userEnv, yaml>>

\* runHybridInstall, after each part of which the context is looked at.
HybridKey ==
  /\ page = "anthropic"
  /\ IF ctx = "done" THEN Ends("error") /\ UNCHANGED <<config, env>>
     ELSE IF "anthropic" \in env THEN Goto("mode") /\ UNCHANGED <<config, env>>
     ELSE Configure("anthropic", "mode")
  /\ UNCHANGED <<streamVars, wizData, progress, userEnv, yaml, ollama>>

\* SaveMode: it may fail before the file is touched, or while it is rewritten.
HybridMode ==
  /\ page = "mode"
  /\ \/ Ends("error") /\ UNCHANGED config
     \/ ctx = "live" /\ config' = [Existing EXCEPT !.mode = "hybrid"] /\ Goto("clear")
     \/ ctx = "live" /\ config' = Garbled /\ (Ends("error") \/ Killed)
  /\ UNCHANGED <<streamVars, wizData, progress, wizHost>>

Succeed ==
  /\ page = "done"
  /\ SaveProgress("done", answers, "clear")
  /\ UNCHANGED <<streamVars, wizData, config, wizHost>>

Finish ==
  /\ page = "clear"
  /\ ClearProgress /\ page' = "over" /\ outcome' = Outcome("ok", provider)
  /\ UNCHANGED <<streamVars, wizData, config, wizHost>>

\* The process is killed between two steps.
Kill ==
  /\ page \notin {"none", "over"}
  /\ Killed
  /\ UNCHANGED <<streamVars, wizData, wizFiles, wizHost>>

\* The user runs the wizard again, or "mode set".
RunAgain ==
  /\ page = "over"
  /\ ctx' = "live" /\ env' = userEnv
  /\ page' = "start" /\ outcome' = Outcome("running", "none")
  /\ UNCHANGED <<reader, served, hand, chunks, output, wizData, wizFiles, userEnv, yaml, ollama>>

SetMode(m) ==
  /\ page = "over"
  /\ \/ config' = [Existing EXCEPT !.mode = m] /\ UNCHANGED <<page, outcome>>
     \/ config' = Garbled /\ Killed
  /\ UNCHANGED <<streamVars, wizData, progress, wizHost>>

WizardNext ==
  \/ RunSetup \/ Resume \/ Decline \/ AskAll
  \/ Advise \/ Arbitrate \/ Cancel \/ Confirm \/ Choose \/ Restart \/ GiveUp
  \/ Install \/ HybridKey \/ HybridMode \/ Succeed \/ Finish
  \/ Kill \/ RunAgain \/ (\E m \in Modes : SetMode(m))
=============================================================================
