---------------------------- MODULE ProviderChoice ----------------------------
(***************************************************************************)
(* The recommendation engine of the setup wizard (internal/setup/          *)
(* scoring.go, recommend.go, conflict.go) and the choice of a model by the *)
(* commands that chat (internal/model/config.go, internal/config,          *)
(* cmd/clue-code/chat.go): pure functions of the answers and of the files. *)
(***************************************************************************)
EXTENDS Naturals, Sequences, FiniteSets

CONSTANT AppleSilicon   \* the wizard runs on darwin/arm64

Questions == {"sensitive", "cost", "offline"}
AnswerSets == [Questions -> BOOLEAN]
NoAnswers == [q \in Questions |-> FALSE]

Scores(name, m, priv, cost, qual, off) ==
  [provider |-> name, model |-> m, sensitive |-> priv, cost |-> cost,
   quality |-> qual, offline |-> off]

\* ProviderTable; the field of a dimension has the name of its question.
ProviderTable == <<
  Scores("ollama", "llama3.2", 10, 10, 5, 10),
  Scores("ollama", "qwen2.5-coder:32b", 10, 10, 8, 10),
  Scores("ollama", "deepseek-r1:7b", 10, 10, 7, 10),
  Scores("mlx", "Llama-3.2-3B", 10, 10, 6, 10),
  Scores("deepseek", "deepseek-chat", 4, 9, 8, 0),
  Scores("anthropic", "claude-sonnet-4-5", 4, 2, 10, 0),
  Scores("groq", "llama-3.3-70b", 4, 7, 8, 0),
  Scores("openrouter", "various", 4, 6, 9, 0) >>

\* WeightsFromAnswers: quality counts when cost does not.
Weights(a) ==
  [d \in Questions \cup {"quality"} |->
     IF d = "quality" THEN (IF a["cost"] THEN 0 ELSE 5) ELSE IF a[d] THEN 5 ELSE 0]

ScoreProvider(p, w) ==
  p.sensitive * w["sensitive"] + p.cost * w["cost"]
    + p.quality * w["quality"] + p.offline * w["offline"]

\* RankProviders: a stable sort, best first.
Better(a, i, j) ==
  LET s(k) == ScoreProvider(ProviderTable[k], Weights(a))
  IN s(i) > s(j) \/ (s(i) = s(j) /\ i < j)

RankProviders(a) ==
  LET kept == {i \in DOMAIN ProviderTable : ProviderTable[i].provider # "mlx" \/ AppleSilicon}
      place(i) == 1 + Cardinality({j \in kept : Better(a, j, i)})
  IN [n \in 1..Cardinality(kept) |-> ProviderTable[CHOOSE i \in kept : place(i) = n]]

\* The menu: the best and two runners-up. None is offered after a conflict.
Menu(a) == SubSeq(RankProviders(a), 1, 3)

Hybrid == "hybrid:ollama+anthropic"

\* DetectConflicts: for each, the providers of its three options.
DetectConflicts(a) ==
  (IF ~a["cost"] /\ a["offline"] THEN <<<<"anthropic", "ollama", Hybrid>>>> ELSE <<>>)
  \o (IF a["sensitive"] /\ ~a["cost"] THEN <<<<"ollama", "anthropic", Hybrid>>>> ELSE <<>>)

-----------------------------------------------------------------------------
\* A config.json: the keys it holds, the default provider, and the mode.
NoConfig == [keys |-> {}, default |-> "none", mode |-> "none"]

\* LoadConfig: the providers of the models of config.yaml, or deepseek's when
\* there is no such file (<<>>). The model of anthropic is added, and is the
\* default, when the wizard chose it and no model of config.yaml is anthropic's.
AddsAnthropic(listed, c) ==
  /\ c.default = "anthropic" /\ "anthropic" \in c.keys
  /\ \A i \in DOMAIN listed : listed[i] # "anthropic"

ListedModels(yaml) == IF yaml = <<>> THEN <<"deepseek">> ELSE yaml

LoadedModels(yaml, c) ==
  LET listed == ListedModels(yaml)
  IN IF AddsAnthropic(listed, c) THEN Append(listed, "anthropic") ELSE listed

DefaultModel(yaml, c) ==
  IF AddsAnthropic(ListedModels(yaml), c) THEN "anthropic" ELSE Head(ListedModels(yaml))

\* resolveModelID: the first local model in mode "local", if there is one.
LocalProviders == {"ollama", "mlx"}

ResolveModel(yaml, c) ==
  LET loaded == LoadedModels(yaml, c)
      local == {i \in DOMAIN loaded : loaded[i] \in LocalProviders}
  IN IF c.mode = "local" /\ local # {}
     THEN loaded[CHOOSE i \in local : \A j \in local : i <= j]
     ELSE DefaultModel(yaml, c)

\* NewClient: a cloud model needs a key, of the environment or of config.json.
HasKey(p, c, env) == p \in LocalProviders \cup c.keys \cup env
=============================================================================
