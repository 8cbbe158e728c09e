# A TLA+ verification of clue-code

clue-code is a terminal coding agent written in Go: a REPL and a TUI over several model providers, with teams of
workers, hooks, skills, a token budget, a key-value state store and an MCP bridge. This directory models the parts
that run concurrently or must survive a crash, checks them with TLC on small instances, and proves the most
important results with TLAPS for every instance. `PROJECT.json` lists the runs, the properties with the mistake
each one catches, the source lines of every definition, the hazards and the theorems.

## 1. The system: inventory

Each entry gives the state a component keeps, its operations, who it interacts with, what is hard about it, and
what makes it correct.

### Team runtime (`internal/team`), the core

* **Task scheduler** (`scheduler.go`). State: two maps under `s.mu`, id → task and id → `DependsOn`. `AddTask`
  inserts, runs Kahn's algorithm over the graph and rolls back on a cycle; `MarkComplete` starts every blocked task
  whose dependencies are complete; `MarkFailed` cascades nothing. Hard: forward references, duplicates in a list,
  re-used ids, the rollback. Correct when the board never holds a circle, no completion is lost, and a task
  starts only when what it needs is complete.
* **Journal** (`journal.go`, `transport.go`). State: one NDJSON file, an flock, an open handle under `j.mu`.
  `OpenJournal` takes the lock and cuts a torn tail, `Append` writes one line and fsyncs, `Read` decodes all lines,
  `Close` releases. Hard: crashes of the process and of the machine between any two of these, failing writes and reads, two
  processes. Correct when it is a durable log: an acknowledged record stays readable, a synced line never changes.
* **Task board** (`team.go`). State: the registered tasks, the sequence counter, the journal, and the cache files
  `team.json` and `tasks.json`. `TaskCreate` and `TaskUpdate` validate, journal, apply and write the snapshot under
  four different locks in turn; `Open` replays the journal. Hard: calls of several goroutines between those locks,
  ids that are created again (the caller's id is used unchecked), a failing `Append`, a crash at any step, a replay that computes again what was computed before. Correct when
  nothing is shown that is not journaled, no wakeup is lost, numbers are unique, and `Open` restores the board.
* **Messages** (`team.go`, `message.go`, `panic.go`). State: worker → bounded channel under `t.mu`. `SendMessage`
  looks a channel up, tests its room, journals and pushes in separate steps; `Inbox` creates or returns it; `Close`
  stops the detector, closes the channels, empties the map and closes the journal; `RunWorker` recovers a panic,
  reports the task failed and broadcasts. Hard: a channel kept across `Close`, two first users, a full mailbox.
* **Stall detector** (`stalled.go`). State: last progress (atomic), a state under `sd.mu`, a done channel. A
  goroutine checks at each tick and broadcasts an event once per stall; `Stop` waits at most 100 ms. Correct when
  silence is reported, again after each progress, and the goroutine ends.
* **Transports** (`inproc.go`, `subprocess.go`, `transport.go`, and the commands `team demo` and `team-worker`). State: two
  pipes with one envelope per line, the child process and a goroutine that waits for it. One goroutine sends, one
  receives, `Close` shuts stdin, sends SIGTERM and after 3 s SIGKILL. Hard: a worker that ends while its acks are unread, a
  signal to both processes. Correct when acks match pings and no way of ending hangs.
* **Limits, clock** (`forkbomb.go`, `internal/clock`). Two comparisons, and a wrapper of time.

### Other components with state

* **MCP client** (`internal/adapters/mcp/client.go`). State: id → channel and a mutex that also covers the write to
  the server's stdin, a closed flag, the goroutine that reads answers. Hard: late, repeated and missing answers,
  full pipes on both sides, the server's death, `Close` at any moment.
* **State store** (`internal/state/store.go`, `lock.go`). State: one JSON file of versioned entries per scope, a tmp
  file beside it, an flock on a companion file, and append files of their own. Every write reads the whole file, writes
  it anew and renames; `WriteIfVersion` is optimistic, `WriteWithRetry` repeats on a busy lock, `Read` takes no lock.
  Hard: overlapping writers in several processes, a crash or an error before the rename, versions that start again
  after `Clear`, short writes of `Append`. Correct when it is a linearizable map and no optimistic write is blind.
* **Session registry** (`session.go`, `registry.go`). State: an index file of descriptors under the same kind of lock, a
  heartbeat file per session, and a watcher with the list it last sent and a channel of 64. `StartSession` reads the
  index, inserts or replaces its descriptor, writes a temporary file and renames; `Watch` polls once a second and drops the
  oldest event of a full channel. Hard: processes that start at once, fail or die between any two of these; events
  against a full channel. Correct when no descriptor is lost and the last event tells the last list.
* **Token cache** (`internal/tokens/cache.go`). State: an LRU list and a map in memory over one file per key. `Get` reads a
  file without the lock, `Put` is a half under the lock and one outside it, `InvalidateByMtime` removes files in
  goroutines, `Clear` empties both. Hard: loads and saves that race with each other and with removals, saves that fail,
  edited source files. Correct when the list and the map agree, the capacity holds, and memory and file hold the same.
* **Token budget** (`internal/tokens/budget.go`, `analytics.go`). State: reserved and spent amounts of the day, and two
  ledgers whose write errors are dropped. Hard: the release of reservations, midnight, also within a call, lines that are
  missing or cut short, the replay of a ledger. Correct when calls together do not spend
  more than the limit of the day, and the ledgers agree with what was answered as far as their lines were written.
* **Model HTTP client** (`internal/model`). `postJSON` retries a request, `postJSONWithMiddleware` joins cache and budget
  around it; `postSSE` and Anthropic's `ChatStream` start a goroutine that reads the body and sends chunks on a channel of
  64. Hard: a consumer that has gone, a context that ends while the channel is full. Correct when every piece arrives in
  order and the goroutine does not outlive a cancelled command.
* **Hooks** (`internal/hooks`). State: a count of `Fire`s per session and an environment variable for nested processes.
  `Fire` runs an event's hooks in order and stops at a blocking one that does not pass. Correct when no way of ending
  (status, time limit, failed start, cancellation, guard) lets a blocking hook pass by accident.
* **Skill runner** (`internal/skillrunner`). `Engine.Run` fires `SessionStart`, runs the skill under a `recover` and fires
  `Stop`; `RealRunner.Run` renders the prompt, fires the three middle events, and copies the model's stream to the
  output and to the transcript. Hard: each step can fail, panic or be cancelled, and two hooks are deferred.
* **Orchestrator** (`internal/orchestrator`). `MoA` asks several models in parallel goroutines, collects their reports
  from a channel, judges whether two thirds have answered and has an agent synthesize; `Dispatch` ranges over that
  agent's stream. Correct when each model is accounted for before the judgment. Router and modes are pure functions.

* **Interactive loop and chat** (`cmd/clue-code/repl.go`, `repl_meta.go`, `chat.go`). State: the history, the tokens, the
  model's id and the client. A loop reads a line, sends the history, copies the stream and appends the answer; Ctrl+C
  ends an exchange and the context is armed anew. Hard: an interruption or a failure at any point of an exchange, and
  what it leaves in the history. Correct when the history remains a dialogue.
* **Setup wizard** (`cmd/clue-code/setup.go`, `internal/setup`, `mode.go`). State: a progress file, `config.json`, and the
  environment of the process. Three questions, a scoring of providers, conflicts that are arbitrated, an installation. Hard:
  crashes and cancellation on any page, a resume with old answers, files torn by a rewrite in place. Correct when it
  installs what its user asked for and the commands then use what it installed.
* **Configuration and providers** (`internal/config`, `internal/model/config.go`). Two files and the environment are merged
  into a list of models, of which a command takes the first that fits. Pure functions of the files.
* **Terminal UI** (`internal/tui`). State: six views with a list, a selected row and a window each; loads and watchers that
  run as goroutines and report by messages. Hard: messages in any order, sizes that change between them. Correct when no
  view cuts a list outside its bounds and what it lists is what is there.

### Components without behaviour worth a model

Aider adapter, MCP tool bridge, the providers' request formats, state paths, team limits, the `doctor` report and the
listings: sequential code that parses, formats or prints. `PROJECT.json` lists each with the reason.

### How they interact

The command line opens a `Team`; worker goroutines (under `RunWorker`) and the lead call `TaskCreate`, `TaskUpdate`,
`SendMessage` and `Inbox` on it. The team calls the scheduler and the journal and resets the stall detector, which
writes to the journal and the mailboxes from its own goroutine. Everything is shared memory under three mutexes
(`t.mu`, `s.mu`, `j.mu`), plus the flock between processes; the modules say which of them a step holds. The MCP client
and the token and state packages are used by the commands and the model client and know nothing of teams. The
commands that ask a model share the streaming half of the model client, one stream per exchange, and a signal handler.
`team demo` starts worker processes and talks to them over pipes. The terminal UI and `Watch` read the session index that
other processes write. The wizard writes `config.json`, from which every later command chooses its model.

## 2. Modules

| module | models | state and actions |
| --- | --- | --- |
| `TaskGraph` | the questions asked of the graph | pure operators: `HasCycle`, Kahn's algorithm as `Visited`, `Startable`, `Unblock`, ... |
| `Scheduler` | `scheduler.go`, one call per step | `tasks`, `deps`, `status`; `AddTask`, `TaskUpdate` |
| `DurableLog` | what a team expects of its journal | a log and its durable prefix; `Write`, `Commit`, `Lose`, `Damage` |
| `Journal` | `journal.go` | file lines, torn tail, fsync mark, what a truncation may undo, flock, a program counter and a recovery's scan per handle; refines `DurableLog` |
| `Team` | `team.go`: the task board | board with the newest and the older tasks of an id, journal (as the durable log), cache file, a program counter per thread; crashes and `Open` |
| `TeamMail` | messages, `Close`, `RunWorker`, stall detector | numbered channels, each thread's kept references, the detector's and `Close`'s program counters |
| `McpClient` | `client.go` | pending map, channels, both pipes, callers, `readLoop`, the server as environment, `Close` |
| `VersionedMap` | what the callers of a store expect | a versioned map; a call begins, takes effect at one instant, ends |
| `StateStore` | `store.go`, `lock.go` | file, tmp file, two flocks, append file, a program counter per process; what each process has learned; refines `VersionedMap` |
| `ChatStream` | `postSSE`, Anthropic's `ChatStream` | the context, the reading goroutine, the channel, the output |
| `SkillRun` | `Engine.Run`, `RealRunner.Run`, `Fire`, `runSpec` | a program counter `step`, the hooks left of an event, transcript, result |
| `Moa` | `MoA`, `Dispatch` | a program counter per goroutine and for the collector, the channel of reports, responses and errors |
| `Repl` | `runREPL`, `runBatchStdin`, `chat` | a program counter `talk`, history, counted exchanges, model id and client |
| `ProviderChoice` | `scoring.go`, `recommend.go`, `conflict.go`, the merge of the configurations | pure operators: `RankProviders`, `Menu`, `DetectConflicts`, `ResolveModel`, ... |
| `Wizard` | `setup.go` and its package, `mode set` | a program counter `page`, answers, progress file, `config.json`, environment |
| `SessionRegistry` | `StartSession`, `GetStatus`, `Watch` | index, tmp file, flock, a program counter per process, the watcher and its channel |
| `Dashboard` | `tui` | size, and per view rows, cursor, window and what is loading |
| `WorkerTransport` | both transports under `team demo`, the worker process | both pipes, a program counter for the sender and for the worker, acks, the process's end |
| `Commands` | the commands of the program | composes all of the above from `ChatStream` on: one command, or a watcher or the dashboard beside processes that start sessions |
| `TokenCache` | `cache.go`, each section under `c.mu` | pure operators on a memory: `PutMemory`, `Promote`, `Evict`, `Invalidate`, ... |
| `SpendMeter` | `budget.go`, `analytics.go` | pure operators on a meter: `Reserve`, `Commit`, `Replay`, ..., and on a book of lines: `Appended`, `CutShort` |
| `TokenPath` | `postJSONWithMiddleware`, `postJSON`, `Clear`, `InvalidateByMtime` | memory, files, meter, the two books, a program counter per request |
| `SchedulerProofs`, `JournalProofs`, `TeamProofs`, `TeamMailProofs`, `McpClientProofs`, `StateStoreProofs`, `CommandsProofs`, `TokenPathProofs` | the theorems | |
| `MC...` | TLC instances | constants only |

Conventions. One action is a stretch of code with no observable point inside: it ends where a lock is released,
a file or channel is touched, or another goroutine may run. A program counter names the point reached. Go map
iteration is a free choice at every step. Definitions whose comment begins with "Mistake" are not part of any
specification: each is a plausible bug that `PROJECT.json` pairs with the property that finds it.

`Team` uses the journal as one atomic, durable `Append`. That is what `Journal` implements (`ImplementsDurableLog`,
checked and proved), so the composition is: `Journal` implements `DurableLog`, `Team` and `TeamMail` are written over
it. Both assume that no read of the file fails while a team is opened; what happens otherwise is in `Journal` (`ScanFails`), whose
recovery then cuts off the end of the log, and `DurableLog` calls it a `Damage`. `Scheduler` and `Team` use the atomic `HasCycle` because `s.mu` is held from the insertion to the verdict;
`KahnAgrees` says that `detectCycle` decides exactly that, whatever order Go's maps iterate in. `Team` and `TeamMail`
share only the sequence counter and the journal, so they are checked apart; numbers drawn by the other half are left
out of each. `StateStore` stands alone: its callers see only the `VersionedMap` it implements. `SkillRun`, `Moa`,
`Repl` and `Wizard` extend `ChatStream`, since they share its context and the first three hold the other end of its
channel; a process runs one of them. `Dashboard` extends `SessionRegistry`, whose index two of its views read.
`TokenPath` joins the operators of `TokenCache` and `SpendMeter` in the order `postJSONWithMiddleware` calls them.

Ghosts mark where the code leaves the promise of a property, and each is set as narrowly as the trace requires: `overtaken` (a
check of the detector that lies between its two reads when progress comes), `reused` (an id was created again), `lost` (in
`Journal`: lines cut by a misread; in `TokenPath`: a ledger line was not written), `unseen` (what a ledger line dated after
midnight, or a start that could not read, has hidden from the meter), `raced` (keys whose file was used by two at once or
whose save failed). TLC found the trace behind each when the property was stated without it; section 4 tells it.

Tasks created again. `AddTask` stores the second `Task` under the id at once, `Team.tasks` keeps the first until the call has
journaled and registers the second, and a rejection deletes the id from the scheduler. So several `Task` values of an id can
be alive. In `Team`, `status` is that of the newest; `shown` and `made` are those of the older ones, which `Team.tasks` or a call on its way
still refer to. `Apply` writes to the one that is registered, `MarkComplete` to the newest, as the pointers of the code do.

Where the data is abstracted: a journal line is a record number, a message its sequence number, an answer the number
of its call, a piece of streamed text its place in the answer, a stored value the number of the call that wrote it, and the number of keys a `Clear` removed is the set of
them. A session is the process that started it, a cached payload a version, a price a whole number, a line typed into the
wizard what it is read as, a view the lengths of its lists. Timestamps, payloads, titles and error texts do not
appear. Time is a count of steps without progress.

## 3. Runs

| run | instance | what it shows |
| --- | --- | --- |
| `scheduler` | 3 ids, all lists of at most 2 names | circle-freedom, `detectCycle` right in every map order, no stuck task, and, with workers that finish, that every blocked task is started |
| `scheduler_reject` | same, ids may be re-used | *violation*: a rejected re-creation deletes the registered task |
| `journal` | 2 handles, 3 records, failing writes, failing reads in recoveries | refinement of the durable log, exclusive and clean open handles, synced lines removed by misread recoveries only |
| `journal_torn_write` | same | *violation*: after a short write under a live process acknowledged records become unreadable |
| `team` | 2 threads, tasks a and b with a circle to reject and ids to create again, 5 numbers, crashes, failing `Append` | no lost wakeup, unique numbers, write-ahead, what is registered is scheduled while no id is created again, exact restore for serial use |
| `team_restore` | same, no failures | *violation*: overlapping updates are restored in the other order |
| `mail` | 1 mailbox of capacity 1, a worker and another goroutine, 2 numbers, 2 channels | journal before mailbox, one channel per mailbox and never more in it than it holds, nobody but an overlapped call finds a closed channel to send on, stalls are reported, after a restart too, unless a check was overtaken, `Close` ends detector and readers |
| `mcp` | 2 goroutines, 3 calls, pipes of 1 message, up to 2 answers per request | answers reach their own calls, no send on a closed channel, calls end after a crash, answers in the pipe arrive, `Close` ends the server |
| `mcp_close` | same | *violation*: `Close` after an overlong response line leaves the server running |
| `store` | 2 processes, 2 keys, prefixes of one and of both, 4 calls | the store is a linearizable versioned map in spite of overlaps, failing system calls and crashes; no blind optimistic write; appended values stay whole |
| `commands` | see below | blocking hooks gate the model; output and transcript are the answer; every model of a mixture is accounted for; the history is a dialogue; a demo's verdict is true; the registry keeps every session and its last event; no view cuts out of bounds; the wizard installs what was asked for and what it installed is used; a cancelled command and its reader end; what changes in the registry is seen |
| `tokens` | 2 requests at a time, 3 in all, over 2 keys (one paid and with a source file, one free), memory of 1, limit of 1, 2 attempts, 3 events, 4 requests and events together, failing uses of files | memory and file agree again after a `Put` that had the file to itself, the limit of the day holds, ledgers and meter agree with the answers as far as lines were written |

### Bounds, and why they suffice

* Three ids and lists of two give cycles of length one, two and three, duplicates, self references, forward
  references and two dependents of one task. The proofs remove the bound.
* Three records are one acknowledged, one lost and one written after a recovery; two handles contend; a misread
  recovery may cut any number of them. Removed by the proofs as well.
* In `team` two tasks suffice for a dependency and for the creation that would close the circle; two threads for every
  pair of overlapping calls; `MaxSeq` 5 for both creations, two updates and a number lost with a failed append, or for an id created
  twice and what follows. `Reports` are completed and failed, the two that reach the scheduler: with running, which only
  writes the status, the same properties held (4.7 million states), in more time than a run should take. `MaxSeq` and `Reports` are free in the proofs.
* In `mail` a mailbox of one is full after one message. Larger safety-only instances (two mailboxes, three channels;
  three numbers) were explored with the same invariants and no violation. `AppendFailures` is FALSE there because a
  closed journal already fails appends in the interesting moments; the bound on numbers makes the step that draws
  one a stop, which `Room` in the liveness properties accounts for. A team is created, or opened again with a
  newest record of any age and the mailboxes of its tasks' owners.
* In `mcp` a pipe of one message is full after one write, two callers block each other on the mutex, three calls
  let an old answer meet a new call, and two answers fill a channel.
* In `store` two processes contend for a lock; a key inside and one outside a prefix distinguish `Clear`s; four calls are
  what it takes to learn a version, clear it, write it again and attempt a `WriteIfVersion`. The proofs remove the
  bound. An flock belongs to an open file and every call opens its own, so goroutines are processes here.
* In `commands` a channel of one is full after one piece, so a second piece and the terminal chunk meet a full channel and
  a consumer at every point of its loop. One plain hook before a blocking one has a failure to ignore and one to act on.
  `MaxHookDepth` 1 gives a process at the limit and one below it. Three models are the least for which two thirds are
  neither none nor all; a model listed twice is where reports and answers differ. Two exchanges are the least in which
  one follows another that failed; of two model ids one has no client. The wizard sees every set of answers, an
  environment with no key and with one, and `config.yaml` missing or naming two other providers, a cloud
  one and a local one, so that the mode decides; a torn file and a resume need no more. Of three processes two share an id, and any two start at once: one replaces or follows the other; a
  channel of one drops an event at the second. The dashboard has a terminal below every minimum the views
  subtract (4 by 4) and one in which a window is shorter than its list (80 by 6), lists of up to two entries and
  two overlapping loads. `AppleSilicon` is TRUE: FALSE only takes an entry from the ranking.
  Two pings over pipes of one are the least in which one is sent while the ack of another is unread; the two pairs of a
  demo share nothing but a channel that has room for both results, so one is modelled.
* In `tokens` a memory of one evicts at the second key, a limit of one refuses the second paid call while one is reserved
  or spent, two attempts fail once and then succeed or fail for good. The events are any of clear, edit,
  invalidation, midnight (alone or inside a call), restart, and a failing save or ledger write; a failing load or removal is free. Three requests meet one of them, two meet two, and one meets three: two loads of a
  file that an earlier request wrote and a clear; an edit, an invalidation and a request on each side of them; a midnight
  and the restart after it. `MaxEvents` and `MaxBoth` bound the environment and not the code, and `TokenPathProofs` needs
  none of the bounds.

`CHECK_DEADLOCK FALSE` appears where a run legitimately ends: disciplined workers finish everything, a closed team,
a closed or dead client, a command that has returned, a store whose bounded number of calls is used up.

### Fairness

* `Scheduler!FairSpec` assumes that workers finish what they may work on. The code does not guarantee it; the
  property is about the scheduler under workers that do.
* `TeamMail!FairSpec`: the ticker ticks and the Go scheduler runs runnable goroutines (weak fairness for clock,
  detector, readers, a `Close` that has begun). The detector selects at random between tick and done: strong fairness
  for taking done. Nobody is obliged to send, panic or close.
* `McpClient!FairSpec`: weak fairness for the callers' code, `readLoop` and the 3 s timer of `Close`. Go mutexes do not
  starve. The server is owed nothing and no context has to end, so the calls end without the help of deadlines.
* `Commands!FairSpec`: weak fairness for the command's code, the reading goroutine when its context is over or it has
  something to send, and the timer of the parallel phase. A hook ends because `runSpec` kills it at its limit. No model
  has to answer, no stream to end, no user to type and no signal to come: `CommandEnds` starts from those events. A
  watcher polls every second, the dashboard's watcher fires every five, and each load that was asked for runs and is
  delivered: weak fairness for each. Nobody is obliged to start a session. A worker process runs when it can: a demo
  whose worker hangs waits for ever, and Ctrl+C does not help, since the demo never looks at its context.

## 4. What the code does otherwise

Four runs find behaviour that a comment or a document excludes; `PROJECT.json` quotes both sides.

1. `scheduler_reject`: `AddTask` of a registered id with a cyclic list deletes the registered task.
2. `journal_torn_write`: a short write leaves bytes that corrupt the next acknowledged record, and with it the team.
3. `team_restore`: `TaskUpdate`s journaled in one order and applied in the other.
4. `mcp_close`: `Close` does nothing once `readLoop` has ended on a line above 64 KiB.

Six are the exceptions of properties that hold otherwise. Each was found by TLC in a smaller form of the same
instance, with the property stated as the comment has it:

* `RecoverTornTail` takes a read error for the end of the file (`journal.go:166`) and cuts off synced, acknowledged lines,
  although `journal.go:145` speaks of partially written records only (`CutsMisread` in `SyncedLinesKept`, `lost`).
* A task created again is in the scheduler before it is in the journal. Task a waits for b; a second creation of a, without
  dependencies, is accepted and not yet journaled; b, waiting for a, is accepted and journaled; the process dies. `Open` then
  finds a circle, drops the error (`team.go:252`, "data was valid when written") and lists a task that the scheduler does not
  know (`reused`).
* `Open` writes `tasks.json` only when it is missing (`team.go:304`), not when it is torn or out of date, although
  `docs/team-transport.md:70` says that caches are rebuilt on conflict or corruption. No property covers this.
* A check of the detector that read `lastProgress` before a progress sets the state after it (`stalled.go:118`): it reports
  the silence before and none is reported until the next progress, against `stalled.go:15` (`overtaken`).
* Two `Put`s of a key take `c.mu` in one order and the file in the other (`cache.go:215`): memory and file then disagree although
  every write succeeds, against `cache.go:213` (`raced`).
* Midnight between the two clock readings of a call (`budget.go:123` and `136`) dates its ledger line on a day whose meter has not
  counted it; a process that starts then has another meter, against `budget.go:92` (`unseen`).

Others were met while modelling and have no run of their own:

* A call that passed the `closed` test before `readLoop` ended and registers after its drain is never answered if its
  write still succeeds (`Forgotten` in `CrashEndsCalls`; `client.go:272` says blocked callers are woken).
* A second answer to a call that has gone blocks `readLoop` for ever (`BlockedOnDuplicate`), and a write on a full
  pipe holds the mutex that `readLoop` needs (`CircularWait`); a context's end helps neither.
* `RunWorker`'s broadcast can panic in its deferred function when `Close` has closed a copied mailbox: a panicking
  worker then ends the process (`Broadcast`, `dead`), against "No cascade" in `docs/team-transport.md`.
* A sender that looked its channel up before `Close` panics in the push (`Push`); `ClosedIsLeft` is about those that begin
  after it.
* The detector can send on a closed channel when `Stop` gave up after 100 ms; `ClosedIsLeft` states the exception.
* A rejected re-creation leaves a registered task the scheduler does not know; `RegisteredIsScheduledUnlessReused` states the
  exception.
* A message may be journaled and then refused with `ErrMailboxFull`; a failed `Append` of a `TaskCreate` leaves the task in
  the scheduler; the order of sequence numbers is not the order of the journal.
* `internal/state/doc.go:10` says readers take a shared lock; `Read` takes none, which is harmless because a rename replaces the
  file as a whole (`ImplementsVersionedMap` covers it).
* After a `Clear` a version number may stand for another value: `WriteIfVersion` then overwrites what its caller never saw.
  `OptimisticSafe` states the exception. `Clear` and `Read` do not touch what `Append` wrote, which lies in other files.
* `skill run` may return nil although its context was cancelled in the middle of an answer: the reader's failed read is
  turned into an ordinary terminal chunk (`http.go:249`) and the `select` of `run_real.go:138` may take that chunk.
  `docs/PHASE_4_PLAN.md:688` (E4) says that `Engine.Run` returns `ctx.Err()`. A stream the server cuts is taken for a whole
  answer in the same way, by `skill run` and by `Dispatch`.
* A reader whose command has ended stays before a full channel for as long as the process lives (`Abandoned`).
* `MoA` counts models in a map: a model listed twice answers once, so a mixture in which all answered may still fail
  (`Judge`), although `moa.go:58` says it fails only when fewer than two thirds succeed. `AllModelsCount` therefore states
  one direction.
* `Engine.Run` computes `CLUE_CODE_SKILL_DEPTH` for child processes and drops it (`engine.go:109`), so its depth guard
  trips only when the user sets the variable.
* The comment of `Fire` says both that all blocking hooks are attempted and that the first failure stops the rest
  (`manager.go:44`); the code does the latter.
* `MarkComplete` tests and writes a status under `s.mu` while `TaskUpdate` writes it under `t.mu` (`Visit`, `Promote`, `Apply`).

* `ArmFromJournal` sets the last progress back to the newest record, so a team that was closed for longer than the
  threshold is reported stalled at its first tick, although the comments (`stalled.go:57`, `team.go:282`) say that this call
  prevents a false stall after a restart; a stall event in the journal counts as progress. A `TeamCreate` or `Open` that
  fails after it has started the detector leaves its goroutine running.
* `team tail` prints no line that is appended after it has started: a `bufio.Scanner` that has seen the end of the file
  returns false for ever (`team.go:174` of the command). `team inspect` opens the team as a participant does, with the flock and
  the recovery of the journal, and so fails on a team that runs; `docs/PHASE_4_PLAN.md:669` calls both operator
  views that read the files directly. The same document (D7) expects the demo's messages in the journal; they are not there.
* `team demo` ignores SIGINT and SIGTERM; a Ctrl+C reaches the workers alone and the demo then fails (`Disturb`). `main` may
  return before the deferred `Close` of a worker has run.

Of the token path:

* `postJSONWithMiddleware` calls `Commit(0)` "to release" a reservation; `Commit` subtracts its argument from what is
  reserved, so a failed call stays reserved until midnight or the next start (`http.go:145`). The limit then holds on the
  safe side, and `WithinLimit` is what remains true.
* Calls that reserved before midnight commit into the new day, which can exceed its limit by them (`carried` names the
  amount). So does an amount whose line a process could not read when it started, or whose line midnight dated. A
  ledger line that is cut short swallows the next one, and nobody is told; `BooksAgree` says that this only ever makes the
  books smaller. A crash between the answer and the commit leaves a call that no ledger ever charges. The budget is per
  process: two processes share the ledger only at their starts.
* A `Get` that has read a file and then meets a `Put` of the same key promotes the older payload (`cache.go:180`, against
  `cache.go:213`), and a `Get` or `Put` on its way undoes a `Clear`; a save that fails leaves the older file. `CacheSound` states
  agreement from the next `Put` that has the file to itself to the next overlap or failure.
* `postJSONWithMiddleware` and `NewBudget` have no caller outside the tests, and `NewCache` only `tokens clear-cache`: the
  modules model them as their tests and comments use them. `postJSONWithMiddleware` gives its entries no source file;
  `Sourced` stands for other users of the cache.

Of sessions and the dashboard:

* `Watch` compares the ids in the index only, so a session that changes under its id is not announced although the
  comment says "whenever the global sessions index changes" (`registry.go:18`). `RegistryIsSeen` therefore compares ids for
  the watcher and whole lists for the dashboard, which reads the index itself.
* The watchers of the sessions view double at every firing: each fires a load, and a load arms a watcher, as does
  the firing itself (`sessions.go:113`). `watchers` stops at two.
* A detail view is cut out of bounds on a terminal of at most three rows or columns, and a list at a width of one:
  `RendersInBounds` begins at four. After a resize the selected row may lie outside the window that is drawn.
* `q` ends the program also while a detail is shown, keys reach the views that are not on the screen, and the state view
  is read once.
* A session is listed although its `StartSession` has failed after the rename, and counts as ended before its first
  heartbeat. `StartSession` and `Watch` have no caller outside the tests.

Of the interactive loop and the wizard:

* Ctrl+C at the prompt is remembered and ends the next exchange; neither it nor SIGTERM leaves the loop (`Repl`).
* `/model` with an id for which no client can be built changes the session's model id and keeps the old client; in batch mode
  it does nothing. `chat` ends with status 0 when it is cancelled in the middle of a stream.
* After Ollama was installed, or the hybrid mode with a key that only the environment has, the wizard's advice to try
  `clue-code chat "hello"` resolves to `deepseek-chat` without a key; `ConfiguredIsUsed` is about the cloud providers.
  DeepSeek set up beside a `config.yaml` that does not name it is not used. The comment of `ConfigureDeepSeek`
  speaks of `config.yaml`; the code writes `config.json`.
* Ctrl+C or the end of stdin at the question whether to resume counts as yes; the end of stdin at the menu or the
  confirmation installs the default; a resume at the first or second question takes the remaining ones for answered with
  no. Of two conflicts only the last arbitration counts, and MLX is never offered although the table has it.
* `config.json` is rewritten in place: when a crash tears it, the next write silently begins from an empty one and the keys are lost.
* `InstallOllama` pulls `llama3.2` whatever model was recommended.

## 5. Proofs

All theorems hold for every value of the constants that satisfies the named assumptions.

**SchedulerProofs.** `TypeOK` is inductive. `AcyclicDeps` is preserved because an accepted insertion is checked on the
whole graph and removing a task or restarting a list from empty only removes edges (`SubgraphAcyclic`). `NoStuckTask`
is inductive with `TypeOK`: `UnblockResult` says what a scan leaves behind, and every other status write leaves its task
unblocked or its dependents still waiting. `SomeTaskCanRun` follows from the two: if no task could be worked on, the
blocked ones would be a set in which each waits for a member, that is, a cycle. `StartsWhenReady` is an action
property from the same lemmas; no run checks it. Ids and lists may be infinite. `KahnAgrees` speaks of a recursive function, whose counts
are shown along the least number of nodes left: the function exists, since the graph has finitely many nodes; a node
of a circle is never counted, and what is left uncounted when no degree is zero is a circle. So the count falls short
exactly when the insertion closes one, for lists with duplicates and any order of the maps and the queue.

**JournalProofs.** The invariant `IInv` strengthens `TypeOK` by: who holds the flock (`LockInv`), that a finished scan is
still true when its truncation runs (`ScanInv`), that the files a truncation may yet be undone to begin with the synced lines
(`UndoneInv`), that nothing is torn or garbled unless a write failed (`CleanInv`), that a written record has a number
(`WrittenInv`), and where a record lies before and after its acknowledgement, or that a misread recovery cut it off (`StoredInv`).
`AckedIsReadable` alone is not inductive: it says nothing of the record between write and fsync, nor why a
truncation may not cut it. `SyncedLinesStay` names the one step that removes synced lines, the truncation of a misread
recovery. The refinement theorem maps each step to a `DurableLog` step or a stutter, that truncation to a `Damage`; the mapped log
is the prefix of lines before the first garbled one, so it holds with failing writes too.

**McpClientProofs.** `IInv` follows a call's number from the caller through the map, both pipes, the server and
`readLoop` into the channel (`CallInv`, `PipeInv`, `LineInv`, `ChanInv`): `OwnAnswer` is its last link and not inductive
alone. `OpenInv`, that nothing closes a channel before the drain, gives `NoSendOnClosed`.

**StateStoreProofs.** `OptimisticSafe` and the refinement speak of the moment of the rename, and the reasons lie earlier:
what a lock holder is about to write must still follow from the file (`CopyInv`, which needs that nobody else renames
meanwhile), it must rename what it wrote itself (`TmpInv`), each program counter must carry the right kind of call
(`OpInv`), and a version number must stand for one entry until a `Clear` of its key (`SeenInv`). The refinement then maps
the rename, a refused `Load`, a `Read` and every failure to the instant of effect, and all other steps to the beginning,
the end, or a stutter. `AppendsStayApart` adds `NoteInv`: a holder of the append lock that has written its first half finds
it at the end of the file.

**TeamProofs.** Threads may be any finite set, ids any set, and the sequence numbers any range. Every property has its own
invariant on top of the types, program counters and phases (`TInv`). `NumberInv` follows a number from the counter through
a call into the journal; it counts the calls that hold a reservation of the bound, which is why the threads are finite
(`ThreadsAssumption`; the process has finitely many goroutines). `StatusInv` follows a status from the journal to the
board and to `tasks.json` and gives `WriteAhead`; it follows the older tasks of an id as well. `GraphInv` is the reason a replay
registers nothing that the scheduler refuses: the order of the journal is not that of the checks of `AddTask`, so the invariant
says that the journal, in any order, describes a part of the graph that was checked, and a part of a graph without a circle has
none. It holds only while no id is created again (`team_replay` is a counterexample without that), and
`RegisteredIsScheduledUnlessReused` says so. `NoLostWakeup` needs no such exception: a task that the scheduler forgets, or replaces
by a newer one, is no longer startable, and the newer one gets its status from the same graph. `OpenRestoresSerial` needs the boards a
replay goes through as a witness (`RestoreInv(h)`): while calls do not overlap, the memory is a known number of steps behind the
last of them, every registered task is the newest of its id (`NewestInv`), and that a scan ends where nothing is startable is
`NoLostWakeup` again.

**TeamMailProofs.** Every fact about a message rests on one about channels: a channel that is mapped or closed stays mapped
or closed. `IInv` joins the map (`MailInv`), what a call in flight has of it (`CallInv`, `LateInv`), what a reader has
(`ReadInv`) and the order of Close (`DetInv`). `AcceptedIsReachable` alone is not inductive: a sender that has looked its channel
up pushes into it much later. `OwnMailbox`, that two first uses of a mailbox neither split nor share it, follows and has no
run of its own.

**CommandsProofs.** A process runs one command (`Solo`), so each has an invariant that its steps keep and that the others
leave alone.
* The streams: `Flow(n, done)` says that the chunks in the channel and in the goroutine's hand follow the n pieces the command has
  taken, and that the terminal chunk is the last. `SkillInv`, `MoaInv` and `TalkInv` say how many each command has taken at each
  of its steps; together they give `OutputIsTheAnswer` for any capacity and length.
* `HookInv` counts what is owed: the blocking hooks left in the event that is fired, none once the model is asked. `ReportInv`
  keeps the account of a mixture by what was collected (a report is in the channel, or its entry is in a set), and
  that every model's goroutine is gone when the channel closes; two thirds of the requests then follow from two thirds of the models that
  answered, also when one is configured twice. `Dialogue(k)` gives the history its pairs.
* `DemoInv`: the acks, both pipes and the worker's hand are the numbers of the pings, one after the other (`AckInv`), and what
  disturbed the demo is known before its verdict (`VerdictInv`).
* `IndexInv`: who holds the lock has computed its list from the index as it still is. `WatchInv`: what a watcher has
  still to send ends with the last of its list. The index holds any sequence of descriptors and is none while it is torn
  (`RegistryAssumption`).
* `WizInv`: the answers the wizard works with and those in its file were told (`ToldInv`: a question that was not put is answered no
  in both); the provider is the last choice of the conflicts or an entry of the menu (`ProviderInv`; `MenuIsLocal` sorts the
  ranking as far as its first three entries, and is the reason the menu of a user with sensitive data is local); what a
  success claims is in `config.json` (`ConfInv`). `AdviceIsHonoured` speaks only of the pages that install and is not inductive
  alone, nor is `ConfiguredIsUsed`, which says nothing of the run before its end.
* `ViewInv`: every selected row and window starts inside its list. Of the terminal it only needs natural numbers; that it has more
  than three columns and rows is in `RendersInBounds` itself.

**TokenPathProofs.** The keys and the requests are finite sets, the files of a directory and the goroutines of a process
(`TokenCacheAssumption`, `TokenPathAssumption`); costs, limit, capacity and bounds are any.
* The sums over requests, `Replay` and the loops of the cache are folds. What each does when a request moves, a line is
  appended or a key is dropped is shown along a least counterexample (`Least`), since an induction scheme cannot be instantiated.
* `MeterInv`: spent and reserved together are within the limit and what was not checked on the day (`carried`); the calls under way
  are reserved but for the same amount; a replay of the ledger gives the meter while nothing is lost or unseen, and never more
  than it and what is unseen (`Follows`), whatever lines are missing, short or swallowed. `WithinLimit` alone is not inductive: a
  commit takes from the reservations what only the second conjunct says is there. `BooksInv` adds the calls between the server, the ledger and the
  analytics, a crash or a lost line making an equation an inequality.
* `CacheInv`: the ids of the list are unique and every key points at a node of its own (`Linked`, kept by every operator of
  `TokenCache`); a key outside `raced` has one use at most (`AloneIn`), and its file and its entry agree, the one
  write under way excepted (`CoherentIn`); a `Put` that begins while nobody uses the file takes its key out of `raced` again: an entry on its way from the file to memory is what the file still holds, and one on
  its way to the file is what memory holds. `CacheSound` speaks only of keys nobody uses and is not inductive alone.

Only model-checked: all liveness properties (fairness and `ENABLED` are outside the prover). `SomeTaskCanRun`
and `OwnMailbox` are proved and have no run: `AcyclicDeps` with `NoStuckTask`, and `AcceptedIsReachable`, are what the runs check of them. The type invariants of the modules above
except those of the commands are proved and therefore not checked again by their runs.

## 6. Plan, and what is not modelled

Every safety property a passing run checks is a theorem. What is left to prove are the type invariants of the commands beyond the
parts their invariants need.

Not modelled:

* Of the team: a read that fails while `Open` replays (`Journal` has what the recovery does; a failing `Read` ends the `Open`); a
  `tasks.json` that cannot be written, which only makes the call return an error; the 10 MiB limit of a line, above which `Append` accepts what `Read` then refuses (no caller builds such a
  line); that `TaskCreate` makes its owner's mailbox, as `Inbox` does; the limits on workers and depth, two
  comparisons; `team list`, `inspect` and `tail`.
* Of the store: power loss (nothing is synced, so a rename may outlive the data it names), and that the retries of
  `WriteWithRetry` end. The latter was explored at three calls under weak fairness and held, since each lock holder
  releases; it is not one of the runs.
* Mode detection and the scores of the router: tables of words, without state. Prices per model: a table.
* `doctor`, the listings, `/save`, `/tokens`, `/help` and the argument parser: printing. The request formats of the
  providers, MLX and Aider: formats of other programs.
* Of the wizard: a failing removal of its progress file, and what `ollama` itself does.
