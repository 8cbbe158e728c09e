-------------------------------- MODULE Team --------------------------------
(***************************************************************************)
(* One team (internal/team/team.go): the task board held in memory, the    *)
(* scheduler, the journal it is written to, the tasks.json cache, and the  *)
(* threads that call TaskCreate and TaskUpdate, each call in the steps     *)
(* between which other threads run or the process dies. Open replays the   *)
(* journal one envelope per step.                                          *)
(*                                                                         *)
(* A caller may name the id of a task that exists (TaskSpec.ID is passed   *)
(* on unchecked): AddTask then stores a second Task under the id, while    *)
(* Team.tasks keeps the first until the call registers the second, and     *)
(* when it rejects the second it deletes the id. Of the Tasks of an id     *)
(* only the newest can be the scheduler's; an older one is referred to by  *)
(* Team.tasks or by the call that made it, and only its status counts.     *)
(*                                                                         *)
(* The journal is the abstract log of DurableLog, which Journal            *)
(* implements: Append is one step and what it wrote survives a crash, and  *)
(* the Open that follows. In that Open no read of the file fails: Journal  *)
(* shows which lines the recovery drops when one does.                     *)
(* Messages, mailboxes and the stall detector share only `seq` and the     *)
(* journal with the task board and are not in this module. team.json holds *)
(* nothing that changes and is always written beside tasks.json: `cache`   *)
(* stands for both.                                                        *)
(***************************************************************************)
EXTENDS TaskGraph, FiniteSets

CONSTANTS
  Threads,         \* goroutines that use the team
  Ids,             \* task ids a TaskCreate may draw or name
  TaskSpecs,       \* the TaskSpecs callers pass: records [id, deps]
  Reports,         \* the statuses workers report in a TaskUpdate
  MaxSeq,          \* bound on the sequence numbers drawn
  AppendFailures,  \* whether Journal.Append may return an error
  None             \* no thread, no task

ASSUME ThreadsAssumption == IsFiniteSet(Threads)
ASSUME TaskSpecsAssumption == TaskSpecs \subseteq [id : Ids, deps : Seq(Ids)]
ASSUME ReportsAssumption == Reports \subseteq Reported
ASSUME MaxSeqAssumption == MaxSeq \in Nat \ {0}
ASSUME AppendFailuresAssumption == AppendFailures \in BOOLEAN
ASSUME NoneAssumption == None \notin Threads \cup Ids

VARIABLES
  phase,     \* "up", "down" (no process), "replay" or "rebuild" (in Open)
  pos,       \* during replay, the number of envelopes replayed
  journal,   \* journal.ndjson
  cache,     \* tasks.json: what the file is, and the list it holds if whole
  seq,       \* Team.seq
  registry,  \* the keys of Team.tasks
  sched,     \* the keys of Scheduler.tasks
  deps,      \* Scheduler.deps
  status,    \* Task.Status of the newest Task of an id; "absent" without one
  shown,     \* status of the Task Team.tasks holds, or "newest" if it is that one
  made,      \* the same for the Task a TaskCreate has made and not registered
  smu,       \* the thread holding Scheduler.mu over several steps, or None
  pc,        \* where each thread is
  call,      \* the envelope of the call each thread is in, while it needs it
  left,      \* MarkComplete: the tasks the scan has not visited
  hit,       \* MarkComplete: the task found startable, or None
  copy,      \* writeTasksSnapshot: the copied list
  before,    \* {the TaskList at the crash}, {} if a call was cut short
  serial,    \* since the last Open no call overlapped another or failed
  reused     \* a TaskCreate named an id that was in use

disk == <<journal, cache>>
older == <<shown, made>>
board == <<registry, sched, deps, status, older>>
locals == <<pc, call, left, hit, copy>>
history == <<before, serial, reused>>
vars == <<phase, pos, disk, seq, board, smu, locals, history>>

TaskCreated(id, list, n) == [kind |-> "task-create", id |-> id, deps |-> list, seq |-> n]
TaskUpdated(id, st, n) == [kind |-> "task-update", id |-> id, status |-> st, seq |-> n]
TeamCreated == [kind |-> "team-create", seq |-> 0]

Envelope ==
  [kind : {"task-create"}, id : Ids, deps : Seq(Ids), seq : Nat]
    \cup [kind : {"task-update"}, id : Ids, status : Reports, seq : Nat]
    \cup {TeamCreated}

\* Task.Status of the Task that Team.tasks holds.
Shown(id) == IF shown[id] = "newest" THEN status[id] ELSE shown[id]

\* TaskList: the status of every registered task.
TaskList == [id \in Ids |-> IF id \in registry THEN Shown(id) ELSE "absent"]

NoTasks == [id \in Ids |-> "absent"]
AllNewest(S) == [x \in S |-> "newest"]
Lists == [Ids -> TaskStatus \cup {"absent"}]

PcValues == {"idle", "seq", "append", "register", "apply", "mark", "scan",
             "promote", "snapshot", "write"}

TypeOK ==
  /\ phase \in {"up", "down", "replay", "rebuild"}
  /\ pos \in 0..Len(journal)
  /\ journal \in Seq(Envelope)
  /\ cache \in [file : {"missing", "partial", "garbled", "whole"}, tasks : Lists]
  /\ seq \in Nat
  /\ registry \in SUBSET Ids
  /\ sched \in SUBSET Ids
  /\ deps \in [Ids -> Seq(Ids)]
  /\ status \in Lists
  /\ shown \in [Ids -> TaskStatus \cup {"newest"}]
  /\ made \in [Threads -> TaskStatus \cup {"newest"}]
  /\ smu \in Threads \cup {None}
  /\ pc \in [Threads -> PcValues]
  /\ call \in [Threads -> Envelope]
  /\ left \in [Threads -> SUBSET Ids]
  /\ hit \in [Threads -> Ids \cup {None}]
  /\ copy \in [Threads -> Lists]
  /\ before \in SUBSET Lists
  /\ serial \in BOOLEAN
  /\ reused \in BOOLEAN
  /\ \A id \in registry \cup sched : status[id] # "absent"
  /\ \A t \in Threads : smu = t <=> pc[t] \in {"scan", "promote"}

Quiet == \A t \in Threads : pc[t] = "idle"

\* The ids of the tasks the journal creates.
Journaled == {journal[i].id : i \in {j \in DOMAIN journal : journal[j].kind = "task-create"}}

\* A TaskCreate between AddTask and the registration.
Making(t) == pc[t] \in {"seq", "append", "register"} /\ call[t].kind = "task-create"

Creating == {call[t].id : t \in {u \in Threads : Making(u)}}

Init ==
  /\ phase = "up"
  /\ pos = 0
  /\ journal = <<TeamCreated>>
  /\ cache = [file |-> "whole", tasks |-> NoTasks]
  /\ seq = 1
  /\ registry = {} /\ sched = {}
  /\ deps = [id \in Ids |-> <<>>]
  /\ status = NoTasks
  /\ shown = AllNewest(Ids) /\ made = AllNewest(Threads)
  /\ smu = None
  /\ pc = [t \in Threads |-> "idle"]
  /\ call = [t \in Threads |-> TeamCreated]
  /\ left = [t \in Threads |-> {}]
  /\ hit = [t \in Threads |-> None]
  /\ copy = [t \in Threads |-> NoTasks]
  /\ before = {}
  /\ serial = TRUE
  /\ reused = FALSE

-----------------------------------------------------------------------------
(* TaskCreate, with the uuid it draws or the id the caller names.          *)

Fresh(id) == id \notin Journaled \cup registry \cup sched \cup Creating

\* Sequence numbers drawn, or about to be drawn by a TaskCreate.
SeqRoom == seq + Cardinality({t \in Threads : pc[t] = "seq"}) < MaxSeq

\* The newest Task of id, if somebody holds it, becomes an older one.
Supersede(id) ==
  /\ shown' = [shown EXCEPT ![id] = IF id \in registry THEN Shown(id) ELSE @]
  /\ made' = [u \in Threads |->
                IF Making(u) /\ call[u].id = id /\ made[u] = "newest"
                THEN status[id] ELSE made[u]]

\* Scheduler.AddTask, under s.mu, finds no cycle.
AddTask(spec) ==
  /\ sched' = sched \cup {spec.id}
  /\ deps' = [deps EXCEPT ![spec.id] = spec.deps]
  /\ status' = [status EXCEPT ![spec.id] = InitialStatus(spec.deps, sched, status)]
  /\ Supersede(spec.id)

\* Mistake: the graph is not checked.
BeginCreateUnchecked(t, spec) ==
  /\ phase = "up" /\ pc[t] = "idle" /\ smu = None
  /\ SeqRoom
  /\ AddTask(spec)
  /\ call' = [call EXCEPT ![t] = TaskCreated(spec.id, spec.deps, 0)]
  /\ pc' = [pc EXCEPT ![t] = "seq"]
  /\ before' = {}
  /\ serial' = (serial /\ Quiet)
  /\ reused' = (reused \/ ~Fresh(spec.id))
  /\ UNCHANGED <<phase, pos, disk, seq, registry, smu, left, hit, copy>>

BeginCreate(t, spec) ==
  /\ phase = "up" /\ pc[t] = "idle" /\ smu = None
  /\ SeqRoom
  /\ ~HasCycle(sched \cup {spec.id}, [deps EXCEPT ![spec.id] = spec.deps])
  /\ AddTask(spec)
  /\ call' = [call EXCEPT ![t] = TaskCreated(spec.id, spec.deps, 0)]
  /\ pc' = [pc EXCEPT ![t] = "seq"]
  /\ before' = {}
  /\ serial' = (serial /\ Quiet)
  /\ reused' = (reused \/ ~Fresh(spec.id))
  /\ UNCHANGED <<phase, pos, disk, seq, registry, smu, left, hit, copy>>

\* AddTask finds a cycle: the rollback deletes the id, the Task it had
\* before included, and the call returns. Of an id the scheduler does not
\* know it leaves nothing behind, and that call changes nothing.
RejectCreate(t, spec) ==
  /\ phase = "up" /\ pc[t] = "idle" /\ smu = None
  /\ spec.id \in sched
  /\ HasCycle(sched, [deps EXCEPT ![spec.id] = spec.deps])
  /\ sched' = sched \ {spec.id}
  /\ deps' = [deps EXCEPT ![spec.id] = <<>>]
  /\ before' = {}
  /\ serial' = FALSE
  /\ reused' = TRUE
  /\ UNCHANGED <<phase, pos, disk, seq, registry, status, older, smu, locals>>

\* The envelope takes the next sequence number.
CreateSeq(t) ==
  /\ pc[t] = "seq"
  /\ call' = [call EXCEPT ![t].seq = seq]
  /\ seq' = seq + 1
  /\ pc' = [pc EXCEPT ![t] = "append"]
  /\ UNCHANGED <<phase, pos, disk, board, smu, left, hit, copy, history>>

\* Journal.Append: written and synced. A TaskCreate then registers the task,
\* a TaskUpdate applies the status.
JournalAppend(t) ==
  /\ pc[t] = "append"
  /\ journal' = Append(journal, call[t])
  /\ pc' = [pc EXCEPT ![t] = IF call[t].kind = "task-create" THEN "register" ELSE "apply"]
  /\ UNCHANGED <<phase, pos, cache, seq, board, smu, call, left, hit, copy, history>>

\* Mistake: the error of Append is dropped and the call goes on.
AppendErrorIgnored(t) ==
  /\ AppendFailures
  /\ pc[t] = "append"
  /\ pc' = [pc EXCEPT ![t] = IF call[t].kind = "task-create" THEN "register" ELSE "apply"]
  /\ UNCHANGED <<phase, pos, disk, seq, board, smu, call, left, hit, copy, history>>

\* Append returns an error, of the write (nothing is journaled) or of the
\* sync (the line is there), and the call returns. The scheduler keeps the
\* Task of a TaskCreate, which nobody else refers to.
AppendFails(t) ==
  /\ AppendFailures
  /\ pc[t] = "append"
  /\ journal' \in {journal, Append(journal, call[t])}
  /\ pc' = [pc EXCEPT ![t] = "idle"]
  /\ call' = [call EXCEPT ![t] = TeamCreated]
  /\ made' = [made EXCEPT ![t] = "newest"]
  /\ serial' = FALSE
  /\ UNCHANGED <<phase, pos, cache, seq, registry, sched, deps, status, shown, smu,
                 left, hit, copy, before, reused>>

\* Team.tasks holds the Task the call made, be it the newest or not.
Register(t) ==
  /\ pc[t] = "register"
  /\ registry' = registry \cup {call[t].id}
  /\ shown' = [shown EXCEPT ![call[t].id] = made[t]]
  /\ made' = [made EXCEPT ![t] = "newest"]
  /\ pc' = [pc EXCEPT ![t] = "snapshot"]
  /\ UNCHANGED <<phase, pos, disk, seq, sched, deps, status, smu, call, left, hit, copy, history>>

-----------------------------------------------------------------------------
(* TaskUpdate of a registered task; of another it changes nothing.         *)

\* The registered check and the sequence number: nothing unregisters a task.
BeginUpdate(t, id, st) ==
  /\ phase = "up" /\ pc[t] = "idle"
  /\ id \in registry /\ SeqRoom
  /\ call' = [call EXCEPT ![t] = TaskUpdated(id, st, seq)]
  /\ seq' = seq + 1
  /\ pc' = [pc EXCEPT ![t] = "append"]
  /\ before' = {}
  /\ serial' = (serial /\ Quiet)
  /\ UNCHANGED <<phase, pos, disk, board, smu, left, hit, copy, reused>>

\* The status write, under t.mu, to the Task that Team.tasks holds.
Apply(t) ==
  /\ pc[t] = "apply"
  /\ IF shown[call[t].id] = "newest"
     THEN status' = [status EXCEPT ![call[t].id] = call[t].status] /\ shown' = shown
     ELSE shown' = [shown EXCEPT ![call[t].id] = call[t].status] /\ status' = status
  /\ pc' = [pc EXCEPT ![t] = IF call[t].status = "running" THEN "snapshot" ELSE "mark"]
  /\ UNCHANGED <<phase, pos, disk, seq, registry, sched, deps, made, smu, call, left, hit, copy,
                 history>>

\* MarkFailed, under s.mu: the scheduler's Task, which is the newest.
MarkFailed(t) ==
  /\ pc[t] = "mark" /\ call[t].status = "failed" /\ smu = None
  /\ status' = IF call[t].id \in sched
               THEN [status EXCEPT ![call[t].id] = "failed"] ELSE status
  /\ pc' = [pc EXCEPT ![t] = "snapshot"]
  /\ UNCHANGED <<phase, pos, disk, seq, registry, sched, deps, older, smu, call, left, hit, copy,
                 history>>

\* Mistake: the scan is over the tasks that TaskList shows.
MarkCompleteRegistered(t) ==
  /\ pc[t] = "mark" /\ call[t].status = "completed" /\ smu = None
  /\ status' = IF call[t].id \in sched
               THEN [status EXCEPT ![call[t].id] = "completed"] ELSE status
  /\ smu' = t
  /\ left' = [left EXCEPT ![t] = registry]
  /\ pc' = [pc EXCEPT ![t] = "scan"]
  /\ UNCHANGED <<phase, pos, disk, seq, registry, sched, deps, older, call, hit, copy, history>>

\* MarkComplete takes s.mu, writes the status again and starts its scan.
MarkComplete(t) ==
  /\ pc[t] = "mark" /\ call[t].status = "completed" /\ smu = None
  /\ status' = IF call[t].id \in sched
               THEN [status EXCEPT ![call[t].id] = "completed"] ELSE status
  /\ smu' = t
  /\ left' = [left EXCEPT ![t] = sched]
  /\ pc' = [pc EXCEPT ![t] = "scan"]
  /\ UNCHANGED <<phase, pos, disk, seq, registry, sched, deps, older, call, hit, copy, history>>

\* One round of the scan, in the map's order, which is any order. The test
\* and the write of "running" are two steps: s.mu does not hold off Apply,
\* which writes under t.mu.
Visit(t, id) ==
  /\ pc[t] = "scan" /\ id \in left[t]
  /\ IF Startable(id, sched, deps, status)
     THEN hit' = [hit EXCEPT ![t] = id] /\ pc' = [pc EXCEPT ![t] = "promote"]
     ELSE UNCHANGED <<hit, pc>>
  /\ left' = [left EXCEPT ![t] = @ \ {id}]
  /\ UNCHANGED <<phase, pos, disk, seq, board, smu, call, copy, history>>

Promote(t) ==
  /\ pc[t] = "promote"
  /\ status' = [status EXCEPT ![hit[t]] = "running"]
  /\ hit' = [hit EXCEPT ![t] = None]
  /\ pc' = [pc EXCEPT ![t] = "scan"]
  /\ UNCHANGED <<phase, pos, disk, seq, registry, sched, deps, older, smu, call, left, copy, history>>

ScanEnd(t) ==
  /\ pc[t] = "scan" /\ left[t] = {}
  /\ smu' = None
  /\ pc' = [pc EXCEPT ![t] = "snapshot"]
  /\ UNCHANGED <<phase, pos, disk, seq, board, call, left, hit, copy, history>>

-----------------------------------------------------------------------------
(* writeTasksSnapshot, the end of both calls: a copy under t.mu, then      *)
(* os.WriteFile, which truncates the file and writes it.                   *)

Snapshot(t) ==
  /\ pc[t] = "snapshot"
  /\ copy' = [copy EXCEPT ![t] = TaskList]
  /\ cache' = [file |-> "partial", tasks |-> NoTasks]
  /\ pc' = [pc EXCEPT ![t] = "write"]
  /\ call' = [call EXCEPT ![t] = TeamCreated]
  /\ UNCHANGED <<phase, pos, journal, seq, board, smu, left, hit, history>>

\* Written over another thread's data: that data may be the longer one.
WriteCache(t) ==
  /\ pc[t] = "write"
  /\ \/ cache' = [file |-> "whole", tasks |-> copy[t]]
     \/ cache.file # "partial" /\ cache' = [file |-> "garbled", tasks |-> NoTasks]
  /\ pc' = [pc EXCEPT ![t] = "idle"]
  /\ copy' = [copy EXCEPT ![t] = NoTasks]
  /\ UNCHANGED <<phase, pos, journal, seq, board, smu, call, left, hit, history>>

-----------------------------------------------------------------------------
(* The process dies, or exits: what is in memory is gone.                  *)

Crash ==
  /\ phase # "down"
  /\ phase' = "down"
  /\ before' = IF phase # "up" THEN before ELSE IF Quiet THEN {TaskList} ELSE {}
  /\ pos' = 0 /\ seq' = 0
  /\ registry' = {} /\ sched' = {}
  /\ deps' = [id \in Ids |-> <<>>] /\ status' = NoTasks
  /\ shown' = AllNewest(Ids) /\ made' = AllNewest(Threads)
  /\ smu' = None
  /\ pc' = [t \in Threads |-> "idle"]
  /\ call' = [t \in Threads |-> TeamCreated]
  /\ left' = [t \in Threads |-> {}]
  /\ hit' = [t \in Threads |-> None]
  /\ copy' = [t \in Threads |-> NoTasks]
  /\ UNCHANGED <<disk, serial, reused>>

\* Someone deletes the cache files while no process has the team open.
LoseCache ==
  /\ phase = "down"
  /\ cache' = [file |-> "missing", tasks |-> NoTasks]
  /\ UNCHANGED <<phase, pos, journal, seq, board, smu, locals, history>>

Open ==
  /\ phase = "down"
  /\ phase' = "replay"
  /\ UNCHANGED <<pos, disk, seq, board, smu, locals, history>>

ReplayTeamCreate ==
  /\ phase = "replay" /\ pos < Len(journal)
  /\ journal[pos + 1].kind = "team-create"
  /\ pos' = pos + 1
  /\ UNCHANGED <<phase, disk, seq, board, smu, locals, history>>

\* Mistake: a replayed task keeps the status Open gives it, AddTask's is not
\* computed.
ReplayCreatesPending ==
  /\ phase = "replay" /\ pos < Len(journal)
  /\ LET env == journal[pos + 1]
     IN /\ env.kind = "task-create"
        /\ registry' = registry \cup {env.id}
        /\ sched' = sched \cup {env.id}
        /\ deps' = [deps EXCEPT ![env.id] = env.deps]
        /\ status' = [status EXCEPT ![env.id] = "pending"]
  /\ pos' = pos + 1
  /\ UNCHANGED <<phase, disk, seq, older, smu, locals, history>>

\* A new Task is registered whatever AddTask says of it.
ReplayTaskCreate ==
  /\ phase = "replay" /\ pos < Len(journal)
  /\ LET env == journal[pos + 1]
         d   == [deps EXCEPT ![env.id] = env.deps]
     IN /\ env.kind = "task-create"
        /\ registry' = registry \cup {env.id}
        /\ IF HasCycle(sched \cup {env.id}, d)
           THEN /\ sched' = sched \ {env.id}
                /\ deps' = [deps EXCEPT ![env.id] = <<>>]
                /\ status' = [status EXCEPT ![env.id] = "pending"]
           ELSE /\ sched' = sched \cup {env.id}
                /\ deps' = d
                /\ status' = [status EXCEPT ![env.id] =
                                InitialStatus(env.deps, sched, status)]
  /\ pos' = pos + 1
  /\ UNCHANGED <<phase, disk, seq, older, smu, locals, history>>

ReplayTaskUpdate ==
  /\ phase = "replay" /\ pos < Len(journal)
  /\ LET env == journal[pos + 1]
         st  == [status EXCEPT ![env.id] = env.status]
     IN /\ env.kind = "task-update"
        /\ status' = IF env.id \notin registry THEN status
                     ELSE IF env.status = "completed" THEN Unblock(sched, deps, st)
                     ELSE st
  /\ pos' = pos + 1
  /\ UNCHANGED <<phase, disk, seq, registry, sched, deps, older, smu, locals, history>>

Replayed == phase = "replay" /\ pos = Len(journal)

\* Mistake: numbering resumes at the number of envelopes.
ReplayEndsAtLength ==
  /\ Replayed
  /\ seq' = Len(journal)
  /\ phase' = "rebuild"
  /\ UNCHANGED <<pos, disk, board, smu, locals, history>>

\* The largest sequence number in the journal.
MaxJournaled ==
  CHOOSE n \in 0..MaxSeq : /\ \E i \in DOMAIN journal : journal[i].seq = n
                           /\ \A i \in DOMAIN journal : journal[i].seq <= n

ReplayEnds ==
  /\ Replayed
  /\ seq' = MaxJournaled + 1
  /\ phase' = "rebuild"
  /\ UNCHANGED <<pos, disk, board, smu, locals, history>>

\* Open writes the cache only when it is missing.
KeepCache ==
  /\ phase = "rebuild" /\ cache.file # "missing"
  /\ phase' = "up" /\ pos' = 0
  /\ serial' = TRUE
  /\ UNCHANGED <<disk, seq, board, smu, locals, before, reused>>

RebuildCache ==
  /\ phase = "rebuild" /\ cache.file = "missing"
  /\ cache' = [file |-> "whole", tasks |-> TaskList]
  /\ phase' = "up" /\ pos' = 0
  /\ serial' = TRUE
  /\ UNCHANGED <<journal, seq, board, smu, locals, before, reused>>

\* Open dies in os.WriteFile: the file is there, without its data.
RebuildDies ==
  /\ phase = "rebuild" /\ cache.file = "missing"
  /\ cache' = [file |-> "partial", tasks |-> NoTasks]
  /\ phase' = "down" /\ pos' = 0 /\ seq' = 0
  /\ registry' = {} /\ sched' = {}
  /\ deps' = [id \in Ids |-> <<>>] /\ status' = NoTasks
  /\ UNCHANGED <<journal, older, smu, locals, history>>

-----------------------------------------------------------------------------
Step(t) ==
  \/ CreateSeq(t) \/ JournalAppend(t) \/ AppendFails(t) \/ Register(t)
  \/ Apply(t) \/ MarkFailed(t) \/ MarkComplete(t)
  \/ \E id \in Ids : Visit(t, id)
  \/ Promote(t) \/ ScanEnd(t) \/ Snapshot(t) \/ WriteCache(t)

Begin(t) ==
  \/ \E spec \in TaskSpecs : BeginCreate(t, spec) \/ RejectCreate(t, spec)
  \/ \E id \in Ids, st \in Reports : BeginUpdate(t, id, st)

Reopen ==
  \/ Open \/ ReplayTeamCreate \/ ReplayTaskCreate \/ ReplayTaskUpdate
  \/ ReplayEnds \/ KeepCache \/ RebuildCache \/ RebuildDies

Next == (\E t \in Threads : Begin(t) \/ Step(t)) \/ Crash \/ LoseCache \/ Reopen

Spec == Init /\ [][Next]_vars

-----------------------------------------------------------------------------
\* No sequence number is journaled twice, however calls, crashes and Opens
\* interleave (Open: "seq starts at max(seq in journal)+1").
SeqUnique ==
  \A i, j \in DOMAIN journal : i # j => journal[i].seq # journal[j].seq

\* Some thread is about to start, or to visit, task id.
WakeupPending(id) ==
  \E t \in Threads :
     \/ /\ pc[t] = "mark" /\ call[t].status = "completed"
        /\ call[t].id \in Named(deps[id])
     \/ pc[t] = "scan" /\ id \in left[t]
     \/ pc[t] = "promote" /\ (hit[t] = id \/ id \in left[t])

\* No wakeup is lost between the status write of TaskUpdate (t.mu) and the
\* scan of MarkComplete (s.mu), nor by a TaskCreate in between, nor by a
\* replay: a blocked task that could start has a thread on its way to it.
NoLostWakeup ==
  \A id \in sched :
     Startable(id, sched, deps, status) => WakeupPending(id)

\* A list says nothing that is not in the journal.
IsJournaled(list) ==
  \A id \in Ids :
     /\ list[id] # "absent" => id \in Journaled
     /\ list[id] \in {"completed", "failed"} =>
          \E i \in DOMAIN journal :
             /\ journal[i].kind = "task-update"
             /\ journal[i].id = id /\ journal[i].status = list[id]

\* The journal is written first: nothing TaskList or tasks.json shows is
\* lost by a crash.
WriteAhead == IsJournaled(TaskList) /\ IsJournaled(cache.tasks)

RegisteredIsScheduled == registry \subseteq sched

\* The scheduler knows every registered task as long as no caller names an
\* id in use: after Open too, although the order of the journal need not be
\* that of the checks, the replay then refuses nothing (team.go:252, "ignore
\* cycle errors on replay"). With a second creation of an id it may: the journal
\* can hold a circle when a crash falls between AddTask and Append.
RegisteredIsScheduledUnlessReused == ~reused => RegisteredIsScheduled

\* Open restores the list a crash between calls left behind
\* (docs/team-transport.md:268, "After Open returns, TaskList() returns
\* results identical to the pre-crash state").
OpenRestoresTaskList == phase = "rebuild" => \A list \in before : TaskList = list

\* It does if the calls did not overlap or fail, however the crashes and the
\* Opens before it fell.
OpenRestoresSerial == serial => OpenRestoresTaskList
=============================================================================
