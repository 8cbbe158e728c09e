------------------------------ MODULE Scheduler ------------------------------
(***************************************************************************)
(* The task DAG of a team: internal/team/scheduler.go, driven by the two   *)
(* calls of team.go that reach it, TaskCreate (AddTask) and TaskUpdate     *)
(* (a status write followed by MarkComplete or MarkFailed).                *)
(*                                                                         *)
(* Here every call is one step, as it is for one caller at a time.         *)
(* Team interleaves the calls of several callers.                          *)
(***************************************************************************)
EXTENDS TaskGraph

CONSTANTS
  Ids,       \* task identifiers, registered or only named as a dependency
  DepLists   \* the DependsOn lists a caller may pass, duplicates included

ASSUME DepListsAssumption == DepLists \subseteq Seq(Ids)

VARIABLES
  tasks,     \* the keys of Scheduler.tasks
  deps,      \* Scheduler.deps, <<>> for an id that is not a key
  status,    \* Task.Status of the registered task, "absent" for the others
  last       \* the last call, if AddTask: its list, and whether it was rejected

vars == <<tasks, deps, status, last>>

TypeOK ==
  /\ tasks \in SUBSET Ids
  /\ deps \in [Ids -> DepLists \cup {<<>>}]
  /\ status \in [Ids -> TaskStatus \cup {"absent"}]
  /\ last \in [deps : DepLists \cup {<<>>}, err : BOOLEAN]
  /\ \A id \in Ids : id \in tasks <=> status[id] # "absent"

\* No AddTask, or a TaskUpdate since.
NoAddTask == [deps |-> <<>>, err |-> FALSE]

-----------------------------------------------------------------------------
Init ==
  /\ tasks = {}
  /\ deps = [id \in Ids |-> <<>>]
  /\ status = [id \in Ids |-> "absent"]
  /\ last = NoAddTask

\* Mistake: the error is returned without the rollback.
RejectWithoutRollback(id, list) ==
  /\ HasCycle(tasks \cup {id}, [deps EXCEPT ![id] = list])
  /\ tasks' = tasks \cup {id}
  /\ deps' = [deps EXCEPT ![id] = list]
  /\ status' = [status EXCEPT ![id] = "blocked"]
  /\ last' = [deps |-> list, err |-> TRUE]

\* A cycle rolls the insertion back by deleting the id, whatever it held.
AddTaskRejected(id, list) ==
  /\ HasCycle(tasks \cup {id}, [deps EXCEPT ![id] = list])
  /\ tasks' = tasks \ {id}
  /\ deps' = [deps EXCEPT ![id] = <<>>]
  /\ status' = [status EXCEPT ![id] = "absent"]
  /\ last' = [deps |-> list, err |-> TRUE]

AddTaskAccepted(id, list) ==
  /\ ~HasCycle(tasks \cup {id}, [deps EXCEPT ![id] = list])
  /\ tasks' = tasks \cup {id}
  /\ deps' = [deps EXCEPT ![id] = list]
  /\ status' = [status EXCEPT ![id] =
                  InitialStatus(list, tasks, status)]
  /\ last' = [deps |-> list, err |-> FALSE]

AddTask(id, list) == AddTaskRejected(id, list) \/ AddTaskAccepted(id, list)

\* Mistake: the dependents are evaluated before the task is marked.
CompleteScanFirst(id) ==
  /\ id \in tasks
  /\ status' = [Unblock(tasks, deps, status) EXCEPT ![id] = "completed"]
  /\ last' = NoAddTask
  /\ UNCHANGED <<tasks, deps>>

\* TaskUpdate(id, "completed"): the status write, then MarkComplete.
Complete(id) ==
  /\ id \in tasks
  /\ status' = Unblock(tasks, deps, [status EXCEPT ![id] = "completed"])
  /\ last' = NoAddTask
  /\ UNCHANGED <<tasks, deps>>

\* TaskUpdate with another status: MarkFailed adds nothing to the status
\* write, a failure does not cascade.
Report(id, st) ==
  /\ id \in tasks
  /\ st \in Reported \ {"completed"}
  /\ status' = [status EXCEPT ![id] = st]
  /\ last' = NoAddTask
  /\ UNCHANGED <<tasks, deps>>

TaskUpdate(id, st) ==
  IF st = "completed" THEN Complete(id) ELSE Report(id, st)

Next ==
  \E id \in Ids :
     \/ \E list \in DepLists : AddTask(id, list)
     \/ \E st \in Reported : TaskUpdate(id, st)

Spec == Init /\ [][Next]_vars

(***************************************************************************)
(* Disciplined use: TaskCreate draws a fresh uuid when the caller gives no *)
(* id, and a worker starts a pending task and ends a started one. Finish   *)
(* is the fairness a team needs from its workers; the code does not give   *)
(* it, so FairSpec states it as what the liveness property assumes.        *)
(***************************************************************************)
CreateFresh(id, list) == id \notin tasks /\ AddTask(id, list)

StartWork(id) == status[id] = "pending" /\ Report(id, "running")

FinishWork(id) == status[id] \in {"pending", "running"} /\ Complete(id)

FailWork(id) == status[id] = "running" /\ Report(id, "failed")

DisciplinedNext ==
  \E id \in Ids :
     \/ \E list \in DepLists : CreateFresh(id, list)
     \/ StartWork(id)
     \/ FinishWork(id)
     \/ FailWork(id)

FairSpec ==
  /\ Init
  /\ [][DisciplinedNext]_vars
  /\ \A id \in Ids : WF_vars(FinishWork(id))

-----------------------------------------------------------------------------
\* The board never holds tasks that wait for each other in a circle,
\* whatever is created, re-created or rejected (ErrCyclicDependency).
AcyclicDeps == ~HasCycle(tasks, deps)

\* Kahn's algorithm, with a dependency counted as often as it is listed and
\* in whatever order Go iterates its maps, refuses an insertion exactly when
\* it would close a cycle (detectCycle).
KahnAgrees ==
  \A id \in Ids, list \in DepLists :
     LET registered == tasks \cup {id}
         d == [deps EXCEPT ![id] = list]
     IN \A visited \in Visited(registered, d) :
           visited < Cardinality(Nodes(registered, d)) <=> HasCycle(registered, d)

\* No completion is lost: a task that is still blocked really has a
\* dependency that is not complete (MarkComplete's scan).
NoStuckTask ==
  \A id \in tasks :
     status[id] = "blocked" => \E dep \in Named(deps[id]) : status[dep] # "completed"

\* Every dependency is registered and nothing has failed.
Unobstructed ==
  \A id \in tasks : Named(deps[id]) \subseteq tasks /\ status[id] # "failed"

\* The tasks never all wait for one another: unless a dependency failed or
\* was never created, a blocked task implies one a worker can work on.
SomeTaskCanRun ==
  Unobstructed /\ (\E id \in tasks : status[id] = "blocked")
    => \E id \in tasks : status[id] \in {"pending", "running"}

\* The scheduler itself starts a task only when everything it depends on is
\* complete, and a failure starts nothing (D2: no cascade).
StartsWhenReady ==
  [][\A id \in Ids :
        /\ status[id] = "blocked" /\ status'[id] = "running"
        /\ ~Report(id, "running")
        => \A dep \in Named(deps[id]) : status'[dep] = "completed"]_vars

\* A rejected AddTask leaves the scheduler as it was: scheduler.go:45, "Roll
\* back the insertion so the scheduler stays consistent."
RejectedLeavesUnchanged ==
  [][last'.err => UNCHANGED <<tasks, deps, status>>]_vars

\* If the workers finish what they can work on, a blocked task is started,
\* unless something failed or a dependency has not been created.
BlockedIsStarted ==
  \A id \in Ids : (status[id] = "blocked") ~> (status[id] # "blocked" \/ ~Unobstructed)
=============================================================================
