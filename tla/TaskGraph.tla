------------------------------ MODULE TaskGraph ------------------------------
(***************************************************************************)
(* The questions internal/team/scheduler.go asks of its two maps, as       *)
(* operators on them: `registered` is the key set of Scheduler.tasks, d    *)
(* maps an id to its DependsOn list and st maps it to its Task.Status.     *)
(***************************************************************************)
EXTENDS Naturals, Sequences, FiniteSets

TaskStatus == {"pending", "blocked", "running", "completed", "failed"}

\* What a worker reports. TaskUpdate takes any status; the callers report
\* progress, they do not block a task by hand.
Reported == {"running", "completed", "failed"}

\* The ids a DependsOn list names.
Named(list) == {list[i] : i \in DOMAIN list}

(***************************************************************************)
(* What detectCycle decides. Only registered tasks have outgoing edges, so *)
(* an id that is merely named never belongs to a cycle: some nonempty set  *)
(* of registered tasks waits, each of them, for a member of the set.       *)
(***************************************************************************)
HasCycle(registered, d) ==
  \E S \in SUBSET registered :
     S # {} /\ \A id \in S : \E dep \in Named(d[id]) : dep \in S

(***************************************************************************)
(* How it decides: Kahn's algorithm. An id is counted when no occurrence   *)
(* of an uncounted id is left in its list; the maps are iterated, and the  *)
(* queue filled, in any order. There is a cycle when the count ends short  *)
(* of the keys of inDegree.                                                *)
(***************************************************************************)
Nodes(registered, d) == registered \cup UNION {Named(d[id]) : id \in registered}

\* Mistake: the scan stops at the first occurrence of the counted id.
DecrementOnce(n, registered, d, counted) ==
  IF n \in registered THEN Len(d[n]) - Cardinality(Named(d[n]) \cap counted) ELSE 0

InDegree(n, registered, d, counted) ==
  IF n \in registered THEN Cardinality({i \in DOMAIN d[n] : d[n][i] \notin counted}) ELSE 0

\* What `visited` can be in the end.
Visited(registered, d) ==
  LET nodes == Nodes(registered, d)
      final[counted \in SUBSET nodes] ==
        LET ready == {n \in nodes \ counted : InDegree(n, registered, d, counted) = 0}
        IN IF ready = {} THEN {Cardinality(counted)}
           ELSE UNION {final[counted \cup {n}] : n \in ready}
  IN final[{}]

\* allDepsComplete, for a task with dependencies `list`.
AllDepsComplete(list, registered, st) ==
  \A dep \in Named(list) : dep \in registered /\ st[dep] = "completed"

\* A blocked task that has nothing left to wait for.
Startable(id, registered, d, st) ==
  /\ id \in registered
  /\ st[id] = "blocked"
  /\ AllDepsComplete(d[id], registered, st)

\* Mistake: the scan stops at the first task it unblocks.
UnblockOne(registered, d, st) ==
  IF \E id \in registered : Startable(id, registered, d, st)
  THEN [st EXCEPT ![CHOOSE id \in registered : Startable(id, registered, d, st)] = "running"]
  ELSE st

\* The loop of MarkComplete: every blocked task whose dependencies are all
\* complete starts running. It writes no status it reads, so the order in
\* which it visits the map does not matter.
Unblock(registered, d, st) ==
  [id \in DOMAIN st |->
     IF Startable(id, registered, d, st) THEN "running" ELSE st[id]]

\* The status AddTask gives a task it accepts.
InitialStatus(list, registered, st) ==
  IF AllDepsComplete(list, registered, st) THEN "pending" ELSE "blocked"
=============================================================================
