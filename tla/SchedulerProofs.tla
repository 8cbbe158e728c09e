--------------------------- MODULE SchedulerProofs ---------------------------
(***************************************************************************)
(* What holds of the task DAG for every set of ids and every choice of     *)
(* dependency lists. The inductive invariant is IInv: types, acyclicity    *)
(* and the absence of stuck tasks; each of the last two is inductive       *)
(* relative to the first, and together they give SomeTaskCanRun.           *)
(***************************************************************************)
EXTENDS Scheduler, FiniteSetTheorems, SequenceTheorems, WellFoundedInduction, TLAPS

\* A dependency list of the scheduler names ids.
LEMMA NamedAreIds ==
  ASSUME NEW list \in DepLists \cup {<<>>}
  PROVE  Named(list) \subseteq Ids
<1>1. CASE list = <<>>
  BY <1>1 DEF Named
<1>2. CASE list \in DepLists
  <2>1. list \in Seq(Ids)
    BY <1>2, DepListsAssumption
  <2> QED
    BY <2>1 DEF Named
<1> QED
  BY <1>1, <1>2

\* The empty list names nothing.
LEMMA NamedEmpty == Named(<<>>) = {}
  BY DEF Named

\* Removing tasks from a graph without a cycle makes none.
LEMMA SubgraphAcyclic ==
  ASSUME NEW R, NEW R1 \in SUBSET R, NEW d, NEW d1,
         \A id \in R1 : Named(d1[id]) \subseteq Named(d[id]),
         HasCycle(R1, d1)
  PROVE  HasCycle(R, d)
<1>1. PICK S \in SUBSET R1 :
        S # {} /\ \A id \in S : \E dep \in Named(d1[id]) : dep \in S
  BY DEF HasCycle
<1>2. S \in SUBSET R /\ \A id \in S : \E dep \in Named(d[id]) : dep \in S
  BY <1>1
<1> QED
  BY <1>1, <1>2 DEF HasCycle

\* Unblock keeps the ids and starts blocked tasks only.
LEMMA UnblockResult ==
  ASSUME NEW R, NEW d, NEW st \in [Ids -> TaskStatus \cup {"absent"}],
         NEW id \in Ids
  PROVE  /\ Unblock(R, d, st) \in [Ids -> TaskStatus \cup {"absent"}]
         /\ Startable(id, R, d, st) => Unblock(R, d, st)[id] = "running"
         /\ ~Startable(id, R, d, st) => Unblock(R, d, st)[id] = st[id]
  BY DEF Unblock, Startable, TaskStatus

-----------------------------------------------------------------------------
\* Types are initially right and every step keeps them.
LEMMA InitTypeOK == Init => TypeOK
  BY DEF Init, TypeOK, NoAddTask, TaskStatus

\* Every step keeps the types.
LEMMA NextTypeOK == TypeOK /\ [Next]_vars => TypeOK'
<1> SUFFICES ASSUME TypeOK, [Next]_vars PROVE TypeOK'
  OBVIOUS
<1>1. ASSUME NEW id \in Ids, NEW list \in DepLists, AddTaskRejected(id, list)
      PROVE  TypeOK'
  BY <1>1 DEF AddTaskRejected, TypeOK
<1>2. ASSUME NEW id \in Ids, NEW list \in DepLists, AddTaskAccepted(id, list)
      PROVE  TypeOK'
  BY <1>2 DEF AddTaskAccepted, TypeOK, InitialStatus, TaskStatus
<1>3. ASSUME NEW id \in Ids, Complete(id)
      PROVE  TypeOK'
  <2> DEFINE st == [status EXCEPT ![id] = "completed"]
  <2>1. st \in [Ids -> TaskStatus \cup {"absent"}]
    BY DEF TypeOK, TaskStatus
  <2>2. \A i \in Ids : i \in tasks <=> st[i] # "absent"
    BY <1>3 DEF TypeOK, Complete
  <2>3. status' \in [Ids -> TaskStatus \cup {"absent"}]
    BY <1>3, <2>1, UnblockResult DEF Complete
  <2>4. ASSUME NEW i \in Ids PROVE i \in tasks' <=> status'[i] # "absent"
    <3> HIDE DEF st
    <3>1. status' = Unblock(tasks, deps, st) /\ tasks' = tasks
      BY <1>3 DEF Complete, st
    <3>2. CASE Startable(i, tasks, deps, st)
      <4>1. i \in tasks
        BY <3>2 DEF Startable
      <4>2. status'[i] = "running"
        BY <3>1, <3>2, <2>1, UnblockResult
      <4> QED
        BY <3>1, <4>1, <4>2
    <3>3. CASE ~Startable(i, tasks, deps, st)
      <4>1. status'[i] = st[i]
        BY <3>1, <3>3, <2>1, UnblockResult
      <4> QED
        BY <3>1, <4>1, <2>2
    <3> QED
      BY <3>2, <3>3
  <2> QED
    BY <1>3, <2>3, <2>4 DEF Complete, TypeOK, NoAddTask
<1>4. ASSUME NEW id \in Ids, NEW st \in Reported, Report(id, st)
      PROVE  TypeOK'
  BY <1>4 DEF Report, TypeOK, NoAddTask, Reported, TaskStatus
<1>5. CASE UNCHANGED vars
  BY <1>5 DEF vars, TypeOK
<1> QED
  BY <1>1, <1>2, <1>3, <1>4, <1>5 DEF Next, AddTask, TaskUpdate

\* The scheduler's maps keep their types, and an id has a status exactly when
\* it is registered.
THEOREM TypeCorrect == Spec => []TypeOK
  BY InitTypeOK, NextTypeOK, PTL DEF Spec

-----------------------------------------------------------------------------
\* No call closes a circle of waiting tasks.
LEMMA NextAcyclic == AcyclicDeps /\ TypeOK /\ [Next]_vars => AcyclicDeps'
<1> SUFFICES ASSUME AcyclicDeps, TypeOK, [Next]_vars PROVE AcyclicDeps'
  OBVIOUS
<1>1. ASSUME NEW id \in Ids, NEW list \in DepLists, AddTaskRejected(id, list)
      PROVE  AcyclicDeps'
  <2>1. tasks' \in SUBSET tasks
    BY <1>1 DEF AddTaskRejected
  <2>2. \A i \in tasks' : Named(deps'[i]) \subseteq Named(deps[i])
    BY <1>1 DEF AddTaskRejected, TypeOK
  <2> QED
    BY <2>1, <2>2, SubgraphAcyclic DEF AcyclicDeps
<1>2. ASSUME NEW id \in Ids, NEW list \in DepLists, AddTaskAccepted(id, list)
      PROVE  AcyclicDeps'
  BY <1>2 DEF AddTaskAccepted, AcyclicDeps
<1>3. CASE UNCHANGED <<tasks, deps>>
  BY <1>3 DEF AcyclicDeps
<1> QED
  BY <1>1, <1>2, <1>3 DEF Next, AddTask, TaskUpdate, Complete, Report, vars

\* The tasks never wait for each other in a circle.
THEOREM NeverCyclic == Spec => []AcyclicDeps
<1>1. Init => AcyclicDeps
  BY DEF Init, AcyclicDeps, HasCycle
<1> QED
  BY <1>1, TypeCorrect, NextAcyclic, PTL DEF Spec
-----------------------------------------------------------------------------
\* A blocked task has a dependency it really waits for, after every step.
LEMMA NextNoStuckTask == NoStuckTask /\ TypeOK /\ [Next]_vars => NoStuckTask'
<1> SUFFICES ASSUME NoStuckTask, TypeOK, [Next]_vars,
                    NEW b \in tasks', status'[b] = "blocked"
             PROVE  \E dep \in Named(deps'[b]) : status'[dep] # "completed"
  BY DEF NoStuckTask
<1>0. tasks' \subseteq Ids /\ \A i \in Ids : Named(deps[i]) \subseteq Ids
  BY NextTypeOK, NamedAreIds DEF TypeOK
<1>1. ASSUME NEW id \in Ids, NEW list \in DepLists, AddTaskRejected(id, list)
      PROVE  \E dep \in Named(deps'[b]) : status'[dep] # "completed"
  <2>1. b # id /\ b \in tasks /\ status[b] = "blocked" /\ deps'[b] = deps[b]
    BY <1>1, <1>0 DEF AddTaskRejected, TypeOK
  <2>2. PICK dep \in Named(deps[b]) : status[dep] # "completed"
    BY <2>1 DEF NoStuckTask
  <2>3. status'[dep] # "completed"
    BY <1>1, <1>0, <2>1, <2>2 DEF AddTaskRejected, TypeOK
  <2> QED
    BY <2>1, <2>2, <2>3
<1>2. ASSUME NEW id \in Ids, NEW list \in DepLists, AddTaskAccepted(id, list)
      PROVE  \E dep \in Named(deps'[b]) : status'[dep] # "completed"
  <2>1. /\ status' = [status EXCEPT ![id] = InitialStatus(list, tasks, status)]
        /\ deps' = [deps EXCEPT ![id] = list]
        /\ tasks' = tasks \cup {id}
    BY <1>2 DEF AddTaskAccepted
  <2>2. InitialStatus(list, tasks, status) # "completed"
    BY DEF InitialStatus
  <2>3. \A i \in Ids : status[i] # "completed" => status'[i] # "completed"
    BY <2>1, <2>2 DEF TypeOK
  <2>4. CASE b = id
    <3>1. ~AllDepsComplete(list, tasks, status) /\ deps'[b] = list
      BY <2>1, <2>4 DEF TypeOK, InitialStatus
    <3>2. PICK dep \in Named(list) : dep \notin tasks \/ status[dep] # "completed"
      BY <3>1 DEF AllDepsComplete
    <3>3. dep \in Ids
      BY NamedAreIds
    <3>4. status[dep] # "completed"
      BY <3>2, <3>3 DEF TypeOK
    <3> QED
      BY <3>1, <3>3, <3>4, <2>3
  <2>5. CASE b # id
    <3>1. b \in tasks /\ status[b] = "blocked" /\ deps'[b] = deps[b]
      BY <2>1, <2>5, <1>0 DEF TypeOK
    <3>2. PICK dep \in Named(deps[b]) : status[dep] # "completed"
      BY <3>1 DEF NoStuckTask
    <3> QED
      BY <1>0, <2>3, <3>1, <3>2
  <2> QED
    BY <2>4, <2>5
<1>3. ASSUME NEW id \in Ids, Complete(id)
      PROVE  \E dep \in Named(deps'[b]) : status'[dep] # "completed"
  <2> DEFINE st == [status EXCEPT ![id] = "completed"]
  <2>1. /\ st \in [Ids -> TaskStatus \cup {"absent"}]
        /\ status' = Unblock(tasks, deps, st)
        /\ tasks' = tasks /\ deps' = deps /\ id \in tasks
    BY <1>3 DEF Complete, TypeOK, TaskStatus
  <2> HIDE DEF st
  <2>2. ~Startable(b, tasks, deps, st)
    BY <2>1, <1>0, UnblockResult
  <2>3. st[b] = "blocked"
    BY <2>1, <2>2, <1>0, UnblockResult
  <2>4. PICK dep \in Named(deps[b]) : dep \notin tasks \/ st[dep] # "completed"
    BY <2>1, <2>2, <2>3 DEF Startable, AllDepsComplete
  <2>5. dep \in Ids /\ st[dep] # "completed"
    BY <1>0, <2>1, <2>4 DEF st, TypeOK
  <2>6. status'[dep] # "completed"
    <3>1. CASE Startable(dep, tasks, deps, st)
      BY <3>1, <2>1, <2>5, UnblockResult
    <3>2. CASE ~Startable(dep, tasks, deps, st)
      BY <3>2, <2>1, <2>5, UnblockResult
    <3> QED
      BY <3>1, <3>2
  <2> QED
    BY <2>1, <2>4, <2>6
<1>4. ASSUME NEW id \in Ids, NEW st \in Reported, st # "completed", Report(id, st)
      PROVE  \E dep \in Named(deps'[b]) : status'[dep] # "completed"
  <2>1. b \in tasks /\ status[b] = "blocked" /\ deps'[b] = deps[b]
    BY <1>4, <1>0 DEF Report, TypeOK, Reported
  <2>2. PICK dep \in Named(deps[b]) : status[dep] # "completed"
    BY <2>1 DEF NoStuckTask
  <2>3. status'[dep] # "completed"
    BY <1>4, <1>0, <2>1, <2>2 DEF Report, TypeOK
  <2> QED
    BY <2>1, <2>2, <2>3
<1>5. CASE UNCHANGED vars
  BY <1>5 DEF vars, NoStuckTask
<1> QED
  BY <1>1, <1>2, <1>3, <1>4, <1>5 DEF Next, AddTask, TaskUpdate

\* MarkComplete loses no wakeup: a task still blocked has a dependency that is
\* not complete.
THEOREM NoTaskIsStuck == Spec => []NoStuckTask
<1>1. Init => NoStuckTask
  BY DEF Init, NoStuckTask
<1> QED
  BY <1>1, TypeCorrect, NextNoStuckTask, PTL DEF Spec

-----------------------------------------------------------------------------
\* Acyclicity and the absence of stuck tasks leave somebody to work with: the
\* blocked tasks alone would be a set in which everyone waits for a member.
LEMMA SomeoneCanWork == TypeOK /\ AcyclicDeps /\ NoStuckTask => SomeTaskCanRun
<1> SUFFICES ASSUME TypeOK, AcyclicDeps, NoStuckTask, Unobstructed,
                    \E id \in tasks : status[id] = "blocked",
                    ~ \E id \in tasks : status[id] \in {"pending", "running"}
             PROVE  FALSE
  BY DEF SomeTaskCanRun
<1> DEFINE S == {id \in tasks : status[id] = "blocked"}
<1>1. ASSUME NEW id \in S PROVE \E dep \in Named(deps[id]) : dep \in S
  <2>1. PICK dep \in Named(deps[id]) : status[dep] # "completed"
    BY DEF NoStuckTask
  <2>2. dep \in tasks /\ dep \in Ids
    BY <2>1 DEF Unobstructed, TypeOK
  <2>3. status[dep] \in TaskStatus \ {"failed"}
    BY <2>2 DEF Unobstructed, TypeOK
  <2>4. status[dep] = "blocked"
    BY <2>1, <2>2, <2>3 DEF TaskStatus
  <2> QED
    BY <2>1, <2>2, <2>4
<1>2. S \in SUBSET tasks /\ S # {}
  OBVIOUS
<1>3. HasCycle(tasks, deps)
  BY <1>1, <1>2 DEF HasCycle
<1> QED
  BY <1>3 DEF AcyclicDeps

\* The tasks never all wait for one another.
THEOREM NeverAllWaiting == Spec => []SomeTaskCanRun
  BY TypeCorrect, NeverCyclic, NoTaskIsStuck, SomeoneCanWork, PTL

-----------------------------------------------------------------------------
\* Only MarkComplete turns blocked into running on its own, and only when all
\* dependencies are complete.
LEMMA StepStartsWhenReady ==
  ASSUME TypeOK, [Next]_vars, NEW b \in Ids,
         status[b] = "blocked", status'[b] = "running", ~Report(b, "running")
  PROVE  \A dep \in Named(deps[b]) : status'[dep] = "completed"
<1>0. Named(deps[b]) \subseteq Ids
  BY NamedAreIds DEF TypeOK
<1>1. ASSUME NEW id \in Ids, NEW list \in DepLists, AddTask(id, list)
      PROVE  FALSE
  BY <1>1 DEF AddTask, AddTaskRejected, AddTaskAccepted, TypeOK, InitialStatus
<1>2. ASSUME NEW id \in Ids, Complete(id)
      PROVE  \A dep \in Named(deps[b]) : status'[dep] = "completed"
  <2> DEFINE st == [status EXCEPT ![id] = "completed"]
  <2>1. /\ st \in [Ids -> TaskStatus \cup {"absent"}]
        /\ status' = Unblock(tasks, deps, st)
        /\ st[b] # "running"
    BY <1>2 DEF Complete, TypeOK, TaskStatus
  <2> HIDE DEF st
  <2>2. Startable(b, tasks, deps, st)
    BY <2>1, UnblockResult
  <2>3. ASSUME NEW dep \in Named(deps[b]) PROVE status'[dep] = "completed"
    <3>1. dep \in Ids /\ st[dep] = "completed"
      BY <1>0, <2>2 DEF Startable, AllDepsComplete
    <3>2. ~Startable(dep, tasks, deps, st)
      BY <3>1 DEF Startable
    <3> QED
      BY <2>1, <3>1, <3>2, UnblockResult
  <2> QED
    BY <2>3
<1>3. ASSUME NEW id \in Ids, NEW st \in Reported, Report(id, st)
      PROVE  FALSE
  BY <1>3 DEF Report, TypeOK
<1>4. CASE UNCHANGED vars
  BY <1>4 DEF vars
<1> QED
  BY <1>1, <1>2, <1>3, <1>4 DEF Next, TaskUpdate

\* The scheduler starts a task only when everything it depends on is complete.
THEOREM StartsOnlyWhenReady == Spec => StartsWhenReady
<1>1. TypeOK /\ [Next]_vars =>
        [\A id \in Ids :
           /\ status[id] = "blocked" /\ status'[id] = "running"
           /\ ~Report(id, "running")
           => \A dep \in Named(deps[id]) : status'[dep] = "completed"]_vars
  BY StepStartsWhenReady
<1> QED
  BY <1>1, TypeCorrect, PTL DEF Spec, StartsWhenReady

-----------------------------------------------------------------------------
\* Kahn's algorithm. A set of numbers that is not empty has a least one: with
\* it, what holds of each count is shown along the number of nodes left.
LEMMA Least ==
  ASSUME NEW T \in SUBSET Nat, T # {}
  PROVE  \E x \in T : \A y \in T : x <= y
<1>1. PICK x \in T : \A y \in T : ~ (<<y, x>> \in OpToRel(<, Nat))
  BY WFMin, NatLessThanWellFounded
<1>2. \A y \in T : ~ (y < x)
  BY <1>1 DEF OpToRel
<1> QED
  BY <1>2

\* The nodes the queue can hold when those of c are counted.
Ready(c, nodes, registered, d) ==
  {n \in nodes \ c : InDegree(n, registered, d, c) = 0}

\* final says of every set of counted nodes what the count can be in the end.
IsFinal(final, nodes, registered, d) ==
  final = [c \in SUBSET nodes |->
             IF Ready(c, nodes, registered, d) = {} THEN {Cardinality(c)}
             ELSE UNION {final[c \cup {n}] : n \in Ready(c, nodes, registered, d)}]

\* Visited is the value of such a function.
LEMMA VisitedIs ==
  ASSUME NEW registered, NEW d
  PROVE  Visited(registered, d) =
           (CHOOSE final : IsFinal(final, Nodes(registered, d), registered, d))[{}]
BY DEF Visited, IsFinal, Ready

\* The sets the algorithm can come to from c: those in every family that has c
\* and each set that follows one it has.
Family(K, nodes, registered, d) ==
  \A k \in K : \A n \in Ready(k, nodes, registered, d) : k \cup {n} \in K

Reached(c, nodes, registered, d) ==
  {s \in SUBSET nodes : \A K \in SUBSET SUBSET nodes :
     Family(K, nodes, registered, d) /\ c \in K => s \in K}

\* There is such a function: it has the sizes of the sets reached at which
\* nothing is ready.
LEMMA FinalExists ==
  ASSUME NEW nodes, NEW registered, NEW d
  PROVE  \E final : IsFinal(final, nodes, registered, d)
<1> DEFINE R(c) == Ready(c, nodes, registered, d)
           Fam(K) == Family(K, nodes, registered, d)
           Re(c) == Reached(c, nodes, registered, d)
           Ends(c) == {Cardinality(s) : s \in {s \in Re(c) : R(s) = {}}}
           final == [c \in SUBSET nodes |-> Ends(c)]
<1>1. \A c \in SUBSET nodes : R(c) \subseteq nodes
  BY DEF Ready
<1>2. \A c \in SUBSET nodes : c \in Re(c)
  BY DEF Reached
<1>3. \A c \in SUBSET nodes : Fam(Re(c))
  <2> SUFFICES ASSUME NEW c \in SUBSET nodes, NEW s \in Re(c), NEW n \in R(s)
               PROVE  s \cup {n} \in Re(c)
    BY DEF Family
  <2>1. s \in SUBSET nodes /\ s \cup {n} \in SUBSET nodes
    BY <1>1 DEF Reached
  <2>2. ASSUME NEW K \in SUBSET SUBSET nodes, Fam(K), c \in K  PROVE s \cup {n} \in K
    <3>1. s \in K
      BY <2>2 DEF Reached
    <3> QED  BY <2>2, <3>1 DEF Family
  <2> QED  BY <2>1, <2>2 DEF Reached
<1>4. ASSUME NEW c \in SUBSET nodes, R(c) = {}  PROVE Re(c) = {c}
  <2>1. Fam({c}) /\ {c} \in SUBSET SUBSET nodes
    BY <1>4 DEF Family
  <2>2. \A s \in Re(c) : s \in {c}
    BY <2>1 DEF Reached
  <2> QED  BY <1>2, <2>2
<1>5. ASSUME NEW c \in SUBSET nodes, NEW n \in R(c)
      PROVE  c \cup {n} \in SUBSET nodes /\ Re(c \cup {n}) \subseteq Re(c)
  <2>1. c \cup {n} \in SUBSET nodes
    BY <1>1
  <2>2. \A K \in SUBSET SUBSET nodes : Fam(K) /\ c \in K => c \cup {n} \in K
    BY DEF Family
  <2>3. Re(c \cup {n}) \subseteq Re(c)
    BY <2>2 DEF Reached
  <2> QED  BY <2>1, <2>3
<1>6. ASSUME NEW c \in SUBSET nodes, NEW s \in Re(c), s # c
      PROVE  \E n \in R(c) : s \in Re(c \cup {n})
  <2> DEFINE K == {c} \cup UNION {Re(c \cup {n}) : n \in R(c)}
  <2>1. K \in SUBSET SUBSET nodes
    BY DEF Reached
  <2>2. ASSUME NEW k \in K, NEW m \in R(k)  PROVE k \cup {m} \in K
    <3>1. CASE k = c
      <4>1. k \cup {m} \in Re(c \cup {m})
        BY <1>2, <1>5, <2>2, <3>1
      <4> QED  BY <2>2, <3>1, <4>1
    <3>2. CASE k # c
      <4>1. PICK n \in R(c) : k \in Re(c \cup {n})
        BY <2>2, <3>2
      <4>2. Fam(Re(c \cup {n}))
        BY <1>3, <1>5
      <4>3. k \cup {m} \in Re(c \cup {n})
        BY <2>2, <4>1, <4>2 DEF Family
      <4> QED  BY <4>3
    <3> QED  BY <3>1, <3>2
  <2>3. Fam(K) /\ c \in K
    BY <2>2 DEF Family
  <2>4. s \in K
    BY <2>1, <2>3 DEF Reached
  <2> QED  BY <1>6, <2>4
<1> HIDE DEF R, Re
<1>7. ASSUME NEW c \in SUBSET nodes
      PROVE  Ends(c) = IF R(c) = {} THEN {Cardinality(c)}
                       ELSE UNION {final[c \cup {n}] : n \in R(c)}
  <2>1. CASE R(c) = {}
    <3>1. {s \in Re(c) : R(s) = {}} = {c}
      BY <1>4, <2>1
    <3> QED  BY <2>1, <3>1
  <2>2. CASE R(c) # {}
    <3>1. \A n \in R(c) : final[c \cup {n}] = Ends(c \cup {n})
      BY <1>5
    <3>2. \A s \in Re(c) : R(s) = {} => \E n \in R(c) : s \in Re(c \cup {n})
      BY <1>6, <2>2
    <3>3. Ends(c) \subseteq UNION {Ends(c \cup {n}) : n \in R(c)}
      BY <3>2
    <3>4. \A n \in R(c) : Ends(c \cup {n}) \subseteq Ends(c)
      BY <1>5
    <3> HIDE DEF Ends, final
    <3>5. UNION {Ends(c \cup {n}) : n \in R(c)} = UNION {final[c \cup {n}] : n \in R(c)}
      BY <3>1
    <3> QED  BY <2>2, <3>3, <3>4, <3>5
  <2> QED  BY <2>1, <2>2
<1> HIDE DEF Ends
<1>8. final = [c \in SUBSET nodes |-> IF R(c) = {} THEN {Cardinality(c)}
                                      ELSE UNION {final[c \cup {n}] : n \in R(c)}]
  BY <1>7
<1> HIDE DEF final
<1>9. IsFinal(final, nodes, registered, d)
  BY <1>8 DEF IsFinal, R
<1> QED  BY <1>9

\* No node of a circle has been counted.
Peeled(c, registered, d) ==
  \A S \in SUBSET registered :
    S # {} /\ (\A id \in S : \E dep \in Named(d[id]) : dep \in S) => S \cap c = {}

\* A node of which nothing is left to count is in no circle.
LEMMA PeelOne ==
  ASSUME NEW registered, NEW d, NEW nodes, NEW c,
         \A id \in registered : d[id] \in Seq(Ids),
         Peeled(c, registered, d), NEW n \in Ready(c, nodes, registered, d)
  PROVE  Peeled(c \cup {n}, registered, d)
<1> SUFFICES ASSUME NEW S \in SUBSET registered, S # {},
                    \A id \in S : \E dep \in Named(d[id]) : dep \in S,
                    n \in S
             PROVE  FALSE
  BY DEF Peeled
<1>1. S \cap c = {}
  BY DEF Peeled
<1>2. PICK i \in DOMAIN d[n] : d[n][i] \in S
  BY DEF Named
<1>3. Cardinality({j \in DOMAIN d[n] : d[n][j] \notin c}) = 0
  BY DEF Ready, InDegree
<1> DEFINE left == {j \in DOMAIN d[n] : d[n][j] \notin c}
<1>4. IsFiniteSet(left)
  <2>1. DOMAIN d[n] = 1..Len(d[n]) /\ Len(d[n]) \in Nat
    BY LenProperties
  <2>2. IsFiniteSet(1..Len(d[n]))
    BY <2>1, FS_Interval
  <2> QED  BY <2>1, <2>2, FS_Subset
<1>5. left = {}
  BY <1>3, <1>4, FS_EmptySet
<1> QED  BY <1>1, <1>2, <1>5

\* What the count can be in the end: that of a set at which nothing is ready,
\* and which has no node of a circle.
LEMMA FinalCounts ==
  ASSUME NEW registered, NEW d, NEW nodes, IsFiniteSet(nodes), NEW final,
         \A id \in registered : d[id] \in Seq(Ids),
         IsFinal(final, nodes, registered, d), NEW v \in final[{}]
  PROVE  \E s \in SUBSET nodes : /\ v = Cardinality(s) /\ Peeled(s, registered, d)
                                 /\ Ready(s, nodes, registered, d) = {}
<1> DEFINE R(c) == Ready(c, nodes, registered, d)
           Good(x) == \E s \in SUBSET nodes : x = Cardinality(s) /\ Peeled(s, registered, d) /\ R(s) = {}
           Bad == {c \in SUBSET nodes : Peeled(c, registered, d) /\ \E x \in final[c] : ~Good(x)}
           T == {Cardinality(nodes \ c) : c \in Bad}
<1>1. Bad = {}
  <2> SUFFICES ASSUME Bad # {}  PROVE FALSE
    OBVIOUS
  <2>1. \A c \in SUBSET nodes : IsFiniteSet(nodes \ c) /\ Cardinality(nodes \ c) \in Nat
    BY FS_Subset, FS_CardinalityType
  <2>2. T \in SUBSET Nat /\ T # {}
    BY <2>1
  <2> HIDE DEF Bad
  <2>3. PICK c \in Bad : \A b \in Bad : Cardinality(nodes \ c) <= Cardinality(nodes \ b)
    <3>1. PICK t \in T : \A y \in T : t <= y
      <4> HIDE DEF T
      <4> QED  BY <2>2, Least
    <3> QED  BY <3>1
  <2>4. c \in SUBSET nodes /\ Peeled(c, registered, d)
    BY DEF Bad
  <2>5. PICK x \in final[c] : ~Good(x)
    BY DEF Bad
  <2>6. final[c] = IF R(c) = {} THEN {Cardinality(c)} ELSE UNION {final[c \cup {n}] : n \in R(c)}
    BY <2>4 DEF IsFinal
  <2>7. R(c) # {}
    BY <2>4, <2>5, <2>6
  <2>8. PICK n \in R(c) : x \in final[c \cup {n}]
    BY <2>5, <2>6, <2>7
  <2>9. n \in nodes \ c
    BY DEF Ready
  <2>10. Peeled(c \cup {n}, registered, d)
    BY <2>4, PeelOne
  <2> HIDE DEF R, Good
  <2>11. c \cup {n} \in Bad
    BY <2>4, <2>5, <2>8, <2>9, <2>10 DEF Bad
  <2> DEFINE left == nodes \ c
  <2>12. nodes \ (c \cup {n}) = left \ {n} /\ n \in left
    BY <2>9
  <2>13. IsFiniteSet(left) /\ Cardinality(left) \in Nat
    BY <2>1, <2>4
  <2>14. Cardinality(left \ {n}) = Cardinality(left) - 1
    BY <2>12, <2>13, FS_RemoveElement
  <2>15. Cardinality(left) <= Cardinality(left \ {n})
    BY <2>3, <2>11, <2>12
  <2> QED  BY <2>13, <2>14, <2>15
<1>2. Peeled({}, registered, d)
  BY DEF Peeled
<1>3. {} \in SUBSET nodes /\ {} \notin Bad
  BY <1>1
<1> QED  BY <1>2, <1>3

\* Nothing is ready although nodes are left: they are a circle.
LEMMA StuckIsCycle ==
  ASSUME NEW registered, NEW d, \A id \in registered : d[id] \in Seq(Ids),
         NEW s \in SUBSET Nodes(registered, d), s # Nodes(registered, d),
         Ready(s, Nodes(registered, d), registered, d) = {}
  PROVE  HasCycle(registered, d)
<1> DEFINE S == Nodes(registered, d) \ s
<1>1. ASSUME NEW n \in S  PROVE n \in registered /\ \E dep \in Named(d[n]) : dep \in S
  <2>1. InDegree(n, registered, d, s) # 0
    BY DEF Ready
  <2>2. n \in registered
    BY <2>1 DEF InDegree
  <2> DEFINE left == {i \in DOMAIN d[n] : d[n][i] \notin s}
  <2>3. Cardinality(left) # 0
    BY <2>1, <2>2 DEF InDegree
  <2>4. left # {}
    BY <2>3, FS_EmptySet
  <2>5. PICK i \in DOMAIN d[n] : d[n][i] \notin s
    BY <2>4
  <2>6. d[n][i] \in Named(d[n])
    BY <2>5 DEF Named
  <2>7. d[n][i] \in Nodes(registered, d)
    BY <2>2, <2>6 DEF Nodes
  <2> QED  BY <2>2, <2>5, <2>6, <2>7
<1>2. S \in SUBSET registered /\ S # {}
  BY <1>1
<1> HIDE DEF S
<1> QED  BY <1>1, <1>2 DEF HasCycle

\* The nodes of a finite graph.
LEMMA NodesAreFinite ==
  ASSUME NEW registered, IsFiniteSet(registered), NEW d,
         \A id \in registered : d[id] \in Seq(Ids)
  PROVE  IsFiniteSet(Nodes(registered, d))
<1>1. ASSUME NEW id \in registered  PROVE IsFiniteSet(Named(d[id]))
  <2> DEFINE list == d[id]
  <2>1. list \in Seq(Ids) /\ DOMAIN list = 1..Len(list) /\ Len(list) \in Nat
    BY LenProperties
  <2>2. IsFiniteSet(DOMAIN list)
    BY <2>1, FS_Interval
  <2> HIDE DEF list
  <2>3. IsFiniteSet({list[i] : i \in DOMAIN list})
    <3> DEFINE f == [i \in DOMAIN list |-> list[i]]
               T == {list[i] : i \in DOMAIN list}
    <3>1. f \in Surjection(DOMAIN list, T)
      BY DEF Surjection
    <3> HIDE DEF f, T
    <3> QED  BY <2>2, <3>1, FS_Surjection DEF T
  <2> QED  BY <2>3 DEF Named, list
<1> DEFINE U == {Named(d[id]) : id \in registered}
<1>2. IsFiniteSet(U)
  <2> DEFINE f == [id \in registered |-> Named(d[id])]
  <2>1. f \in Surjection(registered, U)
    BY DEF Surjection
  <2> HIDE DEF f, U
  <2> QED  BY <2>1, FS_Surjection
<1>3. \A s \in U : IsFiniteSet(s)
  BY <1>1
<1> HIDE DEF U
<1>4. IsFiniteSet(UNION U)
  BY <1>2, <1>3, FS_UNION
<1> QED  BY <1>4, FS_Union DEF Nodes, U

\* The count ends short of the nodes exactly when there is a circle.
LEMMA KahnIsRight ==
  ASSUME NEW registered, IsFiniteSet(registered), NEW d,
         \A id \in registered : d[id] \in Seq(Ids),
         NEW v \in Visited(registered, d)
  PROVE  v < Cardinality(Nodes(registered, d)) <=> HasCycle(registered, d)
<1> DEFINE nodes == Nodes(registered, d)
           final == CHOOSE f : IsFinal(f, nodes, registered, d)
<1>1. IsFiniteSet(nodes)
  BY NodesAreFinite
<1>2. IsFinal(final, nodes, registered, d)
  <2> HIDE DEF nodes
  <2> QED  BY FinalExists
<1>3. v \in final[{}]
  BY VisitedIs
<1> HIDE DEF final
<1>4. PICK s \in SUBSET nodes : /\ v = Cardinality(s) /\ Peeled(s, registered, d)
                                /\ Ready(s, nodes, registered, d) = {}
  <2> HIDE DEF nodes
  <2> QED  BY <1>1, <1>2, <1>3, FinalCounts
<1>5. s # nodes => HasCycle(registered, d)
  BY <1>4, StuckIsCycle
<1>6. s = nodes => ~HasCycle(registered, d)
  <2>1. registered \subseteq nodes
    BY DEF Nodes
  <2> HIDE DEF nodes
  <2> QED  BY <1>4, <2>1 DEF Peeled, HasCycle
<1>7. s # nodes => Cardinality(s) < Cardinality(nodes)
  <2> HIDE DEF nodes
  <2>1. IsFiniteSet(s) /\ Cardinality(s) \in Nat /\ Cardinality(nodes) \in Nat
        /\ Cardinality(s) <= Cardinality(nodes)
        /\ (Cardinality(s) = Cardinality(nodes) => s = nodes)
    BY <1>1, FS_Subset, FS_CardinalityType
  <2> QED  BY <2>1
<1>8. Cardinality(nodes) \in Nat
  BY <1>1, FS_CardinalityType
<1> HIDE DEF nodes
<1>9. v < Cardinality(nodes) <=> s # nodes
  BY <1>4, <1>7, <1>8
<1>10. s # nodes <=> HasCycle(registered, d)
  BY <1>5, <1>6
<1>11. v < Cardinality(nodes) <=> HasCycle(registered, d)
  BY <1>9, <1>10
<1> QED  BY <1>11 DEF nodes

\* The tasks are as many as were added.
FiniteTasks == IsFiniteSet(tasks)

\* Every step adds one task at most.
LEMMA NextFinite == FiniteTasks /\ [Next]_vars => FiniteTasks'
<1> SUFFICES ASSUME IsFiniteSet(tasks), [Next]_vars  PROVE IsFiniteSet(tasks')
  BY DEF FiniteTasks
<1>1. tasks' = tasks \/ \E id \in Ids : tasks' = tasks \cup {id} \/ tasks' = tasks \ {id}
  BY DEF Next, AddTask, AddTaskAccepted, AddTaskRejected, TaskUpdate, Complete, Report, vars
<1> QED  BY <1>1, FS_AddElement, FS_RemoveElement

\* KahnAgrees: whatever the order of the maps and of the queue, detectCycle
\* refuses an insertion exactly when it would close a circle.
THEOREM KahnIsExact == Spec => []KahnAgrees
<1>1. Init => FiniteTasks
  BY FS_EmptySet DEF Init, FiniteTasks
<1>2. TypeOK /\ FiniteTasks => KahnAgrees
  <2> SUFFICES ASSUME TypeOK, IsFiniteSet(tasks), NEW id \in Ids, NEW list \in DepLists,
                      NEW visited \in Visited(tasks \cup {id}, [deps EXCEPT ![id] = list])
               PROVE  visited < Cardinality(Nodes(tasks \cup {id}, [deps EXCEPT ![id] = list]))
                        <=> HasCycle(tasks \cup {id}, [deps EXCEPT ![id] = list])
    BY DEF KahnAgrees, FiniteTasks
  <2> DEFINE registered == tasks \cup {id}
             d == [deps EXCEPT ![id] = list]
  <2>1. IsFiniteSet(registered)
    BY FS_AddElement
  <2>2. \A x \in registered : d[x] \in Seq(Ids)
    <3>1. <<>> \in Seq(Ids)
      OBVIOUS
    <3> QED  BY <3>1, DepListsAssumption DEF TypeOK
  <2>3. visited \in Visited(registered, d)
    OBVIOUS
  <2> HIDE DEF registered, d
  <2>4. visited < Cardinality(Nodes(registered, d)) <=> HasCycle(registered, d)
    BY <2>1, <2>2, <2>3, KahnIsRight
  <2> QED  BY <2>4 DEF registered, d
<1> QED  BY <1>1, <1>2, NextFinite, TypeCorrect, PTL DEF Spec
=============================================================================
