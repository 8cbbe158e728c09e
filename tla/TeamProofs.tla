----------------------------- MODULE TeamProofs -----------------------------
(***************************************************************************)
(* What holds of a team's task board for every set of threads, ids, task   *)
(* specs and reports, any bound on the sequence numbers, and crashes and   *)
(* Opens at any time.                                                      *)
(*                                                                         *)
(* Each property has an inductive invariant of its own on top of the types *)
(* (TInv): NumberInv follows a sequence number from the counter through a  *)
(* call into the journal; StatusInv a status from the journal to the board *)
(* and the cache; NoLostWakeup is inductive as it stands. GraphInv says    *)
(* that the journal, whatever the order of its lines, describes a part of  *)
(* the graph AddTask has checked, so that a replay meets no cycle; it      *)
(* holds until a caller names an id in use. RestoreInv follows the boards  *)
(* a replay of the journal goes through, and says how far the memory is    *)
(* from the last of them while calls do not overlap; that a scan ends with *)
(* nothing startable is NoLostWakeup, that TaskList shows the newest Tasks *)
(* is NewestInv.                                                           *)
(***************************************************************************)
EXTENDS Team, FiniteSetTheorems, SequenceTheorems, WellFoundedInduction, TLAPS

\* Outside "up" nobody is in a call; without a process nothing is in memory.
PhaseInv ==
  /\ phase # "up" => Quiet
  /\ phase \in {"up", "down"} => pos = 0
  /\ phase = "down" => registry = {} /\ sched = {}
  /\ phase = "rebuild" => pos = Len(journal)
  /\ phase # "up" => /\ \A id \in Ids : shown[id] = "newest"
                     /\ \A t \in Threads : made[t] = "newest"

\* Which envelope a call is about, by the step it is at.
KindInv ==
  \A t \in Threads :
    /\ pc[t] \in {"seq", "register"} => call[t].kind = "task-create"
    /\ pc[t] = "append" => call[t].kind \in {"task-create", "task-update"}
    /\ pc[t] \in {"apply", "mark", "scan", "promote"} => call[t].kind = "task-update"
    /\ pc[t] = "mark" => call[t].status \in {"completed", "failed"}
    /\ pc[t] = "promote" => hit[t] \in Ids

\* A Task that is being made has a status; only such a Task can be an older
\* one.
MadeInv ==
  \A t \in Threads : /\ Making(t) => status[call[t].id] # "absent"
                     /\ ~Making(t) => made[t] = "newest"

TInv == TypeOK /\ PhaseInv /\ KindInv /\ MadeInv

Numbering == {t \in Threads : pc[t] = "seq"}

\* The numbers in the journal and in the envelopes about to go there differ
\* and are below the counter; the reserved ones fit below the bound.
NumberInv ==
  /\ journal # <<>>
  /\ \A i \in DOMAIN journal : journal[i].seq < MaxSeq
  /\ phase \in {"up", "rebuild"} =>
       /\ seq + Cardinality(Numbering) <= MaxSeq
       /\ \A i \in DOMAIN journal : journal[i].seq < seq
  /\ \A t \in Threads : pc[t] = "append" =>
       /\ call[t].seq < seq
       /\ \A i \in DOMAIN journal : journal[i].seq # call[t].seq
  /\ \A t, u \in Threads : t # u /\ pc[t] = "append" /\ pc[u] = "append" =>
       call[t].seq # call[u].seq
  /\ SeqUnique

\* The lines of a journal that create a task, and the tasks they create.
Creations(j) == {i \in DOMAIN j : j[i].kind = "task-create"}
Created(j) == {j[i].id : i \in Creations(j)}

\* A journal holds a report of this status of the task.
HasReport(j, id, st) ==
  \E i \in DOMAIN j : j[i].kind = "task-update" /\ j[i].id = id /\ j[i].status = st

Ended == {"completed", "failed"}

\* A journal holds what a list says.
Backs(j, list) ==
  \A id \in Ids : /\ list[id] # "absent" => id \in Created(j)
                  /\ list[id] \in Ended => HasReport(j, id, list[id])

StatusInv ==
  /\ registry \subseteq Created(journal)
  /\ \A id \in Ids : /\ status[id] \in Ended => HasReport(journal, id, status[id])
                     /\ shown[id] \in Ended => HasReport(journal, id, shown[id])
  /\ \A t \in Threads :
       /\ Backs(journal, copy[t])
       /\ Making(t) /\ made[t] \in Ended => HasReport(journal, call[t].id, made[t])
       /\ pc[t] = "register" => call[t].id \in Created(journal)
       /\ pc[t] \in {"apply", "mark"} => HasReport(journal, call[t].id, call[t].status)
  /\ Backs(journal, cache.tasks)

\* A TaskCreate whose envelope is not in the journal yet.
ToJournal(t) == pc[t] \in {"seq", "append"} /\ call[t].kind = "task-create"

\* How many lines of the journal the board in memory stands for.
Reached == IF phase \in {"replay", "rebuild"} THEN pos ELSE
           IF phase = "up" THEN Len(journal) ELSE 0

\* Every set of tasks that a journal creates has a member that waits for none
\* of it.
AcyclicJournal(j) ==
  \A S \in SUBSET {j[i].id : i \in Creations(j)} : S # {} =>
    \E id \in S : \A i \in Creations(j) : j[i].id = id => Named(j[i].deps) \cap S = {}

\* What holds as long as no id was used twice.
GraphInv ==
  /\ \A i, j \in Creations(journal) : journal[i].id = journal[j].id => i = j
  /\ \A t \in Threads : ToJournal(t) =>
       /\ call[t].id \notin Journaled
       /\ deps[call[t].id] = call[t].deps
  /\ \A t, u \in Threads : ToJournal(t) /\ ToJournal(u) /\ call[t].id = call[u].id => t = u
  /\ \A t \in Threads : Making(t) => call[t].id \in sched
  /\ \A i \in Creations(journal) : i <= Reached =>
       journal[i].id \in sched /\ deps[journal[i].id] = journal[i].deps
  /\ phase = "replay" => \A id \in sched : \E i \in Creations(journal) :
       i <= pos /\ journal[i].id = id /\ journal[i].deps = deps[id]
  /\ ~HasCycle(sched, deps)
  /\ AcyclicJournal(journal)
  /\ RegisteredIsScheduled

FreshGraph == ~reused => GraphInv

\* A board: the two maps of the scheduler, the registered tasks, the statuses.
Board(R, S, d, st) == [registry |-> R, sched |-> S, deps |-> d, status |-> st]

EmptyBoard == Board({}, {}, [id \in Ids |-> <<>>], NoTasks)
Memory == Board(registry, sched, deps, status)

\* The list a board shows, and the board Open makes of b with an envelope more.
ListOf(b) == [id \in Ids |-> IF id \in b.registry THEN b.status[id] ELSE "absent"]

Replay(b, e) ==
  IF e.kind = "task-create"
  THEN IF HasCycle(b.sched \cup {e.id}, [b.deps EXCEPT ![e.id] = e.deps])
       THEN Board(b.registry \cup {e.id}, b.sched \ {e.id}, [b.deps EXCEPT ![e.id] = <<>>],
                  [b.status EXCEPT ![e.id] = "pending"])
       ELSE Board(b.registry \cup {e.id}, b.sched \cup {e.id}, [b.deps EXCEPT ![e.id] = e.deps],
                  [b.status EXCEPT ![e.id] = InitialStatus(e.deps, b.sched, b.status)])
  ELSE IF e.kind = "task-update" /\ e.id \in b.registry
  THEN LET st == [b.status EXCEPT ![e.id] = e.status]
       IN Board(b.registry, b.sched, b.deps,
                IF e.status = "completed" THEN Unblock(b.sched, b.deps, st) ELSE st)
  ELSE b

\* The boards Open goes through: h[i] after i envelopes.
IsReplay(h, j) ==
  /\ h[0] = EmptyBoard
  /\ \A i \in DOMAIN j : h[i] = Replay(h[i - 1], j[i])

\* How far the memory is from b, the board that the journal stands for, when
\* calls do not overlap.
Follows(t, b) ==
  LET Registered == Board(registry \cup {call[t].id}, sched, deps, status)
      Unblocked  == Board(registry, sched, deps, Unblock(sched, deps, status))
  IN /\ pc[t] \in {"seq", "append"} /\ call[t].kind = "task-create" =>
          Replay(b, call[t]) = Registered
     /\ pc[t] = "append" /\ call[t].kind = "task-update" => Memory = b
     /\ pc[t] \in {"append", "apply", "mark"} /\ call[t].kind = "task-update" =>
          call[t].id \in registry
     /\ pc[t] = "register" => b = Registered
     /\ pc[t] = "apply" => b = Replay(Memory, call[t])
     /\ pc[t] = "mark" =>
          /\ status[call[t].id] = call[t].status
          /\ b = IF call[t].status = "completed" THEN Unblocked ELSE Memory
     /\ pc[t] \in {"scan", "promote"} => b = Unblocked
     /\ pc[t] = "promote" => Startable(hit[t], sched, deps, status)
     /\ pc[t] \in {"snapshot", "write"} => Memory = b

\* While calls do not overlap, a Task is an older one only until the call
\* that made the newest registers it.
NewestInv ==
  serial /\ phase = "up" =>
    /\ \A t \in Threads : made[t] = "newest"
    /\ \A id \in Ids : shown[id] # "newest" => \E t \in Threads : Making(t) /\ call[t].id = id

RestoreInv(h) ==
  LET b == h[Len(journal)]
  IN /\ phase = "down" => Memory = EmptyBoard
     /\ phase = "replay" => Memory = h[pos]
     /\ phase = "rebuild" => Memory = b
     /\ serial /\ phase # "up" => \A list \in before : list = ListOf(b)
     /\ serial /\ phase = "up" =>
          /\ \A t, u \in Threads : pc[t] # "idle" /\ pc[u] # "idle" => t = u
          /\ Quiet => Memory = b
          /\ \A t \in Threads : Follows(t, b)

-----------------------------------------------------------------------------
(* Envelopes and statuses.                                                 *)

\* The fields of a journal entry are ids and statuses.
LEMMA EnvelopeFields ==
  ASSUME NEW e \in Envelope
  PROVE  /\ e.seq \in Nat
         /\ e.kind = "task-create" => e.id \in Ids /\ e.deps \in Seq(Ids)
         /\ e.kind = "task-update" => e.id \in Ids /\ e.status \in Reports
  BY DEF Envelope, TeamCreated

\* The entry of a creation holds what was asked for,
LEMMA CreateEnvelope ==
  ASSUME NEW spec \in TaskSpecs, NEW n \in Nat
  PROVE  /\ spec.id \in Ids /\ spec.deps \in Seq(Ids)
         /\ TaskCreated(spec.id, spec.deps, n) \in Envelope
         /\ TaskCreated(spec.id, spec.deps, n).kind = "task-create"
         /\ TaskCreated(spec.id, spec.deps, n).id = spec.id
         /\ TaskCreated(spec.id, spec.deps, n).deps = spec.deps
<1>1. spec.id \in Ids /\ spec.deps \in Seq(Ids)
  BY TaskSpecsAssumption
<1> QED
  BY <1>1 DEF TaskCreated, Envelope

\* that of an update its status,
LEMMA UpdateEnvelope ==
  ASSUME NEW id \in Ids, NEW st \in Reports, NEW n \in Nat
  PROVE  /\ TaskUpdated(id, st, n) \in Envelope
         /\ TaskUpdated(id, st, n).kind = "task-update"
         /\ TaskUpdated(id, st, n).id = id
         /\ TaskUpdated(id, st, n).status = st
         /\ TaskUpdated(id, st, n).seq = n
  BY DEF TaskUpdated, Envelope

\* An envelope of a TaskCreate gets its number and keeps the rest.
LEMMA NumberedEnvelope ==
  ASSUME NEW e \in Envelope, e.kind = "task-create", NEW n \in Nat
  PROVE  /\ [e EXCEPT !.seq = n] \in Envelope
         /\ [e EXCEPT !.seq = n].kind = "task-create"
         /\ [e EXCEPT !.seq = n].id = e.id
         /\ [e EXCEPT !.seq = n].deps = e.deps
         /\ [e EXCEPT !.seq = n].seq = n
<1>1. e \in [kind : {"task-create"}, id : Ids, deps : Seq(Ids), seq : Nat]
  BY DEF Envelope, TeamCreated
<1> QED
  BY <1>1 DEF Envelope

\* and every other is neither.
LEMMA OtherEnvelope ==
  TeamCreated \in Envelope /\ TeamCreated.kind = "team-create" /\ TeamCreated.seq = 0
  BY DEF TeamCreated, Envelope

\* What a worker reports is a status, and so is the first one of a task.
LEMMA Statuses ==
  /\ Reports \subseteq TaskStatus /\ "blocked" \notin Reports
  /\ "absent" \notin TaskStatus
  /\ {"pending", "blocked", "running", "failed", "completed"} = TaskStatus
  /\ NoTasks \in Lists
  /\ \A list, R, st : InitialStatus(list, R, st) \in {"pending", "blocked"}
  BY ReportsAssumption DEF Reported, TaskStatus, NoTasks, Lists, InitialStatus

\* The list that callers see is a list.
LEMMA TaskListType ==
  status \in Lists /\ shown \in [Ids -> TaskStatus \cup {"newest"}] => TaskList \in Lists
  BY DEF TaskList, Shown, Lists

\* A line more at the end of the journal.
LEMMA JournalGrows ==
  ASSUME journal \in Seq(Envelope), NEW e \in Envelope, journal' = Append(journal, e)
  PROVE  /\ journal' \in Seq(Envelope)
         /\ Len(journal) \in Nat
         /\ Len(journal') = Len(journal) + 1
         /\ DOMAIN journal = 1..Len(journal) /\ DOMAIN journal' = 1..(Len(journal) + 1)
         /\ \A i \in 1..Len(journal) : journal'[i] = journal[i]
         /\ journal'[Len(journal) + 1] = e
  OBVIOUS

\* A step of one thread that takes no status away and lets go of the Task it
\* made when it registers it.
LEMMA MadeKept ==
  ASSUME TInv, NEW t \in Threads,
         \A u \in Threads : u # t => pc'[u] = pc[u] /\ call'[u] = call[u] /\ made'[u] = made[u],
         \A id \in Ids : status[id] # "absent" => status'[id] # "absent",
         Making(t)' => Making(t) /\ call'[t].id = call[t].id,
         ~Making(t)' => made'[t] = "newest"
  PROVE  MadeInv'
<1>1. \A u \in Threads : Making(u) => call[u].id \in Ids
  BY EnvelopeFields DEF Making, TInv, TypeOK
<1> QED
  BY <1>1 DEF TInv, MadeInv, Making

-----------------------------------------------------------------------------
(* Types.                                                                  *)

\* A new team has the types.
LEMMA InitTInv == Init => TInv
<1> SUFFICES ASSUME Init PROVE TInv
  OBVIOUS
<1>1. journal \in Seq(Envelope) /\ 0 \in 0..Len(journal)
  BY OtherEnvelope DEF Init
<1>2. TypeOK
  <2>1. /\ cache \in [file : {"missing", "partial", "garbled", "whole"}, tasks : Lists]
        /\ status \in Lists /\ copy \in [Threads -> Lists]
    BY Statuses DEF Init
  <2>2. deps \in [Ids -> Seq(Ids)] /\ call \in [Threads -> Envelope] /\ seq \in Nat
    BY OtherEnvelope DEF Init
  <2>3. \A t \in Threads : smu = t <=> pc[t] \in {"scan", "promote"}
    BY NoneAssumption DEF Init
  <2>4. pc \in [Threads -> PcValues]
    BY DEF Init, PcValues
  <2>5. /\ shown \in [Ids -> TaskStatus \cup {"newest"}]
        /\ made \in [Threads -> TaskStatus \cup {"newest"}]
    BY DEF Init, AllNewest
  <2> QED
    BY <1>1, <2>1, <2>2, <2>3, <2>4, <2>5 DEF Init, TypeOK
<1>3. PhaseInv /\ KindInv /\ MadeInv
  BY DEF Init, PhaseInv, KindInv, MadeInv, Making, AllNewest
<1> QED
  BY <1>2, <1>3 DEF TInv

\* What a creation that is accepted does.
LEMMA AddedTask ==
  ASSUME TInv, NEW t \in Threads, NEW spec \in TaskSpecs, BeginCreate(t, spec)
  PROVE  /\ spec.id \in Ids /\ spec.deps \in Seq(Ids)
         /\ call'[t] = TaskCreated(spec.id, spec.deps, 0)
         /\ call'[t] \in Envelope /\ call'[t].kind = "task-create"
         /\ call'[t].id = spec.id /\ call'[t].deps = spec.deps
         /\ phase = "up" /\ smu = None /\ before' = {} /\ pc[t] = "idle" /\ pc'[t] = "seq"
         /\ \A u \in Threads : u # t => pc'[u] = pc[u] /\ call'[u] = call[u]
         /\ sched' = sched \cup {spec.id} /\ deps' = [deps EXCEPT ![spec.id] = spec.deps]
         /\ status' = [status EXCEPT ![spec.id] = InitialStatus(spec.deps, sched, status)]
         /\ status'[spec.id] \in {"pending", "blocked"}
         /\ \A id \in Ids : id # spec.id => status'[id] = status[id]
         /\ UNCHANGED <<phase, pos, disk, seq, registry, smu, left, hit, copy>>
         /\ Supersede(spec.id)
<1>1. /\ spec.id \in Ids /\ spec.deps \in Seq(Ids)
      /\ TaskCreated(spec.id, spec.deps, 0) \in Envelope
      /\ TaskCreated(spec.id, spec.deps, 0).kind = "task-create"
      /\ TaskCreated(spec.id, spec.deps, 0).id = spec.id
      /\ TaskCreated(spec.id, spec.deps, 0).deps = spec.deps
  BY CreateEnvelope
<1>2. /\ call'[t] = TaskCreated(spec.id, spec.deps, 0) /\ pc[t] = "idle" /\ pc'[t] = "seq"
      /\ \A u \in Threads : u # t => pc'[u] = pc[u] /\ call'[u] = call[u]
  BY DEF BeginCreate, TInv, TypeOK
<1>3. status' = [status EXCEPT ![spec.id] = InitialStatus(spec.deps, sched, status)]
  BY DEF BeginCreate, AddTask
<1>4. /\ status'[spec.id] \in {"pending", "blocked"}
      /\ \A id \in Ids : id # spec.id => status'[id] = status[id]
  BY <1>1, <1>3, Statuses DEF TInv, TypeOK, Lists
<1> QED
  BY <1>1, <1>2, <1>3, <1>4 DEF BeginCreate, AddTask

LEMMA BeginCreateTInv ==
  ASSUME TInv, NEW t \in Threads, NEW spec \in TaskSpecs, BeginCreate(t, spec)
  PROVE  TInv'
<1> DEFINE id == spec.id
<1>1. /\ id \in Ids /\ spec.deps \in Seq(Ids)
      /\ call'[t] \in Envelope /\ call'[t].kind = "task-create" /\ call'[t].id = id
      /\ phase = "up" /\ smu = None /\ before' = {} /\ pc[t] = "idle" /\ pc'[t] = "seq"
      /\ \A u \in Threads : u # t => pc'[u] = pc[u] /\ call'[u] = call[u]
      /\ sched' = sched \cup {id} /\ deps' = [deps EXCEPT ![id] = spec.deps]
      /\ UNCHANGED <<phase, pos, disk, seq, registry, smu, left, hit, copy>>
  BY AddedTask
<1>2. /\ status'[id] \in {"pending", "blocked"}
      /\ \A x \in Ids : x # id => status'[x] = status[x]
      /\ status' = [status EXCEPT ![id] = InitialStatus(spec.deps, sched, status)]
  BY AddedTask
<1>3. serial' \in BOOLEAN /\ reused' \in BOOLEAN
  BY DEF BeginCreate, TInv, TypeOK, Quiet
<1>4. /\ shown' = [shown EXCEPT ![id] = IF id \in registry THEN Shown(id) ELSE shown[id]]
      /\ made' = [u \in Threads |-> IF Making(u) /\ call[u].id = id /\ made[u] = "newest"
                                    THEN status[id] ELSE made[u]]
  BY AddedTask DEF Supersede
<1>5. TypeOK'
  <2>1. status' \in Lists /\ \A i \in (registry \cup sched)' : status'[i] # "absent"
    BY <1>1, <1>2, Statuses DEF TInv, TypeOK, Lists
  <2>2. \A u \in Threads : smu' = u <=> pc'[u] \in {"scan", "promote"}
    BY <1>1 DEF TInv, TypeOK
  <2>3. pc' \in [Threads -> PcValues] /\ call' \in [Threads -> Envelope]
    <3>1. TaskCreated(id, spec.deps, 0) \in Envelope
      BY CreateEnvelope
    <3> QED
      BY <3>1 DEF BeginCreate, TInv, TypeOK, PcValues
  <2>4. deps' \in [Ids -> Seq(Ids)] /\ sched' \in SUBSET Ids
    BY <1>1 DEF TInv, TypeOK
  <2>5. shown' \in [Ids -> TaskStatus \cup {"newest"}]
    <3>1. id \in registry => Shown(id) \in TaskStatus \cup {"newest"}
      BY <1>1 DEF Shown, TInv, TypeOK, Lists
    <3> QED
      BY <1>1, <1>4, <3>1 DEF TInv, TypeOK
  <2>6. made' \in [Threads -> TaskStatus \cup {"newest"}]
    <3>1. \A u \in Threads : Making(u) /\ call[u].id = id => status[id] \in TaskStatus
      BY <1>1 DEF TInv, TypeOK, MadeInv, Lists
    <3> QED
      BY <1>4, <3>1 DEF TInv, TypeOK
  <2> QED
    BY <1>1, <1>3, <2>1, <2>2, <2>3, <2>4, <2>5, <2>6 DEF TInv, TypeOK, disk
<1>6. PhaseInv'
  BY <1>1 DEF TInv, PhaseInv, disk
<1>7. KindInv'
  BY <1>1 DEF TInv, TypeOK, KindInv
<1>8. MadeInv'
  <2>1. Making(t)' /\ \A u \in Threads : u # t => (Making(u)' <=> Making(u))
    BY <1>1 DEF Making
  <2>2. \A u \in Threads : Making(u) => call[u].id \in Ids
    BY EnvelopeFields DEF Making, TInv, TypeOK
  <2>3. \A u \in Threads : ~Making(u) => made'[u] = made[u]
    BY <1>4
  <2> QED
    BY <1>1, <1>2, <2>1, <2>2, <2>3 DEF TInv, MadeInv
<1> QED
  BY <1>5, <1>6, <1>7, <1>8 DEF TInv

\* A rejected creation touches two maps of the scheduler.
LEMMA RejectCreateTInv ==
  ASSUME TInv, NEW t \in Threads, NEW spec \in TaskSpecs, RejectCreate(t, spec)
  PROVE  TInv'
<1>1. /\ sched' \in SUBSET sched /\ before' = {} /\ serial' = FALSE /\ reused' = TRUE
      /\ phase = "up"
      /\ UNCHANGED <<phase, pos, disk, seq, registry, status, older, smu, locals>>
  BY DEF RejectCreate
<1>2. deps' \in [Ids -> Seq(Ids)]
  <2>1. spec.id \in Ids /\ <<>> \in Seq(Ids)
    BY CreateEnvelope
  <2> QED
    BY <2>1 DEF RejectCreate, TInv, TypeOK
<1>3. TypeOK'
  BY <1>1, <1>2 DEF TInv, TypeOK, disk, older, locals
<1>4. PhaseInv' /\ KindInv' /\ MadeInv'
  BY <1>1 DEF TInv, PhaseInv, KindInv, MadeInv, Making, disk, older, locals
<1> QED
  BY <1>3, <1>4 DEF TInv

LEMMA BeginUpdateTInv ==
  ASSUME TInv, NEW t \in Threads, NEW id \in Ids, NEW st \in Reports, BeginUpdate(t, id, st)
  PROVE  TInv'
<1>1. seq \in Nat /\ TaskUpdated(id, st, seq) \in Envelope
      /\ TaskUpdated(id, st, seq).kind = "task-update"
  BY UpdateEnvelope DEF TInv, TypeOK
<1>2. /\ pc[t] = "idle" /\ pc' = [pc EXCEPT ![t] = "append"]
      /\ call' = [call EXCEPT ![t] = TaskUpdated(id, st, seq)]
      /\ phase = "up" /\ seq' = seq + 1
      /\ UNCHANGED <<phase, pos, disk, board, smu, left, hit, copy>>
      /\ before' = {}
  BY DEF BeginUpdate
<1>3. serial' \in BOOLEAN /\ reused' = reused
  BY DEF BeginUpdate, TInv, TypeOK, Quiet
<1>4. TypeOK'
  <2>1. \A u \in Threads : smu' = u <=> pc'[u] \in {"scan", "promote"}
    BY <1>2 DEF TInv, TypeOK
  <2>2. pc' \in [Threads -> PcValues] /\ call' \in [Threads -> Envelope] /\ seq' \in Nat
    BY <1>1, <1>2 DEF TInv, TypeOK, PcValues
  <2> QED
    BY <1>2, <1>3, <2>1, <2>2 DEF TInv, TypeOK, disk, board, older
<1>5. PhaseInv'
  BY <1>2 DEF TInv, PhaseInv, disk, board, older
<1>6. KindInv'
  BY <1>1, <1>2 DEF TInv, TypeOK, KindInv, board
<1>7. MadeInv'
  <2>1. call'[t].kind = "task-update" /\ pc[t] = "idle" /\ UNCHANGED <<status, made>>
    BY <1>1, <1>2 DEF TInv, TypeOK, board, older
  <2>2. \A u \in Threads : u # t => pc'[u] = pc[u] /\ call'[u] = call[u]
    BY <1>2 DEF TInv, TypeOK
  <2>3. ~Making(t)' /\ ~Making(t)
    BY <2>1 DEF Making
  <2> QED
    BY <2>1, <2>2, <2>3, MadeKept DEF TInv, MadeInv
<1> QED
  BY <1>4, <1>5, <1>6, <1>7 DEF TInv

LEMMA CreateSeqTInv ==
  ASSUME TInv, NEW t \in Threads, CreateSeq(t)
  PROVE  TInv'
<1> DEFINE e == [call[t] EXCEPT !.seq = seq]
<1>1. e \in Envelope /\ e.kind = "task-create" /\ e.id = call[t].id /\ seq + 1 \in Nat
  BY NumberedEnvelope DEF TInv, TypeOK, KindInv, CreateSeq
<1>2. /\ pc[t] = "seq" /\ pc' = [pc EXCEPT ![t] = "append"]
      /\ call' = [call EXCEPT ![t] = e] /\ seq' = seq + 1
      /\ UNCHANGED <<phase, pos, disk, board, smu, left, hit, copy, history>>
  BY DEF CreateSeq
<1> HIDE DEF e
<1>3. TypeOK'
  <2>1. \A u \in Threads : smu' = u <=> pc'[u] \in {"scan", "promote"}
    BY <1>2 DEF TInv, TypeOK
  <2>2. pc' \in [Threads -> PcValues] /\ call' \in [Threads -> Envelope] /\ seq' \in Nat
    BY <1>1, <1>2 DEF TInv, TypeOK, PcValues
  <2> QED
    BY <1>2, <2>1, <2>2 DEF TInv, TypeOK, disk, board, older, history
<1>4. PhaseInv'
  BY <1>2 DEF TInv, PhaseInv, Quiet, disk, board, older
<1>5. KindInv'
  BY <1>1, <1>2 DEF TInv, TypeOK, KindInv, board
<1>6. MadeInv'
  <2>1. call'[t] = e /\ pc'[t] = "append" /\ UNCHANGED <<status, made>>
    BY <1>2 DEF TInv, TypeOK, board, older
  <2>2. \A u \in Threads : u # t => pc'[u] = pc[u] /\ call'[u] = call[u]
    BY <1>2 DEF TInv, TypeOK
  <2>3. call[t].kind = "task-create"
    BY <1>2 DEF TInv, KindInv
  <2>4. Making(t)' /\ Making(t) /\ call'[t].id = call[t].id
    BY <1>1, <1>2, <2>1, <2>3 DEF Making
  <2> QED
    BY <2>1, <2>2, <2>4, MadeKept
<1> QED
  BY <1>3, <1>4, <1>5, <1>6 DEF TInv

\* Append succeeds, or fails with or without the line written.
LEMMA AppendTInv ==
  ASSUME TInv, NEW t \in Threads, JournalAppend(t) \/ AppendFails(t)
  PROVE  TInv'
<1>1. pc[t] = "append" /\ phase = "up" /\ pos = 0 /\ call[t] \in Envelope
  BY DEF TInv, TypeOK, PhaseInv, Quiet, JournalAppend, AppendFails
<1>2. /\ journal' \in {journal, Append(journal, call[t])}
      /\ UNCHANGED <<phase, pos, cache, seq, registry, sched, deps, status, shown, smu, left,
                     hit, copy, before, reused>>
      /\ serial' \in {serial, FALSE}
  BY DEF JournalAppend, AppendFails, history, board, older
<1>3. journal' \in Seq(Envelope) /\ pos \in 0..Len(journal')
  BY <1>1, <1>2, JournalGrows DEF TInv, TypeOK
<1>4. \/ pc' = [pc EXCEPT ![t] = IF call[t].kind = "task-create" THEN "register" ELSE "apply"]
         /\ call' = call /\ made' = made
      \/ /\ pc' = [pc EXCEPT ![t] = "idle"] /\ call' = [call EXCEPT ![t] = TeamCreated]
         /\ made' = [made EXCEPT ![t] = "newest"]
  BY DEF JournalAppend, AppendFails, board, older
<1>5. TypeOK'
  <2>1. \A u \in Threads : smu' = u <=> pc'[u] \in {"scan", "promote"}
    BY <1>1, <1>2, <1>4 DEF TInv, TypeOK
  <2>2. pc' \in [Threads -> PcValues] /\ call' \in [Threads -> Envelope]
    <3>1. pc \in [Threads -> PcValues] /\ call \in [Threads -> Envelope]
      BY DEF TInv, TypeOK
    <3>2. pc' \in [Threads -> PcValues]
      BY <1>4, <3>1 DEF PcValues
    <3>3. call' = call \/ call' = [call EXCEPT ![t] = TeamCreated]
      BY <1>4
    <3>4. call' \in [Threads -> Envelope]
      BY <3>1, <3>3, OtherEnvelope
    <3> QED
      BY <3>2, <3>4
  <2>3. made' \in [Threads -> TaskStatus \cup {"newest"}]
    BY <1>4 DEF TInv, TypeOK
  <2>4. /\ before' \in SUBSET Lists /\ serial' \in BOOLEAN /\ reused' \in BOOLEAN
        /\ cache' \in [file : {"missing", "partial", "garbled", "whole"}, tasks : Lists]
        /\ copy' \in [Threads -> Lists] /\ deps' \in [Ids -> Seq(Ids)]
        /\ status' \in Lists /\ shown' \in [Ids -> TaskStatus \cup {"newest"}]
    BY <1>2 DEF TInv, TypeOK
  <2>5. /\ phase' \in {"up", "down", "replay", "rebuild"} /\ seq' \in Nat
        /\ registry' \in SUBSET Ids /\ sched' \in SUBSET Ids
        /\ smu' \in Threads \cup {None}
        /\ left' \in [Threads -> SUBSET Ids] /\ hit' \in [Threads -> Ids \cup {None}]
        /\ \A id \in (registry \cup sched)' : status'[id] # "absent"
    BY <1>2 DEF TInv, TypeOK
  <2> QED
    BY <1>2, <1>3, <2>1, <2>2, <2>3, <2>4, <2>5 DEF TypeOK
<1>6. PhaseInv'
  BY <1>1, <1>2 DEF TInv, PhaseInv
<1>7. KindInv'
  <2>1. call[t].kind \in {"task-create", "task-update"}
    BY <1>1 DEF TInv, KindInv
  <2> QED
    BY <1>1, <1>2, <1>4, <2>1 DEF TInv, TypeOK, KindInv
<1>8. MadeInv'
  <2>1. \A u \in Threads : u # t => pc'[u] = pc[u] /\ call'[u] = call[u] /\ made'[u] = made[u]
    BY <1>4 DEF TInv, TypeOK
  <2>2. \/ /\ pc'[t] = IF call[t].kind = "task-create" THEN "register" ELSE "apply"
           /\ call'[t] = call[t] /\ made'[t] = made[t]
        \/ pc'[t] = "idle" /\ made'[t] = "newest"
    BY <1>4 DEF TInv, TypeOK
  <2>3. Making(t)' => Making(t) /\ call'[t].id = call[t].id
    BY <1>1, <2>2 DEF Making
  <2>4. ~Making(t)' => made'[t] = "newest"
    BY <1>1, <2>2 DEF Making, TInv, MadeInv
  <2> QED
    BY <1>2, <2>1, <2>3, <2>4, MadeKept
<1> QED
  BY <1>5, <1>6, <1>7, <1>8 DEF TInv

LEMMA RegisterTInv ==
  ASSUME TInv, NEW t \in Threads, Register(t)
  PROVE  TInv'
<1>1. /\ pc[t] = "register" /\ pc' = [pc EXCEPT ![t] = "snapshot"]
      /\ registry' = registry \cup {call[t].id}
      /\ shown' = [shown EXCEPT ![call[t].id] = made[t]]
      /\ made' = [made EXCEPT ![t] = "newest"]
      /\ UNCHANGED <<phase, pos, disk, seq, sched, deps, status, smu, call, left, hit, copy,
                     history>>
  BY DEF Register
<1>2. Making(t) /\ status[call[t].id] # "absent" /\ call[t].id \in Ids /\ phase = "up"
  <2>1. Making(t) /\ call[t] \in Envelope /\ call[t].kind = "task-create"
    BY <1>1 DEF TInv, TypeOK, KindInv, Making
  <2> QED
    BY <1>1, <2>1, EnvelopeFields DEF TInv, MadeInv, PhaseInv, Quiet
<1>3. TypeOK'
  <2>1. \A u \in Threads : smu' = u <=> pc'[u] \in {"scan", "promote"}
    BY <1>1 DEF TInv, TypeOK
  <2>2. pc' \in [Threads -> PcValues]
    BY <1>1 DEF TInv, TypeOK, PcValues
  <2>3. /\ shown' \in [Ids -> TaskStatus \cup {"newest"}]
        /\ made' \in [Threads -> TaskStatus \cup {"newest"}]
    BY <1>1, <1>2 DEF TInv, TypeOK
  <2> QED
    BY <1>1, <1>2, <2>1, <2>2, <2>3 DEF TInv, TypeOK, disk, history
<1>4. PhaseInv' /\ KindInv'
  BY <1>1, <1>2 DEF TInv, TypeOK, PhaseInv, KindInv, disk
<1>5. MadeInv'
  <2>1. \A u \in Threads : u # t => pc'[u] = pc[u] /\ call'[u] = call[u] /\ made'[u] = made[u]
    BY <1>1 DEF TInv, TypeOK
  <2>2. ~Making(t)' /\ made'[t] = "newest"
    BY <1>1 DEF Making, TInv, TypeOK
  <2> QED
    BY <1>1, <2>1, <2>2, MadeKept
<1> QED
  BY <1>3, <1>4, <1>5 DEF TInv

\* A step that changes the status of one task, and where the thread is.
LEMMA StatusTInv ==
  ASSUME TInv, NEW t \in Threads, NEW l \in {"mark", "snapshot", "scan"},
         pc' = [pc EXCEPT ![t] = l],
         status' \in Lists, \A id \in Ids : status[id] # "absent" => status'[id] # "absent",
         shown' \in [Ids -> TaskStatus \cup {"newest"}], pc[t] \notin {"seq", "append", "register"},
         \A u \in Threads : smu' = u <=> pc'[u] \in {"scan", "promote"},
         smu' \in Threads \cup {None}, phase = "up",
         l \in {"mark", "scan"} => call[t].kind = "task-update",
         l = "mark" => call[t].status \in {"completed", "failed"},
         left' \in [Threads -> SUBSET Ids], hit' \in [Threads -> Ids \cup {None}],
         \A u \in Threads \ {t} : hit'[u] = hit[u],
         UNCHANGED <<phase, pos, disk, seq, registry, sched, deps, made, call, copy, history>>
  PROVE  TInv'
<1>1. pc' \in [Threads -> PcValues]
  BY DEF TInv, TypeOK, PcValues
<1>2. \A id \in registry \cup sched : status'[id] # "absent"
  BY DEF TInv, TypeOK
<1>3. TypeOK'
  BY <1>1, <1>2 DEF TInv, TypeOK, disk, history
<1>4. PhaseInv' /\ KindInv'
  BY DEF TInv, TypeOK, PhaseInv, KindInv, disk
<1>5. MadeInv'
  <2>1. \A u \in Threads : u # t => pc'[u] = pc[u]
    BY DEF TInv, TypeOK
  <2>2. ~Making(t)' /\ ~Making(t)
    BY DEF Making, TInv, TypeOK
  <2> QED
    BY <2>1, <2>2, MadeKept DEF TInv, MadeInv
<1> QED
  BY <1>3, <1>4, <1>5 DEF TInv

LEMMA ApplyTInv ==
  ASSUME TInv, NEW t \in Threads, Apply(t)
  PROVE  TInv'
<1>1. /\ call[t] \in Envelope /\ call[t].kind = "task-update" /\ phase = "up"
      /\ pc[t] = "apply"
  BY DEF TInv, TypeOK, KindInv, PhaseInv, Quiet, Apply
<1>2. call[t].id \in Ids /\ call[t].status \in Reports
  BY <1>1, EnvelopeFields
<1>3. /\ status' \in Lists /\ \A id \in Ids : status[id] # "absent" => status'[id] # "absent"
      /\ shown' \in [Ids -> TaskStatus \cup {"newest"}]
  <2>1. CASE shown[call[t].id] = "newest"
    <3>1. status' = [status EXCEPT ![call[t].id] = call[t].status] /\ shown' = shown
      BY <2>1 DEF Apply
    <3> QED
      BY <1>2, <3>1, Statuses DEF TInv, TypeOK, Lists
  <2>2. CASE shown[call[t].id] # "newest"
    <3>1. shown' = [shown EXCEPT ![call[t].id] = call[t].status] /\ status' = status
      BY <2>2 DEF Apply
    <3> QED
      BY <1>2, <3>1, Statuses DEF TInv, TypeOK, Lists
  <2> QED
    BY <2>1, <2>2
<1>4. PICK l \in {"mark", "snapshot"} :
        /\ pc' = [pc EXCEPT ![t] = l]
        /\ l = "mark" => call[t].status # "running"
  BY DEF Apply
<1>5. l = "mark" => call[t].status \in {"completed", "failed"}
  BY <1>2, <1>4, ReportsAssumption DEF Reported
<1>6. /\ \A u \in Threads : smu' = u <=> pc'[u] \in {"scan", "promote"}
      /\ smu' \in Threads \cup {None}
  BY <1>1, <1>4 DEF TInv, TypeOK, Apply
<1>7. /\ left' \in [Threads -> SUBSET Ids] /\ hit' \in [Threads -> Ids \cup {None}]
      /\ \A u \in Threads \ {t} : hit'[u] = hit[u]
      /\ UNCHANGED <<phase, pos, disk, seq, registry, sched, deps, made, call, copy, history>>
  BY DEF Apply, TInv, TypeOK
<1> QED
  BY <1>1, <1>3, <1>4, <1>5, <1>6, <1>7, StatusTInv

LEMMA MarkFailedTInv ==
  ASSUME TInv, NEW t \in Threads, MarkFailed(t)
  PROVE  TInv'
<1>1. phase = "up" /\ pc[t] = "mark" /\ pc' = [pc EXCEPT ![t] = "snapshot"]
  BY DEF TInv, PhaseInv, Quiet, MarkFailed
<1>2. /\ status' \in Lists /\ \A id \in Ids : status[id] # "absent" => status'[id] # "absent"
      /\ shown' \in [Ids -> TaskStatus \cup {"newest"}]
  BY Statuses DEF TInv, TypeOK, Lists, MarkFailed, older
<1>3. /\ \A u \in Threads : smu' = u <=> pc'[u] \in {"scan", "promote"}
      /\ smu' \in Threads \cup {None}
  BY <1>1 DEF TInv, TypeOK, MarkFailed
<1>4. /\ left' \in [Threads -> SUBSET Ids] /\ hit' \in [Threads -> Ids \cup {None}]
      /\ \A u \in Threads \ {t} : hit'[u] = hit[u]
      /\ UNCHANGED <<phase, pos, disk, seq, registry, sched, deps, made, call, copy, history>>
  BY DEF MarkFailed, TInv, TypeOK, older
<1> QED
  BY <1>1, <1>2, <1>3, <1>4, StatusTInv

LEMMA MarkCompleteTInv ==
  ASSUME TInv, NEW t \in Threads, MarkComplete(t)
  PROVE  TInv'
<1>1. /\ phase = "up" /\ pc[t] = "mark" /\ pc' = [pc EXCEPT ![t] = "scan"]
      /\ call[t].kind = "task-update"
  BY DEF TInv, PhaseInv, KindInv, Quiet, MarkComplete
<1>2. /\ status' \in Lists /\ \A id \in Ids : status[id] # "absent" => status'[id] # "absent"
      /\ shown' \in [Ids -> TaskStatus \cup {"newest"}]
  BY Statuses DEF TInv, TypeOK, Lists, MarkComplete, older
<1>3. /\ \A u \in Threads : smu' = u <=> pc'[u] \in {"scan", "promote"}
      /\ smu' \in Threads \cup {None}
  BY <1>1, NoneAssumption DEF TInv, TypeOK, MarkComplete
<1>4. /\ left' \in [Threads -> SUBSET Ids] /\ hit' \in [Threads -> Ids \cup {None}]
      /\ \A u \in Threads \ {t} : hit'[u] = hit[u]
      /\ UNCHANGED <<phase, pos, disk, seq, registry, sched, deps, made, call, copy, history>>
  BY DEF MarkComplete, TInv, TypeOK, older
<1> QED
  BY <1>1, <1>2, <1>3, <1>4, StatusTInv

LEMMA VisitTInv ==
  ASSUME TInv, NEW t \in Threads, NEW id \in Ids, Visit(t, id)
  PROVE  TInv'
<1>1. /\ pc[t] = "scan" /\ phase = "up" /\ call[t].kind = "task-update"
      /\ left' \in [Threads -> SUBSET Ids]
      /\ UNCHANGED <<phase, pos, disk, seq, board, smu, call, copy, history>>
  BY DEF TInv, TypeOK, PhaseInv, KindInv, Quiet, Visit
<1>2. \/ UNCHANGED <<hit, pc>>
      \/ hit' = [hit EXCEPT ![t] = id] /\ pc' = [pc EXCEPT ![t] = "promote"]
  BY DEF Visit
<1>3. TypeOK'
  <2>1. \A u \in Threads : smu' = u <=> pc'[u] \in {"scan", "promote"}
    BY <1>1, <1>2 DEF TInv, TypeOK
  <2>2. pc' \in [Threads -> PcValues] /\ hit' \in [Threads -> Ids \cup {None}]
    <3>1. pc \in [Threads -> PcValues] /\ hit \in [Threads -> Ids \cup {None}]
      BY DEF TInv, TypeOK
    <3>2. CASE UNCHANGED <<hit, pc>>
      BY <3>1, <3>2
    <3>3. CASE hit' = [hit EXCEPT ![t] = id] /\ pc' = [pc EXCEPT ![t] = "promote"]
      BY <3>1, <3>3 DEF PcValues
    <3> QED
      BY <1>2, <3>2, <3>3
  <2>3. /\ UNCHANGED <<phase, pos, journal, cache, seq, registry, sched, deps, status>>
        /\ UNCHANGED <<shown, made, smu, call, copy, before, serial, reused>>
    BY <1>1 DEF disk, board, older, history
  <2> QED
    BY <1>1, <2>1, <2>2, <2>3 DEF TInv, TypeOK
<1>4. PhaseInv' /\ KindInv'
  BY <1>1, <1>2 DEF TInv, TypeOK, PhaseInv, KindInv, disk, board, older
<1>5. MadeInv'
  <2>1. /\ \A u \in Threads : u # t => pc'[u] = pc[u]
        /\ pc'[t] \in {"scan", "promote"} /\ UNCHANGED <<status, call, made>>
    BY <1>1, <1>2 DEF TInv, TypeOK, board, older
  <2>2. ~Making(t)' /\ ~Making(t)
    BY <1>1, <2>1 DEF Making
  <2> QED
    BY <2>1, <2>2, MadeKept DEF TInv, MadeInv
<1> QED
  BY <1>3, <1>4, <1>5 DEF TInv

LEMMA PromoteTInv ==
  ASSUME TInv, NEW t \in Threads, Promote(t)
  PROVE  TInv'
<1>1. /\ phase = "up" /\ pc[t] = "promote" /\ pc' = [pc EXCEPT ![t] = "scan"]
      /\ call[t].kind = "task-update" /\ hit[t] \in Ids
  BY DEF TInv, PhaseInv, KindInv, Quiet, Promote
<1>2. /\ status' \in Lists /\ \A id \in Ids : status[id] # "absent" => status'[id] # "absent"
      /\ shown' \in [Ids -> TaskStatus \cup {"newest"}]
  <2>1. status' = [status EXCEPT ![hit[t]] = "running"] /\ shown' = shown
    BY DEF Promote, older
  <2> QED
    BY <1>1, <2>1, Statuses DEF TInv, TypeOK, Lists
<1>3. /\ \A u \in Threads : smu' = u <=> pc'[u] \in {"scan", "promote"}
      /\ smu' \in Threads \cup {None}
  BY <1>1 DEF TInv, TypeOK, Promote
<1>4. /\ left' \in [Threads -> SUBSET Ids] /\ hit' \in [Threads -> Ids \cup {None}]
      /\ \A u \in Threads \ {t} : hit'[u] = hit[u]
      /\ UNCHANGED <<phase, pos, disk, seq, registry, sched, deps, made, call, copy, history>>
  BY DEF Promote, TInv, TypeOK, older
<1> QED
  BY <1>1, <1>2, <1>3, <1>4, StatusTInv

LEMMA ScanEndTInv ==
  ASSUME TInv, NEW t \in Threads, ScanEnd(t)
  PROVE  TInv'
<1>1. phase = "up" /\ pc[t] = "scan" /\ pc' = [pc EXCEPT ![t] = "snapshot"]
  BY DEF TInv, PhaseInv, Quiet, ScanEnd
<1>2. /\ \A u \in Threads : smu' = u <=> pc'[u] \in {"scan", "promote"}
      /\ smu' \in Threads \cup {None}
  BY <1>1, NoneAssumption DEF TInv, TypeOK, ScanEnd
<1>3. /\ left' \in [Threads -> SUBSET Ids] /\ hit' \in [Threads -> Ids \cup {None}]
      /\ \A u \in Threads \ {t} : hit'[u] = hit[u]
      /\ status' \in Lists /\ \A id \in Ids : status[id] # "absent" => status'[id] # "absent"
      /\ shown' \in [Ids -> TaskStatus \cup {"newest"}]
      /\ UNCHANGED <<phase, pos, disk, seq, registry, sched, deps, made, call, copy, history>>
  BY DEF ScanEnd, TInv, TypeOK, board, older
<1> QED
  BY <1>1, <1>2, <1>3, StatusTInv

LEMMA CacheTInv ==
  ASSUME TInv, NEW t \in Threads, Snapshot(t) \/ WriteCache(t)
  PROVE  TInv'
<1>1. /\ phase = "up" /\ pc[t] \in {"snapshot", "write"}
      /\ \E l \in {"write", "idle"} : pc' = [pc EXCEPT ![t] = l]
      /\ UNCHANGED <<phase, pos, journal, seq, board, smu, left, hit, history>>
  BY DEF TInv, PhaseInv, Quiet, Snapshot, WriteCache
<1>2. copy' \in [Threads -> Lists] /\ call' \in [Threads -> Envelope]
  <2>1. /\ copy \in [Threads -> Lists] /\ call \in [Threads -> Envelope]
        /\ TaskList \in Lists /\ NoTasks \in Lists
    BY TaskListType, Statuses DEF TInv, TypeOK
  <2>2. \/ copy' = [copy EXCEPT ![t] = TaskList] /\ call' = [call EXCEPT ![t] = TeamCreated]
        \/ copy' = [copy EXCEPT ![t] = NoTasks] /\ call' = call
    BY DEF Snapshot, WriteCache
  <2> QED
    BY <2>1, <2>2, OtherEnvelope
<1>3. cache' \in [file : {"missing", "partial", "garbled", "whole"}, tasks : Lists]
  BY Statuses DEF TInv, TypeOK, Snapshot, WriteCache
<1>4. TypeOK'
  <2>1. \A u \in Threads : smu' = u <=> pc'[u] \in {"scan", "promote"}
    BY <1>1 DEF TInv, TypeOK
  <2>2. pc' \in [Threads -> PcValues]
    BY <1>1 DEF TInv, TypeOK, PcValues
  <2> QED
    BY <1>1, <1>2, <1>3, <2>1, <2>2 DEF TInv, TypeOK, board, older, history
<1>5. PhaseInv'
  BY <1>1 DEF TInv, PhaseInv, board, older
<1>6. KindInv'
  <2>1. \A u \in Threads \ {t} : pc'[u] = pc[u] /\ call'[u] = call[u] /\ hit'[u] = hit[u]
    BY <1>1 DEF Snapshot, WriteCache, TInv, TypeOK
  <2>2. pc'[t] \in {"write", "idle"}
    BY <1>1 DEF TInv, TypeOK, board
  <2> QED
    BY <2>1, <2>2 DEF TInv, KindInv
<1>7. MadeInv'
  <2>1. /\ \A u \in Threads : u # t => pc'[u] = pc[u] /\ call'[u] = call[u]
        /\ pc'[t] \in {"write", "idle"} /\ UNCHANGED <<status, made>>
    BY <1>1 DEF Snapshot, WriteCache, TInv, TypeOK, board, older
  <2>2. ~Making(t)' /\ ~Making(t)
    BY <1>1, <2>1 DEF Making
  <2> QED
    BY <2>1, <2>2, MadeKept DEF TInv, MadeInv
<1> QED
  BY <1>4, <1>5, <1>6, <1>7 DEF TInv

-----------------------------------------------------------------------------
(* The types across a crash and an Open.                                   *)

LEMMA CrashTInv ==
  ASSUME TInv, Crash
  PROVE  TInv'
<1>1. /\ phase' = "down" /\ pos' = 0 /\ seq' = 0 /\ registry' = {} /\ sched' = {}
      /\ smu' = None /\ UNCHANGED <<disk, serial, reused>>
      /\ pc' = [u \in Threads |-> "idle"]
      /\ shown' = AllNewest(Ids) /\ made' = AllNewest(Threads)
  BY DEF Crash
<1>2. TypeOK'
  <2>1. before' \in SUBSET Lists
    BY TaskListType DEF Crash, TInv, TypeOK
  <2>2. deps' \in [Ids -> Seq(Ids)] /\ status' \in Lists
    BY Statuses DEF Crash
  <2>3. /\ call' \in [Threads -> Envelope] /\ left' \in [Threads -> SUBSET Ids]
        /\ hit' \in [Threads -> Ids \cup {None}] /\ copy' \in [Threads -> Lists]
    BY Statuses, OtherEnvelope DEF Crash
  <2>4. /\ pos' \in 0..Len(journal') /\ journal' \in Seq(Envelope) /\ seq' \in Nat
    BY <1>1 DEF TInv, TypeOK, disk
  <2>5. \A u \in Threads : smu' = u <=> pc'[u] \in {"scan", "promote"}
    BY <1>1, NoneAssumption
  <2>6. pc' \in [Threads -> PcValues]
    BY <1>1 DEF PcValues
  <2> QED
    BY <1>1, <2>1, <2>2, <2>3, <2>4, <2>5, <2>6 DEF TInv, TypeOK, AllNewest, disk
<1>3. PhaseInv' /\ KindInv' /\ MadeInv'
  BY <1>1 DEF PhaseInv, KindInv, MadeInv, Making, AllNewest, Quiet
<1> QED
  BY <1>2, <1>3 DEF TInv

LEMMA DownTInv ==
  ASSUME TInv, LoseCache \/ Open
  PROVE  TInv'
<1>1. /\ phase = "down" /\ phase' \in {"down", "replay"} /\ pos = 0
      /\ UNCHANGED <<pos, journal, seq, board, smu, locals, history>>
  BY DEF LoseCache, Open, TInv, PhaseInv, disk
<1>2. cache' \in [file : {"missing", "partial", "garbled", "whole"}, tasks : Lists]
  BY Statuses DEF LoseCache, Open, disk, TInv, TypeOK
<1>3. TypeOK'
  BY <1>1, <1>2 DEF TInv, TypeOK, board, older, locals, history
<1>4. PhaseInv' /\ KindInv' /\ MadeInv'
  BY <1>1 DEF TInv, PhaseInv, KindInv, MadeInv, Making, Quiet, board, older, locals
<1> QED
  BY <1>3, <1>4 DEF TInv

\* A step of the replay changes the position and the board.
LEMMA ReplayTInv ==
  ASSUME TInv, phase = "replay", pos < Len(journal), pos' = pos + 1,
         registry' \in SUBSET Ids, sched' \in SUBSET Ids,
         deps' \in [Ids -> Seq(Ids)], status' \in Lists,
         \A id \in registry' \cup sched' : status'[id] # "absent",
         UNCHANGED <<phase, disk, seq, older, smu, locals, history>>
  PROVE  TInv'
<1>1. pos' \in 0..Len(journal')
  BY DEF TInv, TypeOK, disk
<1>2. TypeOK'
  BY <1>1 DEF TInv, TypeOK, disk, older, locals, history
<1>3. PhaseInv'
  BY DEF TInv, PhaseInv, Quiet, disk, older, locals
<1>4. KindInv' /\ MadeInv'
  <2>1. \A u \in Threads : pc'[u] = "idle" /\ made'[u] = "newest"
    BY DEF TInv, PhaseInv, Quiet, older, locals
  <2> QED
    BY <2>1 DEF KindInv, MadeInv, Making
<1> QED
  BY <1>2, <1>3, <1>4 DEF TInv

LEMMA ReplayTeamCreateTInv ==
  ASSUME TInv, ReplayTeamCreate
  PROVE  TInv'
<1>1. /\ registry' \in SUBSET Ids /\ sched' \in SUBSET Ids
      /\ deps' \in [Ids -> Seq(Ids)] /\ status' \in Lists
      /\ \A id \in registry' \cup sched' : status'[id] # "absent"
  BY DEF TInv, TypeOK, ReplayTeamCreate, board
<1> QED
  BY <1>1, ReplayTInv DEF ReplayTeamCreate, board

LEMMA ReplayTaskCreateTInv ==
  ASSUME TInv, ReplayTaskCreate
  PROVE  TInv'
<1> DEFINE env == journal[pos + 1]
<1>1. env \in Envelope /\ env.kind = "task-create"
  BY DEF TInv, TypeOK, ReplayTaskCreate
<1>2. env.id \in Ids /\ env.deps \in Seq(Ids)
  BY <1>1, EnvelopeFields
<1>3. /\ registry' = registry \cup {env.id}
      /\ sched' \in {sched \ {env.id}, sched \cup {env.id}}
      /\ deps' \in {[deps EXCEPT ![env.id] = <<>>], [deps EXCEPT ![env.id] = env.deps]}
      /\ \E st \in {"pending", "blocked"} : status' = [status EXCEPT ![env.id] = st]
  BY Statuses DEF ReplayTaskCreate
<1> HIDE DEF env
<1>4. /\ registry' \in SUBSET Ids /\ sched' \in SUBSET Ids /\ deps' \in [Ids -> Seq(Ids)]
  <2>1. <<>> \in Seq(Ids)
    OBVIOUS
  <2>2. registry' \in SUBSET Ids /\ sched' \in SUBSET Ids
    BY <1>2, <1>3 DEF TInv, TypeOK
  <2>3. \A list \in Seq(Ids) : [deps EXCEPT ![env.id] = list] \in [Ids -> Seq(Ids)]
    BY <1>2 DEF TInv, TypeOK
  <2> QED
    BY <1>2, <1>3, <2>1, <2>2, <2>3
<1>5. status' \in Lists /\ \A id \in registry' \cup sched' : status'[id] # "absent"
  BY <1>2, <1>3, Statuses DEF TInv, TypeOK, Lists
<1> QED
  BY <1>4, <1>5, ReplayTInv DEF ReplayTaskCreate

\* Unblock starts the startable tasks and leaves the others.
LEMMA UnblockResult ==
  ASSUME NEW R, NEW d, NEW st \in Lists, NEW id \in Ids
  PROVE  /\ Unblock(R, d, st) \in Lists
         /\ Startable(id, R, d, st) => Unblock(R, d, st)[id] = "running"
         /\ ~Startable(id, R, d, st) => Unblock(R, d, st)[id] = st[id]
  BY DEF Unblock, Lists, Startable, TaskStatus

LEMMA ReplayTaskUpdateTInv ==
  ASSUME TInv, ReplayTaskUpdate
  PROVE  TInv'
<1> DEFINE env == journal[pos + 1]
           st == [status EXCEPT ![env.id] = env.status]
<1>1. env \in Envelope /\ env.kind = "task-update"
  BY DEF TInv, TypeOK, ReplayTaskUpdate
<1>2. env.id \in Ids /\ env.status \in Reports
  BY <1>1, EnvelopeFields
<1>3. st \in Lists /\ \A id \in registry \cup sched : st[id] # "absent"
  BY <1>2, Statuses DEF TInv, TypeOK, Lists
<1>4. status' \in {status, st, Unblock(sched, deps, st)}
  BY DEF ReplayTaskUpdate
<1> HIDE DEF st, env
<1>5. status' \in Lists /\ \A id \in registry \cup sched : status'[id] # "absent"
  <2>1. CASE status' \in {status, st}
    BY <1>3, <2>1 DEF TInv, TypeOK
  <2>2. CASE status' = Unblock(sched, deps, st)
    <3>1. registry \cup sched \subseteq Ids
      BY DEF TInv, TypeOK
    <3>2. ASSUME NEW id \in registry \cup sched PROVE status'[id] # "absent"
      BY <1>3, <2>2, <3>1, UnblockResult
    <3>3. Unblock(sched, deps, st) \in Lists
      BY <1>3 DEF Unblock, Lists, TaskStatus
    <3> QED
      BY <2>2, <3>2, <3>3
  <2> QED
    BY <1>4, <2>1, <2>2
<1>6. UNCHANGED <<registry, sched, deps>>
  BY DEF ReplayTaskUpdate
<1> QED
  BY <1>5, <1>6, ReplayTInv DEF ReplayTaskUpdate, TInv, TypeOK

LEMMA RebuildTInv ==
  ASSUME TInv, ReplayEnds \/ KeepCache \/ RebuildCache \/ RebuildDies,
         Replayed => MaxJournaled \in Nat
  PROVE  TInv'
<1>1. /\ Quiet /\ UNCHANGED <<journal, smu, pc, call, left, hit, copy, before, reused, shown, made>>
      /\ phase' # "replay"
      /\ \A id \in Ids : shown[id] = "newest"
      /\ \A t \in Threads : made[t] = "newest"
  BY DEF TInv, PhaseInv, ReplayEnds, Replayed, KeepCache, RebuildCache, RebuildDies, disk,
         board, older, locals, history
<1>2. /\ pos' \in 0..Len(journal') /\ seq' \in Nat
      /\ serial' \in BOOLEAN
      /\ phase' \in {"rebuild", "up", "down"}
  <2>1. pos \in 0..Len(journal) /\ Len(journal) \in Nat /\ seq \in Nat
    BY DEF TInv, TypeOK
  <2>2. /\ pos' \in {pos, 0} /\ journal' = journal /\ serial' \in {serial, TRUE}
        /\ phase' \in {"rebuild", "up", "down"}
    BY DEF ReplayEnds, KeepCache, RebuildCache, RebuildDies, disk, history
  <2>3. seq' \in Nat
    BY <2>1 DEF ReplayEnds, KeepCache, RebuildCache, RebuildDies
  <2>4. serial' \in BOOLEAN
    BY <2>2 DEF TInv, TypeOK
  <2> QED
    BY <2>1, <2>2, <2>3, <2>4
<1>3. cache' \in [file : {"missing", "partial", "garbled", "whole"}, tasks : Lists]
  <2>1. TaskList \in Lists /\ NoTasks \in Lists
    BY TaskListType, Statuses DEF TInv, TypeOK
  <2> QED
    BY <2>1 DEF TInv, TypeOK, ReplayEnds, KeepCache, RebuildCache, RebuildDies, disk
<1>4. /\ registry' \in SUBSET Ids /\ sched' \in SUBSET Ids
      /\ deps' \in [Ids -> Seq(Ids)] /\ status' \in Lists
      /\ \A id \in registry' \cup sched' : status'[id] # "absent"
  <2>1. CASE UNCHANGED board
    BY <2>1 DEF TInv, TypeOK, board
  <2>2. CASE RebuildDies
    BY <2>2, Statuses DEF RebuildDies
  <2> QED
    BY <2>1, <2>2 DEF ReplayEnds, KeepCache, RebuildCache
<1>5. TypeOK'
  BY <1>1, <1>2, <1>3, <1>4 DEF TInv, TypeOK
<1>6. PhaseInv'
  BY <1>1 DEF PhaseInv, Quiet, ReplayEnds, Replayed, KeepCache, RebuildCache, RebuildDies, disk
<1>7. KindInv' /\ MadeInv'
  BY <1>1 DEF KindInv, MadeInv, Making, Quiet
<1> QED
  BY <1>5, <1>6, <1>7 DEF TInv

\* A step of nothing keeps the types.
LEMMA StutterTInv ==
  ASSUME TInv, UNCHANGED vars
  PROVE  TInv'
<1>1. UNCHANGED <<phase, pos, journal, cache, seq, registry, sched, deps, status, shown, made>>
  BY DEF vars, disk, board, older
<1>2. UNCHANGED <<smu, pc, call, left, hit, copy, before, serial, reused>>
  BY DEF vars, locals, history
<1> QED
  BY <1>1, <1>2 DEF TInv, TypeOK, PhaseInv, KindInv, MadeInv, Making, Quiet

\* A step that keeps the types, if the journal has a largest number then.
LEMMA NextTInv ==
  ASSUME TInv, [Next]_vars, Replayed => MaxJournaled \in Nat
  PROVE  TInv'
<1>1. ASSUME NEW t \in Threads, Begin(t) PROVE TInv'
  BY <1>1, BeginCreateTInv, RejectCreateTInv, BeginUpdateTInv DEF Begin
<1>2. ASSUME NEW t \in Threads, Step(t) PROVE TInv'
  BY <1>2, CreateSeqTInv, AppendTInv, RegisterTInv, ApplyTInv, MarkFailedTInv, MarkCompleteTInv,
     VisitTInv, PromoteTInv, ScanEndTInv, CacheTInv DEF Step
<1>3. CASE Reopen
  <2>1. CASE Open \/ ReplayTeamCreate \/ ReplayTaskCreate \/ ReplayTaskUpdate
    BY <2>1, DownTInv, ReplayTeamCreateTInv, ReplayTaskCreateTInv, ReplayTaskUpdateTInv
  <2>2. CASE ReplayEnds \/ KeepCache \/ RebuildCache \/ RebuildDies
    BY <2>2, RebuildTInv
  <2> QED
    BY <1>3, <2>1, <2>2 DEF Reopen
<1>4. CASE UNCHANGED vars
  BY <1>4, StutterTInv
<1> QED
  BY <1>1, <1>2, <1>3, <1>4, CrashTInv, DownTInv DEF Next

-----------------------------------------------------------------------------
(* Sequence numbers.                                                       *)

\* Every nonempty set of naturals has a least element.
LEMMA Least ==
  ASSUME NEW T \in SUBSET Nat, T # {}
  PROVE  \E x \in T : \A y \in T : x <= y
<1>1. PICK x \in T : \A y \in T : ~ (<<y, x>> \in OpToRel(<, Nat))
  BY WFMin, NatLessThanWellFounded
<1>2. \A y \in T : ~ (y < x)
  BY <1>1 DEF OpToRel
<1> QED
  BY <1>2

\* A journal whose numbers are bounded has a largest number.
LEMMA MaxJournaledIs ==
  ASSUME journal \in Seq(Envelope), journal # <<>>,
         \A i \in DOMAIN journal : journal[i].seq < MaxSeq
  PROVE  /\ MaxJournaled \in Nat /\ MaxJournaled < MaxSeq
         /\ \A i \in DOMAIN journal : journal[i].seq <= MaxJournaled
<1> DEFINE T == {MaxSeq - journal[i].seq : i \in DOMAIN journal}
<1>1. MaxSeq \in Nat /\ \A i \in DOMAIN journal : journal[i].seq \in Nat
  <2>1. \A i \in DOMAIN journal : journal[i] \in Envelope
    OBVIOUS
  <2> QED
    BY <2>1, MaxSeqAssumption, EnvelopeFields
<1>2. T \in SUBSET Nat /\ T # {}
  <2>1. 1 \in DOMAIN journal
    OBVIOUS
  <2> QED
    BY <1>1, <2>1
<1>3. PICK x \in T : \A y \in T : x <= y
  <2> HIDE DEF T
  <2> QED
    BY <1>2, Least
<1>4. PICK i \in DOMAIN journal : x = MaxSeq - journal[i].seq
  BY <1>3
<1> DEFINE n == journal[i].seq
<1>5. n \in 0..MaxSeq /\ \A j \in DOMAIN journal : journal[j].seq <= n
  <2>1. n \in 0..MaxSeq
    BY <1>1, <1>4
  <2>2. ASSUME NEW j \in DOMAIN journal PROVE journal[j].seq <= n
    <3>1. x <= MaxSeq - journal[j].seq
      BY <1>3
    <3> QED
      BY <1>1, <1>4, <3>1
  <2> QED
    BY <2>1, <2>2
<1> DEFINE IsMax(m) == /\ \E j \in DOMAIN journal : journal[j].seq = m
                       /\ \A j \in DOMAIN journal : journal[j].seq <= m
<1>6. \E m \in 0..MaxSeq : IsMax(m)
  BY <1>4, <1>5
<1>7. MaxJournaled \in 0..MaxSeq /\ IsMax(MaxJournaled)
  <2>1. MaxJournaled = CHOOSE m \in 0..MaxSeq : IsMax(m)
    BY DEF MaxJournaled
  <2> HIDE DEF IsMax
  <2> QED
    BY <1>6, <2>1
<1> QED
  BY <1>1, <1>7

\* The creations that have reserved a number are finitely many.
LEMMA NumberingFinite == IsFiniteSet(Numbering) /\ Cardinality(Numbering) \in Nat
<1>1. Numbering \in SUBSET Threads
  BY DEF Numbering
<1> QED
  BY <1>1, ThreadsAssumption, FS_Subset, FS_CardinalityType

\* The steps after Append touch neither the journal nor the numbers.
LEMMA LateStep ==
  ASSUME TInv, NEW t \in Threads,
         \/ Register(t) \/ Apply(t) \/ MarkFailed(t) \/ MarkComplete(t)
         \/ (\E id \in Ids : Visit(t, id)) \/ Promote(t) \/ ScanEnd(t)
         \/ Snapshot(t) \/ WriteCache(t)
  PROVE  /\ UNCHANGED <<phase, pos, journal, seq, sched, deps>>
         /\ \A u \in Threads : u # t => pc'[u] = pc[u] /\ call'[u] = call[u]
         /\ pc[t] \notin {"idle", "seq", "append"} /\ pc'[t] \notin {"seq", "append", "register"}
<1> USE DEF TInv, TypeOK, disk, board
<1>1. CASE Register(t)
  BY <1>1 DEF Register
<1>2. CASE Apply(t)
  BY <1>2 DEF Apply
<1>3. CASE MarkFailed(t)
  BY <1>3 DEF MarkFailed
<1>4. CASE MarkComplete(t)
  BY <1>4 DEF MarkComplete
<1>5. ASSUME NEW id \in Ids, Visit(t, id)
      PROVE  /\ UNCHANGED <<phase, pos, journal, seq, sched, deps>>
             /\ \A u \in Threads : u # t => pc'[u] = pc[u] /\ call'[u] = call[u]
             /\ pc[t] \notin {"idle", "seq", "append"}
             /\ pc'[t] \notin {"seq", "append", "register"}
  BY <1>5 DEF Visit
<1>6. CASE Promote(t)
  BY <1>6 DEF Promote
<1>7. CASE ScanEnd(t)
  BY <1>7 DEF ScanEnd
<1>8. CASE Snapshot(t)
  BY <1>8 DEF Snapshot
<1>9. CASE WriteCache(t)
  BY <1>9 DEF WriteCache
<1> QED
  BY <1>1, <1>2, <1>3, <1>4, <1>5, <1>6, <1>7, <1>8, <1>9

\* A new team has given out the number of its own creation.
LEMMA InitNumberInv == Init => NumberInv
<1> SUFFICES ASSUME Init PROVE NumberInv
  OBVIOUS
<1>1. journal = <<TeamCreated>> /\ DOMAIN journal = {1} /\ journal[1].seq = 0 /\ seq = 1
  BY OtherEnvelope DEF Init
<1>2. Numbering = {} /\ \A t \in Threads : pc[t] = "idle"
  BY DEF Init, Numbering
<1>3. Cardinality(Numbering) = 0
  BY <1>2, FS_EmptySet
<1> QED
  BY <1>1, <1>2, <1>3, MaxSeqAssumption DEF NumberInv, SeqUnique

\* A creation reserves a number of the bound when it begins,
LEMMA BeginCreateNumberInv ==
  ASSUME TInv, NumberInv, NEW t \in Threads, NEW spec \in TaskSpecs, BeginCreate(t, spec)
  PROVE  NumberInv'
<1>1. /\ pc[t] = "idle" /\ pc' = [pc EXCEPT ![t] = "seq"] /\ phase = "up"
      /\ UNCHANGED <<phase, journal, seq>> /\ SeqRoom
      /\ \A u \in Threads : u # t => call'[u] = call[u]
  BY DEF BeginCreate, disk, TInv, TypeOK
<1>2. Numbering' = Numbering \cup {t} /\ t \notin Numbering
  BY <1>1 DEF Numbering, TInv, TypeOK
<1>3. Cardinality(Numbering') = Cardinality(Numbering) + 1
  BY <1>2, NumberingFinite, FS_AddElement
<1>4. seq + Cardinality(Numbering') <= MaxSeq
  BY <1>1, <1>3, NumberingFinite, MaxSeqAssumption DEF SeqRoom, Numbering, TInv, TypeOK
<1>5. \A u \in Threads : pc'[u] = "append" => pc[u] = "append" /\ call'[u] = call[u]
  BY <1>1 DEF TInv, TypeOK
<1> QED
  BY <1>1, <1>4, <1>5 DEF NumberInv, SeqUnique

\* a rejected one needs none,
LEMMA RejectCreateNumberInv ==
  ASSUME TInv, NumberInv, NEW t \in Threads, NEW spec \in TaskSpecs, RejectCreate(t, spec)
  PROVE  NumberInv'
<1>1. UNCHANGED <<phase, journal, seq, pc, call>>
  BY DEF RejectCreate, disk, locals
<1> QED
  BY <1>1 DEF NumberInv, SeqUnique, Numbering

\* and an update takes one at once.
LEMMA BeginUpdateNumberInv ==
  ASSUME TInv, NumberInv, NEW t \in Threads, NEW id \in Ids, NEW st \in Reports,
         BeginUpdate(t, id, st)
  PROVE  NumberInv'
<1>1. /\ pc[t] = "idle" /\ pc' = [pc EXCEPT ![t] = "append"] /\ phase = "up"
      /\ UNCHANGED <<phase, journal>> /\ SeqRoom /\ seq' = seq + 1 /\ seq \in Nat
      /\ call' = [call EXCEPT ![t] = TaskUpdated(id, st, seq)]
  BY DEF BeginUpdate, disk, TInv, TypeOK
<1>2. Numbering' = Numbering
  BY <1>1 DEF Numbering, TInv, TypeOK
<1>3. call'[t].seq = seq
  BY <1>1, UpdateEnvelope DEF TInv, TypeOK
<1>4. \A u \in Threads : u # t => pc'[u] = pc[u] /\ call'[u] = call[u]
  BY <1>1 DEF TInv, TypeOK
<1>5. \A i \in DOMAIN journal : journal[i].seq \in Nat /\ journal[i].seq < seq
  BY <1>1, EnvelopeFields DEF NumberInv, TInv, TypeOK
<1>6. \A u \in Threads : call[u].seq \in Nat
  BY EnvelopeFields DEF TInv, TypeOK
<1>7. seq' + Cardinality(Numbering') <= MaxSeq
  BY <1>1, <1>2, NumberingFinite, MaxSeqAssumption DEF SeqRoom, Numbering
<1>8. ASSUME NEW u \in Threads, pc'[u] = "append"
      PROVE  call'[u].seq < seq' /\ \A i \in DOMAIN journal : journal[i].seq # call'[u].seq
  <2>1. CASE u = t
    BY <1>1, <1>3, <1>5, <2>1
  <2>2. CASE u # t
    BY <1>1, <1>4, <1>6, <1>8, <2>2 DEF NumberInv
  <2> QED
    BY <2>1, <2>2
<1>9. ASSUME NEW u \in Threads, NEW v \in Threads, u # v, pc'[u] = "append", pc'[v] = "append"
      PROVE  call'[u].seq # call'[v].seq
  BY <1>1, <1>3, <1>4, <1>6, <1>9 DEF NumberInv
<1>10. \A i \in DOMAIN journal : journal[i].seq < seq'
  BY <1>1, <1>5
<1> QED
  BY <1>1, <1>7, <1>8, <1>9, <1>10 DEF NumberInv, SeqUnique

\* A creation that takes its number gives up its reservation.
LEMMA CreateSeqNumberInv ==
  ASSUME TInv, NumberInv, NEW t \in Threads, CreateSeq(t)
  PROVE  NumberInv'
<1>1. /\ pc[t] = "seq" /\ pc' = [pc EXCEPT ![t] = "append"] /\ phase = "up"
      /\ UNCHANGED <<phase, journal>> /\ seq' = seq + 1 /\ seq \in Nat
      /\ call' = [call EXCEPT ![t] = [call[t] EXCEPT !.seq = seq]]
  BY DEF CreateSeq, disk, TInv, TypeOK, PhaseInv, Quiet
<1>2. Numbering' = Numbering \ {t} /\ t \in Numbering
  BY <1>1 DEF Numbering, TInv, TypeOK
<1>3. Cardinality(Numbering') = Cardinality(Numbering) - 1
  BY <1>2, NumberingFinite, FS_RemoveElement
<1>4. call'[t].seq = seq
  <2>1. call[t] \in Envelope /\ call[t].kind = "task-create"
    BY <1>1 DEF TInv, TypeOK, KindInv
  <2>2. [call[t] EXCEPT !.seq = seq].seq = seq
    BY <1>1, <2>1, NumberedEnvelope
  <2> QED
    BY <1>1, <2>2 DEF TInv, TypeOK
<1>5. \A u \in Threads : u # t => pc'[u] = pc[u] /\ call'[u] = call[u]
  BY <1>1 DEF TInv, TypeOK
<1>6. \A i \in DOMAIN journal : journal[i].seq \in Nat /\ journal[i].seq < seq
  BY <1>1, EnvelopeFields DEF NumberInv, TInv, TypeOK
<1>7. \A u \in Threads : call[u].seq \in Nat
  BY EnvelopeFields DEF TInv, TypeOK
<1>8. seq' + Cardinality(Numbering') <= MaxSeq
  <2>1. seq + Cardinality(Numbering) <= MaxSeq
    BY <1>1 DEF NumberInv
  <2> QED
    BY <1>1, <1>3, <2>1, NumberingFinite, MaxSeqAssumption
<1>9. ASSUME NEW u \in Threads, pc'[u] = "append"
      PROVE  call'[u].seq < seq' /\ \A i \in DOMAIN journal : journal[i].seq # call'[u].seq
  <2>1. CASE u = t
    BY <1>1, <1>4, <1>6, <2>1
  <2>2. CASE u # t
    BY <1>1, <1>5, <1>7, <1>9, <2>2 DEF NumberInv
  <2> QED
    BY <2>1, <2>2
<1>10. ASSUME NEW u \in Threads, NEW v \in Threads, u # v, pc'[u] = "append", pc'[v] = "append"
       PROVE  call'[u].seq # call'[v].seq
  BY <1>1, <1>4, <1>5, <1>7, <1>10 DEF NumberInv
<1>11. \A i \in DOMAIN journal : journal[i].seq < seq'
  BY <1>1, <1>6
<1> QED
  BY <1>1, <1>8, <1>9, <1>10, <1>11 DEF NumberInv, SeqUnique

\* The envelope brings a number that was nowhere, and the call is done with it.
LEMMA AppendNumberInv ==
  ASSUME TInv, NumberInv, NEW t \in Threads, JournalAppend(t) \/ AppendFails(t)
  PROVE  NumberInv'
<1>1. /\ pc[t] = "append" /\ pc'[t] # "append" /\ phase = "up"
      /\ UNCHANGED <<phase, seq>>
      /\ \A u \in Threads : u # t => pc'[u] = pc[u] /\ call'[u] = call[u]
      /\ call[t] \in Envelope
  BY DEF JournalAppend, AppendFails, TInv, TypeOK, PhaseInv, Quiet
<1>2. Numbering' = Numbering
  BY <1>1 DEF Numbering, TInv, TypeOK, JournalAppend, AppendFails
<1>3. CASE journal' = journal
  BY <1>1, <1>2, <1>3 DEF NumberInv, SeqUnique
<1>4. CASE journal' = Append(journal, call[t])
  <2> DEFINE n == Len(journal)
  <2>1. /\ n \in Nat /\ DOMAIN journal = 1..n /\ DOMAIN journal' = 1..(n + 1)
        /\ \A i \in 1..n : journal'[i] = journal[i]
        /\ journal'[n + 1] = call[t]
    BY <1>1, <1>4, JournalGrows DEF TInv, TypeOK
  <2> HIDE DEF n
  <2>2. /\ call[t].seq < seq /\ \A i \in 1..n : journal[i].seq # call[t].seq
        /\ seq + Cardinality(Numbering) <= MaxSeq
    BY <1>1, <2>1 DEF NumberInv
  <2>3. call[t].seq \in Nat /\ call[t].seq < MaxSeq
    BY <1>1, <2>2, EnvelopeFields, NumberingFinite, MaxSeqAssumption DEF TInv, TypeOK
  <2>4. \A i \in DOMAIN journal' : journal'[i].seq < MaxSeq /\ journal'[i].seq < seq
    BY <1>1, <2>1, <2>2, <2>3 DEF NumberInv
  <2>5. SeqUnique'
    <3>1. \A i, j \in 1..n : i # j => journal'[i].seq # journal'[j].seq
      BY <2>1 DEF NumberInv, SeqUnique
    <3>2. \A i \in 1..n : journal'[i].seq # journal'[n + 1].seq
      BY <2>1, <2>2
    <3>3. \A i \in 1..(n + 1) : i \in 1..n \/ i = n + 1
      BY <2>1
    <3>4. ASSUME NEW i \in 1..(n + 1), NEW j \in 1..(n + 1), i # j
          PROVE  journal'[i].seq # journal'[j].seq
      BY <3>1, <3>2, <3>3, <3>4
    <3> QED
      BY <2>1, <3>4 DEF SeqUnique
  <2>6. ASSUME NEW u \in Threads, pc'[u] = "append"
        PROVE  /\ call'[u].seq < seq'
               /\ \A i \in DOMAIN journal' : journal'[i].seq # call'[u].seq
    <3>1. u # t /\ pc[u] = "append" /\ call'[u] = call[u]
      BY <1>1, <2>6
    <3>2. /\ call[u].seq < seq /\ \A i \in 1..n : journal[i].seq # call[u].seq
          /\ call[t].seq # call[u].seq
      BY <1>1, <2>1, <3>1 DEF NumberInv
    <3>3. \A i \in 1..(n + 1) : i \in 1..n \/ i = n + 1
      BY <2>1
    <3> QED
      BY <1>1, <2>1, <3>1, <3>2, <3>3
  <2>7. ASSUME NEW u \in Threads, NEW v \in Threads, u # v, pc'[u] = "append", pc'[v] = "append"
        PROVE  call'[u].seq # call'[v].seq
    BY <1>1, <2>7 DEF NumberInv
  <2>8. journal' # <<>>
    BY <2>1
  <2> QED
    BY <1>1, <1>2, <2>2, <2>4, <2>5, <2>6, <2>7, <2>8 DEF NumberInv
<1> QED
  BY <1>3, <1>4 DEF JournalAppend, AppendFails

\* Every step keeps the numbers apart.
LEMMA NextNumberInv ==
  ASSUME TInv, NumberInv, [Next]_vars
  PROVE  NumberInv'
<1>1. ASSUME NEW t \in Threads, Begin(t) PROVE NumberInv'
  BY <1>1, BeginCreateNumberInv, RejectCreateNumberInv, BeginUpdateNumberInv DEF Begin
<1>2. ASSUME NEW t \in Threads, Step(t) PROVE NumberInv'
  <2>1. CASE CreateSeq(t)
    BY <2>1, CreateSeqNumberInv
  <2>2. CASE JournalAppend(t) \/ AppendFails(t)
    BY <2>2, AppendNumberInv
  <2>3. CASE \/ Register(t) \/ Apply(t) \/ MarkFailed(t) \/ MarkComplete(t)
             \/ (\E id \in Ids : Visit(t, id)) \/ Promote(t) \/ ScanEnd(t)
             \/ Snapshot(t) \/ WriteCache(t)
    <3>1. /\ UNCHANGED <<phase, journal, seq>>
          /\ \A u \in Threads : u # t => pc'[u] = pc[u] /\ call'[u] = call[u]
          /\ pc[t] \notin {"seq", "append"} /\ pc'[t] \notin {"seq", "append"}
      BY <2>3, LateStep
    <3>2. Numbering' = Numbering
      BY <3>1 DEF Numbering
    <3>3. \A u \in Threads : pc'[u] = "append" => pc[u] = "append" /\ call'[u] = call[u]
      BY <3>1
    <3> QED
      BY <3>1, <3>2, <3>3 DEF NumberInv, SeqUnique
  <2> QED
    BY <1>2, <2>1, <2>2, <2>3 DEF Step
<1>3. CASE Crash
  <2>1. phase' = "down" /\ journal' = journal /\ \A u \in Threads : pc'[u] = "idle"
    BY <1>3 DEF Crash, disk
  <2> QED
    BY <2>1 DEF NumberInv, SeqUnique
<1>4. CASE LoseCache \/ Open \/ ReplayTeamCreate \/ ReplayTaskCreate \/ ReplayTaskUpdate
           \/ KeepCache \/ RebuildCache \/ RebuildDies
  <2>1. /\ journal' = journal /\ UNCHANGED <<pc, call>> /\ Quiet
        /\ phase' \in {"up", "rebuild"} => phase = "rebuild" /\ seq' = seq
    BY <1>4 DEF LoseCache, Open, ReplayTeamCreate, ReplayTaskCreate, ReplayTaskUpdate, KeepCache,
                RebuildCache, RebuildDies, disk, locals, TInv, PhaseInv
  <2>2. Numbering' = Numbering /\ \A t \in Threads : pc'[t] # "append"
    BY <2>1 DEF Numbering, Quiet
  <2> QED
    BY <2>1, <2>2 DEF NumberInv, SeqUnique
<1>5. CASE ReplayEnds
  <2>1. /\ journal' = journal /\ UNCHANGED <<pc, call>> /\ Quiet /\ seq' = MaxJournaled + 1
    BY <1>5 DEF ReplayEnds, Replayed, disk, locals, TInv, PhaseInv
  <2>2. /\ MaxJournaled \in Nat /\ MaxJournaled < MaxSeq
        /\ \A i \in DOMAIN journal : journal[i].seq <= MaxJournaled /\ journal[i].seq \in Nat
    BY MaxJournaledIs, EnvelopeFields DEF NumberInv, TInv, TypeOK
  <2>3. Numbering' = {} /\ \A t \in Threads : pc'[t] # "append"
    BY <2>1 DEF Numbering, Quiet
  <2>4. Cardinality(Numbering') = 0
    BY <2>3, FS_EmptySet
  <2>5. seq' + Cardinality(Numbering') <= MaxSeq /\ \A i \in DOMAIN journal : journal[i].seq < seq'
    BY <2>1, <2>2, <2>4, MaxSeqAssumption
  <2> QED
    BY <2>1, <2>3, <2>5 DEF NumberInv, SeqUnique
<1>6. CASE UNCHANGED vars
  <2>1. UNCHANGED <<phase, journal, seq, pc, call>>
    BY <1>6 DEF vars, disk, locals
  <2> QED
    BY <2>1 DEF NumberInv, SeqUnique, Numbering
<1> QED
  BY <1>1, <1>2, <1>3, <1>4, <1>5, <1>6 DEF Next, Reopen

\* With a largest number in the journal every step keeps the types.
LEMMA NextTypes ==
  ASSUME TInv, NumberInv, [Next]_vars
  PROVE  TInv' /\ NumberInv'
<1>1. MaxJournaled \in Nat
  BY MaxJournaledIs DEF NumberInv, TInv, TypeOK
<1> QED
  BY <1>1, NextTInv, NextNumberInv

\* Types and numbers are right in every state.
THEOREM Numbered == Spec => [](TInv /\ NumberInv)
<1>1. Init => TInv /\ NumberInv
  BY InitTInv, InitNumberInv
<1>2. TInv /\ NumberInv /\ [Next]_vars => (TInv /\ NumberInv)'
  BY NextTypes
<1> QED
  BY <1>1, <1>2, PTL DEF Spec

\* Every variable of the board, the calls and an Open keeps its type.
THEOREM TypeOKHolds == Spec => []TypeOK
<1>1. TInv /\ NumberInv => TypeOK
  BY DEF TInv
<1> QED
  BY <1>1, Numbered, PTL

\* No two envelopes of a journal carry the same number, whatever calls, failed
\* writes, crashes and Opens went before.
THEOREM SeqUniqueHolds == Spec => []SeqUnique
<1>1. TInv /\ NumberInv => SeqUnique
  BY DEF NumberInv
<1> QED
  BY <1>1, Numbered, PTL

-----------------------------------------------------------------------------
(* The graph in the journal and the graph in memory.                       *)

\* A journal that agrees with a graph without a cycle describes none.
LEMMA PartOfAcyclic ==
  ASSUME NEW j, NEW R, NEW d, ~HasCycle(R, d),
         \A i \in Creations(j) : j[i].id \in R /\ d[j[i].id] = j[i].deps
  PROVE  AcyclicJournal(j)
<1> DEFINE ids == {j[i].id : i \in Creations(j)}
<1>1. ids \subseteq R
  OBVIOUS
<1>2. ASSUME NEW S \in SUBSET ids, S # {}
      PROVE  \E id \in S : \A i \in Creations(j) : j[i].id = id => Named(j[i].deps) \cap S = {}
  <2>1. PICK id \in S : ~ \E dep \in Named(d[id]) : dep \in S
    BY <1>1, <1>2 DEF HasCycle
  <2>2. \A i \in Creations(j) : j[i].id = id => Named(j[i].deps) \cap S = {}
    BY <2>1
  <2> QED
    BY <2>2
<1> QED
  BY <1>2 DEF AcyclicJournal

\* A graph read from such a journal has none either.
LEMMA ReadFromAcyclic ==
  ASSUME NEW j, NEW R, NEW d, AcyclicJournal(j),
         \A id \in R : \E i \in Creations(j) : j[i].id = id /\ j[i].deps = d[id]
  PROVE  ~HasCycle(R, d)
<1> SUFFICES ASSUME NEW S \in SUBSET R, S # {},
                    \A id \in S : \E dep \in Named(d[id]) : dep \in S
             PROVE  FALSE
  BY DEF HasCycle
<1>1. S \in SUBSET {j[i].id : i \in Creations(j)}
  OBVIOUS
<1>2. PICK id \in S : \A i \in Creations(j) : j[i].id = id => Named(j[i].deps) \cap S = {}
  BY <1>1 DEF AcyclicJournal
<1>3. PICK i \in Creations(j) : j[i].id = id /\ j[i].deps = d[id]
  OBVIOUS
<1> QED
  BY <1>2, <1>3

\* The journaled tasks are the ids of its creations.
LEMMA JournaledIds == Journaled = {journal[i].id : i \in Creations(journal)}
  BY DEF Journaled, Creations

\* Nothing is journaled, and nobody is in a call.
LEMMA InitGraphInv == Init => GraphInv
<1> SUFFICES ASSUME Init PROVE GraphInv
  OBVIOUS
<1>1. Creations(journal) = {}
  BY OtherEnvelope DEF Init, Creations
<1>2. ~HasCycle(sched, deps)
  BY DEF Init, HasCycle
<1>3. AcyclicJournal(journal)
  BY <1>1 DEF AcyclicJournal
<1>4. \A t \in Threads : ~ToJournal(t) /\ ~Making(t)
  BY DEF Init, ToJournal, Making
<1> QED
  BY <1>1, <1>2, <1>3, <1>4 DEF Init, GraphInv, RegisteredIsScheduled

\* A creation of an id that is not in use, whose insertion is checked, extends
\* the graph and makes no circle.
LEMMA BeginCreateGraphInv ==
  ASSUME TInv, GraphInv, NEW t \in Threads, NEW spec \in TaskSpecs, BeginCreate(t, spec),
         ~reused'
  PROVE  GraphInv'
<1> DEFINE id == spec.id
           e == TaskCreated(id, spec.deps, 0)
<1>1. id \in Ids /\ e.kind = "task-create" /\ e.id = id /\ e.deps = spec.deps
  BY CreateEnvelope
<1> HIDE DEF e
<1>2. /\ pc[t] = "idle" /\ pc' = [pc EXCEPT ![t] = "seq"] /\ phase = "up"
      /\ call' = [call EXCEPT ![t] = e]
      /\ UNCHANGED <<phase, pos, journal, registry>>
      /\ sched' = sched \cup {id} /\ deps' = [deps EXCEPT ![id] = spec.deps]
      /\ ~HasCycle(sched', deps')
      /\ id \notin Journaled /\ id \notin Creating
  BY DEF BeginCreate, AddTask, disk, Fresh, e
<1>3. /\ \A u \in Threads : u # t => pc'[u] = pc[u] /\ call'[u] = call[u]
      /\ pc'[t] = "seq" /\ call'[t] = e
      /\ deps'[id] = spec.deps /\ \A x \in Ids : x # id => deps'[x] = deps[x]
  BY <1>1, <1>2 DEF TInv, TypeOK
<1>4. \A u \in Threads : ToJournal(u) => call[u].id # id /\ call[u].id \in Ids
  BY <1>2, EnvelopeFields DEF ToJournal, Making, Creating, TInv, TypeOK
<1>5. \A u \in Threads : u # t => (ToJournal(u)' <=> ToJournal(u))
  BY <1>3 DEF ToJournal
<1>11. \A u \in Threads : Making(u)' => call'[u].id \in sched'
  <2>1. \A u \in Threads : u # t => (Making(u)' <=> Making(u))
    BY <1>3 DEF Making
  <2> QED
    BY <1>1, <1>2, <1>3, <2>1 DEF GraphInv
<1>6. Journaled' = Journaled /\ Reached' = Reached
  BY <1>2 DEF Journaled, Reached
<1>7. \A i \in Creations(journal) : journal[i].id # id /\ journal[i].id \in Ids
  BY <1>2, JournaledIds, EnvelopeFields DEF TInv, TypeOK, Creations
<1>8. \A u \in Threads : ToJournal(u)' =>
        call'[u].id \notin Journaled' /\ deps'[call'[u].id] = call'[u].deps
  BY <1>1, <1>2, <1>3, <1>4, <1>5, <1>6 DEF GraphInv
<1>9. \A u, v \in Threads : ToJournal(u)' /\ ToJournal(v)' /\ call'[u].id = call'[v].id => u = v
  BY <1>1, <1>3, <1>4, <1>5 DEF GraphInv
<1>10. \A i \in Creations(journal) : i <= Reached =>
         journal[i].id \in sched' /\ deps'[journal[i].id] = journal[i].deps
  BY <1>2, <1>3, <1>7 DEF GraphInv
<1> QED
  BY <1>2, <1>6, <1>8, <1>9, <1>10, <1>11 DEF GraphInv, RegisteredIsScheduled

\* A step that leaves the graph and the journal alone and creates nothing.
LEMMA SameGraph ==
  ASSUME GraphInv, UNCHANGED <<phase, pos, journal, sched, deps>>,
         registry' \subseteq registry \cup sched,
         \A u \in Threads : ToJournal(u)' =>
           ToJournal(u) /\ call'[u].id = call[u].id /\ call'[u].deps = call[u].deps,
         \A u \in Threads : Making(u)' => Making(u) /\ call'[u].id = call[u].id
  PROVE  GraphInv'
<1>1. Journaled' = Journaled /\ Reached' = Reached
  BY DEF Journaled, Reached
<1>2. \A u \in Threads : Making(u)' => call'[u].id \in sched'
  BY DEF GraphInv
<1>3. /\ \A u \in Threads : ToJournal(u)' =>
           call'[u].id \notin Journaled' /\ deps'[call'[u].id] = call'[u].deps
      /\ \A u, v \in Threads :
           ToJournal(u)' /\ ToJournal(v)' /\ call'[u].id = call'[v].id => u = v
  BY <1>1 DEF GraphInv
<1>4. RegisteredIsScheduled'
  BY DEF GraphInv, RegisteredIsScheduled
<1> QED
  BY <1>1, <1>2, <1>3, <1>4 DEF GraphInv

\* An update that begins leaves the graph alone.
LEMMA BeginUpdateGraphInv ==
  ASSUME TInv, GraphInv, NEW t \in Threads, NEW id \in Ids, NEW st \in Reports,
         BeginUpdate(t, id, st)
  PROVE  GraphInv'
<1>1. /\ UNCHANGED <<phase, pos, journal, registry, sched, deps>>
      /\ \A u \in Threads : u # t => pc'[u] = pc[u] /\ call'[u] = call[u]
      /\ call'[t].kind # "task-create"
  BY UpdateEnvelope DEF BeginUpdate, disk, board, TInv, TypeOK
<1>2. \A u \in Threads : ToJournal(u)' =>
        ToJournal(u) /\ call'[u].id = call[u].id /\ call'[u].deps = call[u].deps
  BY <1>1 DEF ToJournal
<1>3. \A u \in Threads : Making(u)' => Making(u) /\ call'[u].id = call[u].id
  BY <1>1 DEF Making
<1> QED
  BY <1>1, <1>2, <1>3, SameGraph

\* A creation that takes its number keeps the dependencies that were
\* checked.
LEMMA CreateSeqGraphInv ==
  ASSUME TInv, GraphInv, NEW t \in Threads, CreateSeq(t)
  PROVE  GraphInv'
<1>1. /\ UNCHANGED <<phase, pos, journal, registry, sched, deps>>
      /\ \A u \in Threads : u # t => pc'[u] = pc[u] /\ call'[u] = call[u]
      /\ pc[t] = "seq" /\ call'[t] = [call[t] EXCEPT !.seq = seq]
      /\ call[t] \in Envelope /\ call[t].kind = "task-create" /\ seq \in Nat
  BY DEF CreateSeq, disk, board, TInv, TypeOK, KindInv
<1>2. call'[t].id = call[t].id /\ call'[t].deps = call[t].deps
  BY <1>1, NumberedEnvelope
<1>3. \A u \in Threads : ToJournal(u)' =>
        ToJournal(u) /\ call'[u].id = call[u].id /\ call'[u].deps = call[u].deps
  BY <1>1, <1>2 DEF ToJournal
<1>4. \A u \in Threads : Making(u)' => Making(u) /\ call'[u].id = call[u].id
  BY <1>1, <1>2 DEF Making
<1> QED
  BY <1>1, <1>3, <1>4, SameGraph

\* The order of the lines need not be that of the checks, but the task is in
\* the checked graph before its line is in the journal.
LEMMA AppendGraphInv ==
  ASSUME TInv, GraphInv, NEW t \in Threads, JournalAppend(t) \/ AppendFails(t)
  PROVE  GraphInv'
<1>1. /\ UNCHANGED <<phase, pos, registry, sched, deps>> /\ phase = "up"
      /\ \A u \in Threads : u # t => pc'[u] = pc[u] /\ call'[u] = call[u]
      /\ pc[t] = "append" /\ pc'[t] \notin {"seq", "append"}
      /\ call[t] \in Envelope
  BY DEF JournalAppend, AppendFails, board, TInv, TypeOK, PhaseInv, Quiet
<1>2. \A u \in Threads : ToJournal(u)' => u # t /\ ToJournal(u) /\ call'[u] = call[u]
  BY <1>1 DEF ToJournal
<1>5. \A u \in Threads : Making(u)' => call'[u].id \in sched'
  <2>1. call'[t] = call[t] \/ pc'[t] = "idle"
    BY DEF JournalAppend, AppendFails, TInv, TypeOK
  <2>2. \A u \in Threads : Making(u)' => Making(u) /\ call'[u] = call[u]
    BY <1>1, <2>1 DEF Making
  <2> QED
    BY <1>1, <2>2 DEF GraphInv
<1>3. CASE journal' = journal
  <2>1. Journaled' = Journaled /\ Reached' = Reached
    BY <1>1, <1>3 DEF Journaled, Reached
  <2> QED
    BY <1>1, <1>2, <1>3, <1>5, <2>1 DEF GraphInv, RegisteredIsScheduled
<1>4. CASE journal' = Append(journal, call[t])
  <2> DEFINE n == Len(journal)
  <2>1. /\ n \in Nat /\ DOMAIN journal = 1..n /\ DOMAIN journal' = 1..(n + 1)
        /\ \A i \in 1..n : journal'[i] = journal[i]
        /\ journal'[n + 1] = call[t]
        /\ Len(journal') = n + 1
    BY <1>1, <1>4, JournalGrows DEF TInv, TypeOK
  <2>2. Reached = n /\ Reached' = n + 1
    BY <1>1, <2>1 DEF Reached
  <2> HIDE DEF n
  <2>3. CASE call[t].kind # "task-create"
    <3>1. Creations(journal') = Creations(journal)
      BY <2>1, <2>3 DEF Creations
    <3>2. \A i \in Creations(journal) : journal'[i] = journal[i] /\ i <= n
      BY <2>1 DEF Creations
    <3>3. Journaled' = Journaled
      BY <3>1, <3>2 DEF Journaled, Creations
    <3>4. AcyclicJournal(journal')
      <4>1. {journal'[i].id : i \in Creations(journal')} = {journal[i].id : i \in Creations(journal)}
        BY <3>1, <3>2
      <4>2. ASSUME NEW S \in SUBSET {journal[i].id : i \in Creations(journal)}, S # {}
            PROVE  \E id \in S : \A i \in Creations(journal') :
                     journal'[i].id = id => Named(journal'[i].deps) \cap S = {}
        <5>1. PICK id \in S : \A i \in Creations(journal) :
                journal[i].id = id => Named(journal[i].deps) \cap S = {}
          BY <4>2 DEF GraphInv, AcyclicJournal
        <5> QED
          BY <3>1, <3>2, <5>1
      <4> QED
        BY <4>1, <4>2 DEF AcyclicJournal
    <3> QED
      BY <1>1, <1>2, <1>5, <2>2, <3>1, <3>2, <3>3, <3>4 DEF GraphInv, RegisteredIsScheduled
  <2>4. CASE call[t].kind = "task-create"
    <3>1. /\ ToJournal(t) /\ call[t].id \in sched /\ deps[call[t].id] = call[t].deps
          /\ call[t].id \notin Journaled
      BY <1>1, <2>4 DEF ToJournal, Making, GraphInv
    <3>2. Creations(journal') = Creations(journal) \cup {n + 1}
      BY <2>1, <2>4 DEF Creations
    <3>3. \A i \in Creations(journal) : i \in 1..n /\ i <= n /\ journal'[i] = journal[i]
      BY <2>1 DEF Creations
    <3>4. Journaled' = Journaled \cup {call[t].id}
      BY <2>1, <3>2, <3>3 DEF Journaled, Creations
    <3>5. \A i \in Creations(journal) : journal[i].id # call[t].id
      BY <3>1, JournaledIds
    <3>6. \A i, j \in Creations(journal') : journal'[i].id = journal'[j].id => i = j
      BY <2>1, <3>2, <3>3, <3>5 DEF GraphInv
    <3>7. \A i \in Creations(journal') :
            journal'[i].id \in sched /\ deps[journal'[i].id] = journal'[i].deps
      BY <2>1, <2>2, <3>1, <3>2, <3>3 DEF GraphInv
    <3>8. AcyclicJournal(journal')
      BY <3>7, PartOfAcyclic DEF GraphInv
    <3>9. \A u \in Threads : ToJournal(u)' =>
            call'[u].id \notin Journaled' /\ deps'[call'[u].id] = call'[u].deps
      BY <1>1, <1>2, <3>1, <3>4 DEF GraphInv
    <3> QED
      BY <1>1, <1>2, <1>5, <3>6, <3>7, <3>8, <3>9 DEF GraphInv, RegisteredIsScheduled
  <2> QED
    BY <2>3, <2>4
<1> QED
  BY <1>3, <1>4 DEF JournalAppend, AppendFails

\* The steps after the journal add nothing to the graph.
LEMMA LateGraphInv ==
  ASSUME TInv, GraphInv, NEW t \in Threads,
         \/ Register(t) \/ Apply(t) \/ MarkFailed(t) \/ MarkComplete(t)
         \/ (\E id \in Ids : Visit(t, id)) \/ Promote(t) \/ ScanEnd(t)
         \/ Snapshot(t) \/ WriteCache(t)
  PROVE  GraphInv'
<1>1. /\ UNCHANGED <<phase, pos, journal, sched, deps>>
      /\ \A u \in Threads : u # t => pc'[u] = pc[u] /\ call'[u] = call[u]
      /\ pc'[t] \notin {"seq", "append", "register"}
  BY LateStep
<1>2. registry' \subseteq registry \cup sched
  <2>1. CASE Register(t)
    BY <2>1 DEF Register, Making, GraphInv, TInv, KindInv
  <2>2. CASE ~Register(t)
    BY <2>2 DEF Apply, MarkFailed, MarkComplete, Visit, Promote, ScanEnd, Snapshot, WriteCache,
                board
  <2> QED
    BY <2>1, <2>2
<1>3. \A u \in Threads : ToJournal(u)' =>
        ToJournal(u) /\ call'[u].id = call[u].id /\ call'[u].deps = call[u].deps
  BY <1>1 DEF ToJournal
<1>4. \A u \in Threads : Making(u)' => Making(u) /\ call'[u].id = call[u].id
  BY <1>1 DEF Making
<1> QED
  BY <1>1, <1>2, <1>3, <1>4, SameGraph

\* A step outside the calls that leaves the graph, or an empty one, behind.
LEMMA IdleGraphInv ==
  ASSUME TInv, GraphInv, journal' = journal, \A u \in Threads : pc'[u] = "idle",
         \/ UNCHANGED <<registry, sched, deps>> /\ phase' # "replay"
              /\ \A i \in Creations(journal) : i <= Reached' => i <= Reached
         \/ registry' = {} /\ sched' = {} /\ \A i \in Creations(journal) : ~(i <= Reached')
  PROVE  GraphInv'
<1>1. \A u \in Threads : ~ToJournal(u)' /\ ~Making(u)'
  BY DEF ToJournal, Making
<1>2. ~HasCycle(sched', deps')
  BY DEF GraphInv, HasCycle
<1> QED
  BY <1>1, <1>2 DEF GraphInv, RegisteredIsScheduled

\* A replayed task is not in the graph yet, and closes no circle in it.
LEMMA ReplayedCreation ==
  ASSUME TInv, GraphInv, ReplayTaskCreate
  PROVE  LET env == journal[pos + 1]
         IN /\ pos + 1 \in Creations(journal)
            /\ env.id \in Ids /\ env.id \notin sched
            /\ registry' = registry \cup {env.id}
            /\ sched' = sched \cup {env.id} /\ deps' = [deps EXCEPT ![env.id] = env.deps]
            /\ status' = [status EXCEPT ![env.id] = InitialStatus(env.deps, sched, status)]
            /\ ~HasCycle(sched', deps')
            /\ \A id \in sched' : \E i \in Creations(journal) :
                 i <= pos + 1 /\ journal[i].id = id /\ journal[i].deps = deps'[id]
<1> DEFINE env == journal[pos + 1]
           d == [deps EXCEPT ![env.id] = env.deps]
           R == sched \cup {env.id}
<1>1. /\ phase = "replay" /\ pos \in Nat /\ pos + 1 \in DOMAIN journal
      /\ env \in Envelope /\ env.kind = "task-create"
  BY DEF ReplayTaskCreate, TInv, TypeOK
<1>2. pos + 1 \in Creations(journal) /\ env.id \in Ids
  BY <1>1, EnvelopeFields DEF Creations
<1>3. \A i \in Creations(journal) : i <= pos => i # pos + 1 /\ i <= pos + 1
  BY <1>1 DEF Creations, TInv, TypeOK
<1>4. env.id \notin sched
  <2>1. ASSUME env.id \in sched PROVE FALSE
    <3>1. PICK i \in Creations(journal) : i <= pos /\ journal[i].id = env.id
      BY <1>1, <2>1 DEF GraphInv
    <3> QED
      BY <1>2, <1>3, <3>1 DEF GraphInv
  <2> QED
    BY <2>1
<1>5. d[env.id] = env.deps /\ \A x \in Ids : x # env.id => d[x] = deps[x]
  BY <1>2 DEF TInv, TypeOK
<1>6. \A id \in R : \E i \in Creations(journal) :
        i <= pos + 1 /\ journal[i].id = id /\ journal[i].deps = d[id]
  <2>1. ASSUME NEW id \in sched
        PROVE  \E i \in Creations(journal) :
                 i <= pos + 1 /\ journal[i].id = id /\ journal[i].deps = d[id]
    <3>1. PICK i \in Creations(journal) :
            i <= pos /\ journal[i].id = id /\ journal[i].deps = deps[id]
      BY <1>1 DEF GraphInv
    <3>2. d[id] = deps[id]
      BY <1>4, <1>5 DEF TInv, TypeOK
    <3> QED
      BY <1>3, <3>1, <3>2
  <2>2. pos + 1 <= pos + 1 /\ journal[pos + 1].id = env.id
    BY <1>1
  <2> QED
    BY <1>2, <1>5, <2>1, <2>2
<1>7. ~HasCycle(R, d)
  <2> HIDE DEF R, d
  <2> QED
    BY <1>6, ReadFromAcyclic DEF GraphInv
<1>8. /\ registry' = registry \cup {env.id} /\ sched' = R /\ deps' = d
      /\ status' = [status EXCEPT ![env.id] = InitialStatus(env.deps, sched, status)]
  BY <1>7 DEF ReplayTaskCreate
<1> QED
  BY <1>2, <1>4, <1>6, <1>7, <1>8

\* The replay reads on: the graph of the lines read so far grows by a task, or
\* by none.
LEMMA ReplayGraphInv ==
  ASSUME TInv, GraphInv, ReplayTeamCreate \/ ReplayTaskUpdate \/ ReplayTaskCreate
  PROVE  GraphInv'
<1> DEFINE env == journal[pos + 1]
<1>1. /\ UNCHANGED <<phase, journal, pc, call>> /\ phase = "replay" /\ Quiet
      /\ pos' = pos + 1 /\ pos \in Nat /\ pos + 1 \in DOMAIN journal
      /\ env \in Envelope
  BY DEF ReplayTeamCreate, ReplayTaskUpdate, ReplayTaskCreate, TInv, TypeOK, PhaseInv, disk, locals
<1>2. Reached = pos /\ Reached' = pos + 1
  BY <1>1 DEF Reached
<1>3. \A i \in Creations(journal) : i \in Nat /\ (i <= pos + 1 <=> i <= pos \/ i = pos + 1)
  BY <1>1 DEF Creations, TInv, TypeOK
<1>4. \A u \in Threads : ~ToJournal(u)' /\ ~Making(u)'
  BY <1>1 DEF ToJournal, Making, Quiet
<1>5. CASE ReplayTeamCreate \/ ReplayTaskUpdate
  <2>1. UNCHANGED <<registry, sched, deps>> /\ env.kind # "task-create"
    BY <1>5 DEF ReplayTeamCreate, ReplayTaskUpdate, board
  <2>2. pos + 1 \notin Creations(journal)
    BY <2>1 DEF Creations
  <2>3. \A i \in Creations(journal) : i <= pos + 1 <=> i <= pos
    BY <1>3, <2>2
  <2> QED
    BY <1>1, <1>2, <1>4, <2>1, <2>3 DEF GraphInv, RegisteredIsScheduled
<1>6. CASE ReplayTaskCreate
  <2>1. /\ pos + 1 \in Creations(journal)
        /\ env.id \in Ids /\ env.id \notin sched
        /\ registry' = registry \cup {env.id}
        /\ sched' = sched \cup {env.id} /\ deps' = [deps EXCEPT ![env.id] = env.deps]
        /\ ~HasCycle(sched', deps')
        /\ \A id \in sched' : \E i \in Creations(journal) :
             i <= pos + 1 /\ journal[i].id = id /\ journal[i].deps = deps'[id]
    BY <1>6, ReplayedCreation
  <2>2. deps'[env.id] = env.deps /\ \A x \in sched : deps'[x] = deps[x]
    BY <2>1 DEF TInv, TypeOK
  <2>3. \A i \in Creations(journal) : i <= pos + 1 =>
          journal[i].id \in sched' /\ deps'[journal[i].id] = journal[i].deps
    <3>1. \A i \in Creations(journal) : i <= pos =>
            journal[i].id \in sched /\ deps[journal[i].id] = journal[i].deps
      BY <1>2 DEF GraphInv
    <3> QED
      BY <1>3, <2>1, <2>2, <3>1
  <2>4. registry' \subseteq sched'
    BY <2>1 DEF GraphInv, RegisteredIsScheduled
  <2> QED
    BY <1>1, <1>2, <1>4, <2>1, <2>3, <2>4 DEF GraphInv, RegisteredIsScheduled
<1> QED
  BY <1>5, <1>6

\* Every step that names no id in use keeps the journal a part of the graph
\* that was checked.
LEMMA NextGraphInv ==
  ASSUME TInv, GraphInv, [Next]_vars, ~reused'
  PROVE  GraphInv'
<1>1. ASSUME NEW t \in Threads, Begin(t) PROVE GraphInv'
  <2>1. \A spec \in TaskSpecs : ~RejectCreate(t, spec)
    BY DEF RejectCreate
  <2> QED
    BY <1>1, <2>1, BeginCreateGraphInv, BeginUpdateGraphInv DEF Begin
<1>2. ASSUME NEW t \in Threads, Step(t) PROVE GraphInv'
  BY <1>2, CreateSeqGraphInv, AppendGraphInv, LateGraphInv DEF Step
<1>3. CASE Crash \/ RebuildDies
  <2>1. /\ phase' = "down" /\ journal' = journal /\ \A u \in Threads : pc'[u] = "idle"
        /\ registry' = {} /\ sched' = {}
    BY <1>3 DEF Crash, RebuildDies, disk, locals, TInv, PhaseInv, Quiet
  <2>2. Reached' = 0 /\ \A i \in Creations(journal) : ~(i <= 0)
    BY <2>1 DEF Reached, Creations, TInv, TypeOK
  <2> QED
    BY <2>1, <2>2, IdleGraphInv
<1>4. CASE LoseCache \/ Open
  <2>1. /\ journal' = journal /\ \A u \in Threads : pc'[u] = "idle"
        /\ registry' = registry /\ sched' = sched /\ registry = {} /\ sched = {}
        /\ phase' \in {"down", "replay"} /\ pos' = 0
    BY <1>4 DEF LoseCache, Open, disk, board, locals, TInv, PhaseInv, Quiet
  <2>2. Reached' = 0 /\ \A i \in Creations(journal) : ~(i <= 0)
    BY <2>1 DEF Reached, Creations, TInv, TypeOK
  <2> QED
    BY <2>1, <2>2, IdleGraphInv
<1>5. CASE ReplayEnds \/ KeepCache \/ RebuildCache
  <2>1. /\ journal' = journal /\ \A u \in Threads : pc'[u] = "idle"
        /\ UNCHANGED <<registry, sched, deps>> /\ phase' # "replay"
    BY <1>5 DEF ReplayEnds, Replayed, KeepCache, RebuildCache, disk, board, locals, TInv, PhaseInv,
                Quiet
  <2>2. Reached' = Reached
    BY <1>5 DEF ReplayEnds, Replayed, KeepCache, RebuildCache, disk, Reached, TInv, PhaseInv
  <2> QED
    BY <2>1, <2>2, IdleGraphInv
<1>6. CASE UNCHANGED vars
  BY <1>6 DEF vars, disk, board, locals, GraphInv, RegisteredIsScheduled, Journaled, Reached,
              ToJournal, Making
<1> QED
  BY <1>1, <1>2, <1>3, <1>4, <1>5, <1>6, ReplayGraphInv DEF Next, Reopen

\* An id once named twice stays so.
LEMMA ReusedStays ==
  ASSUME TInv, [Next]_vars, reused
  PROVE  reused'
<1>1. ASSUME NEW t \in Threads, Begin(t) PROVE reused'
  <2>1. ASSUME NEW spec \in TaskSpecs, BeginCreate(t, spec) PROVE reused'
    BY <2>1 DEF BeginCreate
  <2>2. ASSUME NEW spec \in TaskSpecs, RejectCreate(t, spec) PROVE reused'
    BY <2>2 DEF RejectCreate
  <2>3. ASSUME NEW id \in Ids, NEW st \in Reports, BeginUpdate(t, id, st) PROVE reused'
    BY <2>3 DEF BeginUpdate
  <2> QED
    BY <1>1, <2>1, <2>2, <2>3 DEF Begin
<1>2. ASSUME NEW t \in Threads, Step(t) PROVE reused'
  BY <1>2 DEF Step, CreateSeq, JournalAppend, AppendFails, Register, Apply, MarkFailed,
              MarkComplete, Visit, Promote, ScanEnd, Snapshot, WriteCache, history
<1>3. CASE Crash \/ LoseCache
  BY <1>3 DEF Crash, LoseCache, history
<1>4. CASE Reopen
  BY <1>4 DEF Reopen, Open, ReplayTeamCreate, ReplayTaskCreate, ReplayTaskUpdate, ReplayEnds,
              KeepCache, RebuildCache, RebuildDies, history
<1>5. CASE UNCHANGED vars
  BY <1>5 DEF vars, history
<1> QED
  BY <1>1, <1>2, <1>3, <1>4, <1>5 DEF Next

\* The board in memory and the graph in the journal agree in every state of a
\* team whose callers name no id in use.
THEOREM GraphHolds == Spec => [](TInv /\ NumberInv /\ FreshGraph)
<1>1. Init => TInv /\ NumberInv /\ FreshGraph
  BY InitTInv, InitNumberInv, InitGraphInv DEF FreshGraph
<1>2. TInv /\ NumberInv /\ FreshGraph /\ [Next]_vars => (TInv /\ NumberInv /\ FreshGraph)'
  BY NextTypes, NextGraphInv, ReusedStays DEF FreshGraph
<1> QED
  BY <1>1, <1>2, PTL DEF Spec

\* Every registered task is known to the scheduler, in particular after any
\* replay, unless a caller named an id that was in use: until then the
\* journal of a team never makes AddTask refuse a task.
THEOREM RegisteredIsScheduledHolds == Spec => []RegisteredIsScheduledUnlessReused
<1>1. TInv /\ NumberInv /\ FreshGraph => RegisteredIsScheduledUnlessReused
  BY DEF FreshGraph, GraphInv, RegisteredIsScheduledUnlessReused
<1> QED
  BY <1>1, GraphHolds, PTL

-----------------------------------------------------------------------------
(* Wakeups.                                                                *)

\* The thread is about to start, or to visit, the task.
OnItsWay(t, id) ==
  \/ pc[t] = "mark" /\ call[t].status = "completed" /\ call[t].id \in Named(deps[id])
  \/ pc[t] = "scan" /\ id \in left[t]
  \/ pc[t] = "promote" /\ (hit[t] = id \/ id \in left[t])

\* A wakeup is pending when a thread is on its way to the task.
LEMMA PendingIsOnItsWay ==
  ASSUME NEW id
  PROVE  WakeupPending(id) <=> \E t \in Threads : OnItsWay(t, id)
  BY DEF WakeupPending, OnItsWay

\* Fewer complete and fewer blocked tasks leave fewer that can start.
LEMMA StartableShrinks ==
  ASSUME NEW R, NEW d, NEW st, NEW st1, NEW id,
         \A x \in R : /\ st1[x] = "completed" => st[x] = "completed"
                      /\ st1[x] = "blocked" => st[x] = "blocked",
         Startable(id, R, d, st1)
  PROVE  Startable(id, R, d, st)
  BY DEF Startable, AllDepsComplete

\* The status AddTask computes leaves the new task not startable, and nobody
\* else waited for it alone.
LEMMA AddedNotStartable ==
  ASSUME NEW R \in SUBSET Ids, NEW d \in [Ids -> Seq(Ids)], NEW st \in Lists,
         NEW id \in Ids, NEW list,
         NEW x, Startable(x, R \cup {id}, [d EXCEPT ![id] = list],
                          [st EXCEPT ![id] = InitialStatus(list, R, st)])
  PROVE  x \in R /\ x # id /\ Startable(x, R, d, st)
<1> DEFINE d1  == [d EXCEPT ![id] = list]
           st1 == [st EXCEPT ![id] = InitialStatus(list, R, st)]
<1>0. Startable(x, R \cup {id}, d1, st1)
  OBVIOUS
<1>1. /\ d1[id] = list /\ st1[id] = InitialStatus(list, R, st)
      /\ \A y \in R : y # id => d1[y] = d[y] /\ st1[y] = st[y]
  BY DEF Lists
<1> HIDE DEF d1, st1
<1>2. st1[id] # "completed"
  BY <1>1, Statuses
<1>3. \A dep \in Named(d1[x]) : dep \in R /\ st[dep] = "completed"
  BY <1>0, <1>1, <1>2 DEF Startable, AllDepsComplete
<1>4. x # id
  BY <1>0, <1>1, <1>3 DEF Startable, InitialStatus, AllDepsComplete
<1> QED
  BY <1>0, <1>1, <1>3, <1>4 DEF Startable, AllDepsComplete

\* A task that AddTask refuses is gone, and nobody who waited for it can
\* start.
LEMMA RemovedNotStartable ==
  ASSUME NEW R \in SUBSET Ids, NEW d \in [Ids -> Seq(Ids)], NEW id \in Ids,
         NEW st, NEW st1, \A y \in R : y # id => st1[y] = st[y],
         NEW x, Startable(x, R \ {id}, [d EXCEPT ![id] = <<>>], st1)
  PROVE  x \in R /\ x # id /\ Startable(x, R, d, st)
<1> DEFINE d1 == [d EXCEPT ![id] = <<>>]
<1>0. Startable(x, R \ {id}, d1, st1)
  OBVIOUS
<1>1. \A y \in R : y # id => d1[y] = d[y]
  OBVIOUS
<1> HIDE DEF d1
<1> QED
  BY <1>0, <1>1 DEF Startable, AllDepsComplete

\* A step of a thread that is on its way to nobody, which makes no task
\* startable.
LEMMA QuietWake ==
  ASSUME NoLostWakeup, NEW t \in Threads, \A id \in sched : ~OnItsWay(t, id),
         \A u \in Threads : u # t =>
           pc'[u] = pc[u] /\ call'[u] = call[u] /\ left'[u] = left[u] /\ hit'[u] = hit[u],
         UNCHANGED <<sched, deps>>,
         \A x \in sched : /\ status'[x] = "completed" => status[x] = "completed"
                          /\ status'[x] = "blocked" => status[x] = "blocked"
  PROVE  NoLostWakeup'
<1> SUFFICES ASSUME NEW id \in sched, Startable(id, sched, deps, status')
             PROVE  WakeupPending(id)'
  BY DEF NoLostWakeup
<1>1. Startable(id, sched, deps, status)
  BY StartableShrinks
<1>2. PICK u \in Threads : OnItsWay(u, id)
  BY <1>1, PendingIsOnItsWay DEF NoLostWakeup
<1>3. OnItsWay(u, id)'
  BY <1>2 DEF OnItsWay
<1> QED
  BY <1>3 DEF OnItsWay, WakeupPending

\* A creation blocks its task only behind dependencies that are not
\* complete.
LEMMA BeginCreateWake ==
  ASSUME TInv, NoLostWakeup, NEW t \in Threads, NEW spec \in TaskSpecs, BeginCreate(t, spec)
  PROVE  NoLostWakeup'
<1> DEFINE id == spec.id
<1>1. /\ id \in Ids /\ pc[t] = "idle"
      /\ sched' = sched \cup {id} /\ deps' = [deps EXCEPT ![id] = spec.deps]
      /\ status' = [status EXCEPT ![id] = InitialStatus(spec.deps, sched, status)]
      /\ UNCHANGED <<left, hit>>
      /\ \A u \in Threads : u # t => pc'[u] = pc[u] /\ call'[u] = call[u]
  BY AddedTask
<1> SUFFICES ASSUME NEW x \in sched', Startable(x, sched', deps', status')
             PROVE  WakeupPending(x)'
  BY DEF NoLostWakeup
<1>2. x \in sched /\ x # id /\ Startable(x, sched, deps, status)
  <2>1. sched \in SUBSET Ids /\ deps \in [Ids -> Seq(Ids)] /\ status \in Lists
    BY DEF TInv, TypeOK
  <2>2. Startable(x, sched \cup {id}, [deps EXCEPT ![id] = spec.deps],
                  [status EXCEPT ![id] = InitialStatus(spec.deps, sched, status)])
    BY <1>1
  <2> QED
    BY <1>1, <2>1, <2>2, AddedNotStartable
<1>3. PICK u \in Threads : OnItsWay(u, x)
  BY <1>2, PendingIsOnItsWay DEF NoLostWakeup
<1>4. u # t /\ deps'[x] = deps[x]
  BY <1>1, <1>2, <1>3 DEF OnItsWay, TInv, TypeOK
<1>5. OnItsWay(u, x)'
  BY <1>1, <1>3, <1>4 DEF OnItsWay
<1> QED
  BY <1>5 DEF OnItsWay, WakeupPending

\* A creation that is refused takes one task away.
LEMMA RejectCreateWake ==
  ASSUME TInv, NoLostWakeup, NEW t \in Threads, NEW spec \in TaskSpecs, RejectCreate(t, spec)
  PROVE  NoLostWakeup'
<1> DEFINE id == spec.id
<1>1. /\ id \in Ids /\ sched \in SUBSET Ids /\ deps \in [Ids -> Seq(Ids)]
      /\ sched' = sched \ {id} /\ deps' = [deps EXCEPT ![id] = <<>>]
      /\ UNCHANGED <<status, pc, call, left, hit>>
  BY CreateEnvelope DEF RejectCreate, locals, TInv, TypeOK
<1> SUFFICES ASSUME NEW x \in sched', Startable(x, sched', deps', status')
             PROVE  WakeupPending(x)'
  BY DEF NoLostWakeup
<1>2. Startable(x, sched \ {id}, [deps EXCEPT ![id] = <<>>], status)
  BY <1>1
<1>3. x \in sched /\ x # id /\ Startable(x, sched, deps, status)
  BY <1>1, <1>2, RemovedNotStartable
<1>4. deps'[x] = deps[x]
  BY <1>1, <1>3
<1>5. PICK u \in Threads : OnItsWay(u, x)
  BY <1>3, PendingIsOnItsWay DEF NoLostWakeup
<1>6. OnItsWay(u, x)'
  BY <1>1, <1>4, <1>5 DEF OnItsWay
<1> QED
  BY <1>6 DEF OnItsWay, WakeupPending

\* Steps that write no status leave all wakeups as they are.
LEMMA QuietStepsWake ==
  ASSUME TInv, NoLostWakeup, NEW t \in Threads,
         \/ \E id \in Ids, st \in Reports : BeginUpdate(t, id, st)
         \/ CreateSeq(t) \/ JournalAppend(t) \/ AppendFails(t) \/ Register(t)
         \/ Snapshot(t) \/ WriteCache(t)
  PROVE  NoLostWakeup'
<1>1. /\ pc[t] \in {"idle", "seq", "append", "register", "snapshot", "write"}
      /\ UNCHANGED <<sched, deps, status, left, hit>>
      /\ \A u \in Threads : u # t => pc'[u] = pc[u] /\ call'[u] = call[u]
  <2> USE DEF TInv, TypeOK, board
  <2>1. CASE \E id \in Ids, st \in Reports : BeginUpdate(t, id, st)
    BY <2>1 DEF BeginUpdate
  <2>2. CASE CreateSeq(t) \/ JournalAppend(t)
    BY <2>2 DEF CreateSeq, JournalAppend
  <2>3. CASE AppendFails(t) \/ Register(t)
    BY <2>3 DEF AppendFails, Register
  <2>4. CASE Snapshot(t) \/ WriteCache(t)
    BY <2>4 DEF Snapshot, WriteCache
  <2> QED
    BY <2>1, <2>2, <2>3, <2>4
<1>2. \A id \in sched : ~OnItsWay(t, id)
  BY <1>1 DEF OnItsWay
<1> QED
  BY <1>1, <1>2, QuietWake

\* A report for an older Task changes no status of the newest.
LEMMA ApplyOlderWake ==
  ASSUME TInv, NoLostWakeup, NEW t \in Threads, Apply(t), shown[call[t].id] # "newest"
  PROVE  NoLostWakeup'
<1>1. /\ pc[t] = "apply" /\ UNCHANGED <<sched, deps, status, call, left, hit>>
      /\ \A u \in Threads : u # t => pc'[u] = pc[u]
  BY DEF Apply, TInv, TypeOK
<1>2. \A id \in sched : ~OnItsWay(t, id)
  BY <1>1 DEF OnItsWay
<1> QED
  BY <1>1, <1>2, QuietWake

\* A task that the report makes startable waited for the reported one, and the
\* thread goes on to MarkComplete.
LEMMA ApplyWake ==
  ASSUME TInv, NoLostWakeup, NEW t \in Threads, Apply(t), shown[call[t].id] = "newest"
  PROVE  NoLostWakeup'
<1> DEFINE c == call[t].id
<1>1. /\ c \in Ids /\ call[t].status \in Reports
  <2>1. call[t] \in Envelope /\ call[t].kind = "task-update"
    BY DEF Apply, TInv, TypeOK, KindInv
  <2> QED
    BY <2>1, EnvelopeFields
<1>2. /\ pc[t] = "apply"
      /\ pc'[t] = IF call[t].status = "running" THEN "snapshot" ELSE "mark"
      /\ status' = [status EXCEPT ![c] = call[t].status]
      /\ UNCHANGED <<sched, deps, call, left, hit>>
      /\ \A u \in Threads : u # t => pc'[u] = pc[u]
  BY DEF Apply, TInv, TypeOK
<1>3. /\ \A x \in Ids : x # c => status'[x] = status[x]
      /\ status'[c] = call[t].status /\ call[t].status # "blocked"
  BY <1>1, <1>2, Statuses DEF TInv, TypeOK, Lists
<1>4. \A id \in sched : ~OnItsWay(t, id)
  BY <1>2 DEF OnItsWay
<1>5. CASE call[t].status # "completed"
  <2>1. \A x \in sched : /\ status'[x] = "completed" => status[x] = "completed"
                         /\ status'[x] = "blocked" => status[x] = "blocked"
    BY <1>3, <1>5 DEF TInv, TypeOK
  <2> QED
    BY <1>2, <1>4, <2>1, QuietWake
<1>6. CASE call[t].status = "completed"
  <2> SUFFICES ASSUME NEW id \in sched, Startable(id, sched, deps, status')
               PROVE  WakeupPending(id)'
    BY <1>2 DEF NoLostWakeup
  <2>1. CASE c \in Named(deps[id])
    BY <1>2, <1>6, <2>1 DEF WakeupPending
  <2>2. CASE c \notin Named(deps[id])
    <3>0. sched \subseteq Ids
      BY DEF TInv, TypeOK
    <3>1. Startable(id, sched, deps, status)
      BY <1>3, <2>2, <3>0 DEF Startable, AllDepsComplete
    <3>2. PICK u \in Threads : OnItsWay(u, id)
      BY <3>1, PendingIsOnItsWay DEF NoLostWakeup
    <3>3. OnItsWay(u, id)'
      BY <1>2, <1>4, <3>2 DEF OnItsWay
    <3> QED
      BY <3>3 DEF OnItsWay, WakeupPending
  <2> QED
    BY <2>1, <2>2
<1> QED
  BY <1>5, <1>6

\* MarkFailed completes nothing; MarkComplete is on its way to every task of
\* the scheduler.
LEMMA MarkWake ==
  ASSUME TInv, NoLostWakeup, NEW t \in Threads, MarkFailed(t) \/ MarkComplete(t)
  PROVE  NoLostWakeup'
<1>1. CASE MarkFailed(t)
  <2>1. /\ pc[t] = "mark" /\ call[t].status = "failed"
        /\ UNCHANGED <<sched, deps, call, left, hit>>
        /\ \A u \in Threads : u # t => pc'[u] = pc[u]
        /\ \A x \in Ids : status'[x] \in {status[x], "failed"}
    BY <1>1 DEF MarkFailed, TInv, TypeOK, Lists
  <2>2. \A id \in sched : ~OnItsWay(t, id)
    BY <2>1 DEF OnItsWay
  <2>3. \A x \in sched : /\ status'[x] = "completed" => status[x] = "completed"
                         /\ status'[x] = "blocked" => status[x] = "blocked"
    BY <2>1 DEF TInv, TypeOK
  <2> QED
    BY <2>1, <2>2, <2>3, QuietWake
<1>2. CASE MarkComplete(t)
  <2>1. pc'[t] = "scan" /\ left'[t] = sched /\ sched' = sched
    BY <1>2 DEF MarkComplete, TInv, TypeOK
  <2> QED
    BY <2>1 DEF NoLostWakeup, WakeupPending
<1> QED
  BY <1>1, <1>2

\* A scan passes a task only when it cannot start, and promotes the one it
\* found.
LEMMA ScanWake ==
  ASSUME TInv, NoLostWakeup, NEW t \in Threads,
         (\E id \in Ids : Visit(t, id)) \/ Promote(t) \/ ScanEnd(t)
  PROVE  NoLostWakeup'
<1>1. ASSUME NEW id \in Ids, Visit(t, id)
      PROVE  NoLostWakeup'
  <2>1. /\ UNCHANGED <<sched, deps, status, call>>
        /\ \A u \in Threads : u # t => pc'[u] = pc[u] /\ left'[u] = left[u] /\ hit'[u] = hit[u]
        /\ pc[t] = "scan" /\ left'[t] = left[t] \ {id} /\ pc'[t] \in {"scan", "promote"}
        /\ Startable(id, sched, deps, status) => hit'[t] = id /\ pc'[t] = "promote"
    BY <1>1 DEF Visit, board, TInv, TypeOK
  <2> SUFFICES ASSUME NEW x \in sched, Startable(x, sched, deps, status)
               PROVE  WakeupPending(x)'
    BY <2>1 DEF NoLostWakeup
  <2>2. PICK u \in Threads : OnItsWay(u, x)
    BY PendingIsOnItsWay DEF NoLostWakeup
  <2>3. OnItsWay(u, x)'
    BY <2>1, <2>2 DEF OnItsWay
  <2> QED
    BY <2>3 DEF OnItsWay, WakeupPending
<1>2. CASE Promote(t)
  <2>1. /\ UNCHANGED <<sched, deps, call, left>>
        /\ \A u \in Threads : u # t => pc'[u] = pc[u] /\ hit'[u] = hit[u]
        /\ pc[t] = "promote" /\ pc'[t] = "scan" /\ hit[t] \in Ids
        /\ status' = [status EXCEPT ![hit[t]] = "running"]
    BY <1>2 DEF Promote, TInv, TypeOK, KindInv
  <2>2. status'[hit[t]] = "running" /\ \A x \in Ids : x # hit[t] => status'[x] = status[x]
    BY <2>1 DEF TInv, TypeOK, Lists
  <2> SUFFICES ASSUME NEW x \in sched, Startable(x, sched, deps, status')
               PROVE  WakeupPending(x)'
    BY <2>1 DEF NoLostWakeup
  <2>3. x # hit[t]
    BY <2>2 DEF Startable
  <2>4. Startable(x, sched, deps, status)
    <3>1. \A y \in sched : /\ status'[y] = "completed" => status[y] = "completed"
                           /\ status'[y] = "blocked" => status[y] = "blocked"
      BY <2>2 DEF TInv, TypeOK
    <3> QED
      BY <3>1, StartableShrinks
  <2>5. PICK u \in Threads : OnItsWay(u, x)
    BY <2>4, PendingIsOnItsWay DEF NoLostWakeup
  <2>6. OnItsWay(u, x)'
    BY <2>1, <2>3, <2>5 DEF OnItsWay
  <2> QED
    BY <2>6 DEF OnItsWay, WakeupPending
<1>3. CASE ScanEnd(t)
  <2>1. /\ UNCHANGED <<sched, deps, status, call, left, hit>>
        /\ \A u \in Threads : u # t => pc'[u] = pc[u]
        /\ pc[t] = "scan" /\ left[t] = {}
    BY <1>3 DEF ScanEnd, board, TInv, TypeOK
  <2>2. \A id \in sched : ~OnItsWay(t, id)
    BY <2>1 DEF OnItsWay
  <2> QED
    BY <2>1, <2>2, QuietWake
<1> QED
  BY <1>1, <1>2, <1>3

\* During a replay nobody is on its way, and nothing is startable.
LEMMA ReplayWake ==
  ASSUME TInv, NoLostWakeup, ReplayTaskCreate \/ ReplayTaskUpdate
  PROVE  NoLostWakeup'
<1> DEFINE env == journal[pos + 1]
<1>1. \A id \in sched : ~Startable(id, sched, deps, status)
  <2>1. \A t \in Threads : pc[t] = "idle"
    BY DEF TInv, PhaseInv, Quiet, ReplayTaskCreate, ReplayTaskUpdate
  <2> QED
    BY <2>1 DEF NoLostWakeup, WakeupPending
<1>2. CASE ReplayTaskCreate
  <2> DEFINE cyclic == HasCycle(sched \cup {env.id}, [deps EXCEPT ![env.id] = env.deps])
  <2>1. /\ env.id \in Ids
        /\ sched \in SUBSET Ids /\ deps \in [Ids -> Seq(Ids)] /\ status \in Lists
    <3>1. env \in Envelope /\ env.kind = "task-create"
      BY <1>2 DEF ReplayTaskCreate, TInv, TypeOK
    <3> QED
      BY <3>1, EnvelopeFields DEF TInv, TypeOK
  <2>2. ~cyclic => /\ sched' = sched \cup {env.id} /\ deps' = [deps EXCEPT ![env.id] = env.deps]
                   /\ status' = [status EXCEPT ![env.id] =
                                   InitialStatus(env.deps, sched, status)]
    BY <1>2 DEF ReplayTaskCreate
  <2>3. cyclic => /\ sched' = sched \ {env.id} /\ deps' = [deps EXCEPT ![env.id] = <<>>]
                  /\ status' = [status EXCEPT ![env.id] = "pending"]
    BY <1>2 DEF ReplayTaskCreate
  <2> HIDE DEF cyclic
  <2> SUFFICES ASSUME NEW x, Startable(x, sched', deps', status')
               PROVE  FALSE
    BY DEF NoLostWakeup
  <2>4. CASE ~cyclic
    <3>1. Startable(x, sched \cup {env.id}, [deps EXCEPT ![env.id] = env.deps],
                    [status EXCEPT ![env.id] = InitialStatus(env.deps, sched, status)])
      BY <2>2, <2>4
    <3>2. x \in sched /\ Startable(x, sched, deps, status)
      BY <2>1, <3>1, AddedNotStartable
    <3> QED
      BY <1>1, <3>2
  <2>5. CASE cyclic
    <3>1. Startable(x, sched \ {env.id}, [deps EXCEPT ![env.id] = <<>>], status')
      BY <2>3, <2>5
    <3>2. \A y \in sched : y # env.id => status'[y] = status[y]
      BY <2>1, <2>3, <2>5 DEF Lists
    <3>3. x \in sched /\ Startable(x, sched, deps, status)
      BY <2>1, <3>1, <3>2, RemovedNotStartable
    <3> QED
      BY <1>1, <3>3
  <2> QED
    BY <2>4, <2>5
<1>3. CASE ReplayTaskUpdate
  <2> DEFINE st == [status EXCEPT ![env.id] = env.status]
  <2>1. /\ UNCHANGED <<sched, deps>>
        /\ status' = IF env.id \notin registry THEN status
                     ELSE IF env.status = "completed" THEN Unblock(sched, deps, st)
                     ELSE st
        /\ env \in Envelope /\ env.kind = "task-update" /\ sched \subseteq Ids
    BY <1>3 DEF ReplayTaskUpdate, TInv, TypeOK
  <2>2. env.id \in Ids /\ env.status \in Reports
    BY <2>1, EnvelopeFields
  <2>3. /\ st \in Lists /\ st[env.id] = env.status /\ env.status # "blocked"
        /\ \A x \in Ids : x # env.id => st[x] = status[x]
    BY <2>2, Statuses DEF TInv, TypeOK, Lists
  <2> HIDE DEF st
  <2> SUFFICES ASSUME NEW id \in sched, Startable(id, sched, deps, status')
               PROVE  FALSE
    BY <2>1 DEF NoLostWakeup
  <2>4. CASE status' = status
    BY <1>1, <2>4
  <2>5. CASE status' = st /\ env.status # "completed"
    <3>1. \A x \in sched : /\ status'[x] = "completed" => status[x] = "completed"
                           /\ status'[x] = "blocked" => status[x] = "blocked"
      BY <2>1, <2>3, <2>5
    <3> QED
      BY <1>1, <3>1, StartableShrinks
  <2>6. CASE status' = Unblock(sched, deps, st)
    <3>1. \A x \in sched : /\ Startable(x, sched, deps, st) => status'[x] = "running"
                           /\ ~Startable(x, sched, deps, st) => status'[x] = st[x]
      BY <2>1, <2>3, <2>6, UnblockResult
    <3>2. \A x \in sched : /\ status'[x] = "completed" => st[x] = "completed"
                           /\ status'[x] = "blocked" => st[x] = "blocked"
      BY <3>1
    <3>3. Startable(id, sched, deps, st)
      BY <3>2, StartableShrinks
    <3> QED
      BY <3>1, <3>3 DEF Startable
  <2> QED
    BY <2>1, <2>4, <2>5, <2>6
<1> QED
  BY <1>2, <1>3

\* Every step keeps a thread on its way to each task that can start.
LEMMA NextWake ==
  ASSUME TInv, NoLostWakeup, [Next]_vars
  PROVE  NoLostWakeup'
<1>1. ASSUME NEW t \in Threads, Begin(t) PROVE NoLostWakeup'
  BY <1>1, BeginCreateWake, RejectCreateWake, QuietStepsWake DEF Begin
<1>2. ASSUME NEW t \in Threads, Step(t) PROVE NoLostWakeup'
  BY <1>2, QuietStepsWake, ApplyWake, ApplyOlderWake, MarkWake, ScanWake DEF Step
<1>3. CASE Crash \/ RebuildDies
  BY <1>3 DEF Crash, RebuildDies, NoLostWakeup
<1>4. CASE ReplayTaskCreate \/ ReplayTaskUpdate
  BY <1>4, ReplayWake
<1>5. CASE \/ LoseCache \/ Open \/ ReplayTeamCreate \/ ReplayEnds \/ KeepCache \/ RebuildCache
           \/ UNCHANGED vars
  <2>1. UNCHANGED <<sched, deps, status, pc, call, left, hit>>
    BY <1>5 DEF LoseCache, Open, ReplayTeamCreate, ReplayEnds, KeepCache, RebuildCache, vars,
                board, locals
  <2> QED
    BY <2>1 DEF NoLostWakeup, WakeupPending
<1> QED
  BY <1>1, <1>2, <1>3, <1>4, <1>5 DEF Next, Reopen

\* A blocked task that could start always has a thread on its way to it, for
\* any number of threads, however their status writes, scans and creations
\* interleave, whatever ids the creations name, and after any replay.
THEOREM NoLostWakeupHolds == Spec => []NoLostWakeup
<1>1. Init => NoLostWakeup
  BY DEF Init, NoLostWakeup
<1>2. TInv /\ NumberInv /\ NoLostWakeup /\ [Next]_vars => NoLostWakeup'
  BY NextWake
<1> QED
  BY <1>1, <1>2, Numbered, PTL DEF Spec

-----------------------------------------------------------------------------
(* The journal is written first.                                           *)

\* What a journal holds, it holds with a line more.
LEMMA BacksGrows ==
  ASSUME NEW j \in Seq(Envelope), NEW e \in Envelope
  PROVE  /\ Created(j) \subseteq Created(Append(j, e))
         /\ \A id, st : HasReport(j, id, st) => HasReport(Append(j, e), id, st)
         /\ \A list : Backs(j, list) => Backs(Append(j, e), list)
         /\ e.kind = "task-create" => e.id \in Created(Append(j, e))
         /\ e.kind = "task-update" => HasReport(Append(j, e), e.id, e.status)
<1> DEFINE k == Append(j, e)
<1>1. /\ DOMAIN j \subseteq DOMAIN k
      /\ \A i \in DOMAIN j : k[i] = j[i]
      /\ Len(j) + 1 \in DOMAIN k /\ k[Len(j) + 1] = e
  OBVIOUS
<1> HIDE DEF k
<1>2. Created(j) \subseteq Created(k)
  BY <1>1 DEF Created, Creations
<1>3. ASSUME NEW id, NEW st, HasReport(j, id, st) PROVE HasReport(k, id, st)
  BY <1>1, <1>3 DEF HasReport
<1>4. ASSUME NEW list, Backs(j, list) PROVE Backs(k, list)
  BY <1>2, <1>3, <1>4 DEF Backs
<1>5. e.kind = "task-create" => e.id \in Created(k)
  BY <1>1 DEF Created, Creations
<1>6. e.kind = "task-update" => HasReport(k, e.id, e.status)
  BY <1>1 DEF HasReport
<1> QED
  BY <1>2, <1>3, <1>4, <1>5, <1>6 DEF k

\* Any journal holds an empty list.
LEMMA NothingBacked ==
  ASSUME NEW j
  PROVE  Backs(j, NoTasks)
  BY DEF Backs, NoTasks, Ended

\* The journal holds what TaskList shows.
LEMMA TaskListBacked ==
  ASSUME StatusInv
  PROVE  Backs(journal, TaskList)
  BY DEF StatusInv, Backs, TaskList, Shown, Ended

\* A new team shows no status.
LEMMA InitStatusInv == Init => StatusInv
<1> SUFFICES ASSUME Init PROVE StatusInv
  OBVIOUS
<1>1. /\ cache.tasks = NoTasks /\ \A t \in Threads : copy[t] = NoTasks /\ pc[t] = "idle"
      /\ registry = {} /\ status = NoTasks
      /\ \A id \in Ids : shown[id] = "newest"
  BY DEF Init, AllNewest
<1> QED
  BY <1>1, NothingBacked DEF StatusInv, NoTasks, Ended, Making

\* A creation makes an older Task of one whose report is journaled.
LEMMA CreateStatusInv ==
  ASSUME TInv, StatusInv, NEW t \in Threads, NEW spec \in TaskSpecs, BeginCreate(t, spec)
  PROVE  StatusInv'
<1> DEFINE id == spec.id
<1>1. /\ id \in Ids /\ pc[t] = "idle" /\ pc'[t] = "seq"
      /\ \A u \in Threads : u # t => pc'[u] = pc[u] /\ call'[u] = call[u]
      /\ UNCHANGED <<journal, cache, copy, registry>>
  BY AddedTask DEF disk
<1>2. /\ status'[id] \notin Ended
      /\ \A x \in Ids : x # id => status'[x] = status[x]
  BY AddedTask DEF Ended
<1>3. /\ shown' = [shown EXCEPT ![id] = IF id \in registry THEN Shown(id) ELSE shown[id]]
      /\ made' = [u \in Threads |-> IF Making(u) /\ call[u].id = id /\ made[u] = "newest"
                                    THEN status[id] ELSE made[u]]
  BY AddedTask DEF Supersede
<1>4. \A x \in Ids : status'[x] \in Ended => HasReport(journal, x, status'[x])
  BY <1>2 DEF StatusInv
<1>5. \A x \in Ids : shown'[x] \in Ended => HasReport(journal, x, shown'[x])
  <2>1. \A x \in Ids : shown'[x] \in {shown[x], status[x]}
    BY <1>1, <1>3 DEF Shown, TInv, TypeOK
  <2> QED
    BY <2>1 DEF StatusInv
<1>6. \A u \in Threads : Making(u)' /\ made'[u] \in Ended =>
        HasReport(journal, call'[u].id, made'[u])
  <2>1. \A u \in Threads : u # t => (Making(u)' <=> Making(u)) /\ call'[u] = call[u]
    BY <1>1 DEF Making
  <2>2. made'[t] \notin Ended
    <3>1. ~Making(t) /\ made[t] = "newest"
      BY <1>1 DEF Making, TInv, MadeInv
    <3> QED
      BY <1>3, <3>1 DEF Ended
  <2>3. \A u \in Threads : \/ made'[u] = made[u]
                           \/ Making(u) /\ call[u].id = id /\ made'[u] = status[id]
    BY <1>3
  <2> QED
    BY <1>1, <2>1, <2>2, <2>3 DEF StatusInv
<1>7. \A u \in Threads : /\ Backs(journal, copy'[u])
                         /\ pc'[u] = "register" => call'[u].id \in Created(journal)
                         /\ pc'[u] \in {"apply", "mark"} =>
                             HasReport(journal, call'[u].id, call'[u].status)
  BY <1>1 DEF StatusInv
<1> QED
  BY <1>1, <1>4, <1>5, <1>6, <1>7 DEF StatusInv

\* A creation that is refused and an update that begins write no status.
LEMMA BeginStatusInv ==
  ASSUME TInv, StatusInv, NEW t \in Threads,
         \/ \E spec \in TaskSpecs : RejectCreate(t, spec)
         \/ \E id \in Ids, st \in Reports : BeginUpdate(t, id, st)
  PROVE  StatusInv'
<1>1. /\ UNCHANGED <<journal, cache, copy, registry, status, shown, made>>
      /\ \A u \in Threads : u # t => pc'[u] = pc[u] /\ call'[u] = call[u]
      /\ pc[t] = "idle" /\ pc'[t] \in {"idle", "append"}
  BY DEF RejectCreate, BeginUpdate, disk, board, older, locals, TInv, TypeOK
<1>2. made[t] = "newest"
  BY <1>1 DEF Making, TInv, MadeInv
<1>3. \A u \in Threads : Making(u)' /\ made'[u] \in Ended =>
        HasReport(journal, call'[u].id, made'[u])
  <2>1. \A u \in Threads : u # t => (Making(u)' <=> Making(u))
    BY <1>1 DEF Making
  <2> QED
    BY <1>1, <1>2, <2>1 DEF StatusInv, Ended
<1>4. \A u \in Threads : /\ pc'[u] = "register" => call'[u].id \in Created(journal)
                         /\ pc'[u] \in {"apply", "mark"} =>
                             HasReport(journal, call'[u].id, call'[u].status)
  BY <1>1 DEF StatusInv
<1> QED
  BY <1>1, <1>3, <1>4 DEF StatusInv

\* The journal gets its line, whole or not at all, before anything else shows
\* what it says.
LEMMA JournalStatusInv ==
  ASSUME TInv, StatusInv, NEW t \in Threads, JournalAppend(t) \/ AppendFails(t)
  PROVE  StatusInv'
<1>1. /\ journal \in Seq(Envelope) /\ call[t] \in Envelope /\ pc[t] = "append"
      /\ call[t].kind \in {"task-create", "task-update"}
  BY DEF TInv, TypeOK, KindInv, JournalAppend, AppendFails
<1>2. /\ journal' \in {journal, Append(journal, call[t])}
      /\ UNCHANGED <<cache, copy, registry, status, shown>>
      /\ \A u \in Threads : u # t => pc'[u] = pc[u] /\ call'[u] = call[u] /\ made'[u] = made[u]
  BY DEF JournalAppend, AppendFails, board, older, TInv, TypeOK
<1>3. /\ Created(journal) \subseteq Created(journal')
      /\ \A id, st : HasReport(journal, id, st) => HasReport(journal', id, st)
      /\ \A list : Backs(journal, list) => Backs(journal', list)
  BY <1>1, <1>2, BacksGrows
<1>4. /\ pc'[t] = "register" => call'[t].id \in Created(journal')
      /\ pc'[t] \in {"apply", "mark"} => HasReport(journal', call'[t].id, call'[t].status)
  <2>1. CASE JournalAppend(t)
    <3>1. /\ journal' = Append(journal, call[t]) /\ call' = call
          /\ pc'[t] = IF call[t].kind = "task-create" THEN "register" ELSE "apply"
      BY <2>1 DEF JournalAppend, TInv, TypeOK
    <3> QED
      BY <1>1, <3>1, BacksGrows
  <2>2. CASE AppendFails(t)
    BY <2>2 DEF AppendFails, TInv, TypeOK
  <2> QED
    BY <2>1, <2>2
<1>5. \A u \in Threads : Making(u)' => Making(u) /\ call'[u].id = call[u].id /\ made'[u] = made[u]
  <2>1. \/ call'[t] = call[t] /\ made'[t] = made[t]
        \/ pc'[t] = "idle"
    BY DEF JournalAppend, AppendFails, board, older, TInv, TypeOK
  <2> QED
    BY <1>1, <1>2, <2>1 DEF Making
<1>6. \A u \in Threads : Making(u)' /\ made'[u] \in Ended =>
        HasReport(journal', call'[u].id, made'[u])
  BY <1>3, <1>5 DEF StatusInv
<1> QED
  BY <1>2, <1>3, <1>4, <1>6 DEF StatusInv

\* The steps that write a status: the one the envelope reports, or "running".
LEMMA WrittenStatusInv ==
  ASSUME TInv, StatusInv, NEW t \in Threads,
         Apply(t) \/ MarkFailed(t) \/ MarkComplete(t) \/ Promote(t)
  PROVE  StatusInv'
<1>1. /\ UNCHANGED <<journal, cache, copy, registry, call, made>>
      /\ \A u \in Threads : u # t => pc'[u] = pc[u]
      /\ pc'[t] \in {"mark", "scan", "snapshot"}
      /\ pc'[t] = "mark" => pc[t] = "apply"
  BY DEF Apply, MarkFailed, MarkComplete, Promote, disk, older, TInv, TypeOK
<1>2. \A id \in Ids : status'[id] \in Ended =>
        \/ status'[id] = status[id]
        \/ id = call[t].id /\ status'[id] = call[t].status /\ pc[t] \in {"apply", "mark"}
  <2> USE DEF TInv, TypeOK, Lists, Ended
  <2>1. CASE Apply(t)
    BY <2>1 DEF Apply
  <2>2. CASE MarkFailed(t)
    BY <2>2 DEF MarkFailed
  <2>3. CASE MarkComplete(t)
    BY <2>3 DEF MarkComplete
  <2>4. CASE Promote(t)
    BY <2>4 DEF Promote
  <2> QED
    BY <2>1, <2>2, <2>3, <2>4
<1>3. \A id \in Ids :
        \/ shown'[id] = shown[id]
        \/ id = call[t].id /\ shown'[id] = call[t].status /\ pc[t] = "apply"
  BY DEF Apply, MarkFailed, MarkComplete, Promote, older, TInv, TypeOK
<1>4. \A u \in Threads : Making(u)' => Making(u) /\ u # t
  BY <1>1 DEF Making
<1>5. /\ \A id \in Ids : status'[id] \in Ended => HasReport(journal, id, status'[id])
      /\ \A id \in Ids : shown'[id] \in Ended => HasReport(journal, id, shown'[id])
  BY <1>2, <1>3 DEF StatusInv
<1>6. \A u \in Threads : Making(u)' /\ made'[u] \in Ended =>
        HasReport(journal, call'[u].id, made'[u])
  BY <1>1, <1>4 DEF StatusInv
<1> QED
  BY <1>1, <1>5, <1>6 DEF StatusInv

\* The other steps of a call write no status.
LEMMA OtherStatusInv ==
  ASSUME TInv, StatusInv, NEW t \in Threads,
         \/ CreateSeq(t) \/ Register(t) \/ (\E id \in Ids : Visit(t, id)) \/ ScanEnd(t)
         \/ Snapshot(t) \/ WriteCache(t)
  PROVE  StatusInv'
<1>1. /\ UNCHANGED <<journal, status>>
      /\ \A u \in Threads : u # t => pc'[u] = pc[u] /\ call'[u] = call[u] /\ copy'[u] = copy[u]
      /\ pc'[t] \in {"append", "scan", "promote", "snapshot", "write", "idle"}
  <2> USE DEF TInv, TypeOK, disk, board
  <2>1. CASE CreateSeq(t) \/ Register(t)
    BY <2>1 DEF CreateSeq, Register
  <2>2. CASE (\E id \in Ids : Visit(t, id)) \/ ScanEnd(t)
    BY <2>2 DEF Visit, ScanEnd
  <2>3. CASE Snapshot(t) \/ WriteCache(t)
    BY <2>3 DEF Snapshot, WriteCache
  <2> QED
    BY <2>1, <2>2, <2>3
<1>4. \A id \in Ids : shown'[id] \in Ended => HasReport(journal, id, shown'[id])
  <2>1. CASE Register(t)
    <3>1. /\ Making(t)
          /\ \A id \in Ids : \/ shown'[id] = shown[id]
                             \/ id = call[t].id /\ shown'[id] = made[t]
      BY <2>1 DEF Register, Making, TInv, TypeOK, KindInv
    <3> QED
      BY <3>1 DEF StatusInv
  <2>2. CASE ~Register(t)
    <3>1. shown' = shown
      BY <2>2 DEF CreateSeq, Visit, ScanEnd, Snapshot, WriteCache, board, older
    <3> QED
      BY <3>1 DEF StatusInv
  <2> QED
    BY <2>1, <2>2
<1>5. \A u \in Threads : Making(u)' => Making(u) /\ call'[u].id = call[u].id /\ made'[u] = made[u]
  <2>1. CASE CreateSeq(t)
    <3>1. /\ call'[t] = [call[t] EXCEPT !.seq = seq] /\ made' = made
          /\ call[t] \in Envelope /\ call[t].kind = "task-create" /\ seq \in Nat
          /\ pc[t] = "seq"
      BY <2>1 DEF CreateSeq, board, older, TInv, TypeOK, KindInv
    <3>2. call'[t].id = call[t].id
      BY <3>1, NumberedEnvelope
    <3> QED
      BY <1>1, <3>1, <3>2 DEF Making
  <2>2. CASE ~CreateSeq(t)
    <3>1. /\ pc'[t] \in {"scan", "promote", "snapshot", "write", "idle"}
          /\ \A u \in Threads : u # t => made'[u] = made[u]
      BY <2>2 DEF Register, Visit, ScanEnd, Snapshot, WriteCache, board, older, TInv, TypeOK
    <3> QED
      BY <1>1, <3>1 DEF Making
  <2> QED
    BY <2>1, <2>2
<1>6. \A u \in Threads : Making(u)' /\ made'[u] \in Ended =>
        HasReport(journal, call'[u].id, made'[u])
  BY <1>5 DEF StatusInv
<1>2. registry' \subseteq Created(journal)
  <2>1. CASE Register(t)
    BY <2>1 DEF Register, StatusInv
  <2>2. CASE ~Register(t)
    BY <2>2 DEF CreateSeq, Visit, ScanEnd, Snapshot, WriteCache, board, StatusInv
  <2> QED
    BY <2>1, <2>2
<1>3. Backs(journal, copy'[t]) /\ Backs(journal, cache'.tasks)
  <2>1. CASE Snapshot(t) \/ WriteCache(t)
    <3>1. /\ copy'[t] \in {TaskList, NoTasks}
          /\ cache'.tasks \in {NoTasks, copy[t]}
      BY <2>1 DEF Snapshot, WriteCache, TInv, TypeOK
    <3> QED
      BY <3>1, NothingBacked, TaskListBacked DEF StatusInv
  <2>2. CASE ~(Snapshot(t) \/ WriteCache(t))
    <3>1. UNCHANGED <<copy, cache>>
      BY <2>2 DEF CreateSeq, Register, Visit, ScanEnd, disk
    <3> QED
      BY <3>1 DEF StatusInv
  <2> QED
    BY <2>1, <2>2
<1> QED
  BY <1>1, <1>2, <1>3, <1>4, <1>6 DEF StatusInv

\* Outside the calls: what a replay reads is in the journal.
LEMMA ReopenStatusInv ==
  ASSUME TInv, StatusInv, Crash \/ LoseCache \/ Reopen
  PROVE  StatusInv'
<1>1. /\ journal' = journal
      /\ \A t \in Threads : pc'[t] = "idle" /\ copy'[t] \in {copy[t], NoTasks}
  <2>1. CASE Crash
    BY <2>1 DEF Crash, disk
  <2>2. CASE LoseCache \/ Reopen
    <3>1. phase # "up" /\ journal' = journal /\ UNCHANGED locals
      BY <2>2 DEF LoseCache, Reopen, Open, ReplayTeamCreate, ReplayTaskCreate, ReplayTaskUpdate,
                  ReplayEnds, Replayed, KeepCache, RebuildCache, RebuildDies, disk
    <3> QED
      BY <3>1 DEF TInv, PhaseInv, Quiet, locals
  <2> QED
    BY <2>1, <2>2
<1>2. cache'.tasks \in {cache.tasks, TaskList, NoTasks}
  BY DEF Crash, LoseCache, Reopen, Open, ReplayTeamCreate, ReplayTaskCreate, ReplayTaskUpdate,
         ReplayEnds, KeepCache, RebuildCache, RebuildDies, disk
<1>6. /\ \A id \in Ids : shown'[id] \in Ended => HasReport(journal, id, shown'[id])
      /\ \A t \in Threads : ~Making(t)'
  <2>1. CASE Crash
    BY <1>1, <2>1 DEF Crash, AllNewest, Making, Ended
  <2>2. CASE LoseCache \/ Reopen
    <3>1. shown' = shown
      BY <2>2 DEF LoseCache, Reopen, Open, ReplayTeamCreate, ReplayTaskCreate, ReplayTaskUpdate,
                  ReplayEnds, Replayed, KeepCache, RebuildCache, RebuildDies, board, older
    <3> QED
      BY <1>1, <3>1 DEF Making, StatusInv
  <2> QED
    BY <2>1, <2>2
<1>3. CASE ReplayTaskCreate
  <2> DEFINE e == journal[pos + 1]
  <2>1. /\ pos + 1 \in DOMAIN journal /\ e.kind = "task-create"
        /\ registry' = registry \cup {e.id}
        /\ \E v \in {"pending", "blocked"} : status' = [status EXCEPT ![e.id] = v]
    BY <1>3, Statuses DEF ReplayTaskCreate, TInv, TypeOK
  <2>2. registry' \subseteq Created(journal)
    BY <2>1 DEF StatusInv, Created, Creations
  <2>3. \A id \in Ids : status'[id] \in Ended => status'[id] = status[id]
    BY <2>1 DEF TInv, TypeOK, Lists, Ended
  <2> QED
    BY <1>1, <1>2, <1>6, <2>2, <2>3, NothingBacked, TaskListBacked DEF StatusInv
<1>4. CASE ReplayTaskUpdate
  <2> DEFINE e == journal[pos + 1]
             st == [status EXCEPT ![e.id] = e.status]
  <2>1. /\ pos + 1 \in DOMAIN journal /\ e.kind = "task-update"
        /\ registry' = registry
        /\ \/ status' = status
           \/ status' = Unblock(sched, deps, st)
           \/ status' = st
    BY <1>4 DEF ReplayTaskUpdate, TInv, TypeOK
  <2>2. HasReport(journal, e.id, e.status)
    BY <2>1 DEF HasReport
  <2>3. \A id \in Ids : st[id] = status[id] \/ (id = e.id /\ st[id] = e.status)
    <3>1. DOMAIN status = Ids
      BY DEF TInv, TypeOK, Lists
    <3> QED
      BY <3>1
  <2>4. DOMAIN st = Ids
    BY DEF TInv, TypeOK, Lists
  <2> HIDE DEF st, e
  <2>5. \A id \in Ids : Unblock(sched, deps, st)[id] \in {st[id], "running"}
    BY <2>4 DEF Unblock
  <2>6. \A id \in Ids : status'[id] \in Ended =>
          status'[id] = status[id] \/ (id = e.id /\ status'[id] = e.status)
    <3> SUFFICES ASSUME NEW id \in Ids, status'[id] \in Ended
                 PROVE  status'[id] = status[id] \/ (id = e.id /\ status'[id] = e.status)
      OBVIOUS
    <3>1. CASE status' = status
      BY <3>1
    <3>2. CASE status' = st
      BY <2>3, <3>2
    <3>3. CASE status' = Unblock(sched, deps, st)
      BY <2>3, <2>5, <3>3 DEF Ended
    <3> QED
      BY <2>1, <3>1, <3>2, <3>3
  <2> QED
    BY <1>1, <1>2, <1>6, <2>1, <2>2, <2>6, NothingBacked, TaskListBacked DEF StatusInv
<1>5. CASE ~(ReplayTaskCreate \/ ReplayTaskUpdate)
  <2>1. \/ UNCHANGED <<registry, status>>
        \/ registry' = {} /\ status' = NoTasks
    BY <1>5 DEF Crash, LoseCache, Reopen, Open, ReplayTeamCreate, ReplayEnds, KeepCache,
                RebuildCache, RebuildDies, board
  <2> QED
    BY <1>1, <1>2, <1>6, <2>1, NothingBacked, TaskListBacked DEF StatusInv, NoTasks, Ended
<1> QED
  BY <1>3, <1>4, <1>5

\* Every step keeps what is shown behind what is journaled.
LEMMA NextStatusInv ==
  ASSUME TInv, StatusInv, [Next]_vars
  PROVE  StatusInv'
<1>1. CASE UNCHANGED vars
  BY <1>1 DEF vars, disk, board, older, locals, StatusInv, Making
<1>2. ASSUME NEW t \in Threads, Step(t) PROVE StatusInv'
  BY <1>2, JournalStatusInv, WrittenStatusInv, OtherStatusInv DEF Step
<1>3. ASSUME NEW t \in Threads, Begin(t) PROVE StatusInv'
  BY <1>3, CreateStatusInv, BeginStatusInv DEF Begin
<1> QED
  BY <1>1, <1>2, <1>3, ReopenStatusInv DEF Next

\* Nothing TaskList or the tasks.json cache shows is lost by a crash: whatever
\* the interleaving of the calls and wherever the process died, the journal
\* holds the creation of every task they list and the report of every status
\* that ends a task.
THEOREM WriteAheadHolds == Spec => []WriteAhead
<1>1. Init => StatusInv
  BY InitStatusInv
<1>2. TInv /\ StatusInv /\ [Next]_vars => StatusInv'
  BY NextStatusInv
<1>3. TInv /\ StatusInv => WriteAhead
  <2> SUFFICES ASSUME StatusInv PROVE WriteAhead
    OBVIOUS
  <2>1. Backs(journal, TaskList) /\ Backs(journal, cache.tasks)
    BY TaskListBacked DEF StatusInv
  <2> QED
    BY <2>1 DEF WriteAhead, IsJournaled, Backs, Journaled, Created, Creations, HasReport, Ended
<1> QED
  BY <1>1, <1>2, <1>3, Numbered, PTL DEF Spec

-----------------------------------------------------------------------------
(* What an Open restores.                                                  *)

\* A board has the fields it was made of.
LEMMA BoardFields ==
  ASSUME NEW R, NEW S, NEW d, NEW st
  PROVE  /\ Board(R, S, d, st).registry = R /\ Board(R, S, d, st).sched = S
         /\ Board(R, S, d, st).deps = d /\ Board(R, S, d, st).status = st
  BY DEF Board

\* TaskList is the list of the board in memory, when it shows no older Task.
LEMMA TaskListIsOfMemory ==
  ASSUME \A id \in Ids : shown[id] = "newest"
  PROVE  TaskList = ListOf(Memory)
  BY DEF TaskList, Shown, ListOf, Memory, Board

\* An update of a registered task, on the board in memory.
LEMMA ReplayedUpdate ==
  ASSUME NEW R, NEW S, NEW d, NEW st, NEW e, e.kind = "task-update", e.id \in R
  PROVE  Replay(Board(R, S, d, st), e) =
           Board(R, S, d, IF e.status = "completed"
                          THEN Unblock(S, d, [st EXCEPT ![e.id] = e.status])
                          ELSE [st EXCEPT ![e.id] = e.status])
  BY BoardFields DEF Replay

\* What the replay of a creation makes of a board,
LEMMA ReplayedCreate ==
  ASSUME NEW R, NEW S, NEW d, NEW st, NEW e, e.kind = "task-create",
         ~HasCycle(S \cup {e.id}, [d EXCEPT ![e.id] = e.deps])
  PROVE  Replay(Board(R, S, d, st), e) =
           Board(R \cup {e.id}, S \cup {e.id}, [d EXCEPT ![e.id] = e.deps],
                 [st EXCEPT ![e.id] = InitialStatus(e.deps, S, st)])
<1> DEFINE b == Board(R, S, d, st)
<1>1. b.registry = R /\ b.sched = S /\ b.deps = d /\ b.status = st
  BY BoardFields
<1> HIDE DEF b
<1>2. ~HasCycle(b.sched \cup {e.id}, [b.deps EXCEPT ![e.id] = e.deps])
  BY <1>1
<1>3. Replay(b, e) = Board(b.registry \cup {e.id}, b.sched \cup {e.id},
                          [b.deps EXCEPT ![e.id] = e.deps],
                          [b.status EXCEPT ![e.id] = InitialStatus(e.deps, b.sched, b.status)])
  BY <1>2 DEF Replay
<1>4. Replay(b, e) = Board(R \cup {e.id}, S \cup {e.id}, [d EXCEPT ![e.id] = e.deps],
                          [st EXCEPT ![e.id] = InitialStatus(e.deps, S, st)])
  BY <1>1, <1>3
<1> QED
  BY <1>4 DEF b

\* Starting one of the startable tasks leaves the rest as it was to be.
LEMMA PromotedUnblocks ==
  ASSUME NEW R \in SUBSET Ids, NEW d, NEW st \in Lists, NEW id \in Ids, Startable(id, R, d, st)
  PROVE  Unblock(R, d, [st EXCEPT ![id] = "running"]) = Unblock(R, d, st)
<1> DEFINE new == [st EXCEPT ![id] = "running"]
<1>1. /\ new \in Lists /\ new[id] = "running"
      /\ \A x \in Ids : x # id => new[x] = st[x]
  BY Statuses DEF Lists
<1>2. st[id] = "blocked"
  BY DEF Startable
<1> HIDE DEF new
<1>3. \A x \in Ids : new[x] = "completed" <=> st[x] = "completed"
  BY <1>1, <1>2
<1>4. ASSUME NEW x \in Ids PROVE Unblock(R, d, new)[x] = Unblock(R, d, st)[x]
  <2>1. AllDepsComplete(d[x], R, new) <=> AllDepsComplete(d[x], R, st)
    BY <1>3 DEF AllDepsComplete
  <2>2. CASE x = id
    <3>1. ~Startable(x, R, d, new)
      BY <1>1, <2>2 DEF Startable
    <3>2. Unblock(R, d, new)[x] = "running"
      BY <1>1, <2>2, <3>1, UnblockResult
    <3> QED
      BY <2>2, <3>2, UnblockResult
  <2>3. CASE x # id
    <3>1. new[x] = st[x] /\ (Startable(x, R, d, new) <=> Startable(x, R, d, st))
      BY <1>1, <2>1, <2>3 DEF Startable
    <3> QED
      BY <1>1, <3>1, UnblockResult
  <2> QED
    BY <2>2, <2>3
<1>5. Unblock(R, d, new) \in Lists /\ Unblock(R, d, st) \in Lists
  <2>1. DOMAIN new = Ids /\ DOMAIN st = Ids
    BY <1>1 DEF Lists
  <2>2. \A x \in Ids : new[x] \in TaskStatus \cup {"absent"} /\ st[x] \in TaskStatus \cup {"absent"}
    BY <1>1 DEF Lists
  <2> QED
    BY <2>1, <2>2 DEF Unblock, Lists, TaskStatus
<1>6. Unblock(R, d, new) = Unblock(R, d, st)
  <2> DEFINE f == Unblock(R, d, new)
             g == Unblock(R, d, st)
  <2>1. f \in Lists /\ g \in Lists /\ \A x \in Ids : f[x] = g[x]
    BY <1>4, <1>5
  <2> HIDE DEF f, g
  <2>2. f = g
    BY <2>1 DEF Lists
  <2> QED
    BY <2>2 DEF f, g
<1> QED
  BY <1>6 DEF new

\* With no startable task there is nothing to unblock.
LEMMA NothingUnblocks ==
  ASSUME NEW R \in SUBSET Ids, NEW d, NEW st \in Lists,
         \A id \in R : ~Startable(id, R, d, st)
  PROVE  Unblock(R, d, st) = st
<1>1. DOMAIN st = Ids /\ st = [x \in Ids |-> st[x]]
  BY DEF Lists
<1>2. \A x \in Ids : ~Startable(x, R, d, st)
  BY DEF Startable
<1> QED
  BY <1>1, <1>2 DEF Unblock

\* A thread that has ended its call follows nothing.
LEMMA IdleFollows ==
  ASSUME NEW t \in Threads, NEW b, pc'[t] = "idle"
  PROVE  Follows(t, b)'
  BY DEF Follows

\* A step of a call: while calls do not overlap only the caller's part of the
\* invariant is at stake.
LEMMA CallRestores ==
  ASSUME TInv, NEW h, RestoreInv(h), NEW g, NEW t \in Threads,
         phase = "up", phase' = "up", serial' => serial,
         \A u \in Threads : u # t => pc'[u] = pc[u],
         \A u \in Threads : serial' /\ pc[u] # "idle" => u = t,
         serial' => Follows(t, g[Len(journal)])',
         serial' /\ pc'[t] = "idle" => Memory' = g[Len(journal')]
  PROVE  RestoreInv(g)'
<1>1. \A u \in Threads : serial' /\ pc'[u] # "idle" => u = t
  OBVIOUS
<1>2. serial' => \A u, v \in Threads : pc'[u] # "idle" /\ pc'[v] # "idle" => u = v
  BY <1>1
<1>3. serial' /\ Quiet' => Memory' = g[Len(journal')]
  BY DEF Quiet
<1>4. ASSUME serial', NEW u \in Threads PROVE Follows(u, g[Len(journal)])'
  <2>1. CASE u = t
    BY <1>4, <2>1
  <2>2. CASE u # t
    BY <1>1, <1>4, <2>2 DEF Follows
  <2> QED
    BY <2>1, <2>2
<1> QED
  BY <1>2, <1>3, <1>4 DEF RestoreInv

\* In a call, without another one beside it.
LEMMA CallerFollows ==
  ASSUME TInv, NEW h, RestoreInv(h), NEW t \in Threads, pc[t] # "idle", serial
  PROVE  /\ phase = "up"
         /\ \A u \in Threads : pc[u] # "idle" => u = t
         /\ Follows(t, h[Len(journal)])
<1>1. phase = "up"
  BY DEF TInv, PhaseInv, Quiet
<1> QED
  BY <1>1 DEF RestoreInv

\* A call that begins alone finds the memory where the last one left it.
LEMMA BeginRestores ==
  ASSUME TInv, NEW h, RestoreInv(h), NEW t \in Threads,
         \/ \E spec \in TaskSpecs : BeginCreate(t, spec)
         \/ \E id \in Ids, st \in Reports : BeginUpdate(t, id, st)
  PROVE  RestoreInv(h)'
<1>1. /\ phase = "up" /\ phase' = "up" /\ journal' = journal
      /\ \A u \in Threads : u # t => pc'[u] = pc[u]
      /\ pc'[t] \in {"seq", "append"}
      /\ serial' => serial /\ \A u \in Threads : pc[u] = "idle"
  BY DEF BeginCreate, BeginUpdate, disk, Quiet, TInv, TypeOK
<1>2. serial' => Memory = h[Len(journal)]
  BY <1>1 DEF RestoreInv, Quiet
<1>3. ASSUME serial' PROVE Follows(t, h[Len(journal)])'
  <2>1. ASSUME NEW spec \in TaskSpecs, BeginCreate(t, spec)
        PROVE  Follows(t, h[Len(journal)])'
    <3> DEFINE e == TaskCreated(spec.id, spec.deps, 0)
    <3>1. e.kind = "task-create" /\ e.id = spec.id /\ e.deps = spec.deps
      BY CreateEnvelope
    <3>2. /\ sched' = sched \cup {spec.id} /\ deps' = [deps EXCEPT ![spec.id] = spec.deps]
          /\ status' = [status EXCEPT ![spec.id] = InitialStatus(spec.deps, sched, status)]
          /\ pc'[t] = "seq" /\ call'[t] = e /\ registry' = registry
      BY <2>1, AddedTask
    <3>4. ~HasCycle(sched \cup {spec.id}, [deps EXCEPT ![spec.id] = spec.deps])
      BY <2>1 DEF BeginCreate
    <3> HIDE DEF e
    <3>3. Replay(h[Len(journal)], e) = Board(registry \cup {e.id}, sched', deps', status')
      <4>1. Replay(Memory, e) =
              Board(registry \cup {e.id}, sched \cup {e.id}, [deps EXCEPT ![e.id] = e.deps],
                    [status EXCEPT ![e.id] = InitialStatus(e.deps, sched, status)])
        <5>1. ~HasCycle(sched \cup {e.id}, [deps EXCEPT ![e.id] = e.deps])
          BY <3>1, <3>4
        <5> QED
          BY <3>1, <5>1, ReplayedCreate DEF Memory
      <4>2. /\ sched' = sched \cup {e.id} /\ deps' = [deps EXCEPT ![e.id] = e.deps]
            /\ status' = [status EXCEPT ![e.id] = InitialStatus(e.deps, sched, status)]
        BY <3>1, <3>2
      <4> QED
        BY <1>2, <1>3, <4>1, <4>2
    <3> QED
      BY <1>1, <3>1, <3>2, <3>3 DEF Follows
  <2>2. ASSUME NEW id \in Ids, NEW st \in Reports, BeginUpdate(t, id, st)
        PROVE  Follows(t, h[Len(journal)])'
    <3> DEFINE e == TaskUpdated(id, st, seq)
    <3>1. e.kind = "task-update" /\ e.id = id
      BY UpdateEnvelope DEF TInv, TypeOK
    <3>2. UNCHANGED board /\ pc'[t] = "append" /\ call'[t] = e /\ id \in registry
      BY <2>2 DEF BeginUpdate, TInv, TypeOK
    <3> HIDE DEF e
    <3>3. Memory' = h[Len(journal)] /\ call'[t].id \in registry'
      BY <1>2, <1>3, <3>1, <3>2 DEF Memory, board
    <3> QED
      BY <1>1, <3>1, <3>2, <3>3 DEF Follows
  <2> QED
    BY <2>1, <2>2
<1> QED
  BY <1>1, <1>3, CallRestores

\* A creation that is refused counts as a call that failed.
LEMMA RejectRestores ==
  ASSUME TInv, NEW h, RestoreInv(h), NEW t \in Threads, NEW spec \in TaskSpecs,
         RejectCreate(t, spec)
  PROVE  RestoreInv(h)'
<1>1. phase' = "up" /\ serial' = FALSE
  BY DEF RejectCreate
<1> QED
  BY <1>1 DEF RestoreInv

\* The envelope of a TaskCreate gets its number.
LEMMA CreateSeqRestores ==
  ASSUME TInv, NEW h, RestoreInv(h), NEW t \in Threads, CreateSeq(t)
  PROVE  RestoreInv(h)'
<1>1. /\ pc[t] = "seq" /\ call[t] \in Envelope /\ call[t].kind = "task-create" /\ seq \in Nat
  BY DEF CreateSeq, TInv, TypeOK, KindInv
<1>2. /\ UNCHANGED <<phase, journal, registry, sched, deps, status, serial>>
      /\ \A u \in Threads : u # t => pc'[u] = pc[u]
      /\ pc'[t] = "append" /\ call'[t] = [call[t] EXCEPT !.seq = seq]
  BY DEF CreateSeq, disk, board, history, TInv, TypeOK
<1>3. call'[t].kind = "task-create" /\ call'[t].id = call[t].id /\ call'[t].deps = call[t].deps
  BY <1>1, <1>2, NumberedEnvelope
<1>4. \A b : Replay(b, call'[t]) = Replay(b, call[t])
  BY <1>1, <1>3 DEF Replay
<1>5. ASSUME serial' PROVE Follows(t, h[Len(journal)])'
  <2>1. Replay(h[Len(journal)], call[t]) = Board(registry \cup {call[t].id}, sched, deps, status)
    BY <1>1, <1>2, <1>5, CallerFollows DEF Follows
  <2> QED
    BY <1>2, <1>3, <1>4, <2>1 DEF Follows
<1>6. \A u \in Threads : serial' /\ pc[u] # "idle" => u = t
  BY <1>1, <1>2, CallerFollows
<1>7. phase = "up" /\ phase' = "up"
  BY <1>1, <1>2 DEF TInv, PhaseInv, Quiet
<1> QED
  BY <1>2, <1>5, <1>6, <1>7, CallRestores

\* A replay of the journal goes on with the line that Append writes.
LEMMA ReplayGrows ==
  ASSUME NEW j \in Seq(Envelope), NEW e \in Envelope, NEW h, IsReplay(h, j)
  PROVE  \E g : /\ IsReplay(g, Append(j, e))
                /\ g[Len(Append(j, e))] = Replay(h[Len(j)], e)
<1> DEFINE n == Len(j)
           k == Append(j, e)
<1>1. /\ n \in Nat /\ DOMAIN j = 1..n /\ DOMAIN k = 1..(n + 1) /\ Len(k) = n + 1
      /\ k[n + 1] = e /\ \A i \in 1..n : k[i] = j[i]
  OBVIOUS
<1> HIDE DEF n, k
<1>2. PICK g : g = [i \in 0..(n + 1) |-> IF i = n + 1 THEN Replay(h[n], e) ELSE h[i]]
  OBVIOUS
<1>3. g[n + 1] = Replay(h[n], e) /\ \A i \in 0..n : g[i] = h[i]
  BY <1>1, <1>2
<1>4. g[0] = EmptyBoard
  BY <1>1, <1>3 DEF IsReplay
<1>5. ASSUME NEW i \in DOMAIN k PROVE g[i] = Replay(g[i - 1], k[i])
  <2>1. CASE i = n + 1
    <3>1. i - 1 = n /\ g[n] = h[n]
      BY <1>1, <1>3, <2>1
    <3> QED
      BY <1>1, <1>3, <2>1, <3>1
  <2>2. CASE i # n + 1
    <3>1. /\ i \in 1..n /\ i - 1 \in 0..n /\ i \in 0..n
      BY <1>1, <2>2
    <3>2. g[i] = h[i] /\ g[i - 1] = h[i - 1] /\ k[i] = j[i]
      BY <1>1, <1>3, <3>1
    <3>3. h[i] = Replay(h[i - 1], j[i])
      BY <1>1, <3>1 DEF IsReplay
    <3> QED
      BY <3>2, <3>3
  <2> QED
    BY <2>1, <2>2
<1>6. IsReplay(g, k) /\ g[Len(k)] = Replay(h[n], e)
  BY <1>1, <1>3, <1>4, <1>5 DEF IsReplay
<1> QED
  BY <1>6 DEF n, k

\* The line is written: the journal now stands for what the caller is about to
\* show. If Append failed the calls are no longer serial.
LEMMA JournalRestores ==
  ASSUME TInv, NEW h, IsReplay(h, journal), RestoreInv(h), NEW t \in Threads,
         JournalAppend(t) \/ AppendFails(t)
  PROVE  \E g : IsReplay(g, journal') /\ RestoreInv(g)'
<1>1. /\ pc[t] = "append" /\ call[t] \in Envelope /\ journal \in Seq(Envelope)
      /\ call[t].kind \in {"task-create", "task-update"}
      /\ phase = "up"
  BY DEF JournalAppend, AppendFails, TInv, TypeOK, KindInv, PhaseInv, Quiet
<1>2. /\ UNCHANGED <<phase, registry, sched, deps, status>>
      /\ \A u \in Threads : u # t => pc'[u] = pc[u]
      /\ journal' \in {journal, Append(journal, call[t])}
      /\ serial' => serial /\ JournalAppend(t)
  BY DEF JournalAppend, AppendFails, board, history, TInv, TypeOK
<1>3. PICK g : /\ IsReplay(g, journal')
               /\ journal' # journal => g[Len(journal')] = Replay(h[Len(journal)], call[t])
  <2>1. CASE journal' = journal
    BY <2>1
  <2>2. CASE journal' = Append(journal, call[t])
    <3>1. PICK g : /\ IsReplay(g, Append(journal, call[t]))
                   /\ g[Len(Append(journal, call[t]))] = Replay(h[Len(journal)], call[t])
      BY <1>1, ReplayGrows
    <3> QED
      BY <2>2, <3>1
  <2> QED
    BY <1>2, <2>1, <2>2
<1>4. ASSUME serial' PROVE Follows(t, g[Len(journal)])'
  <2> DEFINE b == h[Len(journal)]
  <2>0. PICK c : c = g[Len(journal')]
    OBVIOUS
  <2>1. /\ journal' = Append(journal, call[t]) /\ call' = call
        /\ pc'[t] = IF call[t].kind = "task-create" THEN "register" ELSE "apply"
    BY <1>2, <1>4 DEF JournalAppend, TInv, TypeOK
  <2>2. c = Replay(b, call[t])
    <3>1. Len(journal') # Len(journal)
      BY <1>1, <2>1
    <3> QED
      BY <1>3, <2>0, <3>1
  <2>3. Follows(t, b)
    BY <1>1, <1>2, <1>4, CallerFollows
  <2> HIDE DEF b
  <2>4. Follows(t, c)'
    <3>1. CASE call[t].kind = "task-create"
      <4>1. c = Board(registry \cup {call[t].id}, sched, deps, status)
        BY <1>1, <2>2, <2>3, <3>1 DEF Follows
      <4> QED
        BY <1>2, <2>1, <3>1, <4>1 DEF Follows
    <3>2. CASE call[t].kind = "task-update"
      <4>1. c = Replay(Memory, call[t]) /\ call[t].id \in registry
        BY <1>1, <2>2, <2>3, <3>2 DEF Follows
      <4> QED
        BY <1>2, <2>1, <3>2, <4>1 DEF Follows, Memory
    <3> QED
      BY <1>1, <3>1, <3>2
  <2> QED
    BY <2>0, <2>4 DEF Follows
<1>5. \A u \in Threads : serial' /\ pc[u] # "idle" => u = t
  BY <1>1, <1>2, CallerFollows
<1>6. serial' => pc'[t] # "idle"
  BY <1>2 DEF JournalAppend, TInv, TypeOK
<1>7. RestoreInv(g)'
  BY <1>1, <1>2, <1>4, <1>5, <1>6, CallRestores
<1> QED
  BY <1>3, <1>7

\* After its registration a creation's memory is the board that a replay of
\* its entry makes.
LEMMA RegisterFollows ==
  ASSUME TInv, NEW t \in Threads, NEW b, Follows(t, b), Register(t)
  PROVE  Follows(t, b)'
<1>1. /\ b = Board(registry \cup {call[t].id}, sched, deps, status)
      /\ registry' = registry \cup {call[t].id} /\ UNCHANGED <<sched, deps, status>>
      /\ pc'[t] = "snapshot"
  BY DEF Register, Follows, TInv, TypeOK
<1>2. Memory' = b
  BY <1>1 DEF Memory
<1> QED
  BY <1>1, <1>2 DEF Follows

\* The status write of TaskUpdate is the replay's, up to what MarkComplete
\* still unblocks.
LEMMA ApplyFollows ==
  ASSUME TInv, NEW t \in Threads, NEW b, Follows(t, b), Apply(t), shown[call[t].id] = "newest"
  PROVE  Follows(t, b)'
<1> DEFINE c == call[t].id
<1>1. /\ pc[t] = "apply" /\ call[t] \in Envelope /\ call[t].kind = "task-update"
      /\ UNCHANGED <<registry, sched, deps, call>>
      /\ status' = [status EXCEPT ![c] = call[t].status]
      /\ pc'[t] = IF call[t].status = "running" THEN "snapshot" ELSE "mark"
  BY DEF Apply, TInv, TypeOK, KindInv
<1>2. c \in Ids /\ c \in registry /\ b = Replay(Memory, call[t])
  BY <1>1, EnvelopeFields DEF Follows
<1>3. status'[c] = call[t].status
  BY <1>1, <1>2 DEF TInv, TypeOK, Lists
<1>4. b = Board(registry, sched, deps,
               IF call[t].status = "completed" THEN Unblock(sched, deps, status') ELSE status')
  <2>1. Replay(Memory, call[t]) =
          Board(registry, sched, deps,
                IF call[t].status = "completed"
                THEN Unblock(sched, deps, [status EXCEPT ![c] = call[t].status])
                ELSE [status EXCEPT ![c] = call[t].status])
    <3>1. call[t].kind = "task-update" /\ call[t].id \in registry
      BY <1>1, <1>2
    <3> QED
      BY <3>1, ReplayedUpdate DEF Memory
  <2> QED
    BY <1>1, <1>2, <2>1
<1>5. CASE call[t].status = "running"
  <2>1. Memory' = b
    BY <1>1, <1>4, <1>5 DEF Memory
  <2> QED
    BY <1>1, <1>5, <2>1 DEF Follows
<1>6. CASE call[t].status # "running"
  <2>1. b = IF call[t].status = "completed"
            THEN Board(registry', sched', deps', Unblock(sched', deps', status'))
            ELSE Memory'
    BY <1>1, <1>4 DEF Memory
  <2> QED
    BY <1>1, <1>2, <1>3, <1>6, <2>1 DEF Follows
<1> QED
  BY <1>5, <1>6

\* MarkFailed and MarkComplete write the status that is already there.
LEMMA MarkFollows ==
  ASSUME TInv, NEW t \in Threads, NEW b, Follows(t, b), MarkFailed(t) \/ MarkComplete(t)
  PROVE  Follows(t, b)'
<1>1. /\ pc[t] = "mark" /\ UNCHANGED <<registry, sched, deps, call>>
      /\ \/ call[t].status = "failed" /\ pc'[t] = "snapshot"
         \/ call[t].status = "completed" /\ pc'[t] = "scan"
  BY DEF MarkFailed, MarkComplete, TInv, TypeOK
<1>2. /\ status[call[t].id] = call[t].status
      /\ b = IF call[t].status = "completed"
             THEN Board(registry, sched, deps, Unblock(sched, deps, status)) ELSE Memory
  BY <1>1 DEF Follows
<1>3. status' = status
  BY <1>1, <1>2 DEF MarkFailed, MarkComplete, TInv, TypeOK, Lists
<1>4. CASE pc'[t] = "snapshot"
  <2>1. Memory' = b
    BY <1>1, <1>2, <1>3, <1>4 DEF Memory
  <2> QED
    BY <1>4, <2>1 DEF Follows
<1>5. CASE pc'[t] = "scan"
  <2>1. b = Board(registry', sched', deps', Unblock(sched', deps', status'))
    BY <1>1, <1>2, <1>3, <1>5
  <2> QED
    BY <1>5, <2>1 DEF Follows
<1> QED
  BY <1>1, <1>4, <1>5

\* A scan goes on towards the board that the replay reaches in one step,
LEMMA VisitFollows ==
  ASSUME TInv, NEW t \in Threads, NEW b, Follows(t, b), NEW id \in Ids, Visit(t, id)
  PROVE  Follows(t, b)'
<1>1. /\ pc[t] = "scan" /\ UNCHANGED <<registry, sched, deps, status, call>>
      /\ \/ pc'[t] = "scan"
         \/ pc'[t] = "promote" /\ hit'[t] = id /\ Startable(id, sched, deps, status)
  BY DEF Visit, board, TInv, TypeOK
<1>2. b = Board(registry, sched, deps, Unblock(sched, deps, status))
  BY <1>1 DEF Follows
<1>3. b = Board(registry', sched', deps', Unblock(sched', deps', status'))
  BY <1>1, <1>2
<1> QED
  BY <1>1, <1>3 DEF Follows

\* and so does each promotion of it.
LEMMA PromoteFollows ==
  ASSUME TInv, NEW t \in Threads, NEW b, Follows(t, b), Promote(t)
  PROVE  Follows(t, b)'
<1>1. /\ pc[t] = "promote" /\ pc'[t] = "scan" /\ hit[t] \in Ids
      /\ UNCHANGED <<registry, sched, deps, call>>
      /\ status' = [status EXCEPT ![hit[t]] = "running"]
  BY DEF Promote, TInv, TypeOK, KindInv
<1>2. /\ b = Board(registry, sched, deps, Unblock(sched, deps, status))
      /\ Startable(hit[t], sched, deps, status)
  BY <1>1 DEF Follows
<1>3. Unblock(sched, deps, status') = Unblock(sched, deps, status)
  <2>1. sched \in SUBSET Ids /\ status \in Lists
    BY DEF TInv, TypeOK
  <2>2. Unblock(sched, deps, [status EXCEPT ![hit[t]] = "running"]) = Unblock(sched, deps, status)
    BY <1>1, <1>2, <2>1, PromotedUnblocks
  <2> QED
    BY <1>1, <2>2
<1>4. b = Board(registry', sched', deps', Unblock(sched', deps', status'))
  BY <1>1, <1>2, <1>3
<1> QED
  BY <1>1, <1>4 DEF Follows

\* No wakeup is lost: the scan of the only thread ends with nothing startable.
LEMMA ScanEndFollows ==
  ASSUME TInv, NoLostWakeup, NEW t \in Threads, NEW b, Follows(t, b), ScanEnd(t),
         \A u \in Threads : pc[u] # "idle" => u = t
  PROVE  Follows(t, b)'
<1>1. /\ pc[t] = "scan" /\ left[t] = {} /\ pc'[t] = "snapshot"
      /\ UNCHANGED <<registry, sched, deps, status>>
  BY DEF ScanEnd, board, TInv, TypeOK
<1>2. \A id \in sched : ~Startable(id, sched, deps, status)
  BY <1>1 DEF NoLostWakeup, WakeupPending
<1>3. Unblock(sched, deps, status) = status
  <2>1. sched \in SUBSET Ids /\ status \in Lists
    BY DEF TInv, TypeOK
  <2> QED
    BY <1>2, <2>1, NothingUnblocks
<1>4. Memory' = b
  BY <1>1, <1>3 DEF Follows, Memory
<1> QED
  BY <1>1, <1>4 DEF Follows

\* When the list is written, the memory is that board.
LEMMA CacheFollows ==
  ASSUME TInv, NEW t \in Threads, NEW b, Follows(t, b), Snapshot(t) \/ WriteCache(t)
  PROVE  Follows(t, b)' /\ Memory' = b
<1>1. /\ pc[t] \in {"snapshot", "write"} /\ pc'[t] \in {"write", "idle"}
      /\ UNCHANGED <<registry, sched, deps, status>>
  BY DEF Snapshot, WriteCache, board, TInv, TypeOK
<1>2. Memory' = b
  BY <1>1 DEF Follows, Memory
<1> QED
  BY <1>1, <1>2 DEF Follows

\* The steps of a call on the memory and the cache.
LEMMA MemoryRestores ==
  ASSUME TInv, NewestInv, NoLostWakeup, NEW h, RestoreInv(h), NEW t \in Threads,
         \/ Register(t) \/ Apply(t) \/ MarkFailed(t) \/ MarkComplete(t)
         \/ (\E id \in Ids : Visit(t, id)) \/ Promote(t) \/ ScanEnd(t)
         \/ Snapshot(t) \/ WriteCache(t)
  PROVE  RestoreInv(h)'
<1>1. /\ pc[t] # "idle" /\ UNCHANGED <<phase, journal, serial>>
      /\ \A u \in Threads : u # t => pc'[u] = pc[u]
      /\ Snapshot(t) \/ WriteCache(t) \/ pc'[t] # "idle"
  <2> USE DEF TInv, TypeOK, disk, history
  <2>1. CASE Register(t) \/ Apply(t)
    BY <2>1 DEF Register, Apply
  <2>2. CASE MarkFailed(t) \/ MarkComplete(t)
    BY <2>2 DEF MarkFailed, MarkComplete
  <2>3. CASE \E id \in Ids : Visit(t, id)
    BY <2>3 DEF Visit
  <2>4. CASE Promote(t) \/ ScanEnd(t)
    BY <2>4 DEF Promote, ScanEnd
  <2>5. CASE Snapshot(t) \/ WriteCache(t)
    BY <2>5 DEF Snapshot, WriteCache
  <2> QED
    BY <2>1, <2>2, <2>3, <2>4, <2>5
<1>2. PICK b : b = h[Len(journal)]
  OBVIOUS
<1>3. phase = "up" /\ phase' = "up"
  BY <1>1 DEF TInv, PhaseInv, Quiet
<1>4. serial => Follows(t, b) /\ \A u \in Threads : pc[u] # "idle" => u = t
  BY <1>1, <1>2, CallerFollows
<1>5. ASSUME serial PROVE Follows(t, b)' /\ (pc'[t] = "idle" => Memory' = b)
  <2>1. Follows(t, b) /\ \A u \in Threads : pc[u] # "idle" => u = t
    BY <1>4, <1>5
  <2>2. CASE Snapshot(t) \/ WriteCache(t)
    BY <2>1, <2>2, CacheFollows
  <2>3. CASE ~(Snapshot(t) \/ WriteCache(t))
    <3>2. Apply(t) => shown[call[t].id] = "newest"
      <4>1. SUFFICES ASSUME Apply(t) PROVE shown[call[t].id] = "newest"
        OBVIOUS
      <4>2. call[t].id \in Ids
        BY <4>1, EnvelopeFields DEF Apply, TInv, TypeOK, KindInv
      <4>3. \A u \in Threads : ~Making(u)
        BY <2>1, <4>1 DEF Apply, Making
      <4> QED
        BY <1>3, <1>5, <4>2, <4>3 DEF NewestInv
    <3>1. Follows(t, b)'
      BY <2>1, <2>3, <3>2, RegisterFollows, ApplyFollows, MarkFollows, VisitFollows,
         PromoteFollows, ScanEndFollows
    <3> QED
      BY <1>1, <2>3, <3>1
  <2> QED
    BY <2>2, <2>3
<1>6. serial' => Follows(t, h[Len(journal)])' /\ (pc'[t] = "idle" => Memory' = h[Len(journal')])
  BY <1>1, <1>2, <1>5 DEF Follows
<1> QED
  BY <1>1, <1>3, <1>4, <1>6, CallRestores

\* The list that a crash leaves is that of the board the whole journal
\* makes.
LEMMA CrashRestores ==
  ASSUME TInv, NewestInv, NEW h, RestoreInv(h), Crash
  PROVE  RestoreInv(h)'
<1>1. phase' = "down" /\ journal' = journal /\ serial' = serial /\ Memory' = EmptyBoard
  BY DEF Crash, disk, Memory, EmptyBoard
<1>2. ASSUME serial PROVE \A list \in before' : list = ListOf(h[Len(journal)])
  <2>1. CASE phase = "up"
    <3>1. Quiet => Memory = h[Len(journal)]
      BY <1>2, <2>1 DEF RestoreInv
    <3>2. before' = IF Quiet THEN {TaskList} ELSE {}
      BY <2>1 DEF Crash
    <3>3. Quiet => \A id \in Ids : shown[id] = "newest"
      BY <1>2, <2>1 DEF NewestInv, Quiet, Making
    <3> QED
      BY <3>1, <3>2, <3>3, TaskListIsOfMemory
  <2>2. CASE phase # "up"
    BY <1>2, <2>2 DEF Crash, RestoreInv
  <2> QED
    BY <2>1, <2>2
<1> QED
  BY <1>1, <1>2 DEF RestoreInv

\* Open gets from one board to the next.
LEMMA ReplayStepRestores ==
  ASSUME TInv, NEW h, IsReplay(h, journal), RestoreInv(h),
         ReplayTeamCreate \/ ReplayTaskCreate \/ ReplayTaskUpdate
  PROVE  RestoreInv(h)'
<1> DEFINE e == journal[pos + 1]
<1>1. /\ phase = "replay" /\ pos \in Nat /\ pos + 1 \in DOMAIN journal /\ (pos + 1) - 1 = pos
      /\ pos' = pos + 1 /\ UNCHANGED <<phase, journal, before, serial>>
  BY DEF ReplayTeamCreate, ReplayTaskCreate, ReplayTaskUpdate, TInv, TypeOK, disk, history
<1>2. h[pos + 1] = Replay(Memory, e)
  <2>1. h[pos + 1] = Replay(h[(pos + 1) - 1], e) /\ h[pos] = Memory
    BY <1>1 DEF IsReplay, RestoreInv
  <2> QED
    BY <1>1, <2>1
<1>3. Memory' = Replay(Memory, e)
  <2>1. CASE ReplayTeamCreate
    <3>1. e.kind = "team-create" /\ UNCHANGED <<registry, sched, deps, status>>
      BY <2>1 DEF ReplayTeamCreate, board
    <3> QED
      BY <3>1 DEF Replay, Memory
  <2>2. CASE ReplayTaskCreate
    <3> DEFINE cyclic == HasCycle(sched \cup {e.id}, [deps EXCEPT ![e.id] = e.deps])
    <3>1. e.kind = "task-create" /\ registry' = registry \cup {e.id}
      BY <2>2 DEF ReplayTaskCreate
    <3>2. CASE ~cyclic
      <4>1. /\ sched' = sched \cup {e.id} /\ deps' = [deps EXCEPT ![e.id] = e.deps]
            /\ status' = [status EXCEPT ![e.id] = InitialStatus(e.deps, sched, status)]
        BY <2>2, <3>2 DEF ReplayTaskCreate
      <4> HIDE DEF e
      <4>2. Replay(Memory, e) =
              Board(registry \cup {e.id}, sched \cup {e.id}, [deps EXCEPT ![e.id] = e.deps],
                    [status EXCEPT ![e.id] = InitialStatus(e.deps, sched, status)])
        BY <3>1, <3>2, ReplayedCreate DEF Memory
      <4> QED
        BY <3>1, <4>1, <4>2 DEF Memory
    <3>3. CASE cyclic
      <4>1. /\ sched' = sched \ {e.id} /\ deps' = [deps EXCEPT ![e.id] = <<>>]
            /\ status' = [status EXCEPT ![e.id] = "pending"]
        BY <2>2, <3>3 DEF ReplayTaskCreate
      <4> HIDE DEF e
      <4>2. Replay(Memory, e) =
              Board(registry \cup {e.id}, sched \ {e.id}, [deps EXCEPT ![e.id] = <<>>],
                    [status EXCEPT ![e.id] = "pending"])
        <5>1. /\ Memory.registry = registry /\ Memory.sched = sched
              /\ Memory.deps = deps /\ Memory.status = status
          BY BoardFields DEF Memory
        <5>2. HasCycle(Memory.sched \cup {e.id}, [Memory.deps EXCEPT ![e.id] = e.deps])
          BY <3>3, <5>1
        <5>3. Replay(Memory, e) =
                Board(Memory.registry \cup {e.id}, Memory.sched \ {e.id},
                      [Memory.deps EXCEPT ![e.id] = <<>>],
                      [Memory.status EXCEPT ![e.id] = "pending"])
          BY <3>1, <5>2 DEF Replay
        <5> QED
          BY <5>1, <5>3
      <4> QED
        BY <3>1, <4>1, <4>2 DEF Memory
    <3> QED
      BY <3>2, <3>3
  <2>3. CASE ReplayTaskUpdate
    <3> DEFINE st == [status EXCEPT ![e.id] = e.status]
    <3>1. /\ e.kind = "task-update" /\ UNCHANGED <<registry, sched, deps>>
          /\ status' = IF e.id \notin registry THEN status
                       ELSE IF e.status = "completed" THEN Unblock(sched, deps, st) ELSE st
      BY <2>3 DEF ReplayTaskUpdate
    <3> HIDE DEF e
    <3>2. CASE e.id \notin registry
      BY <3>1, <3>2, BoardFields DEF Replay, Memory
    <3>3. CASE e.id \in registry
      <4>1. Replay(Memory, e) =
              Board(registry, sched, deps,
                    IF e.status = "completed" THEN Unblock(sched, deps, st) ELSE st)
        BY <3>1, <3>3, ReplayedUpdate DEF Memory
      <4> QED
        BY <3>1, <3>3, <4>1 DEF Memory
    <3> QED
      BY <3>2, <3>3
  <2> QED
    BY <2>1, <2>2, <2>3
<1> QED
  BY <1>1, <1>2, <1>3 DEF RestoreInv

\* The replay goes through the boards of the witness.
LEMMA ReopenRestores ==
  ASSUME TInv, NEW h, IsReplay(h, journal), RestoreInv(h),
         LoseCache \/ Open \/ ReplayEnds \/ KeepCache \/ RebuildCache \/ RebuildDies
  PROVE  RestoreInv(h)'
<1>1. journal' = journal /\ phase # "up" /\ UNCHANGED <<before, pc>>
  BY DEF LoseCache, Open, ReplayEnds, Replayed, KeepCache, RebuildCache, RebuildDies, disk, history,
         locals
<1>2. CASE LoseCache \/ Open
  <2>1. /\ phase = "down" /\ phase' \in {"down", "replay"} /\ pos = 0 /\ pos' = pos
        /\ serial' = serial /\ Memory' = Memory
    BY <1>2 DEF LoseCache, Open, TInv, PhaseInv, history, board, Memory
  <2>2. Memory = EmptyBoard /\ h[0] = EmptyBoard
    BY <2>1 DEF RestoreInv, IsReplay
  <2> QED
    BY <1>1, <2>1, <2>2 DEF RestoreInv
<1>3. CASE ReplayEnds
  <2>1. phase' = "rebuild" /\ Memory' = Memory /\ Memory = h[Len(journal)] /\ serial' = serial
    BY <1>3 DEF ReplayEnds, Replayed, RestoreInv, board, history, Memory
  <2> QED
    BY <1>1, <2>1 DEF RestoreInv
<1>4. CASE KeepCache \/ RebuildCache
  <2>1. /\ phase' = "up" /\ Memory' = Memory /\ Memory = h[Len(journal)]
        /\ \A t \in Threads : pc'[t] = "idle"
    BY <1>1, <1>4 DEF KeepCache, RebuildCache, RestoreInv, board, Memory, TInv, PhaseInv, Quiet
  <2> QED
    BY <1>1, <2>1 DEF RestoreInv, Follows
<1>5. CASE RebuildDies
  <2>1. phase' = "down" /\ Memory' = EmptyBoard /\ serial' = serial
    BY <1>5 DEF RebuildDies, history, Memory, EmptyBoard
  <2> QED
    BY <1>1, <2>1 DEF RestoreInv
<1> QED
  BY <1>2, <1>3, <1>4, <1>5

\* The journal stands for the memory, as far as calls have told it.
Restores == \E h : IsReplay(h, journal) /\ RestoreInv(h)

\* An empty journal restores an empty list.
LEMMA InitRestores == Init => Restores
<1> SUFFICES ASSUME Init PROVE Restores
  OBVIOUS
<1>1. PICK h : h = [i \in 0..1 |-> EmptyBoard]
  OBVIOUS
<1>2. /\ journal = <<TeamCreated>> /\ Len(journal) = 1 /\ DOMAIN journal = 1..1
      /\ journal[1].kind = "team-create"
  BY OtherEnvelope DEF Init
<1>3. h[0] = EmptyBoard /\ h[1] = EmptyBoard
  BY <1>1
<1>4. IsReplay(h, journal)
  <2>1. Replay(h[0], journal[1]) = h[1]
    BY <1>2, <1>3 DEF Replay
  <2> QED
    BY <1>2, <1>3, <2>1 DEF IsReplay
<1>5. Memory = EmptyBoard
  BY DEF Init, Memory, EmptyBoard
<1>6. RestoreInv(h)
  BY <1>2, <1>3, <1>5 DEF Init, RestoreInv, Follows
<1> QED
  BY <1>4, <1>6 DEF Restores

\* A creation that begins alone makes an older Task of the one it names.
LEMMA BeginNewest ==
  ASSUME TInv, NewestInv, NEW t \in Threads, Begin(t)
  PROVE  NewestInv'
<1> SUFFICES ASSUME serial' PROVE /\ \A u \in Threads : made'[u] = "newest"
                                  /\ \A x \in Ids : shown'[x] # "newest" =>
                                       \E u \in Threads : Making(u)' /\ call'[u].id = x
  BY DEF NewestInv
<1>1. serial /\ phase = "up" /\ \A u \in Threads : pc[u] = "idle"
  BY DEF Begin, BeginCreate, RejectCreate, BeginUpdate, Quiet
<1>2. \A u \in Threads : ~Making(u)
  BY <1>1 DEF Making
<1>3. (\A u \in Threads : made[u] = "newest") /\ \A x \in Ids : shown[x] = "newest"
  BY <1>1, <1>2 DEF NewestInv
<1>4. ASSUME NEW spec \in TaskSpecs, BeginCreate(t, spec)
      PROVE  /\ \A u \in Threads : made'[u] = "newest"
             /\ \A x \in Ids : shown'[x] # "newest" =>
                  \E u \in Threads : Making(u)' /\ call'[u].id = x
  <2>1. Making(t)' /\ call'[t].id = spec.id /\ spec.id \in Ids /\ Supersede(spec.id)
    BY <1>4, AddedTask DEF Making
  <2>2. \A u \in Threads : made'[u] = made[u]
    BY <1>2, <2>1 DEF Supersede
  <2>3. \A x \in Ids : x # spec.id => shown'[x] = shown[x]
    BY <2>1 DEF Supersede, TInv, TypeOK
  <2> QED
    BY <1>3, <2>1, <2>2, <2>3
<1>5. ASSUME \/ \E spec \in TaskSpecs : RejectCreate(t, spec)
             \/ \E id \in Ids, st \in Reports : BeginUpdate(t, id, st)
      PROVE  UNCHANGED <<shown, made>>
  BY <1>5 DEF RejectCreate, BeginUpdate, board, older
<1> QED
  BY <1>3, <1>4, <1>5 DEF Begin

\* The only call that is under way registers it, or leaves it as it is.
LEMMA StepNewest ==
  ASSUME TInv, NewestInv, NEW h, RestoreInv(h), NEW t \in Threads, Step(t)
  PROVE  NewestInv'
<1> SUFFICES ASSUME serial' PROVE /\ \A u \in Threads : made'[u] = "newest"
                                  /\ \A x \in Ids : shown'[x] # "newest" =>
                                       \E u \in Threads : Making(u)' /\ call'[u].id = x
  BY DEF NewestInv
<1>1. serial /\ ~AppendFails(t) /\ pc[t] # "idle"
  BY DEF Step, CreateSeq, JournalAppend, AppendFails, Register, Apply, MarkFailed, MarkComplete,
         Visit, Promote, ScanEnd, Snapshot, WriteCache, history
<1>2. phase = "up" /\ \A u \in Threads : pc[u] # "idle" => u = t
  BY <1>1, CallerFollows
<1>3. \A u \in Threads : Making(u) => u = t
  BY <1>2 DEF Making
<1>4. /\ \A u \in Threads : made[u] = "newest"
      /\ \A x \in Ids : shown[x] # "newest" => Making(t) /\ call[t].id = x
  BY <1>1, <1>2, <1>3 DEF NewestInv
<1>5. CASE CreateSeq(t)
  <2>1. /\ UNCHANGED <<shown, made>> /\ pc'[t] = "append" /\ pc[t] = "seq"
        /\ call'[t] = [call[t] EXCEPT !.seq = seq]
        /\ call[t] \in Envelope /\ call[t].kind = "task-create" /\ seq \in Nat
    BY <1>5 DEF CreateSeq, board, older, TInv, TypeOK, KindInv
  <2>2. call'[t].id = call[t].id /\ call'[t].kind = "task-create"
    BY <2>1, NumberedEnvelope
  <2>3. Making(t)'
    BY <2>1, <2>2 DEF Making
  <2> QED
    BY <1>4, <2>1, <2>2, <2>3
<1>6. CASE JournalAppend(t)
  <2>1. /\ UNCHANGED <<shown, made, call>>
        /\ pc'[t] = IF call[t].kind = "task-create" THEN "register" ELSE "apply"
    BY <1>6 DEF JournalAppend, board, older, TInv, TypeOK
  <2>2. Making(t) => Making(t)'
    BY <2>1 DEF Making
  <2> QED
    BY <1>4, <2>1, <2>2
<1>7. CASE Register(t)
  <2>1. /\ shown' = [shown EXCEPT ![call[t].id] = made[t]]
        /\ made' = [made EXCEPT ![t] = "newest"]
    BY <1>7 DEF Register
  <2> QED
    BY <1>4, <2>1 DEF TInv, TypeOK
<1>8. CASE \/ Apply(t) \/ MarkFailed(t) \/ MarkComplete(t)
           \/ (\E id \in Ids : Visit(t, id)) \/ Promote(t) \/ ScanEnd(t)
           \/ Snapshot(t) \/ WriteCache(t)
  <2>1. ~Making(t)
    BY <1>8 DEF Apply, MarkFailed, MarkComplete, Visit, Promote, ScanEnd, Snapshot, WriteCache,
                Making
  <2>2. \A x \in Ids : shown[x] = "newest"
    BY <1>4, <2>1
  <2>3. Apply(t) => shown[call[t].id] = "newest"
    <3>1. Apply(t) => call[t].id \in Ids
      BY EnvelopeFields DEF Apply, TInv, TypeOK, KindInv
    <3> QED
      BY <2>2, <3>1
  <2>4. UNCHANGED <<shown, made>>
    BY <1>8, <2>3 DEF Apply, MarkFailed, MarkComplete, Visit, Promote, ScanEnd, Snapshot,
                      WriteCache, board, older
  <2> QED
    BY <1>4, <2>2, <2>4
<1> QED
  BY <1>1, <1>5, <1>6, <1>7, <1>8 DEF Step

\* Every step of calls that do not overlap keeps the older Tasks few; an Open
\* makes none.
LEMMA NextNewest ==
  ASSUME TInv, NewestInv, Restores, [Next]_vars
  PROVE  NewestInv'
<1>1. PICK h : IsReplay(h, journal) /\ RestoreInv(h)
  BY DEF Restores
<1>2. CASE Crash \/ LoseCache \/ Reopen
  <2>1. CASE phase' # "up"
    BY <2>1 DEF NewestInv
  <2>2. CASE phase' = "up"
    <3>1. phase # "up" /\ UNCHANGED older
      BY <1>2, <2>2 DEF Crash, LoseCache, Reopen, Open, ReplayTeamCreate, ReplayTaskCreate,
                        ReplayTaskUpdate, ReplayEnds, Replayed, KeepCache, RebuildCache,
                        RebuildDies, board
    <3> QED
      BY <3>1 DEF TInv, PhaseInv, NewestInv, older
  <2> QED
    BY <2>1, <2>2
<1>3. CASE UNCHANGED vars
  BY <1>3 DEF vars, board, older, locals, history, NewestInv, Making
<1> QED
  BY <1>1, <1>2, <1>3, BeginNewest, StepNewest DEF Next

\* Every step keeps a witness, for calls that neither overlap nor fail.
LEMMA NextRestores ==
  ASSUME TInv, NewestInv, NoLostWakeup, Restores, [Next]_vars
  PROVE  Restores'
<1>1. PICK h : IsReplay(h, journal) /\ RestoreInv(h)
  BY DEF Restores
<1>2. ASSUME journal' = journal, RestoreInv(h)' PROVE Restores'
  BY <1>1, <1>2 DEF Restores
<1>3. ASSUME NEW t \in Threads, Begin(t) PROVE Restores'
  <2>1. journal' = journal
    BY <1>3 DEF Begin, BeginCreate, RejectCreate, BeginUpdate, disk
  <2> QED
    BY <1>1, <1>2, <1>3, <2>1, BeginRestores, RejectRestores DEF Begin
<1>4. ASSUME NEW t \in Threads, Step(t) PROVE Restores'
  <2>1. CASE JournalAppend(t) \/ AppendFails(t)
    BY <1>1, <2>1, JournalRestores DEF Restores
  <2>2. CASE ~(JournalAppend(t) \/ AppendFails(t))
    <3>1. journal' = journal
      BY <1>4, <2>2 DEF Step, CreateSeq, Register, Apply, MarkFailed, MarkComplete, Visit, Promote,
                        ScanEnd, Snapshot, WriteCache, disk
    <3>2. RestoreInv(h)'
      BY <1>1, <1>4, <2>2, CreateSeqRestores, MemoryRestores DEF Step
    <3> QED
      BY <1>2, <3>1, <3>2
  <2> QED
    BY <2>1, <2>2
<1>5. CASE Crash
  BY <1>1, <1>2, <1>5, CrashRestores DEF Crash, disk
<1>6. CASE LoseCache \/ Reopen
  <2>1. journal' = journal
    BY <1>6 DEF LoseCache, Reopen, Open, ReplayTeamCreate, ReplayTaskCreate, ReplayTaskUpdate,
                ReplayEnds, KeepCache, RebuildCache, RebuildDies, disk
  <2>2. RestoreInv(h)'
    BY <1>1, <1>6, ReplayStepRestores, ReopenRestores DEF Reopen
  <2> QED
    BY <1>2, <2>1, <2>2
<1>7. CASE UNCHANGED vars
  <2>1. UNCHANGED <<journal, phase, pos, board, locals, history>>
    BY <1>7 DEF vars, disk
  <2>2. RestoreInv(h)'
    BY <1>1, <2>1 DEF RestoreInv, Follows, Memory, Quiet, board, locals, history
  <2> QED
    BY <1>2, <2>1, <2>2
<1> QED
  BY <1>3, <1>4, <1>5, <1>6, <1>7 DEF Next

\* Open restores the list that a crash between calls left behind, if no call
\* since the last Open overlapped another or failed: whatever the graph, the
\* ids named again, the statuses reported, and the crashes and Opens before.
\* With overlapping calls it does not (OpenRestoresTaskList).
THEOREM OpenRestoresSerialHolds == Spec => []OpenRestoresSerial
<1>1. Init => Restores
  BY InitRestores
<1>2. /\ Init => NewestInv
      /\ TInv /\ NewestInv /\ NoLostWakeup /\ Restores /\ [Next]_vars =>
           NewestInv' /\ Restores'
  <2>1. Init => NewestInv
    BY DEF Init, NewestInv, AllNewest
  <2> QED
    BY <2>1, NextNewest, NextRestores
<1>3. TInv /\ Restores => OpenRestoresSerial
  <2> SUFFICES ASSUME TInv, NEW h, RestoreInv(h), serial, phase = "rebuild", NEW list \in before
               PROVE  TaskList = list
    BY DEF Restores, OpenRestoresSerial, OpenRestoresTaskList
  <2>1. Memory = h[Len(journal)] /\ list = ListOf(h[Len(journal)])
    BY DEF RestoreInv
  <2>2. \A id \in Ids : shown[id] = "newest"
    BY DEF TInv, PhaseInv
  <2> QED
    BY <2>1, <2>2, TaskListIsOfMemory
<1> QED
  BY <1>1, <1>2, <1>3, Numbered, NoLostWakeupHolds, PTL DEF Spec
=============================================================================
