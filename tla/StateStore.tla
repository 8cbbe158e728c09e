------------------------------ MODULE StateStore ------------------------------
(***************************************************************************)
(* The state store: internal/state/store.go and lock.go. Processes share   *)
(* one JSON file of versioned entries. Every call that changes it takes an *)
(* flock on a companion file, reads the whole file, writes a new one       *)
(* beside it and renames that over the old; Read takes no lock. Append     *)
(* goes to a file of its own, under an flock on that file.                 *)
(*                                                                         *)
(* A process has one call at a time, and pc says where it is; two          *)
(* goroutines are two processes here, since an flock belongs to the open   *)
(* file and each call opens the lock file itself. A value appended is      *)
(* written in two halves, because write(2) may take less than it is given. *)
(***************************************************************************)
EXTENDS Naturals, Sequences

CONSTANTS
  Procs, Keys,
  Prefixes,    \* the sets of keys that share a prefix
  None,        \* no process, no value, no call, no answer, no file
  Torn,        \* a file whose writing stopped half way
  MaxCalls     \* bound on the number of calls

ASSUME StateStoreAssumption ==
  /\ Prefixes \subseteq SUBSET Keys
  /\ MaxCalls \in Nat
  /\ None \notin Procs /\ None \notin Nat

VARIABLES
  file,     \* the entries of the JSON file; version 0 for an absent key
  tmp,      \* the file <path>.tmp
  lock,     \* the holder of the flock on <path>.lock
  notes,    \* the append file, as the halves written to it
  noteLock, \* the holder of the flock on the append file
  pc,       \* where each process's call is
  op,       \* that call
  copy,     \* the entries it is about to write
  res,      \* its answer
  seen,     \* what each process last learned of each key
  cleared,  \* the keys a Clear removed since
  calls     \* the number of calls made

storeVars == <<file, tmp, lock>>
noteVars == <<notes, noteLock>>
callVars == <<pc, op, copy, res>>
vars == <<storeVars, noteVars, callVars, seen, cleared, calls>>

\* Every value written is a new one: the number of its call.
Values == 1..MaxCalls

Absent == [v |-> 0, val |-> None]
Entries == [v : Nat, val : Values \cup {None}]
Files == [Keys -> Entries]

\* What p may call; "retry" is WriteWithRetry. A caller of WriteIfVersion
\* passes the version it last learned.
Ops(p) ==
  [name : {"read"}, key : Keys]
    \cup [name : {"write", "retry"}, key : Keys, val : {calls + 1}]
    \cup {[name |-> "writeIf", key |-> k, val |-> calls + 1, exp |-> seen[p][k].v] :
            k \in Keys}
    \cup [name : {"clear"}, keys : Prefixes]
    \cup [name : {"append"}, id : {calls + 1}]

Writers == {"write", "retry", "writeIf"}

\* Where a call holds the flock of the store, and of the append file.
Holding == {"load", "tmp", "rename", "release"}
Noting == {"half1", "half2", "unlock"}

\* Types, and every flock is held by a call that will release it.
TypeOK ==
  /\ file \in Files
  /\ tmp \in Files \cup {None, Torn}
  /\ pc \in [Procs -> {"idle", "lock", "backoff", "open", "noteLock", "done"}
                        \cup Holding \cup Noting]
  /\ \A p \in Procs : lock = p <=> pc[p] \in Holding
  /\ \A p \in Procs : noteLock = p <=> pc[p] \in Noting
  /\ seen \in [Procs -> Files]
  /\ cleared \in [Procs -> SUBSET Keys]
  /\ calls \in 0..MaxCalls

Init ==
  /\ file = [k \in Keys |-> Absent] /\ tmp = None /\ lock = None
  /\ notes = <<>> /\ noteLock = None
  /\ pc = [p \in Procs |-> "idle"]
  /\ op = [p \in Procs |-> None]
  /\ copy = [p \in Procs |-> None]
  /\ res = [p \in Procs |-> None]
  /\ seen = [p \in Procs |-> [k \in Keys |-> Absent]]
  /\ cleared = [p \in Procs |-> {}]
  /\ calls = 0

-----------------------------------------------------------------------------
At(p, where) == pc[p] = where
Goto(p, where) == pc' = [pc EXCEPT ![p] = where]
Answer(p, a) == res' = [res EXCEPT ![p] = a]

\* Process p learns entry e of key k.
Learn(p, k, e) ==
  /\ seen' = [seen EXCEPT ![p][k] = e]
  /\ cleared' = [cleared EXCEPT ![p] = @ \ {k}]

Call(p) ==
  /\ At(p, "idle")
  /\ calls < MaxCalls
  /\ calls' = calls + 1
  /\ \E o \in Ops(p) :
       /\ op' = [op EXCEPT ![p] = o]
       /\ Goto(p, CASE o.name = "read" -> "open"
                    [] o.name = "append" -> "noteLock"
                    [] OTHER -> "lock")
  /\ UNCHANGED <<storeVars, noteVars, copy, res, seen, cleared>>

\* The call is over, its answer with the caller.
Returns(p) ==
  /\ Goto(p, "idle")
  /\ op' = [op EXCEPT ![p] = None]
  /\ res' = [res EXCEPT ![p] = None]

\* A call that holds no lock returns.
Return(p) ==
  /\ At(p, "done")
  /\ Returns(p)
  /\ UNCHANGED <<storeVars, noteVars, copy, seen, cleared, calls>>

\* Read: the inode that path names when it is opened never changes any more.
Read(p) ==
  LET k == op[p].key IN
  /\ At(p, "open")
  /\ Answer(p, <<"ok", file[k]>>)
  /\ Learn(p, k, file[k])
  /\ Goto(p, "done")
  /\ UNCHANGED <<storeVars, noteVars, op, copy, calls>>

-----------------------------------------------------------------------------
\* Mistake: a flock that is taken is not respected.
LockIgnored(p) ==
  /\ At(p, "lock")
  /\ lock' = p
  /\ Goto(p, "load")
  /\ UNCHANGED <<file, tmp, noteVars, op, copy, res, seen, cleared, calls>>

\* acquireFlock: a try succeeds.
Acquire(p) ==
  /\ At(p, "lock")
  /\ lock = None
  /\ lock' = p
  /\ Goto(p, "load")
  /\ UNCHANGED <<file, tmp, noteVars, op, copy, res, seen, cleared, calls>>

\* A try fails and 2 s have gone: ErrStateBusy, which only WriteWithRetry
\* answers with another attempt.
Busy(p) ==
  /\ At(p, "lock")
  /\ lock # None
  /\ IF op[p].name = "retry"
     THEN Goto(p, "backoff") /\ UNCHANGED res
     ELSE Goto(p, "done") /\ Answer(p, <<"error">>)
  /\ UNCHANGED <<storeVars, noteVars, op, copy, seen, cleared, calls>>

\* The delay of the backoff schedule is over.
Retry(p) ==
  /\ At(p, "backoff")
  /\ Goto(p, "lock")
  /\ UNCHANGED <<storeVars, noteVars, op, copy, res, seen, cleared, calls>>

\* The context of WriteWithRetry ends during the delay.
ContextEnds(p) ==
  /\ At(p, "backoff")
  /\ Goto(p, "done")
  /\ Answer(p, <<"error">>)
  /\ UNCHANGED <<storeVars, noteVars, op, copy, seen, cleared, calls>>

\* The call will write f and then answer a.
Prepare(p, f, a) ==
  /\ copy' = [copy EXCEPT ![p] = f]
  /\ Answer(p, a)
  /\ Goto(p, "tmp")

\* The call has nothing to write: the deferred release is next.
Refuse(p, a) == Answer(p, a) /\ Goto(p, "release") /\ UNCHANGED copy

Put(p, k) ==
  LET newV == file[k].v + 1
  IN Prepare(p, [file EXCEPT ![k] = [v |-> newV, val |-> op[p].val]], <<"ok", newV>>)

\* Mistake: only an older version than the expected one is a mismatch.
LoadWriteIfNewer(p) ==
  LET k == op[p].key IN
  /\ op[p].name = "writeIf"
  /\ \/ file[k].v >= op[p].exp /\ Put(p, k)
     \/ file[k].v < op[p].exp /\ Refuse(p, <<"mismatch", file[k].v>>)

LoadWriteIf(p) ==
  LET k == op[p].key IN
  /\ op[p].name = "writeIf"
  /\ \/ file[k].v = op[p].exp /\ Put(p, k)
     \/ file[k].v # op[p].exp /\ Refuse(p, <<"mismatch", file[k].v>>)

LoadWrite(p) == op[p].name \in {"write", "retry"} /\ Put(p, op[p].key)

\* The keys a Clear removes; its answer is their number, here the set itself.
Gone(p) == {k \in op[p].keys : file[k] # Absent}

LoadClear(p) ==
  /\ op[p].name = "clear"
  /\ IF Gone(p) = {}
     THEN Refuse(p, <<"ok", {}>>)
     ELSE Prepare(p, [k \in Keys |-> IF k \in Gone(p) THEN Absent ELSE file[k]],
                  <<"ok", Gone(p)>>)

\* readFile, and what the call makes of the entries.
Load(p) ==
  /\ At(p, "load")
  /\ LoadWrite(p) \/ LoadWriteIf(p) \/ LoadClear(p)
  /\ UNCHANGED <<storeVars, noteVars, op, seen, cleared, calls>>

\* writeFile truncates or creates the tmp file and writes all of it.
WriteTmp(p) ==
  /\ At(p, "tmp")
  /\ tmp' = copy[p]
  /\ Goto(p, "rename")
  /\ UNCHANGED <<file, lock, noteVars, op, copy, res, seen, cleared, calls>>

\* The rename: the file is from now on what the tmp file is.
Rename(p) ==
  /\ At(p, "rename")
  /\ tmp # None
  /\ file' = tmp /\ tmp' = None
  /\ Goto(p, "release")
  /\ IF op[p].name \in Writers
     THEN Learn(p, op[p].key, copy[p][op[p].key])
     ELSE /\ cleared' = [q \in Procs |-> cleared[q] \cup op[p].keys]
          /\ UNCHANGED seen
  /\ copy' = [copy EXCEPT ![p] = None]
  /\ UNCHANGED <<lock, noteVars, op, res, calls>>

\* The deferred release, and the return with the answer found before it.
Release(p) ==
  /\ At(p, "release")
  /\ lock' = None
  /\ Returns(p)
  /\ UNCHANGED <<file, tmp, noteVars, copy, seen, cleared, calls>>

-----------------------------------------------------------------------------
Half(p, n) == [id |-> op[p].id, half |-> n]

\* Mistake: O_APPEND is taken to be enough, without the lock.
NoteUnlocked(p) ==
  /\ At(p, "noteLock")
  /\ noteLock' = p
  /\ Goto(p, "half1")
  /\ UNCHANGED <<storeVars, notes, op, copy, res, seen, cleared, calls>>

\* Append waits for the flock without a limit.
LockNotes(p) ==
  /\ At(p, "noteLock")
  /\ noteLock = None
  /\ noteLock' = p
  /\ Goto(p, "half1")
  /\ UNCHANGED <<storeVars, notes, op, copy, res, seen, cleared, calls>>

WriteHalf1(p) ==
  /\ At(p, "half1")
  /\ notes' = Append(notes, Half(p, 1))
  /\ Goto(p, "half2")
  /\ UNCHANGED <<storeVars, noteLock, op, copy, res, seen, cleared, calls>>

WriteHalf2(p) ==
  /\ At(p, "half2")
  /\ notes' = Append(notes, Half(p, 2))
  /\ Answer(p, <<"ok">>)
  /\ Goto(p, "unlock")
  /\ UNCHANGED <<storeVars, noteLock, op, copy, seen, cleared, calls>>

UnlockNotes(p) ==
  /\ At(p, "unlock")
  /\ noteLock' = None
  /\ Returns(p)
  /\ UNCHANGED <<storeVars, notes, copy, seen, cleared, calls>>

-----------------------------------------------------------------------------
\* A system call fails. An error of writeFile can leave a torn tmp file, and
\* one of the rename removes the tmp file; the deferred calls still run.
Fails(p) ==
  /\ \/ At(p, "lock") \/ At(p, "open") \/ At(p, "noteLock")
     \/ At(p, "load") \/ At(p, "tmp") \/ At(p, "rename")
     \/ At(p, "half1") \/ At(p, "half2")
  /\ tmp' \in CASE At(p, "tmp") -> {tmp, Torn}
                [] At(p, "rename") -> {None}
                [] OTHER -> {tmp}
  /\ Answer(p, <<"error">>)
  /\ Goto(p, IF pc[p] \in Holding THEN "release"
             ELSE IF pc[p] \in Noting THEN "unlock" ELSE "done")
  /\ copy' = [copy EXCEPT ![p] = None]
  /\ UNCHANGED <<file, lock, noteVars, op, seen, cleared, calls>>

\* The process dies; the kernel drops its flocks, and a successor of it knows
\* nothing of the store.
Crash(p) ==
  /\ ~At(p, "idle")
  /\ tmp' \in IF At(p, "tmp") THEN {tmp, Torn} ELSE {tmp}
  /\ lock' = IF lock = p THEN None ELSE lock
  /\ noteLock' = IF noteLock = p THEN None ELSE noteLock
  /\ Goto(p, "idle")
  /\ op' = [op EXCEPT ![p] = None]
  /\ copy' = [copy EXCEPT ![p] = None]
  /\ res' = [res EXCEPT ![p] = None]
  /\ seen' = [seen EXCEPT ![p] = [k \in Keys |-> Absent]]
  /\ cleared' = [cleared EXCEPT ![p] = {}]
  /\ UNCHANGED <<file, notes, calls>>

Next == \E p \in Procs :
  \/ Call(p) \/ Return(p) \/ Read(p)
  \/ Acquire(p) \/ Busy(p) \/ Retry(p) \/ ContextEnds(p)
  \/ Load(p) \/ WriteTmp(p) \/ Rename(p) \/ Release(p)
  \/ LockNotes(p) \/ WriteHalf1(p) \/ WriteHalf2(p) \/ UnlockNotes(p)
  \/ Fails(p) \/ Crash(p)

Spec == Init /\ [][Next]_vars

-----------------------------------------------------------------------------
\* Read, Write, WriteIfVersion, WriteWithRetry and Clear are calls of one
\* versioned map: each takes effect once, at an instant between its beginning
\* and its answer, and one that answers with an error (the lock was busy, the
\* disk full, the context over) has no effect, whatever the overlap, the
\* failures and the crashes. A crash is the end of a call, before or after.
Called(p) == ~At(p, "idle") /\ op[p].name # "append"
Effective(p) == pc[p] \in {"release", "done"}

absCall == [p \in Procs |-> IF Called(p) THEN op[p] ELSE None]
absAnswer == [p \in Procs |-> IF Called(p) /\ Effective(p) THEN res[p] ELSE None]

Abstract == INSTANCE VersionedMap WITH map <- file, call <- absCall, answer <- absAnswer

ImplementsVersionedMap == Abstract!Spec

\* Optimistic writers do not overwrite what they have not seen: what a
\* WriteIfVersion replaces is the very entry its caller last learned, value
\* and version, unless a Clear ran over the key in between, which lets
\* version numbers start again (store.go:181, store.go:204).
OptimisticSafe ==
  [][\A p \in Procs :
       At(p, "rename") /\ pc'[p] = "release" /\ op[p].name = "writeIf"
         /\ file' # file /\ op[p].key \notin cleared[p]
         => file[op[p].key] = seen[p][op[p].key]]_vars

\* Values appended do not run into one another: the rest of a value directly
\* follows its beginning, and an Append that has succeeded wrote both.
AppendsDoNotMix ==
  /\ \A i \in DOMAIN notes : notes[i].half = 2 =>
       i > 1 /\ notes[i - 1] = [notes[i] EXCEPT !.half = 1]
  /\ \A p \in Procs : At(p, "unlock") /\ res[p] = <<"ok">>
       => \E i \in DOMAIN notes : notes[i] = Half(p, 2)
=============================================================================
