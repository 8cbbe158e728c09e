---------------------------- MODULE SessionRegistry ----------------------------
(***************************************************************************)
(* The registry of the sessions of a host: the index file that every       *)
(* StartSession updates under a file lock (internal/state/session.go), and *)
(* the goroutine of Watch that turns its changes into events               *)
(* (internal/state/registry.go). A process starts one session; a           *)
(* descriptor is named by the process that wrote it, and a session that is *)
(* started again has a second process with the same id.                    *)
(***************************************************************************)
EXTENDS Naturals, Sequences, FiniteSets

CONSTANTS
  Starters,   \* processes that call StartSession
  IdOf,       \* the session id of each
  WatchBuf,   \* capacity of the channel of Watch, 64 in the code
  Nobody,     \* no process
  Torn        \* a file that was opened for writing and not written yet

ASSUME RegistryAssumption ==
  /\ Nobody \notin Starters /\ Torn \notin Seq(Starters)
  /\ WatchBuf \in Nat \ {0} /\ DOMAIN IdOf = Starters

VARIABLES
  index,      \* index.json: a sequence of descriptors
  indexTmp,   \* index.json.tmp: a sequence of descriptors, Torn, or absent (<<>>)
  indexLock,  \* the process that holds index.json.lock
  at,         \* where each process is in StartSession
  upserted,   \* the list each has computed
  beats,      \* the processes whose heartbeat file exists
  watch,      \* the goroutine of Watch: where it is, what it has still to
              \* send, and the list it last sent
  events,     \* its channel
  heard       \* the last event its owner has received

indexVars == <<index, indexTmp, indexLock, at, upserted, beats>>
watchVars == <<watch, events, heard>>
registryVars == <<indexVars, watchVars>>

Lists == UNION {[1..n -> Starters] : n \in 0..Cardinality(Starters)}
Stages == {"off", "begin", "open", "write", "rename", "release", "give up", "beat", "alive", "failed", "dead"}

RegistryTypeOK ==
  /\ index \in Lists /\ indexTmp \in Lists \cup {Torn}
  /\ indexLock \in Starters \cup {Nobody}
  /\ at \in [Starters -> Stages]
  /\ upserted \in [Starters -> Lists] /\ beats \in SUBSET Starters
  /\ watch.at \in {"off", "first", "wait", "send", "drain", "resend", "closed"}
  /\ watch.todo \in Lists /\ watch.last \in Lists
  /\ Len(events) <= WatchBuf /\ heard \in Starters \cup {Nobody}

\* The composition says what the index holds and which processes start a
\* session, and whether the registry is watched.
RegistryInit ==
  /\ indexTmp = <<>> /\ indexLock = Nobody
  /\ upserted = [p \in Starters |-> <<>>] /\ beats = {}
  /\ watch \in [at : {"off", "first"}, todo : {<<>>}, last : {<<>>}]
  /\ events = <<>> /\ heard = Nobody

Ids(list) == {IdOf[list[i]] : i \in DOMAIN list}

-----------------------------------------------------------------------------
\* upsertIndex: the first descriptor with the id is replaced, or one is added.
Upsert(list, p) ==
  IF IdOf[p] \in Ids(list)
  THEN [i \in DOMAIN list |-> IF IdOf[list[i]] = IdOf[p] THEN p ELSE list[i]]
  ELSE Append(list, p)

\* Mistake: the index is updated without the lock.
Unlocked == TRUE

LockIsFree == indexLock = Nobody

Reach(p, stage) == at' = [at EXCEPT ![p] = stage]

\* The lock is taken and the list read and updated in memory. A process whose
\* retries run out while the lock is held gives up (ErrStateBusy).
StartSession(p) ==
  /\ at[p] = "begin" /\ LockIsFree /\ index # Torn
  /\ indexLock' = p
  /\ upserted' = [upserted EXCEPT ![p] = Upsert(index, p)]
  /\ Reach(p, "open")
  /\ UNCHANGED <<index, indexTmp, beats>>

StateBusy(p) ==
  /\ at[p] = "begin" /\ ~LockIsFree
  /\ Reach(p, "failed")
  /\ UNCHANGED <<index, indexTmp, indexLock, upserted, beats>>

\* writeIndex: the temporary file is truncated, written, and renamed.
OpenTmp(p) ==
  /\ at[p] = "open"
  /\ indexTmp' = Torn
  /\ Reach(p, "write")
  /\ UNCHANGED <<index, indexLock, upserted, beats>>

WriteTmp(p) ==
  /\ at[p] = "write"
  /\ indexTmp' = upserted[p]
  /\ Reach(p, "rename")
  /\ UNCHANGED <<index, indexLock, upserted, beats>>

RenameTmp(p) ==
  /\ at[p] = "rename"
  /\ index' = indexTmp /\ indexTmp' = <<>>
  /\ Reach(p, "release")
  /\ UNCHANGED <<indexLock, upserted, beats>>

\* The write fails and leaves the file, or the rename does and removes it.
WriteFails(p) ==
  /\ \/ at[p] = "write" /\ UNCHANGED indexTmp
     \/ at[p] = "rename" /\ indexTmp' = <<>>
  /\ Reach(p, "give up")
  /\ UNCHANGED <<index, indexLock, upserted, beats>>

\* The deferred release, after a success and after a failure.
Release(p) ==
  /\ at[p] \in {"release", "give up"}
  /\ indexLock' = IF indexLock = p THEN Nobody ELSE indexLock
  /\ Reach(p, IF at[p] = "release" THEN "beat" ELSE "failed")
  /\ UNCHANGED <<index, indexTmp, upserted, beats>>

\* The first heartbeat; the ticker's goroutine rewrites the same file.
\* When it fails the session stays listed though StartSession fails.
FirstBeat(p) ==
  /\ at[p] = "beat"
  /\ \/ beats' = beats \cup {p} /\ Reach(p, "alive")
     \/ UNCHANGED beats /\ Reach(p, "failed")
  /\ UNCHANGED <<index, indexTmp, indexLock, upserted>>

\* A process may die anywhere; the kernel drops its lock.
Die(p) ==
  /\ at[p] \notin {"off", "begin", "failed", "dead"}
  /\ Reach(p, "dead")
  /\ indexLock' = IF indexLock = p THEN Nobody ELSE indexLock
  /\ UNCHANGED <<index, indexTmp, upserted, beats>>

\* GetStatus: no heartbeat file means "ended"; an older one than 30 s, "stale".
StatusOf(id) ==
  LET at1 == CHOOSE i \in DOMAIN index : IdOf[index[i]] = id
  IN IF id \notin Ids(index) THEN "not found"
     ELSE IF index[at1] \in beats THEN "active or stale" ELSE "ended"

Starts(p) ==
  \/ StartSession(p) \/ StateBusy(p) \/ OpenTmp(p) \/ WriteTmp(p) \/ RenameTmp(p)
  \/ WriteFails(p) \/ Release(p) \/ FirstBeat(p) \/ Die(p)

-----------------------------------------------------------------------------
\* Mistake: the old ids are looked for in the new list.
OldIsGone(old, new) == ~(Ids(old) \subseteq Ids(new))

\* sessionsChanged compares the sets of ids, not the descriptors.
SessionsChanged(old, new) == Len(old) # Len(new) \/ ~(Ids(new) \subseteq Ids(old))

\* emit starts on the list; lastSessions is set when it is done with it, and
\* nothing reads it before.
Emit(sessions) ==
  IF sessions = <<>> THEN [at |-> "wait", todo |-> <<>>, last |-> <<>>]
  ELSE [at |-> "send", todo |-> sessions, last |-> sessions]

\* refresh, at the start, at an event of the directory, or at the 1 s ticker.
Refresh ==
  /\ watch.at \in {"first", "wait"} /\ index # Torn
  /\ IF SessionsChanged(watch.last, index) THEN watch' = Emit(index)
     ELSE watch.at = "first" /\ watch' = [watch EXCEPT !.at = "wait"]
  /\ UNCHANGED <<events, heard>>

Sent ==
  watch' = [watch EXCEPT !.todo = Tail(@),
                         !.at = IF Len(watch.todo) = 1 THEN "wait" ELSE "send"]

\* The three selects of emit: send; or take the oldest event, and send again.
TrySend ==
  /\ watch.at = "send"
  /\ IF Len(events) < WatchBuf
     THEN events' = Append(events, Head(watch.todo)) /\ Sent
     ELSE watch' = [watch EXCEPT !.at = "drain"] /\ UNCHANGED events
  /\ UNCHANGED heard

DropOldest ==
  /\ watch.at = "drain"
  /\ events' = IF events = <<>> THEN <<>> ELSE Tail(events)
  /\ watch' = [watch EXCEPT !.at = "resend"]
  /\ UNCHANGED heard

Resend ==
  /\ watch.at = "resend"
  /\ events' = IF Len(events) < WatchBuf THEN Append(events, Head(watch.todo)) ELSE events
  /\ Sent
  /\ UNCHANGED heard

\* The owner of the channel.
Receive ==
  /\ events # <<>>
  /\ heard' = Head(events) /\ events' = Tail(events)
  /\ UNCHANGED watch

\* The context ends: seen by the loop's select, never inside emit.
StopWatch ==
  /\ watch.at = "wait"
  /\ watch' = [watch EXCEPT !.at = "closed"]
  /\ UNCHANGED <<events, heard>>

WatchCode == Refresh \/ TrySend \/ DropOldest \/ Resend

RegistryNext ==
  \/ \E p \in Starters : Starts(p) /\ UNCHANGED watchVars
  \/ (WatchCode \/ Receive \/ StopWatch) /\ UNCHANGED indexVars
=============================================================================
