------------------------------ MODULE TokenPath ------------------------------
(***************************************************************************)
(* A model request with the token engine around it:                        *)
(* internal/model/http.go, postJSONWithMiddleware, which asks the cache    *)
(* (TokenCache), reserves in the budget (SpendMeter), posts with retries,  *)
(* commits, records and stores. Several requests of a process share the    *)
(* engine; beside them the cache is cleared, by the process or by the      *)
(* command "tokens clear-cache" of another one, its source file is edited  *)
(* and invalidated, the day ends, and the process dies and starts again.   *)
(* Any use of a file may fail: no such error is returned to anyone.        *)
(***************************************************************************)
EXTENDS TokenCache, SpendMeter

CONSTANTS
  Requests,    \* goroutines that call the client
  CostOf,      \* the estimate for a request, which its key determines: 0 if the
               \* model is free
  MaxRetries,  \* attempts of postJSON
  MaxCalls,    \* bound on the requests
  IOFailures,  \* whether uses of files may fail
  MaxEvents,   \* bound on the clears, invalidations, edits, midnights, restarts
               \* and failures together
  MaxBoth      \* bound on the requests and those events together

ASSUME TokenPathAssumption ==
  /\ IsFiniteSet(Requests)
  /\ CostOf \in [Keys -> Nat]
  /\ MaxRetries \in Nat \ {0}
  /\ IOFailures \in BOOLEAN
  /\ MaxCalls \in Nat /\ MaxEvents \in Nat /\ MaxBoth \in Nat

VARIABLES
  mem, disk,   \* the cache
  mtime,       \* of the source file, 0 if it is gone
  unlinks,     \* key -> goroutines of InvalidateByMtime about to remove its file
  orphans,     \* requests that write to a file which has been removed
  meter,       \* the budget in memory
  ledger,      \* the book budget-ledger.jsonl
  calls,       \* the book analytics-ledger.jsonl
  today,
  req,         \* where each request is
  sweep,       \* where Clear or InvalidateByMtime is
  count,       \* what has happened, for the bounds
  \* observed by no code:
  served,      \* the cost of all answers of the server
  carried,     \* what was not checked against the limit of the meter's day, and
               \* may be added to it
  unseen,      \* what the ledger has of today that the meter has not counted
  lost,        \* a write to one of the books has failed
  raced        \* keys of which two uses of the file overlapped, or a save failed,
               \* since the last Put that had the file to itself when it began

cacheVars == <<mem, disk, mtime, unlinks, orphans>>
moneyVars == <<meter, ledger, calls, today, served, carried, unseen, lost>>
vars == <<cacheVars, moneyVars, req, sweep, count, raced>>

Idle == [pc |-> "idle", key |-> CHOOSE k \in Keys : TRUE, e |-> None, tries |-> 0]
NoSweep == [pc |-> "idle", seen |-> 0, todo |-> {}]

Init ==
  /\ mem = Empty /\ disk = [k \in Keys |-> None]
  /\ mtime = 1 /\ unlinks = [k \in Keys |-> 0] /\ orphans = {}
  /\ meter = NewMeter(1) /\ ledger = EmptyBook /\ calls = EmptyBook /\ today = 1
  /\ req = [r \in Requests |-> Idle]
  /\ sweep = NoSweep
  /\ count = [calls |-> 0, answers |-> 0, events |-> 0, restarts |-> 0]
  /\ served = 0 /\ carried = 0 /\ unseen = 0 /\ lost = FALSE /\ raced = {}

At(r, pc) == req[r].pc = pc
Room == count.calls + count.events < MaxBoth
Goto(r, pc) == req' = [req EXCEPT ![r].pc = pc]
Return(r) == req' = [req EXCEPT ![r] = Idle]
CostOfReq(r) == CostOf[req[r].key]
Cost(S) == SumFunctionOnSet([r \in Requests |-> CostOfReq(r)], S)
Waiting == {r \in Requests : req[r].pc \in {"post", "failed", "answered"}}

\* The uses of a key's file that are under way and will end in a write, in
\* memory or on disk.
Uses(k) ==
  Cardinality({r \in Requests : req[r].key = k /\ req[r].pc \in {"promote", "unlink", "open", "write"}})
    + unlinks[k] + (IF sweep.pc \in {"list", "remove"} THEN 1 ELSE 0)

\* Two uses of a key's file overlap after this step.
Overlap == {k \in Keys : Uses(k)' > 1}

\* One of the events that are bounded.
Event ==
  /\ count.events < MaxEvents /\ Room
  /\ count' = [count EXCEPT !.events = @ + 1]

\* os.Remove, whose error is ignored: whoever has the file open goes on writing
\* to what nobody reads.
Unlink(k) ==
  \/ /\ disk' = [disk EXCEPT ![k] = None]
     /\ orphans' = orphans \cup {r \in Requests : At(r, "write") /\ req[r].key = k}
  \/ IOFailures /\ UNCHANGED <<disk, orphans>>

\* What a reader makes of a disk d: nothing, of the files it cannot read.
ReadsOf(d) ==
  {[k \in Keys |-> IF k \in bad THEN None ELSE d[k]] :
     bad \in IF IOFailures THEN SUBSET Keys ELSE {{}}}

-----------------------------------------------------------------------------
\* Cache.Get: what memory says, under the lock.
LookUp(r) ==
  LET k == req[r].key
  IN /\ At(r, "lookup")
     /\ \/ ~InMemory(mem, k) /\ Goto(r, "load") /\ UNCHANGED mem
        \/ /\ InMemory(mem, k)
           /\ IF Fresh(k, NodeOf(mem, k).e, mtime)
              THEN mem' = Touch(mem, k, NodeOf(mem, k).e) /\ Return(r)
              ELSE mem' = Drop(mem, k) /\ Goto(r, "reserve")
     /\ UNCHANGED <<disk, mtime, unlinks, orphans, moneyVars, sweep, count>>

\* The file, read and compared with the source without the lock.
LoadFromDisk(r) ==
  LET k == req[r].key
  IN /\ At(r, "load")
     /\ \E d \in ReadsOf(disk) :
          req' = [req EXCEPT ![r].e = IF Readable(d[k]) /\ Fresh(k, d[k], mtime) THEN d[k] ELSE None,
                             ![r].pc = IF ~Readable(d[k]) THEN "reserve"
                                       ELSE IF Fresh(k, d[k], mtime) THEN "promote"
                                       ELSE "unlink"]
     /\ UNCHANGED <<cacheVars, moneyVars, sweep, count>>

UnlinkStale(r) ==
  /\ At(r, "unlink")
  /\ Unlink(req[r].key)
  /\ Goto(r, "reserve")
  /\ UNCHANGED <<mem, mtime, unlinks, moneyVars, sweep, count>>

PromoteLoaded(r) ==
  /\ At(r, "promote")
  /\ mem' = Promote(mem, req[r].key, req[r].e)
  /\ Return(r)
  /\ UNCHANGED <<disk, mtime, unlinks, orphans, moneyVars, sweep, count>>

-----------------------------------------------------------------------------
\* A method of the budget finds that the day has changed: the calls whose
\* reservation goes with the old day can still commit into the new one.
Carry == carried' = IF meter.day = today THEN carried ELSE Cost(Waiting)

\* appendLedger, at the end of a method that has found the day to be today: by
\* the time its line takes, tomorrow may have begun.
Enter(type, usd) ==
  LET line == [type |-> type, usd |-> usd, day |-> today']
  IN /\ \/ today' = today /\ UNCHANGED count /\ ledger' = Appended(ledger, line)
        \/ today' = today + 1 /\ Event /\ ledger' = Appended(ledger, line)
        \/ /\ IOFailures /\ Event
           /\ today' \in {today, today + 1} /\ ledger' \in CutShort(ledger, line)
     /\ lost' = (lost \/ ledger' # Appended(ledger, line))
     /\ unseen' = IF today' = today THEN unseen ELSE usd

\* CheckAndReserve, for a call that is not answered by the cache.
CheckBudget(r) ==
  LET c == CostOfReq(r)
  IN /\ At(r, "reserve")
     /\ Carry
     /\ \/ /\ Fits(meter, c, today)
           /\ meter' = Reserve(meter, c, today)
           /\ Enter("reserve", c)
           /\ Goto(r, "post")
        \/ /\ ~Fits(meter, c, today)
           /\ meter' = RollOver(meter, today)
           /\ Return(r)
           /\ UNCHANGED <<ledger, today, lost, unseen, count>>
     /\ UNCHANGED <<cacheVars, calls, served, sweep>>

\* postJSON: an attempt gets an answer,
Answered(r) ==
  /\ At(r, "post")
  /\ count' = [count EXCEPT !.answers = @ + 1]
  /\ served' = served + CostOfReq(r)
  /\ req' = [req EXCEPT ![r].pc = "answered", ![r].tries = 0,
                          ![r].e = [ver |-> count'.answers, at |-> 0]]
  /\ UNCHANGED <<cacheVars, meter, ledger, calls, today, carried, unseen, lost, sweep>>

\* or it fails, on a 5xx or in transport, and is tried again after a pause,
Retry(r) ==
  /\ At(r, "post")
  /\ req[r].tries + 1 < MaxRetries
  /\ req' = [req EXCEPT ![r].tries = @ + 1]
  /\ UNCHANGED <<cacheVars, moneyVars, sweep, count>>

\* or the call fails: too many attempts, a 4xx, a body cut short, or its
\* context ends.
GiveUp(r) ==
  /\ At(r, "post")
  /\ req' = [req EXCEPT ![r].pc = "failed", ![r].tries = 0]
  /\ UNCHANGED <<cacheVars, moneyVars, sweep, count>>

CommitCost(r, c) ==
  IF CostOfReq(r) = 0 THEN UNCHANGED <<meter, ledger, carried, today, lost, unseen, count>>
  ELSE /\ Carry
       /\ meter' = Commit(meter, c, today)
       /\ Enter("commit", c)

\* Mistake: the estimate is charged although no answer came.
ReleaseCharging(r) ==
  /\ At(r, "failed")
  /\ CommitCost(r, CostOfReq(r))
  /\ Return(r)
  /\ UNCHANGED <<cacheVars, calls, served, sweep>>

\* "Release budget reservation on failure (commit 0)": it releases nothing.
ReleaseFailed(r) ==
  /\ At(r, "failed")
  /\ CommitCost(r, 0)
  /\ Return(r)
  /\ UNCHANGED <<cacheVars, calls, served, sweep>>

CommitAnswered(r) ==
  /\ At(r, "answered")
  /\ CommitCost(r, CostOfReq(r))
  /\ Goto(r, "record")
  /\ UNCHANGED <<cacheVars, calls, served, sweep>>

\* Record, whose line may be lost like one of the ledger.
RecordCall(r) ==
  LET line == [usd |-> CostOfReq(r), day |-> today]
  IN /\ At(r, "record")
     /\ \/ calls' = Appended(calls, line) /\ UNCHANGED <<lost, count>>
        \/ IOFailures /\ Event /\ calls' \in CutShort(calls, line) /\ lost' = TRUE
     /\ Goto(r, "stat")
     /\ UNCHANGED <<cacheVars, meter, ledger, today, served, carried, unseen, sweep>>

-----------------------------------------------------------------------------
\* Cache.Put: the stat of the source file,
SnapshotMtime(r) ==
  /\ At(r, "stat")
  /\ req' = [req EXCEPT ![r].pc = "put",
                         ![r].e = [@ EXCEPT !.at = IF req[r].key \in Sourced THEN mtime ELSE 0]]
  /\ UNCHANGED <<cacheVars, moneyVars, sweep, count>>

\* the section under the lock,
PutInMemory(r) ==
  /\ At(r, "put")
  /\ mem' = PutMemory(mem, req[r].key, req[r].e)
  /\ Goto(r, "open")
  /\ UNCHANGED <<disk, mtime, unlinks, orphans, moneyVars, sweep, count>>

\* then saveToDisk: os.WriteFile truncates the file,
OpenFile(r) ==
  /\ At(r, "open")
  /\ disk' = [disk EXCEPT ![req[r].key] = Blank]
  /\ Goto(r, "write")
  /\ UNCHANGED <<mem, mtime, unlinks, orphans, moneyVars, sweep, count>>

\* and writes it from its start: over what another writer has written since it
\* was truncated, of which the end stays if it was longer.
WriteFile(r) ==
  LET k == req[r].key
  IN /\ At(r, "write")
     /\ \/ r \in orphans /\ UNCHANGED disk
        \/ r \notin orphans /\ disk' = [disk EXCEPT ![k] = req[r].e]
        \/ r \notin orphans /\ disk[k] # Blank /\ disk' = [disk EXCEPT ![k] = Torn]
     /\ orphans' = orphans \ {r}
     /\ Return(r)
     /\ UNCHANGED <<mem, mtime, unlinks, moneyVars, sweep, count>>

\* The entry cannot be marshalled or the file not opened, and the old one
\* stays; or the write fails at its first byte or at a later one. The error is
\* logged, and memory keeps the entry.
SaveFails(r) ==
  LET k == req[r].key
  IN /\ IOFailures /\ req[r].pc \in {"open", "write"}
     /\ Event
     /\ disk' \in {disk} \cup (IF At(r, "write") /\ r \notin orphans
                              THEN {[disk EXCEPT ![k] = Torn]} ELSE {})
     /\ orphans' = orphans \ {r}
     /\ Return(r)
     /\ UNCHANGED <<mem, mtime, unlinks, moneyVars, sweep>>

Call(r, k) ==
  /\ At(r, "idle")
  /\ count.calls < MaxCalls /\ Room
  /\ count' = [count EXCEPT !.calls = @ + 1]
  /\ req' = [req EXCEPT ![r] = [Idle EXCEPT !.pc = "lookup", !.key = k]]
  /\ UNCHANGED <<cacheVars, moneyVars, sweep>>

Step(r) ==
  \/ LookUp(r) \/ LoadFromDisk(r) \/ UnlinkStale(r) \/ PromoteLoaded(r)
  \/ CheckBudget(r) \/ Answered(r) \/ Retry(r) \/ GiveUp(r) \/ ReleaseFailed(r)
  \/ CommitAnswered(r) \/ RecordCall(r)
  \/ SnapshotMtime(r) \/ PutInMemory(r) \/ OpenFile(r) \/ WriteFile(r) \/ SaveFails(r)

-----------------------------------------------------------------------------
StartSweep(pc) ==
  /\ sweep.pc = "idle"
  /\ Event
  /\ sweep' = [NoSweep EXCEPT !.pc = pc, !.seen = mtime]

\* Cache.Clear, of this process or of "tokens clear-cache", whose memory is
\* another one: memory first, then the files that ReadDir finds.
StartClear ==
  /\ StartSweep("list")
  /\ mem' \in {Empty, mem}
  /\ UNCHANGED <<disk, mtime, unlinks, orphans, moneyVars, req>>

ListFiles ==
  /\ sweep.pc = "list"
  /\ sweep' = [sweep EXCEPT !.pc = "remove", !.todo = {k \in Keys : disk[k] # None}]
  /\ UNCHANGED <<cacheVars, moneyVars, req, count>>

RemoveFile ==
  /\ sweep.pc = "remove"
  /\ \/ \E k \in sweep.todo :
          /\ Unlink(k)
          /\ sweep' = [sweep EXCEPT !.todo = @ \ {k}]
     \/ sweep.todo = {} /\ sweep' = NoSweep /\ UNCHANGED <<disk, orphans>>
  /\ UNCHANGED <<mem, mtime, unlinks, moneyVars, req, count>>

\* InvalidateByMtime: the stat, then memory under the lock, then a goroutine
\* for each file.
StatSource == StartSweep("invalidate") /\ UNCHANGED <<cacheVars, moneyVars, req>>

InvalidateByMtime ==
  LET stale == Stale(mem, sweep.seen)
  IN /\ sweep.pc = "invalidate"
     /\ mem' = Invalidate(mem, sweep.seen)
     /\ unlinks' = [k \in Keys |-> unlinks[k] + IF k \in stale THEN 1 ELSE 0]
     /\ sweep' = NoSweep
     /\ UNCHANGED <<disk, mtime, orphans, moneyVars, req, count>>

UnlinkInvalid(k) ==
  /\ unlinks[k] > 0
  /\ unlinks' = [unlinks EXCEPT ![k] = @ - 1]
  /\ Unlink(k)
  /\ UNCHANGED <<mem, mtime, moneyVars, req, sweep, count>>

\* Outside: the source file changes or goes away, the day ends.
EditSource ==
  /\ Event
  /\ mtime' \in {0, count.events + 2}
  /\ UNCHANGED <<mem, disk, unlinks, orphans, moneyVars, req, sweep>>

Midnight ==
  /\ Event
  /\ today' = today + 1 /\ unseen' = 0
  /\ UNCHANGED <<cacheVars, meter, ledger, calls, served, carried, lost, req, sweep>>

\* The process dies; NewCache and NewBudget of the next one read the disk. The
\* reading of the ledger may fail, and what was read until then counts; the day
\* may end between the two readings of the clock.
Restart ==
  /\ count.events < MaxEvents /\ Room
  /\ count' = [count EXCEPT !.events = @ + 1, !.restarts = @ + 1]
  /\ req' = [r \in Requests |-> Idle]
  /\ sweep' = NoSweep
  /\ unlinks' = [k \in Keys |-> 0] /\ orphans' = {}
  /\ \E d \in ReadsOf(disk) : mem' \in Warm(d)
  /\ today' \in {today, today + 1}
  /\ LET all == Replay(ledger.lines, today')
         Start(n) == Replay(SubSeq(ledger.lines, 1, n), today')
     IN \/ meter' = [all EXCEPT !.day = today] /\ unseen' = 0
        \/ /\ IOFailures /\ unseen' = all.spent + all.reserved
           /\ \E n \in 0..Len(ledger.lines) : meter' = [Start(n) EXCEPT !.day = today]
  /\ carried' = unseen + IF meter.day = today THEN carried ELSE 0
  /\ UNCHANGED <<disk, mtime, ledger, calls, served, lost>>

Anything ==
  \/ \E r \in Requests : Step(r) \/ (\E k \in Keys : Call(r, k))
  \/ StartClear \/ ListFiles \/ RemoveFile
  \/ StatSource \/ InvalidateByMtime \/ \E k \in Keys : UnlinkInvalid(k)
  \/ EditSource \/ Midnight \/ Restart

\* What this step does to raced: a Put begins while nobody else uses the file; a
\* save ends that has not left its entry in the file.
Afresh ==
  {k \in Keys : Uses(k) = 0 /\ \E r \in Requests : At(r, "put") /\ req[r].key = k /\ req'[r].pc = "open"}

Unsaved ==
  {k \in Keys : \E r \in Requests :
     /\ req[r].key = k /\ req[r].pc \in {"open", "write"}
     /\ req'[r].pc = "idle" /\ disk'[k] # req[r].e}

Next ==
  /\ Anything
  /\ raced' = IF count'.restarts # count.restarts THEN {}
              ELSE (raced \ Afresh) \cup Overlap \cup Unsaved

Spec == Init /\ [][Next]_vars

-----------------------------------------------------------------------------
\* The memory stays within its capacity and points only at nodes it has,
\* although two Gets that loaded one file leave two nodes for a key. And memory
\* and file agree again, whatever overlapped or failed before, once a Put has had
\* the file to itself from its section under the lock to the end of its write,
\* or the process has started again; until the next overlap or failure.
CacheSound ==
  /\ Sound(mem)
  /\ \A k \in DOMAIN mem.lru \ raced :
       Uses(k) = 0 /\ Readable(disk[k]) => disk[k] = NodeOf(mem, k).e

\* A day's spending and reservations exceed the limit by no more than what was
\* not checked on that day: the calls under way when it began, a line that took
\* its date after midnight, and lines a process could not read when it started.
\* And while there is no such thing, no call's reservation is given to another.
WithinLimit ==
  /\ meter.spent + meter.reserved <= Limit + carried
  /\ meter.day = today /\ carried = 0 => meter.reserved >= Cost(Waiting)

\* Each answer of the server is charged once and recorded once, one of the cache
\* never: with the books as they are after any failed writes, short lines and
\* crashes nothing is counted twice, and without them nothing is missing. A
\* process that starts now reads from the ledger the meter this one has; after
\* lost lines and unread ones it reads no more than that and what is unseen.
BooksAgree ==
  LET charged  == Committed(ledger.lines) + Cost({r \in Requests : At(r, "answered")})
      recorded == SummaryTotal(calls.lines, 1) + Cost({r \in Requests : At(r, "record")})
      next == Replay(ledger.lines, today)
      this == RollOver(meter, today)
  IN /\ charged <= served /\ recorded <= served
     /\ ~lost => recorded <= Committed(ledger.lines)
     /\ ~lost /\ count.restarts = 0 => charged = served /\ recorded = Committed(ledger.lines)
     /\ ~lost /\ unseen = 0 => next = this
     /\ next.spent <= this.spent + unseen
     /\ next.spent + next.reserved <= this.spent + this.reserved + unseen
=============================================================================
