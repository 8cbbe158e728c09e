------------------------------- MODULE Journal -------------------------------
(***************************************************************************)
(* The journal of a team: internal/team/journal.go. Several handles (the   *)
(* *Journal values of one or of several processes) use one file guarded by *)
(* an flock. A handle's j.mu serialises its calls, so a handle has one     *)
(* call in flight, and pc says where that call is.                         *)
(*                                                                         *)
(* The file is its sequence of terminated lines plus, if torn, the bytes   *)
(* of an unterminated one. A line is the number of the record it holds, or *)
(* Garbled when the record was appended to the bytes of a torn line: the   *)
(* two run together and decodeLine fails.                                  *)
(***************************************************************************)
EXTENDS Naturals, Sequences

CONSTANTS
  Handles,         \* the open or closed *Journal values
  NoHandle,        \* the flock is free
  Garbled,         \* a line that is not one record
  WriteFailures,   \* write(2) or fsync(2) may fail under a live process
  ReadFailures,    \* read(2) may fail in a recovery
  MaxRecords       \* bound on the number of Append calls that write a line

ASSUME JournalAssumption ==
  /\ NoHandle \notin Handles
  /\ Garbled \notin Nat
  /\ WriteFailures \in BOOLEAN
  /\ ReadFailures \in BOOLEAN
  /\ MaxRecords \in Nat

VARIABLES
  lines,    \* the terminated lines of journal.ndjson
  torn,     \* bytes follow the last newline
  synced,   \* the lines an fsync has covered
  lock,     \* who holds the flock on journal.lock
  pc,       \* where the call of each handle is
  scan,     \* what RecoverTornTail found: the lines up to the last newline it
            \* read, whether the file goes on, and whether its read failed
  undone,   \* the files that a truncation shortened and no sync has yet covered
  rec,      \* the record the handle's last write put in the file
  acked,    \* the records whose Append returned nil
  lost,     \* the lines cut off by a recovery whose read failed
  failed    \* a write has failed under a live process

file == <<lines, torn, synced, undone>>
vars == <<file, lock, pc, scan, rec, acked, lost, failed>>

\* Every written record has a number of its own.
Records == 1..MaxRecords

Line == Records \cup {Garbled}

PC == {"closed", "locked", "scanned", "open", "written", "closing"}

TypeOK ==
  /\ lines \in Seq(Line)
  /\ torn \in BOOLEAN
  /\ synced \in 0..Len(lines)
  /\ lock \in Handles \cup {NoHandle}
  /\ pc \in [Handles -> PC]
  /\ scan \in [Handles -> [cut : Nat, torn : BOOLEAN, err : BOOLEAN]]
  /\ undone \in SUBSET Seq(Line)
  /\ rec \in [Handles -> Nat]
  /\ acked \in SUBSET Records
  /\ lost \in SUBSET Line
  /\ failed \in BOOLEAN

NoScan == [cut |-> 0, torn |-> FALSE, err |-> FALSE]

Init ==
  /\ lines = <<>> /\ torn = FALSE /\ synced = 0
  /\ lock = NoHandle
  /\ pc = [h \in Handles |-> "closed"]
  /\ scan = [h \in Handles |-> NoScan]
  /\ undone = {}
  /\ rec = [h \in Handles |-> 0]
  /\ acked = {} /\ lost = {}
  /\ failed = FALSE

-----------------------------------------------------------------------------
\* The position of handle h's call moves on.
Goto(h, to) == pc' = [pc EXCEPT ![h] = to]

\* Mistake: the lock is only tried, its failure ignored.
LockIgnored(h) ==
  /\ pc[h] = "closed"
  /\ lock' = IF lock = NoHandle THEN h ELSE lock
  /\ Goto(h, "locked")
  /\ UNCHANGED <<file, scan, rec, acked, lost, failed>>

\* OpenJournal gets the flock and opens the file. While another handle holds
\* the lock the call polls it, and after 5 s gives up without any effect.
Lock(h) ==
  /\ pc[h] = "closed"
  /\ lock = NoHandle
  /\ lock' = h
  /\ Goto(h, "locked")
  /\ UNCHANGED <<file, scan, rec, acked, lost, failed>>

\* RecoverTornTail: the size of the file and the position of its last newline.
Scan(h) ==
  /\ pc[h] = "locked"
  /\ scan' = [scan EXCEPT ![h] = [cut |-> Len(lines), torn |-> torn, err |-> FALSE]]
  /\ Goto(h, "scanned")
  /\ UNCHANGED <<file, lock, rec, acked, lost, failed>>

\* A read error ends the scan as the end of the file does: the last newline is
\* the last one before the error. (Behind the last newline it changes nothing.)
ScanFails(h) ==
  /\ ReadFailures
  /\ pc[h] = "locked"
  /\ \E k \in 0..Len(lines) :
       /\ k < Len(lines)
       /\ scan' = [scan EXCEPT ![h] = [cut |-> k, torn |-> TRUE, err |-> TRUE]]
  /\ Goto(h, "scanned")
  /\ UNCHANGED <<file, lock, rec, acked, lost, failed>>

\* Mistake: a torn tail is left in place.
NoTruncate(h) ==
  /\ pc[h] = "scanned"
  /\ scan' = [scan EXCEPT ![h] = NoScan]
  /\ Goto(h, "open")
  /\ UNCHANGED <<file, lock, rec, acked, lost, failed>>

\* The lines behind the newline that handle h's scan found.
Behind(h) == {lines[i] : i \in (scan[h].cut + 1)..Len(lines)}

\* Everything after the newline that was found goes, if anything was there.
\* The truncation is not synced.
Truncate(h) ==
  /\ pc[h] = "scanned"
  /\ IF scan[h].torn
     THEN /\ lines' = SubSeq(lines, 1, scan[h].cut)
          /\ torn' = FALSE
          /\ synced' = IF scan[h].cut < synced THEN scan[h].cut ELSE synced
          /\ undone' = IF scan[h].cut < Len(lines) THEN undone \cup {lines} ELSE undone
          /\ lost' = IF scan[h].err THEN lost \cup Behind(h) ELSE lost
     ELSE UNCHANGED <<file, lost>>
  /\ scan' = [scan EXCEPT ![h] = NoScan]
  /\ Goto(h, "open")
  /\ UNCHANGED <<lock, rec, acked, failed>>

-----------------------------------------------------------------------------
Fresh(r) == r \in Records /\ \A h \in Handles : rec[h] < r

\* EncodeEnvelope writes the whole line, behind whatever the file ends with.
Write(h) ==
  \E r \in Records :
    /\ pc[h] = "open"
    /\ Fresh(r) /\ \A q \in Records : Fresh(q) => r <= q
    /\ lines' = Append(lines, IF torn THEN Garbled ELSE r)
    /\ torn' = FALSE
    /\ rec' = [rec EXCEPT ![h] = r]
    /\ Goto(h, "written")
    /\ UNCHANGED <<synced, undone, lock, scan, acked, lost, failed>>

\* The write fails after some of the bytes (a full disk), and the process
\* lives on: Append returns the error and leaves the file as it is.
WriteFails(h) ==
  /\ WriteFailures
  /\ pc[h] = "open"
  /\ torn' = TRUE
  /\ failed' = TRUE
  /\ UNCHANGED <<lines, synced, undone, lock, pc, scan, rec, acked, lost>>

\* Mistake: Append returns before the data is on disk.
AckWithoutSync(h) ==
  /\ pc[h] = "written"
  /\ acked' = acked \cup {rec[h]}
  /\ Goto(h, "open")
  /\ UNCHANGED <<file, lock, scan, rec, lost, failed>>

\* f.Sync succeeds and Append returns nil.
Sync(h) ==
  /\ pc[h] = "written"
  /\ synced' = Len(lines) /\ undone' = {}
  /\ acked' = acked \cup {rec[h]}
  /\ Goto(h, "open")
  /\ UNCHANGED <<lines, torn, lock, scan, rec, lost, failed>>

SyncFails(h) ==
  /\ WriteFailures
  /\ pc[h] = "written"
  /\ Goto(h, "open")
  /\ UNCHANGED <<file, lock, scan, rec, acked, lost, failed>>

-----------------------------------------------------------------------------
\* Close: the flock is released first, then the file is closed.
Release(h) ==
  /\ pc[h] = "open"
  /\ lock' = NoHandle
  /\ Goto(h, "closing")
  /\ UNCHANGED <<file, scan, rec, acked, lost, failed>>

CloseFile(h) ==
  /\ pc[h] = "closing"
  /\ Goto(h, "closed")
  /\ UNCHANGED <<file, lock, scan, rec, acked, lost, failed>>

\* The process dies; the kernel drops its lock. If it was writing, a part of
\* the line may be in the file. An OpenJournal that fails in its recovery
\* (Stat, Seek or Truncate) leaves the same behind.
Crash(h) ==
  /\ pc[h] # "closed"
  /\ torn' \in IF pc[h] = "open" THEN {torn, TRUE} ELSE {torn}
  /\ lock' = IF lock = h THEN NoHandle ELSE lock
  /\ scan' = [scan EXCEPT ![h] = NoScan]
  /\ Goto(h, "closed")
  /\ UNCHANGED <<lines, synced, undone, rec, acked, lost, failed>>

\* The machine dies: what no fsync covered is lost from some point on. What a
\* recovery cut off, a torn tail or lines, may also be back, since
\* RecoverTornTail does not sync its truncation.
PowerLoss ==
  /\ \E s \in undone \cup {lines} :
       \E k \in synced..Len(s) : lines' = SubSeq(s, 1, k)
  /\ torn' \in BOOLEAN
  /\ undone' = {}
  /\ lock' = NoHandle
  /\ pc' = [h \in Handles |-> "closed"]
  /\ scan' = [h \in Handles |-> NoScan]
  /\ UNCHANGED <<synced, rec, acked, lost, failed>>

Next ==
  \/ \E h \in Handles :
       \/ Lock(h) \/ Scan(h) \/ ScanFails(h) \/ Truncate(h)
       \/ Write(h) \/ WriteFails(h) \/ Sync(h) \/ SyncFails(h)
       \/ Release(h) \/ CloseFile(h) \/ Crash(h)
  \/ PowerLoss

Spec == Init /\ [][Next]_vars

-----------------------------------------------------------------------------
\* journal.Read returns all lines, or fails on the first that is not a record.
Reads == \A i \in 1..Len(lines) : lines[i] # Garbled

\* A record whose Append returned nil can be read back, whatever crashed
\* since: journal.go:19, "an append-only, crash-safe log".
AckedIsReadable ==
  Reads /\ \A r \in acked : \E i \in 1..Len(lines) : lines[i] = r

\* It can, as long as no write has failed under a process that lived on and
\* no recovery has cut it off because its own read failed.
AckedIsReadableUnlessFailed ==
  ~failed => Reads /\ \A r \in acked \ lost : \E i \in 1..Len(lines) : lines[i] = r

\* While a handle is open nobody else is between its lock and its close, and
\* the file it appends to ends with a newline, so that no record runs into a
\* torn one, unless a write has failed.
OpenEndsClean ==
  \A h \in Handles :
     pc[h] \in {"open", "written"} =>
        /\ torn => failed
        /\ \A g \in Handles \ {h} : pc[g] \in {"closed", "closing"}

\* This step is the truncation of a recovery whose read failed.
CutsMisread(h) ==
  /\ pc[h] = "scanned" /\ scan[h].err
  /\ lines' = SubSeq(lines, 1, scan[h].cut)

\* A line an fsync has covered is only ever removed by a recovery whose read
\* failed, together with every line behind it; no other recovery, no failing
\* write and no crash touches it.
SyncedLinesKept ==
  [][\/ \E h \in Handles : CutsMisread(h)
     \/ /\ synced' >= synced
        /\ \A i \in 1..synced : i <= Len(lines') /\ lines'[i] = lines[i]]_vars

\* The number of lines of s before the first that is not a record.
CleanLength(s) ==
  CHOOSE n \in 0..Len(s) :
    /\ \A i \in 1..n : s[i] # Garbled
    /\ n < Len(s) => s[n + 1] = Garbled

Clean(s) == SubSeq(s, 1, CleanLength(s))

Log == INSTANCE DurableLog WITH
         Entries <- Records,
         Damages <- ReadFailures,
         log     <- Clean(lines),
         durable <- IF synced < CleanLength(lines) THEN synced ELSE CleanLength(lines),
         earlier <- {Clean(s) : s \in undone},
         failing <- \E h \in Handles : pc[h] = "scanned" /\ scan[h].err

\* With its locks, recoveries, closes and crashes, the journal is a durable
\* log of whole records, the lines before a garbled one if writes may fail;
\* only a recovery whose read failed damages it, once, by cutting its end.
ImplementsDurableLog == Log!Spec
=============================================================================
