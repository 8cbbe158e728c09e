------------------------------ MODULE TeamMail ------------------------------
(***************************************************************************)
(* The mailboxes of a team and what runs around them: SendMessage, Inbox   *)
(* and Close (internal/team/team.go), the worker wrapper RunWorker         *)
(* (panic.go) and the goroutine of the stall detector (stalled.go).        *)
(*                                                                         *)
(* A mailbox is a Go channel with a bounded buffer, and the map from a     *)
(* worker to its channel changes: channels are numbered in the order in    *)
(* which they are made, a thread keeps the number of the one it looked up. *)
(* The journal is the abstract log Journal implements; only which messages *)
(* it holds matters here. Of the task calls, only TaskUpdate's progress is *)
(* here: that TaskCreate makes its owner's mailbox, as Inbox does, and the *)
(* numbers they draw are left out.                                         *)
(***************************************************************************)
EXTENDS Naturals, Sequences, FiniteSets

CONSTANTS
  Workers,         \* worker ids, the keys of Team.mailboxes
  Threads,         \* goroutines that send messages
  Runs,            \* thread -> the worker it runs as under RunWorker, or None
  None,
  Cap,             \* mailboxCap
  Threshold,       \* clock steps without progress that are not yet a stall
  MaxSeq,          \* bound on the messages and broadcasts
  MaxChans,        \* bound on the channels made
  AppendFailures   \* whether Journal.Append may fail on an open journal

ASSUME RunsAssumption == None \notin Workers /\ DOMAIN Runs = Threads
ASSUME BoundsAssumption == Cap \in Nat \ {0} /\ {Threshold, MaxSeq, MaxChans} \subseteq Nat
ASSUME AppendFailuresAssumption == AppendFailures \in BOOLEAN

VARIABLES
  box,       \* Team.mailboxes: worker -> channel, 0 without a key
  made,      \* how many channels have been made
  buffer,    \* channel -> the messages in it
  closed,    \* the closed channels
  seq,       \* the next sequence number
  journaled, \* the numbers of the journaled messages
  file,      \* "open" until Close has closed the journal
  pc,        \* where each thread is
  to,        \* SendMessage's argument
  ref,       \* the channel a SendMessage looked up
  msg,       \* the number of the envelope being sent
  todo,      \* a broadcast: the channels still to be tried
  late,      \* the thread's call began after Close had closed the mailboxes
  inbox,     \* the channel a worker's reader got from Inbox; 0 before
  reader,    \* "none", "reading" or "ended" (its range loop saw the close)
  received,  \* the messages that have been read
  accepted,  \* the messages whose SendMessage returned nil
  idle,      \* clock steps since lastProgress, up to Threshold + 1
  stalled,   \* StalledDetector.state = "stalled"
  done,      \* StalledDetector.done is closed
  overtaken, \* the last progress came after a check read lastProgress and
             \* before that check set the state
  reported,  \* a check that read the last progress has journaled its event
  dpc,       \* where the detector's goroutine is
  dmsg,      \* the number of its event
  dtodo,     \* the channels its broadcast has not tried
  cpc,       \* where Close is
  timedOut,  \* Stop gave up waiting for the detector
  dead       \* a panic nobody recovers has ended the process

mailVars == <<box, made, buffer, closed>>
logVars == <<seq, journaled, file>>
callVars == <<pc, to, ref, msg, todo, late, accepted>>
readVars == <<inbox, reader, received>>
detVars == <<stalled, done, overtaken, reported, dpc, dmsg, dtodo>>
closeVars == <<cpc, timedOut>>
vars == <<mailVars, logVars, callVars, readVars, idle, detVars, closeVars, dead>>

Chans == 1..MaxChans
Seqs == 0..MaxSeq

TypeOK ==
  /\ box \in [Workers -> Chans \cup {0}] /\ made \in 0..MaxChans
  /\ buffer \in [Chans -> Seq(Seqs)] /\ \A c \in Chans : Len(buffer[c]) <= Cap
  /\ closed \subseteq 1..made
  /\ seq \in 0..MaxSeq + 1 /\ journaled \subseteq Seqs /\ file \in {"open", "closed"}
  /\ pc \in [Threads -> {"idle", "create", "check", "append", "push",
                         "announce", "broadcast", "gone"}]
  /\ to \in [Threads -> Workers \cup {None}]
  /\ ref \in [Threads -> Chans \cup {0}]
  /\ msg \in [Threads -> Seqs] /\ todo \in [Threads -> SUBSET Chans]
  /\ late \in [Threads -> BOOLEAN]
  /\ accepted \subseteq Seqs
  /\ inbox \in [Workers -> Chans \cup {0}]
  /\ reader \in [Workers -> {"none", "reading", "ended"}]
  /\ received \subseteq Seqs
  /\ idle \in 0..Threshold + 1
  /\ stalled \in BOOLEAN /\ done \in BOOLEAN
  /\ overtaken \in BOOLEAN /\ reported \in BOOLEAN
  /\ dpc \in {"wait", "flag", "append", "broadcast", "gone"}
  /\ dmsg \in Seqs /\ dtodo \subseteq Chans
  /\ cpc \in {"none", "stop", "mailboxes", "journal", "closed"}
  /\ timedOut \in BOOLEAN /\ dead \in BOOLEAN

\* TeamCreate: no mailbox exists, and the detector starts its count now.
Created == box = [w \in Workers |-> 0] /\ made = 0 /\ idle = 0

\* lastProgress is the time of the newest record, however long ago that was.
ArmFromJournal == idle \in 0..Threshold + 1

\* Open makes the mailboxes of the workers that own a task, and leaves them
\* empty whatever was journaled.
Opened ==
  /\ made \in 0..MaxChans /\ box \in [Workers -> 0..made]
  /\ \A c \in 1..made : \E w \in Workers : {v \in Workers : box[v] = c} = {w}
  /\ ArmFromJournal

\* The detector runs, and nobody has called.
Init ==
  /\ Created \/ Opened
  /\ buffer = [c \in Chans |-> <<>>] /\ closed = {}
  /\ seq = 0 /\ journaled = {} /\ file = "open"
  /\ pc = [t \in Threads |-> "idle"] /\ to = [t \in Threads |-> None]
  /\ ref = [t \in Threads |-> 0] /\ msg = [t \in Threads |-> 0]
  /\ todo = [t \in Threads |-> {}] /\ late = [t \in Threads |-> FALSE]
  /\ accepted = {}
  /\ inbox = [w \in Workers |-> 0] /\ reader = [w \in Workers |-> "none"]
  /\ received = {}
  /\ stalled = FALSE /\ done = FALSE /\ overtaken = FALSE /\ reported = FALSE
  /\ dpc = "wait" /\ dmsg = 0 /\ dtodo = {}
  /\ cpc = "none" /\ timedOut = FALSE /\ dead = FALSE

-----------------------------------------------------------------------------
Goto(t, l) == pc' = [pc EXCEPT ![t] = l]

\* The channels in Team.mailboxes.
Mapped == {box[w] : w \in Workers} \ {0}

\* make(chan Message, mailboxCap), stored under w.
MakeBox(w) == made < MaxChans /\ made' = made + 1 /\ box' = [box EXCEPT ![w] = made + 1]

HasRoom(c) == Len(buffer[c]) < Cap

\* Mistake: progress is noted, the stalled state stays.
RecordTimeOnly ==
  /\ idle' = 0 /\ reported' = FALSE /\ overtaken' = (dpc = "flag")
  /\ UNCHANGED stalled

\* RecordProgress. The detector reads the two words it writes one at a time: a
\* check that is between the two reads has an age that is out of date.
RecordProgress ==
  /\ idle' = 0 /\ reported' = FALSE /\ overtaken' = (dpc = "flag")
  /\ stalled' = FALSE

-----------------------------------------------------------------------------
(* SendMessage.                                                            *)

\* The progress is noted and the mailbox looked up, under the read lock.
SendBegin(t, w) ==
  /\ pc[t] = "idle"
  /\ RecordProgress
  /\ to' = [to EXCEPT ![t] = w] /\ ref' = [ref EXCEPT ![t] = box[w]]
  /\ late' = [late EXCEPT ![t] = cpc \in {"journal", "closed"}]
  /\ Goto(t, IF box[w] = 0 THEN "create" ELSE "check")
  /\ UNCHANGED <<mailVars, logVars, msg, todo, accepted, readVars, done, dpc, dmsg,
                 dtodo, closeVars, dead>>

\* Mistake: the map is not looked at again under the write lock.
CreateUnchecked(t) ==
  /\ pc[t] = "create"
  /\ MakeBox(to[t])
  /\ ref' = [ref EXCEPT ![t] = made + 1]
  /\ Goto(t, "check")
  /\ UNCHANGED <<buffer, closed, logVars, to, msg, todo, late, accepted, readVars,
                 idle, detVars, closeVars, dead>>

\* Under the write lock: somebody may have made the mailbox in between.
Create(t) ==
  /\ pc[t] = "create"
  /\ \/ box[to[t]] = 0 /\ MakeBox(to[t])
     \/ box[to[t]] # 0 /\ UNCHANGED <<box, made>>
  /\ ref' = [ref EXCEPT ![t] = box'[to[t]]]
  /\ Goto(t, "check")
  /\ UNCHANGED <<buffer, closed, logVars, to, msg, todo, late, accepted, readVars,
                 idle, detVars, closeVars, dead>>

\* The locals of a call end with it.
Forget(t) ==
  /\ to' = [to EXCEPT ![t] = None] /\ ref' = [ref EXCEPT ![t] = 0]
  /\ msg' = [msg EXCEPT ![t] = 0] /\ late' = [late EXCEPT ![t] = FALSE]

Return(t) == Goto(t, "idle") /\ Forget(t)

\* The capacity test, then the next number; a full mailbox is refused.
Check(t) ==
  /\ pc[t] = "check"
  /\ \/ /\ ~HasRoom(ref[t])
        /\ Return(t)
        /\ UNCHANGED seq
     \/ /\ HasRoom(ref[t]) /\ seq < MaxSeq
        /\ msg' = [msg EXCEPT ![t] = seq] /\ seq' = seq + 1
        /\ Goto(t, "append")
        /\ UNCHANGED <<to, ref, late>>
  /\ UNCHANGED <<mailVars, journaled, file, todo, accepted, readVars, idle,
                 detVars, closeVars, dead>>

\* Mistake: the message is pushed although Append has failed.
AppendErrorIgnored(t) ==
  /\ pc[t] = "append"
  /\ \/ file = "open" /\ journaled' = journaled \cup {msg[t]}
     \/ (file = "closed" \/ AppendFailures) /\ UNCHANGED journaled
  /\ Goto(t, "push")
  /\ UNCHANGED <<mailVars, seq, file, to, ref, msg, todo, late, accepted, readVars,
                 idle, detVars, closeVars, dead>>

\* Journal.Append; the call ends with its error, as on a closed journal.
JournalMessage(t) ==
  /\ pc[t] = "append"
  /\ \/ /\ file = "open"
        /\ journaled' = journaled \cup {msg[t]}
        /\ Goto(t, "push")
        /\ UNCHANGED <<to, ref, msg, late>>
     \/ /\ file = "closed" \/ AppendFailures
        /\ Return(t)
        /\ UNCHANGED journaled
  /\ UNCHANGED <<mailVars, seq, file, todo, accepted, readVars, idle,
                 detVars, closeVars, dead>>

\* The deferred function of RunWorker starts with a TaskUpdate(failed), which
\* is progress.
Recovered(t) == RecordProgress /\ Goto(t, "announce") /\ Forget(t)

\* A send on a closed channel panics: RunWorker recovers it in a worker, in
\* another goroutine it ends the process.
SendPanics(t) ==
  \/ Runs[t] # None /\ Recovered(t) /\ UNCHANGED dead
  \/ /\ Runs[t] = None /\ dead' = TRUE
     /\ Goto(t, "gone") /\ Forget(t) /\ UNCHANGED <<idle, stalled, overtaken, reported>>

\* The non-blocking push: the mailbox may have filled up, or been closed.
Push(t) ==
  /\ pc[t] = "push"
  /\ \/ /\ ref[t] \in closed
        /\ SendPanics(t)
        /\ UNCHANGED <<buffer, accepted>>
     \/ /\ ref[t] \notin closed /\ HasRoom(ref[t])
        /\ buffer' = [buffer EXCEPT ![ref[t]] = Append(@, msg[t])]
        /\ accepted' = accepted \cup {msg[t]}
        /\ Return(t)
        /\ UNCHANGED <<idle, stalled, overtaken, reported, dead>>
     \/ /\ ref[t] \notin closed /\ ~HasRoom(ref[t])
        /\ Return(t)
        /\ UNCHANGED <<buffer, accepted, idle, stalled, overtaken, reported, dead>>
  /\ UNCHANGED <<box, made, closed, logVars, todo, readVars, done, dpc, dmsg, dtodo,
                 closeVars>>

-----------------------------------------------------------------------------
(* RunWorker: fn panics, and the deferred function tells the others.       *)

FnPanics(t) ==
  /\ pc[t] = "idle" /\ Runs[t] # None
  /\ Recovered(t)
  /\ UNCHANGED <<mailVars, logVars, todo, accepted, readVars, done, dpc, dmsg, dtodo,
                 closeVars, dead>>

\* The agent-down envelope, the error of Append ignored; then the map is
\* copied under the read lock, the worker's own mailbox skipped.
Announce(t) ==
  /\ pc[t] = "announce" /\ seq < MaxSeq
  /\ msg' = [msg EXCEPT ![t] = seq] /\ seq' = seq + 1
  /\ \/ file = "open" /\ journaled' = journaled \cup {seq}
     \/ (file = "closed" \/ AppendFailures) /\ UNCHANGED journaled
  /\ todo' = [todo EXCEPT ![t] = {box[w] : w \in Workers \ {Runs[t]}} \ {0}]
  /\ Goto(t, IF todo'[t] = {} THEN "gone" ELSE "broadcast")
  /\ UNCHANGED <<mailVars, file, to, ref, late, accepted, readVars, idle, detVars,
                 closeVars, dead>>

\* One mailbox, in the map's order; a full one is passed over. A panic here,
\* inside the deferred function, is recovered by nobody.
Broadcast(t, c) ==
  /\ pc[t] = "broadcast" /\ c \in todo[t]
  /\ todo' = [todo EXCEPT ![t] = @ \ {c}]
  /\ IF todo'[t] = {}
     THEN Goto(t, "gone") /\ Forget(t)
     ELSE UNCHANGED <<pc, to, ref, msg, late>>
  /\ \/ c \in closed /\ dead' = TRUE /\ UNCHANGED buffer
     \/ /\ c \notin closed /\ HasRoom(c)
        /\ buffer' = [buffer EXCEPT ![c] = Append(@, msg[t])]
        /\ UNCHANGED dead
     \/ c \notin closed /\ ~HasRoom(c) /\ UNCHANGED <<buffer, dead>>
  /\ UNCHANGED <<box, made, closed, logVars, accepted, readVars, idle, detVars,
                 closeVars>>

-----------------------------------------------------------------------------
\* TaskUpdate is progress; Team has the rest of it.
TaskProgress ==
  /\ RecordProgress
  /\ UNCHANGED <<mailVars, logVars, callVars, readVars, done, dpc, dmsg, dtodo, closeVars,
                 dead>>

-----------------------------------------------------------------------------
(* A worker's reader: Inbox once, then a range over the channel.           *)

\* Mistake: the new channel is returned without being stored.
InboxUnregistered(w) ==
  /\ reader[w] = "none"
  /\ \/ box[w] # 0 /\ UNCHANGED made /\ inbox' = [inbox EXCEPT ![w] = box[w]]
     \/ /\ box[w] = 0 /\ made < MaxChans
        /\ made' = made + 1 /\ inbox' = [inbox EXCEPT ![w] = made + 1]
  /\ reader' = [reader EXCEPT ![w] = "reading"]
  /\ UNCHANGED <<box, buffer, closed, logVars, callVars, received, idle, detVars,
                 closeVars, dead>>

Inbox(w) ==
  /\ reader[w] = "none"
  /\ \/ box[w] = 0 /\ MakeBox(w)
     \/ box[w] # 0 /\ UNCHANGED <<box, made>>
  /\ inbox' = [inbox EXCEPT ![w] = box'[w]]
  /\ reader' = [reader EXCEPT ![w] = "reading"]
  /\ UNCHANGED <<buffer, closed, logVars, callVars, received, idle, detVars,
                 closeVars, dead>>

Receive(w) ==
  /\ reader[w] = "reading" /\ buffer[inbox[w]] # <<>>
  /\ received' = received \cup {Head(buffer[inbox[w]])}
  /\ buffer' = [buffer EXCEPT ![inbox[w]] = Tail(@)]
  /\ UNCHANGED <<box, made, closed, logVars, callVars, inbox, reader, idle,
                 detVars, closeVars, dead>>

\* A closed channel is drained before the reader sees the close.
ReaderEnds(w) ==
  /\ reader[w] = "reading" /\ buffer[inbox[w]] = <<>> /\ inbox[w] \in closed
  /\ reader' = [reader EXCEPT ![w] = "ended"]
  /\ UNCHANGED <<mailVars, logVars, callVars, inbox, received, idle, detVars,
                 closeVars, dead>>

-----------------------------------------------------------------------------
(* The stall detector's goroutine, and the clock.                          *)

Clock ==
  /\ idle <= Threshold
  /\ idle' = idle + 1
  /\ UNCHANGED <<mailVars, logVars, callVars, readVars, detVars, closeVars, dead>>

\* check up to the age test, at a tick: lastProgress is loaded, nothing is
\* locked. A check that finds the team active changes nothing.
CheckAge ==
  /\ dpc = "wait" /\ idle > Threshold
  /\ dpc' = "flag"
  /\ UNCHANGED <<mailVars, logVars, callVars, readVars, idle, stalled, done, overtaken,
                 reported, dmsg, dtodo, closeVars, dead>>

\* The state flips under sd.mu; a team already stalled is not reported again.
Flag ==
  /\ dpc = "flag"
  /\ stalled' = TRUE
  /\ dpc' = IF stalled THEN "wait" ELSE "append"
  /\ UNCHANGED <<mailVars, logVars, callVars, readVars, idle, done, overtaken, reported,
                 dmsg, dtodo, closeVars, dead>>

\* The event takes a number and is journaled, the error ignored; then the map
\* is copied under the read lock. If there was progress since the check read
\* lastProgress, the event tells of an earlier silence.
JournalEvent ==
  /\ dpc = "append" /\ seq < MaxSeq
  /\ seq' = seq + 1
  /\ \/ file = "open" /\ journaled' = journaled \cup {seq}
     \/ (file = "closed" \/ AppendFailures) /\ UNCHANGED journaled
  /\ reported' = (stalled /\ ~overtaken)
  /\ dtodo' = Mapped
  /\ IF dtodo' = {} THEN dpc' = "wait" /\ UNCHANGED dmsg ELSE dpc' = "broadcast" /\ dmsg' = seq
  /\ UNCHANGED <<mailVars, file, callVars, readVars, idle, stalled, done, overtaken,
                 closeVars, dead>>

\* One mailbox, a full one is passed over. The goroutine recovers from the
\* panic of a send on a closed channel, and ends.
DetectorSends(c) ==
  /\ dpc = "broadcast" /\ c \in dtodo
  /\ \/ c \in closed /\ dpc' = "gone" /\ dtodo' = {} /\ UNCHANGED buffer
     \/ /\ c \notin closed
        /\ buffer' = IF HasRoom(c) THEN [buffer EXCEPT ![c] = Append(@, dmsg)] ELSE buffer
        /\ dtodo' = dtodo \ {c}
        /\ dpc' = IF dtodo' = {} THEN "wait" ELSE "broadcast"
  /\ dmsg' = IF dtodo' = {} THEN 0 ELSE dmsg
  /\ UNCHANGED <<box, made, closed, logVars, callVars, readVars, idle, stalled, done,
                 overtaken, reported, closeVars, dead>>

DetectorEnds ==
  /\ dpc = "wait" /\ done
  /\ dpc' = "gone"
  /\ UNCHANGED <<mailVars, logVars, callVars, readVars, idle, stalled, done,
                 overtaken, reported, dmsg, dtodo, closeVars, dead>>

-----------------------------------------------------------------------------
(* Close.                                                                  *)

\* Stop closes the detector's done channel.
CloseBegin ==
  /\ cpc = "none"
  /\ cpc' = "stop"
  /\ done' = TRUE
  /\ UNCHANGED <<mailVars, logVars, callVars, readVars, idle, stalled, overtaken,
                 reported, dpc, dmsg, dtodo, timedOut, dead>>

\* Stop returns when the detector has ended, or after 100 ms.
StopReturns ==
  /\ cpc = "stop"
  /\ cpc' = "mailboxes"
  /\ timedOut' = (dpc # "gone")
  /\ UNCHANGED <<mailVars, logVars, callVars, readVars, idle, detVars, dead>>

\* Mistake: the closed channels stay in the map.
CloseBoxesKeepMap ==
  /\ cpc = "mailboxes"
  /\ closed' = closed \cup Mapped
  /\ cpc' = "journal"
  /\ UNCHANGED <<box, made, buffer, logVars, callVars, readVars, idle, detVars,
                 timedOut, dead>>

CloseBoxes ==
  /\ cpc = "mailboxes"
  /\ closed' = closed \cup Mapped
  /\ box' = [w \in Workers |-> 0]
  /\ cpc' = "journal"
  /\ UNCHANGED <<made, buffer, logVars, callVars, readVars, idle, detVars, timedOut,
                 dead>>

CloseJournal ==
  /\ cpc = "journal"
  /\ file' = "closed"
  /\ cpc' = "closed"
  /\ UNCHANGED <<mailVars, seq, journaled, callVars, readVars, idle, detVars, timedOut,
                 dead>>

-----------------------------------------------------------------------------
Send(t) ==
  \/ \E w \in Workers : SendBegin(t, w)
  \/ Create(t) \/ Check(t) \/ JournalMessage(t) \/ Push(t)

Worker(t) == FnPanics(t) \/ Announce(t) \/ \E c \in Chans : Broadcast(t, c)

Reader(w) == Inbox(w) \/ Receive(w) \/ ReaderEnds(w)

Detector ==
  \/ CheckAge \/ Flag \/ JournalEvent
  \/ \E c \in Chans : DetectorSends(c)

Close == CloseBegin \/ StopReturns \/ CloseBoxes \/ CloseJournal

Next ==
  /\ ~dead
  /\ \/ \E t \in Threads : Send(t) \/ Worker(t)
     \/ \E w \in Workers : Reader(w)
     \/ TaskProgress
     \/ Clock \/ Detector \/ DetectorEnds \/ Close

Spec == Init /\ [][Next]_vars

(***************************************************************************)
(* The clock runs, and the Go scheduler runs every goroutine that can run: *)
(* the detector, a reader, and Close once it has begun. The select of the  *)
(* detector picks among a tick and done at random, so done is taken in the *)
(* end. Nobody has to send, to panic or to call Close.                     *)
(***************************************************************************)
FairSpec ==
  /\ Spec
  /\ WF_vars(~dead /\ Clock) /\ WF_vars(~dead /\ Detector)
  /\ SF_vars(~dead /\ DetectorEnds)
  /\ \A w \in Workers : WF_vars(~dead /\ (Receive(w) \/ ReaderEnds(w)))
  /\ WF_vars(~dead /\ (StopReturns \/ CloseBoxes \/ CloseJournal))

-----------------------------------------------------------------------------
\* Durability first: a message somebody may read was accepted only after it
\* was journaled (team.go:440), however Close and failing writes fall.
JournaledFirst == accepted \subseteq journaled

\* A message whose SendMessage returned nil has been read, or lies in a
\* channel that Inbox hands out or that a Close has closed for draining, within
\* its capacity: the concurrent first uses of a mailbox agree on one channel.
AcceptedIsReachable ==
  /\ \A m \in accepted :
       \/ m \in received
       \/ \E c \in Mapped \cup closed : \E i \in DOMAIN buffer[c] : buffer[c][i] = m
  /\ \A c \in Chans : Len(buffer[c]) <= Cap

\* Close leaves nobody a closed channel to send on, except a call it overlaps:
\* a SendMessage that begins when the mailboxes are closed finds none of them,
\* and the detector, stopped first, tries one only if Stop gave up waiting for
\* it (team.go:543).
ClosedIsLeft ==
  /\ \A t \in Threads : late[t] /\ ref[t] # 0 => ref[t] \notin closed
  /\ dpc = "broadcast" /\ dtodo \cap closed # {} => timedOut

\* Nothing more is numbered: the bound is reached.
Room == seq < MaxSeq

\* "If no progress is recorded for longer than threshold, it broadcasts a
\* team-event:stalled envelope" (stalled.go:15): a silence has an event of its
\* own, after each progress and after a restart, unless the team is closed. The
\* exception is a silence that begins with an overtaken check, one that read
\* lastProgress before the progress and sets the state after it: the event is
\* that of the silence before, and every later check finds the team stalled
\* already, until the next progress.
QuietIsReportedUnlessOvertaken ==
  idle > Threshold
    ~> idle = 0 \/ (stalled /\ reported) \/ done \/ dead \/ ~Room \/ overtaken

\* Once Close has begun the detector's goroutine ends, and does not leak; and
\* Close wakes every reader that called Inbox before it closed the mailboxes.
CloseEndsAll ==
  /\ cpc # "none" ~> dpc = "gone" \/ dead \/ ~Room
  /\ \A w \in Workers :
       reader[w] = "reading" /\ cpc \in {"stop", "mailboxes"}
         ~> reader[w] = "ended" \/ dead
=============================================================================
