---------------------------- MODULE WorkerTransport ----------------------------
(***************************************************************************)
(* "clue-code team demo" (cmd/clue-code/team.go) and what it runs on: the  *)
(* two transports (internal/team/inproc.go, subprocess.go, transport.go)   *)
(* and the worker process (cmd/clue-code/team_worker.go). The parent sends *)
(* numbered pings to a worker from one goroutine and counts the acks in    *)
(* another one. The pairs of a demo meet in a channel of results only,     *)
(* which has room for each; this is one of them.                           *)
(*                                                                         *)
(* An envelope is the number of its ping. A pipe to a subprocess has room  *)
(* for some; a write to an io.Pipe returns when its envelope has been read.*)
(***************************************************************************)
EXTENDS Naturals, Sequences

CONSTANTS
  MaxPings,  \* msgsPerWorker, 100 in the code
  PipeRoom   \* envelopes that fit in a pipe of the system

ASSUME TransportAssumption == MaxPings \in Nat \ {0} /\ PipeRoom \in Nat \ {0}

VARIABLES
  transport, \* "inproc" or "subprocess"
  demo,      \* where the goroutine is that sends; "over" when the process is
  sent,      \* pings whose Send has returned
  toWorker,  \* the worker's stdin
  toParent,  \* its stdout
  stdin,     \* "open" or "shut" by the parent
  acks,      \* the acks received
  ackDone,   \* how the goroutine that receives has ended
  worker,    \* where the worker is
  ackFor,    \* the ping it answers
  signalled, \* a signal has ended its context
  reaped,    \* cmd.Wait has returned: the parent's pipe ends are closed
  verdict,   \* the result the goroutine has sent
  disturbed  \* observed by no code: the worker did not start, was interrupted
             \* or has died

pipeVars == <<toWorker, toParent>>
parentVars == <<demo, sent, stdin, verdict>>
ackVars == <<acks, ackDone>>
workerVars == <<worker, ackFor, signalled>>
demoVars == <<transport, pipeVars, parentVars, ackVars, workerVars, reaped, disturbed>>

Pings == 1..MaxPings
Running == demo \notin {"none", "spawn", "over"}
Subprocess == transport = "subprocess"

DemoTypeOK ==
  /\ transport \in {"inproc", "subprocess"}
  /\ demo \in {"none", "spawn", "send", "written", "await", "close", "wait", "killed", "over"}
  /\ sent \in 0..MaxPings /\ stdin \in {"open", "shut"}
  /\ toWorker \in Seq(Pings) /\ toParent \in Seq(Pings)
  /\ Len(toWorker) <= PipeRoom /\ Len(toParent) <= PipeRoom
  /\ acks \in Seq(Pings) /\ ackDone \in {"no", "nil", "error"}
  /\ worker \in {"none", "top", "read", "ack", "acked", "gone"}
  /\ ackFor \in Pings \cup {0}
  /\ signalled \in BOOLEAN /\ reaped \in BOOLEAN /\ disturbed \in BOOLEAN
  /\ verdict \in {"none", "ok", "error"}

DemoInit ==
  /\ transport \in {"inproc", "subprocess"} /\ demo \in {"none", "spawn"}
  /\ sent = 0 /\ toWorker = <<>> /\ toParent = <<>> /\ stdin = "open"
  /\ acks = <<>> /\ ackDone = "no"
  /\ worker = "none" /\ ackFor = 0 /\ signalled = FALSE
  /\ reaped = FALSE /\ verdict = "none" /\ disturbed = FALSE

-----------------------------------------------------------------------------
(* The parent's goroutine that sends.                                      *)

DemoReports(v) == verdict = "none" /\ verdict' = v

\* NewInprocPair, or NewSubprocessTransport, which may fail; both goroutines
\* of the parent start with it.
DemoSpawns ==
  /\ demo = "spawn"
  /\ \/ /\ demo' = "send" /\ worker' = IF Subprocess THEN "top" ELSE "read"
        /\ UNCHANGED <<verdict, disturbed>>
     \/ /\ Subprocess
        /\ demo' = "over" /\ DemoReports("error") /\ disturbed' = TRUE
        /\ UNCHANGED worker
  /\ UNCHANGED <<transport, pipeVars, sent, stdin, ackVars, ackFor, signalled, reaped>>

\* Send: a write to a process that has gone fails, and the goroutine reports
\* that and closes.
PingFails ==
  /\ demo = "send" /\ sent < MaxPings
  /\ Subprocess /\ worker = "gone"
  /\ DemoReports("error") /\ demo' = "close"
  /\ UNCHANGED <<transport, pipeVars, sent, stdin, ackVars, workerVars, reaped, disturbed>>

Ping ==
  /\ demo = "send" /\ sent < MaxPings
  /\ worker # "gone" /\ Len(toWorker) < PipeRoom
  /\ toWorker' = Append(toWorker, sent + 1)
  /\ IF Subprocess THEN sent' = sent + 1 /\ UNCHANGED demo ELSE demo' = "written" /\ UNCHANGED sent
  /\ UNCHANGED <<transport, toParent, stdin, verdict, ackVars, workerVars, reaped, disturbed>>

\* An io.Pipe: the write returns.
PingTaken ==
  /\ demo = "written" /\ toWorker = <<>>
  /\ sent' = sent + 1 /\ demo' = "send"
  /\ UNCHANGED <<transport, pipeVars, stdin, verdict, ackVars, workerVars, reaped, disturbed>>

AllSent ==
  /\ demo = "send" /\ sent = MaxPings
  /\ demo' = "await"
  /\ UNCHANGED <<transport, pipeVars, sent, stdin, verdict, ackVars, workerVars, reaped, disturbed>>

TheVerdict == IF ackDone = "nil" /\ Len(acks) = MaxPings THEN "ok" ELSE "error"

\* Mistake: the result is sent when the last ping has been written.
AwaitNothing ==
  /\ demo = "await"
  /\ DemoReports("ok") /\ demo' = "close"
  /\ UNCHANGED <<transport, pipeVars, sent, stdin, ackVars, workerVars, reaped, disturbed>>

\* The goroutine waits for the other one. The result is counted by main, and
\* the transport is closed by a deferred call after that.
AwaitAcks ==
  /\ demo = "await" /\ ackDone # "no"
  /\ DemoReports(TheVerdict) /\ demo' = "close"
  /\ UNCHANGED <<transport, pipeVars, sent, stdin, ackVars, workerVars, reaped, disturbed>>

\* SubprocessTransport.Close: stdin is shut, SIGTERM is sent, and SIGKILL when
\* the process is not reaped in 3 s.
CloseShuts ==
  /\ demo = "close" /\ Subprocess
  /\ stdin' = "shut" /\ signalled' = TRUE /\ demo' = "wait"
  /\ UNCHANGED <<transport, pipeVars, sent, verdict, ackVars, worker, ackFor, reaped, disturbed>>

CloseKills ==
  /\ demo = "wait" /\ ~reaped
  /\ worker' = "gone" /\ demo' = "killed"
  /\ UNCHANGED <<transport, pipeVars, sent, stdin, verdict, ackVars, ackFor, signalled, reaped, disturbed>>

\* main has the result and returns: at the end of Close, or before, since the
\* result is sent first; the goroutines of the process end with it. With
\* io.Pipes both sides are closed before the result is sent.
DemoReturns ==
  /\ verdict # "none" /\ demo \in {"close", "wait", "killed"}
  /\ demo' = "over" /\ stdin' = "shut"
  /\ worker' = IF Subprocess THEN worker ELSE "gone"
  /\ UNCHANGED <<transport, pipeVars, sent, verdict, ackVars, ackFor, signalled, reaped, disturbed>>

-----------------------------------------------------------------------------
(* The parent's other goroutines: the one that receives, and cmd.Wait.     *)

Receiving == Running /\ ackDone = "no"

AckArrives ==
  /\ Receiving /\ toParent # <<>>
  /\ acks' = Append(acks, Head(toParent)) /\ toParent' = Tail(toParent)
  /\ ackDone' = IF Len(acks') = MaxPings THEN "nil" ELSE "no"
  /\ UNCHANGED <<transport, toWorker, parentVars, workerVars, reaped, disturbed>>

\* Recv fails at the end of the pipe, or because Wait has closed it.
AcksEnd ==
  /\ Receiving /\ toParent = <<>> /\ worker = "gone"
  /\ ackDone' = "error"
  /\ UNCHANGED <<transport, pipeVars, parentVars, acks, workerVars, reaped, disturbed>>

\* cmd.Wait closes the parent's ends without waiting for the reader: of the
\* acks that were written only those its scanner has in its buffer are left.
Reap ==
  /\ Running /\ Subprocess /\ worker = "gone" /\ ~reaped
  /\ reaped' = TRUE /\ toWorker' = <<>>
  /\ \E n \in 0..Len(toParent) : toParent' = SubSeq(toParent, 1, n)
  /\ UNCHANGED <<transport, parentVars, ackVars, workerVars, disturbed>>

-----------------------------------------------------------------------------
(* The worker: a process (runTeamWorker), or a goroutine that only stops   *)
(* when its pipe is closed.                                                *)

WorkerLooks ==
  /\ worker = "top"
  /\ worker' = IF signalled THEN "gone" ELSE "read"
  /\ UNCHANGED <<transport, pipeVars, parentVars, ackVars, ackFor, signalled, reaped, disturbed>>

WorkerReads ==
  /\ worker = "read" /\ toWorker # <<>>
  /\ ackFor' = Head(toWorker) /\ toWorker' = Tail(toWorker) /\ worker' = "ack"
  /\ UNCHANGED <<transport, toParent, parentVars, ackVars, signalled, reaped, disturbed>>

WorkerSeesEnd ==
  /\ worker = "read" /\ toWorker = <<>> /\ stdin = "shut"
  /\ worker' = "gone"
  /\ UNCHANGED <<transport, pipeVars, parentVars, ackVars, ackFor, signalled, reaped, disturbed>>

\* The ack is written; a write to a parent that has gone ends the process.
WorkerAcks ==
  /\ worker = "ack"
  /\ \/ /\ demo # "over" /\ Len(toParent) < PipeRoom
        /\ toParent' = Append(toParent, ackFor)
        /\ worker' = IF Subprocess THEN "top" ELSE "acked"
     \/ demo = "over" /\ worker' = "gone" /\ UNCHANGED toParent
  /\ ackFor' = 0
  /\ UNCHANGED <<transport, toWorker, parentVars, ackVars, signalled, reaped, disturbed>>

\* An io.Pipe: the write returns.
AckTaken ==
  /\ worker = "acked" /\ toParent = <<>>
  /\ worker' = "read"
  /\ UNCHANGED <<transport, pipeVars, parentVars, ackVars, ackFor, signalled, reaped, disturbed>>

\* The terminal's Ctrl+C reaches both processes, of which the parent does not
\* look at it; or the worker dies.
Disturb ==
  /\ Subprocess /\ worker \notin {"none", "gone"}
  /\ disturbed' = TRUE
  /\ \/ signalled' = TRUE /\ UNCHANGED worker
     \/ worker' = "gone" /\ UNCHANGED signalled
  /\ UNCHANGED <<transport, pipeVars, parentVars, ackVars, ackFor, reaped>>

-----------------------------------------------------------------------------
DemoCode ==
  \/ DemoSpawns \/ PingFails \/ Ping \/ PingTaken \/ AllSent \/ AwaitAcks
  \/ CloseShuts \/ DemoReturns
  \/ AckArrives \/ AcksEnd \/ Reap

WorkerCode == WorkerLooks \/ WorkerReads \/ WorkerSeesEnd \/ WorkerAcks \/ AckTaken

DemoNext == DemoCode \/ WorkerCode \/ CloseKills \/ Disturb
=============================================================================
