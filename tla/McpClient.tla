------------------------------ MODULE McpClient ------------------------------
(***************************************************************************)
(* The JSON-RPC client of an MCP server (internal/adapters/mcp/client.go): *)
(* calls by several goroutines, the goroutine that reads the answers, the  *)
(* server process at the other end of two pipes, and Close.                *)
(*                                                                         *)
(* A call makes one channel. Calls are numbered in the order in which they *)
(* draw their id: the number names the channel and stands for method and   *)
(* parameters, and a message is an id and the number of the call it is     *)
(* about. What a call returns is not modelled further.                     *)
(***************************************************************************)
EXTENDS Naturals, Sequences

CONSTANTS
  Callers,      \* goroutines that use the client
  None,
  MaxCalls,     \* bound on the calls made
  PipeCap,      \* how many messages a pipe holds
  MaxAnswers    \* how often the server may answer one request

ASSUME NoneAssumption == None \notin Callers
ASSUME BoundsAssumption == {MaxCalls, PipeCap, MaxAnswers} \subseteq Nat \ {0}

VARIABLES
  nextID,    \* Client.nextID
  pending,   \* Client.pending: id -> channel, 0 without a key
  chan,      \* channel -> the messages in it and whether it is closed
  closed,    \* Client.closed
  mu,        \* the caller that holds Client.mu while it writes, or None
  ready,     \* NewClient has returned
  pc,        \* where each caller is
  my,        \* the message of each caller's call
  stdin,     \* the requests in the pipe to the server
  open,      \* the client has not closed its end of stdin
  server,    \* "alive" or "gone"
  serving,   \* the requests the server has read, with the answers left
  stdout,    \* the lines in the pipe from the server
  reading,   \* cmd.Wait has not closed the client's end of stdout
  rpc,       \* where readLoop is
  line,      \* the answer it has read
  target,    \* the channel it has looked up, 0 for none
  cpc,       \* where Close is
  late       \* the calls that registered after readLoop had ended

callVars == <<nextID, ready, pc, my, late>>
serverVars == <<server, serving>>
readVars == <<rpc, line, target>>
vars == <<callVars, pending, chan, closed, mu, stdin, open, serverVars, stdout,
          reading, readVars, cpc>>

Calls == 1..MaxCalls
Message == [id : 0..MaxCalls, call : 0..MaxCalls]

\* No call, no line in hand.
NoMessage == [id |-> 0, call |-> 0]

\* A line longer than bufio.Scanner's 64 KiB: Scan returns false.
TooLong == [id |-> 0, call |-> 1]

TypeOK ==
  /\ nextID \in 0..MaxCalls
  /\ pending \in [Calls -> 0..MaxCalls]
  /\ chan \in [Calls -> [buffer : Seq(Message), closed : BOOLEAN]]
  /\ \A n \in Calls : Len(chan[n].buffer) <= 1
  /\ closed \in BOOLEAN /\ mu \in Callers \cup {None} /\ ready \in BOOLEAN
  /\ pc \in [Callers -> {"idle", "register", "lock", "write", "wait", "leave"}]
  /\ my \in [Callers -> Message]
  /\ stdin \in Seq(Message) /\ Len(stdin) <= PipeCap /\ open \in BOOLEAN
  /\ server \in {"alive", "gone"}
  /\ serving \in SUBSET [id : Calls, call : Calls, left : 1..MaxAnswers]
  /\ stdout \in Seq(Message) /\ Len(stdout) <= PipeCap /\ reading \in BOOLEAN
  /\ rpc \in {"scan", "lookup", "dispatch", "end", "drain", "done"}
  /\ line \in Message /\ target \in 0..MaxCalls
  /\ cpc \in {"none", "wait", "done", "skipped"}
  /\ late \subseteq Calls
  /\ \A c \in Callers : mu = c => pc[c] = "write"

\* The process has been started and readLoop runs.
Init ==
  /\ nextID = 0
  /\ pending = [i \in Calls |-> 0]
  /\ chan = [n \in Calls |-> [buffer |-> <<>>, closed |-> FALSE]]
  /\ closed = FALSE /\ mu = None /\ ready = FALSE
  /\ pc = [c \in Callers |-> "idle"]
  /\ my = [c \in Callers |-> NoMessage]
  /\ stdin = <<>> /\ open = TRUE
  /\ server = "alive" /\ serving = {}
  /\ stdout = <<>> /\ reading = TRUE
  /\ rpc = "scan" /\ line = NoMessage /\ target = 0
  /\ cpc = "none"
  /\ late = {}

-----------------------------------------------------------------------------
(* A call.                                                                 *)

Goto(c, l) == pc' = [pc EXCEPT ![c] = l]

\* NewClient makes the first call, initialize, whatever `closed` says.
Initialize(c) ==
  /\ ~ready /\ \A d \in Callers : pc[d] = "idle"
  /\ Goto(c, "register")
  /\ UNCHANGED <<nextID, ready, my, late, pending, chan, closed, mu, stdin, open, serverVars,
                 stdout, reading, readVars, cpc>>

\* ListTools and CallTool: a closed client is refused.
Begin(c) ==
  /\ ready /\ pc[c] = "idle" /\ ~closed
  /\ Goto(c, "register")
  /\ UNCHANGED <<nextID, ready, my, late, pending, chan, closed, mu, stdin, open, serverVars,
                 stdout, reading, readVars, cpc>>

\* Mistake: the id is the number of calls in flight.
RegisterReusesId(c) ==
  /\ pc[c] = "register" /\ mu = None /\ nextID < MaxCalls
  /\ nextID' = nextID + 1
  /\ \E i \in Calls :
       /\ pending[i] = 0 /\ \A j \in 1..(i - 1) : pending[j] # 0
       /\ my' = [my EXCEPT ![c] = [id |-> i, call |-> nextID + 1]]
       /\ pending' = [pending EXCEPT ![i] = nextID + 1]
  /\ late' = IF rpc = "done" THEN late \cup {nextID + 1} ELSE late
  /\ Goto(c, "lock")
  /\ UNCHANGED <<ready, chan, closed, mu, stdin, open, serverVars, stdout, reading,
                 readVars, cpc>>

\* The id is drawn, and the call's channel is stored under it.
Register(c) ==
  /\ pc[c] = "register" /\ mu = None /\ nextID < MaxCalls
  /\ nextID' = nextID + 1
  /\ my' = [my EXCEPT ![c] = [id |-> nextID + 1, call |-> nextID + 1]]
  /\ pending' = [pending EXCEPT ![nextID + 1] = nextID + 1]
  /\ late' = IF rpc = "done" THEN late \cup {nextID + 1} ELSE late
  /\ Goto(c, "lock")
  /\ UNCHANGED <<ready, chan, closed, mu, stdin, open, serverVars, stdout, reading,
                 readVars, cpc>>

\* The mutex is taken again, and held until the write has ended.
Lock(c) ==
  /\ pc[c] = "lock" /\ mu = None
  /\ mu' = c
  /\ Goto(c, "write")
  /\ UNCHANGED <<nextID, ready, my, late, pending, chan, closed, stdin, open, serverVars, stdout,
                 reading, readVars, cpc>>

Writable == open /\ server = "alive"

\* Mistake: the mutex is not released after the write.
WriteKeepsLock(c) ==
  /\ pc[c] = "write"
  /\ \/ /\ Writable /\ Len(stdin) < PipeCap
        /\ stdin' = Append(stdin, my[c])
        /\ Goto(c, "wait")
        /\ UNCHANGED mu
     \/ /\ ~Writable
        /\ Goto(c, "leave")
        /\ mu' = None
        /\ UNCHANGED stdin
  /\ UNCHANGED <<nextID, ready, my, late, pending, chan, closed, open, serverVars, stdout, reading,
                 readVars, cpc>>

\* The write blocks while the pipe is full, whatever the context says, and
\* fails when this end was closed or the server is gone.
Write(c) ==
  /\ pc[c] = "write"
  /\ \/ /\ Writable /\ Len(stdin) < PipeCap
        /\ stdin' = Append(stdin, my[c])
        /\ Goto(c, "wait")
     \/ /\ ~Writable
        /\ Goto(c, "leave")
        /\ UNCHANGED stdin
  /\ mu' = None
  /\ UNCHANGED <<nextID, ready, my, late, pending, chan, closed, open, serverVars, stdout, reading,
                 readVars, cpc>>

\* The select: an answer, or the closed channel, or the end of the context,
\* any of them if several are there.
Receive(c) ==
  /\ pc[c] = "wait"
  /\ \/ /\ chan[my[c].call].buffer # <<>>
        /\ chan' = [chan EXCEPT ![my[c].call].buffer = Tail(@)]
     \/ /\ chan[my[c].call].buffer = <<>> /\ chan[my[c].call].closed
        /\ UNCHANGED chan
  /\ Goto(c, "leave")
  /\ UNCHANGED <<nextID, ready, my, late, pending, closed, mu, stdin, open, serverVars, stdout,
                 reading, readVars, cpc>>

ContextDone(c) ==
  /\ pc[c] = "wait"
  /\ Goto(c, "leave")
  /\ UNCHANGED <<nextID, ready, my, late, pending, chan, closed, mu, stdin, open, serverVars,
                 stdout, reading, readVars, cpc>>

\* The deferred deletion; initialize's outcome is ignored by NewClient.
Leave(c) ==
  /\ pc[c] = "leave" /\ mu = None
  /\ pending' = [pending EXCEPT ![my[c].id] = 0]
  /\ my' = [my EXCEPT ![c] = NoMessage]
  /\ ready' = TRUE
  /\ Goto(c, "idle")
  /\ UNCHANGED <<nextID, late, chan, closed, mu, stdin, open, serverVars, stdout, reading,
                 readVars, cpc>>

-----------------------------------------------------------------------------
(* The server, another program: it reads its input, answers in any order,  *)
(* late, more than once or not at all, and may die. A malformed line is    *)
(* skipped by readLoop and left out.                                       *)

ServerReads ==
  /\ server = "alive" /\ stdin # <<>>
  /\ serving' = serving \cup {[id   |-> Head(stdin).id, call |-> Head(stdin).call,
                               left |-> MaxAnswers]}
  /\ stdin' = Tail(stdin)
  /\ UNCHANGED <<callVars, pending, chan, closed, mu, open, server, stdout, reading,
                 readVars, cpc>>

StdoutRoom == server = "alive" /\ Len(stdout) < PipeCap

ServerAnswers ==
  /\ StdoutRoom
  /\ \E r \in serving :
       /\ stdout' = Append(stdout, [id |-> r.id, call |-> r.call])
       /\ serving' = (serving \ {r}) \cup
                       {q \in {[r EXCEPT !.left = @ - 1]} : q.left > 0}
  /\ UNCHANGED <<callVars, pending, chan, closed, mu, stdin, open, server, reading,
                 readVars, cpc>>

ServerWritesTooMuch ==
  /\ StdoutRoom
  /\ stdout' = Append(stdout, TooLong)
  /\ UNCHANGED <<callVars, pending, chan, closed, mu, stdin, open, serverVars, reading,
                 readVars, cpc>>

ServerExits ==
  /\ server = "alive"
  /\ server' = "gone"
  /\ serving' = {} /\ stdin' = <<>>
  /\ UNCHANGED <<callVars, pending, chan, closed, mu, open, stdout, reading, readVars, cpc>>

Server ==
  ServerReads \/ ServerAnswers \/ ServerWritesTooMuch \/ ServerExits

-----------------------------------------------------------------------------
(* readLoop.                                                               *)

ReadLine ==
  /\ rpc = "scan" /\ stdout # <<>>
  /\ stdout' = Tail(stdout)
  /\ \/ Head(stdout) = TooLong /\ rpc' = "end" /\ UNCHANGED line
     \/ Head(stdout) # TooLong /\ rpc' = "lookup" /\ line' = Head(stdout)
  /\ UNCHANGED <<callVars, pending, chan, closed, mu, stdin, open, serverVars, reading,
                 target, cpc>>

\* End of file, or cmd.Wait has closed the pipe under the scanner, which may
\* or may not have lines left in its buffer.
ReadFails ==
  /\ rpc = "scan"
  /\ ~reading \/ (server = "gone" /\ stdout = <<>>)
  /\ rpc' = "end"
  /\ UNCHANGED <<callVars, pending, chan, closed, mu, stdin, open, serverVars, stdout,
                 reading, line, target, cpc>>

Lookup ==
  /\ rpc = "lookup" /\ mu = None
  /\ target' = pending[line.id]
  /\ IF target' = 0
     THEN rpc' = "scan" /\ line' = NoMessage
     ELSE rpc' = "dispatch" /\ UNCHANGED line
  /\ UNCHANGED <<callVars, pending, chan, closed, mu, stdin, open, serverVars, stdout,
                 reading, cpc>>

\* The channel holds one answer; a second one waits until it is taken.
Dispatch ==
  /\ rpc = "dispatch" /\ chan[target].buffer = <<>>
  /\ chan' = [chan EXCEPT ![target].buffer = <<line>>]
  /\ rpc' = "scan" /\ line' = NoMessage /\ target' = 0
  /\ UNCHANGED <<callVars, pending, closed, mu, stdin, open, serverVars, stdout, reading,
                 cpc>>

\* The deferred function of readLoop.
MarkClosed ==
  /\ rpc = "end"
  /\ closed' = TRUE
  /\ rpc' = "drain"
  /\ UNCHANGED <<callVars, pending, chan, mu, stdin, open, serverVars, stdout, reading,
                 line, target, cpc>>

\* What drainPending does to the channels and the map.
CloseChannels ==
  /\ chan' = [n \in Calls |->
                IF \E i \in Calls : pending[i] = n THEN [chan[n] EXCEPT !.closed = TRUE]
                ELSE chan[n]]
  /\ pending' = [i \in Calls |-> 0]

\* Mistake: the map is emptied, its channels stay open.
DrainKeepsChannels ==
  /\ rpc = "drain" /\ mu = None
  /\ pending' = [i \in Calls |-> 0]
  /\ rpc' = "done"
  /\ UNCHANGED <<callVars, chan, closed, mu, stdin, open, serverVars, stdout, reading,
                 line, target, cpc>>

Drain ==
  /\ rpc = "drain" /\ mu = None
  /\ CloseChannels
  /\ rpc' = "done"
  /\ UNCHANGED <<callVars, closed, mu, stdin, open, serverVars, stdout, reading, line,
                 target, cpc>>

ReadLoop == ReadLine \/ ReadFails \/ Lookup \/ Dispatch \/ MarkClosed \/ Drain

-----------------------------------------------------------------------------
(* Close.                                                                  *)

\* Mistake: Close wakes the callers itself.
CloseDrains ==
  /\ cpc = "none" /\ ready /\ ~closed /\ mu = None
  /\ closed' = TRUE /\ open' = FALSE
  /\ CloseChannels
  /\ cpc' = "wait"
  /\ UNCHANGED <<callVars, mu, stdin, serverVars, stdout, reading, readVars>>

\* The first to set `closed` closes the server's input and waits for it.
CloseBegin ==
  /\ cpc = "none" /\ ready /\ ~closed
  /\ closed' = TRUE /\ open' = FALSE
  /\ cpc' = "wait"
  /\ UNCHANGED <<callVars, pending, chan, mu, stdin, serverVars, stdout, reading, readVars>>

\* readLoop was first: Close returns nil.
CloseSkipped ==
  /\ cpc = "none" /\ ready /\ closed
  /\ cpc' = "skipped"
  /\ UNCHANGED <<callVars, pending, chan, closed, mu, stdin, open, serverVars, stdout,
                 reading, readVars>>

\* Mistake: after the 3 s Close gives up.
CloseGivesUp ==
  /\ cpc = "wait" /\ server = "alive"
  /\ cpc' = "done"
  /\ UNCHANGED <<callVars, pending, chan, closed, mu, stdin, open, serverVars, stdout,
                 reading, readVars>>

\* After 3 s the server is killed.
CloseKills ==
  /\ cpc = "wait" /\ server = "alive"
  /\ server' = "gone"
  /\ serving' = {} /\ stdin' = <<>>
  /\ UNCHANGED <<callVars, pending, chan, closed, mu, open, stdout, reading, readVars, cpc>>

\* cmd.Wait returns, and has closed the client's end of stdout.
CloseReaps ==
  /\ cpc = "wait" /\ server = "gone"
  /\ reading' = FALSE
  /\ cpc' = "done"
  /\ UNCHANGED <<callVars, pending, chan, closed, mu, stdin, open, serverVars, stdout,
                 readVars>>

Close == CloseBegin \/ CloseSkipped \/ CloseKills \/ CloseReaps

-----------------------------------------------------------------------------
Call(c) ==
  Register(c) \/ Lock(c) \/ Write(c) \/ Receive(c) \/ Leave(c)

Next ==
  \/ \E c \in Callers : Initialize(c) \/ Begin(c) \/ Call(c) \/ ContextDone(c)
  \/ Server \/ ReadLoop \/ Close

Spec == Init /\ [][Next]_vars

(***************************************************************************)
(* The Go scheduler runs every goroutine that can run, and the timer of    *)
(* Close fires. The server owes nothing, and no context need ever end.     *)
(***************************************************************************)
FairSpec ==
  /\ Spec
  /\ \A c \in Callers : WF_vars(Call(c))
  /\ WF_vars(ReadLoop)
  /\ WF_vars(CloseKills \/ CloseReaps)

-----------------------------------------------------------------------------
\* An answer reaches the call that asked for it, and only that one: a late
\* answer to a call that timed out is never taken for a later call's.
OwnAnswer ==
  \A n \in Calls : \A i \in DOMAIN chan[n].buffer : chan[n].buffer[i].call = n

\* readLoop never sends on a closed channel, so it never dies of an answer
\* that arrives while the client is being closed.
NoSendOnClosed == rpc = "dispatch" => ~chan[target].closed

\* readLoop waits to hand over a second answer to a call that has returned.
BlockedOnDuplicate ==
  /\ rpc = "dispatch" /\ chan[target].buffer # <<>>
  /\ \A c \in Callers : pc[c] = "wait" => my[c].call # target

\* A caller holds the mutex in a write on a full pipe, readLoop waits for the
\* mutex, and the server may be waiting to write before it reads.
CircularWait ==
  /\ rpc \in {"lookup", "drain"} /\ \E c \in Callers : mu = c /\ pc[c] = "write"
  /\ Writable /\ Len(stdin) = PipeCap

\* A call that passed the test of `closed` before readLoop ended, registered
\* after its drain, and wrote to a server that was still alive.
Forgotten(c) == pc[c] = "wait" /\ my[c].call \in late

\* When the server dies every call in flight ends, without the help of any
\* deadline, wherever it was: before its registration, in its write, or
\* waiting. A server that answered twice, or ended readLoop with a line that
\* is too long while it lived on, are the only ways out of that.
CrashEndsCalls ==
  \A c \in Callers :
     server = "gone" /\ pc[c] # "idle"
       ~> \/ pc[c] = "idle" \/ BlockedOnDuplicate \/ Forgotten(c)
          \/ pc[c] = "register" /\ nextID = MaxCalls

\* An answer that is in the pipe reaches the call that waits for it, except
\* in the ways named above and when both pipes are full.
AnswerArrives ==
  \A c \in Callers :
     pc[c] = "wait" /\ (\E i \in DOMAIN stdout : stdout[i].id = my[c].id)
       ~> pc[c] # "wait" \/ BlockedOnDuplicate \/ CircularWait \/ Forgotten(c)

\* A Close that is not too late returns, and only when the server is gone.
CloseEndsServer ==
  /\ [](cpc = "done" => server = "gone")
  /\ cpc = "wait" ~> cpc = "done"

\* When Close has returned the server is no longer running: client.go:160,
\* "Close terminates the MCP server process".
CloseTerminates == cpc \in {"done", "skipped"} => server = "gone"
=============================================================================
