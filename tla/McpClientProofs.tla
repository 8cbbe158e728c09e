--------------------------- MODULE McpClientProofs ---------------------------
(***************************************************************************)
(* What holds of the MCP client for every number of goroutines and calls,  *)
(* any size of the pipes, and a server that answers as often as it likes.  *)
(*                                                                         *)
(* The inductive invariant IInv follows a call's number on its way: from   *)
(* the caller to the map (CallInv), through the pipes and the server       *)
(* (PipeInv), through readLoop (LineInv) into the call's own channel       *)
(* (ChanInv). OpenInv says that nothing but the drain closes a channel.    *)
(***************************************************************************)
EXTENDS McpClient, SequenceTheorems, TLAPS

\* The messages about call n carry the id n.
About(n) == [id |-> n, call |-> n]
Numbered == {About(n) : n \in Calls}

CallInv ==
  /\ \A c \in Callers : pc[c] \in {"lock", "write", "wait", "leave"} => my[c] \in Numbered
  /\ \A i \in Calls : pending[i] \in {0, i}

PipeInv ==
  /\ stdin \in Seq(Numbered)
  /\ stdout \in Seq(Numbered \cup {TooLong})
  /\ \A r \in serving : r.call = r.id

LineInv ==
  /\ rpc \in {"lookup", "dispatch"} => line \in Numbered
  /\ rpc = "dispatch" => target \in Calls /\ line = About(target)

ChanInv == \A n \in Calls : chan[n].buffer \in {<<>>, <<About(n)>>}

OpenInv == rpc # "done" => \A n \in Calls : ~chan[n].closed

IInv == TypeOK /\ CallInv /\ PipeInv /\ LineInv /\ ChanInv /\ OpenInv

-----------------------------------------------------------------------------
\* The bounds are numbers, and a pipe has room for one message.
LEMMA Bounds == MaxCalls \in Nat /\ PipeCap \in Nat /\ PipeCap >= 1 /\ MaxAnswers \in Nat
  BY BoundsAssumption

\* A numbered message is a message with an id in range and no special line.
LEMMA NumberedMessages ==
  /\ Numbered \subseteq Message /\ Numbered \cup {TooLong} \subseteq Message
  /\ NoMessage \in Message
  /\ \A m \in Numbered : m.id \in Calls /\ m = About(m.id) /\ m # TooLong
  /\ \A n \in Calls : About(n) \in Numbered
  BY BoundsAssumption DEF Numbered, About, Message, Calls, TooLong, NoMessage

\* Sequences of a subset are sequences of the set.
LEMMA SeqOfSubset ==
  ASSUME NEW S, NEW T, S \subseteq T, NEW s \in Seq(S)
  PROVE  s \in Seq(T)
  OBVIOUS

\* A message more, and a message less.
LEMMA AppendOne ==
  ASSUME NEW S, NEW s \in Seq(S), NEW e \in S
  PROVE  Append(s, e) \in Seq(S) /\ Len(Append(s, e)) = Len(s) + 1
  OBVIOUS

\* Taking the head of a queue leaves the rest of it.
LEMMA TakeOne ==
  ASSUME NEW S, NEW s \in Seq(S), s # <<>>
  PROVE  Head(s) \in S /\ Tail(s) \in Seq(S) /\ Len(Tail(s)) = Len(s) - 1
  OBVIOUS

\* Nothing has been sent at first.
LEMMA InitIInv == Init => IInv
<1> SUFFICES ASSUME Init PROVE IInv
  OBVIOUS
<1>1. <<>> \in Seq(Message) /\ Len(<<>>) = 0
  OBVIOUS
<1>2. /\ chan \in [Calls -> [buffer : Seq(Message), closed : BOOLEAN]]
      /\ \A n \in Calls : Len(chan[n].buffer) <= 1
  BY <1>1 DEF Init
<1>3. TypeOK
  <2>1. /\ nextID \in 0..MaxCalls /\ target \in 0..MaxCalls
        /\ pending \in [Calls -> 0..MaxCalls]
    BY Bounds DEF Init
  <2>2. /\ my \in [Callers -> Message] /\ line \in Message
        /\ pc \in [Callers -> {"idle", "register", "lock", "write", "wait", "leave"}]
    BY NumberedMessages DEF Init
  <2>3. /\ stdin \in Seq(Message) /\ Len(stdin) <= PipeCap
        /\ stdout \in Seq(Message) /\ Len(stdout) <= PipeCap
    BY <1>1, Bounds DEF Init
  <2> QED
    BY <1>2, <2>1, <2>2, <2>3, NoneAssumption DEF Init, TypeOK
<1>4. CallInv /\ PipeInv /\ LineInv /\ ChanInv /\ OpenInv
  BY DEF Init, CallInv, PipeInv, LineInv, ChanInv, OpenInv
<1> QED
  BY <1>3, <1>4 DEF IInv

-----------------------------------------------------------------------------
(* The steps of a call.                                                    *)

\* A call begins with no number yet,
LEMMA StartStep ==
  ASSUME IInv, NEW c \in Callers, Initialize(c) \/ Begin(c) PROVE IInv'
<1>1. /\ pc[c] = "idle" /\ pc' = [pc EXCEPT ![c] = "register"]
      /\ UNCHANGED <<nextID, ready, my, late, pending, chan, closed, mu, stdin, open,
                     serverVars, stdout, reading, readVars, cpc>>
  BY DEF Initialize, Begin, Goto
<1>2. TypeOK'
  BY <1>1 DEF IInv, TypeOK, serverVars, readVars
<1>3. CallInv'
  BY <1>1 DEF IInv, TypeOK, CallInv
<1>4. PipeInv' /\ LineInv' /\ ChanInv' /\ OpenInv'
  BY <1>1 DEF IInv, PipeInv, LineInv, ChanInv, OpenInv, serverVars, readVars
<1> QED
  BY <1>2, <1>3, <1>4 DEF IInv

\* takes a number that no message under way has,
LEMMA RegisterStep ==
  ASSUME IInv, NEW c \in Callers, Register(c) PROVE IInv'
<1> DEFINE n == nextID + 1
<1>1. n \in Calls /\ n \in 0..MaxCalls
  BY BoundsAssumption DEF IInv, TypeOK, Register, Calls
<1>2. my' = [my EXCEPT ![c] = About(n)] /\ pending' = [pending EXCEPT ![n] = n]
  BY DEF Register, About
<1>3. TypeOK'
  <2>1. my' \in [Callers -> Message]
    BY <1>1, <1>2, NumberedMessages DEF IInv, TypeOK
  <2>2. pending' \in [Calls -> 0..MaxCalls]
    BY <1>1, <1>2 DEF IInv, TypeOK
  <2>3. late' \subseteq Calls
    BY <1>1 DEF IInv, TypeOK, Register
  <2>4. \A d \in Callers : mu' = d => pc'[d] = "write"
    BY NoneAssumption DEF IInv, TypeOK, Register
  <2> QED
    BY <1>1, <2>1, <2>2, <2>3, <2>4 DEF IInv, TypeOK, Register, Goto, serverVars, readVars
<1>4. CallInv'
  BY <1>1, <1>2, NumberedMessages DEF IInv, CallInv, TypeOK, Register, Goto
<1>5. PipeInv' /\ LineInv' /\ ChanInv' /\ OpenInv'
  BY DEF IInv, PipeInv, LineInv, ChanInv, OpenInv, Register, serverVars, readVars
<1> QED
  BY <1>3, <1>4, <1>5 DEF IInv

\* waits for the pipe's lock,
LEMMA LockStep ==
  ASSUME IInv, NEW c \in Callers, Lock(c) PROVE IInv'
  BY DEF IInv, Lock, Goto, serverVars, readVars, TypeOK, CallInv, PipeInv, LineInv,
         ChanInv, OpenInv

\* and writes its number into the pipe.
LEMMA WriteStep ==
  ASSUME IInv, NEW c \in Callers, Write(c) PROVE IInv'
<1>1. my[c] \in Numbered
  BY DEF IInv, CallInv, Write
<1>2. stdin' \in Seq(Numbered) /\ Len(stdin') <= PipeCap
  <2>1. stdin \in Seq(Numbered) /\ Len(stdin) \in Nat /\ Len(stdin) <= PipeCap
    BY LenProperties DEF IInv, PipeInv, TypeOK
  <2>2. CASE Len(stdin) < PipeCap /\ stdin' = Append(stdin, my[c])
    BY <1>1, <2>1, <2>2, AppendOne, Bounds
  <2> QED
    BY <2>1, <2>2 DEF Write
<1>3. /\ pc' \in [Callers -> {"idle", "register", "lock", "write", "wait", "leave"}]
      /\ \A d \in Callers \ {c} : pc'[d] = pc[d]
  BY DEF IInv, TypeOK, Write, Goto
<1>4. TypeOK'
  <2>1. stdin' \in Seq(Message)
    BY <1>2, NumberedMessages, SeqOfSubset
  <2>2. \A d \in Callers : mu' = d => pc'[d] = "write"
    BY NoneAssumption DEF Write
  <2> QED
    BY <1>2, <1>3, <2>1, <2>2 DEF IInv, TypeOK, Write, serverVars, readVars
<1>5. CallInv'
  BY <1>1, <1>3 DEF IInv, CallInv, Write
<1>6. PipeInv' /\ LineInv' /\ ChanInv' /\ OpenInv'
  BY <1>2 DEF IInv, PipeInv, LineInv, ChanInv, OpenInv, Write, serverVars, readVars
<1> QED
  BY <1>4, <1>5, <1>6 DEF IInv

\* The only answer in the channel, if any, is taken.
LEMMA ReceiveStep ==
  ASSUME IInv, NEW c \in Callers, Receive(c) PROVE IInv'
<1> DEFINE n == my[c].call
<1>1. n \in Calls
  BY NumberedMessages DEF IInv, CallInv, Receive, Numbered, About
<1>2. /\ chan' \in [Calls -> [buffer : Seq(Message), closed : BOOLEAN]]
      /\ \A m \in Calls \ {n} : chan'[m] = chan[m]
      /\ chan'[n].buffer = <<>> /\ chan'[n].closed = chan[n].closed
  <2>1. chan \in [Calls -> [buffer : Seq(Message), closed : BOOLEAN]]
    BY DEF IInv, TypeOK
  <2>2. Tail(<<About(n)>>) = <<>> /\ <<>> \in Seq(Message)
    OBVIOUS
  <2>3. chan[n].buffer \in {<<>>, <<About(n)>>}
    BY <1>1 DEF IInv, ChanInv
  <2>4. CASE chan[n].buffer # <<>>
    <3>1. chan' = [chan EXCEPT ![n].buffer = <<>>]
      BY <2>2, <2>3, <2>4 DEF Receive
    <3> QED
      BY <1>1, <2>1, <2>2, <3>1
  <2>5. CASE chan[n].buffer = <<>>
    BY <2>1, <2>5 DEF Receive
  <2> QED
    BY <2>4, <2>5
<1>3. ASSUME NEW m \in Calls PROVE Len(chan'[m].buffer) <= 1
  <2>1. CASE m = n
    BY <1>2, <2>1
  <2>2. CASE m # n
    BY <1>2, <2>2 DEF IInv, TypeOK
  <2> QED
    BY <2>1, <2>2
<1>4. TypeOK'
  BY <1>2, <1>3 DEF IInv, TypeOK, Receive, Goto, serverVars, readVars
<1>5. CallInv' /\ PipeInv' /\ LineInv'
  BY DEF IInv, TypeOK, CallInv, PipeInv, LineInv, Receive, Goto, serverVars, readVars
<1>6. ChanInv' /\ OpenInv'
  BY <1>1, <1>2 DEF IInv, ChanInv, OpenInv, Receive, readVars
<1> QED
  BY <1>4, <1>5, <1>6 DEF IInv

\* A call whose context ends keeps its number until it has left the map,
LEMMA ContextDoneStep ==
  ASSUME IInv, NEW c \in Callers, ContextDone(c) PROVE IInv'
  BY DEF IInv, ContextDone, Goto, serverVars, readVars, TypeOK, CallInv, PipeInv,
         LineInv, ChanInv, OpenInv

\* and leaves an answer that comes later without a channel.
LEMMA LeaveStep ==
  ASSUME IInv, NEW c \in Callers, Leave(c) PROVE IInv'
<1>1. my[c].id \in Calls
  BY NumberedMessages DEF IInv, CallInv, Leave
<1>2. /\ pending' \in [Calls -> 0..MaxCalls]
      /\ \A i \in Calls : pending'[i] \in {pending[i], 0}
  BY <1>1, BoundsAssumption DEF IInv, TypeOK, Leave
<1>3. my' \in [Callers -> Message]
  BY NumberedMessages DEF IInv, TypeOK, Leave
<1>4. TypeOK'
  BY <1>2, <1>3, NoneAssumption DEF IInv, TypeOK, Leave, Goto, serverVars, readVars
<1>5. CallInv'
  BY <1>2 DEF IInv, TypeOK, CallInv, Leave, Goto
<1>6. PipeInv' /\ LineInv' /\ ChanInv' /\ OpenInv'
  BY DEF IInv, PipeInv, LineInv, ChanInv, OpenInv, Leave, serverVars, readVars
<1> QED
  BY <1>4, <1>5, <1>6 DEF IInv

-----------------------------------------------------------------------------
(* The server.                                                             *)

\* The server holds numbers it was sent,
LEMMA ServerReadsStep ==
  ASSUME IInv, ServerReads PROVE IInv'
<1>1. /\ Head(stdin) \in Numbered
      /\ stdin' \in Seq(Numbered) /\ Len(stdin') <= PipeCap
  BY TakeOne, LenProperties, Bounds DEF IInv, PipeInv, TypeOK, ServerReads
<1>2. \A r \in serving' : /\ r \in [id : Calls, call : Calls, left : 1..MaxAnswers]
                          /\ r.call = r.id
  <2>1. MaxAnswers \in 1..MaxAnswers
    BY BoundsAssumption
  <2>2. \A r \in serving : /\ r \in [id : Calls, call : Calls, left : 1..MaxAnswers]
                           /\ r.call = r.id
    BY DEF IInv, TypeOK, PipeInv
  <2> QED
    BY <1>1, <2>1, <2>2 DEF ServerReads, Numbered, About
<1>3. TypeOK'
  <2>1. stdin' \in Seq(Message)
    BY <1>1, NumberedMessages, SeqOfSubset
  <2> QED
    BY <1>1, <1>2, <2>1 DEF IInv, TypeOK, ServerReads, callVars, readVars
<1>4. CallInv' /\ PipeInv' /\ LineInv' /\ ChanInv' /\ OpenInv'
  BY <1>1, <1>2 DEF IInv, CallInv, PipeInv, LineInv, ChanInv, OpenInv, ServerReads,
                    callVars, readVars
<1> QED
  BY <1>3, <1>4 DEF IInv

\* and answers those, perhaps more than once.
LEMMA ServerWritesStep ==
  ASSUME IInv, ServerAnswers \/ ServerWritesTooMuch PROVE IInv'
<1>1. /\ \E m \in Numbered \cup {TooLong} : stdout' = Append(stdout, m)
      /\ Len(stdout) < PipeCap
      /\ UNCHANGED <<callVars, pending, chan, closed, mu, stdin, open, server, reading,
                     readVars, cpc>>
  BY DEF ServerAnswers, ServerWritesTooMuch, StdoutRoom, serverVars, IInv, PipeInv,
         TypeOK, Numbered, About
<1>2. \A r \in serving' : /\ r \in [id : Calls, call : Calls, left : 1..MaxAnswers]
                          /\ r.call = r.id
  <2>1. \A r \in serving : /\ r \in [id : Calls, call : Calls, left : 1..MaxAnswers]
                           /\ r.call = r.id
    BY DEF IInv, TypeOK, PipeInv
  <2>2. CASE ServerAnswers
    <3>1. PICK r \in serving : serving' = (serving \ {r}) \cup
                                 {q \in {[r EXCEPT !.left = @ - 1]} : q.left > 0}
      BY <2>2 DEF ServerAnswers
    <3>2. ASSUME NEW q \in serving', q \notin serving
          PROVE  /\ q \in [id : Calls, call : Calls, left : 1..MaxAnswers]
                 /\ q.call = q.id
      <4>1. q = [r EXCEPT !.left = @ - 1] /\ q.left > 0
        BY <3>1, <3>2
      <4>2. q.left = r.left - 1 /\ q.id = r.id /\ q.call = r.call
        BY <4>1, <2>1
      <4> QED
        BY <4>1, <4>2, <2>1, Bounds
    <3> QED
      BY <2>1, <3>2
  <2>3. CASE ServerWritesTooMuch
    BY <2>1, <2>3 DEF ServerWritesTooMuch, serverVars
  <2> QED
    BY <2>2, <2>3
<1>3. /\ stdout' \in Seq(Numbered \cup {TooLong})
      /\ Len(stdout') <= PipeCap
  BY <1>1, AppendOne, LenProperties, Bounds DEF IInv, PipeInv
<1>4. TypeOK'
  <2>1. stdout' \in Seq(Message)
    BY <1>3, NumberedMessages, SeqOfSubset
  <2> QED
    BY <1>1, <1>2, <1>3, <2>1 DEF IInv, TypeOK, callVars, readVars
<1>5. CallInv' /\ PipeInv' /\ LineInv' /\ ChanInv' /\ OpenInv'
  BY <1>1, <1>2, <1>3 DEF IInv, CallInv, PipeInv, LineInv, ChanInv, OpenInv, callVars,
                          readVars
<1> QED
  BY <1>4, <1>5 DEF IInv

\* The server is gone, by itself or killed by Close.
LEMMA ServerGoneStep ==
  ASSUME IInv, ServerExits \/ CloseKills PROVE IInv'
<1>1. /\ server' = "gone" /\ serving' = {} /\ stdin' = <<>>
      /\ UNCHANGED <<callVars, pending, chan, closed, mu, open, stdout, reading, readVars,
                     cpc>>
  BY DEF ServerExits, CloseKills
<1>2. Len(stdin') <= PipeCap /\ stdin' \in Seq(Message) /\ stdin' \in Seq(Numbered)
  BY <1>1, Bounds
<1> QED
  BY <1>1, <1>2 DEF IInv, TypeOK, CallInv, PipeInv, LineInv, ChanInv, OpenInv, callVars,
                    readVars

-----------------------------------------------------------------------------
(* readLoop and Close.                                                     *)

\* The line readLoop holds is one the server wrote.
LEMMA ReadLineStep ==
  ASSUME IInv, ReadLine PROVE IInv'
<1>1. /\ Head(stdout) \in Numbered \cup {TooLong}
      /\ stdout' \in Seq(Numbered \cup {TooLong}) /\ Len(stdout') <= PipeCap
  BY TakeOne, LenProperties, Bounds DEF IInv, PipeInv, TypeOK, ReadLine
<1>2. /\ rpc' \in {"end", "lookup"} /\ line' \in Message
      /\ rpc' = "lookup" => line' \in Numbered
  BY <1>1, NumberedMessages DEF IInv, TypeOK, ReadLine
<1>3. TypeOK'
  <2>1. stdout' \in Seq(Message)
    BY <1>1, NumberedMessages, SeqOfSubset
  <2> QED
    BY <1>1, <1>2, <2>1 DEF IInv, TypeOK, ReadLine, callVars, serverVars
<1>4. CallInv' /\ PipeInv' /\ LineInv' /\ ChanInv' /\ OpenInv'
  BY <1>1, <1>2 DEF IInv, CallInv, PipeInv, LineInv, ChanInv, OpenInv, ReadLine, callVars,
                    serverVars
<1> QED
  BY <1>3, <1>4 DEF IInv

\* It goes to the channel of its own number, or nowhere.
LEMMA LookupStep ==
  ASSUME IInv, Lookup PROVE IInv'
<1>1. line.id \in Calls /\ line = About(line.id)
  BY NumberedMessages DEF IInv, LineInv, Lookup
<1>2. target' \in {0, line.id} /\ target' \in 0..MaxCalls
  BY <1>1 DEF IInv, CallInv, TypeOK, Lookup
<1>3. /\ line' \in Message /\ rpc' \in {"scan", "dispatch"}
      /\ rpc' = "dispatch" => line' = line /\ target' = line.id
  BY <1>1, <1>2, NumberedMessages DEF IInv, TypeOK, Lookup
<1>4. LineInv'
  BY <1>1, <1>3, NumberedMessages DEF LineInv
<1>5. TypeOK' /\ OpenInv'
  BY <1>2, <1>3 DEF IInv, TypeOK, OpenInv, Lookup, callVars, serverVars
<1>6. CallInv' /\ PipeInv' /\ ChanInv'
  BY DEF IInv, CallInv, PipeInv, ChanInv, Lookup, callVars, serverVars
<1> QED
  BY <1>4, <1>5, <1>6 DEF IInv

\* The answer goes to the channel of its own call.
LEMMA DispatchStep ==
  ASSUME IInv, Dispatch PROVE IInv'
<1>1. target \in Calls /\ line = About(target) /\ line \in Message
  BY DEF IInv, LineInv, TypeOK, Dispatch
<1>2. /\ chan' \in [Calls -> [buffer : Seq(Message), closed : BOOLEAN]]
      /\ \A m \in Calls \ {target} : chan'[m] = chan[m]
      /\ chan'[target].buffer = <<line>> /\ chan'[target].closed = chan[target].closed
  <2>1. chan \in [Calls -> [buffer : Seq(Message), closed : BOOLEAN]]
    BY DEF IInv, TypeOK
  <2>2. <<line>> \in Seq(Message)
    BY <1>1
  <2>3. chan' = [chan EXCEPT ![target] = [chan[target] EXCEPT !.buffer = <<line>>]]
    BY DEF Dispatch
  <2>4. [chan[target] EXCEPT !.buffer = <<line>>]
          \in [buffer : Seq(Message), closed : BOOLEAN]
    BY <1>1, <2>1, <2>2
  <2> QED
    BY <1>1, <2>1, <2>3, <2>4
<1>3. ASSUME NEW m \in Calls PROVE Len(chan'[m].buffer) <= 1
  <2>1. CASE m = target
    <3>1. Len(<<line>>) = 1
      OBVIOUS
    <3>2. chan'[m].buffer = <<line>>
      BY <1>2, <2>1
    <3>3. Len(chan'[m].buffer) = 1
      BY ONLY <3>1, <3>2, Zenon
    <3> QED
      BY <3>3
  <2>2. CASE m # target
    BY <1>2, <2>2 DEF IInv, TypeOK
  <2> QED
    BY <2>1, <2>2
<1>4. TypeOK'
  <2>1. rpc' = "scan" /\ line' \in Message /\ target' \in 0..MaxCalls
    BY NumberedMessages, Bounds DEF Dispatch
  <2>2. UNCHANGED <<nextID, ready, pc, my, late, pending, closed, mu, stdin, open, server,
                    serving, stdout, reading, cpc>>
    BY DEF Dispatch, callVars, serverVars
  <2> QED
    BY <1>2, <1>3, <2>1, <2>2 DEF IInv, TypeOK
<1>5. ChanInv' /\ OpenInv'
  BY <1>1, <1>2 DEF IInv, ChanInv, OpenInv, Dispatch
<1>6. CallInv' /\ PipeInv' /\ LineInv'
  BY DEF IInv, CallInv, PipeInv, LineInv, Dispatch, callVars, serverVars
<1> QED
  BY <1>4, <1>5, <1>6 DEF IInv

\* The drain closes the waiting channels and leaves what they hold.
LEMMA DrainStep ==
  ASSUME IInv, Drain PROVE IInv'
<1>1. /\ chan' \in [Calls -> [buffer : Seq(Message), closed : BOOLEAN]]
      /\ \A n \in Calls : chan'[n].buffer = chan[n].buffer
  <2>1. chan \in [Calls -> [buffer : Seq(Message), closed : BOOLEAN]]
    BY DEF IInv, TypeOK
  <2>2. chan' = [n \in Calls |->
                   IF \E i \in Calls : pending[i] = n
                   THEN [chan[n] EXCEPT !.closed = TRUE] ELSE chan[n]]
    BY DEF Drain, CloseChannels
  <2>3. \A n \in Calls : /\ [chan[n] EXCEPT !.closed = TRUE]
                              \in [buffer : Seq(Message), closed : BOOLEAN]
                         /\ [chan[n] EXCEPT !.closed = TRUE].buffer = chan[n].buffer
    BY <2>1
  <2> QED
    BY <2>1, <2>2, <2>3
<1>2. pending' \in [Calls -> 0..MaxCalls] /\ \A i \in Calls : pending'[i] = 0
  BY Bounds DEF Drain, CloseChannels
<1>3. rpc' = "done" /\ UNCHANGED <<nextID, ready, pc, my, late, closed, mu, stdin, open,
                                   server, serving, stdout, reading, line, target, cpc>>
  BY DEF Drain, callVars, serverVars
<1>4. \A n \in Calls : Len(chan'[n].buffer) <= 1
  BY <1>1 DEF IInv, TypeOK
<1>5. TypeOK'
  BY <1>1, <1>2, <1>3, <1>4 DEF IInv, TypeOK
<1>6. CallInv' /\ PipeInv'
  BY <1>2, <1>3 DEF IInv, CallInv, PipeInv
<1>7. LineInv' /\ ChanInv' /\ OpenInv'
  BY <1>1, <1>3 DEF IInv, LineInv, ChanInv, OpenInv
<1> QED
  BY <1>5, <1>6, <1>7 DEF IInv

\* Steps that move readLoop or Close and no message.
LEMMA EndStep ==
  ASSUME IInv, ReadFails \/ MarkClosed PROVE IInv'
<1>1. /\ rpc # "done" /\ rpc' \in {"end", "drain"} /\ closed' \in BOOLEAN
      /\ UNCHANGED <<nextID, ready, pc, my, late, pending, chan, mu, stdin, open, server,
                     serving, stdout, reading, line, target, cpc>>
  BY DEF ReadFails, MarkClosed, IInv, TypeOK, callVars, serverVars
<1>2. TypeOK'
  BY <1>1 DEF IInv, TypeOK
<1>3. CallInv' /\ PipeInv' /\ LineInv' /\ ChanInv' /\ OpenInv'
  BY <1>1 DEF IInv, CallInv, PipeInv, LineInv, ChanInv, OpenInv
<1> QED
  BY <1>2, <1>3 DEF IInv

\* Close touches neither the map nor the channels.
LEMMA CloseStep ==
  ASSUME IInv, CloseBegin \/ CloseSkipped \/ CloseReaps PROVE IInv'
<1>1. /\ closed' \in BOOLEAN /\ open' \in BOOLEAN /\ reading' \in BOOLEAN
      /\ cpc' \in {"wait", "skipped", "done"}
      /\ UNCHANGED <<nextID, ready, pc, my, late, pending, chan, mu, stdin, server,
                     serving, stdout, rpc, line, target>>
  BY DEF CloseBegin, CloseSkipped, CloseReaps, IInv, TypeOK, callVars, serverVars, readVars
<1>2. TypeOK'
  BY <1>1 DEF IInv, TypeOK
<1>3. CallInv' /\ PipeInv' /\ LineInv' /\ ChanInv' /\ OpenInv'
  BY <1>1 DEF IInv, CallInv, PipeInv, LineInv, ChanInv, OpenInv
<1> QED
  BY <1>2, <1>3 DEF IInv

-----------------------------------------------------------------------------
\* The invariant is inductive: one lemma above for each action.
LEMMA Inductive == Spec => []IInv
<1>1. IInv /\ [Next]_vars => IInv'
  <2> SUFFICES ASSUME IInv, [Next]_vars PROVE IInv'
    OBVIOUS
  <2>1. ASSUME NEW c \in Callers, Initialize(c) \/ Begin(c) \/ Call(c) \/ ContextDone(c)
        PROVE  IInv'
    BY <2>1, StartStep, RegisterStep, LockStep, WriteStep, ReceiveStep, LeaveStep,
       ContextDoneStep DEF Call
  <2>2. CASE Server
    BY <2>2, ServerReadsStep, ServerWritesStep, ServerGoneStep DEF Server
  <2>3. CASE ReadLoop
    BY <2>3, ReadLineStep, LookupStep, DispatchStep, DrainStep, EndStep DEF ReadLoop
  <2>4. CASE Close
    BY <2>4, CloseStep, ServerGoneStep DEF Close
  <2>5. CASE UNCHANGED vars
    BY <2>5 DEF vars, callVars, serverVars, readVars, IInv, TypeOK, CallInv, PipeInv,
                LineInv, ChanInv, OpenInv
  <2> QED
    BY <2>1, <2>2, <2>3, <2>4, <2>5 DEF Next
<1> QED
  BY <1>1, InitIInv, PTL DEF Spec

\* The variables keep their types; pipes and channels their capacity.
THEOREM TypeCorrect == Spec => []TypeOK
<1>1. IInv => TypeOK
  BY DEF IInv
<1> QED
  BY <1>1, Inductive, PTL

\* A channel only ever holds the answer to its own call, although answers come
\* late, twice, out of order, and after their calls have timed out.
THEOREM AnswersAreOwn == Spec => []OwnAnswer
<1>1. IInv => OwnAnswer
  <2> SUFFICES ASSUME IInv, NEW n \in Calls, NEW i \in DOMAIN chan[n].buffer
               PROVE  chan[n].buffer[i].call = n
    BY DEF OwnAnswer
  <2>1. chan[n].buffer = <<About(n)>> /\ i = 1
    BY DEF IInv, ChanInv
  <2> QED
    BY <2>1 DEF About
<1> QED
  BY <1>1, Inductive, PTL

\* readLoop finds the channel it has looked up open, whoever closes the client.
THEOREM SendsOnOpenChannels == Spec => []NoSendOnClosed
<1>1. IInv => NoSendOnClosed
  BY DEF IInv, OpenInv, LineInv, NoSendOnClosed
<1> QED
  BY <1>1, Inductive, PTL
=============================================================================
