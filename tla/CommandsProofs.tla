--------------------------- MODULE CommandsProofs ---------------------------
(***************************************************************************)
(* What holds of the commands for every capacity of the channels, any      *)
(* lists of hooks and models, any number of processes that start sessions, *)
(* any terminal, and every interleaving with signals, crashes and kills.   *)
(*                                                                         *)
(* Each command has an invariant of its own, which its steps keep and the  *)
(* other commands leave alone, since a process runs one command (Solo).    *)
(* The commands that read a model's stream rest on Flow: the chunks in the *)
(* channel and in the goroutine's hand are the ones that follow what the   *)
(* command has taken, and the last of them is the terminal one.            *)
(***************************************************************************)
EXTENDS Commands, FiniteSetTheorems, SequenceTheorems, TLAPS

\* The pieces of text 1 to Len(list), in order.
InOrder(list) == \A n \in 1..Len(list) : list[n] = n

-----------------------------------------------------------------------------
(* The invariant of each command.                                          *)

\* Pings that were written, the one the worker has read and not answered, and
\* acks on their way or there.
Written == sent + (IF demo = "written" THEN 1 ELSE 0)
InHand == IF worker = "ack" THEN 1 ELSE 0
Answered == Len(acks) + Len(toParent)

Ending == {"wait", "killed", "over"}

\* The acks, the pipe to the parent, the worker's hand and the pipe to the
\* worker are the numbers of the pings, one after the other.
ParentEnd == InOrder(acks) /\ \A n \in 1..Len(toParent) : toParent[n] = Len(acks) + n

WorkerEnd ==
  worker # "gone" =>
    /\ worker = "ack" => ackFor = Answered + 1
    /\ \A n \in 1..Len(toWorker) : toWorker[n] = Answered + InHand + n
    /\ Answered + InHand + Len(toWorker) = Written

Tally ==
  /\ Answered <= Written /\ Written <= MaxPings
  /\ ackDone = "no" => Len(acks) < MaxPings
  /\ ackDone = "nil" => Len(acks) = MaxPings

AckInv == ParentEnd /\ WorkerEnd /\ Tally

\* Before the result is sent the worker only goes, and acks are only lost,
\* when it is disturbed.
VerdictInv ==
  /\ demo \in {"none", "spawn"} => worker = "none"
  /\ verdict = "none" <=> demo \in {"none", "spawn", "send", "written", "await"}
  /\ demo = "await" => sent = MaxPings
  /\ stdin = "shut" => demo \in Ending
  /\ signalled \/ worker = "gone" => disturbed \/ demo \in Ending
  /\ ackDone = "error" /\ verdict = "none" => disturbed
  /\ verdict = "ok" => sent = MaxPings /\ ackDone = "nil"
  /\ verdict = "error" => disturbed

DemoInv == DemoTypeOK /\ AckInv /\ VerdictInv

-----------------------------------------------------------------------------
\* A process runs one command, and only the commands that ask a model have a
\* stream.
Solo ==
  /\ step # "none" => stage = "none" /\ talk = "none"
  /\ stage # "none" => talk = "none"
  /\ reader # "none" => step # "none" \/ stage # "none" \/ talk # "none"

\* The stream of a command that has taken n pieces, and if done the terminal
\* chunk.
Flow(n, done) ==
  /\ done => chunks = <<>>
  /\ \A i \in 1..Len(chunks) : chunks[i] = n + i \/ (chunks[i] = Done /\ i = Len(chunks))
  /\ reader \in {"scan", "send"} =>
       /\ ~done
       /\ \A i \in 1..Len(chunks) : chunks[i] = n + i
       /\ served = n + Len(chunks) + (IF reader = "send" /\ hand # Done THEN 1 ELSE 0)
       /\ reader = "send" => hand \in {Done, served}
  /\ reader \in {"close", "ended"} =>
       IF done THEN served = n
       ELSE chunks # <<>> /\ chunks[Len(chunks)] = Done /\ served = n + Len(chunks) - 1

StreamInv ==
  /\ StreamTypeOK
  /\ reader = "none" => served = 0 /\ chunks = <<>> /\ output = <<>>

\* How many blocking hooks are in a list.
Blocking(list) == Cardinality({i \in DOMAIN list : list[i] = "blocking"})

\* What a run has taken of the stream: pieces, and the terminal chunk or not.
SkillTaken ==
  Len(transcript) + (IF step = "write" \/ (step = "persist" /\ got # Done) THEN 1 ELSE 0)
SkillDone == step \in After \cup {"over"} \/ (step = "persist" /\ got = Done)

\* The steps before the model is asked, and those of its answer.
Asking == {"begin", "body", "system", "user", "chat"}
Reading == {"loop", "write", "persist"}

TextInv ==
  /\ InOrder(output) /\ InOrder(transcript)
  /\ Len(transcript) \in {Len(output), Len(output) - 1}
  /\ step \in Asking \cup Before => reader = "none" /\ transcript = <<>> /\ result = "nil"
  /\ step \in Reading => reader # "none" /\ result = "nil"
  /\ step = "loop" => Len(output) = Len(transcript)
  /\ step = "write" => got = Len(transcript) + 1 /\ Len(output) = Len(transcript)
  /\ step = "persist" => Len(output) = Len(transcript) + (IF got = Done THEN 0 ELSE 1)
  /\ step = "persist" /\ got # Done => got = Len(output)
  /\ reader # "none" /\ result = "nil" => Flow(SkillTaken, SkillDone)

HookInv ==
  /\ step \in Asking \cup Reading => specs = NotFiring /\ owed = 0
  /\ step \in Before => owed = IF specs = NotFiring THEN 0 ELSE Blocking(specs)
  /\ reader # "none" => owed = 0

SkillInv == step # "none" => SkillTypeOK /\ TextInv /\ HookInv

-----------------------------------------------------------------------------
\* The entries whose report has been collected.
Collected ==
  {i \in Entries : asking[i] \in {"leave", "gone"} /\ \A n \in DOMAIN results : results[n] # i}

Judged == {"ask", "range", "check", "final", "over"}

Accounted ==
  /\ responses = {models[i] : i \in {j \in Collected : said[j] = "ok"}}
  /\ errors = {models[i] : i \in {j \in Collected : said[j] = "error"}}

ReportInv ==
  /\ \A n, m \in DOMAIN results : results[n] = results[m] => n = m
  /\ \A n \in DOMAIN results : asking[results[n]] \in {"leave", "gone"}
  /\ Accounted
  /\ stage = "begin" => \A i \in Entries : asking[i] = "idle"
  /\ closed => \A i \in Entries : asking[i] = "gone"
  /\ stage \in Judged => closed /\ results = <<>>
  /\ stage \in {"ask", "range", "check", "final"} \/ (stage = "over" /\ reader # "none") =>
       Cardinality(responses) >= Threshold

SynthesisInv ==
  /\ stage \in {"begin", "collect", "ask"} => reader = "none" /\ buf = <<>>
  /\ stage \in {"range", "check", "final"} => reader # "none"
  /\ moaErr = "error" => stage = "over"
  /\ InOrder(buf)
  /\ reader # "none" /\ moaErr = "nil" => Flow(Len(buf), stage \in {"final", "over"})

MoaInv ==
  /\ stage = "none" => buf = <<>>
  /\ stage # "none" => MoaTypeOK /\ ReportInv /\ SynthesisInv

-----------------------------------------------------------------------------
\* The history holds k exchanges, and the message that is asked.
Dialogue(k) ==
  /\ Len(history) = 2 * k + (IF Exchanging THEN 1 ELSE 0)
  /\ \A n \in 1..k :
       /\ history[2 * n - 1].role = "user" /\ history[2 * n].role = "assistant"
       /\ history[2 * n - 1].of = history[2 * n].of
  /\ Exchanging => history[Len(history)] = Msg("user")
  /\ k <= usage

TalkInv ==
  talk # "none" =>
    /\ exchange \in Nat /\ usage \in Nat
    /\ history \in Seq([role : {"user", "assistant"}, of : Nat])
    /\ kind = "repl" => \E k \in Nat : Dialogue(k)
    /\ InOrder(output)
    /\ talk \in {"range", "check"} => reader # "none" /\ Flow(Len(output), talk = "check")

-----------------------------------------------------------------------------
\* No two descriptors of a list have one id.
Unique(list) == \A i, j \in DOMAIN list : IdOf[list[i]] = IdOf[list[j]] => i = j

Locked == {"open", "write", "rename", "release", "give up"}

IndexInv ==
  /\ index \in Seq(Starters) /\ Unique(index)
  /\ at \in [Starters -> Stages]
  /\ upserted \in [Starters -> Seq(Starters)]
  /\ \A p \in Starters :
       /\ at[p] \in Locked => indexLock = p
       /\ at[p] \in {"open", "write", "rename"} => upserted[p] = Upsert(index, p)
       /\ at[p] = "rename" => indexTmp = upserted[p]
       /\ at[p] \in {"release", "beat", "alive"} => IdOf[p] \in Ids(index)

WatchInv ==
  /\ watch \in [at : {"off", "first", "wait", "send", "drain", "resend", "closed"},
               todo : Seq(Starters), last : Seq(Starters)]
  /\ events \in Seq(Starters) /\ Len(events) <= WatchBuf
  /\ watch.at = "first" => watch.last = <<>>
  /\ watch.at \in {"send", "drain", "resend"} =>
       /\ watch.todo # <<>> /\ watch.last # <<>>
       /\ watch.todo[Len(watch.todo)] = watch.last[Len(watch.last)]
  /\ watch.at = "resend" => Len(events) < WatchBuf
  /\ watch.at = "wait" /\ watch.last # <<>> =>
       watch.last[Len(watch.last)] = (IF events = <<>> THEN heard ELSE events[Len(events)])

HostInv == IndexInv /\ WatchInv

-----------------------------------------------------------------------------
\* Every selected row and every window starts inside its list.
ViewInv ==
  /\ size \in Nat \X Nat
  /\ rows \in [Pickers -> Nat]
  /\ cursor \in [Pickers -> [selected : Nat, offset : Nat, detail : BOOLEAN]]
  /\ listed \in [Sheets -> Seq(Starters)] /\ top \in [Sheets -> Nat]
  /\ loads \in [Loads -> [at : {"idle", "asked", "read"}, list : Seq(Starters)]]
  /\ \A v \in Pickers :
       /\ cursor[v].offset <= cursor[v].selected
       /\ Held(v) > 0 => cursor[v].selected < Held(v)
  /\ \A v \in Sheets : top[v] <= Len(listed[v])
-----------------------------------------------------------------------------
(* team demo.                                                              *)

\* The invariant of a demo holds before it begins,
LEMMA DemoStarts == DemoInit => DemoInv
PROOF
  <1> USE TransportAssumption DEF DemoInit
  <1> SUFFICES ASSUME DemoInit PROVE DemoInv
    OBVIOUS
  <1>0. /\ <<>> \in Seq(Pings) /\ Len(<<>>) <= PipeRoom
        /\ sent \in 0..MaxPings
    OBVIOUS
  <1>1. DemoTypeOK
    BY <1>0 DEF DemoTypeOK
  <1>2. AckInv
    BY DEF AckInv, ParentEnd, WorkerEnd, Tally, InOrder, Written, InHand, Answered
  <1>3. VerdictInv
    BY DEF VerdictInv, Ending
  <1> QED  BY <1>1, <1>2, <1>3 DEF DemoInv

\* A step of the parent's goroutine that sends.
LEMMA SenderSteps ==
  ASSUME DemoInv,
         DemoSpawns \/ PingFails \/ Ping \/ PingTaken \/ AllSent \/ AwaitAcks \/ CloseShuts
           \/ CloseKills \/ DemoReturns
  PROVE  DemoInv'
PROOF
  <1> USE TransportAssumption DEF DemoInv, DemoTypeOK, pipeVars, ackVars, workerVars, Pings
  <1>1. CASE DemoSpawns
    <2>0. DemoTypeOK'
      BY <1>1 DEF DemoSpawns, DemoReports
    <2>1. AckInv'
      <3>1. ParentEnd' /\ Tally'
        BY <1>1 DEF DemoSpawns, AckInv, ParentEnd, Tally, InOrder, Written, Answered
      <3>2. worker = "none" /\ worker' \in {"none", "top", "read"}
        BY <1>1 DEF DemoSpawns, VerdictInv
      <3>3. WorkerEnd'
        BY <1>1, <3>2 DEF DemoSpawns, AckInv, WorkerEnd, Written, InHand, Answered
      <3> QED  BY <3>1, <3>3 DEF AckInv
    <2>2. VerdictInv'
      BY <1>1 DEF DemoSpawns, VerdictInv, Ending, DemoReports
    <2> QED  BY <2>0, <2>1, <2>2
  <1>2. CASE PingFails
    <2>1. DemoTypeOK' /\ AckInv'
      BY <1>2 DEF PingFails, AckInv, ParentEnd, WorkerEnd, Tally, InOrder, Written, InHand, Answered, DemoReports
    <2>2. VerdictInv'
      BY <1>2 DEF PingFails, VerdictInv, Ending, DemoReports
    <2> QED  BY <2>1, <2>2
  <1>3. CASE Ping
    <2>1. DemoTypeOK'
      BY <1>3 DEF Ping
    <2>2. AckInv'
      <3>1. ParentEnd' /\ Tally'
        BY <1>3 DEF Ping, AckInv, ParentEnd, Tally, InOrder, Written, Answered
      <3>2. Len(toWorker') = Len(toWorker) + 1 /\ Written' = sent + 1 /\ Written = sent
        BY <1>3 DEF Ping, Written
      <3>3. worker # "gone" /\ Answered' = Answered /\ InHand' = InHand /\ Answered \in Nat /\ InHand \in Nat
        BY <1>3 DEF Ping, InHand, Answered
      <3>4. Answered + InHand + Len(toWorker) = sent
        BY <3>2, <3>3 DEF AckInv, WorkerEnd
      <3>5. \A n \in 1..Len(toWorker') : toWorker'[n] = IF n = Len(toWorker) + 1 THEN sent + 1 ELSE toWorker[n]
        BY <1>3, <3>2 DEF Ping
      <3>6. worker' = worker /\ ackFor' = ackFor
        BY <1>3 DEF Ping
      <3>7. \A n \in 1..Len(toWorker') : toWorker'[n] = Answered + InHand + n
        <4>1. \A n \in 1..Len(toWorker) : toWorker[n] = Answered + InHand + n
          BY <3>3 DEF AckInv, WorkerEnd
        <4>2. Len(toWorker) \in Nat
          OBVIOUS
        <4> TAKE n \in 1..Len(toWorker')
        <4>3. CASE n = Len(toWorker) + 1
          <5>1. toWorker'[n] = sent + 1
            BY <3>5, <4>3
          <5>2. sent + 1 = Answered + InHand + n
            <6>1. sent + 1 = Answered + InHand + (Len(toWorker) + 1)
              <7> HIDE DEF DemoInv
              <7>1. Answered \in Nat /\ InHand \in Nat
                BY <3>3
              <7> QED  BY <3>4, <4>2, <7>1
            <6> QED  BY <4>3, <6>1
          <5> QED  BY <5>1, <5>2
        <4>4. CASE n # Len(toWorker) + 1
          <5>1. n \in 1..Len(toWorker)
            BY <3>2, <4>2, <4>4
          <5> QED  BY <3>5, <4>1, <4>4, <5>1
        <4> QED  BY <4>3, <4>4
      <3>8. WorkerEnd'
        BY <3>2, <3>3, <3>4, <3>6, <3>7 DEF AckInv, WorkerEnd
      <3> QED  BY <3>1, <3>8 DEF AckInv
    <2>3. VerdictInv'
      BY <1>3 DEF Ping, VerdictInv, Ending
    <2> QED  BY <2>1, <2>2, <2>3
  <1>4. CASE PingTaken
    <2>1. DemoTypeOK' /\ AckInv'
      BY <1>4 DEF PingTaken, AckInv, ParentEnd, WorkerEnd, Tally, InOrder, Written, InHand, Answered
    <2>2. VerdictInv'
      BY <1>4 DEF PingTaken, VerdictInv, Ending
    <2> QED  BY <2>1, <2>2
  <1>5. CASE AllSent
    <2>1. DemoTypeOK' /\ AckInv'
      BY <1>5 DEF AllSent, AckInv, ParentEnd, WorkerEnd, Tally, InOrder, Written, InHand, Answered
    <2>2. VerdictInv'
      BY <1>5 DEF AllSent, VerdictInv, Ending
    <2> QED  BY <2>1, <2>2
  <1>6. CASE AwaitAcks
    <2>1. DemoTypeOK' /\ AckInv'
      BY <1>6 DEF AwaitAcks, AckInv, ParentEnd, WorkerEnd, Tally, InOrder, Written, InHand, Answered, DemoReports, TheVerdict
    <2>2. VerdictInv'
      BY <1>6 DEF AwaitAcks, AckInv, Tally, VerdictInv, Ending, DemoReports, TheVerdict
    <2> QED  BY <2>1, <2>2
  <1>7. CASE CloseShuts
    <2>1. DemoTypeOK' /\ AckInv'
      BY <1>7 DEF CloseShuts, AckInv, ParentEnd, WorkerEnd, Tally, InOrder, Written, InHand, Answered
    <2>2. VerdictInv'
      BY <1>7 DEF CloseShuts, VerdictInv, Ending
    <2> QED  BY <2>1, <2>2
  <1>8. CASE CloseKills
    <2>1. DemoTypeOK' /\ AckInv'
      BY <1>8 DEF CloseKills, AckInv, ParentEnd, WorkerEnd, Tally, InOrder, Written, InHand, Answered
    <2>2. VerdictInv'
      BY <1>8 DEF CloseKills, VerdictInv, Ending
    <2> QED  BY <2>1, <2>2
  <1>9. CASE DemoReturns
    <2>1. DemoTypeOK' /\ AckInv'
      BY <1>9 DEF DemoReturns, AckInv, ParentEnd, WorkerEnd, Tally, InOrder, Written, InHand, Answered
    <2>2. VerdictInv'
      BY <1>9 DEF DemoReturns, VerdictInv, Ending
    <2> QED  BY <2>1, <2>2
  <1> QED  BY <1>1, <1>2, <1>3, <1>4, <1>5, <1>6, <1>7, <1>8, <1>9

\* A step of its other goroutines, of the worker, or of the world.
LEMMA OtherSteps ==
  ASSUME DemoInv,
         AckArrives \/ AcksEnd \/ Reap \/ WorkerCode \/ Disturb
  PROVE  DemoInv'
PROOF
  <1> USE TransportAssumption
      DEF DemoInv, DemoTypeOK, pipeVars, parentVars, ackVars, workerVars, Pings, Receiving, Running
  <1>1. CASE AckArrives
    <2>1. DemoTypeOK'
      BY <1>1 DEF AckArrives
    <2>2. AckInv'
      <3>1. toParent[1] = Len(acks) + 1 /\ Answered' = Answered
        BY <1>1 DEF AckArrives, AckInv, ParentEnd, Answered
      <3>2. ParentEnd'
        BY <1>1, <3>1 DEF AckArrives, AckInv, ParentEnd, InOrder
      <3>3. WorkerEnd'
        BY <1>1, <3>1 DEF AckArrives, AckInv, WorkerEnd, Written, InHand
      <3>4. Tally'
        BY <1>1, <3>1 DEF AckArrives, AckInv, Tally, Written, Answered
      <3> QED  BY <3>2, <3>3, <3>4 DEF AckInv
    <2>3. VerdictInv'
      BY <1>1 DEF AckArrives, VerdictInv, Ending
    <2> QED  BY <2>1, <2>2, <2>3
  <1>2. CASE AcksEnd
    <2>1. DemoTypeOK' /\ AckInv'
      BY <1>2 DEF AcksEnd, AckInv, ParentEnd, WorkerEnd, Tally, InOrder, Written, InHand, Answered
    <2>2. VerdictInv'
      BY <1>2 DEF AcksEnd, VerdictInv, Ending
    <2> QED  BY <2>1, <2>2
  <1>3. CASE Reap
    <2>1. DemoTypeOK'
      BY <1>3 DEF Reap
    <2>2. AckInv'
      BY <1>3 DEF Reap, AckInv, ParentEnd, WorkerEnd, Tally, InOrder, Written, InHand, Answered
    <2>3. VerdictInv'
      BY <1>3 DEF Reap, VerdictInv, Ending
    <2> QED  BY <2>1, <2>2, <2>3
  <1>4. CASE WorkerLooks
    <2>1. DemoTypeOK' /\ AckInv'
      BY <1>4 DEF WorkerLooks, AckInv, ParentEnd, WorkerEnd, Tally, InOrder, Written, InHand, Answered
    <2>2. VerdictInv'
      BY <1>4 DEF WorkerLooks, VerdictInv, Ending
    <2> QED  BY <2>1, <2>2
  <1>5. CASE WorkerReads
    <2>1. DemoTypeOK'
      BY <1>5 DEF WorkerReads
    <2>2. AckInv'
      <3>1. ParentEnd' /\ Tally'
        BY <1>5 DEF WorkerReads, AckInv, ParentEnd, Tally, InOrder, Written, Answered
      <3>2. WorkerEnd'
        BY <1>5 DEF WorkerReads, AckInv, WorkerEnd, Written, InHand, Answered
      <3> QED  BY <3>1, <3>2 DEF AckInv
    <2>3. VerdictInv'
      BY <1>5 DEF WorkerReads, VerdictInv, Ending
    <2> QED  BY <2>1, <2>2, <2>3
  <1>6. CASE WorkerSeesEnd
    <2>1. DemoTypeOK' /\ AckInv'
      BY <1>6 DEF WorkerSeesEnd, AckInv, ParentEnd, WorkerEnd, Tally, InOrder, Written, InHand, Answered
    <2>2. VerdictInv'
      BY <1>6 DEF WorkerSeesEnd, VerdictInv, Ending
    <2> QED  BY <2>1, <2>2
  <1>7. CASE WorkerAcks
    <2>0. worker = "ack" /\ ackFor = Answered + 1 /\ InHand = 1 /\ Answered \in Nat
      BY <1>7 DEF WorkerAcks, AckInv, WorkerEnd, InHand, Answered
    <2>1. CASE demo # "over"
      <3>0. /\ toParent' = Append(toParent, ackFor) /\ ackFor \in Pings
            /\ Len(toParent) < PipeRoom /\ worker' \in {"top", "acked"}
            /\ acks' = acks /\ sent' = sent /\ demo' = demo
        BY <1>7, <2>0, <2>1 DEF WorkerAcks
      <3>1. Answered' = Answered + 1 /\ InHand' = 0 /\ Written' = Written /\ Written \in Nat
        BY <3>0 DEF Answered, InHand, Written
      <3>2. DemoTypeOK'
        <4>1. toParent' \in Seq(Pings) /\ Len(toParent') <= PipeRoom
          BY <3>0
        <4> QED  BY <1>7, <2>1, <3>0, <4>1 DEF WorkerAcks
      <3>3. ParentEnd'
        <4>1. Len(toParent') = Len(toParent) + 1 /\ Len(toParent) \in Nat /\ Len(acks) \in Nat
          BY <3>0
        <4>2. \A n \in 1..Len(toParent') : toParent'[n] =
                IF n = Len(toParent) + 1 THEN ackFor ELSE toParent[n]
          BY <3>0, <4>1
        <4>3. ackFor = Len(acks) + Len(toParent) + 1
          BY <2>0, <4>1 DEF Answered
        <4>4. \A n \in 1..Len(toParent') : toParent'[n] = Len(acks) + n
          <5> TAKE n \in 1..Len(toParent')
          <5>1. CASE n = Len(toParent) + 1
            BY <4>1, <4>2, <4>3, <5>1
          <5>2. CASE n # Len(toParent) + 1
            <6>1. n \in 1..Len(toParent)
              BY <4>1, <5>2
            <6>2. toParent[n] = Len(acks) + n
              BY <6>1 DEF AckInv, ParentEnd
            <6> QED  BY <4>2, <5>2, <6>2
          <5> QED  BY <5>1, <5>2
        <4> QED  BY <3>0, <4>4 DEF AckInv, ParentEnd, InOrder
      <3>4. Tally'
        BY <1>7, <2>0, <2>1, <3>1 DEF WorkerAcks, AckInv, WorkerEnd, Tally
      <3>5. WorkerEnd'
        BY <1>7, <2>0, <2>1, <3>1 DEF WorkerAcks, AckInv, WorkerEnd
      <3>6. VerdictInv'
        BY <1>7, <2>1 DEF WorkerAcks, VerdictInv, Ending
      <3> QED  BY <3>2, <3>3, <3>4, <3>5, <3>6 DEF AckInv
    <2>2. CASE demo = "over"
      <3>1. DemoTypeOK'
        BY <1>7, <2>2 DEF WorkerAcks
      <3>2. AckInv'
        BY <1>7, <2>2
           DEF WorkerAcks, AckInv, ParentEnd, WorkerEnd, Tally, InOrder, Written, Answered
      <3>3. VerdictInv'
        BY <1>7, <2>2 DEF WorkerAcks, VerdictInv, Ending
      <3> QED  BY <3>1, <3>2, <3>3
    <2> QED  BY <2>1, <2>2
  <1>8. CASE AckTaken
    <2>1. DemoTypeOK' /\ AckInv'
      BY <1>8 DEF AckTaken, AckInv, ParentEnd, WorkerEnd, Tally, InOrder, Written, InHand, Answered
    <2>2. VerdictInv'
      BY <1>8 DEF AckTaken, VerdictInv, Ending
    <2> QED  BY <2>1, <2>2
  <1>9. CASE Disturb
    <2>0. DemoTypeOK'
      <3>1. worker' \in {worker, "gone"} /\ signalled' \in BOOLEAN /\ disturbed' \in BOOLEAN
        BY <1>9 DEF Disturb
      <3> QED  BY <1>9, <3>1 DEF Disturb
    <2>1. AckInv'
      BY <1>9 DEF Disturb, AckInv, ParentEnd, WorkerEnd, Tally, InOrder, Written, InHand, Answered
    <2>2. VerdictInv'
      BY <1>9 DEF Disturb, VerdictInv, Ending
    <2> QED  BY <2>0, <2>1, <2>2
  <1> QED  BY <1>1, <1>2, <1>3, <1>4, <1>5, <1>6, <1>7, <1>8, <1>9 DEF WorkerCode

\* is kept by every step of it,
LEMMA DemoGoesOn == ASSUME DemoInv, DemoNext PROVE DemoInv'
  BY SenderSteps, OtherSteps DEF DemoNext, DemoCode

\* and by every step of another command.
LEMMA DemoRests == ASSUME DemoInv, UNCHANGED demoVars PROVE DemoInv'
  BY DEF DemoInv, DemoTypeOK, AckInv, ParentEnd, WorkerEnd, Tally, VerdictInv, InOrder, Written, InHand, Answered, Ending,
         demoVars, pipeVars, parentVars, ackVars, workerVars

\* Acks in order and without a gap, and a verdict that is deserved.
LEMMA DemoSays == DemoInv => DemoIsHonest
PROOF
  <1> SUFFICES ASSUME DemoInv PROVE DemoIsHonest
    OBVIOUS
  <1>1. acks = [n \in 1..Len(acks) |-> n]
    BY DEF DemoInv, DemoTypeOK, AckInv, ParentEnd, InOrder
  <1> QED  BY <1>1 DEF DemoInv, AckInv, Tally, VerdictInv, DemoIsHonest
-----------------------------------------------------------------------------
(* The stream of an answer.                                                *)

\* No command has a stream at first.
LEMMA StreamStarts == StreamInit => StreamInv
PROOF
  <1> SUFFICES ASSUME StreamInit PROVE StreamInv
    OBVIOUS
  <1>1. chunks = <<>> /\ output = <<>> /\ Len(<<>>) <= Buffer
    BY ChatStreamAssumption DEF StreamInit
  <1>2. <<>> \in Seq(0..MaxDeltas) /\ <<>> \in Seq(1..MaxDeltas)
    OBVIOUS
  <1> QED  BY <1>1, <1>2, ChatStreamAssumption DEF StreamInit, StreamInv, StreamTypeOK, Done

\* The goroutine leaves what the command has written alone, and its end is no
\* new beginning.
LEMMA StreamGoesOn ==
  ASSUME StreamInv, StreamNext
  PROVE  StreamInv' /\ output' = output /\ (reader' = "none" <=> reader = "none")
PROOF
  <1> USE ChatStreamAssumption DEF StreamInv, StreamTypeOK, Done
  <1>1. CASE CtxEnds
    BY <1>1 DEF CtxEnds
  <1>2. CASE ReadDelta
    BY <1>2 DEF ReadDelta
  <1>3. CASE FinishScan
    BY <1>3 DEF FinishScan
  <1>4. CASE Send
    <2>1. chunks' \in Seq(0..MaxDeltas) /\ Len(chunks') <= Buffer
      BY <1>4 DEF Send
    <2> QED  BY <1>4, <2>1 DEF Send
  <1>5. CASE CloseChunks
    BY <1>5 DEF CloseChunks
  <1> QED  BY <1>1, <1>2, <1>3, <1>4, <1>5 DEF StreamNext, BodyEnds, ReaderCode, ReadCancelled

\* An appended entry is the last, and the others keep their places.
LEMMA Appended ==
  ASSUME NEW S, NEW list \in Seq(S), NEW e
  PROVE  /\ Len(list) \in Nat /\ Len(Append(list, e)) = Len(list) + 1
         /\ Append(list, e)[Len(list) + 1] = e
         /\ \A i \in 1..Len(list) : Append(list, e)[i] = list[i]
  OBVIOUS

\* What is behind the head keeps its order.
LEMMA Rest ==
  ASSUME NEW S, NEW list \in Seq(S), list # <<>>
  PROVE  /\ Len(list) \in Nat \ {0} /\ Head(list) = list[1] /\ Head(list) \in S
         /\ Tail(list) \in Seq(S) /\ Len(Tail(list)) = Len(list) - 1
         /\ \A i \in 1..Len(Tail(list)) : Tail(list)[i] = list[i + 1]
  OBVIOUS

\* The goroutine keeps the stream in order.
LEMMA FlowGoesOn ==
  ASSUME StreamInv, StreamNext, reader # "none", NEW n \in Nat, NEW done \in BOOLEAN, Flow(n, done)
  PROVE  Flow(n, done)'
PROOF
  <1>0. /\ chunks \in Seq(0..MaxDeltas) /\ Len(chunks) \in Nat /\ served \in Nat /\ hand \in Nat
        /\ MaxDeltas \in Nat
    BY ChatStreamAssumption DEF StreamInv, StreamTypeOK
  <1>1. CASE CtxEnds
    BY <1>1 DEF CtxEnds, Flow
  <1>2. CASE ReadDelta
    BY <1>0, <1>2 DEF ReadDelta, Flow, Done
  <1>3. CASE FinishScan
    BY <1>0, <1>3 DEF FinishScan, Flow
  <1>4. CASE Send
    <2>0. chunks' = Append(chunks, hand) /\ reader = "send" /\ served' = served
      BY <1>4 DEF Send
    <2>1. /\ Len(chunks') = Len(chunks) + 1 /\ chunks'[Len(chunks) + 1] = hand
          /\ \A i \in 1..Len(chunks) : chunks'[i] = chunks[i]
      BY <1>0, <2>0, Appended
    <2>2. /\ ~done
          /\ \A i \in 1..Len(chunks) : chunks[i] = n + i
          /\ hand = Done => served = n + Len(chunks)
          /\ hand # Done => served = n + Len(chunks) + 1 /\ hand = served
      BY <1>0, <2>0 DEF Flow
    <2>3. CASE hand = Done
      <3>1. reader' = "close"
        BY <1>4, <2>3 DEF Send
      <3>2. served' = n + Len(chunks') - 1 /\ chunks'[Len(chunks')] = Done /\ chunks' # <<>>
        BY <1>0, <2>0, <2>1, <2>2, <2>3
      <3>3. ASSUME NEW i \in 1..Len(chunks')
            PROVE  chunks'[i] = n + i \/ (chunks'[i] = Done /\ i = Len(chunks'))
        <4>1. i = Len(chunks) + 1 \/ i \in 1..Len(chunks)
          BY <1>0, <2>1
        <4> QED  BY <1>0, <2>1, <2>2, <2>3, <4>1
      <3> QED  BY <2>2, <3>1, <3>2, <3>3 DEF Flow
    <2>4. CASE hand # Done
      <3>1. reader' = "scan"
        BY <1>4, <2>4 DEF Send
      <3>2. served' = n + Len(chunks') /\ hand = n + (Len(chunks) + 1)
        BY <1>0, <2>0, <2>1, <2>2, <2>4
      <3>3. ASSUME NEW i \in 1..Len(chunks')
            PROVE  chunks'[i] = n + i
        <4>1. i = Len(chunks) + 1 \/ i \in 1..Len(chunks)
          BY <1>0, <2>1
        <4> QED  BY <1>0, <2>1, <2>2, <3>2, <4>1
      <3>4. served' = n + Len(chunks') + 0
        BY <1>0, <2>1, <3>2
      <3> QED  BY <2>2, <3>1, <3>3, <3>4 DEF Flow
    <2> QED  BY <2>3, <2>4
  <1>5. CASE CloseChunks
    BY <1>5 DEF CloseChunks, Flow
  <1> QED  BY <1>1, <1>2, <1>3, <1>4, <1>5 DEF StreamNext, BodyEnds, ReaderCode, ReadCancelled

\* What is taken is the next piece, or the terminal chunk and then there is no
\* other.
LEMMA FlowIsTaken ==
  ASSUME StreamInv, reader # "none", NEW n \in Nat, Flow(n, FALSE),
         NEW c, Takes(c), UNCHANGED <<reader, served, hand>>
  PROVE  /\ chunks' \in Seq(0..MaxDeltas) /\ Len(chunks') <= Buffer
         /\ c # Done => c = n + 1 /\ c \in 1..MaxDeltas /\ Flow(n + 1, FALSE)'
         /\ c = Done => Flow(n, TRUE)'
PROOF
  <1>0. /\ chunks \in Seq(0..MaxDeltas) /\ served \in Nat /\ MaxDeltas \in Nat
        /\ Len(chunks) <= Buffer /\ Buffer \in Nat
        /\ reader \in {"scan", "send", "close", "ended"}
    BY ChatStreamAssumption DEF StreamInv, StreamTypeOK
  <1>1. /\ chunks' \in Seq(0..MaxDeltas) /\ Len(chunks') = Len(chunks) - 1
        /\ Len(chunks) \in Nat \ {0} /\ c = chunks[1] /\ c \in 0..MaxDeltas
        /\ \A i \in 1..Len(chunks') : chunks'[i] = chunks[i + 1]
    <2>1. chunks # <<>> /\ c = Head(chunks) /\ chunks' = Tail(chunks)
      BY DEF Takes
    <2> QED  BY <1>0, <2>1, Rest
  <1>2. /\ c = n + 1 \/ (c = Done /\ Len(chunks) = 1)
        /\ \A i \in 1..Len(chunks') :
             chunks'[i] = n + (i + 1) \/ (chunks'[i] = Done /\ i + 1 = Len(chunks))
    <2>1. \A i \in 1..Len(chunks) : chunks[i] = n + i \/ (chunks[i] = Done /\ i = Len(chunks))
      BY DEF Flow
    <2>2. 1 \in 1..Len(chunks) /\ \A i \in 1..Len(chunks') : i + 1 \in 1..Len(chunks)
      BY <1>1
    <2>3. c = n + 1 \/ (c = Done /\ 1 = Len(chunks))
      BY <1>1, <2>1, <2>2
    <2> QED  BY <1>1, <2>1, <2>2, <2>3
  <1>3. ASSUME c # Done PROVE c = n + 1 /\ Flow(n + 1, FALSE)'
    <2>1. c = n + 1
      BY <1>2, <1>3
    <2>2. ASSUME NEW i \in 1..Len(chunks')
          PROVE  chunks'[i] = (n + 1) + i \/ (chunks'[i] = Done /\ i = Len(chunks'))
      BY <1>1, <1>2
    <2>3. CASE reader \in {"scan", "send"}
      <3>1. /\ \A i \in 1..Len(chunks) : chunks[i] = n + i
            /\ served = n + Len(chunks) + (IF reader = "send" /\ hand # Done THEN 1 ELSE 0)
            /\ reader = "send" => hand \in {Done, served}
        BY <2>3 DEF Flow
      <3>2. ASSUME NEW i \in 1..Len(chunks')
            PROVE  chunks'[i] = (n + 1) + i
        <4>1. i + 1 \in 1..Len(chunks) /\ chunks'[i] = chunks[i + 1]
          BY <1>1
        <4>2. chunks[i + 1] = n + (i + 1)
          BY <3>1, <4>1
        <4> QED  BY <4>1, <4>2
      <3>3. served = (n + 1) + Len(chunks') + (IF reader = "send" /\ hand # Done THEN 1 ELSE 0)
        BY <1>1, <3>1
      <3>4. reader' = reader /\ served' = served /\ hand' = hand /\ reader \notin {"close", "ended"}
        BY <2>3
      <3>5. reader = "send" => hand \in {Done, served}
        BY <3>1
      <3> QED  BY <2>1, <2>2, <3>2, <3>3, <3>4, <3>5 DEF Flow
    <2>4. CASE reader \in {"close", "ended"}
      <3>1. chunks[Len(chunks)] = Done /\ served = n + Len(chunks) - 1
        BY <2>4 DEF Flow
      <3>2. Len(chunks) # 1
        BY <1>1, <1>3, <3>1
      <3>3. Len(chunks') \in 1..Len(chunks') /\ Len(chunks') + 1 = Len(chunks)
        BY <1>1, <3>2
      <3>4. chunks' # <<>> /\ chunks'[Len(chunks')] = Done
        BY <1>1, <3>1, <3>3
      <3>5. served = (n + 1) + Len(chunks') - 1
        BY <1>0, <1>1, <3>1
      <3>6. reader' = reader /\ served' = served /\ reader \notin {"scan", "send"}
        BY <2>4
      <3> QED  BY <2>1, <2>2, <3>4, <3>5, <3>6 DEF Flow
    <2> QED  BY <1>0, <2>1, <2>3, <2>4
  <1>4. ASSUME c = Done PROVE Flow(n, TRUE)'
    <2>1. Len(chunks) = 1 /\ 1 \in 1..Len(chunks) /\ chunks[1] # n + 1
      BY <1>1, <1>2, <1>4 DEF Done
    <2>2. reader \in {"close", "ended"}
      BY <1>0, <2>1 DEF Flow
    <2>3. served = n
      BY <2>1, <2>2 DEF Flow
    <2>4. chunks' = <<>>
      BY <1>1, <2>1
    <2> QED  BY <2>2, <2>3, <2>4 DEF Flow
  <1>5. c # Done => c \in 1..MaxDeltas
    BY <1>0, <1>1 DEF Done
  <1>6. Len(chunks') <= Buffer
    BY <1>0, <1>1
  <1> QED  BY <1>1, <1>3, <1>4, <1>5, <1>6
-----------------------------------------------------------------------------
(* skill run.                                                              *)

\* A bijection keeps the size of a finite set.
LEMMA SameSize ==
  ASSUME NEW X, NEW Y, IsFiniteSet(X), NEW f \in Bijection(X, Y)
  PROVE  Cardinality(Y) = Cardinality(X)
  BY FS_Surjection DEF Bijection

\* Counting the blocking hooks of a list hook by hook.
LEMMA BlockingParts ==
  ASSUME NEW list \in Seq({"blocking", "plain"}), list # <<>>
  PROVE  /\ Blocking(list) \in Nat /\ Blocking(Tail(list)) \in Nat
         /\ Blocking(list) =
              Blocking(Tail(list)) + (IF Head(list) = "blocking" THEN 1 ELSE 0)
PROOF
  <1> DEFINE rest == Tail(list)
             here == {i \in 1..Len(list) : list[i] = "blocking"}
             there == {i \in 1..Len(rest) : rest[i] = "blocking"}
             later == here \ {1}
  <1>1. /\ Len(list) \in Nat \ {0} /\ Head(list) = list[1]
        /\ rest \in Seq({"blocking", "plain"}) /\ Len(rest) = Len(list) - 1
        /\ \A i \in 1..Len(rest) : rest[i] = list[i + 1]
    BY Rest
  <1>2. Blocking(list) = Cardinality(here) /\ Blocking(rest) = Cardinality(there)
    <2>1. DOMAIN list = 1..Len(list) /\ DOMAIN rest = 1..Len(rest)
      BY <1>1
    <2> QED  BY <2>1 DEF Blocking
  <1>3. /\ IsFiniteSet(here) /\ IsFiniteSet(there)
        /\ Cardinality(here) \in Nat /\ Cardinality(there) \in Nat
    <2>1. IsFiniteSet(1..Len(list)) /\ IsFiniteSet(1..Len(rest))
      BY <1>1, FS_Interval
    <2>2. here \subseteq 1..Len(list) /\ there \subseteq 1..Len(rest)
      OBVIOUS
    <2> QED  BY <2>1, <2>2, FS_Subset, FS_CardinalityType
  <1>4. Cardinality(later) = Cardinality(there)
    <2> DEFINE shift == [i \in there |-> i + 1]
    <2>1. \A i \in there : i \in 1..Len(rest) /\ i + 1 \in later
      BY <1>1
    <2>2. \A j \in later : j - 1 \in there /\ (j - 1) + 1 = j
      BY <1>1
    <2>3. shift \in [there -> later]
      BY <2>1
    <2>4. \A i, j \in there : shift[i] = shift[j] => i = j
      BY <2>1
    <2>5. \A j \in later : \E i \in there : shift[i] = j
      BY <2>2
    <2> HIDE DEF here, there, later, shift
    <2>6. shift \in Bijection(there, later)
      BY <2>3, <2>4, <2>5 DEF Bijection, Injection, Surjection, IsInjective
    <2> QED  BY <1>3, <2>6, SameSize
  <1>5. Head(list) = "blocking" => 1 \in here
    BY <1>1
  <1>6. Head(list) # "blocking" => later = here
    BY <1>1
  <1> HIDE DEF here, there
  <1>7. CASE Head(list) = "blocking"
    <2>1. Cardinality(here \ {1}) = Cardinality(here) - 1
      BY <1>3, <1>5, <1>7, FS_RemoveElement
    <2> QED  BY <1>2, <1>3, <1>4, <1>7, <2>1
  <1>8. CASE Head(list) # "blocking"
    <2>1. Cardinality(here) = Cardinality(there)
      BY <1>4, <1>6, <1>8
    <2> QED  BY <1>2, <1>3, <1>8, <2>1
  <1> QED  BY <1>7, <1>8

\* No list without hooks blocks.
LEMMA NoneBlocking == Blocking(<<>>) = 0
PROOF
  <1>1. {i \in DOMAIN <<>> : <<>>[i] = "blocking"} = {}
    OBVIOUS
  <1> QED  BY <1>1, FS_EmptySet DEF Blocking

\* How many hooks block is a number.
LEMMA BlockingType ==
  ASSUME NEW list \in Seq({"blocking", "plain"})
  PROVE  Blocking(list) \in Nat
  BY BlockingParts, NoneBlocking
\* A step of the run that neither takes nor writes leaves the texts as they are.
LEMMA TextStays ==
  ASSUME SkillTypeOK, TextInv, UNCHANGED <<streamVars, got, transcript>>,
         step' \notin Reading,
         step' \in Asking \cup Before => step \in Asking \cup Before /\ result' = result,
         result' = "nil" => result = "nil",
         result' = "nil" /\ reader # "none" =>
           step \in After \cup {"over"} /\ step' \in After \cup {"over"}
  PROVE  TextInv'
PROOF
  <1>1. /\ output' = output /\ transcript' = transcript /\ reader' = reader /\ got' = got
        /\ served' = served /\ hand' = hand /\ chunks' = chunks
    BY DEF streamVars
  <1>2. reader' # "none" /\ result' = "nil" => Flow(SkillTaken, SkillDone)'
    <2> SUFFICES ASSUME reader # "none", result' = "nil" PROVE Flow(SkillTaken, SkillDone)'
      BY <1>1
    <2>1. SkillTaken' = SkillTaken /\ SkillDone' = SkillDone
      BY <1>1 DEF SkillTaken, SkillDone, After
    <2>2. Flow(SkillTaken, SkillDone)
      BY DEF TextInv
    <2> QED  BY <1>1, <2>1, <2>2 DEF Flow
  <1>3. step' \notin {"loop", "write", "persist"}
    BY DEF Reading
  <1>4. InOrder(output)' /\ InOrder(transcript)'
    BY <1>1 DEF TextInv, InOrder
  <1>5. Len(transcript') \in {Len(output'), Len(output') - 1}
    BY <1>1 DEF TextInv
  <1>6. step' \in Asking \cup Before => reader' = "none" /\ transcript' = <<>> /\ result' = "nil"
    BY <1>1 DEF TextInv
  <1> QED  BY <1>2, <1>3, <1>4, <1>5, <1>6 DEF TextInv

\* The steps around the hooks keep the texts and the account of what is
\* owed.
LEMMA HooksRun ==
  ASSUME SkillTypeOK, TextInv, HookInv,
         FiresNothing \/ (\E list \in HookLists : Fire(list)) \/ RunHook \/ Fired
  PROVE  SkillTypeOK' /\ TextInv' /\ HookInv' /\ UNCHANGED streamVars
PROOF
  <1> USE DEF SkillTypeOK, Firing, Before, After, Steps, Asking, Reading, Continue, Return,
          hookVars
  <1>0. step \in Before => reader = "none"
    BY DEF TextInv
  <1>1. CASE FiresNothing
    <2>1. SkillTypeOK'
      BY <1>1 DEF FiresNothing, Passed
    <2>2. HookInv'
      BY <1>1 DEF FiresNothing, Passed, HookInv, streamVars
    <2>3. TextInv'
      BY <1>0, <1>1, TextStays DEF FiresNothing, Passed
    <2> QED  BY <1>1, <2>1, <2>2, <2>3 DEF FiresNothing
  <1>2. ASSUME NEW list \in HookLists, Fire(list)
        PROVE  SkillTypeOK' /\ TextInv' /\ HookInv' /\ UNCHANGED streamVars
    <2>0. list \in Seq({"blocking", "plain"}) /\ Blocking(list) \in Nat
      BY SkillRunAssumption, BlockingType
    <2>1. owed' = IF step \in Before THEN owed + Blocking(list) ELSE owed
      BY <1>2 DEF Fire, Blocking
    <2>2. /\ specs = NotFiring /\ step \in Before \cup After /\ depth = 0
          /\ UNCHANGED <<streamVars, envDepth, got, transcript>>
      BY <1>2 DEF Fire
    <2>3. CASE Failed /\ UNCHANGED <<depth, specs>>
      <3>1. SkillTypeOK'
        BY <2>0, <2>1, <2>2, <2>3 DEF Failed
      <3>2. HookInv'
        BY <2>0, <2>1, <2>2, <2>3 DEF Failed, HookInv, TextInv, streamVars
      <3>3. TextInv'
        BY <2>2, <2>3, TextStays DEF Failed
      <3> QED  BY <2>2, <3>1, <3>2, <3>3
    <2>4. CASE depth' = depth + 1 /\ specs' = list /\ UNCHANGED <<step, result>>
      <3>1. list # NotFiring
        BY <2>0, SkillRunAssumption
      <3>2. SkillTypeOK'
        BY <2>0, <2>1, <2>2, <2>4, <3>1
      <3>3. HookInv'
        BY <2>0, <2>1, <2>2, <2>4, <3>1 DEF HookInv, TextInv, streamVars
      <3>4. TextInv'
        BY <1>0, <2>2, <2>4, TextStays
      <3> QED  BY <2>2, <3>2, <3>3, <3>4
    <2> QED  BY <1>2, <2>3, <2>4 DEF Fire
  <1>3. CASE RunHook
    <2>0. /\ specs \in Seq({"blocking", "plain"}) /\ specs # <<>> /\ specs # NotFiring
          /\ depth = 1 /\ step \in Before \cup After
          /\ UNCHANGED <<streamVars, envDepth, got, transcript>>
      BY <1>3 DEF RunHook
    <2>1. /\ Tail(specs) \in Seq({"blocking", "plain"}) /\ Tail(specs) # NotFiring
          /\ Blocking(specs) \in Nat /\ Blocking(Tail(specs)) \in Nat
          /\ Blocking(specs) =
               Blocking(Tail(specs)) + (IF Head(specs) = "blocking" THEN 1 ELSE 0)
      BY <2>0, Rest, BlockingParts, SkillRunAssumption
    <2>2. PICK exit \in Outcomes :
            /\ owed' = IF step \in Before /\ Head(specs) = "blocking" /\ exit = "zero"
                       THEN owed - 1 ELSE owed
            /\ IF Head(specs) = "blocking" /\ exit # "zero"
               THEN Failed /\ specs' = NotFiring /\ depth' = depth - 1
               ELSE specs' = Tail(specs) /\ UNCHANGED <<step, result, depth>>
      BY <1>3 DEF RunHook
    <2>3. step \in Before => owed = Blocking(specs)
      BY <2>0 DEF HookInv
    <2>4. CASE Head(specs) = "blocking" /\ exit # "zero"
      <3>1. Failed /\ specs' = NotFiring /\ depth' = 0 /\ owed' = owed
        BY <2>0, <2>2, <2>4
      <3>2. SkillTypeOK'
        BY <2>0, <3>1 DEF Failed
      <3>3. HookInv'
        BY <2>0, <3>1 DEF Failed, HookInv, TextInv, streamVars
      <3>4. TextInv'
        BY <2>0, <3>1, TextStays DEF Failed
      <3> QED  BY <2>0, <3>2, <3>3, <3>4
    <2>5. CASE ~(Head(specs) = "blocking" /\ exit # "zero")
      <3>1. specs' = Tail(specs) /\ UNCHANGED <<step, result, depth>>
        BY <2>2, <2>5
      <3>2. owed' \in Nat /\ (step \in Before => owed' = Blocking(Tail(specs)))
            /\ (step \notin Before => owed' = owed)
        BY <2>1, <2>2, <2>3, <2>5
      <3>3. SkillTypeOK'
        BY <2>0, <2>1, <3>1, <3>2
      <3>4. HookInv'
        BY <2>0, <2>1, <3>1, <3>2 DEF HookInv, TextInv, streamVars
      <3>5. TextInv'
        BY <1>0, <2>0, <3>1, TextStays
      <3> QED  BY <2>0, <3>3, <3>4, <3>5
    <2> QED  BY <2>4, <2>5
  <1>4. CASE Fired
    <2>0. <<>> # NotFiring
      BY SkillRunAssumption
    <2>1. SkillTypeOK'
      BY <1>4, <2>0 DEF Fired, Passed
    <2>2. HookInv'
      BY <1>4, <2>0, NoneBlocking DEF Fired, Passed, HookInv, streamVars
    <2>3. TextInv'
      BY <1>0, <1>4, TextStays DEF Fired, Passed
    <2> QED  BY <1>4, <2>1, <2>2, <2>3 DEF Fired
  <1> QED  BY <1>1, <1>2, <1>3, <1>4
\* The steps around the stream that leave it alone.
LEMMA RunMoves ==
  ASSUME SkillTypeOK, TextInv, HookInv,
         Begins \/ Rejects \/ Body \/ PersistRequest \/ SeeCancel \/ Panics
  PROVE  SkillTypeOK' /\ TextInv' /\ HookInv' /\ UNCHANGED streamVars
PROOF
  <1> USE DEF SkillTypeOK, Before, After, Steps, Asking, Reading, Continue, Return, hookVars
  <1>0. /\ step \in Asking => reader = "none" /\ result = "nil" /\ specs = NotFiring /\ owed = 0
        /\ step \in Reading => result = "nil" /\ specs = NotFiring /\ owed = 0
    BY DEF TextInv, HookInv
  <1>1. CASE Begins \/ Rejects
    <2>1. SkillTypeOK' /\ HookInv'
      BY <1>0, <1>1 DEF Begins, Rejects, HookInv, streamVars
    <2>2. TextInv'
      BY <1>0, <1>1, TextStays DEF Begins, Rejects
    <2> QED  BY <1>1, <2>1, <2>2 DEF Begins, Rejects
  <1>2. CASE Body
    <2>1. SkillTypeOK' /\ HookInv'
      BY <1>0, <1>2 DEF Body, HookInv, streamVars
    <2>2. TextInv'
      BY <1>0, <1>2, TextStays DEF Body
    <2> QED  BY <1>2, <2>1, <2>2 DEF Body
  <1>3. CASE PersistRequest
    <2>1. SkillTypeOK' /\ HookInv'
      BY <1>0, <1>3 DEF PersistRequest, HookInv, streamVars
    <2>2. TextInv'
      BY <1>0, <1>3, TextStays DEF PersistRequest
    <2> QED  BY <1>3, <2>1, <2>2 DEF PersistRequest
  <1>4. CASE SeeCancel
    <2>1. SkillTypeOK' /\ HookInv'
      BY <1>0, <1>4 DEF SeeCancel, HookInv, streamVars
    <2>2. TextInv'
      BY <1>0, <1>4, TextStays DEF SeeCancel
    <2> QED  BY <1>4, <2>1, <2>2 DEF SeeCancel
  <1>5. CASE Panics
    <2>1. SkillTypeOK' /\ HookInv'
      BY <1>0, <1>5 DEF Panics, HookInv, streamVars
    <2>2. TextInv'
      BY <1>0, <1>5, TextStays DEF Panics
    <2> QED  BY <1>5, <2>1, <2>2 DEF Panics
  <1> QED  BY <1>1, <1>2, <1>3, <1>4, <1>5

\* A list of pieces in order stays one when its next piece is added.
LEMMA NextInOrder ==
  ASSUME NEW S, NEW list \in Seq(S), InOrder(list), NEW n, n = Len(list) + 1
  PROVE  InOrder(Append(list, n))
PROOF
  <1>1. ASSUME NEW i \in 1..Len(Append(list, n)) PROVE Append(list, n)[i] = i
    <2>1. i = Len(list) + 1 \/ i \in 1..Len(list)
      BY Appended
    <2> QED  BY <2>1, Appended DEF InOrder
  <1> QED  BY <1>1 DEF InOrder

\* The steps of the loop over the stream, and the request before it.
LEMMA RunReads ==
  ASSUME StreamInv, SkillTypeOK, TextInv, HookInv,
         AskModel \/ TakeChunk \/ WriteDelta \/ PersistChunk
  PROVE  /\ SkillTypeOK' /\ TextInv' /\ HookInv' /\ StreamInv'
PROOF
  <1> USE ChatStreamAssumption
      DEF SkillTypeOK, Before, After, Steps, Asking, Reading, Continue, Return, hookVars
  <1>0. /\ output \in Seq(1..MaxDeltas) /\ transcript \in Seq(1..MaxDeltas)
        /\ Len(output) \in Nat /\ Len(transcript) \in Nat
        /\ InOrder(output) /\ InOrder(transcript)
        /\ step \in Reading => reader # "none" /\ result = "nil"
    BY DEF StreamInv, StreamTypeOK, TextInv
  <1>1. CASE AskModel
    <2>1. SkillTypeOK' /\ HookInv'
      BY <1>1 DEF AskModel, HookInv
    <2>2. /\ reader = "none" /\ transcript = <<>> /\ result = "nil" /\ step = "chat"
          /\ UNCHANGED <<ctx, served, hand, chunks, output, transcript, got>>
          /\ Len(transcript) = 0
      BY <1>1 DEF AskModel, TextInv
    <2>3. served = 0 /\ chunks = <<>> /\ output = <<>> /\ Len(output) = 0 /\ Len(chunks) = 0
      BY <2>2 DEF StreamInv
    <2>4. CASE Asks /\ step' = "loop" /\ result' = result
      <3>1. SkillTaken' = 0 /\ SkillDone' = FALSE
        BY <2>2, <2>4 DEF SkillTaken, SkillDone
      <3>2. Flow(0, FALSE)'
        BY <2>2, <2>3, <2>4 DEF Flow, Asks
      <3>3. Flow(SkillTaken, SkillDone)'
        BY <3>1, <3>2 DEF Flow
      <3>4. TextInv'
        BY <1>0, <2>2, <2>3, <2>4, <3>3 DEF TextInv, InOrder, Asks
      <3>5. StreamInv'
        BY <2>2, <2>3, <2>4 DEF StreamInv, StreamTypeOK, Asks
      <3> QED  BY <2>1, <3>4, <3>5
    <2>5. CASE Refused /\ step' = "PostToolUse" /\ result' = "error"
      <3>1. TextInv'
        BY <1>0, <2>2, <2>3, <2>5 DEF TextInv, InOrder, Refused
      <3>2. StreamInv'
        BY <2>2, <2>3, <2>5 DEF StreamInv, StreamTypeOK, Refused
      <3> QED  BY <2>1, <3>1, <3>2
    <2> QED  BY <1>1, <2>2, <2>4, <2>5 DEF AskModel
  <1>2. CASE TakeChunk
    <2>1. PICK c \in 0..MaxDeltas : Takes(c) /\ got' = c
      BY <1>2 DEF TakeChunk
    <2>2. /\ step = "loop" /\ reader # "none" /\ result = "nil" /\ result' = "nil"
          /\ step' = (IF c = Done THEN "persist" ELSE "write")
          /\ UNCHANGED <<ctx, reader, served, hand, output, transcript>>
          /\ Len(output) = Len(transcript)
      BY <1>2, <2>1 DEF TakeChunk, TextInv
    <2>3. PICK n \in Nat : n = Len(transcript)
      BY <1>0
    <2>4. Flow(n, FALSE)
      <3>1. SkillTaken = n /\ SkillDone = FALSE
        BY <2>2, <2>3 DEF SkillTaken, SkillDone
      <3> QED  BY <2>2, <3>1 DEF TextInv
    <2>5. /\ chunks' \in Seq(0..MaxDeltas) /\ Len(chunks') <= Buffer
          /\ c # Done => c = n + 1 /\ c \in 1..MaxDeltas /\ Flow(n + 1, FALSE)'
          /\ c = Done => Flow(n, TRUE)'
      BY <2>1, <2>2, <2>4, FlowIsTaken
    <2>6. SkillTypeOK' /\ HookInv'
      BY <1>2, <2>1, <2>2 DEF TakeChunk, HookInv
    <2>7. StreamInv'
      BY <2>2, <2>5 DEF StreamInv, StreamTypeOK
    <2>8. Flow(SkillTaken, SkillDone)'
      <3>1. CASE c = Done
        <4>1. SkillTaken' = n /\ SkillDone' = TRUE
          BY <2>1, <2>2, <2>3, <3>1 DEF SkillTaken, SkillDone
        <4> QED  BY <2>5, <3>1, <4>1 DEF Flow
      <3>2. CASE c # Done
        <4>1. SkillTaken' = n + 1 /\ SkillDone' = FALSE
          BY <2>1, <2>2, <2>3, <3>2 DEF SkillTaken, SkillDone
        <4> QED  BY <2>5, <3>2, <4>1 DEF Flow
      <3> QED  BY <3>1, <3>2
    <2>9. TextInv'
      <3>1. InOrder(output)' /\ InOrder(transcript)'
        BY <1>0, <2>2 DEF InOrder
      <3>2. Len(transcript') \in {Len(output'), Len(output') - 1}
        BY <1>0, <2>2
      <3>3. c # Done => got' = Len(transcript') + 1
        BY <2>1, <2>2, <2>3, <2>5
      <3>4. c = Done => Len(output') = Len(transcript') + 0
        BY <1>0, <2>2
      <3> QED  BY <2>1, <2>2, <2>8, <3>1, <3>2, <3>3, <3>4 DEF TextInv
    <2> QED  BY <2>6, <2>7, <2>9
  <1>3. CASE WriteDelta
    <2>1. /\ step = "write" /\ reader # "none" /\ result = "nil"
          /\ got = Len(transcript) + 1 /\ Len(output) = Len(transcript) /\ got \in 1..MaxDeltas
          /\ UNCHANGED <<ctx, reader, served, hand, chunks, transcript, got>>
      BY <1>0, <1>3 DEF WriteDelta, TextInv
    <2>2. SkillTypeOK' /\ HookInv'
      BY <1>3 DEF WriteDelta, HookInv
    <2>3. CASE output' = Append(output, got) /\ step' = "persist" /\ result' = result
      <3>1. /\ output' \in Seq(1..MaxDeltas) /\ Len(output') = Len(transcript) + 1
            /\ InOrder(output')
        BY <1>0, <2>1, <2>3, NextInOrder
      <3>2. StreamInv'
        BY <2>1, <3>1 DEF StreamInv, StreamTypeOK
      <3>3. Flow(SkillTaken, SkillDone)'
        <4>1. got # Done
          BY <1>0, <2>1 DEF Done
        <4>2. SkillTaken' = SkillTaken /\ SkillDone' = FALSE /\ SkillDone = FALSE
          BY <2>1, <2>3, <4>1 DEF SkillTaken, SkillDone
        <4>3. Flow(SkillTaken, SkillDone)
          BY <2>1 DEF TextInv
        <4> QED  BY <2>1, <4>2, <4>3 DEF Flow
      <3>4. InOrder(transcript)' /\ InOrder(output)'
        BY <1>0, <2>1, <3>1 DEF InOrder
      <3>5. got # Done /\ got' = Len(output') /\ Len(transcript') = Len(output') - 1
        BY <1>0, <2>1, <3>1 DEF Done
      <3>6. TextInv'
        BY <2>1, <2>3, <3>1, <3>3, <3>4, <3>5 DEF TextInv
      <3> QED  BY <2>2, <3>2, <3>6
    <2>4. CASE UNCHANGED output /\ step' = "PostToolUse" /\ result' = "error"
      <3>1. StreamInv'
        BY <2>1, <2>4 DEF StreamInv, StreamTypeOK
      <3>2. TextInv'
        BY <1>0, <2>1, <2>4 DEF TextInv, InOrder
      <3> QED  BY <2>2, <3>1, <3>2
    <2> QED  BY <1>3, <2>1, <2>3, <2>4 DEF WriteDelta
  <1>4. CASE PersistChunk
    <2>1. /\ step = "persist" /\ reader # "none" /\ result = "nil"
          /\ Len(output) = Len(transcript) + (IF got = Done THEN 0 ELSE 1)
          /\ got # Done => got = Len(output)
          /\ UNCHANGED <<streamVars, got>>
      BY <1>0, <1>4 DEF PersistChunk, TextInv
    <2>2. StreamInv'
      BY <2>1 DEF StreamInv, StreamTypeOK, streamVars
    <2>3. HookInv'
      BY <1>4 DEF PersistChunk, HookInv, streamVars
    <2>4. Flow(SkillTaken, SkillDone)
      BY <2>1 DEF TextInv
    <2>5. CASE got # Done /\ transcript' = Append(transcript, got) /\ step' = "loop" /\ result' = result
      <3>1. /\ got = Len(transcript) + 1 /\ got \in 1..MaxDeltas
        BY <1>0, <2>1, <2>5 DEF Done
      <3>2. /\ transcript' \in Seq(1..MaxDeltas) /\ Len(transcript') = Len(transcript) + 1
            /\ InOrder(transcript')
        BY <1>0, <2>5, <3>1, NextInOrder
      <3>3. SkillTypeOK'
        BY <1>4, <2>5, <3>2 DEF PersistChunk
      <3>4. SkillTaken' = SkillTaken /\ SkillDone' = FALSE /\ SkillDone = FALSE
        BY <2>1, <2>5, <3>2 DEF SkillTaken, SkillDone
      <3>5. Flow(SkillTaken, SkillDone)'
        BY <2>1, <2>4, <3>4 DEF Flow, streamVars
      <3>6. TextInv'
        <4>1. output' = output /\ reader' = reader
          BY <2>1 DEF streamVars
        <4>2. InOrder(output)' /\ InOrder(transcript)'
          BY <1>0, <3>2, <4>1 DEF InOrder
        <4>3. Len(output') = Len(transcript')
          BY <1>0, <2>1, <2>5, <3>2, <4>1
        <4> QED  BY <1>0, <2>1, <2>5, <3>2, <3>5, <4>1, <4>2, <4>3 DEF TextInv
      <3> QED  BY <2>2, <2>3, <3>3, <3>6
    <2>6. CASE got = Done /\ UNCHANGED transcript /\ step' = "PostToolUse" /\ result' = result
      <3>1. SkillTypeOK'
        BY <1>4, <2>6 DEF PersistChunk
      <3>2. SkillTaken' = SkillTaken /\ SkillDone' = TRUE /\ SkillDone = TRUE
        BY <2>1, <2>6 DEF SkillTaken, SkillDone
      <3>3. Flow(SkillTaken, SkillDone)'
        BY <2>1, <2>4, <3>2 DEF Flow, streamVars
      <3>4. TextInv'
        BY <1>0, <2>1, <2>6, <3>3 DEF TextInv, InOrder, streamVars
      <3> QED  BY <2>2, <2>3, <3>1, <3>4
    <2>7. CASE UNCHANGED transcript /\ step' = "PostToolUse" /\ result' = "error"
      <3>1. SkillTypeOK'
        BY <1>4, <2>7 DEF PersistChunk
      <3>2. TextInv'
        BY <1>0, <2>1, <2>7 DEF TextInv, InOrder, streamVars
      <3> QED  BY <2>2, <2>3, <3>1, <3>2
    <2> QED  BY <1>4, <2>1, <2>5, <2>6, <2>7 DEF PersistChunk
  <1> QED  BY <1>1, <1>2, <1>3, <1>4
\* Every step of "skill run" keeps its invariant.
LEMMA SkillGoesOn ==
  ASSUME StreamInv, SkillInv, SkillNext
  PROVE  step # "none" /\ step' # "none" /\ SkillInv' /\ StreamInv'
PROOF
  <1>1. step # "none"
    BY DEF SkillNext, RunCode, Begins, FiresNothing, Fire, RunHook, Fired, Body, PersistRequest,
           AskModel, SeeCancel, TakeChunk, WriteDelta, PersistChunk, Rejects, Panics,
           Firing, Before, After
  <1>2. step' # "none"
    BY DEF SkillNext, RunCode, Begins, FiresNothing, Fire, RunHook, Fired, Body, PersistRequest,
           AskModel, SeeCancel, TakeChunk, WriteDelta, PersistChunk, Rejects, Panics,
           Firing, Before, After, Passed, Failed, Continue, Return
  <1>3. SkillTypeOK /\ TextInv /\ HookInv
    BY <1>1 DEF SkillInv
  <1>4. CASE FiresNothing \/ (\E list \in HookLists : Fire(list)) \/ RunHook \/ Fired
    <2>1. SkillTypeOK' /\ TextInv' /\ HookInv' /\ UNCHANGED streamVars
      BY <1>3, <1>4, HooksRun
    <2> QED  BY <1>1, <1>2, <2>1 DEF SkillInv, StreamInv, StreamTypeOK, streamVars
  <1>5. CASE Begins \/ Rejects \/ Body \/ PersistRequest \/ SeeCancel \/ Panics
    <2>1. SkillTypeOK' /\ TextInv' /\ HookInv' /\ UNCHANGED streamVars
      BY <1>3, <1>5, RunMoves
    <2> QED  BY <1>1, <1>2, <2>1 DEF SkillInv, StreamInv, StreamTypeOK, streamVars
  <1>6. CASE AskModel \/ TakeChunk \/ WriteDelta \/ PersistChunk
    <2>1. SkillTypeOK' /\ TextInv' /\ HookInv' /\ StreamInv'
      BY <1>3, <1>6, RunReads
    <2> QED  BY <1>1, <1>2, <2>1 DEF SkillInv
  <1> QED  BY <1>4, <1>5, <1>6 DEF SkillNext, RunCode

\* While the goroutine works, or nothing of the run and its stream changes.
LEMMA SkillWaits ==
  ASSUME StreamInv, SkillInv, UNCHANGED skillVars,
         StreamNext \/ UNCHANGED <<reader, served, hand, chunks, output>>
  PROVE  SkillInv'
PROOF
  <1> SUFFICES ASSUME step # "none" PROVE SkillTypeOK' /\ TextInv' /\ HookInv'
    BY DEF SkillInv, skillVars
  <1>1. SkillTypeOK /\ TextInv /\ HookInv
    BY DEF SkillInv
  <1>2. UNCHANGED <<step, envDepth, depth, specs, owed, got, transcript, result>>
    BY DEF skillVars, hookVars
  <1>3. output' = output /\ (reader' = "none" <=> reader = "none")
    BY StreamGoesOn
  <1>4. SkillTypeOK'
    BY <1>1, <1>2 DEF SkillTypeOK
  <1>5. HookInv'
    BY <1>1, <1>2, <1>3 DEF HookInv
  <1>6. reader' # "none" /\ result' = "nil" => Flow(SkillTaken, SkillDone)'
    <2> SUFFICES ASSUME reader # "none", result = "nil" PROVE Flow(SkillTaken, SkillDone)'
      BY <1>2, <1>3
    <2>1. SkillTaken \in Nat /\ SkillDone \in BOOLEAN
      BY <1>1 DEF SkillTaken, SkillDone, SkillTypeOK
    <2>2. PICK n \in Nat, done \in BOOLEAN : n = SkillTaken /\ done = SkillDone
      BY <2>1
    <2>3. Flow(n, done)
      BY <1>1, <2>2 DEF TextInv
    <2>4. Flow(n, done)'
      <3>1. CASE StreamNext
        BY <2>3, <3>1, FlowGoesOn
      <3>2. CASE UNCHANGED <<reader, served, hand, chunks, output>>
        BY <2>3, <3>2 DEF Flow
      <3> QED  BY <3>1, <3>2
    <2>5. SkillTaken' = n /\ SkillDone' = done
      BY <1>2, <2>2 DEF SkillTaken, SkillDone
    <2> QED  BY <2>4, <2>5 DEF Flow
  <1>7. TextInv'
    BY <1>1, <1>2, <1>3, <1>6 DEF TextInv, InOrder
  <1> QED  BY <1>4, <1>5, <1>7
-----------------------------------------------------------------------------
(* agent moa.                                                              *)

\* The account stands while the collected reports do.
LEMMA AccountStands ==
  ASSUME Accounted, Collected' = Collected, \A i \in Collected : said'[i] = said[i],
         UNCHANGED <<models, responses, errors>>
  PROVE  Accounted'
PROOF
  <1> DEFINE good == {j \in Collected : said[j] = "ok"}
             bad == {j \in Collected : said[j] = "error"}
  <1>1. /\ {j \in Collected : said[j] = "ok"}' = good
        /\ {j \in Collected : said[j] = "error"}' = bad
    OBVIOUS
  <1>2. responses = {models[i] : i \in good} /\ errors = {models[i] : i \in bad}
    BY DEF Accounted
  <1> HIDE DEF good, bad
  <1> QED  BY <1>1, <1>2 DEF Accounted

\* The models that answered are finitely many.
LEMMA RespondersFinite ==
  ASSUME MoaTypeOK, IsFiniteSet(Entries)
  PROVE  IsFiniteSet(responses) /\ Cardinality(responses) \in Nat
PROOF
  <1> DEFINE all == {models[i] : i \in Entries}
  <1>1. [i \in Entries |-> models[i]] \in Surjection(Entries, all)
    BY DEF Surjection
  <1>2. IsFiniteSet(all)
    <2> HIDE DEF all
    <2> QED  BY <1>1, FS_Surjection
  <1>3. responses \subseteq all
    BY DEF MoaTypeOK
  <1> HIDE DEF all
  <1> QED  BY <1>2, <1>3, FS_Subset, FS_CardinalityType

\* Reports, the range over them, and its end.
LEMMA MoaReports ==
  ASSUME MoaTypeOK, ReportInv, SynthesisInv, stage # "none",
         \/ Launch \/ Expire \/ CloseResults \/ Collect \/ Judge
         \/ \E i \in Entries :
              Answers(i) \/ Errs(i) \/ GivesUp(i) \/ Report(i) \/ Leave(i)
  PROVE  /\ MoaTypeOK' /\ ReportInv' /\ SynthesisInv'
         /\ UNCHANGED streamVars /\ stage' # "none"
PROOF
  <1>0. Len(models) \in Nat \ {0} /\ Entries = 1..Len(models) /\ 1 \in Entries
    BY MoaAssumption DEF MoaTypeOK, Entries
  <1>1. /\ \A n, m \in DOMAIN results : results[n] = results[m] => n = m
        /\ \A n \in DOMAIN results : asking[results[n]] \in {"leave", "gone"}
        /\ stage = "begin" => \A i \in Entries : asking[i] = "idle"
        /\ closed => \A i \in Entries : asking[i] = "gone"
        /\ stage \in Judged => closed /\ results = <<>>
        /\ Accounted
    BY DEF ReportInv
  <1>2. CASE Launch
    <2>1. results = <<>> /\ ~closed /\ Collected = {}
      <3>1. \A n \in DOMAIN results : results[n] \in Entries
        BY DEF MoaTypeOK
      <3>2. DOMAIN results = {}
        BY <1>1, <1>2, <3>1 DEF Launch
      <3> QED  BY <1>0, <1>1, <1>2, <3>2 DEF Launch, MoaTypeOK, Collected
    <2>2. Entries' = Entries /\ Collected' = {} /\ asking' = [i \in Entries |-> "chat"]
      BY <1>2 DEF Launch, Entries, Collected
    <2>3. MoaTypeOK'
      BY <1>2, <2>2 DEF Launch, MoaTypeOK
    <2>4. Accounted'
      BY <1>1, <1>2, <2>1, <2>2, AccountStands DEF Launch
    <2>5. ReportInv'
      BY <1>2, <2>1, <2>2, <2>4 DEF Launch, ReportInv, Judged
    <2>6. SynthesisInv'
      BY <1>2 DEF Launch, SynthesisInv, Flow, streamVars, InOrder
    <2> QED  BY <1>2, <2>3, <2>5, <2>6 DEF Launch
  <1>3. CASE Expire
    <2>1. Entries' = Entries /\ Collected' = Collected /\ Threshold' = Threshold
      BY <1>3 DEF Expire, Entries, Collected, Threshold
    <2>2. MoaTypeOK'
      BY <1>3, <2>1 DEF Expire, MoaTypeOK
    <2>3. Accounted'
      BY <1>1, <1>3, <2>1, AccountStands DEF Expire
    <2>4. ReportInv'
      BY <1>3, <2>1, <2>3 DEF Expire, ReportInv, Judged
    <2>5. SynthesisInv'
      BY <1>3 DEF Expire, SynthesisInv, Flow, streamVars, InOrder
    <2> QED  BY <1>3, <2>2, <2>4, <2>5 DEF Expire
  <1>4. CASE CloseResults
    <2>1. Entries' = Entries /\ Collected' = Collected /\ Threshold' = Threshold
      BY <1>4 DEF CloseResults, Entries, Collected, Threshold
    <2>2. MoaTypeOK'
      BY <1>4, <2>1 DEF CloseResults, MoaTypeOK
    <2>3. Accounted'
      BY <1>1, <1>4, <2>1, AccountStands DEF CloseResults
    <2>4. ReportInv'
      BY <1>4, <2>1, <2>3 DEF CloseResults, ReportInv, Judged, streamVars
    <2>5. SynthesisInv'
      BY <1>4 DEF CloseResults, SynthesisInv, Flow, streamVars, InOrder
    <2> QED  BY <1>4, <2>2, <2>4, <2>5 DEF CloseResults
  <1>5. CASE Collect
    <2>0. /\ results \in Seq(Entries) /\ results # <<>> /\ stage = "collect"
          /\ results' = Tail(results)
          /\ UNCHANGED <<streamVars, models, stage, tctx, asking, said, closed, buf, moaErr>>
      BY <1>5 DEF Collect, MoaTypeOK
    <2>1. PICK i \in Entries : i = Head(results) /\ i = results[1]
      BY <2>0, Rest
    <2>2. /\ results' \in Seq(Entries) /\ Len(results') = Len(results) - 1
          /\ Len(results) \in Nat \ {0}
          /\ \A n \in 1..Len(results') : results'[n] = results[n + 1]
          /\ DOMAIN results = 1..Len(results) /\ DOMAIN results' = 1..Len(results')
      BY <2>0, Rest
    <2>3. Entries' = Entries
      BY <2>0 DEF Entries
    <2>4. Collected' = Collected \cup {i}
      <3>1. asking[i] \in {"leave", "gone"}
        BY <1>1, <2>1, <2>2
      <3>2. \A n \in DOMAIN results' : results'[n] # i
        BY <1>1, <2>1, <2>2
      <3>3. ASSUME NEW j \in Entries, j # i
            PROVE  (\A n \in DOMAIN results : results[n] # j) <=> (\A n \in DOMAIN results' : results'[n] # j)
        <4>1. ASSUME NEW n \in DOMAIN results, results[n] = j
              PROVE  n - 1 \in DOMAIN results' /\ results'[n - 1] = j
          BY <2>1, <2>2, <3>3, <4>1
        <4>2. ASSUME NEW n \in DOMAIN results', results'[n] = j
              PROVE  n + 1 \in DOMAIN results /\ results[n + 1] = j
          BY <2>2, <4>2
        <4> QED  BY <4>1, <4>2
      <3> QED  BY <2>0, <2>3, <3>1, <3>2, <3>3 DEF Collected
    <2>5. /\ said[i] = "ok" => responses' = responses \cup {models[i]} /\ errors' = errors
          /\ said[i] # "ok" => errors' = errors \cup {models[i]} /\ responses' = responses
          /\ said[i] \in {"ok", "error"}
      BY <1>5, <2>1 DEF Collect, MoaTypeOK
    <2>6. Accounted'
      <3>1. said' = said /\ models' = models
        BY <2>0
      <3>2. CASE said[i] = "ok"
        BY <1>1, <2>4, <2>5, <3>1, <3>2 DEF Accounted
      <3>3. CASE said[i] = "error"
        BY <1>1, <2>4, <2>5, <3>1, <3>3 DEF Accounted
      <3> QED  BY <2>5, <3>2, <3>3
    <2>7. MoaTypeOK'
      <3>1. responses' \subseteq {models[j] : j \in Entries} /\ errors' \subseteq {models[j] : j \in Entries}
        BY <2>1, <2>5 DEF MoaTypeOK
      <3>2. Len(results') <= Len(models)
        BY <1>0, <2>2 DEF MoaTypeOK
      <3> QED  BY <2>0, <2>2, <2>3, <3>1, <3>2 DEF MoaTypeOK
    <2>8. ReportInv'
      <3>1. ASSUME NEW n \in DOMAIN results', NEW m \in DOMAIN results', results'[n] = results'[m]
            PROVE  n = m
        <4>1. n + 1 \in DOMAIN results /\ m + 1 \in DOMAIN results
          BY <2>2
        <4>2. results[n + 1] = results[m + 1]
          BY <2>2, <3>1
        <4>3. n + 1 = m + 1
          BY <1>1, <4>1, <4>2
        <4> QED  BY <2>2, <4>3
      <3>2. \A n \in DOMAIN results' : asking'[results'[n]] \in {"leave", "gone"}
        BY <1>1, <2>0, <2>2
      <3> QED  BY <1>1, <2>0, <2>3, <2>6, <3>1, <3>2 DEF ReportInv, Judged
    <2>9. SynthesisInv'
      BY <2>0 DEF SynthesisInv, Flow, streamVars, InOrder
    <2> QED  BY <2>0, <2>7, <2>8, <2>9
  <1>6. CASE Judge
    <2>1. Entries' = Entries /\ Collected' = Collected /\ Threshold' = Threshold
      BY <1>6 DEF Judge, Entries, Collected, Threshold
    <2>2. MoaTypeOK'
      BY <1>6, <2>1 DEF Judge, Fails, MoaTypeOK
    <2>3. Accounted'
      BY <1>1, <1>6, <2>1, AccountStands DEF Judge
    <2>4. reader = "none" /\ reader' = "none"
      BY <1>6 DEF Judge, SynthesisInv, streamVars
    <2>5. Cardinality(responses) < Threshold \/ Cardinality(responses) >= Threshold
      <3>1. IsFiniteSet(Entries)
        BY <1>0, FS_Interval
      <3>2. Cardinality(responses) \in Nat
        BY <3>1, RespondersFinite
      <3>3. Threshold \in Nat
        BY <1>0 DEF Threshold
      <3> QED  BY <3>2, <3>3
    <2>6. ReportInv'
      BY <1>6, <2>1, <2>3, <2>4, <2>5 DEF Judge, Fails, ReportInv, Judged
    <2>7. SynthesisInv'
      BY <1>6, <2>4 DEF Judge, Fails, SynthesisInv, streamVars, InOrder
    <2> QED  BY <1>6, <2>2, <2>6, <2>7 DEF Judge, Fails
  <1>7. ASSUME NEW i \in Entries, NEW what \in {"ok", "error"}, Reports(i, what)
        PROVE  /\ MoaTypeOK' /\ ReportInv' /\ SynthesisInv'
               /\ UNCHANGED streamVars /\ stage' # "none"
    <2>0. /\ asking[i] = "chat" /\ asking' = [asking EXCEPT ![i] = "report"]
          /\ said' = [said EXCEPT ![i] = what]
          /\ UNCHANGED <<streamVars, models, stage, tctx, results, closed, responses, errors, buf, moaErr>>
      BY <1>7 DEF Reports
    <2>1. Entries' = Entries /\ Threshold' = Threshold
      BY <2>0 DEF Entries, Threshold
    <2>2. Collected' = Collected /\ i \notin Collected
      BY <2>0, <2>1 DEF Collected, MoaTypeOK
    <2>3. MoaTypeOK'
      BY <2>0, <2>1 DEF MoaTypeOK
    <2>4. Accounted'
      <3>1. \A j \in Collected : said'[j] = said[j]
        BY <2>0, <2>2 DEF MoaTypeOK, Collected
      <3> QED  BY <1>1, <2>0, <2>2, <3>1, AccountStands
    <2>5. ReportInv'
      <3>1. \A n \in DOMAIN results : asking'[results[n]] \in {"leave", "gone"}
        BY <1>1, <2>0 DEF MoaTypeOK
      <3>2. stage # "begin" /\ ~closed
        BY <1>1, <2>0
      <3>3. reader' = reader
        BY <2>0 DEF streamVars
      <3> QED  BY <2>0, <2>1, <2>4, <3>1, <3>2, <3>3 DEF ReportInv, Judged
    <2>6. SynthesisInv'
      BY <2>0 DEF SynthesisInv, Flow, streamVars, InOrder
    <2> QED  BY <2>0, <2>3, <2>5, <2>6
  <1>8. ASSUME NEW i \in Entries, Report(i)
        PROVE  /\ MoaTypeOK' /\ ReportInv' /\ SynthesisInv'
               /\ UNCHANGED streamVars /\ stage' # "none"
    <2>0. /\ asking[i] = "report" /\ asking' = [asking EXCEPT ![i] = "leave"]
          /\ results' = Append(results, i) /\ Len(results) < Len(models) /\ ~closed
          /\ UNCHANGED <<streamVars, models, stage, tctx, said, closed, responses, errors, buf, moaErr>>
      BY <1>8 DEF Report
    <2>1. Entries' = Entries /\ Threshold' = Threshold
      BY <2>0 DEF Entries, Threshold
    <2>2. /\ Len(results) \in Nat /\ results' \in Seq(Entries) /\ Len(results') = Len(results) + 1
          /\ DOMAIN results = 1..Len(results) /\ DOMAIN results' = 1..(Len(results) + 1)
          /\ results'[Len(results) + 1] = i
          /\ \A n \in 1..Len(results) : results'[n] = results[n]
      <3>1. results \in Seq(Entries)
        BY DEF MoaTypeOK
      <3> QED  BY <2>0, <3>1, Appended
    <2>3. \A n \in DOMAIN results : results[n] # i
      BY <1>1, <2>0
    <2>4. Collected' = Collected
      <3>1. ASSUME NEW j \in Entries, j # i
            PROVE  (\A n \in DOMAIN results : results[n] # j) <=> (\A n \in DOMAIN results' : results'[n] # j)
        <4>1. ASSUME NEW n \in DOMAIN results'
              PROVE  results'[n] = i \/ (n \in DOMAIN results /\ results'[n] = results[n])
          BY <2>2
        <4> QED  BY <2>2, <3>1, <4>1
      <3>2. i \notin Collected
        BY <2>0 DEF Collected
      <3>3. ~(\A n \in DOMAIN results' : results'[n] # i)
        BY <2>2
      <3>4. \A j \in Entries : j # i => asking'[j] = asking[j]
        BY <2>0 DEF MoaTypeOK
      <3> QED  BY <2>1, <3>1, <3>2, <3>3, <3>4 DEF Collected
    <2>5. MoaTypeOK'
      <3>1. Len(results') <= Len(models)
        BY <1>0, <2>0, <2>2
      <3> QED  BY <2>0, <2>1, <2>2, <3>1 DEF MoaTypeOK
    <2>6. Accounted'
      BY <1>1, <2>0, <2>4, AccountStands
    <2>7. ReportInv'
      <3>1. ASSUME NEW n \in DOMAIN results', NEW m \in DOMAIN results', results'[n] = results'[m]
            PROVE  n = m
        <4>1. n \in 1..Len(results) \/ n = Len(results) + 1
          BY <2>2
        <4>2. m \in 1..Len(results) \/ m = Len(results) + 1
          BY <2>2
        <4> QED  BY <1>1, <2>2, <2>3, <3>1, <4>1, <4>2
      <3>2. ASSUME NEW n \in DOMAIN results'
            PROVE  asking'[results'[n]] \in {"leave", "gone"}
        <4>1. n \in 1..Len(results) \/ n = Len(results) + 1
          BY <2>2
        <4> QED  BY <1>1, <2>0, <2>2, <2>3, <4>1 DEF MoaTypeOK
      <3>3. stage # "begin" /\ stage \notin Judged
        BY <1>1, <2>0
      <3>4. ~closed' /\ stage' = stage
        BY <2>0
      <3> QED  BY <2>6, <3>1, <3>2, <3>3, <3>4 DEF ReportInv, Judged
    <2>8. SynthesisInv'
      BY <2>0 DEF SynthesisInv, Flow, streamVars, InOrder
    <2> QED  BY <2>0, <2>5, <2>7, <2>8
  <1>9. ASSUME NEW i \in Entries, Leave(i)
        PROVE  /\ MoaTypeOK' /\ ReportInv' /\ SynthesisInv'
               /\ UNCHANGED streamVars /\ stage' # "none"
    <2>0. /\ asking[i] = "leave" /\ asking' = [asking EXCEPT ![i] = "gone"]
          /\ UNCHANGED <<streamVars, models, stage, tctx, said, results, closed, responses, errors, buf, moaErr>>
      BY <1>9 DEF Leave
    <2>1. Entries' = Entries /\ Threshold' = Threshold
      BY <2>0 DEF Entries, Threshold
    <2>2. \A j \in Entries : asking'[j] \in {"leave", "gone"} <=> asking[j] \in {"leave", "gone"}
      BY <2>0 DEF MoaTypeOK
    <2>3. Collected' = Collected
      BY <2>0, <2>1, <2>2 DEF Collected
    <2>4. MoaTypeOK'
      BY <2>0, <2>1 DEF MoaTypeOK
    <2>5. Accounted'
      BY <1>1, <2>0, <2>3, AccountStands
    <2>6. ReportInv'
      <3>1. \A n \in DOMAIN results : asking'[results[n]] \in {"leave", "gone"}
        BY <1>1, <2>2 DEF MoaTypeOK
      <3>2. stage # "begin" /\ ~closed
        BY <1>1, <2>0
      <3>3. reader' = reader
        BY <2>0 DEF streamVars
      <3> QED  BY <2>0, <2>1, <2>5, <3>1, <3>2, <3>3 DEF ReportInv, Judged
    <2>7. SynthesisInv'
      BY <2>0 DEF SynthesisInv, Flow, streamVars, InOrder
    <2> QED  BY <2>0, <2>4, <2>6, <2>7
  <1> QED  BY <1>2, <1>3, <1>4, <1>5, <1>6, <1>7, <1>8, <1>9 DEF Answers, Errs, GivesUp
\* The request for the synthesis and the range over its stream.
LEMMA MoaReads ==
  ASSUME StreamInv, MoaTypeOK, ReportInv, SynthesisInv,
         AskAgent \/ TakeDelta \/ TakeDone \/ Check
  PROVE  /\ MoaTypeOK' /\ ReportInv' /\ SynthesisInv' /\ StreamInv'
         /\ stage # "none" /\ stage' # "none"
PROOF
  <1>0. /\ buf \in Seq(1..MaxDeltas) /\ Len(buf) \in Nat /\ InOrder(buf)
        /\ output \in Seq(1..MaxDeltas)
    BY DEF MoaTypeOK, SynthesisInv, StreamInv, StreamTypeOK
  \* What none of these steps touches.
  <1>1. /\ UNCHANGED <<models, tctx, asking, said, results, closed, responses, errors>>
        /\ stage \in {"ask", "range", "check", "final"} /\ moaErr = "nil"
    BY DEF AskAgent, TakeDelta, TakeDone, Check, SynthesisInv, MoaTypeOK
  <1>2. Entries' = Entries /\ Collected' = Collected /\ Threshold' = Threshold
    BY <1>1 DEF Entries, Collected, Threshold
  <1>3. Accounted'
    BY <1>1, <1>2, AccountStands DEF ReportInv
  <1>4. ASSUME stage' \in {"range", "check", "final", "over"}
        PROVE  ReportInv'
    BY <1>1, <1>2, <1>3, <1>4 DEF ReportInv, Judged
  <1>5. ASSUME stage' \in {"range", "check", "final", "over"}, moaErr' \in {"nil", "error"},
               buf' \in Seq(1..MaxDeltas)
        PROVE  MoaTypeOK'
    BY <1>1, <1>2, <1>5 DEF MoaTypeOK
  <1>6. CASE AskAgent
    <2>1. /\ reader = "none" /\ buf = <<>> /\ buf' = buf /\ Len(buf) = 0 /\ stage = "ask"
          /\ UNCHANGED <<ctx, served, hand, chunks, output>>
      BY <1>6 DEF AskAgent, SynthesisInv
    <2>2. served = 0 /\ chunks = <<>> /\ output = <<>> /\ Len(chunks) = 0
      BY <2>1 DEF StreamInv
    <2>3. CASE Asks /\ stage' = "range" /\ moaErr' = moaErr
      <3>1. Flow(0, FALSE)'
        BY <2>1, <2>2, <2>3 DEF Flow, Asks
      <3>2. Len(buf)' = 0 /\ (stage \in {"final", "over"})' = FALSE
        BY <2>1, <2>3
      <3>3. SynthesisInv'
        BY <1>0, <1>1, <2>1, <2>3, <3>1, <3>2 DEF SynthesisInv, InOrder, Asks, Flow
      <3>4. StreamInv'
        BY <2>1, <2>2, <2>3 DEF StreamInv, StreamTypeOK, Asks
      <3> QED  BY <1>0, <1>1, <1>4, <1>5, <2>1, <2>3, <3>3, <3>4
    <2>4. CASE Refused /\ stage' = "over" /\ moaErr' = "error"
      <3>1. SynthesisInv'
        BY <1>0, <1>1, <2>1, <2>4 DEF SynthesisInv, InOrder, Refused
      <3>2. StreamInv'
        BY <2>1, <2>2, <2>4 DEF StreamInv, StreamTypeOK, Refused
      <3> QED  BY <1>0, <1>1, <1>4, <1>5, <2>1, <2>4, <3>1, <3>2
    <2> QED  BY <1>6, <2>3, <2>4 DEF AskAgent, Fails
  <1>7. ASSUME TakeDelta \/ TakeDone
        PROVE  /\ MoaTypeOK' /\ ReportInv' /\ SynthesisInv' /\ StreamInv'
               /\ stage # "none" /\ stage' # "none"
    <2>1. PICK n \in Nat : n = Len(buf)
      BY <1>0
    <2>2. /\ stage = "range" /\ reader # "none" /\ moaErr' = moaErr
          /\ UNCHANGED <<ctx, reader, served, hand>>
      BY <1>7 DEF TakeDelta, TakeDone, SynthesisInv
    <2>3. Flow(n, FALSE)
      <3>1. (stage \in {"final", "over"}) = FALSE
        BY <2>2
      <3> QED  BY <1>1, <2>1, <2>2, <3>1 DEF SynthesisInv
    <2>4. CASE TakeDelta
      <3>1. PICK c \in 1..MaxDeltas :
              Takes(c) /\ buf' = Append(buf, c) /\ output' \in {output, Append(output, c)}
        BY <2>4 DEF TakeDelta
      <3>2. stage' = "check" /\ c # Done
        BY <2>4, ChatStreamAssumption DEF TakeDelta, Done
      <3>3. /\ chunks' \in Seq(0..MaxDeltas) /\ Len(chunks') <= Buffer
            /\ c = n + 1 /\ Flow(n + 1, FALSE)'
        BY <2>2, <2>3, <3>1, <3>2, FlowIsTaken
      <3>4. buf' \in Seq(1..MaxDeltas) /\ Len(buf') = n + 1 /\ InOrder(buf')
        BY <1>0, <2>1, <3>1, <3>3, NextInOrder
      <3>5. output' \in Seq(1..MaxDeltas)
        <4>1. Append(output, c) \in Seq(1..MaxDeltas)
          BY <1>0
        <4> QED  BY <1>0, <3>1, <4>1
      <3>6. StreamInv'
        BY <2>2, <3>3, <3>5 DEF StreamInv, StreamTypeOK
      <3>7. SynthesisInv'
        <4>1. Len(buf') = n + 1 /\ (stage' \in {"final", "over"}) = FALSE
          BY <3>2, <3>4
        <4>2. InOrder(buf)'
          BY <3>4 DEF InOrder
        <4> QED  BY <1>1, <2>2, <3>2, <3>3, <4>1, <4>2 DEF SynthesisInv, Flow
      <3> QED  BY <1>1, <1>4, <1>5, <2>2, <3>2, <3>4, <3>6, <3>7
    <2>5. CASE TakeDone
      <3>1. Takes(Done) /\ stage' = "final" /\ buf' = buf /\ output' = output
        BY <2>5 DEF TakeDone
      <3>2. /\ chunks' \in Seq(0..MaxDeltas) /\ Len(chunks') <= Buffer
            /\ Flow(n, TRUE)'
        BY <2>2, <2>3, <3>1, FlowIsTaken
      <3>3. StreamInv'
        BY <2>2, <3>1, <3>2 DEF StreamInv, StreamTypeOK
      <3>4. SynthesisInv'
        <4>1. Len(buf') = n /\ (stage' \in {"final", "over"}) = TRUE
          BY <2>1, <3>1
        <4>2. InOrder(buf)'
          BY <1>0, <3>1 DEF InOrder
        <4> QED  BY <1>1, <2>2, <3>1, <3>2, <4>1, <4>2 DEF SynthesisInv, Flow
      <3> QED  BY <1>0, <1>1, <1>4, <1>5, <2>2, <3>1, <3>3, <3>4
    <2> QED  BY <1>7, <2>4, <2>5
  <1>8. CASE Check
    <2>1. /\ stage \in {"check", "final"} /\ reader # "none" /\ UNCHANGED <<streamVars, buf>>
          /\ \/ stage' = "over" /\ moaErr' = "error"
             \/ stage = "check" /\ stage' = "range" /\ moaErr' = moaErr
             \/ stage = "final" /\ stage' = "over" /\ moaErr' = moaErr
      BY <1>8 DEF Check, Fails, SynthesisInv
    <2>2. StreamInv'
      BY <2>1 DEF StreamInv, StreamTypeOK, streamVars
    <2>3. Flow(Len(buf), stage \in {"final", "over"})
      BY <1>1, <2>1 DEF SynthesisInv
    <2>4. SynthesisInv'
      BY <1>0, <1>1, <2>1, <2>3 DEF SynthesisInv, Flow, InOrder, streamVars
    <2> QED  BY <1>0, <1>1, <1>4, <1>5, <2>1, <2>2, <2>4
  <1> QED  BY <1>6, <1>7, <1>8

\* Outside of the command only the reports could move, and they are not read.
LEMMA MoaIdles ==
  ASSUME stage = "none", MoaNext
  PROVE  UNCHANGED <<streamVars, stage, buf>>
  BY DEF MoaNext, MoaCode, Launch, CloseResults, Collect, Judge, AskAgent, TakeDelta, TakeDone,
         Check, Answers, Errs, GivesUp, Reports, Report, Leave, Expire

\* Every step of "agent moa" keeps its invariant,
LEMMA MoaGoesOn ==
  ASSUME StreamInv, MoaInv, MoaNext
  PROVE  /\ MoaInv' /\ StreamInv' /\ (stage' = "none" <=> stage = "none")
         /\ stage = "none" => UNCHANGED streamVars
PROOF
  <1>1. CASE stage = "none"
    <2>1. UNCHANGED <<streamVars, stage, buf>>
      BY <1>1, MoaIdles
    <2> QED  BY <1>1, <2>1 DEF MoaInv, StreamInv, StreamTypeOK, streamVars
  <1>2. CASE stage # "none"
    <2>1. MoaTypeOK /\ ReportInv /\ SynthesisInv
      BY <1>2 DEF MoaInv
    <2>2. CASE AskAgent \/ TakeDelta \/ TakeDone \/ Check
      <3>1. /\ MoaTypeOK' /\ ReportInv' /\ SynthesisInv' /\ StreamInv'
            /\ stage' # "none"
        BY <2>1, <2>2, MoaReads
      <3> QED  BY <1>2, <3>1 DEF MoaInv
    <2>3. CASE \/ Launch \/ Expire \/ CloseResults \/ Collect \/ Judge
               \/ \E i \in Entries :
                    Answers(i) \/ Errs(i) \/ GivesUp(i) \/ Report(i) \/ Leave(i)
      <3>1. /\ MoaTypeOK' /\ ReportInv' /\ SynthesisInv'
            /\ UNCHANGED streamVars /\ stage' # "none"
        BY <1>2, <2>1, <2>3, MoaReports
      <3> QED  BY <1>2, <3>1 DEF MoaInv, StreamInv, StreamTypeOK, streamVars
    <2> QED  BY <2>2, <2>3 DEF MoaNext, MoaCode
  <1> QED  BY <1>1, <1>2

\* and so does a step of the goroutine of its stream.
LEMMA MoaWaits ==
  ASSUME StreamInv, MoaInv, UNCHANGED moaVars,
         StreamNext \/ UNCHANGED <<reader, served, hand, chunks, output>>
  PROVE  MoaInv'
PROOF
  <1>1. UNCHANGED <<models, stage, tctx, asking, said, results, closed, responses, errors, buf, moaErr>>
    BY DEF moaVars
  <1>2. reader' = "none" <=> reader = "none"
    BY StreamGoesOn
  <1> SUFFICES ASSUME stage # "none" PROVE MoaTypeOK' /\ ReportInv' /\ SynthesisInv'
    BY <1>1 DEF MoaInv
  <1>3. MoaTypeOK /\ ReportInv /\ SynthesisInv
    BY DEF MoaInv
  <1>4. Entries' = Entries /\ Collected' = Collected /\ Threshold' = Threshold
    BY <1>1 DEF Entries, Collected, Threshold
  <1>5. MoaTypeOK'
    BY <1>1, <1>3, <1>4 DEF MoaTypeOK
  <1>6. Accounted'
    BY <1>1, <1>3, <1>4, AccountStands DEF ReportInv
  <1>7. ReportInv'
    BY <1>1, <1>2, <1>3, <1>4, <1>6 DEF ReportInv, Judged
  <1>8. ASSUME reader # "none", moaErr = "nil"
        PROVE  Flow(Len(buf), stage \in {"final", "over"})'
    <2>1. PICK n \in Nat, done \in BOOLEAN : n = Len(buf) /\ done = (stage \in {"final", "over"})
      <3>1. Len(buf) \in Nat /\ (stage \in {"final", "over"}) \in BOOLEAN
        BY <1>3 DEF MoaTypeOK
      <3> QED  BY <3>1
    <2>2. Flow(n, done)
      BY <1>3, <1>8, <2>1 DEF SynthesisInv
    <2>3. Flow(n, done)'
      <3>1. CASE StreamNext
        BY <1>8, <2>2, <3>1, FlowGoesOn
      <3>2. CASE UNCHANGED <<reader, served, hand, chunks, output>>
        BY <2>2, <3>2 DEF Flow
      <3> QED  BY <3>1, <3>2
    <2> QED  BY <1>1, <2>1, <2>3 DEF Flow
  <1>9. SynthesisInv'
    BY <1>1, <1>2, <1>3, <1>8 DEF SynthesisInv, InOrder
  <1> QED  BY <1>5, <1>7, <1>9
\* Two thirds of the requests, counted by the models that have answered.
LEMMA MoaCounts ==
  ASSUME MoaInv
  PROVE  AllModelsCount
PROOF
  <1> SUFFICES ASSUME stage \in Judged
               PROVE  /\ responses = {models[i] : i \in {j \in Entries : said[j] = "ok"}}
                      /\ errors = {models[i] : i \in {j \in Entries : said[j] = "error"}}
                      /\ reader # "none" =>
                           3 * Cardinality({i \in Entries : said[i] = "ok"}) >= 2 * Len(models)
    BY DEF AllModelsCount, Judged, AskedModel
  <1>1. MoaTypeOK /\ ReportInv /\ SynthesisInv
    BY DEF MoaInv, Judged
  <1>2. Collected = Entries
    BY <1>1 DEF ReportInv, Collected
  <1>3. /\ responses = {models[i] : i \in {j \in Entries : said[j] = "ok"}}
        /\ errors = {models[i] : i \in {j \in Entries : said[j] = "error"}}
    BY <1>1, <1>2 DEF ReportInv, Accounted
  <1>4. ASSUME reader # "none"
        PROVE  3 * Cardinality({i \in Entries : said[i] = "ok"}) >= 2 * Len(models)
    <2> DEFINE good == {i \in Entries : said[i] = "ok"}
    <2>1. Len(models) \in Nat \ {0} /\ Entries = 1..Len(models)
      BY <1>1, MoaAssumption DEF MoaTypeOK, Entries
    <2>2. IsFiniteSet(good)
      <3>1. IsFiniteSet(1..Len(models)) /\ good \subseteq 1..Len(models)
        BY <2>1, FS_Interval
      <3> QED  BY <3>1, FS_Subset
    <2>3. responses = {models[i] : i \in good}
      BY <1>3
    <2> HIDE DEF good
    <2>4. [i \in good |-> models[i]] \in Surjection(good, responses)
      BY <2>3 DEF Surjection
    <2>5. Cardinality(responses) <= Cardinality(good)
      BY <2>2, <2>4, FS_Surjection
    <2>6. Cardinality(good) \in Nat /\ Cardinality(responses) \in Nat
      BY <1>1, <2>1, <2>2, FS_CardinalityType, FS_Interval, RespondersFinite
    <2>7. Cardinality(responses) >= Threshold
      BY <1>1, <1>4 DEF ReportInv, SynthesisInv, Judged
    <2>8. 3 * Threshold >= 2 * Len(models) /\ Threshold \in Nat
      BY <2>1 DEF Threshold
    <2> QED  BY <2>1, <2>5, <2>6, <2>7, <2>8 DEF good
  <1> QED  BY <1>3, <1>4

-----------------------------------------------------------------------------
(* The interactive loop, its batch mode, and chat.                         *)

\* A message that is sent, an answer that is kept, and a message taken back.
LEMMA DialogueGrows ==
  ASSUME NEW k \in Nat, history \in Seq([role : {"user", "assistant"}, of : Nat]),
         exchange \in Nat, usage \in Nat, Dialogue(k)
  PROVE  /\ Len(history) \in Nat /\ Len(history) = 2 * k + (IF Exchanging THEN 1 ELSE 0)
         /\ TypeMessage => Dialogue(k)'
         /\ Exchanging /\ TakeBack /\ ~Exchanging' /\ UNCHANGED usage => Dialogue(k)'
         /\ /\ Exchanging /\ ~Exchanging' /\ usage' = usage + 1
            /\ history' = Append(history, Msg("assistant"))
            => Dialogue(k + 1)'
PROOF
  <1> DEFINE Messages == [role : {"user", "assistant"}, of : Nat]
  <1>1. /\ Len(history) \in Nat /\ Len(history) = 2 * k + (IF Exchanging THEN 1 ELSE 0)
        /\ \A n \in 1..k :
             /\ history[2 * n - 1].role = "user" /\ history[2 * n].role = "assistant"
             /\ history[2 * n - 1].of = history[2 * n].of
        /\ Exchanging => history[Len(history)] = Msg("user")
        /\ k <= usage
    <2>1. Len(history) \in Nat
      OBVIOUS
    <2> QED  BY <2>1 DEF Dialogue
  <1>2. \A n \in 1..k : 2 * n - 1 \in 1..(2 * k) /\ 2 * n \in 1..(2 * k)
    OBVIOUS
  <1>3. ASSUME TypeMessage PROVE Dialogue(k)'
    <2>1. /\ history' = Append(history, [role |-> "user", of |-> exchange + 1])
          /\ exchange' = exchange + 1 /\ usage' = usage /\ ~Exchanging /\ Exchanging'
      BY <1>3 DEF TypeMessage, Exchanging
    <2>2. Len(history) = 2 * k
      BY <1>1, <2>1
    <2>3. /\ Len(history') = 2 * k + 1
          /\ history'[2 * k + 1] = [role |-> "user", of |-> exchange + 1]
          /\ \A n \in 1..(2 * k) : history'[n] = history[n]
      BY <2>1, <2>2, Appended
    <2>4. \A n \in 1..k :
             /\ history'[2 * n - 1].role = "user" /\ history'[2 * n].role = "assistant"
             /\ history'[2 * n - 1].of = history'[2 * n].of
      BY <1>1, <1>2, <2>3
    <2>5. history'[Len(history')] = Msg("user")'
      BY <2>1, <2>3 DEF Msg
    <2> QED  BY <1>1, <2>1, <2>3, <2>4, <2>5 DEF Dialogue
  <1>4. ASSUME Exchanging, TakeBack, ~Exchanging', UNCHANGED usage PROVE Dialogue(k)'
    <2>1. Len(history) = 2 * k + 1 /\ history' = SubSeq(history, 1, 2 * k)
      BY <1>1, <1>4 DEF TakeBack
    <2>2. Len(history') = 2 * k /\ \A n \in 1..(2 * k) : history'[n] = history[n]
      BY <2>1
    <2>3. \A n \in 1..k :
             /\ history'[2 * n - 1].role = "user" /\ history'[2 * n].role = "assistant"
             /\ history'[2 * n - 1].of = history'[2 * n].of
      BY <1>1, <1>2, <2>2
    <2> QED  BY <1>1, <1>4, <2>2, <2>3 DEF Dialogue
  <1>5. ASSUME Exchanging, ~Exchanging', usage' = usage + 1,
               history' = Append(history, Msg("assistant"))
        PROVE  Dialogue(k + 1)'
    <2>1. Len(history) = 2 * k + 1 /\ history[2 * k + 1] = Msg("user")
      BY <1>1, <1>5
    <2>2. /\ Len(history') = 2 * (k + 1)
          /\ history'[2 * k + 2] = Msg("assistant")
          /\ \A n \in 1..(2 * k + 1) : history'[n] = history[n]
      BY <1>5, <2>1, Appended
    <2>3. ASSUME NEW n \in 1..(k + 1)
          PROVE  /\ history'[2 * n - 1].role = "user" /\ history'[2 * n].role = "assistant"
                 /\ history'[2 * n - 1].of = history'[2 * n].of
      <3>1. CASE n = k + 1
        <4>1. 2 * n - 1 = 2 * k + 1 /\ 2 * n = 2 * k + 2 /\ 2 * k + 1 \in 1..(2 * k + 1)
          BY <3>1
        <4>2. history'[2 * n - 1] = Msg("user") /\ history'[2 * n] = Msg("assistant")
          BY <2>1, <2>2, <4>1
        <4> QED  BY <4>2 DEF Msg
      <3>2. CASE n \in 1..k
        <4>1. 2 * n - 1 \in 1..(2 * k + 1) /\ 2 * n \in 1..(2 * k + 1)
          BY <3>2
        <4> QED  BY <1>1, <2>2, <3>2, <4>1
      <3> QED  BY <3>1, <3>2
    <2>4. k + 1 <= usage'
      BY <1>1, <1>5
    <2>5. Len(history') = 2 * (k + 1) + (IF Exchanging' THEN 1 ELSE 0)
      BY <1>5, <2>2
    <2> QED  BY <1>5, <2>3, <2>4, <2>5 DEF Dialogue
  <1> QED  BY <1>1, <1>3, <1>4, <1>5

\* A sequence without its last element.
LEMMA Shortened ==
  ASSUME NEW S, NEW list \in Seq(S)
  PROVE  SubSeq(list, 1, Len(list) - 1) \in Seq(S)
PROOF
  <1>1. Len(list) \in Nat /\ \A i \in 1..Len(list) : list[i] \in S
    OBVIOUS
  <1>2. Len(list) - 1 \in Int /\ 1 \in Int
    BY <1>1
  <1>3. \A i \in 1..(Len(list) - 1) : list[i] \in S
    BY <1>1
  <1> QED  BY <1>2, <1>3, SubSeqProperties

\* The history's messages, whatever becomes of it.
LEMMA MessagesStay ==
  ASSUME history \in Seq([role : {"user", "assistant"}, of : Nat]), exchange \in Nat, usage \in Nat
  PROVE  /\ TakeBack => history' \in Seq([role : {"user", "assistant"}, of : Nat])
         /\ Append(history, Msg("assistant")) \in Seq([role : {"user", "assistant"}, of : Nat])
         /\ Append(history, [role |-> "user", of |-> exchange + 1])
              \in Seq([role : {"user", "assistant"}, of : Nat])
PROOF
  <1>1. [role |-> "user", of |-> exchange + 1] \in [role : {"user", "assistant"}, of : Nat]
    OBVIOUS
  <1>2. Msg("assistant") \in [role : {"user", "assistant"}, of : Nat]
    BY DEF Msg
  <1>3. Append(history, Msg("assistant")) \in Seq([role : {"user", "assistant"}, of : Nat])
    BY <1>2
  <1>4. Append(history, [role |-> "user", of |-> exchange + 1])
          \in Seq([role : {"user", "assistant"}, of : Nat])
    BY <1>1
  <1>5. SubSeq(history, 1, Len(history) - 1) \in Seq([role : {"user", "assistant"}, of : Nat])
    BY Shortened
  <1> QED  BY <1>3, <1>4, <1>5 DEF TakeBack

\* An exchange that fails leaves the dialogue without its message.
LEMMA ExchangeIsTakenBack ==
  ASSUME TalkInv, talk \in {"ask", "check"}, StreamInv,
         NEW rearmed \in {"live", "done"}, ExchangeFails(rearmed),
         UNCHANGED <<reader, served, hand, chunks, output>>,
         UNCHANGED <<kind, usage, modelID, client, exchange, batchVars>>
  PROVE  TalkInv' /\ StreamInv' /\ talk' # "none"
PROOF
  <1>1. /\ exchange \in Nat /\ usage \in Nat
        /\ history \in Seq([role : {"user", "assistant"}, of : Nat])
        /\ kind = "repl" => \E k \in Nat : Dialogue(k)
        /\ InOrder(output) /\ Exchanging
    BY DEF TalkInv, Exchanging
  <1>2. talk' \in {"prompt", "over"} /\ ~Exchanging'
    BY DEF ExchangeFails, TalkEnds, Exchanging
  <1>3. StreamInv'
    BY DEF StreamInv, StreamTypeOK, ExchangeFails
  <1>4. InOrder(output)'
    BY <1>1 DEF InOrder
  <1>5. CASE kind = "repl"
    <2>1. PICK k \in Nat : Dialogue(k)
      BY <1>1, <1>5
    <2>2. TakeBack
      BY <1>5 DEF ExchangeFails
    <2>3. Dialogue(k)'
      BY <1>1, <1>2, <2>1, <2>2, DialogueGrows
    <2>4. history' \in Seq([role : {"user", "assistant"}, of : Nat])
      BY <1>1, <2>2, MessagesStay
    <2> QED  BY <1>1, <1>2, <1>3, <1>4, <2>3, <2>4 DEF TalkInv
  <1>6. CASE kind # "repl"
    <2>1. history' = history /\ kind' # "repl"
      BY <1>6 DEF ExchangeFails
    <2> QED  BY <1>1, <1>2, <1>3, <1>4, <2>1 DEF TalkInv
  <1> QED  BY <1>5, <1>6

\* At the prompt.
LEMMA PromptMoves ==
  ASSUME TalkInv,
         TypeMessage \/ Clear \/ Exit \/ GatherLine \/ Flush \/ \E id \in ModelIds : SwitchModel(id)
  PROVE  TalkInv' /\ talk # "none" /\ talk' # "none" /\ UNCHANGED streamVars
PROOF
  <1>1. /\ talk = "prompt" /\ UNCHANGED streamVars
        /\ talk' \in {"prompt", "ask", "over"}
    BY DEF TypeMessage, Clear, Exit, GatherLine, Flush, SwitchModel, TalkEnds
  <1>2. /\ exchange \in Nat /\ usage \in Nat
        /\ history \in Seq([role : {"user", "assistant"}, of : Nat])
        /\ kind = "repl" => \E k \in Nat : Dialogue(k)
        /\ InOrder(output) /\ ~Exchanging
    BY <1>1 DEF TalkInv, Exchanging
  <1>3. InOrder(output)'
    BY <1>1, <1>2 DEF InOrder, streamVars
  <1>4. ASSUME /\ exchange' \in Nat /\ usage' \in Nat
               /\ history' \in Seq([role : {"user", "assistant"}, of : Nat]),
               kind' = "repl" => \E k \in Nat : Dialogue(k)'
        PROVE  TalkInv'
    BY <1>1, <1>3, <1>4 DEF TalkInv
  <1>5. CASE TypeMessage
    <2>1. PICK k \in Nat : Dialogue(k)
      BY <1>2, <1>5 DEF TypeMessage
    <2>2. Dialogue(k)'
      BY <1>2, <1>5, <2>1, DialogueGrows
    <2>3. exchange' \in Nat /\ usage' \in Nat /\ history' \in Seq([role : {"user", "assistant"}, of : Nat])
      BY <1>2, <1>5, MessagesStay DEF TypeMessage
    <2> QED  BY <1>1, <1>4, <2>2, <2>3
  <1>6. CASE Clear
    <2>1. history' = <<>> /\ exchange' = exchange /\ usage' = usage /\ talk' = "prompt"
      BY <1>1, <1>6 DEF Clear
    <2>2. Dialogue(0)'
      BY <1>2, <2>1 DEF Dialogue, Exchanging
    <2>3. history' \in Seq([role : {"user", "assistant"}, of : Nat])
      BY <2>1
    <2> QED  BY <1>1, <1>2, <1>4, <2>1, <2>2, <2>3
  <1>7. CASE \/ Exit \/ GatherLine \/ \E id \in ModelIds : SwitchModel(id)
    <2>1. UNCHANGED <<history, exchange, usage, kind>> /\ talk' \in {"prompt", "over"}
      BY <1>1, <1>7 DEF Exit, GatherLine, SwitchModel, sessVars, TalkEnds
    <2>2. ASSUME NEW k \in Nat, Dialogue(k) PROVE Dialogue(k)'
      BY <1>2, <2>1, <2>2 DEF Dialogue, Exchanging
    <2> QED  BY <1>1, <1>2, <1>4, <2>1, <2>2
  <1>8. CASE Flush
    <2>1. kind' = kind /\ kind # "repl" /\ UNCHANGED <<history, usage>> /\ exchange' \in {exchange, exchange + 1}
      BY <1>8 DEF Flush, sessVars
    <2>2. exchange' \in Nat
      BY <1>2, <2>1
    <2> QED  BY <1>1, <1>2, <1>4, <2>1, <2>2
  <1> QED  BY <1>1, <1>5, <1>6, <1>7, <1>8

\* During an exchange.
LEMMA ExchangeMoves ==
  ASSUME StreamInv, TalkInv, TalkCode
  PROVE  TalkInv' /\ StreamInv' /\ talk # "none" /\ talk' # "none"
PROOF
  <1>1. talk \in {"ask", "range", "check"}
    BY DEF TalkCode, SendRefused, SendAnswered, PrintChunk, Interrupted, Completed
  <1>2. /\ exchange \in Nat /\ usage \in Nat
        /\ history \in Seq([role : {"user", "assistant"}, of : Nat])
        /\ kind = "repl" => \E k \in Nat : Dialogue(k)
        /\ InOrder(output) /\ Exchanging
        /\ output \in Seq(1..MaxDeltas) /\ Len(output) \in Nat
        /\ talk \in {"range", "check"} => reader # "none" /\ Flow(Len(output), talk = "check")
    BY <1>1 DEF TalkInv, Exchanging, StreamInv, StreamTypeOK
  <1>3. ASSUME NEW k \in Nat, Dialogue(k), UNCHANGED <<history, exchange, usage>>, Exchanging'
        PROVE  Dialogue(k)'
    BY <1>2, <1>3 DEF Dialogue, Msg
  <1>4. CASE SendRefused
    <2>1. PICK err \in {"error", "canceled"} : ExchangeFails(IF err = "canceled" THEN "live" ELSE ctx)
      BY <1>4 DEF SendRefused
    <2>2. PICK rearmed \in {"live", "done"} : rearmed = IF err = "canceled" THEN "live" ELSE ctx
      BY DEF StreamInv, StreamTypeOK
    <2>3. ExchangeFails(rearmed)
      BY <2>1, <2>2
    <2>4. /\ talk \in {"ask", "check"} /\ UNCHANGED <<reader, served, hand, chunks, output>>
          /\ UNCHANGED <<kind, usage, modelID, client, exchange, batchVars>>
      BY <1>4 DEF SendRefused
    <2> QED  BY <1>1, <2>3, <2>4, ExchangeIsTakenBack
  <1>5. CASE SendAnswered
    <2>1. /\ talk = "ask" /\ talk' = "range" /\ ctx' = ctx /\ reader' = "scan"
          /\ served' = 0 /\ hand' = Done /\ chunks' = <<>> /\ output' = <<>>
          /\ UNCHANGED <<history, exchange, usage, kind>>
      BY <1>5 DEF SendAnswered, sessVars
    <2>2. /\ chunks' \in Seq(0..MaxDeltas) /\ output' \in Seq(1..MaxDeltas)
          /\ Len(chunks') = 0 /\ Len(output') = 0
      BY <2>1
    <2>3. StreamInv'
      BY <2>1, <2>2, ChatStreamAssumption DEF StreamInv, StreamTypeOK, Done
    <2>4. Flow(0, FALSE)'
      BY <2>1, <2>2 DEF Flow
    <2>5. Flow(Len(output), talk = "check")'
      <3>1. (talk' = "check") = FALSE
        BY <2>1
      <3> QED  BY <2>2, <2>4, <3>1 DEF Flow
    <2>6. InOrder(output)' /\ Exchanging'
      BY <2>1, <2>2 DEF InOrder, Exchanging
    <2> QED  BY <1>1, <1>2, <1>3, <2>1, <2>3, <2>5, <2>6 DEF TalkInv
  <1>6. CASE PrintChunk
    <2>1. PICK c \in 0..MaxDeltas :
            /\ Takes(c)
            /\ IF c = Done THEN talk' = "check" /\ UNCHANGED output
               ELSE output' = Append(output, c) /\ UNCHANGED talk
      BY <1>6 DEF PrintChunk
    <2>2. talk = "range" /\ UNCHANGED <<ctx, reader, served, hand, history, exchange, usage, kind>>
      BY <1>6 DEF PrintChunk, sessVars
    <2>3. PICK n \in Nat : n = Len(output)
      BY <1>2
    <2>4. reader # "none" /\ Flow(n, FALSE)
      <3>1. (talk = "check") = FALSE
        BY <2>2
      <3> QED  BY <1>2, <2>2, <2>3, <3>1
    <2>5. /\ chunks' \in Seq(0..MaxDeltas) /\ Len(chunks') <= Buffer
          /\ c # Done => c = n + 1 /\ c \in 1..MaxDeltas /\ Flow(n + 1, FALSE)'
          /\ c = Done => Flow(n, TRUE)'
      BY <2>1, <2>2, <2>4, FlowIsTaken
    <2>6. CASE c = Done
      <3>1. talk' = "check" /\ output' = output
        BY <2>1, <2>6
      <3>2. Flow(Len(output), talk = "check")' /\ InOrder(output)'
        <4>1. (talk' = "check") = TRUE /\ Len(output') = n
          BY <2>3, <3>1
        <4> QED  BY <1>2, <2>5, <2>6, <3>1, <4>1 DEF Flow, InOrder
      <3>3. StreamInv'
        <4>1. chunks' \in Seq(0..MaxDeltas) /\ Len(chunks') <= Buffer /\ reader' # "none"
          BY <2>2, <2>4, <2>5
        <4> QED  BY <2>2, <3>1, <4>1 DEF StreamInv, StreamTypeOK
      <3>5. Exchanging'
        BY <3>1 DEF Exchanging
      <3> QED  BY <1>1, <1>2, <1>3, <2>2, <2>4, <3>1, <3>2, <3>3, <3>5 DEF TalkInv
    <2>7. CASE c # Done
      <3>1. talk' = talk /\ output' = Append(output, c)
        BY <2>1, <2>7
      <3>2. output' \in Seq(1..MaxDeltas) /\ Len(output') = n + 1 /\ InOrder(output')
        BY <1>2, <2>3, <2>5, <2>7, <3>1, NextInOrder
      <3>3. Flow(Len(output), talk = "check")' /\ InOrder(output)'
        <4>1. (talk' = "check") = FALSE
          BY <2>2, <3>1
        <4> QED  BY <2>5, <2>7, <3>2, <4>1 DEF Flow, InOrder
      <3>4. StreamInv' /\ Exchanging'
        BY <1>2, <2>2, <2>4, <2>5, <3>1, <3>2 DEF StreamInv, StreamTypeOK, Exchanging
      <3> QED  BY <1>1, <1>2, <1>3, <2>2, <2>4, <3>1, <3>3, <3>4 DEF TalkInv
    <2> QED  BY <2>6, <2>7
  <1>7. CASE Interrupted
    <2>1. /\ talk \in {"ask", "check"} /\ ExchangeFails("live")
          /\ UNCHANGED <<reader, served, hand, chunks, output>>
          /\ UNCHANGED <<kind, usage, modelID, client, exchange, batchVars>>
      BY <1>7 DEF Interrupted
    <2> QED  BY <1>1, <2>1, ExchangeIsTakenBack
  <1>8. CASE Completed
    <2>1. /\ UNCHANGED <<streamVars, kind, exchange>> /\ talk' \in {"prompt", "over"} /\ ~Exchanging'
          /\ kind = "repl" => history' = Append(history, Msg("assistant")) /\ usage' = usage + 1
          /\ kind # "repl" => UNCHANGED <<history, usage>>
      BY <1>8 DEF Completed, TalkEnds, Exchanging
    <2>2. StreamInv' /\ InOrder(output)'
      BY <1>2, <2>1 DEF StreamInv, StreamTypeOK, InOrder, streamVars
    <2>3. CASE kind = "repl"
      <3>1. PICK k \in Nat : Dialogue(k)
        BY <1>2, <2>3
      <3>2. Dialogue(k + 1)'
        BY <1>2, <2>1, <2>3, <3>1, DialogueGrows
      <3>3. history' \in Seq([role : {"user", "assistant"}, of : Nat])
        BY <1>2, <2>1, <2>3, MessagesStay
      <3>5. usage' \in Nat
        BY <1>2, <2>1, <2>3
      <3>4. k + 1 \in Nat
        OBVIOUS
      <3> QED  BY <1>1, <1>2, <2>1, <2>2, <3>2, <3>3, <3>4, <3>5 DEF TalkInv
    <2>4. CASE kind # "repl"
      BY <1>1, <1>2, <2>1, <2>2, <2>4 DEF TalkInv
    <2> QED  BY <2>3, <2>4
  <1> QED  BY <1>4, <1>5, <1>6, <1>7, <1>8 DEF TalkCode

\* Every step of the interactive loop or of "chat" keeps their invariant,
LEMMA TalkGoesOn ==
  ASSUME StreamInv, TalkInv, TalkNext
  PROVE  TalkInv' /\ StreamInv' /\ talk # "none" /\ talk' # "none"
PROOF
  <1>1. CASE TalkCode
    BY <1>1, ExchangeMoves
  <1>2. CASE TypeMessage \/ Clear \/ Exit \/ GatherLine \/ Flush \/ \E id \in ModelIds : SwitchModel(id)
    <2>1. TalkInv' /\ talk # "none" /\ talk' # "none" /\ UNCHANGED streamVars
      BY <1>2, PromptMoves
    <2> QED  BY <2>1 DEF StreamInv, StreamTypeOK, streamVars
  <1> QED  BY <1>1, <1>2 DEF TalkNext

\* and so does a step of the goroutine of their stream.
LEMMA TalkWaits ==
  ASSUME StreamInv, TalkInv, UNCHANGED talkVars,
         StreamNext \/ UNCHANGED <<reader, served, hand, chunks, output>>
  PROVE  TalkInv'
PROOF
  <1>1. UNCHANGED <<talk, kind, history, usage, exchange>>
    BY DEF talkVars, sessVars
  <1>2. output' = output /\ (reader' = "none" <=> reader = "none")
    BY StreamGoesOn
  <1> SUFFICES ASSUME talk # "none" PROVE TalkInv'
    BY <1>1 DEF TalkInv
  <1>3. \A k \in Nat : Dialogue(k) => Dialogue(k)'
    BY <1>1 DEF Dialogue, Exchanging, Msg
  <1>4. ASSUME talk \in {"range", "check"}
        PROVE  Flow(Len(output), talk = "check")'
    <2>1. PICK n \in Nat, done \in BOOLEAN : n = Len(output) /\ done = (talk = "check")
      <3>1. Len(output) \in Nat /\ (talk = "check") \in BOOLEAN
        BY DEF StreamInv, StreamTypeOK
      <3> QED  BY <3>1
    <2>2. reader # "none" /\ Flow(n, done)
      BY <1>4, <2>1 DEF TalkInv
    <2>3. Flow(n, done)'
      <3>1. CASE StreamNext
        BY <2>2, <3>1, FlowGoesOn
      <3>2. CASE UNCHANGED <<reader, served, hand, chunks, output>>
        BY <2>2, <3>2 DEF Flow
      <3> QED  BY <3>1, <3>2
    <2> QED  BY <1>1, <1>2, <2>1, <2>3 DEF Flow
  <1>5. InOrder(output)'
    BY <1>2 DEF TalkInv, InOrder
  <1> QED  BY <1>1, <1>2, <1>3, <1>4, <1>5 DEF TalkInv

\* Pairs of a question and its answer.
LEMMA TalkSays ==
  ASSUME TalkInv
  PROVE  HistoryIsTheDialogue
PROOF
  <1> SUFFICES ASSUME talk # "none", kind = "repl"
               PROVE  LET pairs == Len(history) \div 2
                      IN /\ Len(history) = 2 * pairs + (IF Exchanging THEN 1 ELSE 0)
                         /\ \A n \in 1..pairs :
                              /\ history[2 * n - 1].role = "user" /\ history[2 * n].role = "assistant"
                              /\ history[2 * n - 1].of = history[2 * n].of
                         /\ Exchanging => history[Len(history)] = Msg("user")
                         /\ pairs <= usage
    BY DEF HistoryIsTheDialogue
  <1>1. PICK k \in Nat : Dialogue(k)
    BY DEF TalkInv
  <1>2. Len(history) = 2 * k + (IF Exchanging THEN 1 ELSE 0)
    BY <1>1 DEF Dialogue
  <1>3. Len(history) \div 2 = k
    BY <1>2
  <1> QED  BY <1>1, <1>2, <1>3 DEF Dialogue
-----------------------------------------------------------------------------
(* The registry of sessions.                                               *)

\* An upsert of a list without double ids.
LEMMA UpsertKeeps ==
  ASSUME NEW p \in Starters, NEW list \in Seq(Starters), Unique(list)
  PROVE  /\ Upsert(list, p) \in Seq(Starters) /\ Unique(Upsert(list, p))
         /\ IdOf[p] \in Ids(Upsert(list, p)) /\ Ids(list) \subseteq Ids(Upsert(list, p))
PROOF
  <1> DEFINE new == Upsert(list, p)
  <1>0. Len(list) \in Nat /\ DOMAIN list = 1..Len(list) /\ \A i \in DOMAIN list : list[i] \in Starters
    OBVIOUS
  <1>1. CASE IdOf[p] \in Ids(list)
    <2>1. new = [i \in DOMAIN list |-> IF IdOf[list[i]] = IdOf[p] THEN p ELSE list[i]]
      BY <1>1 DEF Upsert
    <2>2. DOMAIN new = DOMAIN list /\ \A i \in DOMAIN list : IdOf[new[i]] = IdOf[list[i]]
      BY <2>1
    <2>3. new \in Seq(Starters)
      BY <1>0, <2>1
    <2> HIDE DEF new
    <2>4. Ids(new) = Ids(list)
      BY <2>2 DEF Ids
    <2>5. Unique(new)
      <3>1. ASSUME NEW i \in DOMAIN new, NEW j \in DOMAIN new, IdOf[new[i]] = IdOf[new[j]]
            PROVE  i = j
        BY <2>2, <3>1 DEF Unique
      <3> QED  BY <3>1 DEF Unique
    <2>6. IdOf[p] \in Ids(new) /\ Ids(list) \subseteq Ids(new)
      BY <1>1, <2>4
    <2> QED  BY <2>3, <2>5, <2>6 DEF new
  <1>2. CASE IdOf[p] \notin Ids(list)
    <2>1. new = Append(list, p)
      BY <1>2 DEF Upsert
    <2>2. new \in Seq(Starters) /\ Len(new) = Len(list) + 1 /\ DOMAIN new = 1..(Len(list) + 1)
      BY <1>0, <2>1
    <2>3. new[Len(list) + 1] = p /\ \A i \in DOMAIN list : new[i] = list[i]
      BY <1>0, <2>1, Appended
    <2> HIDE DEF new
    <2>4. IdOf[p] \in Ids(new)
      <3>1. Len(list) + 1 \in DOMAIN new
        BY <1>0, <2>2
      <3> QED  BY <2>3, <3>1 DEF Ids
    <2>5. Ids(list) \subseteq Ids(new)
      <3>1. DOMAIN list \subseteq DOMAIN new
        BY <1>0, <2>2
      <3> QED  BY <2>3, <3>1 DEF Ids
    <2>6. Unique(new)
      <3>1. \A i \in DOMAIN list : IdOf[list[i]] # IdOf[p]
        BY <1>2 DEF Ids
      <3>2. \A i \in DOMAIN new : i = Len(list) + 1 \/ i \in DOMAIN list
        BY <1>0, <2>2
      <3>3. ASSUME NEW i \in DOMAIN new, NEW j \in DOMAIN new, IdOf[new[i]] = IdOf[new[j]]
            PROVE  i = j
        BY <2>3, <3>1, <3>2, <3>3 DEF Unique
      <3> QED  BY <3>3 DEF Unique
    <2> QED  BY <2>2, <2>4, <2>5, <2>6 DEF new
  <1> QED  BY <1>1, <1>2

\* A step of a process that starts a session.
LEMMA IndexMoves ==
  ASSUME IndexInv, NEW p \in Starters, Starts(p)
  PROVE  IndexInv'
PROOF
  <1>0. /\ index \in Seq(Starters) /\ Unique(index)
        /\ at \in [Starters -> Stages] /\ upserted \in [Starters -> Seq(Starters)]
        /\ Nobody \notin Starters
        /\ \A q \in Starters :
             /\ at[q] \in Locked => indexLock = q
             /\ at[q] \in {"open", "write", "rename"} => upserted[q] = Upsert(index, q)
             /\ at[q] = "rename" => indexTmp = upserted[q]
             /\ at[q] \in {"release", "beat", "alive"} => IdOf[q] \in Ids(index)
    BY RegistryAssumption DEF IndexInv
  <1>1. ASSUME index' \in Seq(Starters), Unique(index'),
               NEW place \in Stages, Reach(p, place), upserted' \in [Starters -> Seq(Starters)],
               \A q \in Starters :
                 /\ at'[q] \in Locked => indexLock' = q
                 /\ at'[q] \in {"open", "write", "rename"} => upserted'[q] = Upsert(index', q)
                 /\ at'[q] = "rename" => indexTmp' = upserted'[q]
                 /\ at'[q] \in {"release", "beat", "alive"} => IdOf[q] \in Ids(index')
        PROVE  IndexInv'
    <2>1. at' \in [Starters -> Stages]
      BY <1>0, <1>1 DEF Reach
    <2> QED  BY <1>1, <2>1 DEF IndexInv, Unique, Ids, Upsert
  <1>2. CASE StartSession(p)
    <2>1. upserted' \in [Starters -> Seq(Starters)]
      <3>1. Upsert(index, p) \in Seq(Starters)
        BY <1>0, UpsertKeeps
      <3> QED  BY <1>0, <1>2, <3>1 DEF StartSession
    <2>2. \A q \in Starters : at[q] \notin Locked
      BY <1>0, <1>2 DEF StartSession, LockIsFree
    <2>3. /\ at' = [at EXCEPT ![p] = "open"] /\ indexLock' = p /\ index' = index
          /\ upserted' = [upserted EXCEPT ![p] = Upsert(index, p)]
      BY <1>2 DEF StartSession, Reach
    <2>4. \A q \in Starters :
            /\ at'[q] \in Locked => q = p
            /\ at'[q] \in {"open", "write", "rename"} => upserted'[q] = Upsert(index', q)
            /\ at'[q] # "rename"
            /\ at'[q] \in {"release", "beat", "alive"} => IdOf[q] \in Ids(index')
      BY <1>0, <2>2, <2>3 DEF Locked
    <2> QED  BY <1>0, <1>1, <2>1, <2>3, <2>4 DEF Reach, Stages
  <1>3. CASE StateBusy(p)
    <2>1. /\ at' = [at EXCEPT ![p] = "failed"] /\ UNCHANGED <<index, indexTmp, indexLock, upserted>>
      BY <1>3 DEF StateBusy, Reach
    <2> QED  BY <1>0, <1>1, <2>1 DEF Reach, Stages, Locked
  <1>4. CASE OpenTmp(p)
    <2>1. /\ at' = [at EXCEPT ![p] = "write"] /\ UNCHANGED <<index, indexLock, upserted>>
          /\ at[p] = "open"
      BY <1>4 DEF OpenTmp, Reach
    <2>2. \A q \in Starters : q # p => at[q] \notin Locked
      BY <1>0, <2>1 DEF Locked
    <2>3. \A q \in Starters :
            /\ at'[q] \in Locked => indexLock' = q
            /\ at'[q] \in {"open", "write", "rename"} => upserted'[q] = Upsert(index', q)
            /\ at'[q] # "rename"
            /\ at'[q] \in {"release", "beat", "alive"} => IdOf[q] \in Ids(index')
      BY <1>0, <2>1, <2>2 DEF Locked
    <2> QED  BY <1>0, <1>1, <2>1, <2>3 DEF Reach, Stages
  <1>5. CASE WriteTmp(p)
    <2>1. /\ at' = [at EXCEPT ![p] = "rename"] /\ UNCHANGED <<index, indexLock, upserted>>
          /\ at[p] = "write" /\ indexTmp' = upserted[p]
      BY <1>5 DEF WriteTmp, Reach
    <2>2. \A q \in Starters : q # p => at[q] \notin Locked
      BY <1>0, <2>1 DEF Locked
    <2>3. \A q \in Starters :
            /\ at'[q] \in Locked => indexLock' = q
            /\ at'[q] \in {"open", "write", "rename"} => upserted'[q] = Upsert(index', q)
            /\ at'[q] = "rename" => indexTmp' = upserted'[q]
            /\ at'[q] \in {"release", "beat", "alive"} => IdOf[q] \in Ids(index')
      BY <1>0, <2>1, <2>2 DEF Locked
    <2> QED  BY <1>0, <1>1, <2>1, <2>3 DEF Reach, Stages
  <1>6. CASE RenameTmp(p)
    <2>1. /\ at' = [at EXCEPT ![p] = "release"] /\ UNCHANGED <<indexLock, upserted>>
          /\ at[p] = "rename" /\ index' = Upsert(index, p)
      BY <1>0, <1>6 DEF RenameTmp, Reach
    <2>2. \A q \in Starters : q # p => at[q] \notin Locked
      BY <1>0, <2>1 DEF Locked
    <2>3. /\ index' \in Seq(Starters) /\ Unique(index')
          /\ IdOf[p] \in Ids(index') /\ Ids(index) \subseteq Ids(index')
      BY <1>0, <2>1, UpsertKeeps
    <2>4. \A q \in Starters :
            /\ at'[q] \in Locked => indexLock' = q
            /\ at'[q] \notin {"open", "write", "rename"}
            /\ at'[q] \in {"release", "beat", "alive"} => IdOf[q] \in Ids(index')
      BY <1>0, <2>1, <2>2, <2>3 DEF Locked
    <2> QED  BY <1>0, <1>1, <2>1, <2>3, <2>4 DEF Reach, Stages
  <1>7. CASE WriteFails(p)
    <2>1. /\ at' = [at EXCEPT ![p] = "give up"] /\ UNCHANGED <<index, indexLock, upserted>>
          /\ at[p] \in {"write", "rename"}
      BY <1>7 DEF WriteFails, Reach
    <2>2. \A q \in Starters : q # p => at[q] \notin Locked
      BY <1>0, <2>1 DEF Locked
    <2>3. \A q \in Starters :
            /\ at'[q] \in Locked => indexLock' = q
            /\ at'[q] \notin {"open", "write", "rename"}
            /\ at'[q] \in {"release", "beat", "alive"} => IdOf[q] \in Ids(index')
      BY <1>0, <2>1, <2>2 DEF Locked
    <2> QED  BY <1>0, <1>1, <2>1, <2>3 DEF Reach, Stages
  <1>8. CASE Release(p)
    <2>1. PICK place \in {"beat", "failed"} :
            /\ at' = [at EXCEPT ![p] = place] /\ UNCHANGED <<index, upserted>>
            /\ at[p] \in Locked /\ (place = "beat" => at[p] = "release")
      BY <1>8 DEF Release, Reach, Locked
    <2>2. \A q \in Starters : q # p => at[q] \notin Locked
      BY <1>0, <2>1
    <2>3. \A q \in Starters :
            /\ at'[q] \notin Locked
            /\ at'[q] \in {"release", "beat", "alive"} => IdOf[q] \in Ids(index')
      BY <1>0, <2>1, <2>2 DEF Locked
    <2>4. place \in Stages
      BY DEF Stages
    <2> QED  BY <1>0, <1>1, <2>1, <2>3, <2>4 DEF Reach, Locked
  <1>9. CASE FirstBeat(p)
    <2>1. PICK place \in {"alive", "failed"} :
            /\ at' = [at EXCEPT ![p] = place] /\ UNCHANGED <<index, indexTmp, indexLock, upserted>>
            /\ at[p] = "beat"
      BY <1>9 DEF FirstBeat, Reach
    <2>2. place \in Stages
      BY DEF Stages
    <2> QED  BY <1>0, <1>1, <2>1, <2>2 DEF Reach, Locked
  <1>10. CASE Die(p)
    <2>1. /\ at' = [at EXCEPT ![p] = "dead"] /\ UNCHANGED <<index, indexTmp, upserted>>
          /\ \A q \in Starters : q # p /\ indexLock = q => indexLock' = q
      BY <1>10 DEF Die, Reach
    <2>2. \A q \in Starters :
            /\ at'[q] \in Locked => indexLock' = q
            /\ at'[q] \in {"open", "write", "rename"} => upserted'[q] = Upsert(index', q)
            /\ at'[q] = "rename" => indexTmp' = upserted'[q]
            /\ at'[q] \in {"release", "beat", "alive"} => IdOf[q] \in Ids(index')
      BY <1>0, <2>1 DEF Locked
    <2> QED  BY <1>0, <1>1, <2>1, <2>2 DEF Reach, Stages
  <1> QED  BY <1>2, <1>3, <1>4, <1>5, <1>6, <1>7, <1>8, <1>9, <1>10 DEF Starts
\* The last element of a sequence that grows, or loses its first element.
LEMMA LastOf ==
  ASSUME NEW S, NEW list \in Seq(S)
  PROVE  /\ \A e \in S : /\ Append(list, e) \in Seq(S) /\ Append(list, e) # <<>>
                         /\ Append(list, e)[Len(Append(list, e))] = e
         /\ list # <<>> /\ Tail(list) # <<>> =>
              Tail(list)[Len(Tail(list))] = list[Len(list)]
         /\ list # <<>> /\ Tail(list) = <<>> => Len(list) = 1
         /\ list # <<>> /\ Len(list) # 1 => Tail(list) # <<>>
PROOF
  <1>1. \A e \in S : /\ Append(list, e) \in Seq(S) /\ Append(list, e) # <<>>
                     /\ Append(list, e)[Len(Append(list, e))] = e
    <2> TAKE e \in S
    <2>1. Len(Append(list, e)) = Len(list) + 1 /\ Append(list, e)[Len(list) + 1] = e
      BY Appended
    <2> QED  BY <2>1
  <1>2. ASSUME list # <<>>
        PROVE  /\ Tail(list) # <<>> => Tail(list)[Len(Tail(list))] = list[Len(list)]
               /\ Tail(list) = <<>> => Len(list) = 1
               /\ Len(list) # 1 => Tail(list) # <<>>
    <2>1. /\ Len(list) \in Nat \ {0} /\ Tail(list) \in Seq(S) /\ Len(Tail(list)) = Len(list) - 1
          /\ \A i \in 1..Len(Tail(list)) : Tail(list)[i] = list[i + 1]
      BY <1>2, Rest
    <2>2. ASSUME Tail(list) # <<>> PROVE Tail(list)[Len(Tail(list))] = list[Len(list)]
      <3>1. Len(Tail(list)) # 0
        BY <2>1, <2>2
      <3>2. Len(list) - 1 \in 1..Len(Tail(list)) /\ (Len(list) - 1) + 1 = Len(list)
        BY <2>1, <3>1
      <3> QED  BY <2>1, <3>2
    <2>3. Len(list) # 1 => Tail(list) # <<>>
      BY <2>1
    <2> QED  BY <2>2, <2>3
  <1> QED  BY <1>1, <1>2

\* The watcher's goroutine, and the owner of its channel.
LEMMA WatchMoves ==
  ASSUME WatchInv, index \in Seq(Starters), WatchCode \/ Receive \/ StopWatch
  PROVE  WatchInv'
PROOF
  <1> DEFINE Places == {"off", "first", "wait", "send", "drain", "resend", "closed"}
             Watches == [at : Places, todo : Seq(Starters), last : Seq(Starters)]
             LastEvent == IF events = <<>> THEN heard ELSE events[Len(events)]
             SameLast(w) == /\ w.todo # <<>> /\ w.last # <<>>
                            /\ w.todo[Len(w.todo)] = w.last[Len(w.last)]
  <1>0. /\ watch \in Watches /\ events \in Seq(Starters) /\ Len(events) <= WatchBuf
        /\ Len(events) \in Nat /\ WatchBuf \in Nat \ {0}
        /\ watch.at = "first" => watch.last = <<>>
        /\ watch.at \in {"send", "drain", "resend"} => SameLast(watch)
        /\ watch.at = "resend" => Len(events) < WatchBuf
        /\ watch.at = "wait" /\ watch.last # <<>> => watch.last[Len(watch.last)] = LastEvent
    BY RegistryAssumption DEF WatchInv
  <1>1. ASSUME watch' \in Watches, events' \in Seq(Starters), Len(events') <= WatchBuf,
               watch'.at # "first",
               watch'.at \in {"send", "drain", "resend"} => SameLast(watch'),
               watch'.at = "resend" => Len(events') < WatchBuf,
               watch'.at = "wait" /\ watch'.last # <<>> => watch'.last[Len(watch'.last)] = LastEvent'
        PROVE  WatchInv'
    BY <1>1 DEF WatchInv
  \* What is sent is the head of what is left.
  <1>2. ASSUME watch.at \in {"send", "resend"}, Len(events) < WatchBuf,
               events' = Append(events, Head(watch.todo)), Sent
        PROVE  WatchInv'
    <2>1. /\ watch.todo \in Seq(Starters) /\ watch.todo # <<>> /\ watch.last \in Seq(Starters)
          /\ watch.todo[Len(watch.todo)] = watch.last[Len(watch.last)]
      BY <1>0, <1>2
    <2>2. /\ Head(watch.todo) \in Starters /\ Head(watch.todo) = watch.todo[1]
          /\ Tail(watch.todo) \in Seq(Starters)
      BY <2>1, Rest
    <2>3. /\ events' \in Seq(Starters) /\ events' # <<>>
          /\ events'[Len(events')] = Head(watch.todo)
      BY <1>0, <1>2, <2>2, LastOf
    <2>4. Len(events') <= WatchBuf
      <3>1. Len(events') = Len(events) + 1
        BY <1>0, <1>2, Appended
      <3> QED  BY <1>0, <1>2, <3>1
    <2>5. watch' = [at |-> IF Len(watch.todo) = 1 THEN "wait" ELSE "send",
                    todo |-> Tail(watch.todo), last |-> watch.last]
      BY <1>0, <1>2 DEF Sent
    <2>6. watch' \in Watches
      BY <2>1, <2>2, <2>5
    <2>7. CASE Len(watch.todo) = 1
      <3>1. watch'.at = "wait" /\ watch'.last = watch.last
        BY <2>5, <2>7
      <3>2. watch'.last[Len(watch'.last)] = LastEvent'
        BY <2>1, <2>2, <2>3, <2>7, <3>1
      <3> QED  BY <1>1, <2>3, <2>4, <2>6, <3>1, <3>2
    <2>8. CASE Len(watch.todo) # 1
      <3>1. watch'.at = "send" /\ watch'.last = watch.last /\ watch'.todo = Tail(watch.todo)
        BY <2>5, <2>8
      <3>2. /\ Tail(watch.todo) # <<>>
            /\ Tail(watch.todo)[Len(Tail(watch.todo))] = watch.todo[Len(watch.todo)]
        BY <2>1, <2>8, LastOf
      <3>3. SameLast(watch')
        BY <1>0, <1>2, <2>1, <3>1, <3>2
      <3> QED  BY <1>1, <2>3, <2>4, <2>6, <3>1, <3>3
    <2> QED  BY <2>7, <2>8
  <1>3. CASE Refresh
    <2>1. events' = events /\ heard' = heard /\ watch.at \in {"first", "wait"}
      BY <1>3 DEF Refresh
    <2>2. CASE watch' = Emit(index)
      <3>1. CASE index = <<>>
        <4>1. watch' = [at |-> "wait", todo |-> <<>>, last |-> <<>>]
          BY <2>2, <3>1 DEF Emit
        <4>2. watch' \in Watches /\ watch'.at = "wait" /\ watch'.last = <<>>
          BY <4>1
        <4> QED  BY <1>0, <1>1, <2>1, <4>2
      <3>2. CASE index # <<>>
        <4>1. watch' = [at |-> "send", todo |-> index, last |-> index]
          BY <2>2, <3>2 DEF Emit
        <4>2. watch' \in Watches /\ watch'.at = "send" /\ SameLast(watch')
          BY <3>2, <4>1
        <4> QED  BY <1>0, <1>1, <2>1, <4>2
      <3> QED  BY <3>1, <3>2
    <2>3. CASE watch.at = "first" /\ watch' = [watch EXCEPT !.at = "wait"]
      <3>1. watch' \in Watches /\ watch'.at = "wait" /\ watch'.last = <<>>
        BY <1>0, <2>3
      <3> QED  BY <1>0, <1>1, <2>1, <3>1
    <2> QED  BY <1>3, <2>2, <2>3 DEF Refresh
  <1>4. CASE TrySend
    <2>1. CASE Len(events) < WatchBuf
      BY <1>2, <1>4, <2>1 DEF TrySend
    <2>2. CASE ~(Len(events) < WatchBuf)
      <3>1. watch' = [watch EXCEPT !.at = "drain"] /\ events' = events /\ watch.at = "send"
        BY <1>4, <2>2 DEF TrySend
      <3>2. watch' \in Watches /\ watch'.at = "drain" /\ SameLast(watch')
        BY <1>0, <3>1
      <3> QED  BY <1>0, <1>1, <3>1, <3>2
    <2> QED  BY <2>1, <2>2
  <1>5. CASE DropOldest
    <2>1. watch' = [watch EXCEPT !.at = "resend"] /\ watch.at = "drain"
      BY <1>5 DEF DropOldest
    <2>2. watch' \in Watches /\ watch'.at = "resend" /\ SameLast(watch')
      BY <1>0, <2>1
    <2>3. events' \in Seq(Starters) /\ Len(events') < WatchBuf
      <3>1. CASE events = <<>>
        <4>1. events' = <<>> /\ Len(events') = 0
          BY <1>5, <3>1 DEF DropOldest
        <4> QED  BY <1>0, <4>1
      <3>2. CASE events # <<>>
        <4>1. events' = Tail(events)
          BY <1>5, <3>2 DEF DropOldest
        <4>2. events' \in Seq(Starters) /\ Len(events') = Len(events) - 1
          BY <1>0, <3>2, <4>1, Rest
        <4> QED  BY <1>0, <4>2
      <3> QED  BY <3>1, <3>2
    <2>4. Len(events') <= WatchBuf
      <3>1. Len(events') \in Nat
        BY <2>3
      <3> QED  BY <1>0, <2>3, <3>1
    <2> QED  BY <1>1, <2>2, <2>3, <2>4
  <1>6. CASE Resend
    BY <1>0, <1>2, <1>6 DEF Resend
  <1>7. CASE Receive
    <2>1. events # <<>> /\ heard' = Head(events) /\ events' = Tail(events) /\ watch' = watch
      BY <1>7 DEF Receive
    <2>2. events' \in Seq(Starters) /\ Len(events') = Len(events) - 1 /\ Head(events) = events[1]
      BY <1>0, <2>1, Rest
    <2>3. LastEvent' = LastEvent
      <3>1. CASE events' = <<>>
        <4>1. Len(events) = 1
          BY <1>0, <2>1, <3>1, LastOf
        <4> QED  BY <2>1, <2>2, <3>1, <4>1
      <3>2. CASE events' # <<>>
        <4>1. events'[Len(events')] = events[Len(events)]
          BY <1>0, <2>1, <3>2, LastOf
        <4> QED  BY <2>1, <3>2, <4>1
      <3> QED  BY <3>1, <3>2
    <2>4. Len(events') <= WatchBuf /\ (watch'.at = "resend" => Len(events') < WatchBuf)
      BY <1>0, <2>1, <2>2
    <2> QED  BY <1>0, <2>1, <2>2, <2>3, <2>4 DEF WatchInv
  <1>8. CASE StopWatch
    <2>1. watch' = [watch EXCEPT !.at = "closed"] /\ events' = events
      BY <1>8 DEF StopWatch
    <2>2. watch' \in Watches /\ watch'.at = "closed"
      BY <1>0, <2>1
    <2> QED  BY <1>0, <1>1, <2>1, <2>2
  <1> QED  BY <1>3, <1>4, <1>5, <1>6, <1>7, <1>8 DEF WatchCode

\* The invariant of the registry holds before sessions start.
LEMMA HostStarts ==
  ASSUME RegistryInit, index \in Seq(Starters), Unique(index), at \in [Starters -> {"off", "begin"}]
  PROVE  HostInv
PROOF
  <1>1. IndexInv
    <2>1. at \in [Starters -> Stages]
      BY DEF Stages
    <2>2. <<>> \in Seq(Starters)
      OBVIOUS
    <2>3. upserted \in [Starters -> Seq(Starters)]
      BY <2>2 DEF RegistryInit
    <2> QED  BY <2>1, <2>3 DEF IndexInv, Locked
  <1>2. WatchInv
    <2>1. /\ watch.at \in {"off", "first"} /\ watch.last = <<>> /\ watch.todo = <<>>
          /\ watch = [at |-> watch.at, todo |-> watch.todo, last |-> watch.last]
      BY DEF RegistryInit
    <2>2. watch \in [at : {"off", "first", "wait", "send", "drain", "resend", "closed"},
                     todo : Seq(Starters), last : Seq(Starters)]
      <3>1. <<>> \in Seq(Starters)
        OBVIOUS
      <3> QED  BY <2>1, <3>1
    <2>3. events = <<>> /\ events \in Seq(Starters) /\ Len(events) <= WatchBuf
      BY RegistryAssumption DEF RegistryInit
    <2> QED  BY <2>1, <2>2, <2>3 DEF WatchInv
  <1> QED  BY <1>1, <1>2 DEF HostInv

\* What leaves the index and the processes alone keeps what it says of them.
LEMMA IndexRests == ASSUME IndexInv, UNCHANGED indexVars PROVE IndexInv'
PROOF
  <1>1. UNCHANGED <<index, indexTmp, indexLock, at, upserted>>
    BY DEF indexVars
  <1>2. Unique(index)' /\ Ids(index)' = Ids(index)
    BY <1>1 DEF IndexInv, Unique, Ids
  <1>3. \A p \in Starters : Upsert(index, p)' = Upsert(index, p)
    BY <1>1 DEF Upsert, Ids
  <1> QED  BY <1>1, <1>2, <1>3 DEF IndexInv, Unique, Ids

\* Every step of the registry keeps its invariant,
LEMMA HostGoesOn == ASSUME HostInv, RegistryNext PROVE HostInv'
PROOF
  <1>1. CASE \E p \in Starters : Starts(p) /\ UNCHANGED watchVars
    <2>1. IndexInv'
      BY <1>1, IndexMoves DEF HostInv
    <2>2. WatchInv'
      BY <1>1 DEF HostInv, WatchInv, watchVars
    <2> QED  BY <2>1, <2>2 DEF HostInv
  <1>2. CASE (WatchCode \/ Receive \/ StopWatch) /\ UNCHANGED indexVars
    <2>1. WatchInv'
      <3>1. index \in Seq(Starters)
        BY DEF HostInv, IndexInv
      <3> QED  BY <1>2, <3>1, WatchMoves DEF HostInv
    <2>2. IndexInv'
      BY <1>2, IndexRests DEF HostInv
    <2> QED  BY <2>1, <2>2 DEF HostInv
  <1> QED  BY <1>1, <1>2 DEF RegistryNext

\* and so does every step of a command.
LEMMA HostRests == ASSUME HostInv, UNCHANGED registryVars PROVE HostInv'
PROOF
  <1>1. UNCHANGED indexVars /\ UNCHANGED watchVars
    BY DEF registryVars
  <1>2. IndexInv'
    BY <1>1, IndexRests DEF HostInv
  <1>3. WatchInv'
    BY <1>1 DEF HostInv, WatchInv, watchVars
  <1> QED  BY <1>2, <1>3 DEF HostInv

\* The invariant says that the registry keeps what it is given.
LEMMA HostSays == ASSUME HostInv PROVE RegistryKeeps
PROOF
  <1>1. index # Torn
    BY RegistryAssumption DEF HostInv, IndexInv
  <1>2. \A i, j \in DOMAIN index : IdOf[index[i]] = IdOf[index[j]] => i = j
    BY DEF HostInv, IndexInv, Unique
  <1>3. ASSUME NEW p \in Starters, at[p] \in {"release", "beat", "alive"}
        PROVE  StatusOf(IdOf[p]) # "not found"
    <2>1. IdOf[p] \in Ids(index)
      BY <1>3 DEF HostInv, IndexInv
    <2> QED  BY <2>1 DEF StatusOf
  <1> QED  BY <1>1, <1>2, <1>3 DEF RegistryKeeps, HostInv, WatchInv
-----------------------------------------------------------------------------
(* tui.                                                                    *)

\* The dashboard starts with every selection and window in its list.
LEMMA ViewStarts == DashInit => ViewInv
PROOF
  <1> SUFFICES ASSUME DashInit PROVE ViewInv
    OBVIOUS
  <1>0. <<>> \in Seq(Starters) /\ Len(<<>>) = 0
    OBVIOUS
  <1>1. size \in Nat \X Nat /\ rows \in [Pickers -> Nat]
    BY DEF DashInit
  <1>2. cursor \in [Pickers -> [selected : Nat, offset : Nat, detail : BOOLEAN]]
    BY DEF DashInit
  <1>3. listed \in [Sheets -> Seq(Starters)] /\ top \in [Sheets -> Nat]
    BY <1>0 DEF DashInit
  <1>4. loads \in [Loads -> [at : {"idle", "asked", "read"}, list : Seq(Starters)]]
    BY <1>0 DEF DashInit, Asked, Idle
  <1>5. \A v \in Pickers : rows[v] = 0 /\ cursor[v].offset = 0 /\ cursor[v].selected = 0
    BY DEF DashInit
  <1>6. \A v \in Pickers :
          /\ cursor[v].offset <= cursor[v].selected
          /\ Held(v) > 0 => cursor[v].selected < Held(v)
    BY <1>5 DEF Held
  <1>7. \A v \in Sheets : top[v] <= Len(listed[v])
    <2>1. \A v \in Sheets : top[v] = 0 /\ listed[v] = <<>>
      BY DEF DashInit
    <2> QED  BY <1>0, <2>1
  <1> QED  BY <1>1, <1>2, <1>3, <1>4, <1>6, <1>7 DEF ViewInv

\* A cursor whose rows, or whose detail, are set.
LEMMA RowsAreSet ==
  ASSUME NEW c, c \in [selected : Nat, offset : Nat, detail : BOOLEAN],
         NEW s \in Nat, NEW o \in Nat
  PROVE  /\ [c EXCEPT !.selected = s, !.offset = o].selected = s
         /\ [c EXCEPT !.selected = s, !.offset = o].offset = o
         /\ [c EXCEPT !.selected = s, !.offset = o]
              \in [selected : Nat, offset : Nat, detail : BOOLEAN]
  OBVIOUS

\* Showing the detail moves no selection.
LEMMA DetailIsSet ==
  ASSUME NEW c, c \in [selected : Nat, offset : Nat, detail : BOOLEAN], NEW shown \in BOOLEAN
  PROVE  /\ [c EXCEPT !.detail = shown].selected = c.selected
         /\ [c EXCEPT !.detail = shown].offset = c.offset
         /\ [c EXCEPT !.detail = shown] \in [selected : Nat, offset : Nat, detail : BOOLEAN]
  OBVIOUS

\* What a picker's keys do.
LEMMA CursorMoves ==
  ASSUME ViewInv, NEW v \in Pickers,
         NEW c, c \in {Down(v), Up(v), cursor[v], [cursor[v] EXCEPT !.detail = FALSE],
                       [cursor[v] EXCEPT !.detail = @ \/ (v # "hooks" /\ Held(v) > 0)]}
  PROVE  /\ c \in [selected : Nat, offset : Nat, detail : BOOLEAN]
         /\ c.offset <= c.selected
         /\ Held(v) > 0 => c.selected < Held(v)
PROOF
  <1>1. /\ cursor[v] \in [selected : Nat, offset : Nat, detail : BOOLEAN]
        /\ cursor[v].offset <= cursor[v].selected /\ Held(v) \in Nat
        /\ Held(v) > 0 => cursor[v].selected < Held(v)
    <2>1. Held(v) \in Nat
      BY DEF ViewInv, Held
    <2> QED  BY <2>1 DEF ViewInv
  <1>2. PickerRows \in Nat \ {0}
    BY DEF ViewInv, PickerRows, ChildRows
  <1> HIDE DEF PickerRows
  <1>3. PICK s \in Nat, o \in Nat, rest \in Nat :
          s = cursor[v].selected /\ o = cursor[v].offset /\ rest = Held(v)
    BY <1>1
  <1>4. o <= s /\ (rest > 0 => s < rest)
    BY <1>1, <1>3
  <1>5. CASE c = Down(v)
    <2>1. CASE cursor[v].detail \/ s + 1 >= rest
      BY <1>1, <1>3, <1>5, <2>1 DEF Down
    <2>2. CASE ~(cursor[v].detail \/ s + 1 >= rest)
      <3>1. PICK o1 \in Nat : o1 = (IF s + 1 >= o + PickerRows THEN o + 1 ELSE o) /\ o1 <= s + 1
        BY <1>4
      <3>2. c = [cursor[v] EXCEPT !.selected = s + 1, !.offset = o1]
        BY <1>1, <1>3, <1>5, <2>2, <3>1 DEF Down
      <3>3. c \in [selected : Nat, offset : Nat, detail : BOOLEAN] /\ c.selected = s + 1 /\ c.offset = o1
        <4>1. s + 1 \in Nat
          OBVIOUS
        <4> QED  BY <1>1, <3>2, <4>1, RowsAreSet
      <3> QED  BY <1>3, <2>2, <3>1, <3>3
    <2> QED  BY <2>1, <2>2
  <1>6. CASE c = Up(v)
    <2>1. CASE cursor[v].detail \/ s = 0
      BY <1>1, <1>3, <1>6, <2>1 DEF Up
    <2>2. CASE ~(cursor[v].detail \/ s = 0)
      <3>1. PICK o1 \in Nat : o1 = (IF s - 1 < o THEN o - 1 ELSE o) /\ o1 <= s - 1
        BY <1>4, <2>2
      <3>2. c = [cursor[v] EXCEPT !.selected = s - 1, !.offset = o1]
        BY <1>1, <1>3, <1>6, <2>2, <3>1 DEF Up
      <3>3. s - 1 \in Nat
        BY <2>2
      <3>4. c \in [selected : Nat, offset : Nat, detail : BOOLEAN] /\ c.selected = s - 1 /\ c.offset = o1
        BY <1>1, <3>2, <3>3, RowsAreSet
      <3> QED  BY <1>3, <1>4, <3>1, <3>4
    <2> QED  BY <2>1, <2>2
  <1>7. CASE c = [cursor[v] EXCEPT !.detail = FALSE]
    BY <1>1, <1>7, DetailIsSet
  <1>8. CASE c = [cursor[v] EXCEPT !.detail = @ \/ (v # "hooks" /\ Held(v) > 0)]
    <2>1. PICK shown \in BOOLEAN : shown = (cursor[v].detail \/ (v # "hooks" /\ Held(v) > 0))
      OBVIOUS
    <2>2. c = [cursor[v] EXCEPT !.detail = shown]
      BY <1>8, <2>1
    <2> QED  BY <1>1, <2>2, DetailIsSet
  <1> QED  BY <1>1, <1>5, <1>6, <1>7, <1>8

\* A view is what its size, its rows and its cursors are.
LEMMA ViewOf ==
  ASSUME ViewInv,
         size' \in Nat \X Nat,
         rows' = rows,
         cursor' \in [Pickers -> [selected : Nat, offset : Nat, detail : BOOLEAN]],
         \A v \in Pickers :
           /\ cursor'[v].offset <= cursor'[v].selected
           /\ Held(v) > 0 => cursor'[v].selected < Held(v),
         listed' \in [Sheets -> Seq(Starters)],
         top' \in [Sheets -> Nat],
         \A v \in Sheets : top'[v] <= Len(listed'[v]),
         loads' \in [Loads -> [at : {"idle", "asked", "read"}, list : Seq(Starters)]]
  PROVE  ViewInv'
PROOF
  <1>1. \A v \in Pickers : Held(v)' = Held(v)
    BY DEF Held
  <1> QED  BY <1>1 DEF ViewInv

\* A load that is asked for takes a free slot.
LEMMA LoadIsAsked ==
  ASSUME loads \in [Loads -> [at : {"idle", "asked", "read"}, list : Seq(Starters)]], AskForSessions
  PROVE  loads' \in [Loads -> [at : {"idle", "asked", "read"}, list : Seq(Starters)]]
PROOF
  <1>1. Asked \in [at : {"idle", "asked", "read"}, list : Seq(Starters)]
    <2>1. <<>> \in Seq(Starters)
      OBVIOUS
    <2> QED  BY <2>1 DEF Asked
  <1> QED  BY <1>1 DEF AskForSessions

\* No key moves a selection or a window out of its list.
LEMMA KeysMove == ASSUME ViewInv, Keys PROVE ViewInv'
PROOF
  <1> DEFINE Cursors == [selected : Nat, offset : Nat, detail : BOOLEAN]
  <1>0. /\ size \in Nat \X Nat /\ cursor \in [Pickers -> Cursors] /\ rows \in [Pickers -> Nat]
        /\ listed \in [Sheets -> Seq(Starters)] /\ top \in [Sheets -> Nat]
        /\ \A v \in Sheets : top[v] <= Len(listed[v]) /\ Len(listed[v]) \in Nat
        /\ loads \in [Loads -> [at : {"idle", "asked", "read"}, list : Seq(Starters)]]
        /\ \A v \in Pickers :
             /\ cursor[v].offset <= cursor[v].selected
             /\ Held(v) > 0 => cursor[v].selected < Held(v)
    <2>1. \A v \in Sheets : Len(listed[v]) \in Nat
      BY DEF ViewInv
    <2> QED  BY <2>1 DEF ViewInv
  <1>2. CASE KeyQ
    BY <1>2 DEF KeyQ, ViewInv, Held
  <1>3. CASE KeyJ
    <2>1. \A v \in Pickers :
            /\ Down(v) \in Cursors /\ Down(v).offset <= Down(v).selected
            /\ Held(v) > 0 => Down(v).selected < Held(v)
      BY CursorMoves
    <2>2. cursor' = [v \in Pickers |-> Down(v)] /\ UNCHANGED <<size, rows, listed, loads>>
      BY <1>3 DEF KeyJ
    <2>3. SheetRows \in Nat
      BY <1>0 DEF SheetRows, ChildRows
    <2>4. top' \in [Sheets -> Nat] /\ \A v \in Sheets : top'[v] <= Len(listed[v])
      <3> HIDE DEF SheetRows
      <3>1. top' = [v \in Sheets |->
                      IF top[v] + SheetRows < Len(listed[v]) THEN top[v] + 1 ELSE top[v]]
        BY <1>3 DEF KeyJ
      <3>2. \A v \in Sheets : top[v] \in Nat
        BY <1>0
      <3> QED  BY <1>0, <2>3, <3>1, <3>2
    <2>5. /\ cursor' \in [Pickers -> Cursors]
          /\ \A v \in Pickers : /\ cursor'[v].offset <= cursor'[v].selected
                                /\ Held(v) > 0 => cursor'[v].selected < Held(v)
      BY <2>1, <2>2
    <2> QED  BY <1>0, <2>2, <2>4, <2>5, ViewOf
  <1>4. CASE KeyK
    <2>1. \A v \in Pickers :
            /\ Up(v) \in Cursors /\ Up(v).offset <= Up(v).selected
            /\ Held(v) > 0 => Up(v).selected < Held(v)
      BY CursorMoves
    <2>2. cursor' = [v \in Pickers |-> Up(v)] /\ UNCHANGED <<size, rows, listed, loads>>
      BY <1>4 DEF KeyK
    <2>3. top' \in [Sheets -> Nat] /\ \A v \in Sheets : top'[v] <= top[v]
      <3>1. top' = [v \in Sheets |-> Larger(top[v], 1) - 1]
        BY <1>4 DEF KeyK
      <3>2. \A v \in Sheets : Larger(top[v], 1) - 1 \in Nat /\ Larger(top[v], 1) - 1 <= top[v]
        BY <1>0 DEF Larger
      <3> QED  BY <3>1, <3>2
    <2>4. \A v \in Sheets : top'[v] <= Len(listed[v])
      <3>1. \A v \in Sheets : top[v] \in Nat /\ top'[v] \in Nat
        BY <1>0, <2>3
      <3> QED  BY <1>0, <2>3, <3>1
    <2>5. /\ cursor' \in [Pickers -> Cursors]
          /\ \A v \in Pickers : /\ cursor'[v].offset <= cursor'[v].selected
                                /\ Held(v) > 0 => cursor'[v].selected < Held(v)
      BY <2>1, <2>2
    <2> QED  BY <1>0, <2>2, <2>3, <2>4, <2>5, ViewOf
  <1>5. CASE KeyEnter
    <2> DEFINE key(v) == [cursor[v] EXCEPT !.detail = @ \/ (v # "hooks" /\ Held(v) > 0)]
    <2>1. \A v \in Pickers :
            /\ key(v) \in Cursors /\ key(v).offset <= key(v).selected
            /\ Held(v) > 0 => key(v).selected < Held(v)
      BY CursorMoves
    <2>2. cursor' = [v \in Pickers |-> key(v)] /\ UNCHANGED <<size, rows, listed, top, loads>>
      BY <1>5 DEF KeyEnter
    <2> HIDE DEF key
    <2>3. /\ cursor' \in [Pickers -> Cursors]
          /\ \A v \in Pickers : /\ cursor'[v].offset <= cursor'[v].selected
                                /\ Held(v) > 0 => cursor'[v].selected < Held(v)
      BY <2>1, <2>2
    <2> QED  BY <1>0, <2>2, <2>3, ViewOf
  <1>6. CASE KeyEsc
    <2> DEFINE key(v) == [cursor[v] EXCEPT !.detail = FALSE]
    <2>1. \A v \in Pickers :
            /\ key(v) \in Cursors /\ key(v).offset <= key(v).selected
            /\ Held(v) > 0 => key(v).selected < Held(v)
      BY CursorMoves
    <2>2. cursor' = [v \in Pickers |-> key(v)] /\ UNCHANGED <<size, rows, listed, top, loads>>
      BY <1>6 DEF KeyEsc
    <2> HIDE DEF key
    <2>3. /\ cursor' \in [Pickers -> Cursors]
          /\ \A v \in Pickers : /\ cursor'[v].offset <= cursor'[v].selected
                                /\ Held(v) > 0 => cursor'[v].selected < Held(v)
      BY <2>1, <2>2
    <2> QED  BY <1>0, <2>2, <2>3, ViewOf
  <1>7. CASE KeyR
    <2>1. UNCHANGED <<size, rows, cursor, listed, top>> /\ AskForSessions
      BY <1>7 DEF KeyR
    <2>2. loads' \in [Loads -> [at : {"idle", "asked", "read"}, list : Seq(Starters)]]
      BY <1>0, <2>1, LoadIsAsked
    <2> QED  BY <1>0, <2>1, <2>2, ViewOf
  <1>8. CASE \E s \in TermSizes : Resize(s)
    <2>1. size' \in Nat \X Nat /\ UNCHANGED <<rows, cursor, listed, top, loads>>
      BY <1>8, DashboardAssumption DEF Resize
    <2> QED  BY <1>0, <2>1, ViewOf
  <1> QED  BY <1>2, <1>3, <1>4, <1>5, <1>6, <1>7, <1>8 DEF Keys

\* A picker whose rows were loaded has its selection in them.
LEMMA PickerLoads ==
  ASSUME ViewInv, NEW v \in Pickers, NEW n \in Nat, PickerLoaded(v, n)
  PROVE  ViewInv'
PROOF
  <1>1. UNCHANGED <<size, listed, top, loads>> /\ NoDir \in Nat
    BY DashboardAssumption DEF PickerLoaded, NoDir
  <1>2. /\ rows \in [Pickers -> Nat]
        /\ cursor \in [Pickers -> [selected : Nat, offset : Nat, detail : BOOLEAN]]
        /\ \A u \in Pickers :
             /\ cursor[u].offset <= cursor[u].selected
             /\ Held(u) > 0 => cursor[u].selected < Held(u)
    BY DEF ViewInv
  <1>3. rows' \in [Pickers -> Nat] /\ \A u \in Pickers : rows'[u] = IF u = v THEN n ELSE rows[u]
    BY <1>2 DEF PickerLoaded
  <1>4. PICK s \in Nat : s = IF v = "hooks" /\ n \notin {0, NoDir} THEN n - 1 ELSE 0
    OBVIOUS
  <1>5. cursor' = [cursor EXCEPT ![v] = [cursor[v] EXCEPT !.selected = s, !.offset = 0]]
    <2>1. cursor' = [cursor EXCEPT ![v].offset = 0, ![v].selected = s]
      BY <1>4 DEF PickerLoaded
    <2> QED  BY <1>2, <2>1
  <1>6. /\ cursor' \in [Pickers -> [selected : Nat, offset : Nat, detail : BOOLEAN]]
        /\ cursor'[v].selected = s /\ cursor'[v].offset = 0
    <2> DEFINE c == [cursor[v] EXCEPT !.selected = s, !.offset = 0]
    <2>1. cursor[v] \in [selected : Nat, offset : Nat, detail : BOOLEAN] /\ 0 \in Nat
      BY <1>2
    <2>2. c \in [selected : Nat, offset : Nat, detail : BOOLEAN] /\ c.selected = s /\ c.offset = 0
      BY <2>1, RowsAreSet
    <2>3. cursor' = [cursor EXCEPT ![v] = c]
      BY <1>5
    <2> HIDE DEF c
    <2> QED  BY <1>2, <2>2, <2>3
  <1>7. ASSUME NEW u \in Pickers
        PROVE  /\ cursor'[u].offset <= cursor'[u].selected
               /\ Held(u)' > 0 => cursor'[u].selected < Held(u)'
    <2>1. CASE u = v
      <3>1. cursor'[u].offset = 0 /\ cursor'[u].selected = s
        BY <1>6, <2>1
      <3>2. Held(u)' = IF n = NoDir THEN 0 ELSE n
        BY <1>3, <2>1 DEF Held, NoDir
      <3>3. Held(u)' > 0 => s < Held(u)'
        BY <1>4, <3>2
      <3> QED  BY <3>1, <3>3
    <2>2. CASE u # v
      <3>1. cursor'[u] = cursor[u] /\ Held(u)' = Held(u)
        BY <1>2, <1>3, <1>5, <2>2 DEF Held
      <3> QED  BY <1>2, <3>1
    <2> QED  BY <2>1, <2>2
  <1> QED  BY <1>1, <1>3, <1>6, <1>7 DEF ViewInv

\* A list that is shown, from its first row.
LEMMA ListIsShown ==
  ASSUME ViewInv, NEW v \in Sheets, NEW list \in Seq(Starters), Show(v, list),
         UNCHANGED <<size, rows, cursor>>,
         loads' \in [Loads -> [at : {"idle", "asked", "read"}, list : Seq(Starters)]]
  PROVE  ViewInv'
PROOF
  <1>1. /\ listed \in [Sheets -> Seq(Starters)] /\ top \in [Sheets -> Nat]
        /\ \A u \in Sheets : top[u] <= Len(listed[u])
    BY DEF ViewInv
  <1>2. listed' \in [Sheets -> Seq(Starters)] /\ top' \in [Sheets -> Nat]
    BY <1>1 DEF Show
  <1>3. ASSUME NEW u \in Sheets PROVE top'[u] <= Len(listed'[u])
    <2>1. CASE u = v
      <3>1. top'[u] = 0 /\ Len(listed'[u]) \in Nat
        BY <1>1, <1>2, <2>1 DEF Show
      <3> QED  BY <3>1
    <2>2. CASE u # v
      BY <1>1, <2>2 DEF Show
    <2> QED  BY <2>1, <2>2
  <1> QED  BY <1>2, <1>3, ViewOf DEF ViewInv

\* Every step of the dashboard keeps its invariant,
LEMMA ViewGoesOn == ASSUME ViewInv, index \in Seq(Starters), DashNext PROVE ViewInv'
PROOF
  <1>0. loads \in [Loads -> [at : {"idle", "asked", "read"}, list : Seq(Starters)]]
    BY DEF ViewInv
  <1>1. CASE Keys
    BY <1>1, KeysMove
  <1>2. CASE Loaded
    <2>1. PICK v \in Pickers, n \in Nat : PickerLoaded(v, n)
      <3>1. NoDir \in Nat /\ MaxEntries \in Nat /\ MaxHookEvents \in Nat
        BY DashboardAssumption DEF NoDir
      <3>2. Counts(MaxEntries) \subseteq Nat /\ Counts(MaxHookEvents) \subseteq Nat
        BY <3>1 DEF Counts
      <3> QED  BY <1>2, <3>2 DEF Loaded, Pickers
    <2> QED  BY <2>1, PickerLoads
  <1>3. CASE StateReload
    BY <1>0, <1>3, ListIsShown DEF StateReload, Sheets
  <1>4. ASSUME NEW s \in Loads, LoadReads(s) PROVE ViewInv'
    <2>1. loads' \in [Loads -> [at : {"idle", "asked", "read"}, list : Seq(Starters)]]
      BY <1>0, <1>4 DEF LoadReads
    <2> QED  BY <1>4, <2>1 DEF LoadReads, ViewInv, Held
  <1>5. ASSUME NEW s \in Loads, LoadDelivers(s) PROVE ViewInv'
    <2>1. /\ Idle \in [at : {"idle", "asked", "read"}, list : Seq(Starters)]
          /\ loads[s].list \in Seq(Starters)
      <3>1. <<>> \in Seq(Starters)
        OBVIOUS
      <3> QED  BY <1>0, <3>1 DEF Idle
    <2>2. loads' \in [Loads -> [at : {"idle", "asked", "read"}, list : Seq(Starters)]]
      BY <1>0, <1>5, <2>1 DEF LoadDelivers
    <2> QED  BY <1>5, <2>1, <2>2, ListIsShown DEF LoadDelivers, Sheets
  <1>6. CASE WatcherFires
    <2>1. loads' \in [Loads -> [at : {"idle", "asked", "read"}, list : Seq(Starters)]]
      BY <1>0, <1>6, LoadIsAsked DEF WatcherFires, Rewatch
    <2> QED  BY <1>6, <2>1 DEF WatcherFires, ViewInv, Held
  <1> QED  BY <1>1, <1>2, <1>3, <1>4, <1>5, <1>6 DEF DashNext, DashCode

\* and so does every other.
LEMMA ViewRests == ASSUME ViewInv, UNCHANGED dashVars PROVE ViewInv'
  BY DEF ViewInv, Held, dashVars

\* Every cut of a view that is drawn.
LEMMA ViewSays == ASSUME ViewInv PROVE RendersInBounds
PROOF
  <1> DEFINE InBounds(c) == 0 <= c.from /\ c.from <= c.to /\ c.to <= c.of
  <1> SUFFICES ASSUME size[1] > 3, size[2] > 3, NEW v \in Views, NEW c \in Cuts(v)
               PROVE  InBounds(c)
    BY DEF RendersInBounds
  <1>1. PICK w \in Nat, h \in Nat : w = size[1] /\ h = size[2]
    BY DEF ViewInv
  <1>2. w > 3 /\ h > 3 /\ ChildRows = h - 1
    BY <1>1 DEF ChildRows
  \* The cuts of a line and of a body.
  <1>3. ASSUME NEW from \in Nat, NEW to \in Nat, NEW of \in Nat, from <= to, to <= of,
               c = Cut(from, to, of)
        PROVE  InBounds(c)
    BY <1>3 DEF Cut
  <1>4. ASSUME NEW offset \in Nat, NEW visible \in Nat, NEW of \in Nat, offset <= of,
               c = Window(offset, visible, of)
        PROVE  InBounds(c)
    <2>1. PICK to \in Nat : to = Smaller(offset + visible, of) /\ offset <= to /\ to <= of
      BY <1>4 DEF Smaller
    <2> QED  BY <1>3, <1>4, <2>1 DEF Window
  <1>5. c \in (IF v \in Pickers THEN PickerCuts(v) ELSE IF v \in Sheets THEN SheetCuts(v) ELSE TokensCuts)
    BY <1>1, <1>2 DEF Cuts
  <1>6. CASE v \in Pickers
    <2>1. c \in PickerCuts(v)
      BY <1>5, <1>6
    <2>2. Held(v) # 0
      BY <2>1 DEF PickerCuts
    <2>3. PICK rest \in Nat, s \in Nat, o \in Nat :
            /\ rest = Held(v) /\ s = cursor[v].selected /\ o = cursor[v].offset
            /\ o <= s /\ s < rest
      <3>1. /\ Held(v) \in Nat /\ cursor[v].selected \in Nat /\ cursor[v].offset \in Nat
            /\ cursor[v].offset <= cursor[v].selected
        BY <1>6 DEF ViewInv, Held
      <3>2. Held(v) > 0
        BY <2>2, <3>1
      <3> QED  BY <1>6, <3>1, <3>2 DEF ViewInv
    <2>4. CASE cursor[v].detail
      <3>1. PICK n \in 1..MaxEntries : c \in DetailCuts(v, n)
        BY <2>1, <2>2, <2>4 DEF PickerCuts
      <3>2. CASE c = Cut(cursor[v].selected, cursor[v].selected + 1, Held(v))
        BY <1>3, <2>3, <3>2
      <3>3. CASE n > ChildRows - 3 /\ c = Cut(0, ChildRows - 3, n)
        <4>1. PICK to \in Nat : to = ChildRows - 3
          BY <1>2
        <4>2. n \in Nat /\ to <= n
          BY <3>3, <4>1, DashboardAssumption
        <4> QED  BY <1>3, <3>3, <4>1, <4>2
      <3>4. CASE c = Cut(0, size[1] - 4, size[1])
        <4>1. PICK to \in Nat : to = w - 4
          BY <1>2
        <4> QED  BY <1>1, <1>3, <3>4, <4>1
      <3> QED  BY <3>1, <3>2, <3>3, <3>4 DEF DetailCuts
    <2>5. CASE ~cursor[v].detail
      <3>1. \/ c = Window(cursor[v].offset, PickerRows, Held(v))
            \/ c = Cut(0, IF v = "hooks" THEN size[1] - 1 ELSE size[1] - 2, size[1])
        BY <2>1, <2>2, <2>5 DEF PickerCuts
      <3>2. CASE c = Window(cursor[v].offset, PickerRows, Held(v))
        <4>1. PICK visible \in Nat : visible = PickerRows
          BY <1>2 DEF PickerRows
        <4>2. o <= rest
          BY <2>3
        <4> QED  BY <1>4, <2>3, <3>2, <4>1, <4>2
      <3>3. CASE c = Cut(0, IF v = "hooks" THEN size[1] - 1 ELSE size[1] - 2, size[1])
        <4>1. PICK to \in Nat : to = (IF v = "hooks" THEN w - 1 ELSE w - 2) /\ to <= w
          BY <1>2
        <4> QED  BY <1>1, <1>3, <3>3, <4>1
      <3> QED  BY <3>1, <3>2, <3>3
    <2> QED  BY <2>4, <2>5
  <1>7. CASE v \in Sheets
    <2>1. c \in SheetCuts(v)
      BY <1>5, <1>7 DEF Pickers, Sheets
    <2>2. c = Window(top[v], SheetRows, Len(listed[v]))
      BY <2>1 DEF SheetCuts
    <2>3. top[v] \in Nat /\ Len(listed[v]) \in Nat /\ top[v] <= Len(listed[v])
      BY <1>7 DEF ViewInv
    <2>4. PICK visible \in Nat : visible = SheetRows
      BY <1>2 DEF SheetRows
    <2> QED  BY <1>4, <2>2, <2>3, <2>4
  <1>8. CASE v \notin Pickers /\ v \notin Sheets
    <2>1. c = Cut(0, size[1] - 1, size[1])
      BY <1>5, <1>8 DEF TokensCuts
    <2>2. PICK to \in Nat : to = w - 1 /\ to <= w
      BY <1>2
    <2> QED  BY <1>1, <1>3, <2>1, <2>2
  <1> QED  BY <1>6, <1>7, <1>8
-----------------------------------------------------------------------------
(* All commands together.                                                  *)

\* The commands that ask a model, their streams, and who else may have one.
AnswerInv == Solo /\ StreamInv /\ SkillInv /\ MoaInv /\ TalkInv

\* Nothing of the command that runs a skill, asks a mixture or talks, or of
\* the stream's contents, is touched.
Apart == UNCHANGED <<skillVars, moaVars, talkVars, reader, served, hand, chunks, output>>

\* No command has asked a model at first.
LEMMA AnswerStarts == Init => AnswerInv
PROOF
  <1> SUFFICES ASSUME Init PROVE AnswerInv
    OBVIOUS
  <1>0. /\ StreamInit /\ SkillInit /\ MoaInit /\ TalkInit
        /\ step \in {"none", "begin"} /\ stage \in {"none", "begin"} /\ talk \in {"none", "prompt"}
        /\ step # "none" => stage = "none" /\ talk = "none"
        /\ stage # "none" => talk = "none"
    BY DEF Init, NoSkill, NoMoa, NoTalk
  <1>1. /\ <<>> \in Seq(1..MaxDeltas) /\ Len(<<>>) = 0 /\ DOMAIN <<>> = {}
        /\ <<>> \in Seq([role : {"user", "assistant"}, of : Nat]) /\ <<>> \in Seq(Entries)
    OBVIOUS
  <1>2. StreamInv /\ reader = "none" /\ output = <<>>
    BY <1>0, StreamStarts DEF StreamInit
  <1>3. Solo
    BY <1>0, <1>2 DEF Solo
  <1>4. SkillInv
    <2>1. /\ depth = 0 /\ specs = NotFiring /\ owed = 0 /\ got = Done /\ transcript = <<>>
          /\ result = "nil" /\ envDepth \in 0..MaxHookDepth
      BY <1>0 DEF SkillInit
    <2>2. SkillTypeOK
      BY <1>0, <1>1, <2>1, ChatStreamAssumption DEF SkillTypeOK, Steps, Done
    <2>3. TextInv
      <3>1. step \notin Reading
        BY <1>0 DEF Reading
      <3>2. InOrder(output) /\ InOrder(transcript) /\ Len(transcript) \in {Len(output), Len(output) - 1}
        BY <1>1, <1>2, <2>1 DEF InOrder
      <3> QED  BY <1>0, <1>2, <2>1, <3>1, <3>2 DEF TextInv, Reading
    <2>4. HookInv
      BY <1>2, <2>1 DEF HookInv
    <2> QED  BY <2>2, <2>3, <2>4 DEF SkillInv
  <1>5. MoaInv
    <2>1. /\ models \in ModelLists /\ tctx = "live" /\ results = <<>> /\ closed = FALSE
          /\ asking = [i \in Entries |-> "idle"] /\ said = [i \in Entries |-> "error"]
          /\ responses = {} /\ errors = {} /\ buf = <<>> /\ moaErr = "nil"
      BY <1>0 DEF MoaInit
    <2>2. MoaTypeOK
      <3>1. Len(models) \in Nat /\ Len(results) <= Len(models)
        BY <1>1, <2>1, MoaAssumption
      <3>2. asking \in [Entries -> {"idle", "chat", "report", "leave", "gone"}]
        BY <2>1
      <3>3. said \in [Entries -> {"ok", "error"}]
        BY <2>1
      <3> QED  BY <1>0, <1>1, <2>1, <3>1, <3>2, <3>3 DEF MoaTypeOK
    <2>3. ReportInv
      <3>1. Collected = {}
        BY <2>1 DEF Collected
      <3>2. Accounted
        BY <2>1, <3>1 DEF Accounted
      <3>3. stage \notin Judged
        BY <1>0 DEF Judged
      <3>4. DOMAIN results = {}
        BY <1>1, <2>1
      <3> QED  BY <1>0, <2>1, <3>2, <3>3, <3>4 DEF ReportInv, Judged
    <2>4. SynthesisInv
      <3>1. InOrder(buf)
        BY <1>1, <2>1 DEF InOrder
      <3> QED  BY <1>0, <1>2, <2>1, <3>1 DEF SynthesisInv
    <2> QED  BY <2>1, <2>2, <2>3, <2>4 DEF MoaInv
  <1>6. TalkInv
    <2>1. history = <<>> /\ exchange = 0 /\ usage = 0
      BY <1>0 DEF TalkInit
    <2>2. Dialogue(0)
      BY <1>0, <1>1, <2>1 DEF Dialogue, Exchanging
    <2>3. InOrder(output)
      BY <1>1, <1>2 DEF InOrder
    <2> QED  BY <1>0, <1>1, <2>1, <2>2, <2>3 DEF TalkInv
  <1> QED  BY <1>2, <1>3, <1>4, <1>5, <1>6 DEF AnswerInv

\* The wizard only rearms the context; the demo, the registry and the
\* dashboard have nothing to do with a stream.
LEMMA OthersAreApart ==
  ASSUME StreamInv,
         \/ WizardNext /\ UNCHANGED notSetup
         \/ DemoNext /\ UNCHANGED notDemo
         \/ UNCHANGED notHost
         \/ UNCHANGED vars
  PROVE  Apart /\ ctx' \in {"live", "done"}
PROOF
  <1>1. CASE WizardNext /\ UNCHANGED notSetup
    <2>1. UNCHANGED <<reader, served, hand, chunks, output>> /\ ctx' \in {ctx, "live"}
      <3>1. CASE \/ RunSetup \/ Resume \/ Decline \/ AskAll \/ Advise \/ Arbitrate \/ Cancel
                 \/ Confirm \/ Choose \/ Restart \/ GiveUp
        BY <3>1 DEF RunSetup, Resume, Decline, AskAll, Ask, Advise, Arbitrate, Cancel, Confirm,
                    Choose, Restart, GiveUp, streamVars
      <3>2. CASE \/ Install \/ HybridKey \/ HybridMode \/ Succeed \/ Finish \/ Kill
                 \/ \E m \in Modes : SetMode(m)
        BY <3>2 DEF Install, HybridKey, HybridMode, Succeed, Finish, Kill, SetMode, streamVars
      <3>3. CASE RunAgain
        BY <3>3 DEF RunAgain
      <3> QED  BY <1>1, <3>1, <3>2, <3>3 DEF WizardNext
    <2>2. ctx \in {"live", "done"}
      BY DEF StreamInv, StreamTypeOK
    <2> QED  BY <1>1, <2>1, <2>2 DEF Apart, notSetup
  <1>2. CASE \/ DemoNext /\ UNCHANGED notDemo
             \/ UNCHANGED notHost
             \/ UNCHANGED vars
    <2>1. UNCHANGED <<streamVars, skillVars, moaVars, talkVars>>
      BY <1>2 DEF notDemo, notHost, vars
    <2> QED  BY <2>1 DEF Apart, streamVars, StreamInv, StreamTypeOK
  <1> QED  BY <1>1, <1>2

\* The other commands wait while one runs, and all do while the goroutine of
\* the stream works.
LEMMA SkillRuns ==
  ASSUME AnswerInv, SkillNext, UNCHANGED notSkill
  PROVE  AnswerInv'
PROOF
  <1>1. step # "none" /\ step' # "none" /\ SkillInv' /\ StreamInv'
    BY SkillGoesOn DEF AnswerInv
  <1>2. UNCHANGED <<moaVars, talkVars>> /\ UNCHANGED <<stage, buf, talk>>
    BY DEF notSkill, moaVars, talkVars
  <1>3. stage = "none" /\ talk = "none" /\ buf = <<>>
    BY <1>1 DEF AnswerInv, Solo, MoaInv
  <1>4. Solo' /\ MoaInv' /\ TalkInv'
    BY <1>1, <1>2, <1>3 DEF Solo, MoaInv, TalkInv
  <1> QED  BY <1>1, <1>4 DEF AnswerInv

\* A step of a mixture keeps the invariants of all commands,
LEMMA MoaRuns ==
  ASSUME AnswerInv, MoaNext, UNCHANGED notMoa
  PROVE  AnswerInv'
PROOF
  <1>1. /\ MoaInv' /\ StreamInv' /\ (stage' = "none" <=> stage = "none")
        /\ stage = "none" => UNCHANGED streamVars
    BY MoaGoesOn DEF AnswerInv
  <1>2. UNCHANGED <<skillVars, talkVars>> /\ UNCHANGED <<step, talk>>
    BY DEF notMoa, skillVars, talkVars
  <1>3. CASE stage = "none"
    <2>1. UNCHANGED <<reader, served, hand, chunks, output>>
      BY <1>1, <1>3 DEF streamVars
    <2>2. SkillInv' /\ TalkInv'
      BY <1>2, <2>1, SkillWaits, TalkWaits DEF AnswerInv
    <2>3. Solo'
      BY <1>1, <1>2, <1>3, <2>1 DEF AnswerInv, Solo
    <2> QED  BY <1>1, <2>2, <2>3 DEF AnswerInv
  <1>4. CASE stage # "none"
    <2>1. step = "none" /\ talk = "none"
      BY <1>4 DEF AnswerInv, Solo
    <2>2. SkillInv' /\ TalkInv' /\ Solo'
      BY <1>1, <1>2, <1>4, <2>1 DEF SkillInv, TalkInv, Solo
    <2> QED  BY <1>1, <2>2 DEF AnswerInv
  <1> QED  BY <1>3, <1>4

\* so does one of the loop,
LEMMA TalkRuns ==
  ASSUME AnswerInv, TalkNext, UNCHANGED notTalk
  PROVE  AnswerInv'
PROOF
  <1>1. TalkInv' /\ StreamInv' /\ talk # "none" /\ talk' # "none"
    BY TalkGoesOn DEF AnswerInv
  <1>2. UNCHANGED <<skillVars, moaVars>> /\ UNCHANGED <<step, stage, buf>>
    BY DEF notTalk, skillVars, moaVars
  <1>3. step = "none" /\ stage = "none" /\ buf = <<>>
    BY <1>1 DEF AnswerInv, Solo, MoaInv
  <1>4. Solo' /\ SkillInv' /\ MoaInv'
    BY <1>1, <1>2, <1>3 DEF Solo, SkillInv, MoaInv
  <1> QED  BY <1>1, <1>4 DEF AnswerInv

\* one of the goroutine of the stream,
LEMMA StreamRuns ==
  ASSUME AnswerInv, StreamNext, UNCHANGED notStream
  PROVE  AnswerInv'
PROOF
  <1>1. UNCHANGED <<skillVars, moaVars, talkVars>>
    BY DEF notStream
  <1>2. StreamInv' /\ (reader' = "none" <=> reader = "none")
    BY StreamGoesOn DEF AnswerInv
  <1>3. SkillInv' /\ MoaInv' /\ TalkInv'
    BY <1>1, SkillWaits, MoaWaits, TalkWaits DEF AnswerInv
  <1>4. UNCHANGED <<step, stage, talk>>
    BY <1>1 DEF skillVars, moaVars, talkVars
  <1>5. Solo'
    BY <1>2, <1>4 DEF AnswerInv, Solo
  <1> QED  BY <1>2, <1>3, <1>5 DEF AnswerInv

\* and one of a command without a stream.
LEMMA OthersRun ==
  ASSUME AnswerInv, Apart, ctx' \in {"live", "done"}
  PROVE  AnswerInv'
PROOF
  <1>1. UNCHANGED <<skillVars, moaVars, talkVars>> /\ UNCHANGED <<reader, served, hand, chunks, output>>
    BY DEF Apart
  <1>2. StreamInv'
    BY <1>1 DEF AnswerInv, StreamInv, StreamTypeOK
  <1>3. SkillInv' /\ MoaInv' /\ TalkInv'
    BY <1>1, SkillWaits, MoaWaits, TalkWaits DEF AnswerInv
  <1>4. UNCHANGED <<step, stage, talk>>
    BY <1>1 DEF skillVars, moaVars, talkVars
  <1>5. Solo'
    BY <1>1, <1>4 DEF AnswerInv, Solo
  <1> QED  BY <1>2, <1>3, <1>5 DEF AnswerInv

\* Every step keeps the invariant of the commands that ask a model.
LEMMA AnswerGoesOn == ASSUME AnswerInv, [Next]_vars PROVE AnswerInv'
PROOF
  <1>1. CASE StreamNext /\ UNCHANGED notStream
    BY <1>1, StreamRuns
  <1>2. CASE SkillNext /\ UNCHANGED notSkill
    BY <1>2, SkillRuns
  <1>3. CASE MoaNext /\ UNCHANGED notMoa
    BY <1>3, MoaRuns
  <1>4. CASE TalkNext /\ UNCHANGED notTalk
    BY <1>4, TalkRuns
  <1>5. CASE \/ WizardNext /\ UNCHANGED notSetup
             \/ DemoNext /\ UNCHANGED notDemo
             \/ UNCHANGED notHost
             \/ UNCHANGED vars
    <2>1. StreamInv
      BY DEF AnswerInv
    <2>2. Apart /\ ctx' \in {"live", "done"}
      BY <1>5, <2>1, OthersAreApart
    <2> QED  BY <2>2, OthersRun
  <1>6. UNCHANGED <<dashVars, notHost>> \/ UNCHANGED <<registryVars, notHost>> => UNCHANGED notHost
    OBVIOUS
  <1> QED  BY <1>1, <1>2, <1>3, <1>4, <1>5, <1>6 DEF Next

\* A taken stream that has ended was read to its end.
LEMMA AllIsTaken ==
  ASSUME StreamInv, reader # "none", NEW n, Flow(n, TRUE)
  PROVE  served = n
  BY DEF StreamInv, StreamTypeOK, Flow

\* A sequence in order is that of its numbers.
LEMMA OrderIsCount ==
  ASSUME NEW S, NEW list \in Seq(S), InOrder(list)
  PROVE  list = [n \in 1..Len(list) |-> n]
  BY DEF InOrder

\* It says that the output is the answer.
LEMMA AnswerSays == ASSUME AnswerInv PROVE OutputIsTheAnswer
PROOF
  <1>0. StreamInv /\ output \in Seq(1..MaxDeltas)
    BY DEF AnswerInv, StreamInv, StreamTypeOK
  <1>1. ASSUME stage = "none" PROVE output = [n \in 1..Len(output) |-> n]
    <2>1. CASE step # "none"
      <3>1. InOrder(output)
        BY <2>1 DEF AnswerInv, SkillInv, TextInv
      <3> QED  BY <1>0, <3>1, OrderIsCount
    <2>2. CASE talk # "none"
      <3>1. InOrder(output)
        BY <2>2 DEF AnswerInv, TalkInv
      <3> QED  BY <1>0, <3>1, OrderIsCount
    <2>3. CASE step = "none" /\ talk = "none"
      <3>1. output = <<>>
        BY <1>1, <2>3 DEF AnswerInv, Solo, StreamInv
      <3>2. InOrder(output)
        BY <3>1 DEF InOrder
      <3> QED  BY <1>0, <3>2, OrderIsCount
    <2> QED  BY <2>1, <2>2, <2>3
  <1>2. ASSUME step # "none"
        PROVE  /\ transcript = [n \in 1..Len(transcript) |-> n]
               /\ Len(transcript) \in {Len(output), Len(output) - 1}
    <2>1. TextInv /\ transcript \in Seq(1..MaxDeltas)
      BY <1>2 DEF AnswerInv, SkillInv, SkillTypeOK
    <2>2. InOrder(transcript)
      BY <2>1 DEF TextInv
    <2>3. transcript = [n \in 1..Len(transcript) |-> n]
      BY <2>1, <2>2, OrderIsCount
    <2> QED  BY <2>1, <2>3 DEF TextInv
  <1>3. buf = [n \in 1..Len(buf) |-> n]
    <2>1. buf \in Seq(1..MaxDeltas) /\ InOrder(buf)
      <3>1. CASE stage = "none"
        <4>1. buf = <<>>
          BY <3>1 DEF AnswerInv, MoaInv
        <4> QED  BY <4>1 DEF InOrder
      <3>2. CASE stage # "none"
        BY <3>2 DEF AnswerInv, MoaInv, MoaTypeOK, SynthesisInv
      <3> QED  BY <3>1, <3>2
    <2> QED  BY <2>1, OrderIsCount
  <1>4. ASSUME Succeeded, AskedModel
        PROVE  IF stage = "none" THEN Len(transcript) = served ELSE Len(buf) = served
    <2>0. reader # "none"
      BY <1>4 DEF AskedModel
    <2>1. CASE step = "over" /\ result = "nil"
      <3>1. stage = "none"
        BY <2>1 DEF AnswerInv, Solo
      <3>2. Flow(SkillTaken, SkillDone) /\ Len(transcript) \in Nat
        BY <2>0, <2>1 DEF AnswerInv, SkillInv, TextInv, SkillTypeOK
      <3>3. PICK n \in Nat : n = Len(transcript)
        BY <3>2
      <3>4. SkillTaken = n
        BY <2>1, <3>3 DEF SkillTaken
      <3>5. SkillDone = TRUE
        BY <2>1 DEF SkillDone
      <3>6. Flow(n, TRUE)
        BY <3>2, <3>4, <3>5 DEF Flow
      <3> QED  BY <1>0, <2>0, <3>1, <3>3, <3>6, AllIsTaken
    <2>2. CASE stage = "over" /\ moaErr = "nil"
      <3>1. Flow(Len(buf), stage \in {"final", "over"}) /\ Len(buf) \in Nat
        BY <2>0, <2>2 DEF AnswerInv, MoaInv, SynthesisInv, MoaTypeOK
      <3>2. PICK n \in Nat : n = Len(buf)
        BY <3>1
      <3>3. (stage \in {"final", "over"}) = TRUE
        BY <2>2
      <3>4. Flow(n, TRUE)
        BY <3>1, <3>2, <3>3 DEF Flow
      <3> QED  BY <1>0, <2>0, <2>2, <3>2, <3>4, AllIsTaken
    <2> QED  BY <1>4, <2>1, <2>2 DEF Succeeded
  <1>5. ASSUME talk = "check" PROVE Len(output) = served
    <2>1. reader # "none" /\ Flow(Len(output), talk = "check")
      BY <1>5 DEF AnswerInv, TalkInv
    <2>2. PICK n \in Nat : n = Len(output)
      BY <1>0
    <2>3. (talk = "check") = TRUE
      BY <1>5
    <2>4. Flow(n, TRUE)
      BY <2>1, <2>2, <2>3 DEF Flow
    <2> QED  BY <1>0, <2>1, <2>2, <2>4, AllIsTaken
  <1> QED  BY <1>1, <1>2, <1>3, <1>4, <1>5 DEF OutputIsTheAnswer

-----------------------------------------------------------------------------
(* The wizard: its answers, the provider it installs and what it claims.     *)

\* The options of the two conflicts.
CostsOrBest == <<"anthropic", "ollama", Hybrid>>
KeepsOrBest == <<"ollama", "anthropic", Hybrid>>

\* The lists of conflicts there are, and the answers that have none.
LEMMA ConflictsAre ==
  ASSUME NEW a \in AnswerSets
  PROVE  /\ DetectConflicts(a) \in {<<>>, <<CostsOrBest>>, <<KeepsOrBest>>, <<CostsOrBest, KeepsOrBest>>}
         /\ DetectConflicts(a) = <<>> => a["cost"] \/ (~a["offline"] /\ ~a["sensitive"])
PROOF
  <1> DEFINE one == IF ~a["cost"] /\ a["offline"] THEN <<CostsOrBest>> ELSE <<>>
             two == IF a["sensitive"] /\ ~a["cost"] THEN <<KeepsOrBest>> ELSE <<>>
  <1>1. DetectConflicts(a) = one \o two
    BY DEF DetectConflicts, CostsOrBest, KeepsOrBest
  <1>2. /\ <<>> \o <<>> = <<>>
        /\ <<CostsOrBest>> \o <<>> = <<CostsOrBest>> /\ <<>> \o <<KeepsOrBest>> = <<KeepsOrBest>>
        /\ <<CostsOrBest>> \o <<KeepsOrBest>> = <<CostsOrBest, KeepsOrBest>>
        /\ <<CostsOrBest>> # <<>> /\ <<KeepsOrBest>> # <<>> /\ <<CostsOrBest, KeepsOrBest>> # <<>>
    <2> DEFINE All == Seq({CostsOrBest, KeepsOrBest})
    <2>1. <<>> \in All
      OBVIOUS
    <2>2. <<CostsOrBest>> \in All /\ <<KeepsOrBest>> \in All
      OBVIOUS
    <2>3. /\ <<CostsOrBest>> # <<>> /\ <<KeepsOrBest>> # <<>>
          /\ <<CostsOrBest, KeepsOrBest>> # <<>>
      OBVIOUS
    <2>4. <<CostsOrBest>> \o <<KeepsOrBest>> = <<CostsOrBest, KeepsOrBest>>
      <3> DEFINE both == <<CostsOrBest>> \o <<KeepsOrBest>>
                 pair == <<CostsOrBest, KeepsOrBest>>
      <3>1. both \in All /\ pair \in All
        BY <2>2, ConcatProperties
      <3>2. Len(both) = 2 /\ both[1] = CostsOrBest /\ both[2] = KeepsOrBest
        BY <2>2, ConcatProperties
      <3>3. Len(pair) = 2 /\ pair[1] = CostsOrBest /\ pair[2] = KeepsOrBest
        OBVIOUS
      <3> HIDE DEF both, pair
      <3>4. \A k \in 1..Len(both) : both[k] = pair[k]
        BY <3>2, <3>3
      <3>5. both = pair
        BY <3>1, <3>2, <3>3, <3>4, SeqEqual
      <3> QED  BY <3>5 DEF both, pair
    <2>5. \A list \in All : list \o <<>> = list /\ <<>> \o list = list
      BY ConcatEmptySeq
    <2> HIDE DEF All
    <2> QED  BY <2>1, <2>2, <2>3, <2>4, <2>5
  <1>3. CASE a["cost"]
    <2>1. one = <<>> /\ two = <<>>
      BY <1>3
    <2> QED  BY <1>1, <1>2, <1>3, <2>1
  <1>4. CASE ~a["cost"] /\ a["offline"] /\ a["sensitive"]
    <2>1. one = <<CostsOrBest>> /\ two = <<KeepsOrBest>>
      BY <1>4
    <2> QED  BY <1>1, <1>2, <1>4, <2>1
  <1>5. CASE ~a["cost"] /\ a["offline"] /\ ~a["sensitive"]
    <2>1. one = <<CostsOrBest>> /\ two = <<>>
      BY <1>5
    <2> QED  BY <1>1, <1>2, <1>5, <2>1
  <1>6. CASE ~a["cost"] /\ ~a["offline"] /\ a["sensitive"]
    <2>1. one = <<>> /\ two = <<KeepsOrBest>>
      BY <1>6
    <2> QED  BY <1>1, <1>2, <1>6, <2>1
  <1>7. CASE ~a["cost"] /\ ~a["offline"] /\ ~a["sensitive"]
    <2>1. one = <<>> /\ two = <<>>
      BY <1>7
    <2> QED  BY <1>1, <1>2, <1>7, <2>1
  <1> QED  BY <1>3, <1>4, <1>5, <1>6, <1>7

\* Every conflict has three options.
LEMMA OptionsAre ==
  ASSUME NEW a \in AnswerSets, NEW i \in DOMAIN DetectConflicts(a)
  PROVE  DOMAIN DetectConflicts(a)[i] = 1..3
PROOF
  <1> DEFINE list == DetectConflicts(a)
  <1>1. list \in {<<>>, <<CostsOrBest>>, <<KeepsOrBest>>, <<CostsOrBest, KeepsOrBest>>}
    BY ConflictsAre
  <1>2. DOMAIN CostsOrBest = 1..3 /\ DOMAIN KeepsOrBest = 1..3
    BY DEF CostsOrBest, KeepsOrBest
  <1>3. list[i] \in {CostsOrBest, KeepsOrBest}
    <2> HIDE DEF list
    <2>0. i \in DOMAIN list
      BY DEF list
    <2>1. CASE list = <<>>
      BY <2>0, <2>1
    <2>2. CASE list = <<CostsOrBest>>
      BY <2>0, <2>2
    <2>3. CASE list = <<KeepsOrBest>>
      BY <2>0, <2>3
    <2>4. CASE list = <<CostsOrBest, KeepsOrBest>>
      BY <2>0, <2>4
    <2> QED  BY <1>1, <2>1, <2>2, <2>3, <2>4
  <1> QED  BY <1>2, <1>3

\* Three entries are three.
LEMMA ThreeAre == Cardinality(1..3) = 3
PROOF
  <1>1. \A n \in Nat : Cardinality(1..n) = n
    BY FS_Interval
  <1> QED  BY <1>1

\* The score of each entry of the table.
LEMMA TableScores ==
  ASSUME NEW w, NEW s \in Nat, NEW c \in Nat, NEW q \in Nat, NEW o \in Nat,
         w["sensitive"] = s, w["cost"] = c, w["quality"] = q, w["offline"] = o
  PROVE  /\ ScoreProvider(ProviderTable[1], w) = 10 * s + 10 * c + 5 * q + 10 * o
         /\ ScoreProvider(ProviderTable[2], w) = 10 * s + 10 * c + 8 * q + 10 * o
         /\ ScoreProvider(ProviderTable[3], w) = 10 * s + 10 * c + 7 * q + 10 * o
         /\ ScoreProvider(ProviderTable[4], w) = 10 * s + 10 * c + 6 * q + 10 * o
         /\ ScoreProvider(ProviderTable[5], w) = 4 * s + 9 * c + 8 * q
         /\ ScoreProvider(ProviderTable[6], w) = 4 * s + 2 * c + 10 * q
         /\ ScoreProvider(ProviderTable[7], w) = 4 * s + 7 * c + 8 * q
         /\ ScoreProvider(ProviderTable[8], w) = 4 * s + 6 * c + 9 * q
PROOF
  <1>1. ASSUME NEW name, NEW m, NEW s1 \in Nat, NEW c1 \in Nat, NEW q1 \in Nat, NEW o1 \in Nat
        PROVE  ScoreProvider(Scores(name, m, s1, c1, q1, o1), w) = s1 * s + c1 * c + q1 * q + o1 * o
    BY DEF ScoreProvider, Scores
  <1>2. /\ ProviderTable[1] = Scores("ollama", "llama3.2", 10, 10, 5, 10)
        /\ ProviderTable[2] = Scores("ollama", "qwen2.5-coder:32b", 10, 10, 8, 10)
        /\ ProviderTable[3] = Scores("ollama", "deepseek-r1:7b", 10, 10, 7, 10)
        /\ ProviderTable[4] = Scores("mlx", "Llama-3.2-3B", 10, 10, 6, 10)
        /\ ProviderTable[5] = Scores("deepseek", "deepseek-chat", 4, 9, 8, 0)
        /\ ProviderTable[6] = Scores("anthropic", "claude-sonnet-4-5", 4, 2, 10, 0)
        /\ ProviderTable[7] = Scores("groq", "llama-3.3-70b", 4, 7, 8, 0)
        /\ ProviderTable[8] = Scores("openrouter", "various", 4, 6, 9, 0)
    BY DEF ProviderTable
  <1>3. ScoreProvider(ProviderTable[1], w) = 10 * s + 10 * c + 5 * q + 10 * o
    BY <1>1, <1>2
  <1>4. ScoreProvider(ProviderTable[2], w) = 10 * s + 10 * c + 8 * q + 10 * o
    BY <1>1, <1>2
  <1>5. ScoreProvider(ProviderTable[3], w) = 10 * s + 10 * c + 7 * q + 10 * o
    BY <1>1, <1>2
  <1>6. ScoreProvider(ProviderTable[4], w) = 10 * s + 10 * c + 6 * q + 10 * o
    BY <1>1, <1>2
  <1>7. ScoreProvider(ProviderTable[5], w) = 4 * s + 9 * c + 8 * q + 0 * o
    BY <1>1, <1>2
  <1>8. ScoreProvider(ProviderTable[6], w) = 4 * s + 2 * c + 10 * q + 0 * o
    BY <1>1, <1>2
  <1>9. ScoreProvider(ProviderTable[7], w) = 4 * s + 7 * c + 8 * q + 0 * o
    BY <1>1, <1>2
  <1>10. ScoreProvider(ProviderTable[8], w) = 4 * s + 6 * c + 9 * q + 0 * o
    BY <1>1, <1>2
  <1> QED  BY <1>3, <1>4, <1>5, <1>6, <1>7, <1>8, <1>9, <1>10

\* When cost counts, and privacy or the connection, the three entries of ollama
\* that come first in the table are the best.
LEMMA LocalIsBest ==
  ASSUME NEW a \in AnswerSets, a["cost"], a["sensitive"] \/ a["offline"]
  PROVE  /\ \A i, j \in 1..3 : Better(a, i, j) <=> i < j
         /\ \A i \in 1..3, j \in 4..8 : Better(a, i, j) /\ ~Better(a, j, i)
PROOF
  <1> DEFINE w == Weights(a)
             s == w["sensitive"]
             o == w["offline"]
             score(k) == ScoreProvider(ProviderTable[k], w)
  <1>1. /\ s = (IF a["sensitive"] THEN 5 ELSE 0) /\ o = (IF a["offline"] THEN 5 ELSE 0)
        /\ w["cost"] = 5 /\ w["quality"] = 0
    BY DEF Weights, Questions
  <1>2. s \in Nat /\ o \in Nat /\ s + o >= 5
    BY <1>1
  <1>3. \A i, j : Better(a, i, j) <=> score(i) > score(j) \/ (score(i) = score(j) /\ i < j)
    BY DEF Better
  <1> HIDE DEF w
  <1>4. /\ score(1) = 10 * s + 50 + 10 * o /\ score(2) = 10 * s + 50 + 10 * o
        /\ score(3) = 10 * s + 50 + 10 * o /\ score(4) = 10 * s + 50 + 10 * o
        /\ score(5) = 4 * s + 45 /\ score(6) = 4 * s + 10
        /\ score(7) = 4 * s + 35 /\ score(8) = 4 * s + 30
    <2>1. /\ score(1) = 10 * s + 10 * 5 + 5 * 0 + 10 * o
          /\ score(2) = 10 * s + 10 * 5 + 8 * 0 + 10 * o
          /\ score(3) = 10 * s + 10 * 5 + 7 * 0 + 10 * o
          /\ score(4) = 10 * s + 10 * 5 + 6 * 0 + 10 * o
          /\ score(5) = 4 * s + 9 * 5 + 8 * 0
          /\ score(6) = 4 * s + 2 * 5 + 10 * 0
          /\ score(7) = 4 * s + 7 * 5 + 8 * 0
          /\ score(8) = 4 * s + 6 * 5 + 9 * 0
      <3>1. w["cost"] = 5 /\ w["quality"] = 0 /\ 5 \in Nat /\ 0 \in Nat
        BY <1>1
      <3> DEFINE five == 5
                 zero == 0
      <3>2. w["cost"] = five /\ w["quality"] = zero /\ five \in Nat /\ zero \in Nat
        BY <3>1
      <3> HIDE DEF five, zero, score, s, o
      <3>3. w["sensitive"] = s /\ w["offline"] = o
        BY DEF s, o
      <3> SUFFICES
             /\ score(1) = 10 * s + 10 * five + 5 * zero + 10 * o
             /\ score(2) = 10 * s + 10 * five + 8 * zero + 10 * o
             /\ score(3) = 10 * s + 10 * five + 7 * zero + 10 * o
             /\ score(4) = 10 * s + 10 * five + 6 * zero + 10 * o
             /\ score(5) = 4 * s + 9 * five + 8 * zero
             /\ score(6) = 4 * s + 2 * five + 10 * zero
             /\ score(7) = 4 * s + 7 * five + 8 * zero
             /\ score(8) = 4 * s + 6 * five + 9 * zero
        BY DEF five, zero
      <3> QED  BY <1>2, <3>2, <3>3, TableScores DEF score
    <2> HIDE DEF score, s, o
    <2> QED  BY <1>2, <2>1
  <1> HIDE DEF score
  <1>5. \A k \in 1..3 : score(k) = 10 * s + 50 + 10 * o
    BY <1>4
  <1>6. \A k \in 4..8 : score(k) \in Int /\ (k = 4 => score(k) = 10 * s + 50 + 10 * o)
                        /\ (k # 4 => score(k) < 10 * s + 50 + 10 * o)
    BY <1>2, <1>4
  <1> HIDE DEF s, o
  <1>7. \A i, j \in 1..3 : Better(a, i, j) <=> i < j
    BY <1>2, <1>3, <1>5
  <1>8. ASSUME NEW i \in 1..3, NEW j \in 4..8 PROVE Better(a, i, j) /\ ~Better(a, j, i)
    <2>1. score(i) \in Int /\ score(j) \in Int /\ score(i) >= score(j) /\ i < j
      BY <1>2, <1>5, <1>6
    <2> QED  BY <1>3, <2>1
  <1> QED  BY <1>7, <1>8

\* So they are the menu of a user whose data is sensitive or who is offline,
\* unless there are conflicts.
LEMMA MenuIsLocal ==
  ASSUME NEW a \in AnswerSets, a["cost"], a["sensitive"] \/ a["offline"], NEW n \in 1..3
  PROVE  Menu(a)[n].provider \in LocalProviders
PROOF
  <1> DEFINE kept == {i \in DOMAIN ProviderTable : ProviderTable[i].provider # "mlx" \/ AppleSilicon}
             ahead(i) == {j \in kept : Better(a, j, i)}
             place(i) == 1 + Cardinality(ahead(i))
             ranks == [k \in 1..Cardinality(kept) |-> ProviderTable[CHOOSE i \in kept : place(i) = k]]
  <1>0. DOMAIN ProviderTable = 1..8 /\ \A k \in 1..3 : ProviderTable[k].provider = "ollama"
    BY DEF ProviderTable, Scores
  <1>1. kept \subseteq 1..8 /\ 1..3 \subseteq kept /\ IsFiniteSet(kept)
    <2>1. kept \subseteq 1..8 /\ 1..3 \subseteq kept
      BY <1>0
    <2>2. 1 \in Int /\ 8 \in Int
      OBVIOUS
    <2>3. IsFiniteSet(1..8)
      BY ONLY <2>2, FS_Interval
    <2> HIDE DEF kept
    <2> QED  BY <2>1, <2>3, FS_Subset
  <1>2. RankProviders(a) = ranks
    BY DEF RankProviders
  <1> HIDE DEF kept
  <1>3. ASSUME NEW i \in 1..3 PROVE place(i) = i
    <2>1. ahead(i) = 1..(i - 1)
      <3>1. \A j \in kept : Better(a, j, i) <=> j < i
        <4> TAKE j \in kept
        <4>1. CASE j \in 1..3
          BY <4>1, LocalIsBest
        <4>2. CASE j \in 4..8
          BY <4>2, LocalIsBest
        <4> QED  BY <1>1, <4>1, <4>2
      <3>2. \A j : j \in 1..(i - 1) <=> j \in 1..3 /\ j < i
        OBVIOUS
      <3>3. \A j \in kept : j < i => j \in 1..3
        BY <1>1
      <3> QED  BY <1>1, <3>1, <3>2, <3>3
    <2>2. i - 1 \in Int /\ Cardinality(1..(i - 1)) = i - 1
      BY FS_Interval
    <2> HIDE DEF ahead
    <2> QED  BY <2>1, <2>2
  <1>4. ASSUME NEW i \in kept, i \notin 1..3 PROVE place(i) # n
    <2>1. 1..3 \subseteq ahead(i) /\ IsFiniteSet(ahead(i))
      <3>1. i \in 4..8
        BY <1>1, <1>4
      <3>2. 1..3 \subseteq ahead(i)
        BY <1>1, <3>1, LocalIsBest
      <3> QED  BY <1>1, <3>2, FS_Subset
    <2>2. Cardinality(1..3) = 3 /\ Cardinality(1..3) <= Cardinality(ahead(i))
      <3> HIDE DEF ahead
      <3>1. Cardinality(1..3) = 3
        BY ThreeAre
      <3> QED  BY <2>1, <3>1, FS_Subset
    <2>3. Cardinality(ahead(i)) \in Nat
      BY <2>1, FS_CardinalityType
    <2> HIDE DEF ahead
    <2> QED  BY <2>2, <2>3
  <1>5. (CHOOSE i \in kept : place(i) = n) = n
    <2>1. n \in kept /\ place(n) = n
      BY <1>1, <1>3
    <2>2. \A i \in kept : place(i) = n => i = n
      <3> TAKE i \in kept
      <3>1. CASE i \in 1..3
        BY <1>3, <3>1
      <3>2. CASE i \notin 1..3
        BY <1>4, <3>2
      <3> QED  BY <3>1, <3>2
    <2> HIDE DEF place
    <2> QED  BY <2>1, <2>2
  <1>6. Cardinality(kept) \in Nat /\ Cardinality(kept) >= 3
    <2>1. Cardinality(1..3) = 3
      BY ThreeAre
    <2>2. Cardinality(1..3) <= Cardinality(kept) /\ Cardinality(kept) \in Nat
      BY <1>1, FS_CardinalityType, FS_Subset
    <2> QED  BY <2>1, <2>2
  <1>7. ranks[n] = ProviderTable[n]
    <2>1. n \in 1..Cardinality(kept)
      BY <1>6
    <2> DEFINE entry(k) == CHOOSE i \in kept : place(i) = k
    <2>2. entry(n) = n
      BY <1>5
    <2>3. ranks = [k \in 1..Cardinality(kept) |-> ProviderTable[entry(k)]]
      OBVIOUS
    <2> HIDE DEF entry, ranks
    <2> QED  BY <2>1, <2>2, <2>3
  <1>8. Menu(a)[n] = ranks[n]
    <2> DEFINE count == Cardinality(kept)
               all == {ranks[k] : k \in 1..count}
    <2>1. ranks \in Seq(all) /\ Len(ranks) = count
      <3> HIDE DEF place
      <3>1. ranks \in [1..count -> all]
        BY DEF ranks
      <3> HIDE DEF ranks, all
      <3> QED  BY <1>6, <3>1
    <2> HIDE DEF ranks, all
    <2> QED  BY <1>2, <1>6, <2>1, SubSeqProperties DEF Menu
  <1> QED  BY <1>0, <1>7, <1>8 DEF LocalProviders

-----------------------------------------------------------------------------
\* The contents of config.json that can be parsed.
Configs == [keys : SUBSET Keyed, default : Keyed \cup {"none"}, mode : Modes \cup {"none", "hybrid"}]

\* The types the wizard's invariant rests on.
WizTypes ==
  /\ page \in Pages /\ answers \in AnswerSets /\ told \in AnswerSets
  /\ progress \in {NoFile, Garbled} \cup [stage : Saves, answers : AnswerSets]
  /\ config \in {Garbled} \cup Configs

\* The questions of a round that were not put yet.
Unasked ==
  IF page = "q1" THEN Questions ELSE IF page = "q2" THEN {"cost", "offline"}
  ELSE IF page = "q3" THEN {"offline"} ELSE {}

Saved == progress \notin {NoFile, Garbled}

\* What the wizard works with, and what a later run may resume, was told.
ToldInv ==
  /\ page = "resume?" => Saved
  /\ \A q \in Questions :
       /\ answers[q] => told[q]
       /\ Saved /\ progress.answers[q] => told[q]
       /\ q \in Unasked => ~answers[q] /\ (Saved => ~progress.answers[q])

\* The provider is an option of the last conflict there is.
Conflicts == DetectConflicts(answers)
LastChoice == \E i \in 1..3 : provider = Conflicts[Len(Conflicts)][i]
Installing == {"install", "anthropic", "mode", "done", "clear"}

\* Where the wizard has a provider, it is one the answers allow.
ProviderInv ==
  /\ page = "menu" => Conflicts = <<>>
  /\ page = "arbitrate" => conflict \in 1..Len(Conflicts)
  /\ page = "confirm" => Conflicts # <<>> /\ LastChoice
  /\ page \in Installing =>
       IF Conflicts = <<>>
       THEN answers["sensitive"] \/ answers["offline"] => provider \in LocalProviders
       ELSE LastChoice
  /\ page \in {"anthropic", "mode"} => provider = Hybrid

\* config.json has a key of p, which is its default.
SetUp(p) == config # Garbled /\ p \in config.keys /\ config.default = p

\* A run that is under way claims nothing; one that succeeded has set it up.
ConfInv ==
  /\ page # "over" => outcome.how = "running"
  /\ page \in {"done", "clear"} /\ provider \in Keyed => SetUp(provider)
  /\ outcome.how = "ok" /\ outcome.configured \in Keyed => SetUp(outcome.configured)

WizInv == WizTypes /\ ToldInv /\ ProviderInv /\ ConfInv

\* The invariant holds where a command starts, in the wizard or not.
LEMMA WizStarts == ASSUME WizardInit, page \in {"none", "start"} PROVE WizInv
PROOF
  <1>1. NoAnswers \in AnswerSets /\ \A q \in Questions : ~NoAnswers[q]
    BY DEF NoAnswers, AnswerSets
  <1>2. WizTypes
    BY <1>1 DEF WizardInit, WizTypes, Pages, NoConfig, Configs
  <1>3. ToldInv
    BY <1>1 DEF WizardInit, ToldInv, Unasked, Saved
  <1>4. ProviderInv
    BY DEF ProviderInv, Installing
  <1>5. ConfInv
    BY DEF ConfInv, WizardInit, Outcome
  <1> QED  BY <1>2, <1>3, <1>4, <1>5 DEF WizInv

\* The other commands leave the wizard alone.
LEMMA WizWaits == ASSUME WizInv, UNCHANGED wizardVars PROVE WizInv'
  BY DEF WizInv, WizTypes, ToldInv, Unasked, Saved, ProviderInv, Conflicts, LastChoice,
         ConfInv, SetUp, wizardVars, wizData, wizFiles, wizHost

\* What a step of saving does to the file and the page.
LEMMA SavingMoves ==
  ASSUME NEW s \in Saves, NEW a \in AnswerSets, NEW next \in Pages, WizTypes, SaveProgress(s, a, next)
  PROVE  /\ page' \in {next, "over"} /\ page' \in Pages
         /\ progress' \in {NoFile, Garbled} \cup [stage : Saves, answers : AnswerSets]
         /\ progress' = [stage |-> s, answers |-> a] \/ progress' = Garbled \/ progress' = progress
         /\ page' = "over" /\ next # "over" => outcome' = Outcome("killed", "none")
         /\ page' # "over" => outcome' = outcome
  BY DEF SaveProgress, Goto, Killed, Ends, WizTypes, Pages

\* A key or a mode is added to a configuration that can be parsed.
LEMMA ConfigsGrow ==
  ASSUME WizTypes
  PROVE  /\ Existing \in Configs
         /\ \A p \in Keyed : WithKey(p) \in Configs
         /\ \A p \in Keyed : p \in WithKey(p).keys /\ WithKey(p).default = p
         /\ \A m \in Modes \cup {"hybrid"} : [Existing EXCEPT !.mode = m] \in Configs
PROOF
  <1>1. Existing \in Configs
    BY DEF WizTypes, Existing, NoConfig, Configs
  <1> DEFINE e == Existing
  <1> HIDE DEF e
  <1>2. e \in Configs
    BY <1>1 DEF e
  <1>3. ASSUME NEW p \in Keyed
        PROVE  /\ [e EXCEPT !.keys = @ \cup {p}, !.default = p] \in Configs
               /\ p \in [e EXCEPT !.keys = @ \cup {p}, !.default = p].keys
               /\ [e EXCEPT !.keys = @ \cup {p}, !.default = p].default = p
    BY <1>2 DEF Configs
  <1>4. \A m \in Modes \cup {"hybrid"} : [e EXCEPT !.mode = m] \in Configs
    BY <1>2 DEF Configs
  <1> QED  BY <1>1, <1>3, <1>4 DEF e, WithKey

\* Every step of the wizard keeps its types.
LEMMA TypesMove == ASSUME WizTypes, ToldInv, WizardNext PROVE WizTypes'
PROOF
  <1>0. NoAnswers \in AnswerSets
    BY DEF NoAnswers, AnswerSets
  <1>1. ASSUME NEW q \in Questions, NEW s \in Saves, NEW next \in Pages, Ask(q, s, next)
        PROVE  WizTypes'
    <2>1. UNCHANGED config
      BY <1>1 DEF Ask
    <2>2. CASE Ends("error") /\ UNCHANGED <<answers, told, progress>>
      BY <2>1, <2>2 DEF WizTypes, Ends, Pages, Configs
    <2>3. ASSUME NEW yes \in BOOLEAN, answers' = [answers EXCEPT ![q] = yes],
                 told' = [told EXCEPT ![q] = yes], SaveProgress(s, answers', next)
          PROVE  WizTypes'
      <3>1. answers' \in AnswerSets /\ told' \in AnswerSets
        BY <2>3 DEF WizTypes, AnswerSets
      <3>2. page' \in Pages /\ progress' \in {NoFile, Garbled} \cup [stage : Saves, answers : AnswerSets]
        BY <2>3, <3>1, SavingMoves
      <3> QED  BY <2>1, <3>1, <3>2 DEF WizTypes, Configs
    <2> QED  BY <1>1, <2>2, <2>3 DEF Ask
  <1>2. ASSUME NEW s \in Saves, NEW next \in Pages, SaveProgress(s, answers, next),
               UNCHANGED <<answers, told, config>>
        PROVE  WizTypes'
    <2>1. answers \in AnswerSets
      BY DEF WizTypes
    <2>2. page' \in Pages /\ progress' \in {NoFile, Garbled} \cup [stage : Saves, answers : AnswerSets]
      BY <1>2, <2>1, SavingMoves
    <2> QED  BY <1>2, <2>2 DEF WizTypes, Configs
  <1>3. CASE AskAll
    <2>1. /\ Questions = {"sensitive", "cost", "offline"} /\ {"q1", "q2", "q3"} \subseteq Saves
          /\ {"q2", "q3", "advise"} \subseteq Pages
      BY DEF Questions, Saves, Pages
    <2> QED  BY <1>1, <1>3, <2>1 DEF AskAll
  <1>4. CASE Confirm \/ Choose \/ Succeed
    <2>1. {"install", "done"} \subseteq Saves /\ {"install", "clear"} \subseteq Pages
      BY DEF Saves, Pages
    <2> QED  BY <1>2, <1>4, <2>1 DEF Confirm, Choose, Succeed, wizData
  <1>5. CASE Resume
    <2>1. progress.answers \in AnswerSets
      BY <1>5 DEF Resume, WizTypes, ToldInv, Saved
    <2> QED  BY <1>5, <2>1 DEF Resume, WizTypes, Goto, wizFiles, Pages, Configs
  <1>6. CASE RunSetup \/ Decline \/ Restart
    BY <1>0, <1>6 DEF RunSetup, Decline, Restart, StartsOver, ClearProgress, WizTypes, Goto,
                      wizFiles, wizData, Pages, Configs
  <1>7. CASE Advise \/ Arbitrate \/ Cancel \/ GiveUp \/ Finish \/ Kill \/ RunAgain
    BY <1>7 DEF Advise, Arbitrate, Cancel, GiveUp, Finish, Kill, RunAgain, ClearProgress, WizTypes,
                Goto, Ends, Killed, wizFiles, wizData, Pages, Configs
  <1>8. ASSUME NEW p \in Keyed, NEW next \in Pages, Configure(p, next),
               UNCHANGED <<answers, told, progress>>
        PROVE  WizTypes'
    <2>1. config' \in {Garbled} \cup Configs
      BY <1>8, ConfigsGrow DEF Configure, WizTypes
    <2>2. page' \in Pages
      BY <1>8 DEF Configure, Goto, Ends, Killed, Pages
    <2> QED  BY <1>8, <2>1, <2>2 DEF WizTypes, Configs
  <1>9. CASE Install
    <2>1. UNCHANGED <<answers, told>>
      BY <1>9 DEF Install, wizData
    <2>2. CASE provider \in Keyed /\ Configure(provider, "done") /\ UNCHANGED progress
      BY <1>8, <2>1, <2>2 DEF Pages
    <2>3. CASE /\ config' = config /\ (progress' = progress \/ progress' = NoFile)
               /\ page' \in {"done", "over", "anthropic"}
      BY <2>1, <2>3 DEF WizTypes, Pages, Configs
    <2> QED  BY <1>9, <2>2, <2>3 DEF Install, InstallOllama, ClearProgress, Goto, Ends, wizFiles
  <1>10. CASE HybridKey
    <2>1. UNCHANGED <<answers, told, progress>>
      BY <1>10 DEF HybridKey, wizData
    <2>2. CASE Configure("anthropic", "mode")
      BY <1>8, <2>1, <2>2 DEF Pages, Keyed
    <2>3. CASE config' = config /\ page' \in {"mode", "over"}
      BY <2>1, <2>3 DEF WizTypes, Pages, Configs
    <2> QED  BY <1>10, <2>2, <2>3 DEF HybridKey, Goto, Ends
  <1>11. CASE HybridMode \/ \E m \in Modes : SetMode(m)
    <2>1. config' \in {Garbled} \cup Configs
      BY <1>11, ConfigsGrow DEF HybridMode, SetMode, WizTypes
    <2> QED  BY <1>11, <2>1 DEF HybridMode, SetMode, WizTypes, Goto, Ends, Killed, wizData, Pages, Configs
  <1> QED  BY <1>3, <1>4, <1>5, <1>6, <1>7, <1>9, <1>10, <1>11 DEF WizardNext

\* No step makes a yes of its own, in the answers or in the file: a question
\* that was not put is answered no in both.
LEMMA ToldMoves == ASSUME WizTypes, ToldInv, WizardNext PROVE ToldInv'
PROOF
  <1>0. \A q \in Questions : ~NoAnswers[q]
    BY DEF NoAnswers
  <1>1. ASSUME NEW q \in Questions, NEW s \in Saves, NEW next \in Pages, next # "resume?",
               q \in Unasked, \A r \in Questions : r \in Unasked' => r \in Unasked /\ r # q,
               Ask(q, s, next)
        PROVE  ToldInv'
    <2>1. CASE Ends("error") /\ UNCHANGED <<answers, told, progress>>
      BY <2>1 DEF ToldInv, Ends, Saved, Unasked
    <2>2. ASSUME NEW yes \in BOOLEAN, answers' = [answers EXCEPT ![q] = yes],
                 told' = [told EXCEPT ![q] = yes], SaveProgress(s, answers', next)
          PROVE  ToldInv'
      <3>1. answers' \in AnswerSets
        BY <2>2 DEF WizTypes, AnswerSets
      <3>2. /\ progress' = [stage |-> s, answers |-> answers'] \/ progress' = Garbled \/ progress' = progress
            /\ page' \in {next, "over"}
        BY <2>2, <3>1, SavingMoves
      <3>3. \A r \in Questions : /\ r = q => answers'[r] = yes /\ told'[r] = yes
                                 /\ r # q => answers'[r] = answers[r] /\ told'[r] = told[r]
        BY <2>2 DEF WizTypes, AnswerSets
      <3>4. \A r \in Questions : answers'[r] => told'[r]
        BY <3>3 DEF ToldInv
      <3>5. \A r \in Questions : r \in Unasked' => ~answers'[r]
        BY <1>1, <3>3 DEF ToldInv
      <3>6. ASSUME NEW r \in Questions, Saved'
            PROVE  /\ progress'.answers[r] => told'[r]
                   /\ r \in Unasked' => ~progress'.answers[r]
        <4>1. CASE progress' = [stage |-> s, answers |-> answers']
          <5>1. progress'.answers = answers'
            BY <4>1
          <5> QED  BY <3>4, <3>5, <5>1
        <4>2. CASE progress' = progress
          <5>1. Saved
            BY <3>6, <4>2 DEF Saved
          <5>2. (progress.answers[r] => told[r]) /\ (r \in Unasked => ~progress.answers[r])
            BY <5>1 DEF ToldInv
          <5> QED  BY <1>1, <3>3, <4>2, <5>2
        <4>3. progress' # Garbled
          BY <3>6 DEF Saved
        <4> QED  BY <3>2, <4>1, <4>2, <4>3
      <3>7. page' # "resume?"
        BY <1>1, <3>2
      <3> QED  BY <3>4, <3>5, <3>6, <3>7 DEF ToldInv
    <2> QED  BY <1>1, <2>1, <2>2 DEF Ask
  <1>2. ASSUME NEW s \in Saves, NEW next \in {"install", "clear"}, SaveProgress(s, answers, next),
               UNCHANGED <<answers, told>>
        PROVE  ToldInv'
    <2>1. answers \in AnswerSets /\ next \in Pages
      BY DEF WizTypes, Pages
    <2>2. /\ progress' = [stage |-> s, answers |-> answers] \/ progress' = Garbled \/ progress' = progress
          /\ page' \in {next, "over"}
      BY <1>2, <2>1, SavingMoves
    <2>3. page' \in {"install", "clear", "over"}
      BY <2>2
    <2>4. Unasked' = {}
      BY <2>3 DEF Unasked
    <2>5. ASSUME NEW r \in Questions, Saved', progress'.answers[r] PROVE told'[r]
      <3>1. CASE progress' = [stage |-> s, answers |-> answers]
        <4>1. progress'.answers = answers
          BY <3>1
        <4> QED  BY <1>2, <2>5, <4>1 DEF ToldInv
      <3>2. CASE progress' = progress
        <4>1. Saved
          BY <2>5, <3>2 DEF Saved
        <4> QED  BY <1>2, <2>5, <3>2, <4>1 DEF ToldInv
      <3>3. progress' # Garbled
        BY <2>5 DEF Saved
      <3> QED  BY <2>2, <3>1, <3>2, <3>3
    <2> QED  BY <1>2, <2>3, <2>4, <2>5 DEF ToldInv
  <1>3. CASE AskAll
    <2>0. /\ Questions = {"sensitive", "cost", "offline"} /\ {"q1", "q2", "q3"} \subseteq Saves
          /\ {"q2", "q3", "advise"} \subseteq Pages
      BY DEF Questions, Saves, Pages
    <2>1. CASE Ask("sensitive", "q1", "q2")
      <3>1. page = "q1" /\ page' \in {"q2", "over"}
        BY <2>1 DEF Ask, SaveProgress, Goto, Killed, Ends
      <3>2. Unasked = Questions /\ Unasked' \subseteq {"cost", "offline"}
        BY <3>1 DEF Unasked
      <3> QED  BY <1>1, <2>0, <2>1, <3>2
    <2>2. CASE Ask("cost", "q2", "q3")
      <3>1. page = "q2" /\ page' \in {"q3", "over"}
        BY <2>2 DEF Ask, SaveProgress, Goto, Killed, Ends
      <3>2. Unasked = {"cost", "offline"} /\ Unasked' \subseteq {"offline"}
        BY <3>1 DEF Unasked
      <3> QED  BY <1>1, <2>0, <2>2, <3>2
    <2>3. CASE Ask("offline", "q3", "advise")
      <3>1. page = "q3" /\ page' \in {"advise", "over"}
        BY <2>3 DEF Ask, SaveProgress, Goto, Killed, Ends
      <3>2. Unasked = {"offline"} /\ Unasked' = {}
        BY <3>1 DEF Unasked
      <3> QED  BY <1>1, <2>0, <2>3, <3>2
    <2> QED  BY <1>3, <2>1, <2>2, <2>3 DEF AskAll
  <1>4. CASE Confirm \/ Choose \/ Succeed
    BY <1>2, <1>4 DEF Confirm, Choose, Succeed, wizData, Saves
  <1>5. ASSUME answers' = NoAnswers, told' = NoAnswers, ~Saved', page' = "q1" PROVE ToldInv'
    BY <1>0, <1>5 DEF ToldInv
  <1>6. CASE RunSetup \/ Decline \/ Restart
    <2>1. CASE StartsOver /\ (progress' = NoFile \/ (progress' = progress /\ ~Saved))
      BY <1>5, <2>1 DEF StartsOver, Goto, Saved
    <2>2. CASE RunSetup /\ Saved
      BY <2>2 DEF RunSetup, ToldInv, Saved, Goto, wizData, wizFiles, Unasked
    <2> QED  BY <1>6, <2>1, <2>2 DEF RunSetup, Decline, Restart, ClearProgress, Saved, wizFiles
  <1>7. CASE Resume
    <2>1. Saved /\ answers' = progress.answers /\ progress' = progress /\ told' = told /\ page' = "advise"
      BY <1>7 DEF Resume, ToldInv, Goto, wizFiles
    <2> QED  BY <2>1 DEF ToldInv, Saved, Unasked
  <1>8. ASSUME UNCHANGED <<answers, told>>, progress' = NoFile \/ progress' = progress,
               page' \notin {"q1", "q2", "q3", "resume?"}
        PROVE  ToldInv'
    BY <1>8 DEF ToldInv, Saved, Unasked
  <1>9. CASE Advise \/ Arbitrate \/ Cancel \/ GiveUp \/ Finish \/ Kill \/ RunAgain
    BY <1>8, <1>9 DEF Advise, Arbitrate, Cancel, GiveUp, Finish, Kill, RunAgain, ClearProgress,
                Goto, Ends, Killed, wizFiles, wizData
  <1>10. CASE Install \/ HybridKey \/ HybridMode
    BY <1>8, <1>10 DEF Install, InstallOllama, Configure, ClearProgress, HybridKey, HybridMode,
                       Goto, Ends, Killed, wizFiles, wizData
  <1>11. CASE \E m \in Modes : SetMode(m)
    BY <1>8, <1>11 DEF SetMode, Killed, Ends, wizData
  <1> QED  BY <1>3, <1>4, <1>6, <1>7, <1>9, <1>10, <1>11 DEF WizardNext

\* The provider that is installed is the last choice of the conflicts, or an
\* entry of the menu of a user whose answers have none.
LEMMA ProviderMoves == ASSUME WizTypes, ProviderInv, WizardNext PROVE ProviderInv'
PROOF
  <1>1. ASSUME page' \notin {"menu", "arbitrate", "confirm"} \cup Installing PROVE ProviderInv'
    BY <1>1 DEF ProviderInv, Installing
  <1>2. ASSUME UNCHANGED <<answers, provider>>, page \in Installing, page' \in Installing \cup {"over"},
               page' \in {"anthropic", "mode"} => provider = Hybrid
        PROVE  ProviderInv'
    BY <1>2 DEF ProviderInv, Installing, Conflicts, LastChoice
  <1>3. CASE RunSetup \/ Resume \/ Decline \/ AskAll \/ Restart \/ GiveUp \/ Cancel \/ Finish
               \/ Kill \/ RunAgain \/ \E m \in Modes : SetMode(m)
    <2>1. page' \in {"q1", "q2", "q3", "resume?", "advise", "start", "over"}
      BY <1>3 DEF RunSetup, Resume, Decline, AskAll, Ask, Restart, GiveUp, Cancel, Finish, Kill,
                  RunAgain, SetMode, StartsOver, SaveProgress, Goto, Ends, Killed
    <2> QED  BY <1>1, <2>1 DEF Installing
  <1>4. CASE Advise
    <2>1. UNCHANGED <<answers, provider>>
      BY <1>4 DEF Advise
    <2>2. CASE Conflicts = <<>>
      BY <1>4, <2>1, <2>2 DEF Advise, Goto, ProviderInv, Conflicts, Installing
    <2>3. CASE Conflicts # <<>>
      <3>1. page' = "arbitrate" /\ conflict' = 1
        BY <1>4, <2>3 DEF Advise, Goto, Conflicts
      <3>2. 1 \in 1..Len(Conflicts)
        BY <2>3, ConflictsAre DEF Conflicts, WizTypes
      <3>3. Conflicts' = Conflicts
        BY <2>1 DEF Conflicts
      <3> QED  BY <3>1, <3>2, <3>3 DEF ProviderInv, Installing
    <2> QED  BY <2>2, <2>3
  <1>5. CASE Arbitrate
    <2>1. UNCHANGED <<answers, told>> /\ conflict \in 1..Len(Conflicts) /\ Conflicts' = Conflicts
      BY <1>5 DEF Arbitrate, ProviderInv, Conflicts
    <2>2. Len(Conflicts) \in Nat /\ DOMAIN Conflicts = 1..Len(Conflicts)
      BY ConflictsAre DEF Conflicts, WizTypes
    <2>3. DOMAIN Conflicts[conflict] = 1..3
      BY <2>1, <2>2, OptionsAre DEF Conflicts, WizTypes
    <2>4. PICK i \in 1..3 : provider' = Conflicts[conflict][i]
      BY <1>5, <2>3 DEF Arbitrate, Conflicts
    <2>5. CASE conflict < Len(Conflicts)
      <3>1. page' = "arbitrate" /\ conflict' = conflict + 1
        BY <1>5, <2>5 DEF Arbitrate, Conflicts, Goto
      <3>2. conflict' \in 1..Len(Conflicts)
        BY <2>1, <2>2, <2>5, <3>1
      <3> QED  BY <2>1, <3>1, <3>2 DEF ProviderInv, Installing
    <2>6. CASE ~(conflict < Len(Conflicts))
      <3>1. page' = "confirm"
        BY <1>5, <2>6 DEF Arbitrate, Conflicts, Goto
      <3> DEFINE total == Len(Conflicts)
      <3>2. conflict = total
        <4>1. conflict \in 1..total /\ total \in Nat /\ ~(conflict < total)
          BY <2>1, <2>2, <2>6
        <4> HIDE DEF total
        <4> QED  BY <4>1
      <3>3. LastChoice' /\ Conflicts # <<>>
        <4>1. provider' = Conflicts'[Len(Conflicts')][i]
          BY <2>1, <2>4, <3>2
        <4>2. LastChoice'
          BY <4>1 DEF LastChoice
        <4>3. Len(<<>>) = 0
          OBVIOUS
        <4>4. Conflicts # <<>>
          BY <2>1, <2>2, <4>3
        <4> QED  BY <4>2, <4>4
      <3> QED  BY <2>1, <3>1, <3>3 DEF ProviderInv, Installing
    <2> QED  BY <2>5, <2>6
  <1>6. CASE Confirm
    <2>1. UNCHANGED <<answers, provider>> /\ page' \in {"install", "over"} /\ Conflicts # <<>> /\ LastChoice
      BY <1>6 DEF Confirm, SaveProgress, Goto, Killed, Ends, ProviderInv, wizData
    <2> QED  BY <2>1 DEF ProviderInv, Installing, Conflicts, LastChoice
  <1>7. CASE Choose
    <2>1. UNCHANGED answers /\ page' \in {"install", "over"} /\ Conflicts = <<>>
      BY <1>7 DEF Choose, SaveProgress, Goto, Killed, Ends, ProviderInv
    <2>2. PICK i \in 1..3 : provider' = Menu(answers)[i].provider
      BY <1>7 DEF Choose
    <2>3. ASSUME answers["sensitive"] \/ answers["offline"] PROVE provider' \in LocalProviders
      <3>1. answers \in AnswerSets
        BY DEF WizTypes
      <3>2. answers["cost"]
        BY <2>1, <2>3, <3>1, ConflictsAre DEF Conflicts
      <3> QED  BY <2>2, <2>3, <3>1, <3>2, MenuIsLocal
    <2> QED  BY <2>1, <2>3 DEF ProviderInv, Installing, Conflicts
  <1>8. CASE Install
    <2>1. /\ UNCHANGED <<answers, provider>> /\ page \in Installing /\ page' \in Installing \cup {"over"}
          /\ page' \in {"anthropic", "mode"} => provider = Hybrid
      BY <1>8 DEF Install, InstallOllama, Configure, Goto, Ends, Killed, wizData, Installing
    <2> QED  BY <1>2, <2>1
  <1>9. CASE HybridKey \/ HybridMode \/ Succeed
    <2>1. /\ UNCHANGED <<answers, provider>> /\ page \in Installing /\ page' \in Installing \cup {"over"}
          /\ page' \in {"anthropic", "mode"} => page = "anthropic"
      BY <1>9 DEF HybridKey, HybridMode, Succeed, Configure, SaveProgress, Goto, Ends, Killed, wizData, Installing
    <2> QED  BY <1>2, <2>1 DEF ProviderInv
  <1> QED  BY <1>3, <1>4, <1>5, <1>6, <1>7, <1>8, <1>9 DEF WizardNext

\* The hybrid installs the key of anthropic and claims no provider of its own.
LEMMA HybridIsNotKeyed == Hybrid \notin Keyed
  BY DEF Hybrid, Keyed

\* What a success claims is in config.json, until a write fails under a run
\* that ends then, or another provider is set up.
LEMMA ConfMoves == ASSUME WizTypes, ProviderInv, ConfInv, WizardNext PROVE ConfInv'
PROOF
  <1>0. Garbled \notin Configs
    BY WizardAssumption DEF Configs
  <1>1. ASSUME page' \notin {"done", "clear", "over"}, outcome'.how = "running" PROVE ConfInv'
    BY <1>1 DEF ConfInv
  <1>2. ASSUME NEW h \in {"error", "killed", "ok"}, page' = "over", outcome' = Outcome(h, "none") PROVE ConfInv'
    BY <1>2 DEF ConfInv, Outcome, Keyed
  <1>3. \A h : outcome' = Outcome(h, "none") => outcome'.how = h
    BY DEF Outcome
  <1>4. CASE RunSetup \/ Resume \/ Decline \/ AskAll \/ Advise \/ Arbitrate \/ Cancel \/ Confirm
               \/ Choose \/ Restart \/ GiveUp
    <2>1. page # "over" /\ outcome.how = "running"
      BY <1>4 DEF RunSetup, Resume, Decline, AskAll, Ask, Advise, Arbitrate, Cancel, Confirm,
                  Choose, Restart, GiveUp, ConfInv
    <2>2. \/ outcome' = outcome /\ page' \notin {"done", "clear", "over"}
          \/ page' = "over" /\ \E h \in {"error", "killed", "ok"} : outcome' = Outcome(h, "none")
      BY <1>4 DEF RunSetup, Resume, Decline, AskAll, Ask, Advise, Arbitrate, Cancel, Confirm,
                  Choose, Restart, GiveUp, StartsOver, SaveProgress, Goto, Ends, Killed
    <2> QED  BY <1>1, <1>2, <2>1, <2>2
  <1>5. CASE Install
    <2>1. page # "over" /\ outcome.how = "running" /\ provider' = provider
      BY <1>5 DEF Install, ConfInv, wizData
    <2>2. CASE page' = "over" /\ \E h \in {"error", "killed", "ok"} : outcome' = Outcome(h, "none")
      BY <1>2, <2>2
    <2>3. CASE outcome' = outcome /\ page' = "anthropic"
      BY <1>1, <2>1, <2>3
    <2>4. CASE outcome' = outcome /\ page' = "done" /\ provider = "ollama"
      <3>1. provider' \notin Keyed
        BY <2>1, <2>4 DEF Keyed
      <3> QED  BY <2>1, <2>4, <3>1 DEF ConfInv
    <2>5. CASE outcome' = outcome /\ page' = "done" /\ provider \in Keyed /\ config' = WithKey(provider)
      <3>1. SetUp(provider)'
        <4>1. WithKey(provider) \in Configs /\ provider \in WithKey(provider).keys /\ WithKey(provider).default = provider
          BY <2>5, ConfigsGrow
        <4> QED  BY <1>0, <2>1, <2>5, <4>1 DEF SetUp
      <3> QED  BY <2>1, <2>5, <3>1 DEF ConfInv
    <2> QED  BY <1>5, <2>2, <2>3, <2>4, <2>5 DEF Install, InstallOllama, Configure, Goto, Ends, Killed
  <1>6. CASE HybridKey
    <2>1. page # "over" /\ outcome.how = "running"
      BY <1>6 DEF HybridKey, ConfInv
    <2>2. \/ outcome' = outcome /\ page' = "mode"
          \/ page' = "over" /\ \E h \in {"error", "killed", "ok"} : outcome' = Outcome(h, "none")
      BY <1>6 DEF HybridKey, Configure, Goto, Ends, Killed
    <2> QED  BY <1>1, <1>2, <2>1, <2>2
  <1>7. CASE HybridMode
    <2>1. page # "over" /\ outcome.how = "running" /\ provider' = provider /\ provider = Hybrid
      BY <1>7 DEF HybridMode, ConfInv, ProviderInv, wizData
    <2>2. \/ outcome' = outcome /\ page' = "clear"
          \/ page' = "over" /\ \E h \in {"error", "killed", "ok"} : outcome' = Outcome(h, "none")
      BY <1>7 DEF HybridMode, Goto, Ends, Killed
    <2>3. CASE outcome' = outcome /\ page' = "clear"
      BY <2>1, <2>3, HybridIsNotKeyed DEF ConfInv
    <2> QED  BY <1>2, <2>2, <2>3
  <1>8. CASE Succeed
    <2>1. page = "done" /\ outcome.how = "running" /\ provider' = provider /\ config' = config
      BY <1>8 DEF Succeed, ConfInv, wizData
    <2>2. \/ outcome' = outcome /\ page' = "clear"
          \/ page' = "over" /\ \E h \in {"error", "killed", "ok"} : outcome' = Outcome(h, "none")
      BY <1>8 DEF Succeed, SaveProgress, Goto, Ends, Killed
    <2>3. CASE outcome' = outcome /\ page' = "clear"
      BY <2>1, <2>3 DEF ConfInv, SetUp
    <2> QED  BY <1>2, <2>2, <2>3
  <1>9. CASE Finish
    <2>1. /\ page = "clear" /\ page' = "over" /\ config' = config /\ outcome'.how = "ok"
          /\ outcome'.configured = provider
      BY <1>9 DEF Finish, Outcome
    <2> QED  BY <2>1 DEF ConfInv, SetUp
  <1>10. CASE Kill
    BY <1>2, <1>10 DEF Kill, Killed, Ends
  <1>11. CASE RunAgain
    <2>1. page' = "start" /\ outcome' = Outcome("running", "none")
      BY <1>11 DEF RunAgain
    <2> QED  BY <1>1, <1>3, <2>1
  <1>12. ASSUME NEW m \in Modes, SetMode(m) PROVE ConfInv'
    <2>1. CASE Killed
      BY <1>2, <2>1 DEF Killed, Ends
    <2>2. CASE config' = [Existing EXCEPT !.mode = m] /\ UNCHANGED <<page, outcome>>
      <3>1. page = "over"
        BY <1>12 DEF SetMode
      <3>2. ASSUME NEW p \in Keyed, SetUp(p) PROVE SetUp(p)'
        <4>1. Existing = config /\ config \in Configs
          BY <3>2 DEF SetUp, Existing, WizTypes
        <4>2. config'.keys = config.keys /\ config'.default = config.default
          BY <2>2, <4>1 DEF Configs
        <4>3. config' \in Configs
          BY <2>2, ConfigsGrow
        <4> QED  BY <1>0, <3>2, <4>2, <4>3 DEF SetUp
      <3> QED  BY <2>2, <3>1, <3>2 DEF ConfInv
    <2> QED  BY <1>12, <2>1, <2>2 DEF SetMode
  <1> QED  BY <1>4, <1>5, <1>6, <1>7, <1>8, <1>9, <1>10, <1>11, <1>12 DEF WizardNext

\* Every step of the wizard keeps the invariant.
LEMMA WizGoesOn == ASSUME WizInv, WizardNext PROVE WizInv'
  BY TypesMove, ToldMoves, ProviderMoves, ConfMoves DEF WizInv

\* It says that the advice is honoured,
LEMMA WizAdvises == ASSUME WizInv PROVE AdviceIsHonoured
  BY DEF WizInv, ToldInv, ProviderInv, Installing, Conflicts, LastChoice, AdviceIsHonoured

\* and that what was configured is used.
LEMMA WizConfigures == ASSUME WizInv PROVE ConfiguredIsUsed
PROOF
  <1> SUFFICES ASSUME outcome.how = "ok", outcome.configured \in Keyed
               PROVE  /\ HasKey(outcome.configured, config, userEnv)
                      /\ \/ yaml = <<>>
                         \/ /\ outcome.configured = "anthropic" /\ config.mode # "local"
                            /\ \A i \in DOMAIN yaml : yaml[i] # "anthropic"
                         => ResolveModel(yaml, config) = outcome.configured
    BY DEF ConfiguredIsUsed
  <1> DEFINE p == outcome.configured
  <1>1. p \in config.keys /\ config.default = p
    BY DEF WizInv, ConfInv, SetUp
  <1>2. HasKey(p, config, userEnv)
    BY <1>1 DEF HasKey
  <1>3. \A a, b, c : /\ DOMAIN <<a>> = {1} /\ <<a>>[1] = a /\ Head(<<a>>) = a
                     /\ DOMAIN <<a, b>> = {1, 2} /\ <<a, b>>[1] = a /\ <<a, b>>[2] = b
    OBVIOUS
  <1>4. CASE yaml = <<>>
    <2>1. ListedModels(yaml) = <<"deepseek">>
      BY <1>4 DEF ListedModels
    <2>2. AddsAnthropic(<<"deepseek">>, config) <=> p = "anthropic"
      BY <1>1, <1>3 DEF AddsAnthropic
    <2>3. \A i \in DOMAIN LoadedModels(yaml, config) :
            LoadedModels(yaml, config)[i] \in {"deepseek", "anthropic"}
      <3> DEFINE one == <<"deepseek">>
                 both == Append(one, "anthropic")
      <3>1. one \in Seq({"deepseek", "anthropic"})
        OBVIOUS
      <3>2. both \in Seq({"deepseek", "anthropic"})
        BY <3>1, AppendProperties
      <3>3. LoadedModels(yaml, config) \in {one, both}
        BY <2>1 DEF LoadedModels
      <3> HIDE DEF one, both
      <3> QED  BY <3>1, <3>2, <3>3
    <2>4. DefaultModel(yaml, config) = p
      BY <1>3, <2>1, <2>2 DEF DefaultModel, Keyed
    <2>5. {i \in DOMAIN LoadedModels(yaml, config) :
             LoadedModels(yaml, config)[i] \in LocalProviders} = {}
      BY <1>3, <2>3 DEF LocalProviders
    <2> QED  BY <1>2, <2>4, <2>5 DEF ResolveModel
  <1>5. CASE /\ p = "anthropic" /\ config.mode # "local" /\ yaml # <<>>
             /\ \A i \in DOMAIN yaml : yaml[i] # "anthropic"
    <2>1. ListedModels(yaml) = yaml
      BY <1>5 DEF ListedModels
    <2>2. AddsAnthropic(yaml, config)
      BY <1>1, <1>5 DEF AddsAnthropic
    <2>3. DefaultModel(yaml, config) = p
      BY <1>5, <2>1, <2>2 DEF DefaultModel
    <2> QED  BY <1>2, <1>5, <2>3 DEF ResolveModel
  <1> QED  BY <1>2, <1>4, <1>5

-----------------------------------------------------------------------------
\* A process that starts sessions finds the registry as the invariant has it.
LEMMA HostBegins == Init => HostInv
PROOF
  <1> SUFFICES ASSUME Init PROVE HostInv
    OBVIOUS
  <1>1. RegistryInit
    BY DEF Init
  <1>2. /\ index = <<>> \/ \E p \in Starters : index = <<p>>
        /\ NoSession \/ \E procs \in SUBSET Starters : Begin(procs)
    BY CommandsAssumption DEF Init, NoHost, NoSession, SomeHost
  <1>3. index \in Seq(Starters) /\ Unique(index)
    <2>1. CASE index = <<>>
      BY <2>1 DEF Unique
    <2>2. ASSUME NEW p \in Starters, index = <<p>> PROVE index \in Seq(Starters) /\ Unique(index)
      <3>1. <<p>> \in Seq(Starters) /\ DOMAIN <<p>> = {1}
        OBVIOUS
      <3> QED  BY <2>2, <3>1 DEF Unique
    <2> QED  BY <1>2, <2>1, <2>2
  <1>4. at \in [Starters -> {"off", "begin"}]
    BY <1>2 DEF NoSession, Begin
  <1> QED  BY <1>1, <1>3, <1>4, HostStarts

\* The invariant of team demo holds throughout.
LEMMA DemoHolds == Spec => []DemoInv
PROOF
  <1>1. Init => DemoInv
    BY DemoStarts DEF Init
  <1>2. ASSUME DemoInv, [Next]_vars PROVE DemoInv'
    <2>1. DemoNext \/ UNCHANGED demoVars
      BY <1>2 DEF Next, vars, notStream, notSkill, notMoa, notTalk, notSetup, notHost
    <2> QED  BY <1>2, <2>1, DemoGoesOn, DemoRests
  <1> QED  BY <1>1, <1>2, PTL DEF Spec

\* And that of the commands that ask a model.
LEMMA AnswerHolds == Spec => []AnswerInv
  BY AnswerStarts, AnswerGoesOn, PTL DEF Spec

\* And those of the registry and of the dashboard, which reads it.
LEMMA HostHolds == Spec => [](HostInv /\ ViewInv)
PROOF
  <1>1. Init => HostInv /\ ViewInv
    BY HostBegins, ViewStarts DEF Init
  <1>2. ASSUME HostInv, ViewInv, [Next]_vars PROVE HostInv' /\ ViewInv'
    <2>1. RegistryNext \/ UNCHANGED registryVars
      BY <1>2 DEF Next, vars, hostVars, notStream, notSkill, notMoa, notTalk, notSetup, notDemo
    <2>2. DashNext \/ UNCHANGED dashVars
      BY <1>2 DEF Next, vars, hostVars, notStream, notSkill, notMoa, notTalk, notSetup, notDemo
    <2>3. index \in Seq(Starters)
      BY <1>2 DEF HostInv, IndexInv
    <2> QED  BY <1>2, <2>1, <2>2, <2>3, HostGoesOn, HostRests, ViewGoesOn, ViewRests
  <1>3. HostInv /\ ViewInv /\ [Next]_vars => HostInv' /\ ViewInv'
    BY <1>2
  <1> QED  BY <1>1, <1>3, PTL DEF Spec

\* And that of the wizard.
LEMMA WizHolds == Spec => []WizInv
PROOF
  <1>1. Init => WizInv
    <2> SUFFICES ASSUME Init PROVE WizInv
      OBVIOUS
    <2>1. WizardInit /\ page \in {"none", "start"}
      BY DEF Init, NoSetup
    <2> QED  BY <2>1, WizStarts
  <1>2. WizInv /\ [Next]_vars => WizInv'
    <2> SUFFICES ASSUME WizInv, [Next]_vars PROVE WizInv'
      OBVIOUS
    <2>1. WizardNext \/ UNCHANGED wizardVars
      BY DEF Next, vars, notStream, notSkill, notMoa, notTalk, notDemo, notHost
    <2> QED  BY <2>1, WizGoesOn, WizWaits
  <1> QED  BY <1>1, <1>2, PTL DEF Spec

-----------------------------------------------------------------------------
\* "team demo" reports what happened, for every capacity of its pipes and any
\* number of pings: the acks it has are those of its first pings, in order; a
\* success means that all were sent and answered, and a failure that the worker
\* did not start, was interrupted or died (runTeamDemo).
THEOREM DemoIsHonestHolds == Spec => []DemoIsHonest
  BY DemoHolds, DemoSays, PTL

\* No model hears of a skill of which a blocking hook before it has not passed,
\* whatever the lists of hooks and the depth of the recursion (Engine.Run,
\* Manager.Fire).
THEOREM HooksGateModelHolds == Spec => []HooksGateModel
PROOF
  <1>1. AnswerInv => HooksGateModel
    BY DEF AnswerInv, SkillInv, HookInv, HooksGateModel, AskedModel
  <1> QED  BY <1>1, AnswerHolds, PTL

\* A command writes what the model sent, in order and without a gap, and one
\* that succeeds has all of it, for every capacity of the channel and wherever
\* the goroutine of the stream is (postSSE, RealRunner.Run, Dispatch, runREPL).
THEOREM OutputIsTheAnswerHolds == Spec => []OutputIsTheAnswer
  BY AnswerHolds, AnswerSays, PTL

\* After the parallel phase of a mixture every model is accounted for, and the
\* synthesis has two thirds of the requests answered, for any list of models
\* with repetitions (Dispatcher.MoA).
THEOREM AllModelsCountHolds == Spec => []AllModelsCount
PROOF
  <1>1. AnswerInv => AllModelsCount
    BY MoaCounts DEF AnswerInv
  <1> QED  BY <1>1, AnswerHolds, PTL

\* The history of the interactive loop is a dialogue, for any number of
\* exchanges, refusals and interrupts (runREPL).
THEOREM HistoryIsTheDialogueHolds == Spec => []HistoryIsTheDialogue
PROOF
  <1>1. AnswerInv => HistoryIsTheDialogue
    BY TalkSays DEF AnswerInv
  <1> QED  BY <1>1, AnswerHolds, PTL

\* Any number of processes that start sessions at once, fail and die lose no
\* descriptor and double no id, and what a watcher announced last is what its
\* owner hears last, for every capacity of its channel (StartSession, Watch).
THEOREM RegistryKeepsHolds == Spec => []RegistryKeeps
PROOF
  <1>1. HostInv => RegistryKeeps
    BY HostSays
  <1> QED  BY <1>1, HostHolds, PTL

\* No view of the dashboard cuts outside of what it holds, on any terminal of
\* more than three columns and rows and for lists of any length (Model.View).
THEOREM RendersInBoundsHolds == Spec => []RendersInBounds
PROOF
  <1>1. ViewInv => RendersInBounds
    BY ViewSays
  <1> QED  BY <1>1, HostHolds, PTL

\* Over crashes, resumes and restarts the wizard installs what its user asked
\* for: no yes of an earlier round, a local provider for sensitive data or a
\* user without a connection, or the last choice of a conflict, for any files
\* and environments (runWizard, RankProviders, DetectConflicts).
THEOREM AdviceIsHonouredHolds == Spec => []AdviceIsHonoured
PROOF
  <1>1. WizInv => AdviceIsHonoured
    BY WizAdvises
  <1> QED  BY <1>1, WizHolds, PTL

\* A setup of a cloud provider that says it succeeded leaves a key that every
\* later command has, whatever modes are set, and a default that a chat resolves
\* to without a config.yaml or, for anthropic and unless the mode is local, with
\* any that has no model of it (ConfigureDeepSeek, ConfigureAnthropic, LoadConfig).
THEOREM ConfiguredIsUsedHolds == Spec => []ConfiguredIsUsed
PROOF
  <1>1. WizInv => ConfiguredIsUsed
    BY WizConfigures
  <1> QED  BY <1>1, WizHolds, PTL
=============================================================================
