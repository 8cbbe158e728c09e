--------------------------- MODULE TeamMailProofs ---------------------------
(***************************************************************************)
(* What holds of a team's mailboxes for every number of workers, threads,  *)
(* channels and messages, and every capacity and threshold.                *)
(*                                                                         *)
(* The inductive invariant IInv joins the map of mailboxes (MailInv), what *)
(* a call in flight holds of it (CallInv, LateInv), what a reader holds    *)
(* (ReadInv), and the order in which Close stops the detector and closes   *)
(* the mailboxes (DetInv). The argument rests on one fact about every      *)
(* step: a channel that is mapped or closed stays mapped or closed.        *)
(***************************************************************************)
EXTENDS TeamMail, TLAPS

\* Only made channels are mapped, none of them is closed, and no two workers
\* have the same one.
MailInv ==
  /\ \A w \in Workers : box[w] \in 0..made
  /\ Mapped \cap closed = {}
  /\ \A v, w \in Workers : box[v] = box[w] /\ box[v] # 0 => v = w

\* A call past the lookup has a channel that is mapped, or that a Close it
\* overlaps has closed; one past Append has journaled its envelope.
CallInv ==
  \A t \in Threads :
    /\ pc[t] = "create" => to[t] \in Workers
    /\ pc[t] \in {"check", "append", "push"} => ref[t] \in Mapped \cup closed
    /\ pc[t] = "push" => msg[t] \in journaled

\* No mailbox is closed any more once a call has begun late.
LateInv ==
  \A t \in Threads : late[t] =>
    /\ cpc \in {"journal", "closed"}
    /\ ref[t] # 0 => ref[t] \notin closed

\* A worker reads the channel its mailbox is, unless that has been closed.
ReadInv ==
  \A w \in Workers : reader[w] # "none" =>
    /\ inbox[w] \in Chans
    /\ inbox[w] = box[w] \/ inbox[w] \in closed

\* Close reaches the mailboxes only after the detector has ended or has kept
\* it waiting for too long.
DetInv ==
  /\ cpc \in {"mailboxes", "journal", "closed"} => timedOut \/ dpc = "gone"
  /\ dpc = "broadcast" /\ dtodo \cap closed # {} => timedOut

IInv ==
  /\ TypeOK /\ MailInv /\ CallInv /\ LateInv /\ ReadInv /\ DetInv
  /\ JournaledFirst /\ AcceptedIsReachable

-----------------------------------------------------------------------------
(* Lemmas about the mailboxes.                                             *)

\* The bounds are numbers.
LEMMA Bounds ==
  Cap \in Nat /\ Cap > 0 /\ Threshold \in Nat /\ MaxSeq \in Nat /\ MaxChans \in Nat
  BY BoundsAssumption

\* A mapped or closed channel is one that was made.
LEMMA KnownChannels ==
  ASSUME TypeOK
  PROVE  Mapped \cup closed \subseteq Chans
<1>1. Mapped \subseteq Chans
  BY DEF Mapped, TypeOK
<1>2. closed \subseteq Chans
  BY Bounds DEF TypeOK, Chans
<1> QED
  BY <1>1, <1>2

\* Made under the lock for a worker without one, or found: the worker has a
\* mailbox then, nobody's mailbox is lost, and the new one is not closed.
LEMMA MailboxFound ==
  ASSUME TypeOK, MailInv, NEW w \in Workers, UNCHANGED closed,
         (box[w] = 0 /\ MakeBox(w)) \/ (box[w] # 0 /\ UNCHANGED <<box, made>>)
  PROVE  /\ box' \in [Workers -> Chans \cup {0}] /\ made' \in 0..MaxChans
         /\ closed' \subseteq 1..made'
         /\ MailInv'
         /\ Mapped \subseteq Mapped'
         /\ box'[w] \in Mapped' /\ box'[w] \in Chans /\ box'[w] \notin closed
         /\ \A v \in Workers : box[v] # 0 => box'[v] = box[v]
<1>1. CASE box[w] # 0 /\ UNCHANGED <<box, made>>
  BY <1>1 DEF TypeOK, MailInv, Mapped
<1>2. CASE box[w] = 0 /\ MakeBox(w)
  <2>1. /\ box' = [box EXCEPT ![w] = made + 1] /\ made' = made + 1
        /\ made < MaxChans /\ made \in Nat /\ made + 1 \in Chans
    BY <1>2, Bounds DEF MakeBox, TypeOK, Chans
  <2>2. /\ box' \in [Workers -> Chans \cup {0}] /\ made' \in 0..MaxChans
        /\ closed' \subseteq 1..made' /\ made + 1 \notin closed
    BY <2>1, Bounds DEF TypeOK
  <2>3. /\ box'[w] = made + 1
        /\ \A v \in Workers \ {w} : box'[v] = box[v]
    BY <2>1 DEF TypeOK
  <2>4. Mapped' = Mapped \cup {made + 1}
    BY <1>2, <2>1, <2>3 DEF Mapped
  <2>5. MailInv'
    <3>1. \A v \in Workers : box'[v] \in 0..made'
      BY <2>1, <2>3 DEF MailInv
    <3>2. Mapped' \cap closed' = {}
      BY <2>2, <2>4 DEF MailInv
    <3>3. \A v, u \in Workers : box'[v] = box'[u] /\ box'[v] # 0 => v = u
      BY <2>1, <2>3 DEF MailInv
    <3> QED
      BY <3>1, <3>2, <3>3 DEF MailInv
  <2> QED
    BY <1>2, <2>1, <2>2, <2>3, <2>4, <2>5
<1> QED
  BY <1>1, <1>2

\* An accepted message stays where it can be found while the mailboxes are
\* only added to or closed.
LEMMA StillReachable ==
  ASSUME AcceptedIsReachable, UNCHANGED <<buffer, accepted, received>>,
         Mapped \cup closed \subseteq Mapped' \cup closed'
  PROVE  AcceptedIsReachable'
  BY DEF AcceptedIsReachable

\* A push into a channel with room loses nothing and stays within its capacity.
LEMMA PushOne ==
  ASSUME TypeOK, NEW c \in Chans, NEW m \in Seqs, HasRoom(c),
         buffer' = [buffer EXCEPT ![c] = Append(@, m)]
  PROVE  /\ buffer' \in [Chans -> Seq(Seqs)] /\ \A d \in Chans : Len(buffer'[d]) <= Cap
         /\ \A d \in Chans : \A i \in DOMAIN buffer[d] :
              i \in DOMAIN buffer'[d] /\ buffer'[d][i] = buffer[d][i]
         /\ \E i \in DOMAIN buffer'[c] : buffer'[c][i] = m
<1>1. /\ buffer[c] \in Seq(Seqs) /\ Len(buffer[c]) < Cap
      /\ buffer'[c] = Append(buffer[c], m)
      /\ \A d \in Chans \ {c} : buffer'[d] = buffer[d]
  BY DEF TypeOK, HasRoom
<1>2. /\ Append(buffer[c], m) \in Seq(Seqs)
      /\ Len(Append(buffer[c], m)) = Len(buffer[c]) + 1
      /\ Append(buffer[c], m)[Len(buffer[c]) + 1] = m
      /\ \A i \in 1..Len(buffer[c]) : Append(buffer[c], m)[i] = buffer[c][i]
  BY <1>1
<1>3. buffer' \in [Chans -> Seq(Seqs)]
  BY <1>1, <1>2 DEF TypeOK
<1>4. \A d \in Chans : Len(buffer'[d]) <= Cap
  BY <1>1, <1>2, Bounds DEF TypeOK
<1>5. \A d \in Chans : \A i \in DOMAIN buffer[d] :
        i \in DOMAIN buffer'[d] /\ buffer'[d][i] = buffer[d][i]
  BY <1>1, <1>2
<1>6. \E i \in DOMAIN buffer'[c] : buffer'[c][i] = m
  BY <1>1, <1>2
<1> QED
  BY <1>3, <1>4, <1>5, <1>6

\* So every accepted message can still be found after a push, and so can the
\* one pushed if the channel is mapped or closed.
LEMMA ReachableAfterPush ==
  ASSUME TypeOK, AcceptedIsReachable, NEW c \in Chans, NEW m \in Seqs, HasRoom(c),
         buffer' = [buffer EXCEPT ![c] = Append(@, m)],
         UNCHANGED <<box, closed, received>>,
         \/ UNCHANGED accepted
         \/ accepted' = accepted \cup {m} /\ c \in Mapped \cup closed
  PROVE  AcceptedIsReachable'
<1>1. Mapped \cup closed \subseteq Chans /\ Mapped' \cup closed' = Mapped \cup closed
  BY KnownChannels DEF Mapped
<1>2. \E i \in DOMAIN buffer'[c] : buffer'[c][i] = m
  BY PushOne
<1>3. ASSUME NEW x \in accepted'
      PROVE  x \in received' \/ \E d \in Mapped' \cup closed' :
                                  \E i \in DOMAIN buffer'[d] : buffer'[d][i] = x
  <2>1. CASE x \in accepted
    BY <1>1, <2>1, PushOne DEF AcceptedIsReachable
  <2>2. CASE x = m /\ c \in Mapped \cup closed
    <3>1. c \in Mapped' \cup closed'
      BY <1>1, <2>2
    <3>2. \E i \in DOMAIN buffer'[c] : buffer'[c][i] = x
      BY <1>2, <2>2
    <3> QED
      BY <3>1, <3>2
  <2> QED
    BY <1>3, <2>1, <2>2
<1> QED
  BY <1>3, PushOne DEF AcceptedIsReachable

\* A read moves the oldest message of a channel to the received ones.
LEMMA ReachableAfterRead ==
  ASSUME TypeOK, AcceptedIsReachable, NEW c \in Chans, buffer[c] # <<>>,
         buffer' = [buffer EXCEPT ![c] = Tail(@)],
         received' = received \cup {Head(buffer[c])},
         UNCHANGED <<box, closed, accepted>>
  PROVE  /\ buffer' \in [Chans -> Seq(Seqs)] /\ received' \subseteq Seqs
         /\ \A d \in Chans : Len(buffer'[d]) <= Cap
         /\ AcceptedIsReachable'
<1>1. /\ buffer[c] \in Seq(Seqs) /\ buffer'[c] = Tail(buffer[c])
      /\ \A d \in Chans \ {c} : buffer'[d] = buffer[d]
  BY DEF TypeOK
<1>2. /\ Tail(buffer[c]) \in Seq(Seqs) /\ Head(buffer[c]) \in Seqs
      /\ Len(Tail(buffer[c])) = Len(buffer[c]) - 1
      /\ \A i \in 2..Len(buffer[c]) : i - 1 \in 1..Len(Tail(buffer[c]))
                                     /\ Tail(buffer[c])[i - 1] = buffer[c][i]
      /\ Head(buffer[c]) = buffer[c][1]
  BY <1>1
<1>3. /\ buffer' \in [Chans -> Seq(Seqs)] /\ received' \subseteq Seqs
  BY <1>1, <1>2 DEF TypeOK
<1>4. \A d \in Chans : Len(buffer'[d]) <= Cap
  BY <1>1, <1>2, Bounds DEF TypeOK
<1>5. Mapped \cup closed \subseteq Chans /\ Mapped' \cup closed' = Mapped \cup closed
  BY KnownChannels DEF Mapped
<1>6. ASSUME NEW x \in accepted'
      PROVE  x \in received' \/ \E d \in Mapped' \cup closed' :
                                  \E i \in DOMAIN buffer'[d] : buffer'[d][i] = x
  <2>1. CASE x \in received
    BY <2>1
  <2>2. ASSUME NEW d \in Mapped \cup closed, NEW i \in DOMAIN buffer[d], buffer[d][i] = x
        PROVE  x \in received' \/ \E j \in DOMAIN buffer'[d] : buffer'[d][j] = x
    <3>1. CASE d # c
      BY <1>1, <1>5, <2>2, <3>1
    <3>2. CASE d = c /\ i = 1
      BY <1>2, <2>2, <3>2
    <3>3. CASE d = c /\ i # 1
      <4>1. i \in 2..Len(buffer[c])
        BY <1>1, <2>2, <3>3
      <4>2. DOMAIN Tail(buffer[c]) = 1..Len(Tail(buffer[c])) /\ buffer'[d] = Tail(buffer[c])
        <5>1. DOMAIN Tail(buffer[c]) = 1..Len(Tail(buffer[c]))
          BY <1>2
        <5> QED
          BY <1>1, <3>3, <5>1
      <4>3. i - 1 \in DOMAIN buffer'[d] /\ buffer'[d][i - 1] = x
        BY <1>2, <2>2, <3>3, <4>1, <4>2
      <4> QED
        BY <4>3
    <3> QED
      BY <3>1, <3>2, <3>3
  <2> QED
    BY <1>5, <2>1, <2>2 DEF AcceptedIsReachable
<1> QED
  BY <1>3, <1>4, <1>6 DEF AcceptedIsReachable

-----------------------------------------------------------------------------
\* TeamCreate has made no mailbox; Open has made one for each of some workers.
LEMMA InitIInv == Init => IInv
<1> SUFFICES ASSUME Init PROVE IInv
  OBVIOUS
<1>1. /\ made \in 0..MaxChans /\ box \in [Workers -> 0..made] /\ idle \in 0..Threshold + 1
      /\ \A v, w \in Workers : box[v] = box[w] /\ box[v] # 0 => v = w
  <2>1. CASE Created
    BY <2>1, Bounds DEF Created
  <2>2. CASE Opened
    <3>1. \A v, w \in Workers : box[v] = box[w] /\ box[v] # 0 => v = w
      <4> SUFFICES ASSUME NEW v \in Workers, NEW w \in Workers, box[v] = box[w], box[v] # 0
                   PROVE  v = w
        OBVIOUS
      <4>1. box[v] \in 1..made
        BY <2>2, Bounds DEF Opened
      <4>2. PICK u \in Workers : {x \in Workers : box[x] = box[v]} = {u}
        BY <2>2, <4>1 DEF Opened
      <4> QED
        BY <4>2
    <3> QED
      BY <2>2, <3>1 DEF Opened, ArmFromJournal
  <2> QED
    BY <2>1, <2>2 DEF Init
<1>2. TypeOK
  <2>1. box \in [Workers -> Chans \cup {0}]
    BY <1>1, Bounds DEF Chans
  <2>2. /\ buffer \in [Chans -> Seq(Seqs)] /\ \A c \in Chans : Len(buffer[c]) <= Cap
    <3>1. <<>> \in Seq(Seqs) /\ Len(<<>>) = 0
      OBVIOUS
    <3> QED
      BY <3>1, Bounds DEF Init
  <2>3. seq \in 0..MaxSeq + 1 /\ 0 \in Seqs
    BY Bounds DEF Init, Seqs
  <2> QED
    BY <1>1, <2>1, <2>2, <2>3 DEF Init, TypeOK
<1>3. MailInv
  BY <1>1 DEF Init, MailInv
<1>4. CallInv /\ LateInv /\ ReadInv /\ DetInv /\ JournaledFirst
  BY DEF Init, CallInv, LateInv, ReadInv, DetInv, JournaledFirst
<1>5. AcceptedIsReachable
  BY <1>2 DEF Init, AcceptedIsReachable, TypeOK
<1> QED
  BY <1>2, <1>3, <1>4, <1>5 DEF IInv

-----------------------------------------------------------------------------
(* The steps of SendMessage.                                               *)

\* A call begins with the channel that the map has for its worker, or none.
LEMMA SendBeginStep ==
  ASSUME IInv, NEW t \in Threads, NEW w \in Workers, SendBegin(t, w)
  PROVE  IInv'
<1> USE DEF mailVars, logVars, readVars, closeVars
<1>1. /\ box[w] \in Chans \cup {0}
      /\ box[w] # 0 => box[w] \in Mapped /\ box[w] \notin closed
  BY DEF IInv, TypeOK, MailInv, Mapped
<1>2. TypeOK'
  <2>1. /\ pc' \in [Threads -> {"idle", "create", "check", "append", "push",
                              "announce", "broadcast", "gone"}]
        /\ to' \in [Threads -> Workers \cup {None}] /\ ref' \in [Threads -> Chans \cup {0}]
        /\ late' \in [Threads -> BOOLEAN]
    BY <1>1 DEF IInv, TypeOK, SendBegin, Goto
  <2>2. /\ idle' \in 0..Threshold + 1 /\ stalled' \in BOOLEAN /\ reported' \in BOOLEAN
        /\ overtaken' \in BOOLEAN
    <3>1. idle' = 0 /\ stalled' = FALSE /\ reported' = FALSE /\ overtaken' \in BOOLEAN
      BY DEF SendBegin, RecordProgress
    <3>2. idle' \in 0..Threshold + 1
      BY <3>1, Bounds
    <3> QED
      BY <3>1, <3>2
  <2> QED
    BY <2>1, <2>2 DEF IInv, TypeOK, SendBegin
<1>3. MailInv' /\ ReadInv' /\ DetInv' /\ JournaledFirst' /\ Mapped' = Mapped
  BY DEF IInv, MailInv, Mapped, ReadInv, DetInv, JournaledFirst, SendBegin, RecordProgress
<1>4. CallInv'
  BY <1>1, <1>3 DEF IInv, TypeOK, CallInv, SendBegin, Goto
<1>5. LateInv'
  BY <1>1 DEF IInv, TypeOK, LateInv, SendBegin
<1>6. AcceptedIsReachable'
  BY <1>3, StillReachable DEF IInv, SendBegin
<1> QED
  BY <1>2, <1>3, <1>4, <1>5, <1>6 DEF IInv

\* A channel that is made is mapped, and not closed.
LEMMA CreateStep ==
  ASSUME IInv, NEW t \in Threads, Create(t)
  PROVE  IInv'
<1> USE DEF logVars, readVars, detVars, closeVars
<1>1. to[t] \in Workers
  BY DEF IInv, CallInv, Create
<1>2. /\ box' \in [Workers -> Chans \cup {0}] /\ made' \in 0..MaxChans
      /\ closed' \subseteq 1..made'
      /\ MailInv'
      /\ Mapped \subseteq Mapped'
      /\ box'[to[t]] \in Mapped' /\ box'[to[t]] \in Chans /\ box'[to[t]] \notin closed
      /\ \A v \in Workers : box[v] # 0 => box'[v] = box[v]
  BY <1>1, MailboxFound DEF IInv, Create
<1>3. TypeOK'
  BY <1>2 DEF IInv, TypeOK, Create, Goto
<1>4. CallInv'
  BY <1>2 DEF IInv, TypeOK, CallInv, Create, Goto
<1>5. LateInv' /\ DetInv' /\ JournaledFirst'
  BY <1>2 DEF IInv, TypeOK, LateInv, DetInv, JournaledFirst, Create
<1>6. ReadInv'
  BY <1>2, Bounds DEF IInv, ReadInv, Create, Chans
<1>7. AcceptedIsReachable'
  BY <1>2, StillReachable DEF IInv, Create
<1> QED
  BY <1>2, <1>3, <1>4, <1>5, <1>6, <1>7 DEF IInv

\* A call draws a number when its channel has room, or returns.
LEMMA CheckStep ==
  ASSUME IInv, NEW t \in Threads, Check(t)
  PROVE  IInv'
<1> USE DEF mailVars, readVars, detVars, closeVars
<1>1. TypeOK'
  <2>1. /\ pc' \in [Threads -> {"idle", "create", "check", "append", "push",
                              "announce", "broadcast", "gone"}]
        /\ to' \in [Threads -> Workers \cup {None}] /\ ref' \in [Threads -> Chans \cup {0}]
        /\ late' \in [Threads -> BOOLEAN]
    BY DEF IInv, TypeOK, Check, Return, Forget, Goto
  <2>2. msg' \in [Threads -> Seqs] /\ seq' \in 0..MaxSeq + 1
    <3>1. /\ 0 \in Seqs
          /\ seq < MaxSeq => seq \in Seqs /\ seq + 1 \in 0..MaxSeq + 1
      BY Bounds DEF IInv, TypeOK, Seqs
    <3>2. msg' \in [Threads -> Seqs]
      BY <3>1 DEF IInv, TypeOK, Check, Return, Forget
    <3>3. seq' \in 0..MaxSeq + 1
      BY <3>1 DEF IInv, TypeOK, Check
    <3> QED
      BY <3>2, <3>3
  <2> QED
    BY <2>1, <2>2 DEF IInv, TypeOK, Check
<1>2. MailInv' /\ ReadInv' /\ DetInv' /\ JournaledFirst' /\ Mapped' = Mapped
  BY DEF IInv, MailInv, Mapped, ReadInv, DetInv, JournaledFirst, Check
<1>3. CallInv'
  BY <1>2 DEF IInv, TypeOK, CallInv, Check, Return, Forget, Goto
<1>4. LateInv'
  BY DEF IInv, TypeOK, LateInv, Check, Return, Forget
<1>5. AcceptedIsReachable'
  BY <1>2, StillReachable DEF IInv, Check
<1> QED
  BY <1>1, <1>2, <1>3, <1>4, <1>5 DEF IInv

\* A message is journaled under a number of its own before it is pushed.
LEMMA JournalMessageStep ==
  ASSUME IInv, NEW t \in Threads, JournalMessage(t)
  PROVE  IInv'
<1> USE DEF mailVars, readVars, detVars, closeVars
<1>1. TypeOK'
  <2>1. /\ pc' \in [Threads -> {"idle", "create", "check", "append", "push",
                              "announce", "broadcast", "gone"}]
        /\ to' \in [Threads -> Workers \cup {None}] /\ ref' \in [Threads -> Chans \cup {0}]
        /\ late' \in [Threads -> BOOLEAN]
    BY DEF IInv, TypeOK, JournalMessage, Return, Forget, Goto
  <2>2. msg' \in [Threads -> Seqs] /\ journaled' \subseteq Seqs
    <3>1. 0 \in Seqs
      BY Bounds DEF Seqs
    <3> QED
      BY <3>1 DEF IInv, TypeOK, JournalMessage, Return, Forget
  <2> QED
    BY <2>1, <2>2 DEF IInv, TypeOK, JournalMessage
<1>2. MailInv' /\ ReadInv' /\ DetInv' /\ JournaledFirst' /\ Mapped' = Mapped
  BY DEF IInv, MailInv, Mapped, ReadInv, DetInv, JournaledFirst, JournalMessage
<1>3. CallInv'
  BY <1>2 DEF IInv, TypeOK, CallInv, JournalMessage, Return, Forget, Goto
<1>4. LateInv'
  BY DEF IInv, TypeOK, LateInv, JournalMessage, Return, Forget
<1>5. AcceptedIsReachable'
  BY <1>2, StillReachable DEF IInv, JournalMessage
<1> QED
  BY <1>1, <1>2, <1>3, <1>4, <1>5 DEF IInv

\* A push that succeeds leaves its message in a channel that was mapped or
\* is closed.
LEMMA PushStep ==
  ASSUME IInv, NEW t \in Threads, Push(t)
  PROVE  IInv'
<1> USE DEF logVars, readVars, closeVars
<1>1. /\ pc[t] = "push" /\ ref[t] \in Mapped \cup closed /\ ref[t] \in Chans
      /\ msg[t] \in journaled /\ msg[t] \in Seqs
  BY KnownChannels DEF IInv, TypeOK, CallInv, Push
<1>2. /\ UNCHANGED <<box, made, closed, seq, journaled, file, todo, inbox, reader, received,
                     done, dpc, dmsg, dtodo, cpc, timedOut>>
      /\ \/ Goto(t, "idle") \/ Goto(t, "announce") \/ Goto(t, "gone")
      /\ Forget(t)
      /\ idle' \in {idle, 0} /\ stalled' \in BOOLEAN /\ reported' \in BOOLEAN
      /\ overtaken' \in BOOLEAN
      /\ dead' \in BOOLEAN
  BY DEF IInv, TypeOK, Push, SendPanics, Recovered, RecordProgress, Return
<1>3. \/ UNCHANGED <<buffer, accepted>>
      \/ /\ HasRoom(ref[t]) /\ ref[t] \notin closed
         /\ buffer' = [buffer EXCEPT ![ref[t]] = Append(@, msg[t])]
         /\ accepted' = accepted \cup {msg[t]}
  BY DEF Push
<1>4. /\ buffer' \in [Chans -> Seq(Seqs)] /\ \A c \in Chans : Len(buffer'[c]) <= Cap
      /\ accepted' \subseteq Seqs
  BY <1>1, <1>3, PushOne DEF IInv, TypeOK
<1>5. TypeOK'
  BY <1>2, <1>4, Bounds DEF IInv, TypeOK, Goto, Forget, Seqs
<1>6. MailInv' /\ ReadInv' /\ DetInv' /\ JournaledFirst' /\ Mapped' = Mapped
  BY <1>1, <1>2, <1>3 DEF IInv, MailInv, Mapped, ReadInv, DetInv, JournaledFirst
<1>7. CallInv'
  BY <1>2, <1>6 DEF IInv, TypeOK, CallInv, Forget, Goto
<1>8. LateInv'
  BY <1>2 DEF IInv, TypeOK, LateInv, Forget
<1>9. AcceptedIsReachable'
  <2>1. CASE UNCHANGED <<buffer, accepted>>
    BY <1>2, <1>6, <2>1, StillReachable DEF IInv
  <2>2. CASE HasRoom(ref[t]) /\ buffer' = [buffer EXCEPT ![ref[t]] = Append(@, msg[t])]
               /\ accepted' = accepted \cup {msg[t]}
    BY <1>1, <1>2, <2>2, ReachableAfterPush DEF IInv
  <2> QED
    BY <1>3, <2>1, <2>2
<1> QED
  BY <1>5, <1>6, <1>7, <1>8, <1>9 DEF IInv

-----------------------------------------------------------------------------
(* The steps of RunWorker, and TaskUpdate's progress.                      *)

\* A panic in a worker keeps nothing of a call.
LEMMA FnPanicsStep ==
  ASSUME IInv, NEW t \in Threads, FnPanics(t)
  PROVE  IInv'
<1> USE DEF mailVars, logVars, readVars, closeVars
<1>1. /\ idle' = 0 /\ reported' = FALSE /\ stalled' = FALSE /\ overtaken' \in BOOLEAN
      /\ pc' = [pc EXCEPT ![t] = "announce"]
      /\ to' = [to EXCEPT ![t] = None] /\ ref' = [ref EXCEPT ![t] = 0]
      /\ msg' = [msg EXCEPT ![t] = 0] /\ late' = [late EXCEPT ![t] = FALSE]
      /\ UNCHANGED <<box, made, buffer, closed, seq, journaled, file, todo, accepted, inbox,
                     reader, received, done, dpc, dmsg, dtodo, cpc, timedOut, dead>>
  BY DEF FnPanics, Recovered, RecordProgress, Goto, Forget
<1>2. TypeOK'
  <2>1. 0 \in Seqs /\ 0 \in 0..Threshold + 1
    BY Bounds DEF Seqs
  <2> QED
    BY <1>1, <2>1 DEF IInv, TypeOK
<1>3. MailInv' /\ ReadInv' /\ DetInv' /\ JournaledFirst' /\ Mapped' = Mapped
  BY <1>1 DEF IInv, MailInv, Mapped, ReadInv, DetInv, JournaledFirst
<1>4. CallInv' /\ LateInv'
  BY <1>1, <1>3 DEF IInv, TypeOK, CallInv, LateInv
<1>5. AcceptedIsReachable'
  BY <1>1, <1>3, StillReachable DEF IInv
<1> QED
  BY <1>2, <1>3, <1>4, <1>5 DEF IInv

\* A worker that panicked journals its event, if it can, and copies the
\* mapped channels,
LEMMA AnnounceStep ==
  ASSUME IInv, NEW t \in Threads, Announce(t)
  PROVE  IInv'
<1> USE DEF mailVars, readVars, detVars, closeVars
<1>1. /\ seq \in Seqs /\ seq + 1 \in 0..MaxSeq + 1
      /\ {box[w] : w \in Workers \ {Runs[t]}} \ {0} \subseteq Chans
  BY Bounds DEF IInv, TypeOK, Announce, Seqs
<1>2. TypeOK'
  <2>1. /\ msg' \in [Threads -> Seqs] /\ seq' \in 0..MaxSeq + 1
        /\ todo' \in [Threads -> SUBSET Chans]
    BY <1>1 DEF IInv, TypeOK, Announce
  <2>2. journaled' \subseteq Seqs
    BY <1>1 DEF IInv, TypeOK, Announce
  <2>3. pc' \in [Threads -> {"idle", "create", "check", "append", "push",
                             "announce", "broadcast", "gone"}]
    BY DEF IInv, TypeOK, Announce, Goto
  <2> QED
    BY <2>1, <2>2, <2>3 DEF IInv, TypeOK, Announce
<1>3. MailInv' /\ ReadInv' /\ DetInv' /\ JournaledFirst' /\ LateInv' /\ Mapped' = Mapped
  BY DEF IInv, MailInv, Mapped, ReadInv, DetInv, JournaledFirst, LateInv, Announce
<1>4. CallInv'
  <2>1. \A u \in Threads : pc'[u] \in {"create", "check", "append", "push"} =>
          pc'[u] = pc[u] /\ msg'[u] = msg[u]
    BY DEF IInv, TypeOK, Announce, Goto
  <2>2. journaled \subseteq journaled' /\ UNCHANGED <<to, ref, closed>>
    BY DEF Announce
  <2> QED
    BY <1>3, <2>1, <2>2 DEF IInv, CallInv
<1>5. AcceptedIsReachable'
  BY <1>3, StillReachable DEF IInv, Announce
<1> QED
  BY <1>2, <1>3, <1>4, <1>5 DEF IInv

\* and passes the event to one of them.
LEMMA BroadcastStep ==
  ASSUME IInv, NEW t \in Threads, NEW c \in Chans, Broadcast(t, c)
  PROVE  IInv'
<1> USE DEF logVars, readVars, detVars, closeVars
<1>1. pc[t] = "broadcast" /\ msg[t] \in Seqs
  BY DEF IInv, TypeOK, Broadcast
<1>2. /\ UNCHANGED <<box, made, closed, seq, journaled, file, accepted, inbox, reader,
                     received, idle, stalled, done, overtaken, reported, dpc, dmsg, dtodo, cpc, timedOut>>
      /\ (Goto(t, "gone") /\ Forget(t)) \/ UNCHANGED <<pc, to, ref, msg, late>>
      /\ todo' \in [Threads -> SUBSET Chans]
  BY DEF IInv, TypeOK, Broadcast
<1>3. /\ \/ UNCHANGED buffer
         \/ HasRoom(c) /\ buffer' = [buffer EXCEPT ![c] = Append(@, msg[t])]
      /\ dead' \in BOOLEAN
  BY DEF IInv, TypeOK, Broadcast
<1>4. buffer' \in [Chans -> Seq(Seqs)] /\ \A d \in Chans : Len(buffer'[d]) <= Cap
  BY <1>1, <1>3, PushOne DEF IInv, TypeOK
<1>5. TypeOK'
  <2>1. 0 \in Seqs
    BY Bounds DEF Seqs
  <2>2. /\ pc' \in [Threads -> {"idle", "create", "check", "append", "push",
                              "announce", "broadcast", "gone"}]
        /\ to' \in [Threads -> Workers \cup {None}] /\ ref' \in [Threads -> Chans \cup {0}]
        /\ msg' \in [Threads -> Seqs] /\ late' \in [Threads -> BOOLEAN]
    <3>1. CASE Goto(t, "gone") /\ Forget(t)
      BY <2>1, <3>1 DEF IInv, TypeOK, Goto, Forget
    <3>2. CASE UNCHANGED <<pc, to, ref, msg, late>>
      BY <3>2 DEF IInv, TypeOK
    <3> QED
      BY <1>2, <3>1, <3>2
  <2> QED
    BY <1>2, <1>3, <1>4, <2>2 DEF IInv, TypeOK
<1>6. MailInv' /\ ReadInv' /\ DetInv' /\ JournaledFirst' /\ Mapped' = Mapped
  BY <1>2 DEF IInv, MailInv, Mapped, ReadInv, DetInv, JournaledFirst
<1>7. CallInv' /\ LateInv'
  <2>1. CASE Goto(t, "gone") /\ Forget(t)
    BY <1>2, <1>6, <2>1 DEF IInv, TypeOK, CallInv, LateInv, Forget, Goto
  <2>2. CASE UNCHANGED <<pc, to, ref, msg, late>>
    BY <1>2, <1>6, <2>2 DEF IInv, CallInv, LateInv
  <2> QED
    BY <1>2, <2>1, <2>2
<1>8. AcceptedIsReachable'
  <2>1. CASE UNCHANGED buffer
    BY <1>2, <1>6, <2>1, StillReachable DEF IInv
  <2>2. CASE HasRoom(c) /\ buffer' = [buffer EXCEPT ![c] = Append(@, msg[t])]
    BY <1>1, <1>2, <2>2, ReachableAfterPush DEF IInv
  <2> QED
    BY <1>3, <2>1, <2>2
<1> QED
  BY <1>5, <1>6, <1>7, <1>8 DEF IInv

LEMMA TaskProgressStep ==
  ASSUME IInv, TaskProgress
  PROVE  IInv'
<1> USE DEF mailVars, logVars, callVars, readVars, closeVars
<1>1. /\ idle' = 0 /\ reported' = FALSE /\ stalled' = FALSE /\ overtaken' \in BOOLEAN
      /\ UNCHANGED <<mailVars, logVars, callVars, readVars, done, dpc, dmsg, dtodo, closeVars,
                     dead>>
  BY DEF TaskProgress, RecordProgress
<1>2. TypeOK'
  <2>1. 0 \in 0..Threshold + 1
    BY Bounds
  <2> QED
    BY <1>1, <2>1 DEF IInv, TypeOK
<1>3. MailInv' /\ ReadInv' /\ DetInv' /\ JournaledFirst' /\ Mapped' = Mapped
  BY <1>1 DEF IInv, MailInv, Mapped, ReadInv, DetInv, JournaledFirst
<1>4. CallInv' /\ LateInv'
  BY <1>1, <1>3 DEF IInv, CallInv, LateInv
<1>5. AcceptedIsReachable'
  BY <1>1, <1>3, StillReachable DEF IInv
<1> QED
  BY <1>2, <1>3, <1>4, <1>5 DEF IInv

-----------------------------------------------------------------------------
(* The steps of a reader.                                                  *)

\* A reader is given the mapped channel of its worker.
LEMMA InboxStep ==
  ASSUME IInv, NEW w \in Workers, Inbox(w)
  PROVE  IInv'
<1> USE DEF logVars, callVars, detVars, closeVars
<1>1. /\ box' \in [Workers -> Chans \cup {0}] /\ made' \in 0..MaxChans
      /\ closed' \subseteq 1..made'
      /\ MailInv'
      /\ Mapped \subseteq Mapped'
      /\ box'[w] \in Mapped' /\ box'[w] \in Chans /\ box'[w] \notin closed
      /\ \A v \in Workers : box[v] # 0 => box'[v] = box[v]
  BY MailboxFound DEF IInv, Inbox
<1>2. TypeOK'
  <2>1. /\ UNCHANGED <<buffer, closed, seq, journaled, file, pc, to, ref, msg, todo, late, accepted,
                       received, idle, stalled, done, overtaken, reported, dpc, dmsg, dtodo, cpc,
                       timedOut, dead>>
        /\ inbox' = [inbox EXCEPT ![w] = box'[w]]
        /\ reader' = [reader EXCEPT ![w] = "reading"]
    BY DEF Inbox
  <2>2. /\ inbox' \in [Workers -> Chans \cup {0}]
        /\ reader' \in [Workers -> {"none", "reading", "ended"}]
    BY <1>1, <2>1 DEF IInv, TypeOK
  <2>3. closed' \subseteq 1..made'
    BY <1>1
  <2> QED
    BY <1>1, <2>1, <2>2, <2>3 DEF IInv, TypeOK
<1>3. CallInv' /\ LateInv' /\ DetInv' /\ JournaledFirst'
  BY <1>1 DEF IInv, CallInv, LateInv, DetInv, JournaledFirst, Inbox
<1>4. ReadInv'
  BY <1>1, Bounds DEF IInv, TypeOK, ReadInv, Inbox, Chans
<1>5. AcceptedIsReachable'
  BY <1>1, StillReachable DEF IInv, Inbox
<1> QED
  BY <1>1, <1>2, <1>3, <1>4, <1>5 DEF IInv

\* What a reader takes was accepted, and counts as received.
LEMMA ReceiveStep ==
  ASSUME IInv, NEW w \in Workers, Receive(w)
  PROVE  IInv'
<1> USE DEF logVars, callVars, detVars, closeVars
<1>1. inbox[w] \in Chans
  BY DEF IInv, ReadInv, Receive
<1>2. /\ buffer' \in [Chans -> Seq(Seqs)] /\ received' \subseteq Seqs
      /\ \A d \in Chans : Len(buffer'[d]) <= Cap
      /\ AcceptedIsReachable'
  BY <1>1, ReachableAfterRead DEF IInv, Receive
<1>3. TypeOK'
  BY <1>2 DEF IInv, TypeOK, Receive
<1>4. MailInv' /\ ReadInv' /\ DetInv' /\ JournaledFirst' /\ Mapped' = Mapped
  BY DEF IInv, MailInv, Mapped, ReadInv, DetInv, JournaledFirst, Receive
<1>5. CallInv' /\ LateInv'
  BY <1>4 DEF IInv, CallInv, LateInv, Receive
<1> QED
  BY <1>2, <1>3, <1>4, <1>5 DEF IInv

LEMMA ReaderEndsStep ==
  ASSUME IInv, NEW w \in Workers, ReaderEnds(w)
  PROVE  IInv'
<1> USE DEF mailVars, logVars, callVars, detVars, closeVars
<1>1. TypeOK'
  BY DEF IInv, TypeOK, ReaderEnds
<1>2. MailInv' /\ DetInv' /\ JournaledFirst' /\ Mapped' = Mapped
  BY DEF IInv, MailInv, Mapped, DetInv, JournaledFirst, ReaderEnds
<1>3. ReadInv'
  BY DEF IInv, TypeOK, ReadInv, ReaderEnds
<1>4. CallInv' /\ LateInv'
  BY <1>2 DEF IInv, CallInv, LateInv, ReaderEnds
<1>5. AcceptedIsReachable'
  BY <1>2, StillReachable DEF IInv, ReaderEnds
<1> QED
  BY <1>1, <1>2, <1>3, <1>4, <1>5 DEF IInv

-----------------------------------------------------------------------------
(* The steps of the clock and of the detector.                             *)

\* Steps that leave the mailboxes, the calls and the readers alone keep what
\* relates them.
LEMMA QuietStep ==
  ASSUME IInv, journaled \subseteq journaled', UNCHANGED <<mailVars, callVars, readVars, cpc>>
  PROVE  MailInv' /\ CallInv' /\ LateInv' /\ ReadInv' /\ JournaledFirst' /\ AcceptedIsReachable'
<1> USE DEF mailVars, callVars, readVars
<1>1. MailInv' /\ ReadInv' /\ JournaledFirst' /\ Mapped' = Mapped
  BY DEF IInv, MailInv, Mapped, ReadInv, JournaledFirst
<1>2. CallInv' /\ LateInv'
  BY <1>1 DEF IInv, CallInv, LateInv
<1>3. AcceptedIsReachable'
  BY <1>1, StillReachable DEF IInv
<1> QED
  BY <1>1, <1>2, <1>3

LEMMA ClockStep ==
  ASSUME IInv, Clock
  PROVE  IInv'
<1> USE DEF mailVars, logVars, callVars, readVars, detVars, closeVars
<1>1. TypeOK'
  <2>1. idle' \in 0..Threshold + 1
    BY Bounds DEF IInv, TypeOK, Clock
  <2> QED
    BY <2>1 DEF IInv, TypeOK, Clock
<1>2. DetInv'
  BY DEF IInv, DetInv, Clock
<1> QED
  BY <1>1, <1>2, QuietStep DEF IInv, Clock

LEMMA CheckAgeStep ==
  ASSUME IInv, CheckAge
  PROVE  IInv'
<1> USE DEF mailVars, logVars, callVars, readVars, closeVars
<1>1. TypeOK'
  BY DEF IInv, TypeOK, CheckAge
<1>2. DetInv'
  BY DEF IInv, DetInv, CheckAge
<1> QED
  BY <1>1, <1>2, QuietStep DEF IInv, CheckAge

LEMMA FlagStep ==
  ASSUME IInv, Flag
  PROVE  IInv'
<1> USE DEF mailVars, logVars, callVars, readVars, closeVars
<1>1. TypeOK'
  BY DEF IInv, TypeOK, Flag
<1>2. DetInv'
  BY DEF IInv, DetInv, Flag
<1> QED
  BY <1>1, <1>2, QuietStep DEF IInv, Flag

\* The copied map holds no closed channel.
LEMMA JournalEventStep ==
  ASSUME IInv, JournalEvent
  PROVE  IInv'
<1> USE DEF mailVars, callVars, readVars, closeVars
<1>1. /\ seq \in Seqs /\ seq + 1 \in 0..MaxSeq + 1
      /\ Mapped \subseteq Chans
  BY Bounds, KnownChannels DEF IInv, TypeOK, JournalEvent, Seqs
<1>2. TypeOK'
  <2>1. seq' \in 0..MaxSeq + 1 /\ journaled' \subseteq Seqs
    BY <1>1 DEF IInv, TypeOK, JournalEvent
  <2>2. dmsg' \in Seqs /\ dtodo' \subseteq Chans /\ dpc' \in {"wait", "broadcast"}
    BY <1>1 DEF IInv, TypeOK, JournalEvent
  <2> QED
    BY <2>1, <2>2 DEF IInv, TypeOK, JournalEvent
<1>3. DetInv'
  BY DEF IInv, MailInv, DetInv, JournalEvent
<1>4. journaled \subseteq journaled' /\ UNCHANGED <<mailVars, callVars, readVars, cpc>>
  BY DEF JournalEvent
<1> QED
  BY <1>2, <1>3, <1>4, QuietStep DEF IInv

\* The detector sends as any other caller does.
LEMMA DetectorSendsStep ==
  ASSUME IInv, NEW c \in Chans, DetectorSends(c)
  PROVE  IInv'
<1> USE DEF logVars, callVars, readVars, closeVars
<1>1. /\ UNCHANGED <<box, made, closed, seq, journaled, file, pc, to, ref, msg, todo, late,
                     accepted, inbox, reader, received, idle, stalled, done, overtaken, reported, cpc,
                     timedOut, dead>>
      /\ dpc = "broadcast" /\ dmsg \in Seqs
  BY DEF IInv, TypeOK, DetectorSends
<1>2. \/ UNCHANGED buffer
      \/ HasRoom(c) /\ buffer' = [buffer EXCEPT ![c] = Append(@, dmsg)]
  BY DEF DetectorSends
<1>3. buffer' \in [Chans -> Seq(Seqs)] /\ \A d \in Chans : Len(buffer'[d]) <= Cap
  BY <1>1, <1>2, PushOne DEF IInv, TypeOK
<1>4. /\ dpc' \in {"gone", "wait", "broadcast"} /\ dtodo' \subseteq dtodo
      /\ dmsg' \in {0, dmsg}
  BY DEF DetectorSends
<1>5. TypeOK'
  <2>1. 0 \in Seqs
    BY Bounds DEF Seqs
  <2> QED
    BY <1>1, <1>3, <1>4, <2>1 DEF IInv, TypeOK
<1>6. MailInv' /\ ReadInv' /\ JournaledFirst' /\ Mapped' = Mapped
  BY <1>1 DEF IInv, MailInv, Mapped, ReadInv, JournaledFirst
<1>7. DetInv'
  BY <1>1, <1>4 DEF IInv, DetInv
<1>8. CallInv' /\ LateInv'
  BY <1>1, <1>6 DEF IInv, CallInv, LateInv
<1>9. AcceptedIsReachable'
  <2>1. CASE UNCHANGED buffer
    BY <1>1, <1>6, <2>1, StillReachable DEF IInv
  <2>2. CASE HasRoom(c) /\ buffer' = [buffer EXCEPT ![c] = Append(@, dmsg)]
    BY <1>1, <2>2, ReachableAfterPush DEF IInv
  <2> QED
    BY <1>2, <2>1, <2>2
<1> QED
  BY <1>5, <1>6, <1>7, <1>8, <1>9 DEF IInv

LEMMA DetectorEndsStep ==
  ASSUME IInv, DetectorEnds
  PROVE  IInv'
<1> USE DEF mailVars, logVars, callVars, readVars, closeVars
<1>1. TypeOK'
  BY DEF IInv, TypeOK, DetectorEnds
<1>2. DetInv'
  BY DEF IInv, DetInv, DetectorEnds
<1> QED
  BY <1>1, <1>2, QuietStep DEF IInv, DetectorEnds

-----------------------------------------------------------------------------
(* The steps of Close.                                                     *)

\* Close stops the detector before the mailboxes.
LEMMA CloseBeginStep ==
  ASSUME IInv, CloseBegin
  PROVE  IInv'
<1> USE DEF mailVars, logVars, callVars, readVars
<1>1. TypeOK'
  BY DEF IInv, TypeOK, CloseBegin
<1>2. MailInv' /\ ReadInv' /\ DetInv' /\ JournaledFirst' /\ Mapped' = Mapped
  BY DEF IInv, MailInv, Mapped, ReadInv, DetInv, JournaledFirst, CloseBegin
<1>3. CallInv' /\ LateInv'
  BY <1>2 DEF IInv, CallInv, LateInv, CloseBegin
<1>4. AcceptedIsReachable'
  BY <1>2, StillReachable DEF IInv, CloseBegin
<1> QED
  BY <1>1, <1>2, <1>3, <1>4 DEF IInv

LEMMA StopReturnsStep ==
  ASSUME IInv, StopReturns
  PROVE  IInv'
<1> USE DEF mailVars, logVars, callVars, readVars, detVars
<1>1. timedOut' \in BOOLEAN /\ (timedOut' \/ dpc = "gone")
  BY DEF StopReturns
<1>2. TypeOK'
  BY <1>1 DEF IInv, TypeOK, StopReturns
<1>3. MailInv' /\ ReadInv' /\ JournaledFirst' /\ Mapped' = Mapped
  BY DEF IInv, MailInv, Mapped, ReadInv, JournaledFirst, StopReturns
<1>4. DetInv'
  BY <1>1 DEF IInv, DetInv, StopReturns
<1>5. CallInv' /\ LateInv'
  BY <1>3 DEF IInv, CallInv, LateInv, StopReturns
<1>6. AcceptedIsReachable'
  BY <1>3, StillReachable DEF IInv, StopReturns
<1> QED
  BY <1>2, <1>3, <1>4, <1>5, <1>6 DEF IInv

\* The mapped channels become closed ones, and no call has begun late yet.
LEMMA CloseBoxesStep ==
  ASSUME IInv, CloseBoxes
  PROVE  IInv'
<1> USE DEF logVars, callVars, readVars, detVars
<1>1. Mapped' = {} /\ closed' = Mapped \cup closed /\ Mapped \subseteq 1..made
  BY DEF IInv, TypeOK, MailInv, Mapped, CloseBoxes
<1>2. TypeOK'
  BY <1>1 DEF IInv, TypeOK, CloseBoxes
<1>3. MailInv'
  <2>1. \A w \in Workers : box'[w] = 0
    BY DEF CloseBoxes
  <2> QED
    BY <1>1, <2>1 DEF IInv, TypeOK, MailInv, CloseBoxes
<1>4. ReadInv'
  BY <1>1, Bounds DEF IInv, ReadInv, Mapped, CloseBoxes, Chans
<1>5. DetInv' /\ JournaledFirst' /\ LateInv'
  BY DEF IInv, DetInv, JournaledFirst, LateInv, CloseBoxes
<1>6. CallInv'
  BY <1>1 DEF IInv, CallInv, CloseBoxes
<1>7. AcceptedIsReachable'
  BY <1>1, StillReachable DEF IInv, CloseBoxes
<1> QED
  BY <1>2, <1>3, <1>4, <1>5, <1>6, <1>7 DEF IInv

\* It closes the journal last.
LEMMA CloseJournalStep ==
  ASSUME IInv, CloseJournal
  PROVE  IInv'
<1> USE DEF mailVars, callVars, readVars, detVars
<1>1. TypeOK'
  BY DEF IInv, TypeOK, CloseJournal
<1>2. MailInv' /\ ReadInv' /\ DetInv' /\ JournaledFirst' /\ Mapped' = Mapped
  BY DEF IInv, MailInv, Mapped, ReadInv, DetInv, JournaledFirst, CloseJournal
<1>3. CallInv' /\ LateInv'
  BY <1>2 DEF IInv, CallInv, LateInv, CloseJournal
<1>4. AcceptedIsReachable'
  BY <1>2, StillReachable DEF IInv, CloseJournal
<1> QED
  BY <1>1, <1>2, <1>3, <1>4 DEF IInv

-----------------------------------------------------------------------------
\* A step of nothing keeps everything.
LEMMA StutterStep ==
  ASSUME IInv, UNCHANGED vars
  PROVE  IInv'
<1> USE DEF vars, mailVars, logVars, callVars, readVars, detVars, closeVars
<1>1. TypeOK'
  BY DEF IInv, TypeOK
<1>2. DetInv'
  BY DEF IInv, DetInv
<1> QED
  BY <1>1, <1>2, QuietStep DEF IInv

\* Every step keeps the invariant.
LEMMA NextIInv ==
  ASSUME IInv, [Next]_vars
  PROVE  IInv'
<1>1. ASSUME NEW t \in Threads, Send(t) PROVE IInv'
  BY <1>1, SendBeginStep, CreateStep, CheckStep, JournalMessageStep, PushStep DEF Send
<1>2. ASSUME NEW t \in Threads, Worker(t) PROVE IInv'
  BY <1>2, FnPanicsStep, AnnounceStep, BroadcastStep DEF Worker
<1>3. ASSUME NEW w \in Workers, Reader(w) PROVE IInv'
  BY <1>3, InboxStep, ReceiveStep, ReaderEndsStep DEF Reader
<1>4. CASE Detector \/ DetectorEnds
  BY <1>4, CheckAgeStep, FlagStep, JournalEventStep, DetectorSendsStep, DetectorEndsStep
     DEF Detector
<1>5. CASE Close
  BY <1>5, CloseBeginStep, StopReturnsStep, CloseBoxesStep, CloseJournalStep DEF Close
<1>6. CASE UNCHANGED vars
  BY <1>6, StutterStep
<1> QED
  BY <1>1, <1>2, <1>3, <1>4, <1>5, <1>6, TaskProgressStep, ClockStep DEF Next

\* The invariant holds in every behaviour.
THEOREM IInvHolds == Spec => []IInv
BY InitIInv, NextIInv, PTL DEF Spec

-----------------------------------------------------------------------------
(* What follows from it.                                                   *)

\* Every variable of the mailboxes, the calls, the detector and Close keeps
\* its type.
THEOREM TypeOKHolds == Spec => []TypeOK
<1>1. IInv => TypeOK
  BY DEF IInv
<1> QED
  BY <1>1, IInvHolds, PTL

\* A SendMessage returns nil only after its message is in the journal, for
\* every interleaving of senders, broadcasts and Close, and whether or not
\* writes fail.
THEOREM JournaledFirstHolds == Spec => []JournaledFirst
<1>1. IInv => JournaledFirst
  BY DEF IInv
<1> QED
  BY <1>1, IInvHolds, PTL

\* A message that was accepted has been read or is still in a channel that
\* Inbox hands out or Close has closed, and no channel exceeds its capacity.
THEOREM AcceptedIsReachableHolds == Spec => []AcceptedIsReachable
<1>1. IInv => AcceptedIsReachable
  BY DEF IInv
<1> QED
  BY <1>1, IInvHolds, PTL

\* A SendMessage that begins after Close has closed the mailboxes never sends
\* on a closed one, and the detector does so only if Stop gave up waiting.
THEOREM ClosedIsLeftHolds == Spec => []ClosedIsLeft
<1>1. IInv => ClosedIsLeft
  BY DEF IInv, LateInv, DetInv, ClosedIsLeft
<1> QED
  BY <1>1, IInvHolds, PTL

\* The mailboxes of two workers are two channels, and a worker reads the one
\* the senders to it are given, or one that Close has closed: the second look
\* at the map under the write lock (team.go:414) makes the first uses agree.
OwnMailbox ==
  /\ \A v, w \in Workers : box[v] = box[w] /\ box[v] # 0 => v = w
  /\ \A w \in Workers : reader[w] # "none" => inbox[w] = box[w] \/ inbox[w] \in closed

\* So concurrent first uses of a mailbox neither share nor split one.
THEOREM OwnMailboxHolds == Spec => []OwnMailbox
<1>1. IInv => OwnMailbox
  BY DEF IInv, MailInv, ReadInv, OwnMailbox
<1> QED
  BY <1>1, IInvHolds, PTL
=============================================================================
