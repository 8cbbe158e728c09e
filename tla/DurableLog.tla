------------------------------ MODULE DurableLog ------------------------------
(***************************************************************************)
(* What a team expects of its journal: an append-only log in which every   *)
(* acknowledged entry, and every entry before it, is there for good. An    *)
(* entry that was never acknowledged may be lost or may be kept. A read    *)
(* that fails may cost the end of the log, acknowledged or not, once, and  *)
(* leaves no hole in it.                                                   *)
(***************************************************************************)
EXTENDS Naturals, Sequences

CONSTANTS
  Entries,
  Damages   \* reads may fail

VARIABLES
  log,      \* what a reader of the log gets
  durable,  \* length of the prefix that a failure of the machine leaves
  earlier,  \* what the log was before damages that are not final yet
  failing   \* a read has failed, and who made it has not dealt with it

logVars == <<log, durable, earlier, failing>>

Init == log = <<>> /\ durable = 0 /\ earlier = {} /\ ~failing

\* An entry reaches the log; nobody has been told yet.
Write(e) == log' = Append(log, e) /\ UNCHANGED <<durable, earlier, failing>>

\* The caller is told that its entry is stored: all of the log is durable.
Commit ==
  /\ durable' = Len(log) /\ earlier' = {}
  /\ UNCHANGED <<log, failing>>

\* The machine fails: the end of the log beyond the durable prefix is lost,
\* and what a damage took away may be back.
Lose(s, k) ==
  /\ s \in earlier \cup {log}
  /\ k \in durable..Len(s)
  /\ log' = SubSeq(s, 1, k)
  /\ earlier' = {} /\ failing' = FALSE
  /\ UNCHANGED durable

ReadFails == Damages /\ ~failing /\ failing' = TRUE /\ UNCHANGED <<log, durable, earlier>>

\* Whoever made the read gives up.
GiveUp == failing /\ failing' = FALSE /\ UNCHANGED <<log, durable, earlier>>

\* Whoever made the read keeps the k entries it got.
Damage(k) ==
  /\ failing /\ failing' = FALSE
  /\ k \in 0..Len(log)
  /\ log' = SubSeq(log, 1, k)
  /\ durable' = IF k < durable THEN k ELSE durable
  /\ earlier' = earlier \cup {log}

Next ==
  \/ \E e \in Entries : Write(e)
  \/ Commit
  \/ \E s \in earlier \cup {log} : \E k \in durable..Len(s) : Lose(s, k)
  \/ ReadFails \/ GiveUp
  \/ \E k \in 0..Len(log) : Damage(k)

Spec == Init /\ [][Next]_logVars
=============================================================================
