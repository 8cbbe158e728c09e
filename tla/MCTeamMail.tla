----------------------------- MODULE MCTeamMail -----------------------------
(* One mailbox, of one message, that senders and a reader use for the first  *)
(* time together; one thread is a worker under RunWorker, the other an       *)
(* ordinary goroutine. Two numbers let two messages, or a message and a      *)
(* broadcast, compete for the mailbox, and a second stall follow a first.    *)
(* The second channel is the one made by a call that comes after Close.      *)
EXTENDS TeamMail

CONSTANTS w1, w2, t1, t2

MCRuns == [t \in {t1, t2} |-> IF t = t1 THEN w2 ELSE None]
=============================================================================
