----------------------------- MODULE VersionedMap -----------------------------
(***************************************************************************)
(* What the callers of a Store expect: a map from keys to versioned        *)
(* values on which every call takes effect at one instant between its      *)
(* beginning and its answer, or, when the answer is an error, not at all.  *)
(***************************************************************************)
EXTENDS Naturals

CONSTANTS Procs, Keys, Values, None

VARIABLES
  map,    \* key -> version and value; version 0 when the key is absent
  call,   \* the call of each process, None when it has none
  answer  \* what that call has been given, None before it took effect

mapVars == <<map, call, answer>>

Absent == [v |-> 0, val |-> None]

Ops ==
  [name : {"read"}, key : Keys]
    \cup [name : {"write", "retry"}, key : Keys, val : Values]
    \cup [name : {"writeIf"}, key : Keys, val : Values, exp : Nat]
    \cup [name : {"clear"}, keys : SUBSET Keys]

Init ==
  /\ map = [k \in Keys |-> Absent]
  /\ call = [p \in Procs |-> None]
  /\ answer = [p \in Procs |-> None]

Begin(p) ==
  /\ call[p] = None
  /\ call'[p] \in Ops
  /\ call' = [call EXCEPT ![p] = call'[p]]
  /\ UNCHANGED <<map, answer>>

Give(p, a) == answer' = [answer EXCEPT ![p] = a]

Read(p) ==
  /\ call[p].name = "read"
  /\ Give(p, <<"ok", map[call[p].key]>>)
  /\ UNCHANGED map

\* The next version of the key, with the new value.
Put(p) ==
  LET k == call[p].key IN
  /\ map' = [map EXCEPT ![k] = [v |-> @.v + 1, val |-> call[p].val]]
  /\ Give(p, <<"ok", map[k].v + 1>>)

Write(p) == call[p].name \in {"write", "retry"} /\ Put(p)

WriteIf(p) ==
  /\ call[p].name = "writeIf"
  /\ \/ map[call[p].key].v = call[p].exp /\ Put(p)
     \/ /\ map[call[p].key].v # call[p].exp
        /\ Give(p, <<"mismatch", map[call[p].key].v>>)
        /\ UNCHANGED map

\* The answer is the keys removed, which Clear counts.
Clear(p) ==
  LET gone == {k \in Keys : k \in call[p].keys /\ map[k] # Absent} IN
  /\ call[p].name = "clear"
  /\ map' = [k \in Keys |-> IF k \in gone THEN Absent ELSE map[k]]
  /\ Give(p, <<"ok", gone>>)

\* A busy lock, an error of the file system, the end of a context.
GiveUp(p) == Give(p, <<"error">>) /\ UNCHANGED map

TakeEffect(p) ==
  /\ call[p] \in Ops /\ answer[p] = None
  /\ Read(p) \/ Write(p) \/ WriteIf(p) \/ Clear(p) \/ GiveUp(p)
  /\ UNCHANGED call

\* The call returns, or its process dies before or after the effect.
End(p) ==
  /\ call[p] \in Ops
  /\ call' = [call EXCEPT ![p] = None]
  /\ answer' = [answer EXCEPT ![p] = None]
  /\ UNCHANGED map

Next == \E p \in Procs : Begin(p) \/ TakeEffect(p) \/ End(p)

Spec == Init /\ [][Next]_mapVars
=============================================================================
