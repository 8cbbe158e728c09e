--------------------------- MODULE StateStoreProofs ---------------------------
(***************************************************************************)
(* What holds of the state store for every number of processes, keys and   *)
(* calls: it is a versioned map, and optimistic writers are safe.          *)
(*                                                                         *)
(* The inductive invariant IInv adds to the types which call can be where  *)
(* (OpInv), that what a holder of the flock is about to write follows from *)
(* what the file still is (CopyInv), that it renames what it has written   *)
(* itself (TmpInv), and that a version number stands for one entry until   *)
(* a Clear (SeenInv).                                                      *)
(***************************************************************************)
EXTENDS StateStore, TLAPS

AllOps ==
  [name : {"read"}, key : Keys]
    \cup [name : {"write", "retry"}, key : Keys, val : Values]
    \cup [name : {"writeIf"}, key : Keys, val : Values, exp : Nat]
    \cup [name : {"clear"}, keys : SUBSET Keys]
    \cup [name : {"append"}, id : Nat]

OpInv ==
  \A p \in Procs :
    /\ pc[p] # "idle" => op[p] \in AllOps
    /\ pc[p] = "open" => op[p].name = "read"
    /\ pc[p] = "backoff" => op[p].name = "retry"
    /\ pc[p] \in Holding \cup {"lock"} => op[p].name \in Writers \cup {"clear"}
    /\ pc[p] \in Noting \cup {"noteLock"} => op[p].name = "append"

\* What a holder of the flock has computed is what the file asks for.
WriterReady(p) ==
  LET k == op[p].key IN
  /\ op[p].name = "writeIf" => file[k].v = op[p].exp
  /\ copy[p] = [file EXCEPT ![k] = [v |-> file[k].v + 1, val |-> op[p].val]]
  /\ res[p] = <<"ok", file[k].v + 1>>

ClearReady(p) ==
  /\ copy[p] = [k \in Keys |-> IF k \in Gone(p) THEN Absent ELSE file[k]]
  /\ res[p] = <<"ok", Gone(p)>>

CopyInv ==
  \A p \in Procs :
    pc[p] \in {"tmp", "rename"} =>
      /\ op[p].name \in Writers => WriterReady(p)
      /\ op[p].name = "clear" => ClearReady(p)

TmpInv == \A p \in Procs : pc[p] = "rename" => tmp = copy[p]

SeenInv ==
  /\ \A k \in Keys : file[k].v = 0 => file[k] = Absent
  /\ \A p \in Procs, k \in Keys : k \notin cleared[p] =>
       /\ seen[p][k].v <= file[k].v
       /\ seen[p][k].v = file[k].v => seen[p][k] = file[k]
  /\ \A p \in Procs :
       pc[p] \notin {"idle", "release", "done"} /\ op[p].name = "writeIf"
         => op[p].exp = seen[p][op[p].key].v

FunInv ==
  /\ op = [p \in Procs |-> op[p]]
  /\ copy = [p \in Procs |-> copy[p]]
  /\ res = [p \in Procs |-> res[p]]

IInv == TypeOK /\ FunInv /\ OpInv /\ CopyInv /\ TmpInv /\ SeenInv

-----------------------------------------------------------------------------
\* What a call carries, by its name.
LEMMA OpFields ==
  ASSUME NEW o \in AllOps
  PROVE  /\ o.name \in Writers \cup {"read", "clear", "append"}
         /\ o.name \in Writers \cup {"read"} => o.key \in Keys
         /\ o.name \in Writers => o.val \in Values
         /\ o.name = "writeIf" => o.exp \in Nat
         /\ o.name = "clear" => o.keys \in SUBSET Keys
  BY SMT DEF AllOps, Writers

\* The calls a process may begin are calls.
LEMMA OpsTyped ==
  ASSUME TypeOK, NEW p \in Procs, calls < MaxCalls
  PROVE  Ops(p) \subseteq AllOps
<1>1. calls + 1 \in Values /\ calls + 1 \in Nat
  BY StateStoreAssumption DEF TypeOK, Values
<1>2. \A k \in Keys : seen[p][k].v \in Nat
  BY DEF TypeOK, Files, Entries
<1> QED
  BY <1>1, <1>2, StateStoreAssumption DEF Ops, AllOps

\* What is about to be written is a file.
LEMMA CopyTyped ==
  ASSUME TypeOK, OpInv, CopyInv, NEW p \in Procs, pc[p] \in {"tmp", "rename"}
  PROVE  copy[p] \in Files
<1>1. op[p] \in AllOps /\ op[p].name \in Writers \cup {"clear"}
  BY DEF OpInv, Holding
<1>2. CASE op[p].name \in Writers
  <2>1. op[p].key \in Keys /\ op[p].val \in Values
    BY <1>1, <1>2, OpFields
  <2>2. [v |-> file[op[p].key].v + 1, val |-> op[p].val] \in Entries
    BY <2>1 DEF TypeOK, Files, Entries
  <2> QED
    BY <1>2, <2>1, <2>2 DEF CopyInv, WriterReady, TypeOK, Files
<1>3. CASE op[p].name = "clear"
  <2>1. Absent \in Entries
    BY DEF Absent, Entries
  <2>2. copy[p] = [k \in Keys |-> IF k \in Gone(p) THEN Absent ELSE file[k]]
    BY <1>3 DEF CopyInv, ClearReady
  <2> QED
    BY <2>1, <2>2 DEF TypeOK, Files
<1> QED
  BY <1>1, <1>2, <1>3

\* The invariant holds of an empty store.
LEMMA InitInv == Init => IInv
  BY StateStoreAssumption DEF Init, IInv, TypeOK, FunInv, OpInv, CopyInv, TmpInv, SeenInv,
     Files, Entries, Absent, Holding, Noting

\* The call that Call chooses, and where it starts.
LEMMA CallEffect ==
  ASSUME IInv, NEW p \in Procs, Call(p)
  PROVE  \E o \in Ops(p) :
           /\ o \in AllOps
           /\ op' = [op EXCEPT ![p] = o]
           /\ \/ o.name = "read" /\ pc' = [pc EXCEPT ![p] = "open"]
              \/ o.name = "append" /\ pc' = [pc EXCEPT ![p] = "noteLock"]
              \/ o.name \in Writers \cup {"clear"} /\ pc' = [pc EXCEPT ![p] = "lock"]
<1>1. PICK o \in Ops(p) :
        /\ op' = [op EXCEPT ![p] = o]
        /\ pc' = [pc EXCEPT ![p] = CASE o.name = "read" -> "open"
                                      [] o.name = "append" -> "noteLock"
                                      [] OTHER -> "lock"]
  BY DEF Call, Goto
<1>2. o \in AllOps
  BY OpsTyped DEF Call, IInv
<1>3. o.name \in Writers \cup {"read", "clear", "append"}
  BY <1>2, OpFields
<1> QED
  BY <1>1, <1>2, <1>3 DEF Writers

\* A call that begins has the types of a call.
LEMMA CallTypes ==
  ASSUME IInv, NEW p \in Procs, Call(p)
  PROVE  TypeOK' /\ FunInv' /\ OpInv'
<1>1. PICK o \in AllOps :
        /\ op' = [op EXCEPT ![p] = o]
        /\ \/ o.name = "read" /\ pc' = [pc EXCEPT ![p] = "open"]
           \/ o.name = "append" /\ pc' = [pc EXCEPT ![p] = "noteLock"]
           \/ o.name \in Writers \cup {"clear"} /\ pc' = [pc EXCEPT ![p] = "lock"]
  BY CallEffect
<1>2. /\ UNCHANGED <<file, tmp, lock, notes, noteLock, copy, res, seen, cleared>>
      /\ calls' \in 0..MaxCalls /\ pc[p] = "idle"
  BY StateStoreAssumption DEF Call, At, IInv, TypeOK, storeVars, noteVars
<1>3. TypeOK'
  BY <1>1, <1>2 DEF IInv, TypeOK, Holding, Noting
<1>4. FunInv'
  BY <1>1, <1>2 DEF IInv, FunInv
<1>5. OpInv'
  BY <1>1, <1>2 DEF IInv, TypeOK, FunInv, OpInv, Holding, Noting, Writers
<1> QED
  BY <1>3, <1>4, <1>5

LEMMA ReturnTypes ==
  ASSUME IInv, NEW p \in Procs, Return(p)
  PROVE  TypeOK' /\ FunInv' /\ OpInv'
<1> USE StateStoreAssumption DEF IInv, Return, At, Goto, Answer, Returns, Learn
<1>1. TypeOK'
  BY DEF TypeOK, Files, Entries, Absent, Holding, Noting, storeVars, noteVars
<1>2. FunInv'
  BY DEF FunInv, storeVars, noteVars
<1>3. OpInv'
  BY DEF TypeOK, FunInv, OpInv, Holding, Noting, Writers
<1> QED
  BY <1>1, <1>2, <1>3

LEMMA ReadTypes ==
  ASSUME IInv, NEW p \in Procs, Read(p)
  PROVE  TypeOK' /\ FunInv' /\ OpInv'
<1> USE StateStoreAssumption DEF IInv, Read, At, Goto, Answer, Learn
<1>1. op[p].key \in Keys
  BY OpFields DEF OpInv
<1>2. TypeOK'
  BY <1>1 DEF TypeOK, Files, Holding, Noting, storeVars, noteVars
<1>3. FunInv'
  BY DEF FunInv
<1>4. OpInv'
  BY DEF TypeOK, FunInv, OpInv, Holding, Noting, Writers
<1> QED
  BY <1>2, <1>3, <1>4

LEMMA AcquireTypes ==
  ASSUME IInv, NEW p \in Procs, Acquire(p)
  PROVE  TypeOK' /\ FunInv' /\ OpInv'
<1> USE StateStoreAssumption DEF IInv, Acquire, At, Goto, Answer, Returns, Learn
<1>1. TypeOK'
  BY DEF TypeOK, Files, Entries, Absent, Holding, Noting, storeVars, noteVars
<1>2. FunInv'
  BY DEF FunInv, storeVars, noteVars
<1>3. OpInv'
  BY DEF TypeOK, FunInv, OpInv, Holding, Noting, Writers
<1> QED
  BY <1>1, <1>2, <1>3

LEMMA BusyTypes ==
  ASSUME IInv, NEW p \in Procs, Busy(p)
  PROVE  TypeOK' /\ FunInv' /\ OpInv'
<1> USE StateStoreAssumption DEF IInv, Busy, At, Goto, Answer, Returns, Learn
<1>1. TypeOK'
  BY DEF TypeOK, Files, Entries, Absent, Holding, Noting, storeVars, noteVars
<1>2. FunInv'
  BY DEF FunInv, storeVars, noteVars
<1>3. OpInv'
  BY DEF TypeOK, FunInv, OpInv, Holding, Noting, Writers
<1> QED
  BY <1>1, <1>2, <1>3

LEMMA RetryTypes ==
  ASSUME IInv, NEW p \in Procs, Retry(p)
  PROVE  TypeOK' /\ FunInv' /\ OpInv'
<1> USE StateStoreAssumption DEF IInv, Retry, At, Goto, Answer, Returns, Learn
<1>1. TypeOK'
  BY DEF TypeOK, Files, Entries, Absent, Holding, Noting, storeVars, noteVars
<1>2. FunInv'
  BY DEF FunInv, storeVars, noteVars
<1>3. OpInv'
  BY DEF TypeOK, FunInv, OpInv, Holding, Noting, Writers
<1> QED
  BY <1>1, <1>2, <1>3

LEMMA ContextEndsTypes ==
  ASSUME IInv, NEW p \in Procs, ContextEnds(p)
  PROVE  TypeOK' /\ FunInv' /\ OpInv'
<1> USE StateStoreAssumption DEF IInv, ContextEnds, At, Goto, Answer, Returns, Learn
<1>1. TypeOK'
  BY DEF TypeOK, Files, Entries, Absent, Holding, Noting, storeVars, noteVars
<1>2. FunInv'
  BY DEF FunInv, storeVars, noteVars
<1>3. OpInv'
  BY DEF TypeOK, FunInv, OpInv, Holding, Noting, Writers
<1> QED
  BY <1>1, <1>2, <1>3

\* What reading the file does to a call, whichever it is.
LEMMA LoadEffect ==
  ASSUME FunInv, NEW p \in Procs, Load(p)
  PROVE  /\ pc[p] = "load"
         /\ UNCHANGED <<file, tmp, lock, notes, noteLock, op, seen, cleared, calls>>
         /\ \E to \in {"tmp", "release"} : pc' = [pc EXCEPT ![p] = to]
         /\ \E f : copy' = [copy EXCEPT ![p] = f]
         /\ \E a : res' = [res EXCEPT ![p] = a]
<1>1. \/ \E f, a : Prepare(p, f, a)
      \/ \E a : Refuse(p, a)
  BY DEF Load, LoadWrite, LoadWriteIf, LoadClear, Put
<1>2. copy = [copy EXCEPT ![p] = copy[p]]
  BY DEF FunInv
<1> QED
  BY <1>1, <1>2 DEF Load, Prepare, Refuse, Goto, Answer, At, storeVars, noteVars

LEMMA LoadTypes ==
  ASSUME IInv, NEW p \in Procs, Load(p)
  PROVE  TypeOK' /\ FunInv' /\ OpInv'
<1> USE LoadEffect DEF IInv
<1>1. TypeOK'
  BY DEF TypeOK, Holding, Noting
<1>2. FunInv'
  BY DEF FunInv
<1>3. OpInv'
  BY DEF TypeOK, FunInv, OpInv, Holding, Noting, Writers
<1> QED
  BY <1>1, <1>2, <1>3

LEMMA WriteTmpTypes ==
  ASSUME IInv, NEW p \in Procs, WriteTmp(p)
  PROVE  TypeOK' /\ FunInv' /\ OpInv'
<1> USE StateStoreAssumption DEF IInv, WriteTmp, At, Goto
<1>1. copy[p] \in Files
  BY CopyTyped
<1>2. TypeOK'
  BY <1>1 DEF TypeOK, Holding, Noting, noteVars
<1>3. FunInv'
  BY DEF FunInv
<1>4. OpInv'
  BY DEF TypeOK, FunInv, OpInv, Holding, Noting, Writers
<1> QED
  BY <1>2, <1>3, <1>4

LEMMA RenameTypes ==
  ASSUME IInv, NEW p \in Procs, Rename(p)
  PROVE  TypeOK' /\ FunInv' /\ OpInv'
<1> USE StateStoreAssumption DEF IInv, Rename, At, Goto
<1>1. copy[p] \in Files /\ tmp = copy[p]
  BY CopyTyped DEF TmpInv
<1>2. op[p] \in AllOps /\ op[p].name \in Writers \cup {"clear"}
  BY DEF OpInv, Holding
<1>3. seen' \in [Procs -> Files] /\ cleared' \in [Procs -> SUBSET Keys]
  <2>1. CASE op[p].name \in Writers
    <3>1. op[p].key \in Keys
      BY <1>2, <2>1, OpFields
    <3>2. copy[p][op[p].key] \in Entries
      BY <1>1, <3>1 DEF Files
    <3>3. /\ seen' = [seen EXCEPT ![p][op[p].key] = copy[p][op[p].key]]
          /\ cleared' = [cleared EXCEPT ![p] = @ \ {op[p].key}]
      BY <2>1 DEF Learn
    <3>4. seen[p] \in [Keys -> Entries]
      BY DEF TypeOK, Files
    <3>5. [seen[p] EXCEPT ![op[p].key] = copy[p][op[p].key]] \in Files
      BY <3>2, <3>4 DEF Files
    <3> QED
      BY <3>3, <3>5 DEF TypeOK
  <2>2. CASE op[p].name = "clear"
    <3>1. op[p].keys \in SUBSET Keys
      BY <1>2, <2>2, OpFields
    <3> QED
      BY <2>2, <3>1 DEF TypeOK, Writers
  <2> QED
    BY <1>2, <2>1, <2>2
<1>4. TypeOK'
  BY <1>1, <1>3 DEF TypeOK, Holding, Noting, noteVars
<1>5. FunInv'
  BY DEF FunInv
<1>6. OpInv'
  BY DEF TypeOK, FunInv, OpInv, Holding, Noting, Writers
<1> QED
  BY <1>4, <1>5, <1>6

LEMMA ReleaseTypes ==
  ASSUME IInv, NEW p \in Procs, Release(p)
  PROVE  TypeOK' /\ FunInv' /\ OpInv'
<1> USE StateStoreAssumption DEF IInv, Release, At, Goto, Answer, Returns, Learn
<1>1. TypeOK'
  BY DEF TypeOK, Files, Entries, Absent, Holding, Noting, storeVars, noteVars
<1>2. FunInv'
  BY DEF FunInv, storeVars, noteVars
<1>3. OpInv'
  BY DEF TypeOK, FunInv, OpInv, Holding, Noting, Writers
<1> QED
  BY <1>1, <1>2, <1>3

LEMMA LockNotesTypes ==
  ASSUME IInv, NEW p \in Procs, LockNotes(p)
  PROVE  TypeOK' /\ FunInv' /\ OpInv'
<1> USE StateStoreAssumption DEF IInv, LockNotes, At, Goto, Answer, Returns, Learn
<1>1. TypeOK'
  BY DEF TypeOK, Files, Entries, Absent, Holding, Noting, storeVars, noteVars
<1>2. FunInv'
  BY DEF FunInv, storeVars, noteVars
<1>3. OpInv'
  BY DEF TypeOK, FunInv, OpInv, Holding, Noting, Writers
<1> QED
  BY <1>1, <1>2, <1>3

LEMMA WriteHalf1Types ==
  ASSUME IInv, NEW p \in Procs, WriteHalf1(p)
  PROVE  TypeOK' /\ FunInv' /\ OpInv'
<1> USE StateStoreAssumption DEF IInv, WriteHalf1, At, Goto, Answer, Returns, Learn
<1>1. TypeOK'
  BY DEF TypeOK, Files, Entries, Absent, Holding, Noting, storeVars, noteVars
<1>2. FunInv'
  BY DEF FunInv, storeVars, noteVars
<1>3. OpInv'
  BY DEF TypeOK, FunInv, OpInv, Holding, Noting, Writers
<1> QED
  BY <1>1, <1>2, <1>3

LEMMA WriteHalf2Types ==
  ASSUME IInv, NEW p \in Procs, WriteHalf2(p)
  PROVE  TypeOK' /\ FunInv' /\ OpInv'
<1> USE StateStoreAssumption DEF IInv, WriteHalf2, At, Goto, Answer, Returns, Learn
<1>1. TypeOK'
  BY DEF TypeOK, Files, Entries, Absent, Holding, Noting, storeVars, noteVars
<1>2. FunInv'
  BY DEF FunInv, storeVars, noteVars
<1>3. OpInv'
  BY DEF TypeOK, FunInv, OpInv, Holding, Noting, Writers
<1> QED
  BY <1>1, <1>2, <1>3

LEMMA UnlockNotesTypes ==
  ASSUME IInv, NEW p \in Procs, UnlockNotes(p)
  PROVE  TypeOK' /\ FunInv' /\ OpInv'
<1> USE StateStoreAssumption DEF IInv, UnlockNotes, At, Goto, Answer, Returns, Learn
<1>1. TypeOK'
  BY DEF TypeOK, Files, Entries, Absent, Holding, Noting, storeVars, noteVars
<1>2. FunInv'
  BY DEF FunInv, storeVars, noteVars
<1>3. OpInv'
  BY DEF TypeOK, FunInv, OpInv, Holding, Noting, Writers
<1> QED
  BY <1>1, <1>2, <1>3

LEMMA FailsTypes ==
  ASSUME IInv, NEW p \in Procs, Fails(p)
  PROVE  TypeOK' /\ FunInv' /\ OpInv'
<1> USE StateStoreAssumption DEF IInv, Fails, At, Goto, Answer, Returns, Learn
<1>1. TypeOK'
  BY DEF TypeOK, Files, Entries, Absent, Holding, Noting, storeVars, noteVars
<1>2. FunInv'
  BY DEF FunInv, storeVars, noteVars
<1>3. OpInv'
  BY DEF TypeOK, FunInv, OpInv, Holding, Noting, Writers
<1> QED
  BY <1>1, <1>2, <1>3

LEMMA CrashTypes ==
  ASSUME IInv, NEW p \in Procs, Crash(p)
  PROVE  TypeOK' /\ FunInv' /\ OpInv'
<1> USE StateStoreAssumption DEF IInv, Crash, At, Goto, Answer, Returns, Learn
<1>1. TypeOK'
  BY DEF TypeOK, Files, Entries, Absent, Holding, Noting, storeVars, noteVars
<1>2. FunInv'
  BY DEF FunInv, storeVars, noteVars
<1>3. OpInv'
  BY DEF TypeOK, FunInv, OpInv, Holding, Noting, Writers
<1> QED
  BY <1>1, <1>2, <1>3

-----------------------------------------------------------------------------
\* Process p's step leaves the calls of the others alone.
Frame(p) ==
  \A q \in Procs \ {p} :
     pc'[q] = pc[q] /\ op'[q] = op[q] /\ copy'[q] = copy[q] /\ res'[q] = res[q]

\* The steps between which a holder of the flock computes, writes and renames.
Quiet(p) ==
  \/ Call(p) \/ Return(p) \/ Read(p) \/ Acquire(p) \/ Busy(p) \/ Retry(p)
  \/ ContextEnds(p) \/ Release(p) \/ LockNotes(p) \/ WriteHalf1(p)
  \/ WriteHalf2(p) \/ UnlockNotes(p) \/ Fails(p) \/ Crash(p)

\* What a call has computed stays right while the file stays.
LEMMA ReadyKept ==
  ASSUME NEW q \in Procs, file' = file,
         op'[q] = op[q], copy'[q] = copy[q], res'[q] = res[q]
  PROVE  /\ WriterReady(q) => WriterReady(q)'
         /\ ClearReady(q) => ClearReady(q)'
<1>1. Gone(q)' = Gone(q)
  BY DEF Gone
<1>2. WriterReady(q) => WriterReady(q)'
  BY DEF WriterReady
<1>3. ClearReady(q) => ClearReady(q)'
  BY <1>1, Zenon DEF ClearReady
<1> QED
  BY <1>2, <1>3

\* A step away from the entries' file does not change it, and writes a
\* temporary file only under the lock.
LEMMA QuietFrame ==
  ASSUME IInv, NEW p \in Procs, Quiet(p)
  PROVE  /\ file' = file
         /\ Frame(p)
         /\ pc'[p] \notin {"tmp", "rename"}
         /\ tmp' # tmp => lock = p
<1> USE DEF IInv, TypeOK, FunInv, Frame, At, Goto, Answer, Returns, Learn, Holding, Noting,
           storeVars, noteVars
<1>1. CASE Call(p)
  BY <1>1, CallEffect DEF Call
<1>2. CASE Return(p) \/ Read(p) \/ Acquire(p) \/ Retry(p) \/ ContextEnds(p) \/ Release(p)
  BY <1>2 DEF Return, Read, Acquire, Retry, ContextEnds, Release
<1>3. CASE Busy(p)
  BY <1>3 DEF Busy
<1>4. CASE LockNotes(p) \/ WriteHalf1(p) \/ WriteHalf2(p) \/ UnlockNotes(p)
  BY <1>4 DEF LockNotes, WriteHalf1, WriteHalf2, UnlockNotes
<1>5. CASE Fails(p)
  BY <1>5 DEF Fails
<1>6. CASE Crash(p)
  BY <1>6 DEF Crash
<1> QED
  BY <1>1, <1>2, <1>3, <1>4, <1>5, <1>6 DEF Quiet

\* So it disturbs no copy that is about to be written.
LEMMA QuietCopies ==
  ASSUME IInv, NEW p \in Procs, Quiet(p)
  PROVE  CopyInv' /\ TmpInv'
<1>1. CopyInv'
  BY QuietFrame, ReadyKept DEF IInv, Frame, CopyInv
<1>2. TmpInv'
  BY QuietFrame, StateStoreAssumption DEF IInv, Frame, TmpInv, TypeOK, Holding
<1> QED
  BY <1>1, <1>2

\* After reading the file a call is about to write what the file asks for.
LEMMA LoadCopies ==
  ASSUME IInv, NEW p \in Procs, Load(p)
  PROVE  CopyInv' /\ TmpInv'
<1> USE DEF IInv
<1>1. Frame(p) /\ file' = file /\ tmp' = tmp /\ op' = op /\ pc[p] = "load"
  BY LoadEffect DEF Frame, TypeOK, FunInv
<1>2. pc'[p] = "tmp" =>
        /\ op[p].name \in Writers => WriterReady(p)'
        /\ op[p].name = "clear" => ClearReady(p)'
  <2> SUFFICES ASSUME pc'[p] = "tmp"
               PROVE  /\ op[p].name \in Writers => WriterReady(p)'
                      /\ op[p].name = "clear" => ClearReady(p)'
    OBVIOUS
  <2>1. \A a : ~Refuse(p, a)
    BY DEF Refuse, Goto, TypeOK
  <2>2. CASE LoadWrite(p)
    BY <1>1, <2>2 DEF LoadWrite, Put, Prepare, Answer, WriterReady, FunInv, Writers
  <2>3. CASE LoadWriteIf(p)
    BY <1>1, <2>1, <2>3 DEF LoadWriteIf, Put, Prepare, Answer, WriterReady, FunInv, Writers
  <2>4. CASE LoadClear(p)
    BY <1>1, <2>1, <2>4 DEF LoadClear, Prepare, Answer, ClearReady, Gone, FunInv, Writers
  <2> QED
    BY <2>2, <2>3, <2>4 DEF Load
<1>3. pc'[p] # "rename"
  BY LoadEffect DEF TypeOK
<1>4. CopyInv'
  BY <1>1, <1>2, <1>3, ReadyKept DEF Frame, CopyInv
<1>5. TmpInv'
  BY <1>1, <1>3 DEF Frame, TmpInv
<1> QED
  BY <1>4, <1>5

\* A holder of the lock writes what it has made of the file.
LEMMA WriteTmpCopies ==
  ASSUME IInv, NEW p \in Procs, WriteTmp(p)
  PROVE  CopyInv' /\ TmpInv'
<1> USE DEF IInv, WriteTmp, At, Goto, noteVars
<1>1. CopyInv'
  <2>1. \A q \in Procs : pc'[q] \in {"tmp", "rename"} => pc[q] \in {"tmp", "rename"}
    BY DEF TypeOK
  <2> QED
    BY <2>1, ReadyKept DEF CopyInv
<1>2. TmpInv'
  BY StateStoreAssumption DEF TypeOK, TmpInv, Holding
<1> QED
  BY <1>1, <1>2

\* Nobody else holds the flock, so nobody else has a copy of what was.
LEMMA RenameCopies ==
  ASSUME IInv, NEW p \in Procs, Rename(p)
  PROVE  CopyInv' /\ TmpInv'
<1>1. \A q \in Procs : pc'[q] \notin {"tmp", "rename"}
  BY DEF IInv, TypeOK, Rename, At, Goto, Holding
<1> QED
  BY <1>1 DEF CopyInv, TmpInv

-----------------------------------------------------------------------------
\* Versions and what is known of them stay while nobody learns or writes.
LEMMA SeenKept ==
  ASSUME SeenInv, UNCHANGED <<file, seen, cleared>>,
         \A q \in Procs :
           pc'[q] \notin {"idle", "release", "done"} =>
             op'[q] = op[q] /\ pc[q] \notin {"idle", "release", "done"}
  PROVE  SeenInv'
  BY DEF SeenInv

\* A step that neither begins a call nor reads nor renames leaves what was
\* learned and what is there.
LEMMA MostSeen ==
  ASSUME IInv, NEW p \in Procs,
         \/ Return(p) \/ Acquire(p) \/ Busy(p) \/ Retry(p) \/ ContextEnds(p)
         \/ Load(p) \/ WriteTmp(p) \/ Release(p) \/ LockNotes(p) \/ WriteHalf1(p)
         \/ WriteHalf2(p) \/ UnlockNotes(p) \/ Fails(p)
  PROVE  SeenInv'
<1> USE DEF IInv, TypeOK, FunInv, At, Goto, Returns, storeVars, noteVars
<1>1. CASE Return(p) \/ Acquire(p) \/ Busy(p) \/ Retry(p) \/ ContextEnds(p) \/ Release(p)
  BY <1>1, SeenKept DEF Return, Acquire, Busy, Retry, ContextEnds, Release
<1>2. CASE Load(p)
  BY <1>2, LoadEffect, SeenKept
<1>3. CASE WriteTmp(p)
  BY <1>3, SeenKept DEF WriteTmp
<1>4. CASE LockNotes(p) \/ WriteHalf1(p) \/ WriteHalf2(p) \/ UnlockNotes(p)
  BY <1>4, SeenKept DEF LockNotes, WriteHalf1, WriteHalf2, UnlockNotes
<1>5. CASE Fails(p)
  BY <1>5, SeenKept DEF Fails, Holding, Noting
<1> QED
  BY <1>1, <1>2, <1>3, <1>4, <1>5

\* A caller of WriteIfVersion passes what it knows.
LEMMA CallSeen ==
  ASSUME IInv, NEW p \in Procs, Call(p)
  PROVE  SeenInv'
<1>1. PICK o \in Ops(p) : o \in AllOps /\ op' = [op EXCEPT ![p] = o]
  BY CallEffect
<1>2. o.name = "writeIf" => o.exp = seen[p][o.key].v
  BY <1>1 DEF Ops
<1>3. UNCHANGED <<file, seen, cleared>>
  BY DEF Call, storeVars
<1>4. \A q \in Procs : q # p => pc'[q] = pc[q] /\ op'[q] = op[q]
  BY QuietFrame DEF Quiet, Frame
<1>5. op'[p] = o
  BY <1>1 DEF IInv, FunInv
<1> QED
  BY <1>2, <1>3, <1>4, <1>5 DEF IInv, SeenInv

\* A read learns an entry that is there.
LEMMA ReadSeen ==
  ASSUME IInv, NEW p \in Procs, Read(p)
  PROVE  SeenInv'
<1> DEFINE k == op[p].key
<1>1. k \in Keys
  BY OpFields DEF IInv, OpInv, Read, At
<1>2. /\ seen' = [seen EXCEPT ![p][k] = file[k]]
      /\ cleared' = [cleared EXCEPT ![p] = @ \ {k}]
      /\ file' = file /\ op' = op /\ pc' = [pc EXCEPT ![p] = "done"]
  BY DEF Read, Learn, Goto, storeVars
<1>3. file[k].v \in Nat
  BY <1>1 DEF IInv, TypeOK, Files, Entries
<1>4. \A q \in Procs, j \in Keys :
        /\ seen'[q][j] = IF q = p /\ j = k THEN file[k] ELSE seen[q][j]
        /\ j \notin cleared'[q] /\ ~(q = p /\ j = k) => j \notin cleared[q]
  BY <1>1, <1>2 DEF IInv, TypeOK, Files
<1>5. \A q \in Procs : pc'[q] \notin {"idle", "release", "done"} =>
                          q # p /\ pc'[q] = pc[q] /\ seen'[q] = seen[q]
  BY <1>2 DEF IInv, TypeOK
<1> QED
  BY <1>1, <1>2, <1>3, <1>4, <1>5 DEF IInv, SeenInv

\* The successor of a process that died knows nothing.
LEMMA CrashSeen ==
  ASSUME IInv, NEW p \in Procs, Crash(p)
  PROVE  SeenInv'
<1>1. /\ file' = file
      /\ seen' = [seen EXCEPT ![p] = [k \in Keys |-> Absent]]
      /\ cleared' = [cleared EXCEPT ![p] = {}]
  BY DEF Crash
<1>2. \A q \in Procs \ {p} :
        pc'[q] = pc[q] /\ op'[q] = op[q] /\ seen'[q] = seen[q] /\ cleared'[q] = cleared[q]
  BY <1>1, QuietFrame DEF Quiet, Frame, IInv, TypeOK
<1>3. pc'[p] = "idle"
  BY DEF Crash, Goto, IInv, TypeOK
<1>4. \A k \in Keys : seen'[p][k] = Absent /\ file[k].v \in Nat
  BY <1>1 DEF IInv, TypeOK, Files, Entries
<1> QED
  BY <1>1, <1>2, <1>3, <1>4 DEF IInv, SeenInv, Absent

\* A write makes a version that nobody knows, a Clear excuses everybody.
LEMMA RenameSeen ==
  ASSUME IInv, NEW p \in Procs, Rename(p)
  PROVE  SeenInv'
<1> DEFINE k == op[p].key
<1>1. /\ op' = op /\ pc' = [pc EXCEPT ![p] = "release"]
      /\ pc[p] = "rename" /\ file' = copy[p]
  BY DEF Rename, At, Goto, IInv, TmpInv
<1>2. op[p] \in AllOps /\ op[p].name \in Writers \cup {"clear"}
  BY <1>1 DEF IInv, OpInv, Holding
<1>3. \A j \in Keys : file[j] \in Entries /\ file[j].v \in Nat
  BY DEF IInv, TypeOK, Files, Entries
<1>4. CASE op[p].name \in Writers
  <2>1. k \in Keys
    BY <1>2, <1>4, OpFields
  <2>2. file' = [file EXCEPT ![k] = [v |-> file[k].v + 1, val |-> op[p].val]]
    BY <1>1, <1>4 DEF IInv, CopyInv, WriterReady
  <2>3. /\ seen' = [seen EXCEPT ![p][k] = file'[k]]
        /\ cleared' = [cleared EXCEPT ![p] = @ \ {k}]
    BY <1>1, <1>4 DEF Rename, Learn
  <2>4. /\ file'[k].v = file[k].v + 1
        /\ \A j \in Keys \ {k} : file'[j] = file[j]
    BY <2>1, <2>2 DEF IInv, TypeOK, Files
  <2>5. \A q \in Procs, j \in Keys :
          /\ seen'[q][j] = IF q = p /\ j = k THEN file'[k] ELSE seen[q][j]
          /\ j \notin cleared'[q] /\ ~(q = p /\ j = k) => j \notin cleared[q]
    BY <2>1, <2>3 DEF IInv, TypeOK, Files
  <2>6. \A q \in Procs : pc'[q] \notin {"idle", "release", "done"} =>
                            q # p /\ pc'[q] = pc[q] /\ seen'[q] = seen[q]
    BY <1>1, <2>3 DEF IInv, TypeOK
  <2>7. \A j \in Keys : file'[j].v = 0 => file'[j] = Absent
    BY <1>3, <2>1, <2>4 DEF IInv, SeenInv
  <2>8. \A q \in Procs, j \in Keys : j \notin cleared'[q] =>
          /\ seen'[q][j].v <= file'[j].v
          /\ seen'[q][j].v = file'[j].v => seen'[q][j] = file'[j]
    <3> SUFFICES ASSUME NEW q \in Procs, NEW j \in Keys, j \notin cleared'[q]
                 PROVE  /\ seen'[q][j].v <= file'[j].v
                        /\ seen'[q][j].v = file'[j].v => seen'[q][j] = file'[j]
      OBVIOUS
    <3>1. CASE q = p /\ j = k
      BY <1>3, <2>1, <2>4, <2>5, <3>1
    <3>2. CASE ~(q = p /\ j = k)
      <4>1. /\ seen'[q][j] = seen[q][j]
            /\ seen[q][j].v <= file[j].v
            /\ seen[q][j].v = file[j].v => seen[q][j] = file[j]
        BY <2>5, <3>2 DEF IInv, SeenInv
      <4>2. seen[q][j].v \in Nat
        BY DEF IInv, TypeOK, Files, Entries
      <4> QED
        BY <1>3, <2>1, <2>4, <4>1, <4>2
    <3> QED
      BY <3>1, <3>2
  <2> QED
    BY <1>1, <2>6, <2>7, <2>8 DEF IInv, SeenInv
<1>5. CASE op[p].name = "clear"
  <2>1. file' = [j \in Keys |-> IF j \in Gone(p) THEN Absent ELSE file[j]]
    BY <1>1, <1>5 DEF IInv, CopyInv, ClearReady
  <2>2. /\ seen' = seen
        /\ cleared' = [q \in Procs |-> cleared[q] \cup op[p].keys]
    BY <1>5 DEF Rename, Writers
  <2>3. \A q \in Procs, j \in Keys : j \notin cleared'[q] =>
          j \notin cleared[q] /\ file'[j] = file[j]
    BY <2>1, <2>2 DEF Gone
  <2>4. \A q \in Procs : pc'[q] \notin {"idle", "release", "done"} => pc'[q] = pc[q]
    BY <1>1 DEF IInv, TypeOK
  <2>5. \A j \in Keys : file'[j].v = 0 => file'[j] = Absent
    BY <2>1 DEF IInv, SeenInv
  <2> QED
    BY <1>1, <2>2, <2>3, <2>4, <2>5 DEF IInv, SeenInv
<1> QED
  BY <1>2, <1>4, <1>5

-----------------------------------------------------------------------------
\* Every step keeps the invariant.
LEMMA NextInv == IInv /\ [Next]_vars => IInv'
<1> SUFFICES ASSUME IInv, [Next]_vars
             PROVE  IInv'
  OBVIOUS
<1>1. CASE Next
  <2>1. PICK p \in Procs : Quiet(p) \/ Load(p) \/ WriteTmp(p) \/ Rename(p)
    BY <1>1, Zenon DEF Next, Quiet
  <2>2. TypeOK' /\ FunInv' /\ OpInv'
    BY <2>1, CallTypes, ReturnTypes, ReadTypes, AcquireTypes, BusyTypes, RetryTypes,
       ContextEndsTypes, LoadTypes, WriteTmpTypes, RenameTypes, ReleaseTypes, LockNotesTypes,
       WriteHalf1Types, WriteHalf2Types, UnlockNotesTypes, FailsTypes, CrashTypes, Zenon
       DEF Quiet
  <2>3. CopyInv' /\ TmpInv'
    BY <2>1, QuietCopies, LoadCopies, WriteTmpCopies, RenameCopies, Zenon
  <2>4. SeenInv'
    BY <2>1, MostSeen, CallSeen, ReadSeen, CrashSeen, RenameSeen, Zenon DEF Quiet
  <2> QED
    BY <2>2, <2>3, <2>4 DEF IInv
<1>2. CASE UNCHANGED vars
  <2>1. UNCHANGED <<file, tmp, lock, notes, noteLock, pc, op, copy, res, seen, cleared, calls>>
    BY <1>2 DEF vars, storeVars, noteVars, callVars
  <2>2. TypeOK' /\ FunInv' /\ OpInv' /\ TmpInv' /\ SeenInv'
    BY <2>1 DEF IInv, TypeOK, FunInv, OpInv, TmpInv, SeenInv
  <2>3. CopyInv'
    BY <2>1, ReadyKept DEF IInv, CopyInv
  <2> QED
    BY <2>2, <2>3 DEF IInv
<1> QED
  BY <1>1, <1>2

\* The invariant holds throughout.
LEMMA Invariance == Spec => []IInv
<1> QED
  BY InitInv, NextInv, PTL DEF Spec

\* The types, and that each flock is held by a call on its way to release it.
THEOREM TypeCorrect == Spec => []TypeOK
<1>1. IInv => TypeOK
  BY DEF IInv
<1> QED
  BY <1>1, Invariance, PTL

\* A WriteIfVersion replaces exactly what its caller last learned of the key,
\* unless a Clear ran over it since (WriteIfVersion in store.go).
THEOREM OptimisticWritesSafe == Spec => OptimisticSafe
<1>1. ASSUME IInv, NEW p \in Procs,
             At(p, "rename"), op[p].name = "writeIf", op[p].key \notin cleared[p]
      PROVE  file[op[p].key] = seen[p][op[p].key]
  <2>1. op[p].key \in Keys
    BY <1>1, OpFields DEF At, IInv, OpInv, Writers
  <2>2. file[op[p].key].v = op[p].exp
    BY <1>1 DEF At, IInv, CopyInv, WriterReady, Writers
  <2>3. op[p].exp = seen[p][op[p].key].v
    BY <1>1 DEF At, IInv, SeenInv
  <2> QED
    BY <1>1, <2>1, <2>2, <2>3 DEF IInv, SeenInv
<1>2. IInv =>
        \A p \in Procs :
          At(p, "rename") /\ pc'[p] = "release" /\ op[p].name = "writeIf"
            /\ file' # file /\ op[p].key \notin cleared[p]
            => file[op[p].key] = seen[p][op[p].key]
  BY <1>1
<1> QED
  BY <1>2, Invariance, PTL DEF OptimisticSafe

-----------------------------------------------------------------------------
\* The refinement: a call takes effect in the map when its answer is settled.
LEMMA AbsOps ==
  ASSUME NEW o \in AllOps, o.name # "append"
  PROVE  o \in Abstract!Ops
  BY SMT DEF AllOps, Abstract!Ops

\* No step of a process touches what another has.
LEMMA EveryFrame ==
  ASSUME IInv, NEW p \in Procs,
         Quiet(p) \/ Load(p) \/ WriteTmp(p) \/ Rename(p)
  PROVE  Frame(p)
<1>1. CASE Quiet(p)
  BY <1>1, QuietFrame
<1>2. CASE Load(p)
  BY <1>2, LoadEffect DEF IInv, TypeOK, FunInv, Frame
<1>3. CASE WriteTmp(p)
  BY <1>3 DEF IInv, TypeOK, WriteTmp, Goto, Frame
<1>4. CASE Rename(p)
  BY <1>4 DEF IInv, TypeOK, FunInv, Rename, Goto, Frame
<1> QED
  BY <1>1, <1>2, <1>3, <1>4

\* A step of p is seen in the map as a step of p.
LEMMA AbsFrame ==
  ASSUME NEW p \in Procs, Frame(p)
  PROVE  /\ absCall' = [absCall EXCEPT ![p] = absCall'[p]]
         /\ absAnswer' = [absAnswer EXCEPT ![p] = absAnswer'[p]]
<1>1. \A q \in Procs \ {p} : absCall'[q] = absCall[q] /\ absAnswer'[q] = absAnswer[q]
  BY DEF Frame, absCall, absAnswer, Called, Effective, At
<1> QED
  BY <1>1 DEF absCall, absAnswer

\* The steps that do not show in the map.
LEMMA Stutters ==
  ASSUME NEW p \in Procs, Frame(p), file' = file,
         absCall'[p] = absCall[p], absAnswer'[p] = absAnswer[p]
  PROVE  UNCHANGED Abstract!mapVars
<1>1. absCall' = absCall
  BY AbsFrame DEF absCall
<1>2. absAnswer' = absAnswer
  BY AbsFrame DEF absAnswer
<1> QED
  BY <1>1, <1>2 DEF Abstract!mapVars

\* A call that answers with an error.
LEMMA GivesUp ==
  ASSUME IInv, NEW p \in Procs, Frame(p), file' = file,
         Called(p), ~Effective(p), Called(p)', Effective(p)', op'[p] = op[p],
         res'[p] = <<"error">>
  PROVE  Abstract!TakeEffect(p)
<1>1. absCall[p] \in Abstract!Ops /\ absCall'[p] = absCall[p] /\ absAnswer[p] = None
  BY AbsOps DEF IInv, OpInv, Called, At, absCall, absAnswer
<1>2. absCall' = absCall
  BY <1>1, AbsFrame DEF absCall
<1>3. absAnswer' = [absAnswer EXCEPT ![p] = <<"error">>]
  BY AbsFrame DEF absAnswer
<1> QED
  BY <1>1, <1>2, <1>3 DEF Abstract!TakeEffect, Abstract!GiveUp, Abstract!Give

\* A call that is over for its caller.
LEMMA Ends ==
  ASSUME IInv, NEW p \in Procs, Frame(p), file' = file, Called(p), ~Called(p)'
  PROVE  Abstract!End(p)
<1>1. absCall[p] \in Abstract!Ops /\ absCall'[p] = None /\ absAnswer'[p] = None
  BY AbsOps DEF IInv, OpInv, Called, At, absCall, absAnswer
<1> QED
  BY <1>1, AbsFrame DEF Abstract!End

\* What the map may do when the store takes a step of p.
AbsStep(p) ==
  \/ Abstract!Begin(p) \/ Abstract!TakeEffect(p) \/ Abstract!End(p)
  \/ UNCHANGED Abstract!mapVars

\* To the versioned map, a call begins where it is called.
LEMMA AbsBegins ==
  ASSUME IInv, NEW p \in Procs, Call(p), Frame(p)
  PROVE  AbsStep(p)
<1>1. PICK o \in AllOps :
        /\ op' = [op EXCEPT ![p] = o]
        /\ \/ o.name = "read" /\ pc' = [pc EXCEPT ![p] = "open"]
           \/ o.name = "append" /\ pc' = [pc EXCEPT ![p] = "noteLock"]
           \/ o.name \in Writers \cup {"clear"} /\ pc' = [pc EXCEPT ![p] = "lock"]
  BY CallEffect
<1>2. /\ op'[p] = o /\ file' = file /\ ~Called(p)
      /\ ~Effective(p)' /\ pc'[p] # "idle"
  BY <1>1 DEF IInv, TypeOK, FunInv, Call, Called, Effective, At, storeVars
<1>3. absCall[p] = None /\ absAnswer[p] = None /\ absAnswer'[p] = None
  BY <1>2 DEF absCall, absAnswer
<1>4. CASE o.name = "append"
  <2>1. absCall'[p] = None
    BY <1>2, <1>4 DEF absCall, Called
  <2> QED
    BY <1>2, <1>3, <2>1, Stutters DEF AbsStep
<1>5. CASE o.name # "append"
  <2>1. absCall'[p] = o /\ o \in Abstract!Ops
    BY <1>2, <1>5, AbsOps DEF absCall, Called, At
  <2>2. absAnswer' = absAnswer
    BY <1>3, AbsFrame DEF absAnswer
  <2> QED
    BY <1>2, <1>3, <2>1, <2>2, AbsFrame DEF AbsStep, Abstract!Begin
<1> QED
  BY <1>4, <1>5

\* The steps before and after the instant of effect are stutters, or the
\* return of the answer.
LEMMA AbsQuiet ==
  ASSUME IInv, NEW p \in Procs, Frame(p),
         \/ Return(p) \/ Acquire(p) \/ Retry(p) \/ Release(p) \/ WriteTmp(p)
         \/ LockNotes(p) \/ WriteHalf1(p) \/ WriteHalf2(p) \/ UnlockNotes(p)
         \/ Crash(p)
  PROVE  AbsStep(p)
<1> USE DEF IInv, TypeOK, FunInv, At, Goto, Answer, Returns, storeVars, noteVars
<1>1. CASE Return(p) \/ Release(p) \/ UnlockNotes(p) \/ Crash(p)
  <2>1. file' = file /\ pc'[p] = "idle"
    BY <1>1 DEF Return, Release, UnlockNotes, Crash
  <2>2. CASE Called(p)
    BY <2>1, <2>2, Ends DEF AbsStep, Called
  <2>3. CASE ~Called(p)
    <3>1. absCall'[p] = absCall[p] /\ absAnswer'[p] = absAnswer[p]
      BY <2>1, <2>3 DEF absCall, absAnswer, Called
    <3> QED
      BY <2>1, <3>1, Stutters DEF AbsStep
  <2> QED
    BY <2>2, <2>3
<1>2. CASE Acquire(p) \/ Retry(p) \/ WriteTmp(p)
  <2>1. /\ file' = file /\ op' = op
        /\ pc[p] \in {"lock", "backoff", "tmp"} /\ pc'[p] \in {"load", "lock", "rename"}
    BY <1>2 DEF Acquire, Retry, WriteTmp
  <2>2. absCall'[p] = absCall[p] /\ absAnswer'[p] = absAnswer[p]
    BY <2>1 DEF absCall, absAnswer, Called, Effective
  <2> QED
    BY <2>1, <2>2, Stutters DEF AbsStep
<1>3. CASE LockNotes(p) \/ WriteHalf1(p) \/ WriteHalf2(p)
  <2>1. file' = file /\ op' = op /\ op[p].name = "append"
    BY <1>3 DEF LockNotes, WriteHalf1, WriteHalf2, OpInv, Noting
  <2>2. absCall'[p] = absCall[p] /\ absAnswer'[p] = absAnswer[p]
    BY <2>1 DEF absCall, absAnswer, Called
  <2> QED
    BY <2>1, <2>2, Stutters DEF AbsStep
<1> QED
  BY <1>1, <1>2, <1>3

\* A busy lock, a context that is over and a failing system call change nothing.
LEMMA AbsErrors ==
  ASSUME IInv, NEW p \in Procs, Frame(p), Busy(p) \/ ContextEnds(p) \/ Fails(p)
  PROVE  AbsStep(p)
<1> USE DEF IInv, TypeOK, FunInv, At, Goto, Answer, storeVars, noteVars
<1>1. /\ file' = file /\ op' = op
      /\ pc[p] \notin {"idle", "release", "done"} /\ pc'[p] # "idle"
  BY DEF Busy, ContextEnds, Fails
<1>2. CASE op[p].name = "append"
  <2>1. absCall'[p] = absCall[p] /\ absAnswer'[p] = absAnswer[p]
    BY <1>1, <1>2 DEF absCall, absAnswer, Called
  <2> QED
    BY <1>1, <2>1, Stutters DEF AbsStep
<1>3. CASE Busy(p) /\ op[p].name = "retry"
  <2>1. pc'[p] = "backoff"
    BY <1>3 DEF Busy
  <2>2. absCall'[p] = absCall[p] /\ absAnswer'[p] = absAnswer[p]
    BY <1>1, <2>1 DEF absCall, absAnswer, Called, Effective
  <2> QED
    BY <1>1, <2>2, Stutters DEF AbsStep
<1>4. CASE op[p].name # "append" /\ ~(Busy(p) /\ op[p].name = "retry")
  <2>1. pc[p] \notin Noting \cup {"noteLock"}
    BY <1>4 DEF OpInv
  <2>2. res'[p] = <<"error">> /\ pc'[p] \in {"release", "done"}
    BY <1>4, <2>1 DEF Busy, ContextEnds, Fails, Holding
  <2>3. Called(p) /\ ~Effective(p) /\ Called(p)' /\ Effective(p)'
    BY <1>1, <1>4, <2>2 DEF Called, Effective
  <2> QED
    BY <1>1, <2>2, <2>3, GivesUp DEF AbsStep
<1> QED
  BY <1>2, <1>3, <1>4

\* What the map sees of a call of p that takes its effect in this step.
LEMMA Takes ==
  ASSUME IInv, NEW p \in Procs, Frame(p), op' = op,
         op[p].name # "append", pc[p] \notin {"idle", "release", "done"},
         pc'[p] \in {"release", "done"}
  PROVE  /\ absCall' = absCall
         /\ absCall[p] = op[p] /\ absCall[p] \in Abstract!Ops
         /\ absAnswer[p] = None
         /\ absAnswer' = [absAnswer EXCEPT ![p] = res'[p]]
<1>1. /\ absCall[p] = op[p] /\ absCall'[p] = op[p]
      /\ absAnswer[p] = None /\ absAnswer'[p] = res'[p]
  BY DEF absCall, absAnswer, Called, Effective, At
<1>2. op[p] \in Abstract!Ops
  BY AbsOps DEF IInv, OpInv
<1> QED
  BY <1>1, <1>2, AbsFrame DEF absCall

\* A read takes effect when the file is read.
LEMMA AbsReads ==
  ASSUME IInv, NEW p \in Procs, Frame(p), Read(p)
  PROVE  AbsStep(p)
<1>1. /\ op' = op /\ file' = file /\ op[p].name = "read" /\ pc[p] = "open"
      /\ pc'[p] = "done" /\ res'[p] = <<"ok", file[op[p].key]>>
  BY DEF IInv, TypeOK, FunInv, OpInv, Read, At, Goto, Answer, storeVars
<1>2. /\ absCall' = absCall
      /\ absCall[p] = op[p] /\ absCall[p] \in Abstract!Ops
      /\ absAnswer[p] = None
      /\ absAnswer' = [absAnswer EXCEPT ![p] = res'[p]]
  BY <1>1, Takes
<1>3. Abstract!Read(p)
  BY <1>1, <1>2 DEF Abstract!Read, Abstract!Give
<1> QED
  BY <1>2, <1>3 DEF AbsStep, Abstract!TakeEffect

\* A WriteIfVersion that finds another version and a Clear that finds nothing
\* have had their effect when they have read the file.
LEMMA AbsLoads ==
  ASSUME IInv, NEW p \in Procs, Frame(p), Load(p)
  PROVE  AbsStep(p)
<1>1. /\ op' = op /\ file' = file /\ pc[p] = "load" /\ pc'[p] \in {"tmp", "release"}
      /\ op[p].name \in Writers \cup {"clear"}
  BY LoadEffect DEF IInv, TypeOK, OpInv, Holding
<1>2. CASE pc'[p] = "tmp"
  <2>1. absCall'[p] = absCall[p] /\ absAnswer'[p] = absAnswer[p]
    BY <1>1, <1>2 DEF absCall, absAnswer, Called, Effective, At
  <2> QED
    BY <1>1, <2>1, Stutters DEF AbsStep
<1>3. CASE pc'[p] = "release"
  <2>1. /\ absCall' = absCall
        /\ absCall[p] = op[p] /\ absCall[p] \in Abstract!Ops
        /\ absAnswer[p] = None
        /\ absAnswer' = [absAnswer EXCEPT ![p] = res'[p]]
    BY <1>1, <1>3, Takes DEF Writers
  <2>2. \A f, a : ~Prepare(p, f, a)
    BY <1>3 DEF Prepare, Goto, IInv, TypeOK
  <2>3. CASE LoadWriteIf(p)
    <3>1. /\ op[p].name = "writeIf" /\ file[op[p].key].v # op[p].exp
          /\ res'[p] = <<"mismatch", file[op[p].key].v>>
      BY <2>2, <2>3 DEF LoadWriteIf, Put, Refuse, Answer, IInv, FunInv
    <3>2. Abstract!WriteIf(p)
      BY <1>1, <2>1, <3>1 DEF Abstract!WriteIf, Abstract!Give
    <3> QED
      BY <2>1, <3>2 DEF AbsStep, Abstract!TakeEffect
  <2>4. CASE LoadClear(p)
    <3>1. op[p].name = "clear" /\ Gone(p) = {} /\ res'[p] = <<"ok", {}>>
      BY <2>2, <2>4 DEF LoadClear, Refuse, Answer, IInv, FunInv
    <3> DEFINE gone == {k \in Keys : k \in absCall[p].keys /\ file[k] # Abstract!Absent}
    <3>2. gone = {}
      <4>1. op[p].keys \in SUBSET Keys
        BY <1>1, <3>1, OpFields DEF IInv, OpInv
      <4> QED
        BY <2>1, <3>1, <4>1 DEF Gone, Absent, Abstract!Absent
    <3>4. file' = [k \in Keys |-> IF k \in gone THEN Abstract!Absent ELSE file[k]]
      BY <1>1, <3>2 DEF IInv, TypeOK, Files
    <3>5. absAnswer' = [absAnswer EXCEPT ![p] = <<"ok", gone>>]
      BY <2>1, <3>1, <3>2
    <3>6. Abstract!Clear(p)
      BY <2>1, <3>1, <3>4, <3>5, Zenon DEF Abstract!Clear, Abstract!Give
    <3> QED
      BY <2>1, <3>6 DEF AbsStep, Abstract!TakeEffect
  <2>5. ~LoadWrite(p)
    BY <2>2 DEF LoadWrite, Put
  <2> QED
    BY <2>3, <2>4, <2>5 DEF Load
<1> QED
  BY <1>1, <1>2, <1>3

\* All other effects are renames.
LEMMA AbsRenames ==
  ASSUME IInv, NEW p \in Procs, Frame(p), Rename(p)
  PROVE  AbsStep(p)
<1>1. /\ op' = op /\ res' = res /\ file' = copy[p] /\ pc[p] = "rename" /\ pc'[p] = "release"
      /\ op[p] \in AllOps /\ op[p].name \in Writers \cup {"clear"}
  BY DEF Rename, At, Goto, IInv, TypeOK, TmpInv, OpInv, Holding
<1>2. /\ absCall' = absCall
      /\ absCall[p] = op[p] /\ absCall[p] \in Abstract!Ops
      /\ absAnswer[p] = None
      /\ absAnswer' = [absAnswer EXCEPT ![p] = res[p]]
  BY <1>1, Takes DEF Writers
<1>3. CASE op[p].name \in Writers
  <2>1. WriterReady(p)
    BY <1>1, <1>3 DEF IInv, CopyInv
  <2>2. Abstract!Put(p)
    BY <1>1, <1>2, <2>1 DEF WriterReady, Abstract!Put, Abstract!Give, IInv, TypeOK, Files
  <2>3. Abstract!Write(p) \/ Abstract!WriteIf(p)
    BY <1>2, <1>3, <2>1, <2>2 DEF WriterReady, Writers, Abstract!Write, Abstract!WriteIf
  <2> QED
    BY <1>2, <2>3 DEF AbsStep, Abstract!TakeEffect
<1>4. CASE op[p].name = "clear"
  <2>1. ClearReady(p)
    BY <1>1, <1>4 DEF IInv, CopyInv
  <2> DEFINE gone == {k \in Keys : k \in absCall[p].keys /\ file[k] # Abstract!Absent}
  <2>2. gone = Gone(p)
    <3>1. op[p].keys \in SUBSET Keys
      BY <1>1, <1>4, OpFields
    <3> QED
      BY <1>2, <3>1 DEF Gone, Absent, Abstract!Absent
  <2>3. file' = [k \in Keys |-> IF k \in gone THEN Abstract!Absent ELSE file[k]]
    BY <1>1, <2>1, <2>2 DEF ClearReady, Absent, Abstract!Absent
  <2>4. absAnswer' = [absAnswer EXCEPT ![p] = <<"ok", gone>>]
    BY <1>2, <2>1, <2>2 DEF ClearReady
  <2>5. Abstract!Clear(p)
    BY <1>2, <1>4, <2>3, <2>4, Zenon DEF Abstract!Clear, Abstract!Give
  <2> QED
    BY <1>2, <2>5 DEF AbsStep, Abstract!TakeEffect
<1> QED
  BY <1>1, <1>3, <1>4

\* The store implements the map: every call takes effect at one instant, and
\* one that answers with an error not at all (store.go and lock.go).
THEOREM Refinement == Spec => ImplementsVersionedMap
<1>1. Init => Abstract!Init
  BY DEF Init, Abstract!Init, absCall, absAnswer, Called, At, Absent, Abstract!Absent
<1>2. IInv /\ [Next]_vars => [Abstract!Next]_(Abstract!mapVars)
  <2> SUFFICES ASSUME IInv, [Next]_vars
               PROVE  [Abstract!Next]_(Abstract!mapVars)
    OBVIOUS
  <2>1. CASE Next
    <3>1. PICK p \in Procs : Quiet(p) \/ Load(p) \/ WriteTmp(p) \/ Rename(p)
      BY <2>1, Zenon DEF Next, Quiet
    <3>2. Frame(p)
      BY <3>1, EveryFrame
    <3>3. AbsStep(p)
      BY <3>1, <3>2, AbsBegins, AbsQuiet, AbsErrors, AbsReads, AbsLoads, AbsRenames, Zenon
         DEF Quiet
    <3> QED
      BY <3>3, Zenon DEF AbsStep, Abstract!Next
  <2>2. CASE UNCHANGED vars
    <3>1. UNCHANGED <<file, pc, op, res>>
      BY <2>2 DEF vars, storeVars, callVars
    <3> QED
      BY <3>1 DEF Abstract!mapVars, absCall, absAnswer, Called, Effective, At
  <2> QED
    BY <2>1, <2>2
<1> QED
  BY <1>1, <1>2, Invariance, PTL DEF Spec, ImplementsVersionedMap, Abstract!Spec

-----------------------------------------------------------------------------
\* The append file: behind the first half of a value there is room for nobody
\* else's bytes until its writer has let go of the flock.
NoteInv ==
  /\ notes \in Seq([id : Nat, half : {1, 2}])
  /\ \A i \in 1..Len(notes) : notes[i].half = 2 =>
       i > 1 /\ notes[i - 1] = [notes[i] EXCEPT !.half = 1]
  /\ \A p \in Procs : pc[p] = "half2" =>
       Len(notes) > 0 /\ notes[Len(notes)] = Half(p, 1)
  /\ \A p \in Procs : pc[p] = "unlock" /\ res[p] = <<"ok">> =>
       \E i \in 1..Len(notes) : notes[i] = Half(p, 2)

\* The steps that leave the append file alone.
LEMMA NotesKept ==
  ASSUME IInv, NoteInv, NEW p \in Procs, Frame(p), notes' = notes,
         pc'[p] = "half2" => pc[p] = "half2" /\ op'[p] = op[p],
         pc'[p] = "unlock" => res'[p] = <<"error">>
  PROVE  NoteInv'
<1>1. \A q \in Procs \ {p} : Half(q, 1)' = Half(q, 1) /\ Half(q, 2)' = Half(q, 2)
  BY DEF Frame, Half
<1>2. pc'[p] = "half2" => Half(p, 1)' = Half(p, 1)
  BY DEF Half
<1> QED
  BY <1>1, <1>2 DEF NoteInv, Frame

\* An append writes the halves of its own value.
LEMMA HalfTyped ==
  ASSUME IInv, NEW p \in Procs, pc[p] \in Noting, NEW n \in {1, 2}
  PROVE  Half(p, n) \in [id : Nat, half : {1, 2}] /\ Half(p, n).half = n
<1>1. op[p] \in AllOps /\ op[p].name = "append"
  BY DEF IInv, OpInv, Noting
<1>2. op[p].id \in Nat
  BY <1>1, SMT DEF AllOps
<1> QED
  BY <1>2 DEF Half

\* The first half of a value is put at the end of the file,
LEMMA Half1Notes ==
  ASSUME IInv, NoteInv, NEW p \in Procs, WriteHalf1(p), Frame(p)
  PROVE  NoteInv'
<1> USE DEF IInv, TypeOK, FunInv, At, Goto, storeVars
<1>1. /\ pc[p] = "half1" /\ pc'[p] = "half2" /\ op' = op /\ res' = res
      /\ notes' = Append(notes, Half(p, 1))
  BY DEF WriteHalf1
<1>2. /\ notes \in Seq([id : Nat, half : {1, 2}])
      /\ Half(p, 1) \in [id : Nat, half : {1, 2}] /\ Half(p, 1).half = 1
  BY <1>1, HalfTyped DEF NoteInv, Noting
<1>3. /\ notes' \in Seq([id : Nat, half : {1, 2}]) /\ Len(notes') = Len(notes) + 1
      /\ Len(notes) \in Nat
      /\ \A i \in 1..Len(notes) : notes'[i] = notes[i]
      /\ notes'[Len(notes) + 1] = Half(p, 1)
  BY <1>1, <1>2
<1>4. \A i \in 1..Len(notes') : notes'[i].half = 2 =>
        i > 1 /\ notes'[i - 1] = [notes'[i] EXCEPT !.half = 1]
  <2> SUFFICES ASSUME NEW i \in 1..Len(notes'), notes'[i].half = 2
               PROVE  i > 1 /\ notes'[i - 1] = [notes'[i] EXCEPT !.half = 1]
    OBVIOUS
  <2>1. i \in 1..Len(notes)
    BY <1>2, <1>3
  <2>2. notes'[i] = notes[i]
    BY <1>3, <2>1
  <2>3. i > 1 /\ notes[i - 1] = [notes[i] EXCEPT !.half = 1]
    BY <2>1, <2>2 DEF NoteInv
  <2>4. i - 1 \in 1..Len(notes)
    BY <1>3, <2>1, <2>3
  <2>5. notes'[i - 1] = notes[i - 1]
    BY <1>3, <2>4
  <2> QED
    BY <2>2, <2>3, <2>5
<1>5. \A q \in Procs : pc'[q] \in {"half2", "unlock"} => q = p
  BY <1>1, StateStoreAssumption DEF Frame, Noting
<1>6. Half(p, 1)' = Half(p, 1)
  BY <1>1 DEF Half
<1>7. notes'[Len(notes')] = Half(p, 1)' /\ Len(notes') > 0
  BY <1>3, <1>6
<1>8. \A q \in Procs : pc'[q] = "half2" =>
        Len(notes') > 0 /\ notes'[Len(notes')] = Half(q, 1)'
  BY <1>5, <1>7
<1>9. \A q \in Procs : pc'[q] # "unlock"
  BY <1>1, <1>5
<1> QED
  BY <1>3, <1>4, <1>8, <1>9 DEF NoteInv

\* and the second behind it, since no other append has the lock.
LEMMA Half2Notes ==
  ASSUME IInv, NoteInv, NEW p \in Procs, WriteHalf2(p), Frame(p)
  PROVE  NoteInv'
<1> USE DEF IInv, TypeOK, FunInv, At, Goto, storeVars
<1>1. /\ pc[p] = "half2" /\ pc'[p] = "unlock" /\ op' = op
      /\ notes' = Append(notes, Half(p, 2))
  BY DEF WriteHalf2
<1>2. /\ notes \in Seq([id : Nat, half : {1, 2}])
      /\ Half(p, 2) \in [id : Nat, half : {1, 2}] /\ Half(p, 2).half = 2
      /\ Len(notes) > 0 /\ notes[Len(notes)] = Half(p, 1)
  BY <1>1, HalfTyped DEF NoteInv, Noting
<1>3. /\ notes' \in Seq([id : Nat, half : {1, 2}]) /\ Len(notes') = Len(notes) + 1
      /\ Len(notes) \in Nat
      /\ \A i \in 1..Len(notes) : notes'[i] = notes[i]
      /\ notes'[Len(notes) + 1] = Half(p, 2)
  BY <1>1, <1>2
<1>4. Half(p, 1) = [Half(p, 2) EXCEPT !.half = 1]
  BY DEF Half
<1>5. \A i \in 1..Len(notes') : notes'[i].half = 2 =>
        i > 1 /\ notes'[i - 1] = [notes'[i] EXCEPT !.half = 1]
  <2> SUFFICES ASSUME NEW i \in 1..Len(notes'), notes'[i].half = 2
               PROVE  i > 1 /\ notes'[i - 1] = [notes'[i] EXCEPT !.half = 1]
    OBVIOUS
  <2>1. CASE i = Len(notes) + 1
    <3>1. notes'[i] = Half(p, 2) /\ i - 1 = Len(notes)
      BY <1>3, <2>1
    <3>2. notes'[i - 1] = Half(p, 1)
      BY <1>2, <1>3, <3>1
    <3> QED
      BY <1>2, <1>3, <1>4, <2>1, <3>1, <3>2
  <2>2. CASE i \in 1..Len(notes)
    <3>1. notes'[i] = notes[i]
      BY <1>3, <2>2
    <3>2. i > 1 /\ notes[i - 1] = [notes[i] EXCEPT !.half = 1]
      BY <2>2, <3>1 DEF NoteInv
    <3>3. i - 1 \in 1..Len(notes)
      BY <1>3, <2>2, <3>2
    <3>4. notes'[i - 1] = notes[i - 1]
      BY <1>3, <3>3
    <3> QED
      BY <3>1, <3>2, <3>4
  <2> QED
    BY <1>3, <2>1, <2>2
<1>6. \A q \in Procs : pc'[q] \in {"half2", "unlock"} => q = p
  BY <1>1, StateStoreAssumption DEF Frame, Noting
<1>7. Half(p, 2)' = Half(p, 2)
  BY <1>1 DEF Half
<1>8. \E i \in 1..Len(notes') : notes'[i] = Half(p, 2)'
  BY <1>3, <1>7
<1> QED
  BY <1>1, <1>3, <1>5, <1>6, <1>8 DEF NoteInv

\* Values appended by several processes stay apart (Append in store.go).
THEOREM AppendsStayApart == Spec => []AppendsDoNotMix
<1>1. Init => NoteInv
  BY DEF Init, NoteInv
<1>2. IInv /\ NoteInv /\ [Next]_vars => NoteInv'
  <2> SUFFICES ASSUME IInv, NoteInv, [Next]_vars
               PROVE  NoteInv'
    OBVIOUS
  <2>1. CASE Next
    <3>1. PICK p \in Procs : Quiet(p) \/ Load(p) \/ WriteTmp(p) \/ Rename(p)
      BY <2>1, Zenon DEF Next, Quiet
    <3>2. Frame(p)
      BY <3>1, EveryFrame
    <3>3. CASE WriteHalf1(p)
      BY <3>2, <3>3, Half1Notes
    <3>4. CASE WriteHalf2(p)
      BY <3>2, <3>4, Half2Notes
    <3>5. CASE ~WriteHalf1(p) /\ ~WriteHalf2(p)
      <4>1. /\ notes' = notes /\ pc'[p] # "half2"
            /\ pc'[p] = "unlock" => res'[p] = <<"error">>
        <5> USE DEF IInv, TypeOK, FunInv, At, Goto, Answer, Returns, noteVars, Noting, Holding
        <5>1. CASE Call(p)
          BY <5>1, CallEffect DEF Call
        <5>2. CASE Load(p)
          BY <5>2, LoadEffect
        <5>3. CASE Return(p) \/ Read(p) \/ Acquire(p) \/ Retry(p) \/ ContextEnds(p)
          BY <5>3 DEF Return, Read, Acquire, Retry, ContextEnds
        <5>4. CASE WriteTmp(p) \/ Rename(p) \/ Release(p) \/ LockNotes(p) \/ UnlockNotes(p)
          BY <5>4 DEF WriteTmp, Rename, Release, LockNotes, UnlockNotes
        <5>5. CASE Busy(p)
          BY <5>5 DEF Busy
        <5>6. CASE Fails(p)
          BY <5>6 DEF Fails
        <5>7. CASE Crash(p)
          BY <5>7 DEF Crash
        <5> QED
          BY <3>1, <3>5, <5>1, <5>2, <5>3, <5>4, <5>5, <5>6, <5>7, Zenon DEF Quiet
      <4> QED
        BY <3>2, <4>1, NotesKept
    <3> QED
      BY <3>3, <3>4, <3>5
  <2>2. CASE UNCHANGED vars
    BY <2>2 DEF vars, noteVars, callVars, NoteInv, Half
  <2> QED
    BY <2>1, <2>2
<1>3. NoteInv => AppendsDoNotMix
  <2> SUFFICES ASSUME NoteInv PROVE AppendsDoNotMix
    OBVIOUS
  <2>1. DOMAIN notes = 1..Len(notes)
    BY DEF NoteInv
  <2> QED
    BY <2>1, Zenon DEF NoteInv, AppendsDoNotMix, At
<1> QED
  BY <1>1, <1>2, <1>3, Invariance, PTL DEF Spec

=============================================================================
