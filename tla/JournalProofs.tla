---------------------------- MODULE JournalProofs ----------------------------
(***************************************************************************)
(* What holds of the journal for every number of handles and of records,   *)
(* whether or not writes and reads fail: the flock and the recovery it     *)
(* guards keep every synced line unless the recovery misread the file, and *)
(* the file is a durable log that only a misread damages.                  *)
(*                                                                         *)
(* The inductive invariant IInv says who holds the lock (LockInv), that    *)
(* what a recovery found is still true when it truncates (ScanInv), that   *)
(* the files a truncation shortened begin with the synced lines (UndoneInv),*)
(* that nothing is torn or garbled unless a write failed (CleanInv), and   *)
(* where a record is found before and after its Append returned           *)
(* (StoredInv).                                                            *)
(***************************************************************************)
EXTENDS Journal, SequenceTheorems, WellFoundedInduction, TLAPS

\* A handle between its lock and the release in Close.
Holding == {"locked", "scanned", "open", "written"}

LockInv == \A h \in Handles : lock = h <=> pc[h] \in Holding

ScanInv ==
  \A h \in Handles :
     pc[h] = "scanned" =>
       /\ scan[h].cut \in 0..Len(lines)
       /\ scan[h].err => scan[h].cut < Len(lines) /\ scan[h].torn
       /\ ~scan[h].err => scan[h].cut = Len(lines) /\ scan[h].torn = torn

UndoneInv ==
  \A u \in undone : synced <= Len(u) /\ \A i \in 1..synced : u[i] = lines[i]

CleanInv ==
  ~failed => /\ Reads
             /\ \A u \in undone : \A i \in 1..Len(u) : u[i] # Garbled
             /\ \A h \in Handles : pc[h] \in {"open", "written"} => ~torn

WrittenInv == \A h \in Handles : pc[h] = "written" => rec[h] \in Records

StoredInv ==
  ~failed =>
     /\ \A r \in acked \ lost : \E i \in 1..synced : lines[i] = r
     /\ \A h \in Handles :
          pc[h] = "written" => \E i \in 1..Len(lines) : lines[i] = rec[h]

IInv ==
  /\ TypeOK /\ LockInv /\ ScanInv /\ UndoneInv
  /\ CleanInv /\ WrittenInv /\ StoredInv

-----------------------------------------------------------------------------
\* A prefix of a file is a file with the same lines.
LEMMA PrefixOf ==
  ASSUME NEW s \in Seq(Line), NEW k \in 0..Len(s)
  PROVE  /\ SubSeq(s, 1, k) \in Seq(Line)
         /\ Len(SubSeq(s, 1, k)) = k
         /\ \A i \in 1..k : SubSeq(s, 1, k)[i] = s[i]
<1>1. \A i \in 1..k : s[i] \in Line
  BY ElementOfSeq
<1>2. k \in Int /\ 1 \in Int
  OBVIOUS
<1> QED
  BY <1>1, <1>2, SubSeqProperties

\* Handle h's truncation leaves k lines.
CutAt(h, k) ==
  /\ lines' = SubSeq(lines, 1, k)
  /\ lines' \in Seq(Line) /\ Len(lines') = k
  /\ \A i \in 1..k : lines'[i] = lines[i]
  /\ synced' = IF k < synced THEN k ELSE synced
  /\ \/ /\ k = Len(lines) /\ lines' = lines /\ ~scan[h].err
        /\ undone' = undone /\ lost' = lost
     \/ /\ k = scan[h].cut /\ k < Len(lines) /\ scan[h].err
        /\ undone' = undone \cup {lines}
        /\ lost' = lost \cup {lines[i] : i \in (k + 1)..Len(lines)}

\* A truncation keeps the lines up to some one, all of them unless the
\* recovery's read failed.
LEMMA TruncateCuts ==
  ASSUME TypeOK, ScanInv, NEW h \in Handles, Truncate(h)
  PROVE  /\ ~torn'
         /\ \E k \in 0..Len(lines) : CutAt(h, k)
<1>1. /\ lines \in Seq(Line) /\ Len(lines) \in Nat /\ synced \in 0..Len(lines)
      /\ torn \in BOOLEAN /\ scan[h].err \in BOOLEAN
  BY LenProperties DEF TypeOK
<1>2. SubSeq(lines, 1, Len(lines)) = lines
  BY <1>1, SubSeqFull
<1> DEFINE k == scan[h].cut
<1>3. /\ k \in 0..Len(lines)
      /\ scan[h].err => k < Len(lines) /\ scan[h].torn
      /\ ~scan[h].err => k = Len(lines) /\ scan[h].torn = torn
  BY DEF ScanInv, Truncate
<1>4. ~torn'
  BY <1>1, <1>3 DEF Truncate, file
<1>5. /\ SubSeq(lines, 1, k) \in Seq(Line) /\ Len(SubSeq(lines, 1, k)) = k
      /\ \A i \in 1..k : SubSeq(lines, 1, k)[i] = lines[i]
  BY <1>1, <1>3, PrefixOf
<1>6. lines' = SubSeq(lines, 1, k) /\ synced' = IF k < synced THEN k ELSE synced
  BY <1>1, <1>2, <1>3 DEF Truncate, file
<1>7. CASE scan[h].err
  <2>1. /\ k < Len(lines) /\ undone' = undone \cup {lines}
        /\ lost' = lost \cup {lines[i] : i \in (k + 1)..Len(lines)}
    BY <1>3, <1>7 DEF Truncate, Behind
  <2>2. CutAt(h, k)
    BY <1>5, <1>6, <1>7, <2>1 DEF CutAt
  <2> QED
    BY <1>3, <1>4, <2>2
<1>8. CASE ~scan[h].err
  <2>1. k = Len(lines) /\ undone' = undone /\ lost' = lost
    BY <1>1, <1>3, <1>8 DEF Truncate, file
  <2>2. CutAt(h, k)
    BY <1>2, <1>5, <1>6, <1>8, <2>1 DEF CutAt
  <2> QED
    BY <1>3, <1>4, <2>2
<1> QED
  BY <1>1, <1>7, <1>8

\* A power loss leaves a beginning of some file the disk may hold, with all
\* the synced lines.
LEMMA PowerLossCuts ==
  ASSUME TypeOK, UndoneInv, PowerLoss
  PROVE  \E s \in undone \cup {lines} : \E k \in synced..Len(s) :
           /\ s \in Seq(Line) /\ k \in 0..Len(s) /\ k >= synced
           /\ lines' = SubSeq(s, 1, k)
           /\ lines' \in Seq(Line) /\ Len(lines') = k
           /\ \A i \in 1..k : lines'[i] = s[i]
           /\ \A i \in 1..synced : i \in 1..k /\ s[i] = lines[i] /\ lines'[i] = lines[i]
<1>1. PICK s \in undone \cup {lines} : \E k \in synced..Len(s) : lines' = SubSeq(s, 1, k)
  BY DEF PowerLoss
<1>2. s \in Seq(Line) /\ synced \in Nat
  BY DEF TypeOK
<1>3. Len(s) \in Nat
  BY <1>2, LenProperties
<1>4. PICK k \in synced..Len(s) : lines' = SubSeq(s, 1, k)
  BY <1>1
<1>5. k \in 0..Len(s) /\ k >= synced
  BY <1>2, <1>3
<1>6. /\ lines' \in Seq(Line) /\ Len(lines') = k
      /\ \A i \in 1..k : lines'[i] = s[i]
  BY <1>2, <1>4, <1>5, PrefixOf
<1>7. \A i \in 1..synced : s[i] = lines[i]
  BY DEF UndoneInv
<1>8. \A i \in 1..synced : i \in 1..k
  BY <1>2, <1>5
<1> QED
  BY <1>2, <1>4, <1>5, <1>6, <1>7, <1>8

\* The line a Write adds.
LEMMA WriteAppends ==
  ASSUME TypeOK, NEW h \in Handles, Write(h)
  PROVE  \E r \in Records :
           /\ lines' = Append(lines, IF torn THEN Garbled ELSE r)
           /\ lines' \in Seq(Line)
           /\ Len(lines') = Len(lines) + 1
           /\ \A i \in 1..Len(lines) : lines'[i] = lines[i]
           /\ lines'[Len(lines) + 1] = IF torn THEN Garbled ELSE r
           /\ rec' = [rec EXCEPT ![h] = r]
<1>1. PICK r \in Records :
         /\ lines' = Append(lines, IF torn THEN Garbled ELSE r)
         /\ rec' = [rec EXCEPT ![h] = r]
  BY DEF Write
<1> DEFINE e == IF torn THEN Garbled ELSE r
<1>2. e \in Line /\ lines \in Seq(Line)
  BY DEF Line, TypeOK
<1> HIDE DEF e
<1>3. /\ Append(lines, e) \in Seq(Line)
      /\ Len(Append(lines, e)) = Len(lines) + 1
      /\ \A i \in 1..Len(lines) : Append(lines, e)[i] = lines[i]
      /\ Append(lines, e)[Len(lines) + 1] = e
  BY <1>2, AppendProperties
<1> QED
  BY <1>1, <1>3 DEF e

-----------------------------------------------------------------------------
\* An empty file with no handle satisfies the invariant.
LEMMA InitIInv == Init => IInv
<1> SUFFICES ASSUME Init PROVE IInv
  OBVIOUS
<1>1. TypeOK
  <2>1. <<>> \in Seq(Line) /\ Len(<<>>) = 0
    BY EmptySeq
  <2>2. lines \in Seq(Line) /\ synced \in 0..Len(lines)
    BY <2>1 DEF Init
  <2>3. /\ scan \in [Handles -> [cut : Nat, torn : BOOLEAN, err : BOOLEAN]]
        /\ pc \in [Handles -> PC]
        /\ rec \in [Handles -> Nat]
    BY DEF Init, PC, NoScan
  <2> QED
    BY <2>2, <2>3 DEF Init, TypeOK
<1>2. LockInv
  BY JournalAssumption DEF Init, LockInv, Holding
<1>3. ScanInv /\ UndoneInv /\ CleanInv /\ WrittenInv /\ StoredInv
  BY DEF Init, ScanInv, UndoneInv, CleanInv, WrittenInv, StoredInv, Reads
<1> QED
  BY <1>1, <1>2, <1>3 DEF IInv

\* Types. A truncation takes what is cut off out of the synced lines.
LEMMA NextTypeOK ==
  TypeOK /\ ScanInv /\ UndoneInv /\ WrittenInv /\ [Next]_vars => TypeOK'
<1> SUFFICES ASSUME TypeOK, ScanInv, UndoneInv, WrittenInv, [Next]_vars PROVE TypeOK'
  OBVIOUS
<1> USE DEF Goto, PC, file, NoScan
<1>0. lines \in Seq(Line) /\ Len(lines) \in Nat
  BY LenProperties DEF TypeOK
<1>1. ASSUME NEW h \in Handles, Lock(h) PROVE TypeOK'
  BY <1>1 DEF Lock, TypeOK
<1>2. ASSUME NEW h \in Handles, Scan(h) PROVE TypeOK'
  BY <1>0, <1>2 DEF Scan, TypeOK
<1>2a. ASSUME NEW h \in Handles, ScanFails(h) PROVE TypeOK'
  BY <1>0, <1>2a DEF ScanFails, TypeOK
<1>3. ASSUME NEW h \in Handles, Truncate(h) PROVE TypeOK'
  <2>0. PICK k \in 0..Len(lines) : CutAt(h, k)
    BY <1>3, TruncateCuts
  <2>1. /\ lines' \in Seq(Line) /\ Len(lines') = k
        /\ synced' = IF k < synced THEN k ELSE synced
        /\ \/ undone' = undone /\ lost' = lost
           \/ /\ undone' = undone \cup {lines}
              /\ lost' = lost \cup {lines[i] : i \in (k + 1)..Len(lines)}
    BY <2>0 DEF CutAt
  <2>2. torn' \in BOOLEAN
    BY <1>3 DEF Truncate, TypeOK
  <2>3. synced' \in 0..Len(lines')
    BY <1>0, <2>1 DEF TypeOK
  <2>4. \A i \in (k + 1)..Len(lines) : lines[i] \in Line
    BY <1>0, ElementOfSeq
  <2>5. undone' \in SUBSET Seq(Line) /\ lost' \in SUBSET Line
    BY <1>0, <2>1, <2>4 DEF TypeOK
  <2>6. scan' \in [Handles -> [cut : Nat, torn : BOOLEAN, err : BOOLEAN]]
    BY <1>3 DEF Truncate, TypeOK
  <2> QED
    BY <1>3, <2>1, <2>2, <2>3, <2>5, <2>6 DEF Truncate, TypeOK
<1>4. ASSUME NEW h \in Handles, Write(h) PROVE TypeOK'
  <2>1. PICK r \in Records : /\ lines' \in Seq(Line)
                             /\ Len(lines') = Len(lines) + 1
                             /\ rec' = [rec EXCEPT ![h] = r]
    BY <1>4, WriteAppends
  <2>2. synced \in 0..Len(lines')
    BY <1>0, <2>1 DEF TypeOK
  <2>3. rec' \in [Handles -> Nat]
    BY <2>1 DEF TypeOK, Records
  <2> QED
    BY <1>4, <2>1, <2>2, <2>3 DEF Write, TypeOK
<1>5. ASSUME NEW h \in Handles, WriteFails(h) PROVE TypeOK'
  BY <1>5 DEF WriteFails, TypeOK
<1>6. ASSUME NEW h \in Handles, Sync(h) PROVE TypeOK'
  BY <1>0, <1>6 DEF Sync, TypeOK, WrittenInv
<1>7. ASSUME NEW h \in Handles, SyncFails(h) PROVE TypeOK'
  BY <1>7 DEF SyncFails, TypeOK
<1>8. ASSUME NEW h \in Handles, Release(h) PROVE TypeOK'
  BY <1>8 DEF Release, TypeOK
<1>9. ASSUME NEW h \in Handles, CloseFile(h) PROVE TypeOK'
  BY <1>9 DEF CloseFile, TypeOK
<1>10. ASSUME NEW h \in Handles, Crash(h) PROVE TypeOK'
  BY <1>10 DEF Crash, TypeOK
<1>11. CASE PowerLoss
  <2>1. lines' \in Seq(Line) /\ Len(lines') >= synced
    BY <1>11, PowerLossCuts
  <2>2. Len(lines') \in Nat
    BY <2>1, LenProperties
  <2>3. synced' \in 0..Len(lines')
    BY <1>11, <2>1, <2>2 DEF PowerLoss, TypeOK
  <2>4. undone' \in SUBSET Seq(Line)
    BY <1>11 DEF PowerLoss
  <2> QED
    BY <1>11, <2>1, <2>3, <2>4 DEF PowerLoss, TypeOK
<1>12. CASE UNCHANGED vars
  BY <1>12 DEF vars, TypeOK
<1> QED
  BY <1>1, <1>2, <1>2a, <1>3, <1>4, <1>5, <1>6, <1>7, <1>8, <1>9, <1>10, <1>11, <1>12
  DEF Next

\* The lock, the scan and the record of each call. One handle at a time is
\* between its lock and its release, so nobody moves the file under a scan.
LEMMA NextLockInv ==
  TypeOK /\ LockInv /\ [Next]_vars => LockInv'
<1> SUFFICES ASSUME TypeOK, LockInv, [Next]_vars PROVE LockInv'
  OBVIOUS
<1> USE DEF Goto, Holding, LockInv, TypeOK, PC
<1>1. ASSUME NEW h \in Handles, Lock(h) PROVE LockInv'
  BY <1>1, JournalAssumption DEF Lock
<1>2. ASSUME NEW h \in Handles, Scan(h) PROVE LockInv'
  BY <1>2 DEF Scan
<1>2a. ASSUME NEW h \in Handles, ScanFails(h) PROVE LockInv'
  BY <1>2a DEF ScanFails
<1>3. ASSUME NEW h \in Handles, Truncate(h) PROVE LockInv'
  BY <1>3 DEF Truncate
<1>4. ASSUME NEW h \in Handles, Write(h) PROVE LockInv'
  BY <1>4 DEF Write
<1>5. ASSUME NEW h \in Handles, WriteFails(h) PROVE LockInv'
  BY <1>5 DEF WriteFails
<1>6. ASSUME NEW h \in Handles, Sync(h) PROVE LockInv'
  BY <1>6 DEF Sync
<1>7. ASSUME NEW h \in Handles, SyncFails(h) PROVE LockInv'
  BY <1>7 DEF SyncFails
<1>8. ASSUME NEW h \in Handles, Release(h) PROVE LockInv'
  BY <1>8, JournalAssumption DEF Release
<1>9. ASSUME NEW h \in Handles, CloseFile(h) PROVE LockInv'
  BY <1>9 DEF CloseFile
<1>10. ASSUME NEW h \in Handles, Crash(h) PROVE LockInv'
  BY <1>10, JournalAssumption DEF Crash
<1>11. CASE PowerLoss
  BY <1>11, JournalAssumption DEF PowerLoss
<1>12. CASE UNCHANGED vars
  BY <1>12 DEF vars
<1> QED
  BY <1>1, <1>2, <1>2a, <1>3, <1>4, <1>5, <1>6, <1>7, <1>8, <1>9, <1>10, <1>11, <1>12
  DEF Next

\* What a scan has found stays true until its truncation, since it holds the
\* flock.
LEMMA NextScanInv ==
  TypeOK /\ LockInv /\ ScanInv /\ [Next]_vars => ScanInv'
<1> DEFINE Ok(g) ==
             /\ scan[g].cut \in 0..Len(lines)
             /\ scan[g].err => scan[g].cut < Len(lines) /\ scan[g].torn
             /\ ~scan[g].err => scan[g].cut = Len(lines) /\ scan[g].torn = torn
<1> SUFFICES ASSUME TypeOK, LockInv, ScanInv, [Next]_vars,
                    NEW g \in Handles, pc'[g] = "scanned"
             PROVE  Ok(g)'
  BY DEF ScanInv
<1> USE DEF Goto, Holding, LockInv, ScanInv, TypeOK, PC, file
<1>0. Len(lines) \in Nat
  BY LenProperties
\* Steps that leave the file alone.
<1>1. ASSUME NEW h \in Handles, Scan(h)
      PROVE  Ok(g)'
  BY <1>0, <1>1 DEF Scan
<1>1a. ASSUME NEW h \in Handles, ScanFails(h)
      PROVE  Ok(g)'
  <2>1. g = h
    BY <1>1a DEF ScanFails
  <2>2. PICK k \in 0..Len(lines) :
          k < Len(lines) /\ scan'[h] = [cut |-> k, torn |-> TRUE, err |-> TRUE]
    BY <1>1a DEF ScanFails
  <2> QED
    BY <1>1a, <2>1, <2>2 DEF ScanFails
<1>2. ASSUME NEW h \in Handles,
             Lock(h) \/ Sync(h) \/ SyncFails(h) \/ Release(h) \/ CloseFile(h)
      PROVE  Ok(g)'
  BY <1>2 DEF Lock, Sync, SyncFails, Release, CloseFile
\* Steps of the holder of the lock, which is then not g.
<1>3. ASSUME NEW h \in Handles, Truncate(h) \/ Write(h) \/ WriteFails(h)
      PROVE  FALSE
  BY <1>3 DEF Truncate, Write, WriteFails
<1>4. ASSUME NEW h \in Handles, Crash(h)
      PROVE  Ok(g)'
  <2>1. pc[g] = "scanned" /\ g # h
    BY <1>4 DEF Crash
  <2>2. pc[h] # "open"
    BY <1>4, <2>1
  <2> QED
    BY <1>4, <2>1, <2>2 DEF Crash
<1>5. CASE PowerLoss
  BY <1>5 DEF PowerLoss
<1>6. CASE UNCHANGED vars
  BY <1>6 DEF vars
<1> QED
  BY <1>1, <1>1a, <1>2, <1>3, <1>4, <1>5, <1>6 DEF Next

\* What a truncation took away begins with what is synced.
LEMMA NextUndoneInv ==
  TypeOK /\ ScanInv /\ UndoneInv /\ [Next]_vars => UndoneInv'
<1> SUFFICES ASSUME TypeOK, ScanInv, UndoneInv, [Next]_vars PROVE UndoneInv'
  OBVIOUS
<1>0. lines \in Seq(Line) /\ Len(lines) \in Nat /\ synced \in 0..Len(lines)
  BY LenProperties DEF TypeOK
<1>1. ASSUME NEW h \in Handles, Truncate(h) PROVE UndoneInv'
  <2>1. PICK k \in 0..Len(lines) :
          /\ \A i \in 1..k : lines'[i] = lines[i]
          /\ synced' = IF k < synced THEN k ELSE synced
          /\ undone' \subseteq undone \cup {lines}
    BY <1>1, TruncateCuts DEF CutAt
  <2>2. synced' \in Nat /\ synced' <= synced /\ synced' <= k
    BY <1>0, <2>1
  <2>3. ASSUME NEW u \in undone'
        PROVE  synced <= Len(u) /\ \A i \in 1..synced : u[i] = lines[i]
    BY <1>0, <2>1 DEF UndoneInv
  <2>4. ASSUME NEW u \in undone'
        PROVE  synced' <= Len(u) /\ \A i \in 1..synced' : u[i] = lines'[i]
    <3>1. Len(u) \in Nat
      BY <1>0, <2>1, LenProperties DEF TypeOK
    <3> QED
      BY <1>0, <2>1, <2>2, <2>3, <3>1
  <2> QED
    BY <2>4 DEF UndoneInv
<1>2. ASSUME NEW h \in Handles, Write(h) PROVE UndoneInv'
  <2>1. \A i \in 1..Len(lines) : lines'[i] = lines[i]
    BY <1>2, WriteAppends
  <2>2. synced' = synced /\ undone' = undone
    BY <1>2 DEF Write
  <2> QED
    BY <1>0, <2>1, <2>2 DEF UndoneInv
<1>3. ASSUME NEW h \in Handles, Sync(h) PROVE UndoneInv'
  BY <1>3 DEF Sync, UndoneInv
<1>4. CASE PowerLoss
  BY <1>4 DEF PowerLoss, UndoneInv
<1>5. ASSUME NEW h \in Handles,
             \/ Lock(h) \/ Scan(h) \/ ScanFails(h) \/ WriteFails(h) \/ SyncFails(h)
             \/ Release(h) \/ CloseFile(h) \/ Crash(h)
      PROVE  UndoneInv'
  BY <1>5 DEF Lock, Scan, ScanFails, WriteFails, SyncFails, Release, CloseFile, Crash,
              UndoneInv, file
<1>6. CASE UNCHANGED vars
  BY <1>6 DEF vars, file, UndoneInv
<1> QED
  BY <1>1, <1>2, <1>3, <1>4, <1>5, <1>6 DEF Next

\* A record that was written keeps its number.
LEMMA NextWrittenInv == TypeOK /\ WrittenInv /\ [Next]_vars => WrittenInv'
<1> SUFFICES ASSUME TypeOK, WrittenInv, [Next]_vars,
                    NEW g \in Handles, pc'[g] = "written"
             PROVE  rec'[g] \in Records
  BY DEF WrittenInv
<1> USE DEF Goto, WrittenInv, TypeOK, PC
<1>1. ASSUME NEW h \in Handles, Write(h) PROVE rec'[g] \in Records
  BY <1>1 DEF Write
<1>2. ASSUME NEW h \in Handles, ~Write(h),
             \/ Lock(h) \/ Scan(h) \/ ScanFails(h) \/ Truncate(h) \/ WriteFails(h)
             \/ Sync(h) \/ SyncFails(h) \/ Release(h) \/ CloseFile(h) \/ Crash(h)
      PROVE  rec'[g] \in Records
  BY <1>2 DEF Lock, Scan, ScanFails, Truncate, WriteFails, Sync, SyncFails, Release,
              CloseFile, Crash
<1>3. CASE PowerLoss
  BY <1>3 DEF PowerLoss
<1>4. CASE UNCHANGED vars
  BY <1>4 DEF vars
<1> QED
  BY <1>1, <1>2, <1>3, <1>4 DEF Next
-----------------------------------------------------------------------------
\* As long as no write fails under a live process, no line is garbled.
LEMMA NextCleanInv ==
  TypeOK /\ LockInv /\ ScanInv /\ UndoneInv /\ CleanInv /\ [Next]_vars => CleanInv'
<1> DEFINE Ok == /\ Reads
                 /\ \A u \in undone : \A i \in 1..Len(u) : u[i] # Garbled
                 /\ \A g \in Handles : pc[g] \in {"open", "written"} => ~torn
<1> SUFFICES ASSUME TypeOK, LockInv, ScanInv, UndoneInv, CleanInv, [Next]_vars, ~failed'
             PROVE  Ok'
  BY DEF CleanInv
<1> USE DEF Goto, Holding, LockInv, TypeOK, PC, file
<1>0. ~failed
  BY DEF Next, Lock, Scan, ScanFails, Truncate, Write, WriteFails, Sync, SyncFails,
         Release, CloseFile, Crash, PowerLoss, vars
<1>1. Ok
  BY <1>0 DEF CleanInv
<1>1a. Len(lines) \in Nat /\ lines \in Seq(Line)
  BY LenProperties
<1>2. ASSUME NEW h \in Handles,
             \/ Lock(h) \/ Scan(h) \/ ScanFails(h) \/ Sync(h) \/ SyncFails(h)
             \/ Release(h) \/ CloseFile(h)
      PROVE  Ok'
  BY <1>1, <1>2 DEF Reads, Lock, Scan, ScanFails, Sync, SyncFails, Release, CloseFile
<1>3. ASSUME NEW h \in Handles, Truncate(h)
      PROVE  Ok'
  <2>1. PICK k \in 0..Len(lines) :
          /\ Len(lines') = k /\ \A i \in 1..k : lines'[i] = lines[i]
          /\ undone' \subseteq undone \cup {lines}
    BY <1>3, TruncateCuts DEF CutAt
  <2>2. ~torn'
    BY <1>3, TruncateCuts
  <2>3. Reads'
    BY <1>1, <1>1a, <2>1 DEF Reads
  <2>4. \A u \in undone' : \A i \in 1..Len(u) : u[i] # Garbled
    BY <1>1, <2>1 DEF Reads
  <2> QED
    BY <2>2, <2>3, <2>4
<1>4. ASSUME NEW h \in Handles, Write(h)
      PROVE  Ok'
  <2>1. ~torn /\ ~torn' /\ undone' = undone
    BY <1>1, <1>4 DEF Write
  <2>2. PICK r \in Records :
          /\ Len(lines') = Len(lines) + 1
          /\ \A i \in 1..Len(lines) : lines'[i] = lines[i]
          /\ lines'[Len(lines) + 1] = r
    BY <1>4, <2>1, WriteAppends
  <2>3. r # Garbled
    BY JournalAssumption DEF Records
  <2>4. ASSUME NEW i \in 1..Len(lines') PROVE lines'[i] # Garbled
    <3>1. i \in 1..Len(lines) \/ i = Len(lines) + 1
      BY <1>1a, <2>2
    <3> QED
      BY <1>1, <2>2, <2>3, <3>1 DEF Reads
  <2> QED
    BY <1>1, <2>1, <2>4 DEF Reads
<1>5. ASSUME NEW h \in Handles, WriteFails(h) PROVE FALSE
  BY <1>5 DEF WriteFails
<1>6. ASSUME NEW h \in Handles, Crash(h)
      PROVE  Ok'
  \* If the crashed handle was open it held the lock, and no other handle does.
  BY <1>1, <1>6 DEF Crash, Reads
<1>7. CASE PowerLoss
  <2>1. PICK s \in undone \cup {lines} : \E k \in synced..Len(s) :
          /\ k \in 0..Len(s) /\ s \in Seq(Line)
          /\ Len(lines') = k /\ \A i \in 1..k : lines'[i] = s[i]
    BY <1>7, PowerLossCuts
  <2>2. \A i \in 1..Len(s) : s[i] # Garbled
    BY <1>1 DEF Reads
  <2>3. Reads'
    BY <2>1, <2>2, LenProperties DEF Reads
  <2> QED
    BY <1>7, <2>3 DEF PowerLoss
<1>8. CASE UNCHANGED vars
  BY <1>1, <1>8 DEF vars, Reads
<1> QED
  BY <1>2, <1>3, <1>4, <1>5, <1>6, <1>7, <1>8 DEF Next

\* As long as no write fails, what was written is in the file, and what was
\* acknowledged is among its synced lines.
LEMMA NextStoredInv == IInv /\ [Next]_vars => StoredInv'
<1> SUFFICES ASSUME IInv, [Next]_vars, ~failed' PROVE StoredInv'
  BY DEF StoredInv
<1> USE DEF IInv, Goto, Holding, LockInv, TypeOK, PC, file
<1>0. ~failed
  BY DEF Next, Lock, Scan, ScanFails, Truncate, Write, WriteFails, Sync, SyncFails,
         Release, CloseFile, Crash, PowerLoss, vars
<1>1. /\ \A r \in acked \ lost : \E i \in 1..synced : lines[i] = r
      /\ \A g \in Handles :
           pc[g] = "written" => \E i \in 1..Len(lines) : lines[i] = rec[g]
  BY <1>0 DEF StoredInv
<1>2. Len(lines) \in Nat /\ lines \in Seq(Line) /\ synced \in 0..Len(lines)
  BY LenProperties DEF Line
<1>3. ASSUME NEW h \in Handles,
             \/ Lock(h) \/ Scan(h) \/ ScanFails(h) \/ SyncFails(h)
             \/ Release(h) \/ CloseFile(h) \/ Crash(h)
      PROVE  StoredInv'
  <2>1. /\ lines' = lines /\ synced' = synced
        /\ acked' = acked /\ lost' = lost /\ rec' = rec
        /\ \A g \in Handles : pc'[g] = "written" => pc[g] = "written"
    BY <1>3 DEF Lock, Scan, ScanFails, SyncFails, Release, CloseFile, Crash
  <2> HIDE DEF IInv, LockInv, TypeOK
  <2> QED
    BY <1>1, <2>1 DEF StoredInv
\* The lock is held by h: no other handle has written and not yet synced.
<1>3a. ASSUME NEW h \in Handles, Truncate(h)
      PROVE  StoredInv'
  <2>1. PICK k \in 0..Len(lines) :
          /\ \A i \in 1..k : lines'[i] = lines[i]
          /\ synced' = IF k < synced THEN k ELSE synced
          /\ \/ k = Len(lines) /\ lost' = lost
             \/ lost' = lost \cup {lines[i] : i \in (k + 1)..Len(lines)}
    BY <1>3a, TruncateCuts DEF CutAt
  <2>2. acked' = acked /\ \A g \in Handles : pc'[g] # "written"
    BY <1>3a DEF Truncate
  <2> HIDE DEF IInv, LockInv, TypeOK
  <2>3. ASSUME NEW r \in acked' \ lost' PROVE \E i \in 1..synced' : lines'[i] = r
    <3>1. r \in acked \ lost
      BY <2>1, <2>2
    <3>2. PICK i \in 1..synced : lines[i] = r
      BY <1>1, <3>1
    <3>3. CASE i <= k
      <4>1. i \in 1..synced' /\ i \in 1..k
        BY <1>2, <2>1, <3>2, <3>3
      <4> QED
        BY <2>1, <3>2, <4>1
    <3>4. CASE ~(i <= k)
      <4>1. i \in (k + 1)..Len(lines) /\ k # Len(lines)
        BY <1>2, <3>2, <3>4
      <4>2. r \in lost'
        BY <2>1, <3>2, <4>1
      <4> QED
        BY <4>2
    <3> QED
      BY <3>3, <3>4
  <2> QED
    BY <2>2, <2>3 DEF StoredInv
<1>4. ASSUME NEW h \in Handles, Write(h)
      PROVE  StoredInv'
  <2>1. ~torn /\ UNCHANGED <<synced, acked, lost>>
    BY <1>0, <1>4 DEF Write, CleanInv
  <2>2. PICK r \in Records :
          /\ Len(lines') = Len(lines) + 1
          /\ \A i \in 1..Len(lines) : lines'[i] = lines[i]
          /\ lines'[Len(lines) + 1] = r
          /\ rec' = [rec EXCEPT ![h] = r]
    BY <1>4, <2>1, WriteAppends
  <2>3. \A g \in Handles : pc'[g] = "written" => g = h \/ pc[g] = "written"
    BY <1>4 DEF Write
  <2>3a. rec \in [Handles -> Nat]
    OBVIOUS
  <2> HIDE DEF IInv, LockInv, TypeOK
  <2>4. ASSUME NEW q \in acked' \ lost' PROVE \E i \in 1..synced' : lines'[i] = q
    <3>1. PICK i \in 1..synced : lines[i] = q
      BY <1>1, <2>1
    <3>2. i \in 1..Len(lines)
      BY <1>2, <3>1
    <3> QED
      BY <2>1, <2>2, <3>1, <3>2
  <2>5. ASSUME NEW g \in Handles, pc'[g] = "written"
        PROVE  \E i \in 1..Len(lines') : lines'[i] = rec'[g]
    <3>1. CASE g = h
      BY <1>2, <2>2, <2>3a, <3>1
    <3>2. CASE g # h
      BY <1>1, <1>2, <2>2, <2>3, <2>3a, <2>5, <3>2
    <3> QED
      BY <3>1, <3>2
  <2> QED
    BY <2>4, <2>5 DEF StoredInv
<1>5. ASSUME NEW h \in Handles, Sync(h)
      PROVE  StoredInv'
  <2>1. /\ lines' = lines /\ rec' = rec /\ synced' = Len(lines)
        /\ acked' = acked \cup {rec[h]} /\ lost' = lost /\ pc[h] = "written"
        /\ \A g \in Handles : pc'[g] = "written" => pc[g] = "written"
    BY <1>5 DEF Sync
  <2> HIDE DEF IInv, LockInv, TypeOK
  <2>2. \E i \in 1..Len(lines) : lines[i] = rec[h]
    BY <1>1, <2>1
  <2>3. ASSUME NEW r \in acked' \ lost' PROVE \E i \in 1..synced' : lines'[i] = r
    <3>1. CASE r = rec[h]
      BY <2>1, <2>2, <3>1
    <3>2. CASE r # rec[h]
      <4>1. PICK i \in 1..synced : lines[i] = r
        BY <1>1, <2>1, <3>2
      <4>2. i \in 1..Len(lines)
        BY <1>2
      <4> QED
        BY <2>1, <4>1, <4>2
    <3> QED
      BY <3>1, <3>2
  <2>4. \A g \in Handles : pc'[g] = "written" => \E i \in 1..Len(lines') : lines'[i] = rec'[g]
    BY <1>1, <2>1
  <2> QED
    BY <2>3, <2>4 DEF StoredInv
<1>6. ASSUME NEW h \in Handles, WriteFails(h) PROVE FALSE
  BY <1>6 DEF WriteFails
<1>7. CASE PowerLoss
  <2>1. \A i \in 1..synced : lines'[i] = lines[i]
    BY <1>7, PowerLossCuts
  <2>2. /\ synced' = synced /\ acked' = acked /\ lost' = lost
        /\ \A g \in Handles : pc'[g] # "written"
    BY <1>7 DEF PowerLoss
  <2> HIDE DEF IInv, LockInv, TypeOK
  <2>3. ASSUME NEW r \in acked' \ lost' PROVE \E i \in 1..synced' : lines'[i] = r
    <3>1. PICK i \in 1..synced : lines[i] = r
      BY <1>1, <2>2
    <3> QED
      BY <2>1, <2>2, <3>1
  <2> QED
    BY <2>2, <2>3 DEF StoredInv
<1>8. CASE UNCHANGED vars
  BY <1>1, <1>8 DEF vars, StoredInv
<1> QED
  BY <1>3, <1>3a, <1>4, <1>5, <1>6, <1>7, <1>8 DEF Next

\* The invariant holds throughout.
LEMMA Inductive == Spec => []IInv
<1>1. IInv /\ [Next]_vars => IInv'
  BY NextTypeOK, NextLockInv, NextScanInv, NextUndoneInv, NextCleanInv,
     NextWrittenInv, NextStoredInv DEF IInv
<1> QED
  BY <1>1, InitIInv, PTL DEF Spec

-----------------------------------------------------------------------------
\* The variables keep their types; an fsync never covers more than the file.
THEOREM TypeCorrect == Spec => []TypeOK
<1>1. IInv => TypeOK
  BY DEF IInv
<1> QED
  BY <1>1, Inductive, PTL

\* A record whose Append returned nil can be read back, whatever crashed since,
\* unless a write failed under a process that lived on, or a recovery misread
\* the file and cut the record off.
THEOREM AckedSurvives == Spec => []AckedIsReadableUnlessFailed
<1>1. IInv => AckedIsReadableUnlessFailed
  <2> SUFFICES ASSUME IInv, ~failed
               PROVE  Reads /\ \A r \in acked \ lost : \E i \in 1..Len(lines) : lines[i] = r
    BY DEF AckedIsReadableUnlessFailed
  <2>1. synced \in 0..Len(lines) /\ Len(lines) \in Nat
    BY LenProperties DEF IInv, TypeOK
  <2>2. \A r \in acked \ lost : \E i \in 1..Len(lines) : lines[i] = r
    BY <2>1 DEF IInv, StoredInv
  <2> QED
    BY <2>2 DEF IInv, CleanInv
<1> QED
  BY <1>1, Inductive, PTL

\* An open handle has the file to itself, and the file ends with a newline
\* unless a write failed.
THEOREM OpenHandleIsAlone == Spec => []OpenEndsClean
<1>1. IInv => OpenEndsClean
  <2> SUFFICES ASSUME IInv, NEW h \in Handles, pc[h] \in {"open", "written"}
               PROVE  /\ torn => failed
                      /\ \A g \in Handles \ {h} : pc[g] \in {"closed", "closing"}
    BY DEF OpenEndsClean
  <2>1. torn => failed
    BY DEF IInv, CleanInv
  <2>2. \A g \in Handles \ {h} : pc[g] \in {"closed", "closing"}
    BY DEF IInv, LockInv, Holding, TypeOK, PC
  <2> QED
    BY <2>1, <2>2
<1> QED
  BY <1>1, Inductive, PTL

\* No crash, failing write or power loss and no recovery touches a synced line,
\* but one whose read failed, which cuts off the end of the file.
THEOREM SyncedLinesStay == Spec => SyncedLinesKept
<1> DEFINE Keeps == /\ synced' >= synced
                    /\ \A i \in 1..synced : i <= Len(lines') /\ lines'[i] = lines[i]
           Step == (\E h \in Handles : CutsMisread(h)) \/ Keeps
<1>1. IInv /\ [Next]_vars => [Step]_vars
  <2> SUFFICES ASSUME IInv, Next PROVE Step
    OBVIOUS
  <2>1. /\ synced \in 0..Len(lines) /\ Len(lines) \in Nat /\ lines \in Seq(Line)
        /\ \A i \in 1..synced : i <= Len(lines)
        /\ synced >= synced /\ Len(lines) >= synced
    BY LenProperties DEF IInv, TypeOK
  <2>2. ASSUME NEW h \in Handles, Write(h)
        PROVE  Keeps
    BY <2>1, <2>2, WriteAppends DEF Write, IInv
  <2>3. ASSUME NEW h \in Handles, Truncate(h)
        PROVE  Step
    <3>1. PICK k \in 0..Len(lines) :
            /\ lines' = SubSeq(lines, 1, k)
            /\ synced' = IF k < synced THEN k ELSE synced
            /\ \/ k = Len(lines) /\ lines' = lines
               \/ k = scan[h].cut /\ scan[h].err
      BY <2>3, TruncateCuts DEF IInv, CutAt
    <3>2. CASE k = Len(lines) /\ lines' = lines
      BY <2>1, <3>1, <3>2
    <3>3. CASE k = scan[h].cut /\ scan[h].err
      BY <2>3, <3>1, <3>3 DEF CutsMisread, Truncate
    <3> QED
      BY <3>1, <3>2, <3>3
  <2>4. CASE PowerLoss
    <3>1. PICK s \in undone \cup {lines} : \E k \in synced..Len(s) :
            /\ k \in 0..Len(s) /\ k >= synced /\ Len(lines') = k
            /\ \A i \in 1..synced : i \in 1..k /\ lines'[i] = lines[i]
      BY <2>4, PowerLossCuts DEF IInv
    <3> QED
      BY <2>1, <2>4, <3>1 DEF PowerLoss
  <2>5. ASSUME NEW h \in Handles,
               \/ Lock(h) \/ Scan(h) \/ ScanFails(h) \/ WriteFails(h) \/ Sync(h)
               \/ SyncFails(h) \/ Release(h) \/ CloseFile(h) \/ Crash(h)
        PROVE  Keeps
    <3>1. lines' = lines /\ synced' \in {synced, Len(lines)}
      BY <2>5 DEF Lock, Scan, ScanFails, WriteFails, Sync, SyncFails, Release, CloseFile,
                  Crash, file
    <3> QED
      BY <2>1, <3>1
  <2> QED
    BY <2>2, <2>3, <2>4, <2>5 DEF Next
<1> QED
  BY <1>1, Inductive, PTL DEF Spec, SyncedLinesKept
-----------------------------------------------------------------------------
(* The refinement: the lines before the first garbled one are a DurableLog. *)

IsCleanLength(s, n) ==
  /\ n \in 0..Len(s)
  /\ \A i \in 1..n : s[i] # Garbled
  /\ n < Len(s) => s[n + 1] = Garbled

\* Every nonempty set of naturals has a least element.
LEMMA Least ==
  ASSUME NEW T \in SUBSET Nat, T # {}
  PROVE  \E x \in T : \A y \in T : x <= y
<1>1. PICK x \in T : \A y \in T : ~ (<<y, x>> \in OpToRel(<, Nat))
  BY WFMin, NatLessThanWellFounded
<1>2. \A y \in T : ~ (y < x)
  BY <1>1 DEF OpToRel
<1> QED
  BY <1>2

\* CleanLength is the one number with its defining property.
LEMMA CleanLengthIs ==
  ASSUME NEW s \in Seq(Line)
  PROVE  /\ IsCleanLength(s, CleanLength(s))
         /\ \A n : IsCleanLength(s, n) => CleanLength(s) = n
<1>0. Len(s) \in Nat
  BY LenProperties
<1>1. \E n \in 0..Len(s) : IsCleanLength(s, n)
  <2> DEFINE T == {i \in 1..Len(s) : s[i] = Garbled}
  <2>1. CASE T = {}
    BY <1>0, <2>1 DEF IsCleanLength
  <2>2. CASE T # {}
    <3>0. T \in SUBSET Nat
      BY <1>0
    <3>1. PICK x \in T : \A y \in T : x <= y
      <4> HIDE DEF T
      <4> QED
        BY <2>2, <3>0, Least
    <3>2. x \in 1..Len(s) /\ s[x] = Garbled
      BY <3>1
    <3>3. \A i \in 1..(x - 1) : s[i] # Garbled
      <4> SUFFICES ASSUME NEW i \in 1..(x - 1), s[i] = Garbled PROVE FALSE
        OBVIOUS
      <4>1. i \in T /\ i < x
        BY <1>0, <3>2
      <4> QED
        BY <3>1, <3>2, <4>1
    <3>4. x - 1 \in 0..Len(s) /\ (x - 1) + 1 = x
      BY <1>0, <3>2
    <3>5. IsCleanLength(s, x - 1)
      BY <3>2, <3>3, <3>4 DEF IsCleanLength
    <3> QED
      BY <3>4, <3>5
  <2> QED
    BY <2>1, <2>2
<1>2. IsCleanLength(s, CleanLength(s))
  BY <1>1 DEF CleanLength, IsCleanLength
<1>3. ASSUME NEW n, IsCleanLength(s, n) PROVE CleanLength(s) = n
  <2> DEFINE m == CleanLength(s)
  <2>1. m \in 0..Len(s) /\ n \in 0..Len(s)
    BY <1>2, <1>3 DEF IsCleanLength
  <2>2. ~ (m < n)
    BY <1>0, <1>2, <1>3, <2>1 DEF IsCleanLength
  <2>3. ~ (n < m)
    BY <1>0, <1>2, <1>3, <2>1 DEF IsCleanLength
  <2> QED
    BY <1>0, <2>1, <2>2, <2>3
<1> QED
  BY <1>2, <1>3

\* Cutting a file cuts its clean part at the same line.
LEMMA CleanOfPrefix ==
  ASSUME NEW s \in Seq(Line), NEW k \in 0..Len(s)
  PROVE  LET m == IF k < CleanLength(s) THEN k ELSE CleanLength(s)
         IN /\ CleanLength(SubSeq(s, 1, k)) = m
            /\ SubSeq(SubSeq(s, 1, k), 1, m) = SubSeq(SubSeq(s, 1, CleanLength(s)), 1, m)
<1> DEFINE c == CleanLength(s)
           m == IF k < c THEN k ELSE c
           p == SubSeq(s, 1, k)
           q == SubSeq(s, 1, c)
<1>1. IsCleanLength(s, c)
  BY CleanLengthIs
<1>2. Len(s) \in Nat /\ c \in 0..Len(s) /\ m \in 0..Len(s) /\ m <= k /\ m <= c
  BY <1>1, LenProperties DEF IsCleanLength
<1>3. p \in Seq(Line) /\ Len(p) = k /\ \A i \in 1..k : p[i] = s[i]
  BY PrefixOf
<1>4. q \in Seq(Line) /\ Len(q) = c /\ \A i \in 1..c : q[i] = s[i]
  BY <1>2, PrefixOf
<1> HIDE DEF c, p, q
<1>5. IsCleanLength(p, m)
  <2>1. \A i \in 1..m : p[i] # Garbled
    BY <1>1, <1>2, <1>3 DEF IsCleanLength
  <2>2. m < k => p[m + 1] = Garbled
    BY <1>1, <1>2, <1>3 DEF IsCleanLength
  <2> QED
    BY <1>2, <1>3, <2>1, <2>2 DEF IsCleanLength
<1>6. CleanLength(p) = m
  BY <1>3, <1>5, CleanLengthIs
<1>7. SubSeq(p, 1, m) = SubSeq(q, 1, m)
  <2>1. m \in 0..Len(p) /\ m \in 0..Len(q)
    BY <1>2, <1>3, <1>4
  <2>2. /\ SubSeq(p, 1, m) \in Seq(Line) /\ Len(SubSeq(p, 1, m)) = m
        /\ \A i \in 1..m : SubSeq(p, 1, m)[i] = p[i]
    BY <1>3, <2>1, PrefixOf
  <2>3. /\ SubSeq(q, 1, m) \in Seq(Line) /\ Len(SubSeq(q, 1, m)) = m
        /\ \A i \in 1..m : SubSeq(q, 1, m)[i] = q[i]
    BY <1>4, <2>1, PrefixOf
  <2>4. \A i \in 1..m : p[i] = q[i]
    BY <1>2, <1>3, <1>4
  <2>5. \A i \in 1..m : SubSeq(p, 1, m)[i] = SubSeq(q, 1, m)[i]
    BY <2>2, <2>3, <2>4
  <2> HIDE DEF m
  <2> QED
    BY <2>2, <2>3, <2>5, SeqEqual
<1> QED
  BY <1>6, <1>7 DEF c, p, q
\* Files that begin with the same n lines have the same clean ones among them.
LEMMA CleanOfAgreeing ==
  ASSUME NEW s \in Seq(Line), NEW u \in Seq(Line), NEW n \in Nat,
         n <= Len(s), n <= Len(u), \A i \in 1..n : s[i] = u[i]
  PROVE  (IF n < CleanLength(s) THEN n ELSE CleanLength(s))
           = (IF n < CleanLength(u) THEN n ELSE CleanLength(u))
<1> DEFINE c == CleanLength(s)
           d == CleanLength(u)
<1>1. IsCleanLength(s, c) /\ IsCleanLength(u, d)
  BY CleanLengthIs
<1>2. Len(s) \in Nat /\ Len(u) \in Nat
  BY LenProperties
<1>3. c \in 0..Len(s) /\ d \in 0..Len(u)
  BY <1>1 DEF IsCleanLength
<1> HIDE DEF c, d
<1>4. ~ (c < d /\ c < n)
  BY <1>1, <1>2, <1>3 DEF IsCleanLength
<1>5. ~ (d < c /\ d < n)
  BY <1>1, <1>2, <1>3 DEF IsCleanLength
<1>6. (IF n < c THEN n ELSE c) = (IF n < d THEN n ELSE d)
  BY <1>2, <1>3, <1>4, <1>5
<1> QED
  BY <1>6 DEF c, d

absLog == Clean(lines)
absDurable == IF synced < CleanLength(lines) THEN synced ELSE CleanLength(lines)
absEarlier == {Clean(s) : s \in undone}
absFailing == \E h \in Handles : pc[h] = "scanned" /\ scan[h].err
absVars == <<absLog, absDurable, absEarlier, absFailing>>

\* Steps that no scan, file or truncation shows are stutters.
LEMMA QuietRefines ==
  ASSUME TypeOK, LockInv, NEW h \in Handles,
         \/ Lock(h) \/ Scan(h) \/ WriteFails(h) \/ SyncFails(h)
         \/ Release(h) \/ CloseFile(h)
  PROVE  UNCHANGED absVars
<1>1. lines' = lines /\ synced' = synced /\ undone' = undone
  BY DEF Lock, Scan, WriteFails, SyncFails, Release, CloseFile, file
<1>2. \A g \in Handles :
        (pc'[g] = "scanned" /\ scan'[g].err) <=> (pc[g] = "scanned" /\ scan[g].err)
  <2> USE DEF Goto, TypeOK, PC
  <2>1. CASE Scan(h)
    BY <2>1 DEF Scan
  <2>2. CASE ~Scan(h)
    BY <2>2 DEF Lock, WriteFails, SyncFails, Release, CloseFile
  <2> QED
    BY <2>1, <2>2
<1>3. absFailing' = absFailing
  BY <1>2 DEF absFailing
<1> QED
  BY <1>1, <1>3 DEF absVars, absLog, absDurable, absEarlier

\* The holder of the lock is the only one with a scan.
LEMMA OneScan ==
  ASSUME TypeOK, LockInv, NEW h \in Handles, pc[h] \in Holding
  PROVE  absFailing <=> pc[h] = "scanned" /\ scan[h].err
BY DEF LockInv, Holding, absFailing

\* A record reaches the log, unless a garbled line precedes it.
LEMMA WriteRefines ==
  ASSUME TypeOK, LockInv, NEW h \in Handles, Write(h)
  PROVE  [Log!Next]_absVars
<1> DEFINE c == CleanLength(lines)
<1>0. /\ lines \in Seq(Line) /\ Len(lines) \in Nat
      /\ synced \in 0..Len(lines) /\ synced' = synced
  BY LenProperties DEF TypeOK, Write
<1>0a. absEarlier' = absEarlier /\ absFailing' = absFailing
  BY DEF Write, Goto, absEarlier, absFailing, TypeOK, PC
<1>1. IsCleanLength(lines, c)
  BY <1>0, CleanLengthIs
<1>2. c \in 0..Len(lines)
  BY <1>1 DEF IsCleanLength
<1>3. PICK r \in Records :
        /\ lines' = Append(lines, IF torn THEN Garbled ELSE r)
        /\ lines' \in Seq(Line)
        /\ Len(lines') = Len(lines) + 1
        /\ \A i \in 1..Len(lines) : lines'[i] = lines[i]
        /\ lines'[Len(lines) + 1] = IF torn THEN Garbled ELSE r
  BY WriteAppends
<1>4. r # Garbled
  BY JournalAssumption DEF Records
<1> HIDE DEF c
\* The new line is a record right behind the clean ones.
<1>5. CASE c = Len(lines) /\ ~torn
  <2>1. IsCleanLength(lines', Len(lines) + 1)
    <3>1. ASSUME NEW i \in 1..(Len(lines) + 1) PROVE lines'[i] # Garbled
      <4>1. i \in 1..Len(lines) \/ i = Len(lines) + 1
        BY <1>0
      <4> QED
        BY <1>1, <1>3, <1>4, <1>5, <4>1 DEF IsCleanLength
    <3> QED
      BY <1>0, <1>3, <3>1 DEF IsCleanLength
  <2>2. CleanLength(lines') = Len(lines')
    BY <1>3, <2>1, CleanLengthIs
  <2>3. absLog' = lines' /\ absLog = lines
    BY <1>0, <1>3, <1>5, <2>2, SubSeqFull DEF absLog, Clean, c
  <2>4. absDurable' = synced /\ absDurable = synced
    BY <1>0, <1>3, <1>5, <2>2 DEF absDurable, c
  <2>5. Log!Write(r)
    BY <1>0a, <1>3, <1>5, <2>3, <2>4
    DEF Log!Write, absLog, absDurable, absEarlier, absFailing
  <2> QED
    BY <2>5 DEF Log!Next
\* It is garbled, or behind a garbled line.
<1>6. CASE ~ (c = Len(lines) /\ ~torn)
  <2>1. IsCleanLength(lines', c)
    <3>1. \A i \in 1..c : lines'[i] # Garbled
      BY <1>0, <1>1, <1>2, <1>3 DEF IsCleanLength
    <3>2. lines'[c + 1] = Garbled
      <4>1. CASE c = Len(lines)
        BY <1>3, <1>6, <4>1
      <4>2. CASE c < Len(lines)
        BY <1>0, <1>1, <1>2, <1>3, <4>2 DEF IsCleanLength
      <4> QED
        BY <1>0, <1>2, <4>1, <4>2
    <3> QED
      BY <1>0, <1>2, <1>3, <3>1, <3>2 DEF IsCleanLength
  <2>2. CleanLength(lines') = c
    BY <1>3, <2>1, CleanLengthIs
  <2>3. absLog' = absLog
    <3>1. /\ SubSeq(lines, 1, c) \in Seq(Line) /\ Len(SubSeq(lines, 1, c)) = c
          /\ \A i \in 1..c : SubSeq(lines, 1, c)[i] = lines[i]
      BY <1>0, <1>2, PrefixOf
    <3>2. c \in 0..Len(lines')
      BY <1>0, <1>2, <1>3
    <3>3. /\ SubSeq(lines', 1, c) \in Seq(Line) /\ Len(SubSeq(lines', 1, c)) = c
          /\ \A i \in 1..c : SubSeq(lines', 1, c)[i] = lines'[i]
      BY <1>3, <3>2, PrefixOf
    <3>4. \A i \in 1..c : SubSeq(lines', 1, c)[i] = SubSeq(lines, 1, c)[i]
      BY <1>0, <1>2, <1>3, <3>1, <3>3
    <3>5. SubSeq(lines', 1, c) = SubSeq(lines, 1, c)
      BY <3>1, <3>3, <3>4, SeqEqual
    <3> QED
      BY <2>2, <3>5 DEF absLog, Clean, c
  <2>4. absDurable' = absDurable
    BY <1>0, <2>2 DEF absDurable, c
  <2> QED
    BY <1>0a, <2>3, <2>4 DEF absVars
<1> QED
  BY <1>5, <1>6

\* The end of the log that was not synced may be lost, and what a misread cut
\* off may be back.
LEMMA PowerLossRefines ==
  ASSUME TypeOK, UndoneInv, PowerLoss
  PROVE  [Log!Next]_absVars
<1>0. PICK s \in undone \cup {lines} : \E k \in synced..Len(s) :
        /\ s \in Seq(Line) /\ k \in 0..Len(s) /\ k >= synced
        /\ lines' = SubSeq(s, 1, k)
        /\ \A i \in 1..synced : i \in 1..k /\ s[i] = lines[i] /\ lines'[i] = lines[i]
  BY PowerLossCuts
<1>1. PICK k \in synced..Len(s) :
        /\ s \in Seq(Line) /\ k \in 0..Len(s) /\ k >= synced
        /\ lines' = SubSeq(s, 1, k)
        /\ \A i \in 1..synced : i \in 1..k /\ s[i] = lines[i] /\ lines'[i] = lines[i]
  BY <1>0
<1>2. /\ lines \in Seq(Line) /\ Len(lines) \in Nat /\ Len(s) \in Nat
      /\ synced \in 0..Len(lines) /\ synced' = synced
  BY <1>1, LenProperties DEF TypeOK, PowerLoss
<1> DEFINE c == CleanLength(s)
           d == CleanLength(lines)
           m == IF k < c THEN k ELSE c
<1>3. c \in 0..Len(s) /\ d \in 0..Len(lines)
  BY <1>1, <1>2, CleanLengthIs DEF IsCleanLength
<1>4. /\ CleanLength(lines') = m
      /\ SubSeq(lines', 1, m) = SubSeq(Clean(s), 1, m)
  BY <1>1, CleanOfPrefix DEF Clean
<1>5. Len(Clean(s)) = c
  BY <1>1, <1>3, PrefixOf DEF Clean
<1>6. absLog' = SubSeq(Clean(s), 1, m)
  BY <1>4 DEF absLog, Clean
<1>7. (IF synced < c THEN synced ELSE c) = (IF synced < d THEN synced ELSE d)
  BY <1>1, <1>2, CleanOfAgreeing
<1> HIDE DEF c, d
<1>8. absDurable' = absDurable /\ m \in absDurable..c
  BY <1>1, <1>2, <1>3, <1>4, <1>7 DEF absDurable, d
<1>9. Clean(s) \in absEarlier \cup {absLog}
  BY DEF absEarlier, absLog
<1>10. absEarlier' = {} /\ absFailing' = FALSE
  BY DEF PowerLoss, absEarlier, absFailing
<1> HIDE DEF m
<1>11. Log!Lose(Clean(s), m)
  BY <1>5, <1>6, <1>8, <1>9, <1>10
  DEF Log!Lose, absLog, absDurable, absEarlier, absFailing
<1> QED
  BY <1>5, <1>8, <1>9, <1>11 DEF Log!Next, absLog, absDurable, absEarlier

\* The fsync makes the whole log durable, and a damage final.
LEMMA SyncRefines ==
  ASSUME TypeOK, LockInv, NEW h \in Handles, Sync(h)
  PROVE  [Log!Next]_absVars
<1>0. /\ lines \in Seq(Line) /\ Len(lines) \in Nat
      /\ lines' = lines /\ synced' = Len(lines)
  BY LenProperties DEF TypeOK, Sync
<1>1. CleanLength(lines) \in 0..Len(lines)
  BY <1>0, CleanLengthIs DEF IsCleanLength
<1>2. absLog' = absLog /\ Len(absLog) = CleanLength(lines)
  BY <1>0, <1>1, PrefixOf DEF absLog, Clean
<1>3. absDurable' = CleanLength(lines)
  BY <1>0, <1>1 DEF absDurable
<1>4. absEarlier' = {} /\ absFailing' = absFailing
  BY DEF Sync, Goto, absEarlier, absFailing, TypeOK, PC
<1> QED
  BY <1>2, <1>3, <1>4 DEF Log!Next, Log!Commit, absLog, absDurable, absEarlier, absFailing

\* A recovery's read fails.
LEMMA ScanFailsRefines ==
  ASSUME TypeOK, LockInv, NEW h \in Handles, ScanFails(h)
  PROVE  [Log!Next]_absVars
<1>1. lines' = lines /\ synced' = synced /\ undone' = undone /\ ReadFailures
  BY DEF ScanFails, file
<1>2. ~absFailing
  BY OneScan DEF ScanFails, Holding
<1>3. absFailing' = TRUE
  BY DEF ScanFails, Goto, absFailing, TypeOK, PC
<1> QED
  BY <1>1, <1>2, <1>3
  DEF Log!Next, Log!ReadFails, absLog, absDurable, absEarlier, absFailing

\* A recovery that dies with its scan gives up what it read.
LEMMA CrashRefines ==
  ASSUME TypeOK, LockInv, NEW h \in Handles, Crash(h)
  PROVE  [Log!Next]_absVars
<1>1. lines' = lines /\ synced' = synced /\ undone' = undone
  BY DEF Crash
<1>2. \A g \in Handles : g # h => pc'[g] = pc[g] /\ scan'[g] = scan[g]
  BY DEF Crash, Goto, TypeOK
<1>3. pc'[h] = "closed"
  BY DEF Crash, Goto, TypeOK
<1>4. absFailing' => absFailing
  BY <1>2, <1>3 DEF absFailing
<1>5. absFailing \in BOOLEAN /\ absFailing' \in BOOLEAN
  BY DEF absFailing
<1>6. CASE absFailing' = absFailing
  BY <1>1, <1>6 DEF absVars, absLog, absDurable, absEarlier
<1>7. CASE absFailing' # absFailing
  <2>1. absFailing /\ absFailing' = FALSE
    BY <1>4, <1>5, <1>7
  <2> QED
    BY <1>1, <2>1 DEF Log!Next, Log!GiveUp, absLog, absDurable, absEarlier, absFailing
<1> QED
  BY <1>6, <1>7

\* A truncation damages the log after a failed read, and otherwise leaves it.
LEMMA TruncateRefines ==
  ASSUME TypeOK, LockInv, ScanInv, NEW h \in Handles, Truncate(h)
  PROVE  [Log!Next]_absVars
<1>0. lines \in Seq(Line) /\ Len(lines) \in Nat /\ synced \in 0..Len(lines)
  BY LenProperties DEF TypeOK
<1>1. absFailing <=> scan[h].err
  BY OneScan DEF Truncate, Holding
<1>2. ~absFailing'
  <2>1. \A g \in Handles : g # h => pc[g] # "scanned"
    BY DEF LockInv, Holding, Truncate
  <2> QED
    BY <2>1 DEF Truncate, Goto, TypeOK, absFailing
<1>2a. absFailing' = FALSE
  BY <1>2 DEF absFailing
<1>3. PICK k \in 0..Len(lines) :
        /\ lines' = SubSeq(lines, 1, k)
        /\ synced' = IF k < synced THEN k ELSE synced
        /\ \/ k = Len(lines) /\ lines' = lines /\ ~scan[h].err /\ undone' = undone
           \/ k < Len(lines) /\ scan[h].err /\ undone' = undone \cup {lines}
  BY TruncateCuts DEF CutAt
<1>4. CASE ~scan[h].err
  <2>1. lines' = lines /\ synced' = synced /\ undone' = undone
    BY <1>0, <1>3, <1>4
  <2>2. absFailing' = absFailing
    BY <1>1, <1>2a, <1>4 DEF absFailing
  <2> QED
    BY <2>1, <2>2 DEF absVars, absLog, absDurable, absEarlier
<1>5. CASE scan[h].err
  <2> DEFINE c == CleanLength(lines)
             m == IF k < c THEN k ELSE c
  <2>1. c \in 0..Len(lines)
    BY <1>0, CleanLengthIs DEF IsCleanLength
  <2>2. CleanLength(lines') = m /\ SubSeq(lines', 1, m) = SubSeq(Clean(lines), 1, m)
    BY <1>0, <1>3, CleanOfPrefix DEF Clean
  <2>3. Len(absLog) = c
    BY <1>0, <2>1, PrefixOf DEF absLog, Clean
  <2>4. absLog' = SubSeq(absLog, 1, m)
    BY <2>2 DEF absLog, Clean
  <2> HIDE DEF c
  <2>5. absDurable' = IF m < absDurable THEN m ELSE absDurable
    BY <1>0, <1>3, <2>1, <2>2 DEF absDurable, c
  <2>6. undone' = undone \cup {lines}
    BY <1>3, <1>5
  <2>7. absEarlier' = absEarlier \cup {absLog}
    BY <2>6 DEF absEarlier, absLog
  <2>8. m \in 0..c /\ absFailing
    BY <1>1, <1>5, <2>1
  <2> HIDE DEF m
  <2>9. PICK q \in 0..Len(absLog) : q = m
    BY <2>3, <2>8
  <2>10. Log!Damage(q)
    BY <1>2a, <2>3, <2>4, <2>5, <2>7, <2>8, <2>9
    DEF Log!Damage, absLog, absDurable, absEarlier, absFailing
  <2> QED
    BY <2>10 DEF Log!Next, absLog
<1> QED
  BY <1>4, <1>5

\* The journal, torn tails, recoveries, crashes and failing writes included, is
\* a durable log that only a recovery with a failing read damages.
THEOREM Refinement == Spec => ImplementsDurableLog
<1>1. Init => Log!Init
  <2> SUFFICES ASSUME Init PROVE Log!Init
    OBVIOUS
  <2>1. /\ lines = <<>> /\ synced = 0 /\ lines \in Seq(Line) /\ Len(lines) = 0
        /\ undone = {} /\ \A h \in Handles : pc[h] # "scanned"
    BY EmptySeq DEF Init
  <2>2. IsCleanLength(lines, 0)
    BY <2>1 DEF IsCleanLength
  <2>3. CleanLength(lines) = 0
    BY <2>1, <2>2, CleanLengthIs
  <2>4. SubSeq(lines, 1, 0) = <<>>
    BY SubSeqEmpty
  <2> QED
    BY <2>1, <2>3, <2>4 DEF Log!Init, Clean
<1>2. IInv /\ [Next]_vars => [Log!Next]_absVars
  <2> SUFFICES ASSUME IInv, [Next]_vars PROVE [Log!Next]_absVars
    OBVIOUS
  <2> USE DEF IInv
  <2>1. ASSUME NEW h \in Handles, Write(h) PROVE [Log!Next]_absVars
    BY <2>1, WriteRefines
  <2>2. ASSUME NEW h \in Handles, Sync(h) PROVE [Log!Next]_absVars
    BY <2>2, SyncRefines
  <2>3. CASE PowerLoss
    BY <2>3, PowerLossRefines
  <2>4. ASSUME NEW h \in Handles, Truncate(h) PROVE [Log!Next]_absVars
    BY <2>4, TruncateRefines
  <2>5. ASSUME NEW h \in Handles, ScanFails(h) PROVE [Log!Next]_absVars
    BY <2>5, ScanFailsRefines
  <2>6. ASSUME NEW h \in Handles, Crash(h) PROVE [Log!Next]_absVars
    BY <2>6, CrashRefines
  <2>7. ASSUME NEW h \in Handles,
               \/ Lock(h) \/ Scan(h) \/ WriteFails(h) \/ SyncFails(h)
               \/ Release(h) \/ CloseFile(h)
        PROVE  [Log!Next]_absVars
    BY <2>7, QuietRefines
  <2>8. CASE UNCHANGED vars
    BY <2>8 DEF vars, file, absVars, absLog, absDurable, absEarlier, absFailing
  <2> QED
    BY <2>1, <2>2, <2>3, <2>4, <2>5, <2>6, <2>7, <2>8 DEF Next
<1> QED
  BY <1>1, <1>2, Inductive, PTL
     DEF Spec, ImplementsDurableLog, Log!Spec, Log!logVars, absVars, absLog, absDurable,
         absEarlier, absFailing
=============================================================================
