-------------------------- MODULE TokenPathProofs --------------------------
(***************************************************************************)
(* What holds of the token engine for every set of keys and requests, any  *)
(* costs, limit, capacity and bounds, and for every order of the requests, *)
(* sweeps, edits, midnights, restarts and failing uses of files.           *)
(*                                                                         *)
(* MeterInv: the meter is within the limit but for what was carried over   *)
(* midnight, and what is under way is reserved but for the same; a replay  *)
(* of the ledger gives the meter, or less than it and what is unseen if a  *)
(* line has been lost or dated tomorrow. BooksInv follows a call from the  *)
(* server through the ledger into the analytics, and says on which side    *)
(* they differ once a write has failed or the process has died. CacheInv:  *)
(* the links of the list and the map are sound, and a key that is not      *)
(* raced has one use at most, whose entry is in memory or in the file; a   *)
(* Put that has the file to itself brings its key back under it.           *)
(*                                                                         *)
(* The first parts say what the sums, Replay and the loops of the cache do *)
(* when a request moves, a line is appended or a key is dropped: they are  *)
(* folds over finite sets, followed by their least counterexample.         *)
(***************************************************************************)
EXTENDS TokenPath, FiniteSetTheorems, SequenceTheorems, WellFoundedInduction, TLAPS

\* A set of numbers that is not empty has a least one.
LEMMA Least ==
  ASSUME NEW T \in SUBSET Nat, T # {}
  PROVE  \E x \in T : \A y \in T : x <= y
<1>1. PICK x \in T : \A y \in T : ~ (<<y, x>> \in OpToRel(<, Nat))
  BY WFMin, NatLessThanWellFounded
<1>2. \A y \in T : ~ (y < x)
  BY <1>1 DEF OpToRel
<1> QED
  BY <1>2

-----------------------------------------------------------------------------
\* The element that the folds of the community modules take first.
Pick(s) == CHOOSE x \in s : TRUE

\* A set that is not empty is what Pick takes from it and a smaller rest.
LEMMA PickParts ==
  ASSUME NEW s, IsFiniteSet(s), s # {}
  PROVE  /\ Pick(s) \in s
         /\ IsFiniteSet(s \ {Pick(s)})
         /\ Cardinality(s) \in Nat /\ Cardinality(s \ {Pick(s)}) \in Nat
         /\ Cardinality(s \ {Pick(s)}) = Cardinality(s) - 1
<1>1. Pick(s) \in s
  BY DEF Pick
<1> QED
  BY <1>1, FS_RemoveElement, FS_CardinalityType

\* g takes each subset of S from the value for what is left of it.
IsFold(g, S, base, step) ==
  \A s \in SUBSET S : g[s] = IF s = {} THEN base ELSE step[<<Pick(s), g[s \ {Pick(s)}]>>]

\* A fold over the subsets of a finite set exists: a function that takes each
\* set from the value for what is left of it.
LEMMA FoldExists ==
  ASSUME NEW S, IsFiniteSet(S), NEW M, NEW base \in M, NEW step \in [S \X M -> M]
  PROVE  \E g \in [SUBSET S -> M] : IsFold(g, S, base, step)
<1> DEFINE Small(n) == {s \in SUBSET S : Cardinality(s) <= n}
           Works(g, n) == \A s \in Small(n) :
             g[s] = IF s = {} THEN base ELSE step[<<Pick(s), g[s \ {Pick(s)}]>>]
           Bad == {n \in Nat : ~ \E g \in [Small(n) -> M] : Works(g, n)}
<1>0. \A s \in SUBSET S : IsFiniteSet(s) /\ Cardinality(s) \in Nat /\ Cardinality(s) <= Cardinality(S)
  BY FS_Subset, FS_CardinalityType
<1>1. ASSUME Bad # {}  PROVE FALSE
  <2>1. PICK b \in Bad : \A y \in Bad : b <= y
    <3>1. Bad \in SUBSET Nat
      OBVIOUS
    <3> QED  BY <3>1, <1>1, Least
  <2>2. CASE b = 0
    <3> DEFINE g == [s \in Small(0) |-> base]
    <3>1. \A s \in Small(0) : s = {}
      BY <1>0, FS_EmptySet
    <3>2. g \in [Small(0) -> M] /\ Works(g, 0)
      BY <3>1
    <3> QED  BY <3>2, <2>1, <2>2
  <2>3. CASE b # 0
    <3>0. b \in Nat /\ b - 1 \in Nat /\ b - 1 \notin Bad
      <4>1. b \in Nat /\ b - 1 \in Nat /\ ~(b <= b - 1)
        BY <2>3
      <4> HIDE DEF Bad
      <4> QED  BY <4>1, <2>1
    <3>1. PICK h \in [Small(b - 1) -> M] : Works(h, b - 1)
      BY <3>0
    <3> DEFINE g == [s \in Small(b) |-> IF s = {} THEN base
                       ELSE step[<<Pick(s), h[s \ {Pick(s)}]>>]]
    <3>2. \A s \in Small(b) : s # {} => Pick(s) \in S /\ s \ {Pick(s)} \in Small(b - 1)
      <4> TAKE s \in Small(b)
      <4> HAVE s # {}
      <4>1. IsFiniteSet(s) /\ s \subseteq S /\ Cardinality(s) <= b
        BY <1>0
      <4>2. Pick(s) \in s /\ Cardinality(s) \in Nat /\ Cardinality(s \ {Pick(s)}) = Cardinality(s) - 1
        BY <4>1, PickParts
      <4> QED  BY <3>0, <4>1, <4>2
    <3>3. g \in [Small(b) -> M]
      BY <3>1, <3>2
    <3>4. \A s \in Small(b - 1) : s \in Small(b) /\ g[s] = h[s]
      <4>1. Small(b - 1) \subseteq Small(b)
        BY <1>0, <3>0
      <4> QED  BY <4>1, <3>1
    <3>5. Works(g, b)
      <4> TAKE s \in Small(b)
      <4>1. CASE s = {}
        BY <4>1
      <4>2. CASE s # {}
        <5>1. s \ {Pick(s)} \in Small(b - 1)
          BY <3>2, <4>2
        <5>2. g[s \ {Pick(s)}] = h[s \ {Pick(s)}]
          BY <3>4, <5>1
        <5> QED  BY <5>2, <4>2
      <4> QED  BY <4>1, <4>2
    <3> QED  BY <3>3, <3>5, <2>1
  <2> QED  BY <2>2, <2>3
<1>2. Cardinality(S) \in Nat /\ Small(Cardinality(S)) = SUBSET S
  BY <1>0, FS_CardinalityType
<1>3. \E g \in [Small(Cardinality(S)) -> M] : Works(g, Cardinality(S))
  BY <1>1, <1>2
<1> QED  BY <1>2, <1>3 DEF IsFold

-----------------------------------------------------------------------------
Adds(iter, f, S) ==
  iter = [s \in SUBSET S |-> IF s = {} THEN 0 ELSE f[Pick(s)] + iter[s \ {Pick(s)}]]

\* A sum of the community modules is the value of such an iteration.
LEMMA SumIs == 
  ASSUME NEW f, NEW S
  PROVE SumFunctionOnSet(f, S) = (CHOOSE iter : Adds(iter, f, S))[S]
BY DEF SumFunctionOnSet, FoldFunctionOnSet, MapThenFoldSet, Pick, Adds

\* The sum over the subsets of S: a function with the defining equation.
LEMMA AddsExists ==
  ASSUME NEW S, IsFiniteSet(S), NEW f, \A x \in S : f[x] \in Nat
  PROVE  Adds(CHOOSE iter : Adds(iter, f, S), f, S)
<1> DEFINE step == [p \in S \X Nat |-> f[p[1]] + p[2]]
<1>1. step \in [S \X Nat -> Nat]
  OBVIOUS
<1>2. PICK g \in [SUBSET S -> Nat] : IsFold(g, S, 0, step)
  <2> HIDE DEF step
  <2> QED  BY <1>1, FoldExists
<1>3. \A s \in SUBSET S : s # {} => step[<<Pick(s), g[s \ {Pick(s)}]>>] = f[Pick(s)] + g[s \ {Pick(s)}]
  <2> TAKE s \in SUBSET S
  <2> HAVE s # {}
  <2>1. Pick(s) \in S /\ s \ {Pick(s)} \in SUBSET S
    BY DEF Pick
  <2>2. <<Pick(s), g[s \ {Pick(s)}]>> \in S \X Nat
    BY <2>1, <1>2
  <2> QED  BY <2>2
<1>4. Adds(g, f, S)
  <2> HIDE DEF step
  <2> QED BY <1>2, <1>3 DEF Adds, IsFold
<1> QED  BY <1>4

\* Of the subsets of a finite set with a property, one loses it with any of its
\* elements: induction over finite sets.
LEMMA Smallest ==
  ASSUME NEW S, IsFiniteSet(S), NEW Bad \in SUBSET (SUBSET S), Bad # {}
  PROVE  \E s \in Bad : \A x \in s : s \ {x} \notin Bad
<1> DEFINE Sizes == {Cardinality(s) : s \in Bad}
<1>1. \A s \in Bad : IsFiniteSet(s) /\ Cardinality(s) \in Nat
  BY FS_Subset, FS_CardinalityType
<1>2. PICK s \in Bad : \A t \in Bad : Cardinality(s) <= Cardinality(t)
  <2>1. Sizes \in SUBSET Nat /\ Sizes # {}
    BY <1>1
  <2>2. PICK n \in Sizes : \A k \in Sizes : n <= k
    <3> HIDE DEF Sizes
    <3> QED  BY <2>1, Least
  <2> QED  BY <2>2
<1>3. ASSUME NEW x \in s, s \ {x} \in Bad  PROVE FALSE
  <2>1. Cardinality(s \ {x}) = Cardinality(s) - 1
    BY <1>1, <1>3, FS_RemoveElement
  <2>2. Cardinality(s) <= Cardinality(s \ {x})
    BY <1>2, <1>3
  <2> QED  BY <1>1, <2>1, <2>2
<1> QED  BY <1>3

\* The sum over a set does not depend on what else the function is defined on.
LEMMA AddsAgree ==
  ASSUME NEW S, NEW T \in SUBSET S, IsFiniteSet(S), NEW f, NEW g,
         \A x \in T : f[x] = g[x], NEW i, Adds(i, f, S), NEW j, Adds(j, g, T)
  PROVE  i[T] = j[T]
<1> DEFINE Bad == {s \in SUBSET T : i[s] # j[s]}
<1>0. IsFiniteSet(T)
  BY FS_Subset
<1>1. ASSUME Bad # {}  PROVE FALSE
  <2>1. PICK s \in Bad : \A x \in s : s \ {x} \notin Bad
    <3>1. Bad \in SUBSET (SUBSET T)
      OBVIOUS
    <3> HIDE DEF Bad
    <3> QED  BY <1>0, <1>1, <3>1, Smallest
  <2>2. /\ i[s] = IF s = {} THEN 0 ELSE f[Pick(s)] + i[s \ {Pick(s)}]
        /\ j[s] = IF s = {} THEN 0 ELSE g[Pick(s)] + j[s \ {Pick(s)}]
    <3>1. s \in SUBSET S /\ s \in SUBSET T
      OBVIOUS
    <3> QED  BY <3>1 DEF Adds
  <2>3. s # {}
    BY <2>2
  <2>4. Pick(s) \in s /\ s \ {Pick(s)} \in SUBSET T
    BY <2>3 DEF Pick
  <2>5. f[Pick(s)] = g[Pick(s)] /\ i[s \ {Pick(s)}] = j[s \ {Pick(s)}]
    BY <2>1, <2>4
  <2>6. i[s] = j[s]
    BY <2>2, <2>3, <2>5
  <2> QED  BY <2>6
<1> QED  BY <1>1

\* A sum is the sum of what Pick takes and of the rest.
LEMMA SumPick ==
  ASSUME NEW S, IsFiniteSet(S), NEW f, \A x \in S : f[x] \in Nat
  PROVE  /\ S = {} => SumFunctionOnSet(f, S) = 0
         /\ S # {} => SumFunctionOnSet(f, S) =
                        f[Pick(S)] + SumFunctionOnSet(f, S \ {Pick(S)})
<1> DEFINE i == CHOOSE iter : Adds(iter, f, S)
           T == S \ {Pick(S)}
           j == CHOOSE iter : Adds(iter, f, T)
<1>1. Adds(i, f, S)
  BY AddsExists
<1>2. IsFiniteSet(T) /\ T \in SUBSET S
  BY FS_Subset
<1>3. Adds(j, f, T)
  BY <1>2, AddsExists
<1>4. i[T] = j[T]
  <2> HIDE DEF i, j, T
  <2> QED  BY <1>1, <1>2, <1>3, AddsAgree
<1>5. SumFunctionOnSet(f, S) = i[S] /\ SumFunctionOnSet(f, T) = j[T]
  BY SumIs
<1>6. i[S] = IF S = {} THEN 0 ELSE f[Pick(S)] + i[T]
  <2>1. S \in SUBSET S
    OBVIOUS
  <2> HIDE DEF i
  <2> QED  BY <1>1, <2>1 DEF Adds
<1> HIDE DEF i, j
<1> QED  BY <1>4, <1>5, <1>6

\* Two functions that agree on a set have one sum over it.
LEMMA SumAgree ==
  ASSUME NEW S, IsFiniteSet(S), NEW f, NEW g,
         \A x \in S : f[x] \in Nat /\ f[x] = g[x]
  PROVE  SumFunctionOnSet(f, S) = SumFunctionOnSet(g, S)
<1> DEFINE i == CHOOSE iter : Adds(iter, f, S)
           j == CHOOSE iter : Adds(iter, g, S)
<1>1. Adds(i, f, S) /\ Adds(j, g, S)
  BY AddsExists
<1>2. i[S] = j[S]
  <2> HIDE DEF i, j
  <2> QED  BY <1>1, AddsAgree
<1> QED  BY <1>2, SumIs

\* A sum of natural numbers is one.
LEMMA SumType ==
  ASSUME NEW S, IsFiniteSet(S), NEW f, \A x \in S : f[x] \in Nat
  PROVE  SumFunctionOnSet(f, S) \in Nat
<1> DEFINE Bad == {s \in SUBSET S : SumFunctionOnSet(f, s) \notin Nat}
<1>1. ASSUME Bad # {}  PROVE FALSE
  <2>1. PICK s \in Bad : \A x \in s : s \ {x} \notin Bad
    <3>1. Bad \in SUBSET (SUBSET S)
      OBVIOUS
    <3> HIDE DEF Bad
    <3> QED  BY <1>1, <3>1, Smallest
  <2>2. IsFiniteSet(s) /\ \A x \in s : f[x] \in Nat
    BY FS_Subset
  <2>3. s # {}
    <3>1. s = {} => SumFunctionOnSet(f, s) = 0
      BY <2>2, SumPick
    <3>2. SumFunctionOnSet(f, s) \notin Nat
      OBVIOUS
    <3> QED  BY <3>1, <3>2
  <2>4. Pick(s) \in s /\ SumFunctionOnSet(f, s \ {Pick(s)}) \in Nat
    BY <2>1, <2>3 DEF Pick
  <2>5. SumFunctionOnSet(f, s) = f[Pick(s)] + SumFunctionOnSet(f, s \ {Pick(s)})
    BY <2>2, <2>3, SumPick
  <2>6. f[Pick(s)] \in Nat
    BY <2>2, <2>4
  <2>7. SumFunctionOnSet(f, s) \in Nat
    BY <2>4, <2>5, <2>6
  <2> QED  BY <2>7
<1> QED  BY <1>1

\* A sum is the sum of any one of its terms and of the rest.
LEMMA SumRemove ==
  ASSUME NEW S, IsFiniteSet(S), NEW f, \A x \in S : f[x] \in Nat, NEW r \in S
  PROVE  SumFunctionOnSet(f, S) = f[r] + SumFunctionOnSet(f, S \ {r})
<1> DEFINE Bad == {s \in SUBSET S : \E x \in s :
                     SumFunctionOnSet(f, s) # f[x] + SumFunctionOnSet(f, s \ {x})}
<1>1. ASSUME Bad # {}  PROVE FALSE
  <2>1. PICK s \in Bad : \A x \in s : s \ {x} \notin Bad
    <3>1. Bad \in SUBSET (SUBSET S)
      OBVIOUS
    <3> HIDE DEF Bad
    <3> QED  BY <1>1, <3>1, Smallest
  <2>2. PICK x \in s : SumFunctionOnSet(f, s) # f[x] + SumFunctionOnSet(f, s \ {x})
    OBVIOUS
  <2>3. /\ s \in SUBSET S /\ IsFiniteSet(s) /\ s # {}
        /\ \A y \in s : f[y] \in Nat
    BY FS_Subset
  <2> DEFINE p == Pick(s)
  <2>4. p \in s
    BY <2>3 DEF Pick
  <2>5. SumFunctionOnSet(f, s) = f[p] + SumFunctionOnSet(f, s \ {p})
    BY <2>3, SumPick
  <2>6. x # p
    BY <2>2, <2>5
  <2> DEFINE rest == (s \ {p}) \ {x}
  <2>7. /\ s \ {p} \notin Bad /\ s \ {x} \notin Bad
        /\ s \ {p} \in SUBSET S /\ s \ {x} \in SUBSET S
        /\ x \in s \ {p} /\ p \in s \ {x}
        /\ rest = (s \ {x}) \ {p}
    BY <2>1, <2>3, <2>4, <2>6
  <2> HIDE DEF p
  <2>8. SumFunctionOnSet(f, s \ {p}) = f[x] + SumFunctionOnSet(f, rest)
    BY <2>7
  <2>9. SumFunctionOnSet(f, s \ {x}) = f[p] + SumFunctionOnSet(f, rest)
    BY <2>7
  <2>10. f[p] \in Nat /\ f[x] \in Nat /\ SumFunctionOnSet(f, rest) \in Nat
    <3>1. IsFiniteSet(rest) /\ \A y \in rest : f[y] \in Nat
      BY <2>3, FS_Subset
    <3> QED  BY <2>3, <2>4, <3>1, SumType
  <2> HIDE DEF rest
  <2>11. SumFunctionOnSet(f, s) = f[x] + SumFunctionOnSet(f, s \ {x})
    BY <2>5, <2>8, <2>9, <2>10
  <2> QED  BY <2>2, <2>11
<1>2. S \notin Bad
  BY <1>1
<1> QED  BY <1>2

-----------------------------------------------------------------------------
\* The meter and its ledger.
Meter == [spent : Nat, reserved : Nat, day : Nat]
LedgerLine == [type : {"reserve", "commit"}, usd : Nat, day : Nat]
CallLine == [usd : Nat, day : Nat]

\* What replayLedger does with one line of the ledger.
Book(m, line, now) ==
  IF line.day # now THEN m
  ELSE IF line.type = "reserve" THEN [m EXCEPT !.reserved = @ + line.usd]
  ELSE Settle(m, line.usd)

IsReplay(m, lines, now) ==
  m = [n \in 0..Len(lines) |-> IF n = 0 THEN NewMeter(now) ELSE Book(m[n - 1], lines[n], now)]

\* Replay is the value of such an iteration.
LEMMA ReplayIs ==
  ASSUME NEW lines, NEW now
  PROVE  Replay(lines, now) = (CHOOSE m : IsReplay(m, lines, now))[Len(lines)]
BY DEF Replay, IsReplay, Book

\* A line leaves a meter of its day a meter of that day.
LEMMA BookType ==
  ASSUME NEW now \in Nat, NEW m \in [spent : Nat, reserved : Nat, day : {now}],
         NEW line \in LedgerLine
  PROVE  Book(m, line, now) \in [spent : Nat, reserved : Nat, day : {now}]
<1> DEFINE c == line.usd
<1>1. /\ m.spent \in Nat /\ m.reserved \in Nat /\ c \in Nat /\ m.day = now
      /\ m = [spent |-> m.spent, reserved |-> m.reserved, day |-> m.day]
  BY DEF LedgerLine
<1>2. m.spent + c \in Nat /\ m.reserved + c \in Nat
  BY <1>1
<1>3. m.reserved >= c => m.reserved - c \in Nat
  BY <1>1
<1>4. [m EXCEPT !.reserved = @ + c] \in [spent : Nat, reserved : Nat, day : {now}]
  BY <1>1, <1>2
<1>5. Settle(m, c) \in [spent : Nat, reserved : Nat, day : {now}]
  BY <1>1, <1>2, <1>3 DEF Settle
<1> QED  BY <1>4, <1>5 DEF Book

\* The meter after each line of a ledger: a function with that equation.
LEMMA ReplayExists ==
  ASSUME NEW lines \in Seq(LedgerLine), NEW now \in Nat
  PROVE  IsReplay(CHOOSE m : IsReplay(m, lines, now), lines, now)
<1> DEFINE M == [spent : Nat, reserved : Nat, day : {now}]
           Works(g, n) == \A i \in 0..n :
             g[i] = IF i = 0 THEN NewMeter(now) ELSE Book(g[i - 1], lines[i], now)
           Bad == {n \in 0..Len(lines) : ~ \E g \in [0..n -> M] : Works(g, n)}
<1>0. Len(lines) \in Nat /\ \A i \in 1..Len(lines) : lines[i] \in LedgerLine
  BY LenProperties
<1>1. ASSUME Bad # {}  PROVE FALSE
  <2>1. PICK b \in Bad : \A y \in Bad : b <= y
    <3>1. Bad \in SUBSET Nat
      BY <1>0
    <3> HIDE DEF Bad
    <3> QED  BY <3>1, <1>1, Least
  <2>2. b \in 0..Len(lines) /\ b \in Nat
    BY <1>0
  <2>3. CASE b = 0
    <3> DEFINE g == [i \in 0..0 |-> NewMeter(now)]
    <3>1. g \in [0..0 -> M] /\ Works(g, 0)
      BY DEF NewMeter
    <3> QED  BY <3>1, <2>3
  <2>4. CASE b # 0
    <3>1. b - 1 \in 0..Len(lines) /\ ~(b <= b - 1) /\ b - 1 \in Nat /\ b \in 1..Len(lines)
      BY <1>0, <2>2, <2>4
    <3>2. b - 1 \notin Bad
      <4> HIDE DEF Bad
      <4> QED  BY <2>1, <3>1
    <3>3. PICK h \in [0..(b - 1) -> M] : Works(h, b - 1)
      BY <3>1, <3>2
    <3> DEFINE g == [i \in 0..b |-> IF i = b THEN Book(h[b - 1], lines[b], now) ELSE h[i]]
    <3>4. h[b - 1] \in M /\ lines[b] \in LedgerLine
      BY <1>0, <3>1, <3>3
    <3>5. Book(h[b - 1], lines[b], now) \in M
      BY <3>4, BookType
    <3>6. \A i \in 0..b : i # b => i \in 0..(b - 1)
      BY <2>2
    <3>7. g \in [0..b -> M]
      BY <3>3, <3>5, <3>6
    <3>8. \A i \in 0..(b - 1) : i \in 0..b /\ i # b /\ g[i] = h[i]
      BY <2>2
    <3>9. g[b] = Book(g[b - 1], lines[b], now)
      <4>1. b - 1 \in 0..(b - 1) /\ b \in 0..b
        BY <2>2, <3>1
      <4> QED  BY <4>1, <3>8
    <3> HIDE DEF g
    <3>10. \A i \in 0..(b - 1) : i # 0 => i - 1 \in 0..(b - 1)
      BY <2>2
    <3>11. Works(g, b)
      <4> TAKE i \in 0..b
      <4>1. CASE i = b
        BY <4>1, <2>4, <3>9
      <4>2. CASE i # b /\ i = 0
        BY <4>2, <3>3, <3>6, <3>8
      <4>3. CASE i # b /\ i # 0
        BY <4>3, <3>3, <3>6, <3>8, <3>10
      <4> QED  BY <4>1, <4>2, <4>3
    <3> QED  BY <3>7, <3>11
  <2> QED  BY <2>3, <2>4
<1>2. PICK g \in [0..Len(lines) -> M] : Works(g, Len(lines))
  <2>1. Len(lines) \in 0..Len(lines)
    BY <1>0
  <2> QED  BY <1>1, <2>1
<1>3. IsReplay(g, lines, now)
  BY <1>2 DEF IsReplay
<1> QED  BY <1>3

\* What is known of a replay: it starts anew, and a line more is one step more.
LEMMA ReplayAppend ==
  ASSUME NEW lines \in Seq(LedgerLine), NEW line \in LedgerLine, NEW now \in Nat
  PROVE  Replay(Append(lines, line), now) = Book(Replay(lines, now), line, now)
<1> DEFINE more == Append(lines, line)
           i == CHOOSE m : IsReplay(m, lines, now)
           j == CHOOSE m : IsReplay(m, more, now)
           n == Len(lines)
           Bad == {k \in 0..n : i[k] # j[k]}
<1>1. more \in Seq(LedgerLine) /\ Len(more) = n + 1 /\ more[n + 1] = line /\ n \in Nat
      /\ \A k \in 1..n : more[k] = lines[k]
  BY AppendProperties, LenProperties
<1>2. IsReplay(i, lines, now) /\ IsReplay(j, more, now)
  BY <1>1, ReplayExists
<1> HIDE DEF i, j
<1>3. /\ \A k \in 0..n : i[k] = IF k = 0 THEN NewMeter(now) ELSE Book(i[k - 1], lines[k], now)
      /\ \A k \in 0..(n + 1) : j[k] = IF k = 0 THEN NewMeter(now) ELSE Book(j[k - 1], more[k], now)
  BY <1>1, <1>2 DEF IsReplay
<1>4. ASSUME Bad # {}  PROVE FALSE
  <2>1. PICK b \in Bad : \A y \in Bad : b <= y
    <3>1. Bad \in SUBSET Nat
      BY <1>1
    <3> HIDE DEF Bad
    <3> QED  BY <3>1, <1>4, Least
  <2>2. b \in 0..n /\ b \in 0..(n + 1) /\ b \in Nat /\ i[b] # j[b]
    BY <1>1
  <2>3. b # 0
    BY <1>3, <2>2
  <2>4. b - 1 \in 0..n /\ ~(b <= b - 1) /\ b \in 1..n
    BY <1>1, <2>2, <2>3
  <2>5. b - 1 \notin Bad
    <3> HIDE DEF Bad
    <3> QED  BY <2>1, <2>4
  <2>6. i[b - 1] = j[b - 1] /\ more[b] = lines[b]
    BY <1>1, <2>4, <2>5
  <2> QED  BY <1>3, <2>2, <2>3, <2>6
<1>5. i[n] = j[n]
  <2>1. n \in 0..n
    BY <1>1
  <2> QED  BY <1>4, <2>1
<1>6. j[n + 1] = Book(j[n], line, now)
  <2>1. n + 1 \in 0..(n + 1) /\ n + 1 # 0 /\ (n + 1) - 1 = n
    BY <1>1
  <2> QED  BY <1>1, <1>3, <2>1
<1>7. Replay(lines, now) = i[n] /\ Replay(more, now) = j[n + 1]
  BY <1>1, ReplayIs DEF i, j
<1> QED  BY <1>5, <1>6, <1>7

\* A replay is a meter of the day it is made for, and a new one when the
\* ledger has no line of that day.
LEMMA ReplayDay ==
  ASSUME NEW lines \in Seq(LedgerLine), NEW now \in Nat
  PROVE  /\ Replay(lines, now) \in Meter /\ Replay(lines, now).day = now
         /\ (\A k \in DOMAIN lines : lines[k].day # now) => Replay(lines, now) = NewMeter(now)
<1> DEFINE M == [spent : Nat, reserved : Nat, day : {now}]
           i == CHOOSE m : IsReplay(m, lines, now)
           n == Len(lines)
           Old == \A k \in DOMAIN lines : lines[k].day # now
           Bad == {k \in 0..n : ~(i[k] \in M /\ (Old => i[k] = NewMeter(now)))}
<1>1. n \in Nat /\ DOMAIN lines = 1..n /\ \A k \in 1..n : lines[k] \in LedgerLine
  BY LenProperties
<1>2. IsReplay(i, lines, now)
  BY ReplayExists
<1> HIDE DEF i
<1>3. \A k \in 0..n : i[k] = IF k = 0 THEN NewMeter(now) ELSE Book(i[k - 1], lines[k], now)
  BY <1>1, <1>2 DEF IsReplay
<1>4. ASSUME Bad # {}  PROVE FALSE
  <2>1. PICK b \in Bad : \A y \in Bad : b <= y
    <3>1. Bad \in SUBSET Nat
      BY <1>1
    <3> HIDE DEF Bad
    <3> QED  BY <3>1, <1>4, Least
  <2>2. b \in 0..n /\ b \in Nat
    BY <1>1
  <2>3. NewMeter(now) \in M
    BY DEF NewMeter
  <2>4. b # 0
    BY <1>3, <2>2, <2>3
  <2>5. b - 1 \in 0..n /\ ~(b <= b - 1) /\ b \in 1..n
    BY <1>1, <2>2, <2>4
  <2>6. b - 1 \notin Bad
    <3> HIDE DEF Bad
    <3> QED  BY <2>1, <2>5
  <2>7. i[b - 1] \in M /\ (Old => i[b - 1] = NewMeter(now))
    BY <2>5, <2>6
  <2>8. i[b] = Book(i[b - 1], lines[b], now) /\ lines[b] \in LedgerLine
    BY <1>1, <1>3, <2>2, <2>4, <2>5
  <2>9. i[b] \in M
    <3>1. i[b - 1] \in M /\ lines[b] \in LedgerLine
      BY <2>7, <2>8
    <3>2. Book(i[b - 1], lines[b], now) \in M
      <4> HIDE DEF Bad, Old
      <4> QED  BY <3>1, BookType
    <3> QED  BY <2>8, <3>2
  <2>10. Old => i[b] = i[b - 1]
    BY <1>1, <2>5, <2>8 DEF Book
  <2> QED  BY <2>2, <2>7, <2>9, <2>10
<1>5. n \in 0..n /\ n \notin Bad
  BY <1>1, <1>4
<1>6. i[n] \in M /\ (Old => i[n] = NewMeter(now))
  BY <1>5
<1>7. Replay(lines, now) = i[n]
  BY ReplayIs DEF i
<1> HIDE DEF Bad, Old
<1>8. Replay(lines, now) \in Meter /\ Replay(lines, now).day = now
  BY <1>6, <1>7 DEF Meter
<1> QED  BY <1>6, <1>7, <1>8 DEF Old

-----------------------------------------------------------------------------
\* A line of the ledger adds what it commits, one of the calls its cost.
LEMMA CommittedAppend ==
  ASSUME NEW lines \in Seq(LedgerLine), NEW line \in LedgerLine
  PROVE  /\ Committed(lines) \in Nat
         /\ line.type = "reserve" => Committed(Append(lines, line)) = Committed(lines)
         /\ line.type = "commit" => Committed(Append(lines, line)) = Committed(lines) + line.usd
<1> DEFINE more == Append(lines, line)
           n == Len(lines)
           f == [i \in DOMAIN lines |-> lines[i].usd]
           g == [i \in DOMAIN more |-> more[i].usd]
           S == {i \in DOMAIN lines : lines[i].type = "commit"}
           T == {i \in DOMAIN more : more[i].type = "commit"}
<1>1. /\ n \in Nat /\ DOMAIN lines = 1..n /\ DOMAIN more = 1..(n + 1)
      /\ more[n + 1] = line /\ \A i \in 1..n : more[i] = lines[i] /\ lines[i] \in LedgerLine
  <2>1. more \in Seq(LedgerLine) /\ Len(more) = n + 1 /\ n \in Nat
    BY AppendProperties, LenProperties
  <2> QED  BY <2>1, AppendProperties, LenProperties
<1>2. IsFiniteSet(S) /\ IsFiniteSet(T)
  <2>1. IsFiniteSet(1..n) /\ IsFiniteSet(1..(n + 1))
    BY <1>1, FS_Interval
  <2> QED  BY <1>1, <2>1, FS_Subset
<1>3. \A i \in S : f[i] \in Nat /\ f[i] = g[i]
  <2>1. \A i \in S : f[i] = lines[i].usd /\ i \in 1..n /\ i \in 1..(n + 1)
    BY <1>1
  <2>2. \A i \in S : g[i] = lines[i].usd
    BY <1>1, <2>1
  <2>3. \A i \in S : lines[i].usd \in Nat
    BY <1>1, <2>1 DEF LedgerLine
  <2> HIDE DEF S, f, g
  <2> QED  BY <2>1, <2>2, <2>3
<1>4. Committed(lines) = SumFunctionOnSet(f, S) /\ Committed(more) = SumFunctionOnSet(g, T)
  BY DEF Committed
<1>5. line.usd \in Nat /\ line.type \in {"reserve", "commit"}
  BY DEF LedgerLine
<1>6. n + 1 \in 1..(n + 1) /\ n + 1 \notin 1..n /\ \A i \in 1..(n + 1) : i # n + 1 => i \in 1..n
  BY <1>1
<1>6a. \A i \in 1..n : i \in 1..(n + 1)
  BY <1>1
<1>7. n + 1 \notin S /\ T \ {n + 1} = S /\ (n + 1 \in T <=> line.type = "commit")
  BY <1>1, <1>6, <1>6a
<1>8. g[n + 1] = line.usd
  BY <1>1, <1>6
<1> HIDE DEF S, T, f, g
<1>9. SumFunctionOnSet(f, S) \in Nat /\ SumFunctionOnSet(g, S) = SumFunctionOnSet(f, S)
  BY <1>2, <1>3, SumType, SumAgree
<1>10. CASE line.type = "reserve"
  <2>1. T = S
    BY <1>7, <1>10
  <2> QED  BY <1>4, <1>9, <1>10, <2>1
<1>11. CASE line.type = "commit"
  <2>1. n + 1 \in T /\ \A i \in T : g[i] \in Nat
    BY <1>3, <1>5, <1>7, <1>8, <1>11
  <2> DEFINE k == n + 1
  <2>2. k \in T /\ g[k] = line.usd /\ T \ {k} = S
    BY <1>7, <1>8, <2>1
  <2> HIDE DEF k
  <2>3. SumFunctionOnSet(g, T) = line.usd + SumFunctionOnSet(f, S)
    BY <1>2, <1>9, <2>1, <2>2, SumRemove
  <2> QED  BY <1>4, <1>5, <1>9, <1>11, <2>3
<1> QED  BY <1>5, <1>10, <1>11

\* The same of the calls: all of them count, from the first day on.
LEMMA SummaryAppend ==
  ASSUME NEW lines \in Seq(CallLine), \A i \in DOMAIN lines : lines[i].day >= 1,
         NEW line \in CallLine, line.day >= 1
  PROVE  /\ SummaryTotal(lines, 1) \in Nat
         /\ SummaryTotal(Append(lines, line), 1) = SummaryTotal(lines, 1) + line.usd
<1> DEFINE more == Append(lines, line)
           n == Len(lines)
           f == [i \in DOMAIN lines |-> lines[i].usd]
           g == [i \in DOMAIN more |-> more[i].usd]
           S == {i \in DOMAIN lines : lines[i].day >= 1}
           T == {i \in DOMAIN more : more[i].day >= 1}
<1>1. /\ n \in Nat /\ DOMAIN lines = 1..n /\ DOMAIN more = 1..(n + 1)
      /\ more[n + 1] = line /\ \A i \in 1..n : more[i] = lines[i] /\ lines[i] \in CallLine
  <2>1. more \in Seq(CallLine) /\ Len(more) = n + 1 /\ n \in Nat
    BY AppendProperties, LenProperties
  <2> QED  BY <2>1, AppendProperties, LenProperties
<1>2. IsFiniteSet(S) /\ IsFiniteSet(T)
  <2>1. IsFiniteSet(1..n) /\ IsFiniteSet(1..(n + 1))
    BY <1>1, FS_Interval
  <2> QED  BY <1>1, <2>1, FS_Subset
<1>3. \A i \in S : f[i] \in Nat /\ f[i] = g[i]
  <2>1. \A i \in S : f[i] = lines[i].usd /\ i \in 1..n /\ i \in 1..(n + 1)
    BY <1>1
  <2>2. \A i \in S : g[i] = lines[i].usd
    BY <1>1, <2>1
  <2>3. \A i \in S : lines[i].usd \in Nat
    BY <1>1, <2>1 DEF CallLine
  <2> HIDE DEF S, f, g
  <2> QED  BY <2>1, <2>2, <2>3
<1>4. SummaryTotal(lines, 1) = SumFunctionOnSet(f, S) /\ SummaryTotal(more, 1) = SumFunctionOnSet(g, T)
  BY DEF SummaryTotal
<1>5. line.usd \in Nat
  BY DEF CallLine
<1>6. n + 1 \in 1..(n + 1) /\ n + 1 \notin 1..n /\ \A i \in 1..(n + 1) : i # n + 1 => i \in 1..n
  BY <1>1
<1>6a. \A i \in 1..n : i \in 1..(n + 1)
  BY <1>1
<1>7. n + 1 \notin S /\ T \ {n + 1} = S /\ n + 1 \in T
  BY <1>1, <1>6, <1>6a
<1>8. g[n + 1] = line.usd
  BY <1>1, <1>6
<1> HIDE DEF S, T, f, g
<1>9. SumFunctionOnSet(f, S) \in Nat /\ SumFunctionOnSet(g, S) = SumFunctionOnSet(f, S)
  BY <1>2, <1>3, SumType, SumAgree
<1> DEFINE k == n + 1
<1>10. k \in T /\ g[k] = line.usd /\ T \ {k} = S /\ \A i \in T : g[i] \in Nat
  BY <1>3, <1>5, <1>7, <1>8
<1> HIDE DEF k
<1>11. SumFunctionOnSet(g, T) = line.usd + SumFunctionOnSet(f, S)
  BY <1>2, <1>9, <1>10, SumRemove
<1> QED  BY <1>4, <1>5, <1>9, <1>11

\* Books without a line hold nothing.
LEMMA EmptyBooks == Committed(<<>>) = 0 /\ SummaryTotal(<<>>, 1) = 0
<1>1. {i \in DOMAIN <<>> : <<>>[i].type = "commit"} = {} /\ {i \in DOMAIN <<>> : <<>>[i].day >= 1} = {}
  OBVIOUS
<1>2. \A f : SumFunctionOnSet(f, {}) = 0
  BY SumPick, FS_EmptySet
<1> QED  BY <1>1, <1>2 DEF Committed, SummaryTotal

-----------------------------------------------------------------------------
\* A book whose lines are of L.
Books(L) ==
  {b \in [lines : Seq(L), end : {"newline", "part", "whole"}] : b.end = "whole" => b.lines # <<>>}

Front(s) == SubSeq(s, 1, Len(s) - 1)

\* A sequence that is not empty is its last line after the others.
LEMMA FrontIs ==
  ASSUME NEW L, NEW lines \in Seq(L), lines # <<>>
  PROVE  /\ Front(lines) \in Seq(L)
         /\ lines[Len(lines)] \in L
         /\ lines = Append(Front(lines), lines[Len(lines)])
         /\ \A i \in DOMAIN Front(lines) : i \in DOMAIN lines /\ Front(lines)[i] = lines[i]
<1> DEFINE n == Len(lines)
           f == Front(lines)
           l == lines[n]
<1>1. n \in Nat \ {0} /\ DOMAIN lines = 1..n /\ \A i \in 1..n : lines[i] \in L
  BY EmptySeq, LenProperties
<1>2. f \in Seq(L) /\ Len(f) = n - 1 /\ \A i \in 1..(n - 1) : f[i] = lines[i]
  <2>1. 1 \in Int /\ n - 1 \in Int /\ \A i \in 1..(n - 1) : lines[i] \in L
    BY <1>1
  <2>2. /\ SubSeq(lines, 1, n - 1) \in Seq(L)
        /\ Len(SubSeq(lines, 1, n - 1)) = IF 1 <= n - 1 THEN (n - 1) - 1 + 1 ELSE 0
        /\ \A i \in 1..((n - 1) - 1 + 1) : SubSeq(lines, 1, n - 1)[i] = lines[1 + i - 1]
    BY <2>1, SubSeqProperties
  <2>3. (IF 1 <= n - 1 THEN (n - 1) - 1 + 1 ELSE 0) = n - 1 /\ (n - 1) - 1 + 1 = n - 1
    BY <1>1
  <2>4. \A i \in 1..(n - 1) : 1 + i - 1 = i
    BY <1>1
  <2> QED  BY <2>2, <2>3, <2>4 DEF Front
<1>3. l \in L /\ n \in 1..n
  BY <1>1
<1> HIDE DEF f, l
<1>4. /\ Append(f, l) \in Seq(L) /\ Len(Append(f, l)) = n
      /\ \A i \in 1..(n - 1) : Append(f, l)[i] = f[i]
      /\ Append(f, l)[n] = l
  <2>1. (n - 1) + 1 = n
    BY <1>1
  <2> QED  BY <1>2, <1>3, <2>1, AppendProperties
<1>5. lines = Append(f, l)
  <2>1. \A i \in 1..n : lines[i] = Append(f, l)[i]
    <3> TAKE i \in 1..n
    <3>1. CASE i = n
      BY <3>1, <1>4 DEF l
    <3>2. CASE i # n
      <4>1. n \in Nat /\ i \in 1..n
        BY <1>1
      <4>2. i \in 1..(n - 1)
        <5> HIDE DEF n
        <5> QED  BY <3>2, <4>1
      <4> QED  BY <1>2, <1>4, <4>2
    <3> QED  BY <3>1, <3>2
  <2> QED  BY <1>4, <2>1, SeqEqual
<1>6. \A i \in DOMAIN f : i \in DOMAIN lines /\ f[i] = lines[i]
  <2>1. DOMAIN f = 1..(n - 1)
    BY <1>2, LenProperties
  <2> QED  BY <1>1, <1>2, <2>1
<1> QED  BY <1>2, <1>3, <1>5, <1>6 DEF f, l

\* What becomes of a book to which a line is written: it has that line more, or
\* the lines it had, or one less.
Written(b, book, line) ==
  \/ b.lines = book.lines
  \/ b.lines = Append(book.lines, line)
  \/ book.lines # <<>> /\ b.lines = Front(book.lines)

\* The shapes of a book, whatever is written to it.
LEMMA BookShapes ==
  ASSUME NEW L, NEW book \in Books(L), NEW line \in L,
         NEW b \in {Appended(book, line)} \cup CutShort(book, line)
  PROVE  /\ b \in Books(L) /\ Written(b, book, line)
         /\ b = Appended(book, line) /\ book.end = "newline" =>
              b.lines = Append(book.lines, line) /\ b.end = "newline"
<1>1. /\ book.lines \in Seq(L) /\ book.end \in {"newline", "part", "whole"}
      /\ book.end = "whole" => book.lines # <<>>
      /\ book = [lines |-> book.lines, end |-> book.end]
  BY DEF Books
<1>2. Append(book.lines, line) \in Seq(L) /\ Append(book.lines, line) # <<>>
  BY <1>1, AppendProperties
<1>3. Separate(book) = IF book.end = "whole" THEN Front(book.lines) ELSE book.lines
  BY DEF Separate, Front
<1>4. Separate(book) \in Seq(L)
  BY <1>1, <1>3, FrontIs
<1>5. CASE b = Appended(book, line)
  <2>1. b = [lines |-> IF book.end = "newline" THEN Append(book.lines, line) ELSE Separate(book),
             end |-> "newline"]
    BY <1>5 DEF Appended
  <2>2. b \in Books(L)
    BY <1>2, <1>4, <2>1 DEF Books
  <2> QED  BY <1>1, <1>3, <2>1, <2>2 DEF Written
<1>6. CASE b = book
  <2>1. Appended(book, line).end = "newline"
    BY DEF Appended
  <2>2. b = Appended(book, line) /\ book.end = "newline" => b.lines = Append(book.lines, line)
    BY DEF Appended
  <2> QED  BY <1>6, <2>2 DEF Written
<1>7. CASE b = [lines |-> Separate(book), end |-> "part"]
  <2>1. b.end = "part" /\ b.lines = Separate(book) /\ Appended(book, line).end = "newline"
    BY <1>7 DEF Appended
  <2>2. b \in Books(L)
    BY <1>4, <1>7 DEF Books
  <2> QED  BY <1>1, <1>3, <2>1, <2>2 DEF Written
<1>8. CASE b = [lines |-> Append(book.lines, line), end |-> "whole"]
  <2>1. b.end = "whole" /\ b.lines = Append(book.lines, line) /\ Appended(book, line).end = "newline"
    BY <1>8 DEF Appended
  <2>2. b \in Books(L)
    BY <1>2, <1>8 DEF Books
  <2> QED  BY <2>1, <2>2 DEF Written
<1> QED  BY <1>5, <1>6, <1>7, <1>8 DEF CutShort

\* No line of a written book is later than the lines it had and the new one, or
\* earlier.
LEMMA WrittenDays ==
  ASSUME NEW L, NEW book \in Books(L), NEW line \in L, NEW b \in Books(L), Written(b, book, line)
  PROVE  \A i \in DOMAIN b.lines : b.lines[i] = line \/ \E j \in DOMAIN book.lines : b.lines[i] = book.lines[j]
<1>1. book.lines \in Seq(L)
  BY DEF Books
<1>2. CASE b.lines = book.lines
  BY <1>2
<1>3. CASE b.lines = Append(book.lines, line)
  <2> DEFINE n == Len(book.lines)
  <2>1. n \in Nat /\ DOMAIN book.lines = 1..n /\ DOMAIN b.lines = 1..(n + 1)
        /\ b.lines[n + 1] = line /\ \A i \in 1..n : b.lines[i] = book.lines[i]
    BY <1>1, <1>3, AppendProperties, LenProperties
  <2> HIDE DEF n
  <2>2. \A i \in 1..(n + 1) : i = n + 1 \/ i \in 1..n
    BY <2>1
  <2> QED  BY <2>1, <2>2
<1>4. CASE book.lines # <<>> /\ b.lines = Front(book.lines)
  BY <1>1, <1>4, FrontIs
<1> QED  BY <1>2, <1>3, <1>4 DEF Written

\* What is committed grows by what the line commits, or by less.
LEMMA CommittedWritten ==
  ASSUME NEW book \in Books(LedgerLine), NEW line \in LedgerLine, NEW b, Written(b, book, line)
  PROVE  /\ Committed(book.lines) \in Nat /\ Committed(b.lines) \in Nat
         /\ Committed(b.lines) <= Committed(book.lines) + (IF line.type = "commit" THEN line.usd ELSE 0)
         /\ b.lines = Append(book.lines, line) =>
              Committed(b.lines) = Committed(book.lines) + (IF line.type = "commit" THEN line.usd ELSE 0)
<1> DEFINE lines == book.lines
           d == IF line.type = "commit" THEN line.usd ELSE 0
<1>1. lines \in Seq(LedgerLine) /\ line.usd \in Nat /\ line.type \in {"reserve", "commit"} /\ d \in Nat
  BY DEF Books, LedgerLine
<1>2. Committed(lines) \in Nat /\ Committed(Append(lines, line)) = Committed(lines) + d
  BY <1>1, CommittedAppend
<1>3. CASE b.lines = Append(lines, line)
  BY <1>1, <1>2, <1>3
<1>4. CASE b.lines = lines
  <2>1. lines # Append(lines, line)
    BY <1>1, AppendProperties, LenProperties
  <2> QED  BY <1>1, <1>2, <1>4, <2>1
<1>5. CASE lines # <<>> /\ b.lines = Front(lines)
  <2> DEFINE f == Front(lines)
             l == lines[Len(lines)]
  <2>1. f \in Seq(LedgerLine) /\ l \in LedgerLine /\ lines = Append(f, l)
    BY <1>1, <1>5, FrontIs
  <2> HIDE DEF f, l
  <2>2. l.usd \in Nat /\ l.type \in {"reserve", "commit"}
    BY <2>1 DEF LedgerLine
  <2>3. Committed(f) \in Nat /\ Committed(f) <= Committed(lines)
    BY <2>1, <2>2, CommittedAppend
  <2>4. f # Append(lines, line)
    <3>1. Len(lines) = Len(f) + 1 /\ Len(Append(lines, line)) = Len(lines) + 1 /\ Len(f) \in Nat
      BY <1>1, <2>1, AppendProperties, LenProperties
    <3> QED  BY <3>1
  <2> QED  BY <1>1, <1>2, <1>5, <2>3, <2>4 DEF f
<1> QED  BY <1>3, <1>4, <1>5 DEF Written

\* And so with the calls.
LEMMA SummaryWritten ==
  ASSUME NEW book \in Books(CallLine), \A i \in DOMAIN book.lines : book.lines[i].day >= 1,
         NEW line \in CallLine, line.day >= 1, NEW b, Written(b, book, line)
  PROVE  /\ SummaryTotal(book.lines, 1) \in Nat /\ SummaryTotal(b.lines, 1) \in Nat
         /\ SummaryTotal(b.lines, 1) <= SummaryTotal(book.lines, 1) + line.usd
         /\ b.lines = Append(book.lines, line) =>
              SummaryTotal(b.lines, 1) = SummaryTotal(book.lines, 1) + line.usd
<1> DEFINE lines == book.lines
<1>1. lines \in Seq(CallLine) /\ line.usd \in Nat
  BY DEF Books, CallLine
<1>2. /\ SummaryTotal(lines, 1) \in Nat
      /\ SummaryTotal(Append(lines, line), 1) = SummaryTotal(lines, 1) + line.usd
  BY <1>1, SummaryAppend
<1>3. CASE b.lines = Append(lines, line)
  BY <1>1, <1>2, <1>3
<1>4. CASE b.lines = lines
  <2>1. lines # Append(lines, line)
    BY <1>1, AppendProperties, LenProperties
  <2> QED  BY <1>1, <1>2, <1>4, <2>1
<1>5. CASE lines # <<>> /\ b.lines = Front(lines)
  <2> DEFINE f == Front(lines)
             l == lines[Len(lines)]
  <2>1. /\ f \in Seq(CallLine) /\ l \in CallLine /\ lines = Append(f, l)
        /\ \A i \in DOMAIN f : f[i].day >= 1
    BY <1>1, <1>5, FrontIs
  <2>2. l.day >= 1
    <3>1. Len(lines) \in DOMAIN lines
      BY <1>1, <1>5, EmptySeq, LenProperties
    <3> QED  BY <3>1
  <2> HIDE DEF f, l
  <2>3. l.usd \in Nat
    BY <2>1 DEF CallLine
  <2>4. SummaryTotal(f, 1) \in Nat /\ SummaryTotal(f, 1) <= SummaryTotal(lines, 1)
    BY <2>1, <2>2, <2>3, SummaryAppend
  <2>5. f # Append(lines, line)
    <3>1. Len(lines) = Len(f) + 1 /\ Len(Append(lines, line)) = Len(lines) + 1 /\ Len(f) \in Nat
      BY <1>1, <2>1, AppendProperties, LenProperties
    <3> QED  BY <3>1
  <2> QED  BY <1>1, <1>2, <1>5, <2>4, <2>5 DEF f
<1> QED  BY <1>3, <1>4, <1>5 DEF Written

-----------------------------------------------------------------------------
\* Meter a has no more spent, and no more in all, than b and k.
Below(a, b, k) == a.spent <= b.spent + k /\ a.spent + a.reserved <= b.spent + b.reserved + k

\* Nothing is below nothing.
LEMMA BelowNew ==
  ASSUME NEW m, m.spent = 0, m.reserved = 0, NEW k \in Nat
  PROVE  Below(m, m, k)
BY DEF Below

\* Below is transitive.
LEMMA BelowTrans ==
  ASSUME NEW a \in Meter, NEW b \in Meter, NEW c \in Meter, NEW j \in Nat, NEW k \in Nat,
         Below(a, b, j), Below(b, c, k)
  PROVE  Below(a, c, j + k) /\ (j = 0 => Below(a, c, k)) /\ (k = 0 => Below(a, c, j))
<1>1. /\ a.spent \in Nat /\ a.reserved \in Nat /\ b.spent \in Nat /\ b.reserved \in Nat
      /\ c.spent \in Nat /\ c.reserved \in Nat
  BY DEF Meter
<1> QED  BY <1>1 DEF Below

\* A line only adds to a meter, and as much to a smaller one.
LEMMA BookGrows ==
  ASSUME NEW a \in Meter, NEW b \in Meter, NEW k \in Nat, NEW line \in LedgerLine, NEW now \in Nat
  PROVE  /\ Below(a, Book(a, line, now), 0)
         /\ Below(a, b, k) => Below(Book(a, line, now), Book(b, line, now), k)
         /\ Book(a, line, now) \in Meter
<1> DEFINE c == line.usd
<1>1. /\ a.spent \in Nat /\ a.reserved \in Nat /\ a.day \in Nat /\ c \in Nat
      /\ b.spent \in Nat /\ b.reserved \in Nat /\ line.type \in {"reserve", "commit"}
  BY DEF Meter, LedgerLine
<1>2. \A m \in Meter : line.day = now /\ line.type = "reserve" =>
        /\ Book(m, line, now).spent = m.spent /\ Book(m, line, now).reserved = m.reserved + c
        /\ Book(m, line, now).day = m.day
        /\ Book(m, line, now) = [spent |-> m.spent, reserved |-> m.reserved + c, day |-> m.day]
  BY DEF Book, Meter
<1>3. \A m \in Meter : line.day = now /\ line.type = "commit" =>
        /\ Book(m, line, now).spent = m.spent + c
        /\ Book(m, line, now).reserved = (IF m.reserved >= c THEN m.reserved - c ELSE 0)
        /\ Book(m, line, now) = [spent |-> m.spent + c,
                                 reserved |-> (IF m.reserved >= c THEN m.reserved - c ELSE 0), day |-> m.day]
  BY DEF Book, Settle, Meter
<1>4. CASE line.day # now
  BY <1>1, <1>4 DEF Book, Below
<1>5. CASE line.day = now /\ line.type = "reserve"
  <2>1. Book(a, line, now) \in Meter
    BY <1>1, <1>2, <1>5 DEF Meter
  <2> QED  BY <1>1, <1>2, <1>5, <2>1 DEF Below
<1>6. CASE line.day = now /\ line.type = "commit"
  <2>1. Book(a, line, now) \in Meter
    BY <1>1, <1>3, <1>6 DEF Meter
  <2>2. CASE a.reserved >= c /\ b.reserved >= c
    BY <1>1, <1>3, <1>6, <2>1, <2>2 DEF Below
  <2>3. CASE a.reserved >= c /\ ~(b.reserved >= c)
    BY <1>1, <1>3, <1>6, <2>1, <2>3 DEF Below
  <2>4. CASE ~(a.reserved >= c) /\ b.reserved >= c
    BY <1>1, <1>3, <1>6, <2>1, <2>4 DEF Below
  <2>5. CASE ~(a.reserved >= c) /\ ~(b.reserved >= c)
    BY <1>1, <1>3, <1>6, <2>1, <2>5 DEF Below
  <2> QED  BY <2>2, <2>3, <2>4, <2>5
<1> QED  BY <1>1, <1>4, <1>5, <1>6

\* A replay of fewer lines finds no more.
LEMMA ReplayFront ==
  ASSUME NEW lines \in Seq(LedgerLine), lines # <<>>, NEW now \in Nat
  PROVE  /\ Front(lines) \in Seq(LedgerLine)
         /\ Below(Replay(Front(lines), now), Replay(lines, now), 0)
<1> DEFINE f == Front(lines)
           l == lines[Len(lines)]
<1>1. f \in Seq(LedgerLine) /\ l \in LedgerLine /\ lines = Append(f, l)
  BY FrontIs
<1> HIDE DEF f, l
<1>2. Replay(f, now) \in Meter
  BY <1>1, ReplayDay
<1>3. Below(Replay(f, now), Book(Replay(f, now), l, now), 0)
  BY <1>1, <1>2, BookGrows
<1>4. Replay(lines, now) = Book(Replay(f, now), l, now)
  BY <1>1, ReplayAppend
<1> QED  BY <1>1, <1>3, <1>4 DEF f

\* That a replay ends early, at an error of the scanner.
LEMMA ReplayPrefix ==
  ASSUME NEW lines \in Seq(LedgerLine), NEW n \in 0..Len(lines), NEW now \in Nat
  PROVE  /\ SubSeq(lines, 1, n) \in Seq(LedgerLine)
         /\ Below(Replay(SubSeq(lines, 1, n), now), Replay(lines, now), 0)
<1> DEFINE N == Len(lines)
           P(k) == SubSeq(lines, 1, k)
           Bad == {j \in 0..N : ~ Below(Replay(P(N - j), now), Replay(lines, now), 0)}
<1>1. N \in Nat /\ DOMAIN lines = 1..N /\ \A i \in 1..N : lines[i] \in LedgerLine
  BY LenProperties
<1>2. \A k \in 0..N : /\ P(k) \in Seq(LedgerLine) /\ Len(P(k)) = k
                      /\ \A i \in 1..k : P(k)[i] = lines[i]
  <2> TAKE k \in 0..N
  <2>1. k \in Int /\ 1 \in Int /\ \A i \in 1..k : lines[i] \in LedgerLine
    BY <1>1
  <2>2. /\ SubSeq(lines, 1, k) \in Seq(LedgerLine)
        /\ Len(SubSeq(lines, 1, k)) = IF 1 <= k THEN k - 1 + 1 ELSE 0
        /\ \A i \in 1..(k - 1 + 1) : SubSeq(lines, 1, k)[i] = lines[1 + i - 1]
    BY <2>1, SubSeqProperties
  <2>3. (IF 1 <= k THEN k - 1 + 1 ELSE 0) = k /\ k - 1 + 1 = k /\ \A i \in 1..k : 1 + i - 1 = i
    BY <1>1
  <2> QED  BY <2>2, <2>3
<1> HIDE DEF P
<1>3. P(N) = lines
  BY <1>1, <1>2, SeqEqual
<1>4. \A k \in 0..(N - 1) : Below(Replay(P(k), now), Replay(P(k + 1), now), 0)
  <2> TAKE k \in 0..(N - 1)
  <2>1. k \in 0..N /\ k + 1 \in 0..N /\ k + 1 \in 1..N /\ k \in Nat
    BY <1>1
  <2>2. lines[k + 1] \in LedgerLine /\ P(k) \in Seq(LedgerLine) /\ Len(P(k)) = k
    BY <1>1, <1>2, <2>1
  <2> DEFINE A == Append(P(k), lines[k + 1])
  <2>3. A \in Seq(LedgerLine) /\ Len(A) = k + 1 /\ A[k + 1] = lines[k + 1] /\ \A i \in 1..k : A[i] = P(k)[i]
    BY <2>2, AppendProperties
  <2> HIDE DEF A
  <2>4. P(k + 1) \in Seq(LedgerLine) /\ Len(P(k + 1)) = k + 1 /\ \A i \in 1..(k + 1) : P(k + 1)[i] = lines[i]
    BY <1>2, <2>1
  <2>5. \A i \in 1..(k + 1) : P(k + 1)[i] = A[i]
    <3> TAKE i \in 1..(k + 1)
    <3>1. CASE i = k + 1
      BY <2>3, <2>4, <3>1
    <3>2. CASE i # k + 1
      <4>1. i \in 1..k
        BY <2>1, <3>2
      <4> QED  BY <1>2, <2>1, <2>3, <2>4, <4>1
    <3> QED  BY <3>1, <3>2
  <2>6. P(k + 1) = A
    BY <2>3, <2>4, <2>5, SeqEqual
  <2>7. Replay(P(k), now) \in Meter
    BY <2>2, ReplayDay
  <2>8. Replay(A, now) = Book(Replay(P(k), now), lines[k + 1], now)
    BY <2>2, ReplayAppend DEF A
  <2> QED  BY <2>2, <2>6, <2>7, <2>8, BookGrows
<1>5. \A k \in 0..N : Replay(P(k), now) \in Meter
  BY <1>2, ReplayDay
<1>6. ASSUME Bad # {}  PROVE FALSE
  <2>1. PICK b \in Bad : \A y \in Bad : b <= y
    <3>1. Bad \in SUBSET Nat
      BY <1>1
    <3> HIDE DEF Bad
    <3> QED  BY <3>1, <1>6, Least
  <2>2. b \in 0..N /\ b \in Nat /\ ~ Below(Replay(P(N - b), now), Replay(lines, now), 0)
    BY <1>1
  <2>3. Replay(lines, now) \in Meter
    BY ReplayDay
  <2>4. CASE b = 0
    <3>1. N - b = N
      BY <1>1, <2>4
    <3>2. Below(Replay(lines, now), Replay(lines, now), 0)
      BY <2>3 DEF Below, Meter
    <3> QED  BY <1>3, <2>2, <3>1, <3>2
  <2>5. CASE b # 0
    <3>1. b - 1 \in 0..N /\ ~(b <= b - 1) /\ N - b \in 0..(N - 1) /\ (N - b) + 1 = N - (b - 1)
          /\ N - b \in 0..N /\ N - (b - 1) \in 0..N
      BY <1>1, <2>2, <2>5
    <3>2. b - 1 \notin Bad
      <4> HIDE DEF Bad
      <4> QED  BY <2>1, <3>1
    <3>3. Below(Replay(P(N - (b - 1)), now), Replay(lines, now), 0)
      BY <3>1, <3>2
    <3>4. Below(Replay(P(N - b), now), Replay(P(N - (b - 1)), now), 0)
      BY <1>4, <3>1
    <3>5. /\ Replay(P(N - b), now) \in Meter /\ Replay(P(N - (b - 1)), now) \in Meter
      BY <1>5, <3>1
    <3>6. Below(Replay(P(N - b), now), Replay(lines, now), 0)
      <4> HIDE DEF Bad
      <4> QED  BY <2>3, <3>3, <3>4, <3>5, BelowTrans
    <3> QED  BY <2>2, <3>6
  <2> QED  BY <2>4, <2>5
<1>7. N - n \in 0..N /\ N - (N - n) = n /\ n \in 0..N
  BY <1>1
<1>8. N - n \notin Bad
  BY <1>6
<1>9. Below(Replay(P(n), now), Replay(lines, now), 0)
  BY <1>7, <1>8
<1> QED  BY <1>2, <1>7, <1>9 DEF P

-----------------------------------------------------------------------------
\* The requests and what they cost.
Places == {"idle", "lookup", "load", "promote", "unlink", "reserve", "post", "failed",
           "answered", "record", "stat", "put", "open", "write"}
Entry == [ver : Nat, at : Nat]
Request == [pc : Places, key : Keys, e : Entry, tries : Nat]

\* The cost of the requests that q has at the places P.
AtPlaces(q, P) == {r \in Requests : q[r].pc \in P}
CostAt(q, P) == SumFunctionOnSet([r \in Requests |-> CostOf[q[r].key]], AtPlaces(q, P))

\* Their cost is a natural number.
LEMMA CostAtType ==
  ASSUME NEW q \in [Requests -> Request], NEW P
  PROVE  CostAt(q, P) \in Nat
<1> DEFINE f == [r \in Requests |-> CostOf[q[r].key]]
<1>1. \A r \in Requests : f[r] \in Nat
  <2>1. \A r \in Requests : q[r].key \in Keys
    BY DEF Request
  <2> QED  BY <2>1, TokenPathAssumption
<1>2. AtPlaces(q, P) \in SUBSET Requests /\ IsFiniteSet(AtPlaces(q, P))
  BY TokenPathAssumption, FS_Subset DEF AtPlaces
<1>3. CostAt(q, P) = SumFunctionOnSet(f, AtPlaces(q, P))
  BY DEF CostAt
<1> HIDE DEF f
<1> QED  BY <1>1, <1>2, <1>3, SumType

\* When one request moves, the cost of those at some places grows by its cost
\* when it arrives there, shrinks when it leaves, and stays otherwise.
LEMMA CostMoves ==
  ASSUME NEW q \in [Requests -> Request], NEW p \in [Requests -> Request], NEW r \in Requests,
         \A x \in Requests : x # r => p[x] = q[x], NEW P
  PROVE  /\ CostAt(q, P) \in Nat /\ CostAt(p, P) \in Nat
         /\ q[r].pc \notin P /\ p[r].pc \notin P => CostAt(p, P) = CostAt(q, P)
         /\ q[r].pc \in P /\ p[r].pc \in P /\ p[r].key = q[r].key => CostAt(p, P) = CostAt(q, P)
         /\ q[r].pc \notin P /\ p[r].pc \in P => CostAt(p, P) = CostAt(q, P) + CostOf[p[r].key]
         /\ q[r].pc \in P /\ p[r].pc \notin P => CostAt(q, P) = CostAt(p, P) + CostOf[q[r].key]
<1> DEFINE f == [x \in Requests |-> CostOf[q[x].key]]
           g == [x \in Requests |-> CostOf[p[x].key]]
           S == AtPlaces(q, P)
           T == AtPlaces(p, P)
<1>1. /\ IsFiniteSet(S) /\ IsFiniteSet(T) /\ IsFiniteSet(S \ {r}) /\ IsFiniteSet(T \ {r})
      /\ S \in SUBSET Requests /\ T \in SUBSET Requests
  BY TokenPathAssumption, FS_Subset DEF AtPlaces
<1>2. /\ \A x \in Requests : f[x] \in Nat /\ g[x] \in Nat
      /\ \A x \in Requests : x # r => f[x] = g[x]
      /\ f[r] = CostOf[q[r].key] /\ g[r] = CostOf[p[r].key]
  <2>1. \A x \in Requests : q[x].key \in Keys /\ p[x].key \in Keys
    BY DEF Request
  <2> QED  BY <2>1, TokenPathAssumption
<1>3. /\ S \ {r} = T \ {r}
      /\ r \in S <=> q[r].pc \in P
      /\ r \in T <=> p[r].pc \in P
  BY DEF AtPlaces
<1>4. CostAt(q, P) = SumFunctionOnSet(f, S) /\ CostAt(p, P) = SumFunctionOnSet(g, T)
  BY DEF CostAt
<1> HIDE DEF f, g, S, T
<1>5. /\ SumFunctionOnSet(f, S) \in Nat /\ SumFunctionOnSet(g, T) \in Nat
      /\ SumFunctionOnSet(f, S \ {r}) \in Nat
      /\ SumFunctionOnSet(f, S \ {r}) = SumFunctionOnSet(g, T \ {r})
  <2>1. \A x \in S \ {r} : f[x] \in Nat /\ f[x] = g[x]
    BY <1>1, <1>2
  <2>2. SumFunctionOnSet(f, S \ {r}) = SumFunctionOnSet(g, S \ {r})
    BY <1>1, <2>1, SumAgree
  <2>3. SumFunctionOnSet(f, S) \in Nat /\ SumFunctionOnSet(g, T) \in Nat
    BY <1>1, <1>2, SumType
  <2>4. SumFunctionOnSet(f, S \ {r}) \in Nat
    BY <1>1, <2>1, SumType
  <2> QED  BY <1>3, <2>2, <2>3, <2>4
<1>6. /\ r \in S => SumFunctionOnSet(f, S) = f[r] + SumFunctionOnSet(f, S \ {r})
      /\ r \in T => SumFunctionOnSet(g, T) = g[r] + SumFunctionOnSet(g, T \ {r})
  BY <1>1, <1>2, SumRemove
<1>7. /\ r \notin S => S \ {r} = S
      /\ r \notin T => T \ {r} = T
  OBVIOUS
<1>8. f[r] \in Nat /\ g[r] \in Nat
  BY <1>2
<1>9. /\ r \notin S => SumFunctionOnSet(f, S \ {r}) = SumFunctionOnSet(f, S)
      /\ r \notin T => SumFunctionOnSet(g, T \ {r}) = SumFunctionOnSet(g, T)
  BY <1>7
<1>10. p[r].key = q[r].key => f[r] = g[r]
  BY <1>2
<1>11. q[r].pc \notin P /\ p[r].pc \notin P => CostAt(p, P) = CostAt(q, P)
  BY <1>3, <1>4, <1>5, <1>9
<1>12. q[r].pc \in P /\ p[r].pc \in P /\ p[r].key = q[r].key => CostAt(p, P) = CostAt(q, P)
  BY <1>3, <1>4, <1>5, <1>6, <1>10
<1>13. q[r].pc \notin P /\ p[r].pc \in P => CostAt(p, P) = CostAt(q, P) + CostOf[p[r].key]
  <2> HAVE q[r].pc \notin P /\ p[r].pc \in P
  <2>1. SumFunctionOnSet(g, T) = g[r] + SumFunctionOnSet(f, S)
    BY <1>3, <1>5, <1>6, <1>9
  <2> QED  BY <1>2, <1>4, <1>5, <1>8, <2>1
<1>14. q[r].pc \in P /\ p[r].pc \notin P => CostAt(q, P) = CostAt(p, P) + CostOf[q[r].key]
  <2> HAVE q[r].pc \in P /\ p[r].pc \notin P
  <2>1. SumFunctionOnSet(f, S) = f[r] + SumFunctionOnSet(g, T)
    BY <1>3, <1>5, <1>6, <1>9
  <2> QED  BY <1>2, <1>4, <1>5, <1>8, <2>1
<1> QED  BY <1>4, <1>5, <1>11, <1>12, <1>13, <1>14

\* Requests that are all idle cost nothing.
LEMMA IdleCosts ==
  ASSUME NEW P, "idle" \notin P
  PROVE  CostAt([r \in Requests |-> Idle], P) = 0
<1>1. AtPlaces([r \in Requests |-> Idle], P) = {}
  BY DEF AtPlaces, Idle
<1> QED  BY <1>1, SumPick, FS_EmptySet DEF CostAt

-----------------------------------------------------------------------------
SweepState == [pc : {"idle", "list", "remove", "invalidate"}, seen : Nat, todo : SUBSET Keys]
Counters == [calls : Nat, answers : Nat, events : Nat, restarts : Nat]

\* The types of everything but the memory of the cache; what the money proofs
\* need of the cache is that its entries are entries.
PathTypeOK ==
  /\ disk \in [Keys -> Entry] /\ mtime \in Nat /\ unlinks \in [Keys -> Nat]
  /\ orphans \in SUBSET Requests
  /\ meter \in Meter /\ ledger \in Books(LedgerLine) /\ calls \in Books(CallLine)
  /\ today \in Nat \ {0}
  /\ req \in [Requests -> Request]
  /\ sweep \in SweepState /\ count \in Counters
  /\ served \in Nat /\ carried \in Nat /\ unseen \in Nat /\ lost \in BOOLEAN
  /\ raced \in SUBSET Keys

Under == {"post", "failed", "answered"}   \* the places of Waiting

\* The ledger follows the meter: no line is of a later day, and a replay finds
\* no more than the meter has and what it has not seen, and just the meter when
\* nothing is unseen and no write has failed.
Follows ==
  /\ \A i \in DOMAIN ledger.lines : ledger.lines[i].day <= today
  /\ Below(Replay(ledger.lines, today), RollOver(meter, today), unseen)
  /\ ~lost => ledger.end = "newline"
  /\ ~lost /\ unseen = 0 => Replay(ledger.lines, today) = RollOver(meter, today)

\* A day's meter: what is spent and reserved is within the limit and what was
\* not checked against it, and so is what is spent and what the calls under way
\* will commit; their cost is reserved, but for the carried part.
MeterInv ==
  /\ meter.day <= today
  /\ meter.spent + meter.reserved <= Limit + carried
  /\ meter.day = today =>
       /\ meter.spent + CostAt(req, Under) <= Limit + carried
       /\ CostAt(req, Under) <= meter.reserved + carried
  /\ Follows

\* The books follow the answers: what is committed and what answered calls will
\* commit is what was served, or less, and so on from the ledger to the calls.
BooksInv ==
  /\ \A i \in DOMAIN calls.lines : calls.lines[i].day >= 1
  /\ Committed(ledger.lines) + CostAt(req, {"answered"}) <= served
  /\ SummaryTotal(calls.lines, 1) + CostAt(req, {"record"}) + CostAt(req, {"answered"}) <= served
  /\ ~lost => /\ calls.end = "newline"
              /\ SummaryTotal(calls.lines, 1) + CostAt(req, {"record"}) <= Committed(ledger.lines)
  /\ ~lost /\ count.restarts = 0 =>
       /\ Committed(ledger.lines) + CostAt(req, {"answered"}) = served
       /\ SummaryTotal(calls.lines, 1) + CostAt(req, {"record"}) = Committed(ledger.lines)

\* The operators of the specification in these terms.
LEMMA CostIsCostAt ==
  /\ Cost(Waiting) = CostAt(req, Under)
  /\ Cost({r \in Requests : At(r, "answered")}) = CostAt(req, {"answered"})
  /\ Cost({r \in Requests : At(r, "record")}) = CostAt(req, {"record"})
<1>1. /\ Waiting = AtPlaces(req, Under)
      /\ {r \in Requests : At(r, "answered")} = AtPlaces(req, {"answered"})
      /\ {r \in Requests : At(r, "record")} = AtPlaces(req, {"record"})
  BY DEF Waiting, Under, At, AtPlaces
<1> QED  BY <1>1 DEF Cost, CostOfReq, CostAt

\* A request that is not under way.
LEMMA IdleType == Idle \in Request /\ Idle.pc = "idle"
<1>1. (CHOOSE k \in Keys : TRUE) \in Keys
  BY TokenCacheAssumption
<1> QED  BY <1>1 DEF Idle, Request, Places, Entry, None

\* The invariants hold when the process starts for the first time.
LEMMA PathInit ==
  Init => PathTypeOK /\ MeterInv /\ BooksInv
<1> SUFFICES ASSUME Init  PROVE PathTypeOK /\ MeterInv /\ BooksInv
  OBVIOUS
<1>1. PathTypeOK
  <2>1. req \in [Requests -> Request]
    BY IdleType DEF Init
  <2>2. /\ disk \in [Keys -> Entry] /\ mtime \in Nat /\ unlinks \in [Keys -> Nat]
        /\ orphans \in SUBSET Requests
    BY DEF Init, Entry, None
  <2>3. /\ meter \in Meter /\ today \in Nat \ {0} /\ served \in Nat /\ carried \in Nat
        /\ unseen \in Nat
    BY DEF Init, Meter, NewMeter
  <2>3a. lost \in BOOLEAN
    BY Zenon DEF Init
  <2>4. ledger \in Books(LedgerLine) /\ calls \in Books(CallLine)
    <3>1. <<>> \in Seq(LedgerLine) /\ <<>> \in Seq(CallLine)
      OBVIOUS
    <3> QED  BY <3>1 DEF Init, Books, EmptyBook
  <2>5. sweep \in SweepState /\ count \in Counters /\ raced \in SUBSET Keys
    BY DEF Init, NoSweep, SweepState, Counters
  <2> QED  BY <2>1, <2>2, <2>3, <2>3a, <2>4, <2>5 DEF PathTypeOK
<1>2. CostAt(req, Under) = 0 /\ CostAt(req, {"answered"}) = 0 /\ CostAt(req, {"record"}) = 0
  BY IdleCosts DEF Init, Under
<1>3. MeterInv
  <2>1. /\ meter = NewMeter(1) /\ today = 1 /\ carried = 0 /\ unseen = 0
        /\ ledger.lines = <<>> /\ ledger.end = "newline"
    BY DEF Init, EmptyBook
  <2>2. Replay(<<>>, 1) = NewMeter(1)
    <3>1. <<>> \in Seq(LedgerLine) /\ 1 \in Nat
      OBVIOUS
    <3>2. DOMAIN <<>> = {}
      OBVIOUS
    <3> QED  BY <3>1, <3>2, ReplayDay
  <2>3. RollOver(NewMeter(1), 1) = NewMeter(1)
    BY DEF RollOver, NewMeter
  <2>4. Replay(ledger.lines, today) = RollOver(meter, today)
    BY <2>1, <2>2, <2>3
  <2>5. meter.day = 1 /\ meter.spent = 0 /\ meter.reserved = 0
    BY <2>1 DEF NewMeter
  <2>6. \A i \in DOMAIN ledger.lines : ledger.lines[i].day <= today
    BY <2>1
  <2>7. Below(NewMeter(1), NewMeter(1), 0)
    BY DEF Below, NewMeter
  <2>8. Follows
    BY <2>1, <2>2, <2>3, <2>4, <2>6, <2>7 DEF Follows
  <2> QED  BY <1>2, <2>1, <2>5, <2>8, LimitAssumption DEF MeterInv
<1>4. BooksInv
  <2>1. calls.lines = <<>> /\ ledger.lines = <<>> /\ calls.end = "newline" /\ served = 0
    BY DEF Init, EmptyBook
  <2>2. Committed(ledger.lines) = 0 /\ SummaryTotal(calls.lines, 1) = 0
    BY <2>1, EmptyBooks
  <2>3. \A i \in DOMAIN calls.lines : calls.lines[i].day >= 1
    BY <2>1
  <2> QED  BY <1>2, <2>1, <2>2, <2>3 DEF BooksInv
<1> QED  BY <1>1, <1>3, <1>4

-----------------------------------------------------------------------------
\* Request r goes to a place; a request that starts gets its key, the others
\* keep theirs.
Moves(r, place) ==
  /\ req' \in [Requests -> Request]
  /\ \A x \in Requests : x # r => req'[x] = req[x]
  /\ req'[r].pc = place
  /\ place \notin {"idle", "lookup"} => req'[r].key = req[r].key

\* A request that becomes c moves to where c is.
LEMMA MoveWith ==
  ASSUME PathTypeOK, NEW r \in Requests, NEW c \in Request, req' = [req EXCEPT ![r] = c],
         c.pc \notin {"idle", "lookup"} => c.key = req[r].key
  PROVE  Moves(r, c.pc)
<1>1. req \in [Requests -> Request]
  BY DEF PathTypeOK
<1> QED  BY <1>1 DEF Moves

\* A request with one part replaced is a request: its place,
LEMMA PartPc ==
  ASSUME NEW q \in Request, NEW place \in Places
  PROVE  /\ [q EXCEPT !.pc = place] \in Request
         /\ [q EXCEPT !.pc = place].pc = place /\ [q EXCEPT !.pc = place].key = q.key
BY DEF Request

\* Its entry,
LEMMA PartEntry ==
  ASSUME NEW q \in Request, NEW e \in Entry
  PROVE  /\ [q EXCEPT !.e = e] \in Request
         /\ [q EXCEPT !.e = e].pc = q.pc /\ [q EXCEPT !.e = e].key = q.key
BY DEF Request

\* its key,
LEMMA PartKey ==
  ASSUME NEW q \in Request, NEW k \in Keys
  PROVE  /\ [q EXCEPT !.key = k] \in Request
         /\ [q EXCEPT !.key = k].pc = q.pc /\ [q EXCEPT !.key = k].key = k
BY DEF Request

\* its count of attempts.
LEMMA PartTries ==
  ASSUME NEW q \in Request, NEW n \in Nat
  PROVE  /\ [q EXCEPT !.tries = n] \in Request
         /\ [q EXCEPT !.tries = n].pc = q.pc /\ [q EXCEPT !.tries = n].key = q.key
BY DEF Request

\* The shapes in which the actions change one request.
LEMMA MoveTo ==
  ASSUME PathTypeOK, NEW r \in Requests
  PROVE  /\ \A place \in Places : req' = [req EXCEPT ![r].pc = place] => Moves(r, place)
         /\ req' = [req EXCEPT ![r] = Idle] => Moves(r, "idle")
<1>0. req \in [Requests -> Request] /\ req[r] \in Request /\ None \in Entry /\ 0 \in Nat
  BY DEF PathTypeOK, None, Entry
<1>1. ASSUME NEW place \in Places, req' = [req EXCEPT ![r].pc = place]  PROVE Moves(r, place)
  <2> DEFINE c == [req[r] EXCEPT !.pc = place]
  <2>1. c \in Request /\ c.pc = place /\ c.key = req[r].key
    BY <1>0, PartPc
  <2>2. req' = [req EXCEPT ![r] = c]
    BY <1>1
  <2> HIDE DEF c
  <2> QED  BY <2>1, <2>2, MoveWith
<1>2. ASSUME req' = [req EXCEPT ![r] = Idle]  PROVE Moves(r, "idle")
  BY <1>2, IdleType, MoveWith
<1> QED  BY <1>1, <1>2

\* One that also gets an entry.
LEMMA MoveEntry ==
  ASSUME PathTypeOK, NEW r \in Requests, NEW place \in Places, NEW e \in Entry,
         \/ req' = [req EXCEPT ![r].pc = place, ![r].e = e]
         \/ req' = [req EXCEPT ![r].e = e, ![r].pc = place]
  PROVE  Moves(r, place)
<1> DEFINE a == [req[r] EXCEPT !.pc = place]
           b == [a EXCEPT !.e = e]
           c == [req[r] EXCEPT !.e = e]
           d == [c EXCEPT !.pc = place]
<1>0. req \in [Requests -> Request] /\ req[r] \in Request /\ 0 \in Nat
  BY DEF PathTypeOK
<1>1. req' = [req EXCEPT ![r] = b] \/ req' = [req EXCEPT ![r] = d]
  BY <1>0
<1>2. a \in Request /\ a.pc = place /\ a.key = req[r].key
  BY <1>0, PartPc
<1>3. c \in Request /\ c.key = req[r].key
  BY <1>0, PartEntry
<1> HIDE DEF a, c
<1>4. b \in Request /\ b.pc = place /\ b.key = req[r].key
  BY <1>0, <1>2, PartEntry
<1>5. d \in Request /\ d.pc = place /\ d.key = req[r].key
  BY <1>0, <1>3, PartPc
<1> HIDE DEF b, d
<1> QED  BY <1>1, <1>4, <1>5, MoveWith

\* One whose attempts are counted.
LEMMA MoveTries ==
  ASSUME PathTypeOK, NEW r \in Requests, NEW n \in Nat
  PROVE  /\ req' = [req EXCEPT ![r].tries = n] => Moves(r, req[r].pc)
         /\ \A place \in Places : req' = [req EXCEPT ![r].pc = place, ![r].tries = n] => Moves(r, place)
<1>0. req \in [Requests -> Request] /\ req[r] \in Request /\ req[r].pc \in Places /\ None \in Entry
  BY DEF PathTypeOK, None, Entry, Request
<1>1. ASSUME req' = [req EXCEPT ![r].tries = n]  PROVE Moves(r, req[r].pc)
  <2> DEFINE c == [req[r] EXCEPT !.tries = n]
  <2>1. c \in Request /\ c.pc = req[r].pc /\ c.key = req[r].key
    BY <1>0, PartTries
  <2>2. req' = [req EXCEPT ![r] = c]
    BY <1>1
  <2> HIDE DEF c
  <2> QED  BY <2>1, <2>2, MoveWith
<1>2. ASSUME NEW place \in Places, req' = [req EXCEPT ![r].pc = place, ![r].tries = n]
      PROVE  Moves(r, place)
  <2> DEFINE a == [req[r] EXCEPT !.pc = place]
             c == [a EXCEPT !.tries = n]
  <2>1. req' = [req EXCEPT ![r] = c]
    BY <1>0, <1>2
  <2>2. a \in Request /\ a.pc = place /\ a.key = req[r].key
    BY <1>0, PartPc
  <2> HIDE DEF a
  <2>3. c \in Request /\ c.pc = place /\ c.key = req[r].key
    BY <1>0, <2>2, PartTries
  <2> HIDE DEF c
  <2> QED  BY <2>1, <2>3, MoveWith
<1> QED  BY <1>1, <1>2

\* One that is answered.
LEMMA MoveAnswer ==
  ASSUME PathTypeOK, NEW r \in Requests, count' \in Counters, Answered(r)
  PROVE  Moves(r, "answered")
<1> DEFINE e == [ver |-> count'.answers, at |-> 0]
           a == [req[r] EXCEPT !.pc = "answered"]
           b == [a EXCEPT !.tries = 0]
           c == [b EXCEPT !.e = e]
<1>0. req \in [Requests -> Request] /\ req[r] \in Request /\ "answered" \in Places /\ 0 \in Nat
  BY DEF PathTypeOK, Places
<1>1. req' = [req EXCEPT ![r] = c]
  BY <1>0 DEF Answered
<1>e. e \in Entry
  BY DEF Counters, Entry
<1> HIDE DEF e
<1>2. a \in Request /\ a.pc = "answered" /\ a.key = req[r].key
  BY <1>0, PartPc
<1> HIDE DEF a
<1>3. b \in Request /\ b.pc = "answered" /\ b.key = req[r].key
  BY <1>0, <1>2, PartTries
<1> HIDE DEF b
<1>4. c \in Request /\ c.pc = "answered" /\ c.key = req[r].key
  BY <1>3, <1>e, PartEntry
<1> HIDE DEF c
<1> QED  BY <1>1, <1>4, MoveWith

\* A call's first step.
LEMMA MoveCall ==
  ASSUME PathTypeOK, NEW r \in Requests, NEW k \in Keys, Call(r, k)
  PROVE  /\ req[r].pc = "idle" /\ count' = [count EXCEPT !.calls = @ + 1]
         /\ UNCHANGED <<cacheVars, moneyVars, sweep>>
         /\ Moves(r, "lookup") /\ req' \in [Requests -> Request]
<1> DEFINE a == [Idle EXCEPT !.pc = "lookup"]
           c == [a EXCEPT !.key = k]
<1>1. /\ req[r].pc = "idle" /\ count' = [count EXCEPT !.calls = @ + 1]
      /\ UNCHANGED <<cacheVars, moneyVars, sweep>>
      /\ req' = [req EXCEPT ![r] = c]
  BY DEF Call, At
<1>2. a \in Request /\ a.pc = "lookup"
  BY IdleType, PartPc DEF Places
<1> HIDE DEF a
<1>3. c \in Request /\ c.pc = "lookup"
  BY <1>2, PartKey
<1> HIDE DEF c
<1> QED  BY <1>1, <1>3, MoveWith DEF PathTypeOK

\* An event only counts.
LEMMA EventType ==
  ASSUME count \in Counters, Event
  PROVE  count' \in Counters /\ count'.restarts = count.restarts
BY DEF Counters, Event

\* A file that is removed, or not.
LEMMA UnlinkType ==
  ASSUME PathTypeOK, NEW k \in Keys, Unlink(k)
  PROVE  disk' \in [Keys -> Entry] /\ orphans' \in SUBSET Requests
<1>1. disk \in [Keys -> Entry] /\ orphans \in SUBSET Requests /\ None \in Entry
  BY DEF PathTypeOK, None, Entry
<1> QED  BY <1>1 DEF Unlink

\* The variables a request of the cache changes, and their types.
CacheStep(r) ==
  \/ LookUp(r) \/ LoadFromDisk(r) \/ UnlinkStale(r) \/ PromoteLoaded(r)
  \/ SnapshotMtime(r) \/ PutInMemory(r) \/ OpenFile(r) \/ WriteFile(r) \/ SaveFails(r)

\* The places of a request that cost nothing.
Quiet == {"idle", "lookup", "load", "promote", "unlink", "reserve", "stat", "put", "open", "write"}

\* A step of the cache moves one request between places that cost nothing, and
\* leaves the money alone.
LEMMA CacheStepIs ==
  ASSUME PathTypeOK, NEW r \in Requests, CacheStep(r)
  PROVE  /\ \E place \in Quiet : Moves(r, place)
         /\ req[r].pc \in Quiet
         /\ disk' \in [Keys -> Entry] /\ orphans' \in SUBSET Requests
         /\ count' \in Counters /\ count'.restarts = count.restarts
         /\ UNCHANGED <<mtime, unlinks, moneyVars, sweep>>
<1> USE DEF Quiet, Goto, Return, At, cacheVars
<1>0. /\ req \in [Requests -> Request] /\ disk \in [Keys -> Entry] /\ mtime \in Nat
      /\ req[r] \in Request /\ req[r].key \in Keys /\ req[r].e \in Entry
      /\ None \in Entry /\ Torn \in Entry /\ Blank \in Entry
      /\ orphans \in SUBSET Requests /\ count \in Counters
  BY DEF PathTypeOK, Request, Entry, None, Torn, Blank
<1>p. Quiet \subseteq Places
  BY DEF Places
<1>1. CASE LookUp(r)
  <2>1. /\ req[r].pc = "lookup" /\ UNCHANGED <<disk, mtime, unlinks, orphans, moneyVars, sweep, count>>
        /\ \/ req' = [req EXCEPT ![r].pc = "load"]
           \/ req' = [req EXCEPT ![r].pc = "reserve"]
           \/ req' = [req EXCEPT ![r] = Idle]
    BY <1>1 DEF LookUp
  <2>2. Moves(r, "load") \/ Moves(r, "reserve") \/ Moves(r, "idle")
    BY <2>1, MoveTo DEF Places
  <2> QED  BY <1>0, <2>1, <2>2
<1>2. CASE LoadFromDisk(r)
  <2>1. /\ req[r].pc = "load" /\ UNCHANGED <<disk, mtime, unlinks, orphans, moneyVars, sweep, count>>
        /\ \E e \in {disk[req[r].key], None}, place \in {"reserve", "promote", "unlink"} :
             req' = [req EXCEPT ![r].e = e, ![r].pc = place]
    <3> DEFINE k == req[r].key
    <3>1. PICK d \in ReadsOf(disk) :
            req' = [req EXCEPT ![r].e = IF Readable(d[k]) /\ Fresh(k, d[k], mtime) THEN d[k] ELSE None,
                               ![r].pc = IF ~Readable(d[k]) THEN "reserve"
                                         ELSE IF Fresh(k, d[k], mtime) THEN "promote"
                                         ELSE "unlink"]
      BY <1>2 DEF LoadFromDisk
    <3>2. d[k] \in {disk[k], None}
      BY <1>0 DEF ReadsOf
    <3> QED  BY <1>2, <3>1, <3>2 DEF LoadFromDisk
  <2>2. PICK e \in Entry, place \in Quiet : req' = [req EXCEPT ![r].e = e, ![r].pc = place]
    <3>1. disk[req[r].key] \in Entry
      BY <1>0
    <3>2. {disk[req[r].key], None} \subseteq Entry /\ {"reserve", "promote", "unlink"} \subseteq Quiet
      BY <1>0, <3>1
    <3> HIDE DEF Quiet
    <3> QED  BY <2>1, <3>2
  <2>3. Moves(r, place)
    BY <1>p, <2>2, MoveEntry
  <2> QED  BY <1>0, <2>1, <2>3
<1>3. CASE UnlinkStale(r)
  <2>1. /\ req[r].pc = "unlink" /\ UNCHANGED <<mtime, unlinks, moneyVars, sweep, count>>
        /\ Unlink(req[r].key) /\ req' = [req EXCEPT ![r].pc = "reserve"]
    BY <1>3 DEF UnlinkStale
  <2>2. Moves(r, "reserve")
    BY <2>1, MoveTo DEF Places
  <2> QED  BY <1>0, <2>1, <2>2, UnlinkType
<1>4. CASE PromoteLoaded(r)
  <2>1. /\ req[r].pc = "promote" /\ UNCHANGED <<disk, mtime, unlinks, orphans, moneyVars, sweep, count>>
        /\ req' = [req EXCEPT ![r] = Idle]
    BY <1>4 DEF PromoteLoaded
  <2>2. Moves(r, "idle")
    BY <2>1, MoveTo DEF Places
  <2> QED  BY <1>0, <2>1, <2>2
<1>5. CASE SnapshotMtime(r)
  <2> DEFINE e == [req[r].e EXCEPT !.at = IF req[r].key \in Sourced THEN mtime ELSE 0]
  <2>1. /\ req[r].pc = "stat" /\ UNCHANGED <<disk, mtime, unlinks, orphans, moneyVars, sweep, count>>
        /\ req' = [req EXCEPT ![r].pc = "put", ![r].e = e]
    BY <1>5 DEF SnapshotMtime
  <2>2. e \in Entry
    BY <1>0 DEF Entry
  <2> HIDE DEF e
  <2>3. Moves(r, "put")
    BY <2>1, <2>2, MoveEntry DEF Places
  <2> QED  BY <1>0, <2>1, <2>3
<1>6. CASE PutInMemory(r)
  <2>1. /\ req[r].pc = "put" /\ UNCHANGED <<disk, mtime, unlinks, orphans, moneyVars, sweep, count>>
        /\ req' = [req EXCEPT ![r].pc = "open"]
    BY <1>6 DEF PutInMemory
  <2>2. Moves(r, "open")
    BY <2>1, MoveTo DEF Places
  <2> QED  BY <1>0, <2>1, <2>2
<1>7. CASE OpenFile(r)
  <2>1. /\ req[r].pc = "open" /\ UNCHANGED <<mtime, unlinks, orphans, moneyVars, sweep, count>>
        /\ disk' = [disk EXCEPT ![req[r].key] = Blank] /\ req' = [req EXCEPT ![r].pc = "write"]
    BY <1>7 DEF OpenFile
  <2>2. Moves(r, "write")
    BY <2>1, MoveTo DEF Places
  <2> QED  BY <1>0, <2>1, <2>2
<1>8. CASE WriteFile(r)
  <2>1. /\ req[r].pc = "write" /\ UNCHANGED <<mtime, unlinks, moneyVars, sweep, count>>
        /\ \/ disk' = disk
           \/ disk' = [disk EXCEPT ![req[r].key] = req[r].e]
           \/ disk' = [disk EXCEPT ![req[r].key] = Torn]
        /\ orphans' = orphans \ {r}
        /\ req' = [req EXCEPT ![r] = Idle]
    BY <1>8 DEF WriteFile
  <2>2. Moves(r, "idle")
    BY <2>1, MoveTo DEF Places
  <2>3. disk' \in [Keys -> Entry]
    BY <1>0, <2>1
  <2> QED  BY <1>0, <2>1, <2>2, <2>3
<1>9. CASE SaveFails(r)
  <2>1. /\ req[r].pc \in {"open", "write"} /\ UNCHANGED <<mtime, unlinks, moneyVars, sweep>>
        /\ \/ disk' = disk
           \/ disk' = [disk EXCEPT ![req[r].key] = Torn]
        /\ orphans' = orphans \ {r} /\ Event
        /\ req' = [req EXCEPT ![r] = Idle]
    BY <1>9 DEF SaveFails
  <2>2. Moves(r, "idle")
    BY <2>1, MoveTo DEF Places
  <2>3. disk' \in [Keys -> Entry]
    BY <1>0, <2>1
  <2> QED  BY <1>0, <2>1, <2>2, <2>3, EventType
<1> QED  BY <1>1, <1>2, <1>3, <1>4, <1>5, <1>6, <1>7, <1>8, <1>9 DEF CacheStep

-----------------------------------------------------------------------------
\* What a move does to the cost of the requests at some places.
LEMMA MoveCosts ==
  ASSUME PathTypeOK, NEW r \in Requests, NEW place, Moves(r, place),
         NEW P, "idle" \notin P, "lookup" \notin P
  PROVE  /\ CostOfReq(r) \in Nat /\ CostAt(req, P) \in Nat /\ CostAt(req', P) \in Nat
         /\ (req[r].pc \in P <=> place \in P) => CostAt(req', P) = CostAt(req, P)
         /\ req[r].pc \notin P /\ place \in P => CostAt(req', P) = CostAt(req, P) + CostOfReq(r)
         /\ req[r].pc \in P /\ place \notin P => CostAt(req, P) = CostAt(req', P) + CostOfReq(r)
<1>1. /\ req \in [Requests -> Request] /\ req' \in [Requests -> Request]
      /\ \A x \in Requests : x # r => req'[x] = req[x]
      /\ req'[r].pc = place
      /\ place \in P => req'[r].key = req[r].key
  BY DEF PathTypeOK, Moves
<1>2. CostOfReq(r) = CostOf[req[r].key] /\ CostOf[req[r].key] \in Nat
  <2>1. req[r].key \in Keys
    BY <1>1 DEF Request
  <2> QED  BY <2>1, TokenPathAssumption DEF CostOfReq
<1> DEFINE q == req
           p == req'
<1>3. /\ CostAt(q, P) \in Nat /\ CostAt(p, P) \in Nat
      /\ q[r].pc \notin P /\ p[r].pc \notin P => CostAt(p, P) = CostAt(q, P)
      /\ q[r].pc \in P /\ p[r].pc \in P /\ p[r].key = q[r].key => CostAt(p, P) = CostAt(q, P)
      /\ q[r].pc \notin P /\ p[r].pc \in P => CostAt(p, P) = CostAt(q, P) + CostOf[p[r].key]
      /\ q[r].pc \in P /\ p[r].pc \notin P => CostAt(q, P) = CostAt(p, P) + CostOf[q[r].key]
  <2>1. q \in [Requests -> Request] /\ p \in [Requests -> Request]
        /\ \A x \in Requests : x # r => p[x] = q[x]
    BY <1>1
  <2> HIDE DEF q, p
  <2> QED  BY <2>1, CostMoves
<1> QED  BY <1>1, <1>2, <1>3

\* The amounts of the meter are natural numbers.
LEMMA MeterFacts ==
  ASSUME PathTypeOK
  PROVE  /\ meter.spent \in Nat /\ meter.reserved \in Nat /\ meter.day \in Nat
         /\ meter = [spent |-> meter.spent, reserved |-> meter.reserved, day |-> meter.day]
         /\ carried \in Nat /\ today \in Nat /\ served \in Nat /\ Limit \in Nat
         /\ unseen \in Nat /\ lost \in BOOLEAN
BY LimitAssumption DEF PathTypeOK, Meter

\* A step that leaves the meter and its ledger alone, while calls under way
\* can only have got fewer.
LEMMA MeterStays ==
  ASSUME PathTypeOK, MeterInv, UNCHANGED <<meter, ledger, today, carried, unseen>>, lost => lost',
         CostAt(req', Under) \in Nat, CostAt(req, Under) \in Nat,
         CostAt(req', Under) <= CostAt(req, Under)
  PROVE  MeterInv'
<1>1. /\ meter'.day = meter.day /\ meter'.spent = meter.spent /\ meter'.reserved = meter.reserved
      /\ carried' = carried /\ today' = today /\ ledger' = ledger /\ unseen' = unseen /\ meter' = meter
  OBVIOUS
<1>2. meter.day = today =>
        /\ meter.spent + CostAt(req', Under) <= Limit + carried
        /\ CostAt(req', Under) <= meter.reserved + carried
  BY MeterFacts DEF MeterInv
<1>3. Follows'
  BY <1>1 DEF MeterInv, Follows
<1> QED  BY <1>1, <1>2, <1>3 DEF MeterInv

\* The meter a method of the budget works on, and what it may still add.
Rolled(k) ==
  LET m == RollOver(meter, today)
  IN /\ m \in Meter /\ m.day = today /\ k \in Nat
     /\ m.spent + m.reserved <= Limit + k
     /\ m.spent + CostAt(req, Under) <= Limit + k
     /\ CostAt(req, Under) <= m.reserved + k

\* What a method of the budget finds after the change of day: nothing of the
\* old day but the calls that go over.
LEMMA RolledMeter ==
  ASSUME PathTypeOK, MeterInv, Carry, CostAt(req, Under) \in Nat
  PROVE  Rolled(carried')
<1> DEFINE m == RollOver(meter, today)
<1>1. carried' = IF meter.day = today THEN carried ELSE CostAt(req, Under)
  BY CostIsCostAt DEF Carry
<1>2. CASE meter.day = today
  <2>1. m = meter /\ carried' = carried
    BY <1>1, <1>2 DEF RollOver
  <2>2. meter \in Meter
    BY DEF PathTypeOK
  <2> QED  BY <1>2, <2>1, <2>2, MeterFacts DEF MeterInv, Rolled
<1>3. CASE meter.day # today
  <2>1. m = [spent |-> 0, reserved |-> 0, day |-> today] /\ carried' = CostAt(req, Under)
    BY <1>1, <1>3 DEF RollOver, NewMeter
  <2>2. m \in Meter /\ m.day = today /\ m.spent = 0 /\ m.reserved = 0
    BY <2>1, MeterFacts DEF Meter
  <2> HIDE DEF m
  <2>3. /\ m.spent + m.reserved <= Limit + carried'
        /\ m.spent + CostAt(req, Under) <= Limit + carried'
        /\ CostAt(req, Under) <= m.reserved + carried'
    BY <2>1, <2>2, MeterFacts
  <2> QED  BY <2>1, <2>2, <2>3 DEF Rolled, m
<1> QED  BY <1>2, <1>3

\* The types of what a method of the budget changes.
BudgetStep ==
  /\ meter' \in Meter /\ ledger' \in Books(LedgerLine) /\ carried' \in Nat
  /\ today' \in Nat \ {0} /\ unseen' \in Nat /\ lost' \in BOOLEAN /\ (lost => lost')
  /\ count' \in Counters /\ count'.restarts = count.restarts

\* What one line makes of a new day.
LEMMA BookNew ==
  ASSUME NEW now \in Nat, NEW line \in LedgerLine, line.day = now
  PROVE  /\ Below(Book(NewMeter(now), line, now), NewMeter(now), line.usd)
         /\ line.usd = 0 => Book(NewMeter(now), line, now) = NewMeter(now)
         /\ NewMeter(now) \in Meter
<1>1. line.usd \in Nat /\ line.type \in {"reserve", "commit"}
  BY DEF LedgerLine
<1> DEFINE usd == line.usd
<1>2. NewMeter(now) = [spent |-> 0, reserved |-> 0, day |-> now]
  BY DEF NewMeter
<1>3. CASE line.type = "reserve"
  <2>1. Book(NewMeter(now), line, now) = [spent |-> 0, reserved |-> line.usd, day |-> now]
    BY <1>1, <1>2, <1>3 DEF Book
  <2> QED  BY <1>1, <1>2, <2>1 DEF Below, Meter
<1>4. CASE line.type = "commit"
  <2>1. Book(NewMeter(now), line, now) = Settle(NewMeter(now), usd)
    BY <1>4 DEF Book
  <2>2. usd \in Nat
    BY <1>1
  <2> HIDE DEF usd
  <2>3. (IF 0 >= usd THEN 0 - usd ELSE 0) = 0 /\ 0 + usd = usd
    BY <2>2
  <2>4. Settle(NewMeter(now), usd)
          = [spent |-> 0 + usd, reserved |-> IF 0 >= usd THEN 0 - usd ELSE 0, day |-> now]
    <3> DEFINE m == NewMeter(now)
    <3>1. m = [spent |-> 0, reserved |-> 0, day |-> now]
      BY <1>2
    <3> HIDE DEF m
    <3>2. m.spent = 0 /\ m.reserved = 0 /\ m.day = now
      BY <3>1
    <3>3. m \in [spent : {0}, reserved : {0}, day : {now}]
      BY <3>1
    <3> DEFINE x == IF m.reserved >= usd THEN m.reserved - usd ELSE 0
    <3>4. Settle(m, usd) = [[m EXCEPT !.reserved = x] EXCEPT !.spent = m.spent + usd]
      BY <3>3 DEF Settle
    <3>5. Settle(m, usd) = [spent |-> m.spent + usd, reserved |-> x, day |-> m.day]
      <4> HIDE DEF x
      <4> QED  BY <3>3, <3>4
    <3> QED  BY <3>2, <3>5 DEF m
  <2>5. Book(NewMeter(now), line, now) = [spent |-> usd, reserved |-> 0, day |-> now]
    BY <2>1, <2>3, <2>4
  <2> QED  BY <1>2, <2>2, <2>5 DEF Below, Meter, usd
<1> QED  BY <1>1, <1>3, <1>4

\* The line of a method that has changed the meter: it is written as a line of
\* today or of tomorrow, or it is lost, and the ledger follows the meter.
LEMMA EnterKeeps ==
  ASSUME PathTypeOK, MeterInv, NEW type \in {"reserve", "commit"}, NEW c \in Nat, Enter(type, c),
         meter' = Book(RollOver(meter, today), [type |-> type, usd |-> c, day |-> today], today),
         RollOver(meter, today) \in Meter, RollOver(meter, today).day = today,
         meter' \in Meter, meter'.day = today
  PROVE  /\ Follows' /\ today <= today'
         /\ ledger' \in Books(LedgerLine) /\ today' \in Nat \ {0}
         /\ unseen' \in Nat /\ lost' \in BOOLEAN /\ (lost => lost')
         /\ count' \in Counters /\ count'.restarts = count.restarts
         /\ Committed(ledger.lines) \in Nat /\ Committed(ledger'.lines) \in Nat
         /\ Committed(ledger'.lines) <= Committed(ledger.lines) + (IF type = "commit" THEN c ELSE 0)
         /\ ~lost' => Committed(ledger'.lines) = Committed(ledger.lines) + (IF type = "commit" THEN c ELSE 0)
<1> DEFINE line == [type |-> type, usd |-> c, day |-> today']
           M == RollOver(meter, today)
           old == Replay(ledger.lines, today)
           new == Replay(ledger'.lines, today')
           next == RollOver(meter', today')
<1>0. /\ ledger \in Books(LedgerLine) /\ ledger.lines \in Seq(LedgerLine)
      /\ today \in Nat \ {0} /\ count \in Counters /\ unseen \in Nat /\ lost \in BOOLEAN
  BY DEF PathTypeOK, Books
<1>1. /\ today' \in {today, today + 1}
      /\ count' = count \/ Event
      /\ ledger' \in {Appended(ledger, line)} \cup CutShort(ledger, line)
      /\ lost' = (lost \/ ledger' # Appended(ledger, line))
      /\ unseen' = IF today' = today THEN unseen ELSE c
  BY DEF Enter
<1>2. today' \in Nat \ {0} /\ today' \in Nat /\ today \in Nat /\ today <= today'
  BY <1>0, <1>1
<1>3. count' \in Counters /\ count'.restarts = count.restarts
  BY <1>0, <1>1, EventType
<1>4. unseen' \in Nat /\ lost' \in BOOLEAN /\ (lost => lost')
  BY <1>0, <1>1
<1>5. /\ line \in LedgerLine /\ line.type = type /\ line.usd = c /\ line.day = today'
  BY <1>2 DEF LedgerLine
<1>6. /\ ledger' \in Books(LedgerLine) /\ Written(ledger', ledger, line)
      /\ ledger' = Appended(ledger, line) /\ ledger.end = "newline" =>
           ledger'.lines = Append(ledger.lines, line) /\ ledger'.end = "newline"
  <2> HIDE DEF line
  <2> QED  BY <1>0, <1>1, <1>5, BookShapes
<1>7. ~lost' => ~lost /\ ledger'.end = "newline" /\ ledger'.lines = Append(ledger.lines, line)
  BY <1>1, <1>6 DEF MeterInv, Follows
<1>8. /\ Committed(ledger.lines) \in Nat /\ Committed(ledger'.lines) \in Nat
      /\ Committed(ledger'.lines) <= Committed(ledger.lines) + (IF type = "commit" THEN c ELSE 0)
      /\ ~lost' => Committed(ledger'.lines) = Committed(ledger.lines) + (IF type = "commit" THEN c ELSE 0)
  <2> HIDE DEF line
  <2> QED  BY <1>0, <1>5, <1>6, <1>7, CommittedWritten
<1>9. \A i \in DOMAIN ledger'.lines : ledger'.lines[i].day <= today'
  <2> TAKE i \in DOMAIN ledger'.lines
  <2> HIDE DEF line
  <2>1. ledger'.lines[i] = line \/ \E j \in DOMAIN ledger.lines : ledger'.lines[i] = ledger.lines[j]
    BY <1>0, <1>5, <1>6, WrittenDays
  <2>2. CASE ledger'.lines[i] = line
    BY <1>2, <1>5, <2>2
  <2>3. ASSUME NEW j \in DOMAIN ledger.lines, ledger'.lines[i] = ledger.lines[j]
        PROVE  ledger'.lines[i].day <= today'
    <3>1. ledger.lines[j] \in LedgerLine
      BY <1>0, LenProperties
    <3>2. ledger.lines[j].day \in Nat /\ ledger.lines[j].day <= today
      BY <3>1 DEF LedgerLine, MeterInv, Follows
    <3> QED  BY <1>2, <2>3, <3>2
  <2> QED  BY <2>1, <2>2, <2>3
<1>10. ledger'.lines \in Seq(LedgerLine) /\ new \in Meter /\ old \in Meter /\ M \in Meter
  <2>1. ledger'.lines \in Seq(LedgerLine)
    BY <1>6 DEF Books
  <2> QED  BY <1>0, <1>2, <2>1, ReplayDay
<1>11. CASE today' = today
  <2>1. next = meter' /\ meter' = Book(M, line, today) /\ unseen' = unseen
    BY <1>1, <1>11 DEF RollOver
  <2>2. Below(old, M, unseen) /\ (~lost /\ unseen = 0 => old = M)
    BY DEF MeterInv, Follows
  <2> HIDE DEF line, M, old, next
  <2>3. Below(M, meter', 0) /\ Below(Book(old, line, today), meter', unseen)
    BY <1>0, <1>2, <1>5, <1>10, <2>1, <2>2, BookGrows
  <2>4. Below(old, meter', unseen)
    BY <1>0, <1>10, <2>2, <2>3, BelowTrans
  <2>5. ledger'.lines = Append(ledger.lines, line) => new = Book(old, line, today)
    <3>1. Replay(Append(ledger.lines, line), today) = Book(old, line, today)
      BY <1>0, <1>2, <1>5, ReplayAppend DEF old
    <3> QED  BY <1>11, <3>1
  <2>6. Below(new, meter', unseen)
    <3>1. CASE ledger'.lines = ledger.lines
      BY <1>11, <2>4, <3>1 DEF old
    <3>2. CASE ledger'.lines = Append(ledger.lines, line)
      BY <2>3, <2>5, <3>2
    <3>3. CASE ledger.lines # <<>> /\ ledger'.lines = Front(ledger.lines)
      <4>1. Below(new, old, 0)
        BY <1>0, <1>2, <1>11, <3>3, ReplayFront DEF old
      <4> HIDE DEF new
      <4> QED  BY <1>0, <1>10, <2>4, <4>1, BelowTrans
    <3> QED  BY <1>6, <3>1, <3>2, <3>3 DEF Written
  <2>7. ~lost' /\ unseen' = 0 => new = meter'
    BY <1>7, <2>1, <2>2, <2>5
  <2>8. Follows'
    BY <1>7, <1>9, <2>1, <2>6, <2>7 DEF Follows, next
  <2> QED  BY <1>2, <1>3, <1>4, <1>6, <1>8, <2>8
<1>12. CASE today' # today
  <2> DEFINE N == NewMeter(today')
  <2>1. today' = today + 1 /\ unseen' = c
    BY <1>1, <1>12
  <2>2. next = N
    BY <1>12 DEF RollOver
  <2>3. Replay(ledger.lines, today') = N
    <3>1. \A i \in DOMAIN ledger.lines : ledger.lines[i].day # today'
      <4> TAKE i \in DOMAIN ledger.lines
      <4>1. ledger.lines[i] \in LedgerLine
        BY <1>0, LenProperties
      <4>2. ledger.lines[i].day \in Nat /\ ledger.lines[i].day <= today
        BY <4>1 DEF LedgerLine, MeterInv, Follows
      <4> QED  BY <1>2, <2>1, <4>2
    <3> QED  BY <1>0, <1>2, <3>1, ReplayDay
  <2> HIDE DEF line, N, next, M, old
  <2>4. /\ Below(Book(N, line, today'), N, c) /\ (c = 0 => Book(N, line, today') = N)
        /\ N \in Meter
    BY <1>2, <1>5, BookNew DEF N
  <2>5. ledger'.lines = Append(ledger.lines, line) => new = Book(N, line, today')
    BY <1>0, <1>2, <1>5, <2>3, ReplayAppend
  <2>6. Below(N, N, 0) /\ Below(N, N, c)
    BY <2>4 DEF Below, Meter
  <2>7. Below(new, N, c)
    <3>1. CASE ledger'.lines = ledger.lines
      BY <2>3, <2>6, <3>1
    <3>2. CASE ledger'.lines = Append(ledger.lines, line)
      BY <2>4, <2>5, <3>2
    <3>3. CASE ledger.lines # <<>> /\ ledger'.lines = Front(ledger.lines)
      <4>1. Below(new, N, 0)
        BY <1>0, <1>2, <2>3, <3>3, ReplayFront
      <4> HIDE DEF new
      <4> QED  BY <1>10, <2>4, <2>6, <4>1, BelowTrans
    <3> QED  BY <1>6, <3>1, <3>2, <3>3 DEF Written
  <2>8. ~lost' /\ unseen' = 0 => new = N
    BY <1>7, <2>1, <2>4, <2>5
  <2>9. Follows'
    BY <1>7, <1>9, <2>1, <2>2, <2>7, <2>8 DEF Follows, next
  <2> QED  BY <1>2, <1>3, <1>4, <1>6, <1>8, <2>9
<1> QED  BY <1>11, <1>12

\* CheckAndReserve keeps the meter.
LEMMA ReserveKeeps ==
  ASSUME PathTypeOK, MeterInv, NEW r \in Requests, CheckBudget(r)
  PROVE  /\ MeterInv' /\ BudgetStep
         /\ \E place \in {"post", "idle"} : Moves(r, place)
         /\ Committed(ledger.lines) \in Nat /\ Committed(ledger'.lines) \in Nat
         /\ Committed(ledger'.lines) <= Committed(ledger.lines)
         /\ ~lost' => Committed(ledger'.lines) = Committed(ledger.lines)
<1> DEFINE c == CostOfReq(r)
           m == RollOver(meter, today)
           W == CostAt(req, Under)
           Refused == /\ meter' = m /\ req' = [req EXCEPT ![r] = Idle]
                      /\ UNCHANGED <<ledger, today, lost, unseen, count>>
           Passed == /\ Fits(meter, c, today) /\ meter' = Reserve(meter, c, today)
                     /\ Enter("reserve", c) /\ req' = [req EXCEPT ![r].pc = "post"]
<1>1. req[r].pc = "reserve" /\ Carry /\ (Refused \/ Passed)
  BY DEF CheckBudget, At, Goto, Return
<1>2. /\ Refused => Moves(r, "idle")
      /\ Passed => Moves(r, "post")
  BY MoveTo DEF Places
<1>3. PICK place \in {"post", "idle"} : Moves(r, place)
  BY <1>1, <1>2
<1>4. W \in Nat /\ c \in Nat
  BY <1>3, MoveCosts DEF Under
<1>5. Rolled(carried')
  BY <1>1, <1>4, RolledMeter
<1>6. /\ m \in Meter /\ m.day = today /\ carried' \in Nat /\ m.spent \in Nat /\ m.reserved \in Nat
      /\ m.spent + m.reserved <= Limit + carried'
      /\ m.spent + W <= Limit + carried' /\ W <= m.reserved + carried'
  BY <1>5 DEF Rolled, Meter
<1>7. CASE Passed
  <2> DEFINE type == "reserve"
             line == [type |-> type, usd |-> c, day |-> today]
  <2>1. Fits(meter, c, today) /\ meter' = Reserve(meter, c, today) /\ Enter(type, c) /\ Moves(r, "post")
    BY <1>2, <1>7
  <2>2. meter' = [m EXCEPT !.reserved = @ + c]
    BY <2>1 DEF Reserve
  <2>3. meter'.day = today /\ meter'.spent = m.spent /\ meter'.reserved = m.reserved + c
        /\ meter' \in Meter
    BY <1>4, <1>6, <2>2 DEF Meter
  <2>4. meter' = Book(m, line, today)
    BY <2>2 DEF Book
  <2>5. m.spent + m.reserved + c <= Limit
    BY <2>1 DEF Fits
  <2>6. CostAt(req', Under) = W + c
    BY <1>1, <2>1, MoveCosts DEF Under
  <2>7. /\ Follows' /\ today <= today'
        /\ ledger' \in Books(LedgerLine) /\ today' \in Nat \ {0}
        /\ unseen' \in Nat /\ lost' \in BOOLEAN /\ (lost => lost')
        /\ count' \in Counters /\ count'.restarts = count.restarts
        /\ Committed(ledger.lines) \in Nat /\ Committed(ledger'.lines) \in Nat
        /\ Committed(ledger'.lines) <= Committed(ledger.lines) + (IF type = "commit" THEN c ELSE 0)
        /\ ~lost' => Committed(ledger'.lines) = Committed(ledger.lines) + (IF type = "commit" THEN c ELSE 0)
    <3>1. type \in {"reserve", "commit"}
      OBVIOUS
    <3> HIDE DEF c, type, Passed, Refused
    <3> QED  BY <1>4, <1>6, <2>1, <2>3, <2>4, <3>1, EnterKeeps
  <2> HIDE DEF W, c, m, line, Passed, Refused
  <2>8. /\ meter'.spent + meter'.reserved <= Limit + carried'
        /\ meter'.spent + CostAt(req', Under) <= Limit + carried'
        /\ CostAt(req', Under) <= meter'.reserved + carried'
    BY <1>4, <1>6, <2>3, <2>5, <2>6, LimitAssumption
  <2>9. meter'.day <= today'
    BY <2>3, <2>7
  <2>10. MeterInv'
    BY <2>7, <2>8, <2>9 DEF MeterInv
  <2>11. BudgetStep
    BY <1>6, <2>3, <2>7 DEF BudgetStep
  <2> QED  BY <1>3, <2>7, <2>10, <2>11
<1>8. CASE Refused
  <2>0. req[r].pc = "reserve" /\ Moves(r, "idle")
    BY <1>1, <1>2, <1>8
  <2>1. CostAt(req', Under) = W
    <3> HIDE DEF Passed, Refused, m
    <3> QED  BY <2>0, MoveCosts DEF Under
  <2>2. RollOver(m, today) = m
    BY <1>6 DEF RollOver
  <2>3. Follows'
    BY <1>8, <2>2 DEF MeterInv, Follows
  <2>4. /\ meter' = m /\ UNCHANGED <<ledger, today, lost, unseen, count>>
    BY <1>8
  <2> HIDE DEF m, W, Passed, Refused
  <2>5. /\ meter'.spent + meter'.reserved <= Limit + carried'
        /\ meter'.spent + CostAt(req', Under) <= Limit + carried'
        /\ CostAt(req', Under) <= meter'.reserved + carried'
    BY <1>6, <2>1, <2>4
  <2>6. meter'.day <= today'
    BY <1>6, <2>4, MeterFacts
  <2>7. MeterInv'
    BY <2>3, <2>5, <2>6 DEF MeterInv
  <2>8. BudgetStep
    BY <1>6, <2>4 DEF BudgetStep, PathTypeOK
  <2>9. Committed(ledger.lines) \in Nat
    <3>1. [type |-> "reserve", usd |-> 0, day |-> 0] \in LedgerLine /\ ledger.lines \in Seq(LedgerLine)
      BY DEF LedgerLine, PathTypeOK, Books
    <3> QED  BY <3>1, CommittedAppend
  <2> QED  BY <1>3, <2>4, <2>7, <2>8, <2>9
<1> QED  BY <1>1, <1>7, <1>8

\* Commit of no more than the estimate, for a call that was under way, keeps it.
LEMMA CommitKeeps ==
  ASSUME PathTypeOK, MeterInv, NEW r \in Requests, NEW c \in {0, CostOfReq(r)}, CommitCost(r, c),
         req[r].pc \in Under, NEW place \in {"idle", "record"}, Moves(r, place)
  PROVE  /\ MeterInv' /\ BudgetStep
         /\ Committed(ledger.lines) \in Nat /\ Committed(ledger'.lines) \in Nat
         /\ Committed(ledger'.lines) <= Committed(ledger.lines) + c
         /\ ~lost' => Committed(ledger'.lines) = Committed(ledger.lines) + c
<1> DEFINE C == CostOfReq(r)
           m == RollOver(meter, today)
           W == CostAt(req, Under)
           V == CostAt(req', Under)
<1>1. W \in Nat /\ V \in Nat /\ C \in Nat /\ W = V + C
  BY MoveCosts DEF Under
<1>2. c \in Nat /\ c <= C
  BY <1>1
<1>3. CASE C = 0
  <2>1. UNCHANGED <<meter, ledger, carried, today, lost, unseen, count>> /\ c = 0
    BY <1>3 DEF CommitCost
  <2>2. V <= W
    BY <1>1
  <2>3. MeterInv'
    BY <1>1, <2>1, <2>2, MeterStays
  <2>4. Committed(ledger.lines) \in Nat
    <3>1. [type |-> "reserve", usd |-> 0, day |-> 0] \in LedgerLine /\ ledger.lines \in Seq(LedgerLine)
      BY DEF LedgerLine, PathTypeOK, Books
    <3> QED  BY <3>1, CommittedAppend
  <2>5. BudgetStep
    BY <2>1 DEF BudgetStep, PathTypeOK
  <2> QED  BY <2>1, <2>3, <2>4, <2>5
<1>4. CASE C # 0
  <2> DEFINE type == "commit"
             line == [type |-> type, usd |-> c, day |-> today]
  <2>1. Carry /\ meter' = Commit(meter, c, today) /\ Enter(type, c)
    BY <1>4 DEF CommitCost
  <2>2. Rolled(carried')
    BY <1>1, <2>1, RolledMeter
  <2>3. /\ m \in Meter /\ m.day = today /\ carried' \in Nat /\ m.spent \in Nat /\ m.reserved \in Nat
        /\ m.spent + m.reserved <= Limit + carried'
        /\ m.spent + W <= Limit + carried' /\ W <= m.reserved + carried'
    BY <2>2 DEF Rolled, Meter
  <2>4. meter' = Settle(m, c) /\ meter' = Book(m, line, today)
    BY <2>1 DEF Commit, Book
  <2>5. /\ meter'.day = today /\ meter'.spent = m.spent + c
        /\ meter'.reserved = IF m.reserved >= c THEN m.reserved - c ELSE 0
        /\ meter' = [spent |-> meter'.spent, reserved |-> meter'.reserved, day |-> meter'.day]
    BY <2>3, <2>4 DEF Settle, Meter
  <2>6. meter'.spent \in Nat /\ meter'.reserved \in Nat
    BY <1>2, <2>3, <2>5
  <2>7. meter' \in Meter
    BY <2>5, <2>6, MeterFacts DEF Meter
  <2>8. /\ Follows' /\ today <= today'
        /\ ledger' \in Books(LedgerLine) /\ today' \in Nat \ {0}
        /\ unseen' \in Nat /\ lost' \in BOOLEAN /\ (lost => lost')
        /\ count' \in Counters /\ count'.restarts = count.restarts
        /\ Committed(ledger.lines) \in Nat /\ Committed(ledger'.lines) \in Nat
        /\ Committed(ledger'.lines) <= Committed(ledger.lines) + (IF type = "commit" THEN c ELSE 0)
        /\ ~lost' => Committed(ledger'.lines) = Committed(ledger.lines) + (IF type = "commit" THEN c ELSE 0)
    <3>1. type \in {"reserve", "commit"}
      OBVIOUS
    <3> HIDE DEF type, C
    <3> QED  BY <1>2, <2>1, <2>3, <2>4, <2>5, <2>7, <3>1, EnterKeeps
  <2> HIDE DEF m, line, W, V, C
  <2>9. /\ meter'.spent + meter'.reserved <= Limit + carried'
        /\ meter'.spent + V <= Limit + carried'
        /\ V <= meter'.reserved + carried'
    <3>1. CASE m.reserved >= c
      BY <1>1, <1>2, <2>3, <2>5, <3>1, LimitAssumption
    <3>2. CASE ~(m.reserved >= c)
      BY <1>1, <1>2, <2>3, <2>5, <3>2, LimitAssumption
    <3> QED  BY <3>1, <3>2
  <2>10. meter'.day <= today'
    BY <2>5, <2>8
  <2>11. MeterInv'
    BY <2>8, <2>9, <2>10 DEF MeterInv, V
  <2>12. BudgetStep
    BY <2>3, <2>7, <2>8 DEF BudgetStep
  <2> QED  BY <2>8, <2>11, <2>12
<1> QED  BY <1>3, <1>4

\* A step that changes no book keeps the books, if no request comes to or
\* leaves the places they count.
LEMMA BooksStay ==
  ASSUME BooksInv, UNCHANGED <<ledger, calls, served, lost>>, count'.restarts = count.restarts,
         CostAt(req', {"answered"}) = CostAt(req, {"answered"}),
         CostAt(req', {"record"}) = CostAt(req, {"record"})
  PROVE  BooksInv'
BY DEF BooksInv

\* The sums of the books are natural numbers.
LEMMA BooksAreNumbers ==
  ASSUME PathTypeOK, BooksInv
  PROVE  Committed(ledger.lines) \in Nat /\ SummaryTotal(calls.lines, 1) \in Nat
<1>1. [type |-> "reserve", usd |-> 0, day |-> 0] \in LedgerLine /\ [usd |-> 0, day |-> 1] \in CallLine
  BY DEF LedgerLine, CallLine
<1>2. Committed(ledger.lines) \in Nat
  <2>1. ledger.lines \in Seq(LedgerLine)
    BY DEF PathTypeOK, Books
  <2> QED  BY <1>1, <2>1, CommittedAppend
<1> DEFINE line == [usd |-> 0, day |-> 1]
<1>3. line \in CallLine /\ line.day >= 1 /\ calls.lines \in Seq(CallLine)
      /\ \A i \in DOMAIN calls.lines : calls.lines[i].day >= 1
  BY <1>1 DEF PathTypeOK, BooksInv, Books
<1> HIDE DEF line
<1>4. SummaryTotal(calls.lines, 1) \in Nat
  BY <1>3, SummaryAppend
<1> QED  BY <1>2, <1>4

\* What a move does to the three costs of the invariants.
LEMMA MoneyMoves ==
  ASSUME PathTypeOK, NEW r \in Requests, NEW place, Moves(r, place)
  PROVE  /\ CostOfReq(r) \in Nat
         /\ CostAt(req, Under) \in Nat /\ CostAt(req', Under) \in Nat
         /\ CostAt(req, {"answered"}) \in Nat /\ CostAt(req', {"answered"}) \in Nat
         /\ CostAt(req, {"record"}) \in Nat /\ CostAt(req', {"record"}) \in Nat
         /\ (req[r].pc \in Under <=> place \in Under) => CostAt(req', Under) = CostAt(req, Under)
         /\ (req[r].pc = "answered" <=> place = "answered") =>
              CostAt(req', {"answered"}) = CostAt(req, {"answered"})
         /\ (req[r].pc = "record" <=> place = "record") =>
              CostAt(req', {"record"}) = CostAt(req, {"record"})
         /\ req[r].pc # "answered" /\ place = "answered" =>
              CostAt(req', {"answered"}) = CostAt(req, {"answered"}) + CostOfReq(r)
         /\ req[r].pc = "answered" /\ place # "answered" =>
              CostAt(req, {"answered"}) = CostAt(req', {"answered"}) + CostOfReq(r)
         /\ req[r].pc # "record" /\ place = "record" =>
              CostAt(req', {"record"}) = CostAt(req, {"record"}) + CostOfReq(r)
         /\ req[r].pc = "record" /\ place # "record" =>
              CostAt(req, {"record"}) = CostAt(req', {"record"}) + CostOfReq(r)
<1>1. \A P : "idle" \notin P /\ "lookup" \notin P =>
         /\ CostOfReq(r) \in Nat /\ CostAt(req, P) \in Nat /\ CostAt(req', P) \in Nat
         /\ (req[r].pc \in P <=> place \in P) => CostAt(req', P) = CostAt(req, P)
         /\ req[r].pc \notin P /\ place \in P => CostAt(req', P) = CostAt(req, P) + CostOfReq(r)
         /\ req[r].pc \in P /\ place \notin P => CostAt(req, P) = CostAt(req', P) + CostOfReq(r)
  BY MoveCosts
<1>2. "idle" \notin Under /\ "lookup" \notin Under
  BY DEF Under
<1> DEFINE P == {"answered"}
           Q == {"record"}
<1>3. /\ "idle" \notin P /\ "lookup" \notin P /\ "idle" \notin Q /\ "lookup" \notin Q
      /\ \A p : (p \in P <=> p = "answered") /\ (p \in Q <=> p = "record")
  OBVIOUS
<1> HIDE DEF P, Q
<1>4. /\ CostOfReq(r) \in Nat
      /\ CostAt(req, Under) \in Nat /\ CostAt(req', Under) \in Nat
      /\ CostAt(req, P) \in Nat /\ CostAt(req', P) \in Nat
      /\ CostAt(req, Q) \in Nat /\ CostAt(req', Q) \in Nat
  BY <1>1, <1>2, <1>3
<1>5. (req[r].pc \in Under <=> place \in Under) => CostAt(req', Under) = CostAt(req, Under)
  BY <1>1, <1>2
<1>6. /\ (req[r].pc = "answered" <=> place = "answered") => CostAt(req', P) = CostAt(req, P)
      /\ req[r].pc # "answered" /\ place = "answered" => CostAt(req', P) = CostAt(req, P) + CostOfReq(r)
      /\ req[r].pc = "answered" /\ place # "answered" => CostAt(req, P) = CostAt(req', P) + CostOfReq(r)
  BY <1>1, <1>3
<1>7. /\ (req[r].pc = "record" <=> place = "record") => CostAt(req', Q) = CostAt(req, Q)
      /\ req[r].pc # "record" /\ place = "record" => CostAt(req', Q) = CostAt(req, Q) + CostOfReq(r)
      /\ req[r].pc = "record" /\ place # "record" => CostAt(req, Q) = CostAt(req', Q) + CostOfReq(r)
  BY <1>1, <1>3
<1> QED  BY <1>4, <1>5, <1>6, <1>7 DEF P, Q

\* A step of a request keeps the types, the meter and the books.
LEMMA RequestKeeps ==
  ASSUME PathTypeOK, MeterInv, BooksInv, NEW r \in Requests,
         Step(r) \/ (\E k \in Keys : Call(r, k)), raced' \in SUBSET Keys
  PROVE  PathTypeOK' /\ MeterInv' /\ BooksInv'
<1> USE DEF cacheVars, moneyVars
<1> DEFINE A == CostAt(req, {"answered"})
           R == CostAt(req, {"record"})
           W == CostAt(req, Under)
           A2 == CostAt(req', {"answered"})
           R2 == CostAt(req', {"record"})
           W2 == CostAt(req', Under)
           C == CostOfReq(r)
           Ledger == Committed(ledger.lines)
           Total == SummaryTotal(calls.lines, 1)
<1>0. Ledger \in Nat /\ Total \in Nat
  BY BooksAreNumbers
<1>1. CASE CacheStep(r)
  <2>1. PICK place \in Quiet : Moves(r, place)
    BY <1>1, CacheStepIs
  <2>2. /\ req[r].pc \in Quiet /\ disk' \in [Keys -> Entry]
        /\ orphans' \in SUBSET Requests /\ count' \in Counters /\ count'.restarts = count.restarts
        /\ UNCHANGED <<mtime, unlinks, moneyVars, sweep>>
    BY <1>1, CacheStepIs
  <2>3. A2 = A /\ R2 = R /\ W2 = W /\ W \in Nat
    BY <2>1, <2>2, MoneyMoves DEF Quiet, Under
  <2>4. PathTypeOK'
    BY <2>1, <2>2 DEF PathTypeOK, Moves
  <2>5. MeterInv'
    BY <2>2, <2>3, MeterStays
  <2>6. BooksInv'
    BY <2>2, <2>3, BooksStay
  <2> QED  BY <2>4, <2>5, <2>6
<1>2. CASE CheckBudget(r)
  <2>1. /\ MeterInv' /\ BudgetStep
        /\ Committed(ledger'.lines) \in Nat /\ Committed(ledger'.lines) <= Ledger
        /\ ~lost' => Committed(ledger'.lines) = Ledger
    BY <1>2, ReserveKeeps
  <2>2. PICK place \in {"post", "idle"} : Moves(r, place)
    BY <1>2, ReserveKeeps
  <2>3. req[r].pc = "reserve" /\ UNCHANGED <<cacheVars, calls, served, sweep>>
    BY <1>2 DEF CheckBudget, At
  <2>4. A2 = A /\ R2 = R /\ A \in Nat /\ R \in Nat
    BY <2>2, <2>3, MoneyMoves
  <2>5. PathTypeOK'
    BY <2>1, <2>2, <2>3 DEF PathTypeOK, Moves, BudgetStep
  <2>6. BooksInv'
    BY <1>0, <2>1, <2>3, <2>4, MeterFacts DEF BooksInv, BudgetStep
  <2> QED  BY <2>1, <2>5, <2>6
<1>3. CASE Answered(r)
  <2>0. count \in Counters /\ served \in Nat
    BY DEF PathTypeOK
  <2>1. /\ req[r].pc = "post" /\ count' = [count EXCEPT !.answers = @ + 1]
        /\ served' = served + C
        /\ req' = [req EXCEPT ![r].pc = "answered", ![r].tries = 0,
                              ![r].e = [ver |-> count'.answers, at |-> 0]]
        /\ UNCHANGED <<cacheVars, meter, ledger, calls, today, carried, unseen, lost, sweep>>
    BY <1>3 DEF Answered, At
  <2>2. count' \in Counters /\ count'.restarts = count.restarts
    BY <2>0, <2>1 DEF Counters
  <2>3. [ver |-> count'.answers, at |-> 0] \in Entry /\ "answered" \in Places /\ 0 \in Nat
    BY <2>2 DEF Counters, Entry, Places
  <2>4. Moves(r, "answered")
    BY <1>3, <2>2, MoveAnswer
  <2>5. /\ A2 = A + C /\ R2 = R /\ W2 = W
        /\ W \in Nat /\ A \in Nat /\ R \in Nat /\ C \in Nat
    BY <2>1, <2>4, MoneyMoves DEF Under
  <2>6. served' \in Nat
    BY <2>0, <2>1, <2>5
  <2>7. PathTypeOK'
    BY <2>1, <2>2, <2>4, <2>6 DEF PathTypeOK, Moves
  <2>8. MeterInv'
    BY <2>1, <2>5, MeterStays
  <2>9. /\ Ledger + A <= served /\ Total + R + A <= served
        /\ ~lost /\ count.restarts = 0 => Ledger + A = served
    BY DEF BooksInv
  <2> HIDE DEF A, A2, R, C, Ledger, Total
  <2>10. /\ Ledger + A2 <= served' /\ Total + R + A2 <= served'
         /\ ~lost /\ count.restarts = 0 => Ledger + A2 = served'
    BY <1>0, <2>0, <2>1, <2>5, <2>9
  <2>11. BooksInv'
    BY <2>1, <2>2, <2>5, <2>10 DEF BooksInv, A2, R, Ledger, Total
  <2> QED  BY <2>7, <2>8, <2>11
<1>4. CASE Retry(r)
  <2>1. /\ req[r].pc = "post" /\ req' = [req EXCEPT ![r].tries = @ + 1]
        /\ UNCHANGED <<cacheVars, moneyVars, sweep, count>>
    BY <1>4 DEF Retry, At
  <2>2. req \in [Requests -> Request] /\ req[r].tries \in Nat
    BY DEF PathTypeOK, Request
  <2>3. Moves(r, "post")
    <3> DEFINE n == req[r].tries + 1
    <3>1. n \in Nat /\ req' = [req EXCEPT ![r].tries = n]
      BY <2>1, <2>2
    <3>2. None \in Entry /\ "post" \in Places
      BY DEF None, Entry, Places
    <3> HIDE DEF n
    <3> QED  BY <2>1, <3>1, MoveTries
  <2>4. A2 = A /\ R2 = R /\ W2 = W /\ W \in Nat
    BY <2>1, <2>3, MoneyMoves DEF Under
  <2>5. PathTypeOK'
    BY <2>1, <2>3 DEF PathTypeOK, Moves
  <2>6. MeterInv'
    BY <2>1, <2>4, MeterStays
  <2>7. BooksInv'
    BY <2>1, <2>4, BooksStay
  <2> QED  BY <2>5, <2>6, <2>7
<1>5. CASE GiveUp(r)
  <2>1. /\ req[r].pc = "post" /\ req' = [req EXCEPT ![r].pc = "failed", ![r].tries = 0]
        /\ UNCHANGED <<cacheVars, moneyVars, sweep, count>>
    BY <1>5 DEF GiveUp, At
  <2>2. Moves(r, "failed")
    <3>1. None \in Entry /\ "failed" \in Places /\ 0 \in Nat
      BY DEF None, Entry, Places
    <3> QED  BY <2>1, <3>1, MoveTries
  <2>3. A2 = A /\ R2 = R /\ W2 = W /\ W \in Nat
    BY <2>1, <2>2, MoneyMoves DEF Under
  <2>4. PathTypeOK'
    BY <2>1, <2>2 DEF PathTypeOK, Moves
  <2>5. MeterInv'
    BY <2>1, <2>3, MeterStays
  <2>6. BooksInv'
    BY <2>1, <2>3, BooksStay
  <2> QED  BY <2>4, <2>5, <2>6
<1>6. CASE ReleaseFailed(r)
  <2>1. /\ req[r].pc = "failed" /\ CommitCost(r, 0) /\ req' = [req EXCEPT ![r] = Idle]
        /\ UNCHANGED <<cacheVars, calls, served, sweep>>
    BY <1>6 DEF ReleaseFailed, At, Return
  <2>2. Moves(r, "idle")
    BY <2>1, MoveTo
  <2>p. req[r].pc = "failed"
    BY <2>1
  <2>3. A2 = A /\ R2 = R /\ A \in Nat /\ R \in Nat
    BY <2>p, <2>2, MoneyMoves
  <2>4. /\ MeterInv' /\ BudgetStep
        /\ Committed(ledger'.lines) \in Nat /\ Committed(ledger'.lines) <= Ledger
        /\ ~lost' => Committed(ledger'.lines) = Ledger
    <3> DEFINE c == 0
    <3>1. c \in {0, CostOfReq(r)} /\ CommitCost(r, c) /\ req[r].pc \in Under /\ "idle" \in {"idle", "record"}
      BY <2>1 DEF Under
    <3>2. /\ MeterInv' /\ BudgetStep
          /\ Committed(ledger'.lines) \in Nat
          /\ Committed(ledger'.lines) <= Committed(ledger.lines) + c
          /\ ~lost' => Committed(ledger'.lines) = Committed(ledger.lines) + c
      <4> HIDE DEF c
      <4> QED  BY <2>2, <3>1, CommitKeeps
    <3> QED  BY <1>0, <3>2
  <2>5. PathTypeOK'
    BY <2>1, <2>2, <2>4 DEF PathTypeOK, Moves, BudgetStep
  <2>6. BooksInv'
    BY <1>0, <2>1, <2>3, <2>4, MeterFacts DEF BooksInv, BudgetStep
  <2> QED  BY <2>4, <2>5, <2>6
<1>7. CASE CommitAnswered(r)
  <2>1. /\ req[r].pc = "answered" /\ CommitCost(r, C) /\ req' = [req EXCEPT ![r].pc = "record"]
        /\ UNCHANGED <<cacheVars, calls, served, sweep>>
    BY <1>7 DEF CommitAnswered, At, Goto
  <2>2. Moves(r, "record")
    BY <2>1, MoveTo DEF Places
  <2>3. A = A2 + C /\ R2 = R + C /\ A \in Nat /\ A2 \in Nat /\ R \in Nat /\ C \in Nat
    BY <2>1, <2>2, MoneyMoves
  <2> DEFINE Ledger2 == Committed(ledger'.lines)
  <2>4. /\ MeterInv' /\ BudgetStep
        /\ Ledger2 \in Nat /\ Ledger2 <= Ledger + C
        /\ ~lost' => Ledger2 = Ledger + C
    <3>1. C \in {0, CostOfReq(r)} /\ req[r].pc \in Under
      BY <2>1 DEF Under
    <3> HIDE DEF C
    <3> QED  BY <2>1, <2>2, <3>1, CommitKeeps
  <2>5. PathTypeOK'
    BY <2>1, <2>2, <2>4 DEF PathTypeOK, Moves, BudgetStep
  <2>6. /\ Ledger + A <= served /\ Total + R + A <= served /\ served \in Nat
        /\ ~lost => calls.end = "newline" /\ Total + R <= Ledger
        /\ ~lost /\ count.restarts = 0 => Ledger + A = served /\ Total + R = Ledger
    BY MeterFacts DEF BooksInv
  <2> HIDE DEF A, A2, R, R2, C, Ledger, Ledger2, Total
  <2>7. /\ Ledger2 + A2 <= served /\ Total + R2 + A2 <= served
        /\ ~lost' => calls.end = "newline" /\ Total + R2 <= Ledger2
        /\ ~lost' /\ count.restarts = 0 => Ledger2 + A2 = served /\ Total + R2 = Ledger2
    <3>1. Ledger2 + A2 <= Ledger + A /\ Total + R2 + A2 = Total + R + A
      BY <1>0, <2>3, <2>4
    <3>2. ~lost' => ~lost /\ Ledger2 = Ledger + C
      BY <2>4 DEF BudgetStep
    <3>3. Total + R2 = (Total + R) + C /\ (~lost' => Ledger2 + A2 = Ledger + A)
      BY <1>0, <2>3, <3>2
    <3>4. Ledger2 + A2 <= served /\ Total + R2 + A2 <= served
      BY <1>0, <2>3, <2>4, <2>6, <3>1
    <3>5. ~lost' => calls.end = "newline" /\ Total + R2 <= Ledger2
      BY <1>0, <2>3, <2>4, <2>6, <3>2, <3>3
    <3>6. ~lost' /\ count.restarts = 0 => Ledger2 + A2 = served /\ Total + R2 = Ledger2
      BY <2>6, <3>2, <3>3
    <3> QED  BY <3>4, <3>5, <3>6
  <2>8. /\ \A i \in DOMAIN calls.lines : calls.lines[i].day >= 1
        /\ count'.restarts = count.restarts
    BY <2>4 DEF BooksInv, BudgetStep
  <2>9. BooksInv'
    BY <2>1, <2>7, <2>8 DEF BooksInv, A2, R2, Ledger2, Total
  <2> QED  BY <2>4, <2>5, <2>9
<1>8. CASE RecordCall(r)
  <2> DEFINE line == [usd |-> C, day |-> today]
  <2>1. /\ req[r].pc = "record" /\ req' = [req EXCEPT ![r].pc = "stat"]
        /\ \/ calls' = Appended(calls, line) /\ lost' = lost /\ count' = count
           \/ calls' \in CutShort(calls, line) /\ lost' = TRUE /\ Event
        /\ UNCHANGED <<cacheVars, meter, ledger, today, served, carried, unseen, sweep>>
    BY <1>8 DEF RecordCall, At, Goto
  <2>2. Moves(r, "stat")
    BY <2>1, MoveTo DEF Places
  <2>p. req[r].pc = "record"
    BY <2>1
  <2>3. /\ A2 = A /\ R = R2 + C /\ W2 = W
        /\ W \in Nat /\ R2 \in Nat /\ C \in Nat /\ A \in Nat /\ R \in Nat
    BY <2>p, <2>2, MoneyMoves DEF Under
  <2>4. /\ calls \in Books(CallLine) /\ today \in Nat \ {0}
        /\ \A i \in DOMAIN calls.lines : calls.lines[i].day >= 1
    BY DEF PathTypeOK, BooksInv
  <2>5. line \in CallLine /\ line.day >= 1 /\ line.usd = C
    BY <2>3, <2>4 DEF CallLine
  <2>c. /\ count' \in Counters /\ count'.restarts = count.restarts
        /\ lost' \in BOOLEAN /\ (lost => lost')
    BY <2>1, EventType DEF PathTypeOK
  <2> HIDE DEF line, C
  <2>6. /\ calls' \in Books(CallLine) /\ Written(calls', calls, line)
        /\ calls' = Appended(calls, line) /\ calls.end = "newline" =>
             calls'.lines = Append(calls.lines, line) /\ calls'.end = "newline"
    BY <2>1, <2>4, <2>5, BookShapes
  <2>7. ~lost' => ~lost /\ calls'.lines = Append(calls.lines, line) /\ calls'.end = "newline"
    BY <2>1, <2>6 DEF BooksInv
  <2>8. \A i \in DOMAIN calls'.lines : calls'.lines[i].day >= 1
    BY <2>4, <2>5, <2>6, WrittenDays
  <2> DEFINE Total2 == SummaryTotal(calls'.lines, 1)
  <2>9. Total2 \in Nat /\ Total2 <= Total + C /\ (~lost' => Total2 = Total + C)
    BY <2>4, <2>5, <2>6, <2>7, SummaryWritten
  <2>10. PathTypeOK'
    BY <2>1, <2>2, <2>6, <2>c DEF PathTypeOK, Moves
  <2>11. MeterInv'
    BY <2>1, <2>3, <2>c, MeterStays
  <2>12. /\ Total + R + A <= served /\ served \in Nat
         /\ ~lost => Total + R <= Ledger
         /\ ~lost /\ count.restarts = 0 => Ledger + A = served /\ Total + R = Ledger
    BY MeterFacts DEF BooksInv
  <2>13. Ledger + A <= served
    BY DEF BooksInv
  <2>14. /\ Total2 + R2 + A <= served
         /\ ~lost' => Total2 + R2 <= Ledger
         /\ ~lost' /\ count.restarts = 0 => Ledger + A = served /\ Total2 + R2 = Ledger
    <3> HIDE DEF A, R, R2, Ledger, Total, Total2
    <3>1. Total2 + R2 <= Total + R /\ (~lost' => Total2 + R2 = Total + R)
      BY <1>0, <2>3, <2>9
    <3>2. Total2 + R2 + A <= served
      BY <1>0, <2>3, <2>9, <2>12, <3>1
    <3> QED  BY <2>7, <2>12, <3>1, <3>2
  <2> HIDE DEF Total2
  <2>15. BooksInv'
    BY <2>1, <2>3, <2>7, <2>8, <2>13, <2>14, <2>c DEF BooksInv, Total2
  <2> QED  BY <2>10, <2>11, <2>15
<1>9. ASSUME NEW k \in Keys, Call(r, k)  PROVE PathTypeOK' /\ MeterInv' /\ BooksInv'
  <2>0. count \in Counters
    BY DEF PathTypeOK
  <2>1. /\ req[r].pc = "idle" /\ count' = [count EXCEPT !.calls = @ + 1]
        /\ UNCHANGED <<cacheVars, moneyVars, sweep>>
        /\ Moves(r, "lookup") /\ req' \in [Requests -> Request]
    BY <1>9, MoveCall
  <2>3. Moves(r, "lookup")
    BY <2>1
  <2>4. A2 = A /\ R2 = R /\ W2 = W /\ W \in Nat
    <3>1. req[r].pc = "idle"
      BY <2>1
    <3> QED  BY <3>1, <2>3, MoneyMoves DEF Under
  <2>5. count' \in Counters /\ count'.restarts = count.restarts
    BY <2>0, <2>1 DEF Counters
  <2>6. PathTypeOK'
    BY <2>1, <2>3, <2>5 DEF PathTypeOK, Moves
  <2>7. MeterInv'
    BY <2>1, <2>4, MeterStays
  <2>8. BooksInv'
    BY <2>1, <2>4, <2>5, BooksStay
  <2> QED  BY <2>6, <2>7, <2>8
<1> QED  BY <1>1, <1>2, <1>3, <1>4, <1>5, <1>6, <1>7, <1>8, <1>9 DEF Step, CacheStep

\* What goes on beside the requests.
Beside ==
  \/ StartClear \/ ListFiles \/ RemoveFile
  \/ StatSource \/ InvalidateByMtime \/ (\E k \in Keys : UnlinkInvalid(k)) \/ EditSource

\* The sweeps and the source file leave the money and the requests alone.
LEMMA BesideIs ==
  ASSUME PathTypeOK, Beside
  PROVE  /\ UNCHANGED <<moneyVars, req>>
         /\ count' \in Counters /\ count'.restarts = count.restarts
         /\ disk' \in [Keys -> Entry] /\ mtime' \in Nat /\ unlinks' \in [Keys -> Nat]
         /\ orphans' \in SUBSET Requests /\ sweep' \in SweepState
<1> USE DEF cacheVars
<1>0. /\ disk \in [Keys -> Entry] /\ mtime \in Nat /\ unlinks \in [Keys -> Nat]
      /\ sweep \in SweepState /\ count \in Counters /\ None \in Entry
      /\ sweep.pc \in {"idle", "list", "remove", "invalidate"} /\ sweep.seen \in Nat
      /\ sweep.todo \in SUBSET Keys /\ orphans \in SUBSET Requests
  BY DEF PathTypeOK, None, Entry, SweepState
<1>1. ASSUME NEW pc \in {"list", "invalidate"}, StartSweep(pc)
      PROVE  /\ count' \in Counters /\ count'.restarts = count.restarts /\ sweep' \in SweepState
  <2>1. Event /\ sweep' = [NoSweep EXCEPT !.pc = pc, !.seen = mtime]
    BY <1>1 DEF StartSweep
  <2>2. sweep' = [pc |-> pc, seen |-> mtime, todo |-> {}]
    BY <2>1 DEF NoSweep
  <2> QED  BY <1>0, <2>1, <2>2, EventType DEF SweepState
<1>2. CASE StartClear
  <2>1. StartSweep("list") /\ UNCHANGED <<disk, mtime, unlinks, orphans, moneyVars, req>>
    BY <1>2 DEF StartClear
  <2> QED  BY <1>0, <1>1, <2>1
<1>3. CASE ListFiles
  <2> DEFINE found == {k \in Keys : disk[k] # None}
  <2>1. sweep' = [sweep EXCEPT !.pc = "remove", !.todo = found]
        /\ UNCHANGED <<disk, mtime, unlinks, orphans, moneyVars, req, count>>
    BY <1>3 DEF ListFiles
  <2>2. found \in SUBSET Keys
    OBVIOUS
  <2> HIDE DEF found
  <2>3. sweep' \in SweepState
    BY <1>0, <2>1, <2>2 DEF SweepState
  <2> QED  BY <1>0, <2>1, <2>3
<1>4. CASE RemoveFile
  <2>1. UNCHANGED <<mtime, unlinks, moneyVars, req, count>>
    BY <1>4 DEF RemoveFile
  <2>2. disk' \in [Keys -> Entry] /\ orphans' \in SUBSET Requests /\ sweep' \in SweepState
    <3>1. CASE sweep' = NoSweep /\ UNCHANGED <<disk, orphans>>
      BY <1>0, <3>1 DEF NoSweep, SweepState
    <3>2. ASSUME NEW k \in sweep.todo, Unlink(k),
                 sweep' = [sweep EXCEPT !.todo = @ \ {k}]
          PROVE  disk' \in [Keys -> Entry] /\ orphans' \in SUBSET Requests /\ sweep' \in SweepState
      <4>1. disk' \in [Keys -> Entry] /\ orphans' \in SUBSET Requests
        <5>1. k \in Keys
          BY <1>0
        <5> QED  BY <3>2, <5>1, UnlinkType
      <4>2. sweep' \in SweepState
        BY <1>0, <3>2 DEF SweepState
      <4> QED  BY <4>1, <4>2
    <3> QED  BY <1>4, <3>1, <3>2 DEF RemoveFile
  <2> QED  BY <1>0, <2>1, <2>2
<1>5. CASE StatSource
  <2>1. StartSweep("invalidate") /\ UNCHANGED <<disk, mtime, unlinks, orphans, moneyVars, req>>
    BY <1>5 DEF StatSource
  <2> QED  BY <1>0, <1>1, <2>1
<1>6. CASE InvalidateByMtime
  <2> DEFINE stale == Stale(mem, sweep.seen)
  <2>1. /\ unlinks' = [k \in Keys |-> unlinks[k] + IF k \in stale THEN 1 ELSE 0]
        /\ sweep' = NoSweep /\ UNCHANGED <<disk, mtime, orphans, moneyVars, req, count>>
    BY <1>6 DEF InvalidateByMtime
  <2> HIDE DEF stale
  <2>2. unlinks' \in [Keys -> Nat]
    BY <1>0, <2>1
  <2>3. sweep' \in SweepState
    BY <2>1 DEF NoSweep, SweepState
  <2> QED  BY <1>0, <2>1, <2>2, <2>3
<1>7. ASSUME NEW k \in Keys, UnlinkInvalid(k)
      PROVE  /\ UNCHANGED <<mtime, moneyVars, req, sweep, count>>
             /\ disk' \in [Keys -> Entry] /\ unlinks' \in [Keys -> Nat]
             /\ orphans' \in SUBSET Requests
  <2>1. /\ unlinks[k] > 0 /\ unlinks' = [unlinks EXCEPT ![k] = @ - 1]
        /\ Unlink(k)
        /\ UNCHANGED <<mtime, moneyVars, req, sweep, count>>
    BY <1>7 DEF UnlinkInvalid
  <2>2. unlinks[k] \in Nat /\ unlinks[k] - 1 \in Nat
    BY <1>0, <2>1
  <2> QED  BY <1>0, <2>1, <2>2, UnlinkType
<1>8. CASE EditSource
  <2>1. Event /\ mtime' \in {0, count.events + 2}
        /\ UNCHANGED <<disk, unlinks, orphans, moneyVars, req, sweep>>
    BY <1>8 DEF EditSource
  <2>2. count.events + 2 \in Nat
    BY <1>0 DEF Counters
  <2> QED  BY <1>0, <2>1, <2>2, EventType
<1> QED  BY <1>0, <1>2, <1>3, <1>4, <1>5, <1>6, <1>7, <1>8 DEF Beside

\* They keep the meter and the books.
LEMMA BesideKeeps ==
  ASSUME PathTypeOK, MeterInv, BooksInv, Beside, raced' \in SUBSET Keys
  PROVE  PathTypeOK' /\ MeterInv' /\ BooksInv'
<1>1. /\ UNCHANGED <<moneyVars, req>>
      /\ count' \in Counters /\ count'.restarts = count.restarts
      /\ disk' \in [Keys -> Entry] /\ mtime' \in Nat /\ unlinks' \in [Keys -> Nat]
      /\ orphans' \in SUBSET Requests /\ sweep' \in SweepState
  BY BesideIs
<1>2. UNCHANGED <<meter, ledger, calls, today, served, carried, unseen, lost, req>>
  BY <1>1 DEF moneyVars
<1>3. PathTypeOK'
  BY <1>1, <1>2 DEF PathTypeOK
<1>4. MeterInv' /\ BooksInv'
  BY <1>1, <1>2 DEF MeterInv, BooksInv, Follows
<1> QED  BY <1>3, <1>4

\* On a later day the ledger has no line, and nothing is replayed.
LEMMA LaterReplay ==
  ASSUME PathTypeOK, Follows, NEW d \in Nat, today < d, NEW lines \in Seq(LedgerLine),
         lines = ledger.lines
  PROVE  Replay(lines, d) = NewMeter(d)
<1>1. \A i \in DOMAIN lines : lines[i].day # d
  <2> TAKE i \in DOMAIN lines
  <2>1. lines[i] \in LedgerLine
    BY LenProperties
  <2>2. lines[i].day \in Nat /\ lines[i].day <= today /\ today \in Nat
    BY <2>1 DEF LedgerLine, Follows, PathTypeOK
  <2> QED  BY <2>2
<1> QED  BY <1>1, ReplayDay

\* At midnight the ledger has no line of the new day, and the meter is of an
\* earlier one.
LEMMA MidnightKeeps ==
  ASSUME PathTypeOK, MeterInv, BooksInv, Midnight, raced' \in SUBSET Keys
  PROVE  PathTypeOK' /\ MeterInv' /\ BooksInv'
<1>1. /\ Event /\ today' = today + 1 /\ unseen' = 0
      /\ UNCHANGED <<disk, mtime, unlinks, orphans, meter, ledger, calls, served, carried, lost, req, sweep>>
  BY DEF Midnight, cacheVars
<1>2. count' \in Counters /\ count'.restarts = count.restarts
  BY <1>1, EventType DEF PathTypeOK
<1>3. today \in Nat /\ today' \in Nat \ {0} /\ today' \in Nat /\ today < today'
  BY <1>1 DEF PathTypeOK
<1>4. PathTypeOK'
  BY <1>1, <1>2, <1>3 DEF PathTypeOK
<1>5. meter.day < today' /\ meter.day # today' /\ meter.day \in Nat
  BY <1>1, MeterFacts DEF MeterInv
<1>6. \A i \in DOMAIN ledger.lines : ledger.lines[i].day <= today'
  <2> TAKE i \in DOMAIN ledger.lines
  <2>1. ledger.lines[i] \in LedgerLine
    BY LenProperties DEF PathTypeOK, Books
  <2>2. ledger.lines[i].day \in Nat /\ ledger.lines[i].day <= today
    BY <2>1 DEF LedgerLine, MeterInv, Follows
  <2> QED  BY <1>1, <1>3, <2>2
<1>7. Replay(ledger.lines, today') = NewMeter(today')
  <2>1. ledger.lines \in Seq(LedgerLine) /\ Follows
    BY DEF PathTypeOK, Books, MeterInv
  <2> QED  BY <1>3, <2>1, LaterReplay
<1>8. RollOver(meter, today') = NewMeter(today')
  BY <1>5 DEF RollOver
<1>9. Below(NewMeter(today'), NewMeter(today'), 0)
  BY DEF Below, NewMeter
<1>10. meter'.day <= today' /\ meter'.day # today'
  BY <1>1, <1>3, <1>5
<1>11. Follows'
  BY <1>1, <1>6, <1>7, <1>8, <1>9 DEF MeterInv, Follows
<1>12. MeterInv'
  BY <1>1, <1>10, <1>11 DEF MeterInv
<1>13. BooksInv'
  BY <1>1, <1>2 DEF BooksInv
<1> QED  BY <1>4, <1>12, <1>13

\* The meter of a new process is the one of the old one and what that had not
\* seen, or less, if the ledger cannot be read to its end; it is a new one if
\* the day has changed. No call is under way, and what those of the old process
\* had not committed stays out of the books.
LEMMA RestartKeeps ==
  ASSUME PathTypeOK, MeterInv, BooksInv, Restart, raced' \in SUBSET Keys
  PROVE  PathTypeOK' /\ MeterInv' /\ BooksInv'
<1> DEFINE lines == ledger.lines
           all == Replay(lines, today')
           Start(n) == Replay(SubSeq(lines, 1, n), today')
           K == unseen + IF meter.day = today THEN carried ELSE 0
<1>1. /\ count' = [count EXCEPT !.events = @ + 1, !.restarts = @ + 1]
      /\ req' = [r \in Requests |-> Idle] /\ sweep' = NoSweep
      /\ unlinks' = [k \in Keys |-> 0] /\ orphans' = {}
      /\ today' \in {today, today + 1}
      /\ \/ meter' = [all EXCEPT !.day = today] /\ unseen' = 0
         \/ /\ unseen' = all.spent + all.reserved
            /\ \E n \in 0..Len(lines) : meter' = [Start(n) EXCEPT !.day = today]
      /\ carried' = K
      /\ UNCHANGED <<disk, mtime, ledger, calls, served, lost>>
  BY DEF Restart
<1>2. count' \in Counters /\ count'.restarts # 0
  <2>1. count \in Counters
    BY DEF PathTypeOK
  <2>2. count.events \in Nat /\ count.restarts \in Nat /\ count.calls \in Nat /\ count.answers \in Nat
    BY <2>1 DEF Counters
  <2>3. count' = [calls |-> count.calls, answers |-> count.answers,
                  events |-> count.events + 1, restarts |-> count.restarts + 1]
    BY <1>1, <2>1 DEF Counters
  <2> QED  BY <2>2, <2>3 DEF Counters
<1>3. /\ lines \in Seq(LedgerLine) /\ today \in Nat /\ today' \in Nat /\ today' \in Nat \ {0}
      /\ today <= today' /\ (today' # today => today < today') /\ ledger' = ledger
  BY <1>1 DEF PathTypeOK, Books
<1>4. all \in Meter /\ all.day = today' /\ all.spent \in Nat /\ all.reserved \in Nat
  <2>1. all \in Meter /\ all.day = today'
    BY <1>3, ReplayDay
  <2> QED  BY <2>1 DEF Meter
<1>5. /\ all.spent + all.reserved <= Limit + K /\ K \in Nat
  <2>1. CASE today' = today
    <3> DEFINE M == RollOver(meter, today)
    <3>1. Below(all, M, unseen)
      BY <2>1 DEF MeterInv, Follows
    <3>2. M.spent \in Nat /\ M.reserved \in Nat
          /\ M.spent + M.reserved <= Limit + (IF meter.day = today THEN carried ELSE 0)
      BY MeterFacts DEF MeterInv, RollOver, NewMeter
    <3> HIDE DEF M, all
    <3>3. all.spent + all.reserved <= M.spent + M.reserved + unseen
      BY <3>1 DEF Below
    <3> QED  BY <1>4, <3>2, <3>3, MeterFacts
  <2>2. CASE today' # today
    <3>1. all = NewMeter(today')
      BY <1>3, <2>2, LaterReplay DEF MeterInv
    <3> QED  BY <3>1, MeterFacts DEF NewMeter
  <2> QED  BY <2>1, <2>2
<1>6. /\ meter' \in Meter /\ meter'.day = today
      /\ meter'.spent \in Nat /\ meter'.reserved \in Nat /\ unseen' \in Nat
      /\ meter'.spent <= all.spent
      /\ meter'.spent + meter'.reserved <= all.spent + all.reserved
      /\ all.spent <= meter'.spent + unseen'
      /\ all.spent + all.reserved <= meter'.spent + meter'.reserved + unseen'
  <2>1. CASE meter' = [all EXCEPT !.day = today] /\ unseen' = 0
    <3>1. meter' = [spent |-> all.spent, reserved |-> all.reserved, day |-> today]
      BY <1>4, <2>1 DEF Meter
    <3> HIDE DEF all
    <3> QED  BY <1>3, <1>4, <2>1, <3>1 DEF Meter
  <2>2. ASSUME NEW n \in 0..Len(lines), meter' = [Start(n) EXCEPT !.day = today],
               unseen' = all.spent + all.reserved
        PROVE  /\ meter' \in Meter /\ meter'.day = today
               /\ meter'.spent \in Nat /\ meter'.reserved \in Nat /\ unseen' \in Nat
               /\ meter'.spent <= all.spent
               /\ meter'.spent + meter'.reserved <= all.spent + all.reserved
               /\ all.spent <= meter'.spent + unseen'
               /\ all.spent + all.reserved <= meter'.spent + meter'.reserved + unseen'
    <3> DEFINE x == Start(n)
    <3>1. x \in Meter /\ Below(x, all, 0)
      <4>1. /\ SubSeq(lines, 1, n) \in Seq(LedgerLine)
            /\ Below(Start(n), all, 0)
        BY <1>3, ReplayPrefix
      <4> QED  BY <1>3, <4>1, ReplayDay
    <3>2. /\ meter' = [spent |-> x.spent, reserved |-> x.reserved, day |-> today]
          /\ x.spent \in Nat /\ x.reserved \in Nat
      BY <2>2, <3>1 DEF Meter
    <3>3. /\ x.spent <= all.spent
          /\ x.spent + x.reserved <= all.spent + all.reserved
      BY <1>4, <3>1, <3>2 DEF Below
    <3> HIDE DEF x, all
    <3>4. meter' \in Meter /\ meter'.day = today /\ meter'.spent = x.spent /\ meter'.reserved = x.reserved
      BY <1>3, <3>2 DEF Meter
    <3> QED  BY <1>4, <2>2, <3>2, <3>3, <3>4
  <2> QED  BY <1>1, <2>1, <2>2
<1>7. PathTypeOK'
  <2>1. /\ req' \in [Requests -> Request] /\ sweep' \in SweepState /\ unlinks' \in [Keys -> Nat]
        /\ orphans' \in SUBSET Requests
    BY <1>1, IdleType DEF NoSweep, SweepState
  <2>2. carried' \in Nat
    BY <1>1, <1>5
  <2> QED  BY <1>1, <1>2, <1>3, <1>6, <2>1, <2>2 DEF PathTypeOK
<1>8. CostAt(req', Under) = 0 /\ CostAt(req', {"answered"}) = 0 /\ CostAt(req', {"record"}) = 0
  BY <1>1, IdleCosts DEF Under
<1>9. Follows'
  <2>1. \A i \in DOMAIN ledger.lines : ledger.lines[i].day <= today'
    <3> TAKE i \in DOMAIN ledger.lines
    <3>1. ledger.lines[i] \in LedgerLine
      BY <1>3, LenProperties
    <3>2. ledger.lines[i].day \in Nat /\ ledger.lines[i].day <= today
      BY <3>1 DEF LedgerLine, MeterInv, Follows
    <3> QED  BY <1>3, <3>2
  <2>2. ~lost => ledger.end = "newline"
    BY DEF MeterInv, Follows
  <2> DEFINE M == RollOver(meter', today')
  <2>3. Below(all, M, unseen') /\ (unseen' = 0 => all = M)
    <3>1. CASE today' = today
      <4>1. M = meter' /\ meter'.day = today'
        BY <1>6, <3>1 DEF RollOver
      <4>2. unseen' = 0 => all.spent = meter'.spent /\ all.reserved = meter'.reserved
        <5> HIDE DEF all
        <5> QED  BY <1>4, <1>6
      <4>3. /\ all = [spent |-> all.spent, reserved |-> all.reserved, day |-> all.day]
            /\ meter' = [spent |-> meter'.spent, reserved |-> meter'.reserved, day |-> meter'.day]
        BY <1>4, <1>6 DEF Meter
      <4> HIDE DEF all, M
      <4> QED  BY <1>4, <1>6, <4>1, <4>2, <4>3 DEF Below
    <3>2. CASE today' # today
      <4>1. all = NewMeter(today')
        BY <1>3, <3>2, LaterReplay DEF MeterInv
      <4>2. M = NewMeter(today')
        BY <1>6, <3>2 DEF RollOver
      <4>3. Below(NewMeter(today'), NewMeter(today'), unseen')
        <5> DEFINE n == NewMeter(today')
        <5>1. unseen' \in Nat /\ n.spent = 0 /\ n.reserved = 0
          BY <1>6 DEF NewMeter
        <5> HIDE DEF all, M, n
        <5>2. Below(n, n, unseen')
          BY <5>1, BelowNew
        <5> QED  BY <5>2 DEF n
      <4> QED  BY <4>1, <4>2, <4>3
    <3> QED  BY <3>1, <3>2
  <2> QED  BY <1>1, <2>1, <2>2, <2>3 DEF Follows
<1>10. MeterInv'
  <2> HIDE DEF all, K
  <2>1. meter'.day <= today'
    BY <1>3, <1>6
  <2>2. meter'.spent + meter'.reserved <= Limit + carried'
    BY <1>1, <1>4, <1>5, <1>6, LimitAssumption
  <2>3. /\ meter'.spent + CostAt(req', Under) <= Limit + carried'
        /\ CostAt(req', Under) <= meter'.reserved + carried'
    BY <1>1, <1>5, <1>6, <1>8, <2>2, LimitAssumption
  <2> QED  BY <1>9, <2>1, <2>2, <2>3 DEF MeterInv
<1>11. BooksInv'
  <2> DEFINE A == CostAt(req, {"answered"})
             Q == CostAt(req, {"record"})
             Ledger == Committed(ledger.lines)
             Total == SummaryTotal(calls.lines, 1)
  <2>1. A \in Nat /\ Q \in Nat
    BY CostAtType DEF PathTypeOK
  <2>2. Ledger \in Nat /\ Total \in Nat /\ served \in Nat
    BY BooksAreNumbers, MeterFacts
  <2>3. /\ Ledger + A <= served /\ Total + Q + A <= served
        /\ ~lost => calls.end = "newline" /\ Total + Q <= Ledger
        /\ \A i \in DOMAIN calls.lines : calls.lines[i].day >= 1
    BY DEF BooksInv
  <2> HIDE DEF A, Q, Ledger, Total
  <2>4. /\ Ledger + 0 <= served /\ Total + 0 + 0 <= served
        /\ ~lost => calls.end = "newline" /\ Total + 0 <= Ledger
    BY <2>1, <2>2, <2>3
  <2> QED  BY <1>1, <1>2, <1>8, <2>3, <2>4 DEF BooksInv, Ledger, Total
<1> QED  BY <1>7, <1>10, <1>11

\* The invariant of the whole but for the cache.
PathInv == PathTypeOK /\ MeterInv /\ BooksInv

\* Every step keeps the types, the meter and the books.
LEMMA PathStep ==
  PathInv /\ [Next]_vars => PathInv'
<1> SUFFICES ASSUME PathInv, [Next]_vars  PROVE PathInv'
  OBVIOUS
<1> USE DEF PathInv
<1>1. CASE UNCHANGED vars
  BY <1>1 DEF vars, cacheVars, moneyVars, PathTypeOK, MeterInv, BooksInv, Follows
<1>2. CASE Next
  <2>1. raced' \in SUBSET Keys
    BY <1>2 DEF Next, Overlap, Unsaved, Afresh, PathTypeOK
  <2>2. Anything
    BY <1>2 DEF Next
  <2>3. ASSUME NEW r \in Requests, Step(r) \/ (\E k \in Keys : Call(r, k))  PROVE PathInv'
    BY <2>1, <2>3, RequestKeeps
  <2>4. CASE Beside
    BY <2>1, <2>4, BesideKeeps
  <2>5. CASE Midnight
    BY <2>1, <2>5, MidnightKeeps
  <2>6. CASE Restart
    BY <2>1, <2>6, RestartKeeps
  <2> QED  BY <2>2, <2>3, <2>4, <2>5, <2>6 DEF Anything, Beside
<1> QED  BY <1>1, <1>2

\* The types, the meter and the books hold in every reachable state.
THEOREM PathInvHolds == Spec => []PathInv
<1>1. Init => PathInv
  BY PathInit DEF PathInv
<1> QED  BY <1>1, PathStep, PTL DEF Spec

\* WithinLimit: concurrent requests, failures that settle for nothing, midnights
\* also between the two clock readings of a call, lost lines and restarts never
\* take a day's meter past the limit by more than what was not checked on that
\* day (CheckAndReserve, Commit, checkDailyReset, appendLedger, replayLedger).
THEOREM WithinLimitHolds == Spec => []WithinLimit
<1>1. PathInv => WithinLimit
  <2> SUFFICES ASSUME PathInv  PROVE WithinLimit
    OBVIOUS
  <2>1. meter.spent + meter.reserved <= Limit + carried
    BY DEF PathInv, MeterInv
  <2>2. meter.day = today /\ carried = 0 => CostAt(req, Under) <= meter.reserved
    BY MeterFacts DEF PathInv, MeterInv
  <2>3. CostAt(req, Under) \in Nat
    BY CostAtType DEF PathInv, PathTypeOK
  <2>4. Cost(Waiting) = CostAt(req, Under) /\ meter.reserved \in Nat
    BY CostIsCostAt, MeterFacts DEF PathInv
  <2>5. meter.day = today /\ carried = 0 => meter.reserved >= Cost(Waiting)
    BY <2>2, <2>3, <2>4
  <2> QED  BY <2>1, <2>5 DEF WithinLimit
<1> QED  BY <1>1, PathInvHolds, PTL

\* BooksAgree: each answer is charged once and recorded once; lines that fail to
\* be written, short ones, those they spoil and a crash only ever leave something
\* out; and the ledger gives a new process the meter of this one, or no more than
\* that and what is unseen (postJSONWithMiddleware, appendLedger, Record,
\* replayLedger).
THEOREM BooksAgreeHolds == Spec => []BooksAgree
<1>1. PathInv => BooksAgree
  <2> SUFFICES ASSUME PathInv  PROVE BooksAgree
    OBVIOUS
  <2>1. /\ Cost({r \in Requests : At(r, "answered")}) = CostAt(req, {"answered"})
        /\ Cost({r \in Requests : At(r, "record")}) = CostAt(req, {"record"})
    BY CostIsCostAt
  <2> DEFINE A == CostAt(req, {"answered"})
             Q == CostAt(req, {"record"})
             Ledger == Committed(ledger.lines)
             Total == SummaryTotal(calls.lines, 1)
  <2>2. /\ A \in Nat /\ Q \in Nat /\ Ledger \in Nat /\ Total \in Nat /\ served \in Nat
    BY CostAtType, BooksAreNumbers, MeterFacts DEF PathInv, PathTypeOK
  <2>3. /\ Ledger + A <= served /\ Total + Q + A <= served
        /\ ~lost => Total + Q <= Ledger
        /\ ~lost /\ count.restarts = 0 => Ledger + A = served /\ Total + Q = Ledger
    BY DEF PathInv, BooksInv
  <2>4. /\ ~lost /\ unseen = 0 => Replay(ledger.lines, today) = RollOver(meter, today)
        /\ Below(Replay(ledger.lines, today), RollOver(meter, today), unseen)
    BY DEF PathInv, MeterInv, Follows
  <2>5. Total + Q <= served
    <3> HIDE DEF A, Q, Ledger, Total
    <3> QED  BY <2>2, <2>3
  <2> QED  BY <2>1, <2>3, <2>4, <2>5 DEF BooksAgree, Below
<1> QED  BY <1>1, PathInvHolds, PTL

-----------------------------------------------------------------------------
\* The memory of the cache.
Node == [id : Nat, key : Keys, e : Entry]

\* Ids are unique, and every key points at a node that is its own.
Linked(m) ==
  /\ m = [nodes |-> m.nodes, lru |-> m.lru]
  /\ m.nodes \in Seq(Node) /\ DOMAIN m.lru \subseteq Keys
  /\ m.lru = [x \in DOMAIN m.lru |-> m.lru[x]]
  /\ \A i, j \in DOMAIN m.nodes : m.nodes[i].id = m.nodes[j].id => i = j
  /\ \A k \in DOMAIN m.lru : \E i \in DOMAIN m.nodes : m.nodes[i].id = m.lru[k] /\ m.nodes[i].key = k

\* The entry that memory has for k.
Payload(m, k) == NodeOf(m, k).e

\* The node of a key is the only one with the id the key is mapped to.
LEMMA NodeOfIs ==
  ASSUME NEW m, Linked(m), NEW k \in DOMAIN m.lru
  PROVE  /\ NodeOf(m, k) \in Node /\ NodeOf(m, k).id = m.lru[k] /\ NodeOf(m, k).key = k
         /\ m.lru[k] \in Nat /\ k \in Keys /\ Payload(m, k) \in Entry
         /\ \E i \in DOMAIN m.nodes : m.nodes[i] = NodeOf(m, k)
         /\ \A i \in DOMAIN m.nodes : m.nodes[i].id = m.lru[k] => m.nodes[i] = NodeOf(m, k)
<1>1. PICK i \in DOMAIN m.nodes : m.nodes[i].id = m.lru[k] /\ m.nodes[i].key = k
  BY DEF Linked
<1>2. NodeOf(m, k) \in Range(m.nodes) /\ NodeOf(m, k).id = m.lru[k]
  BY <1>1 DEF NodeOf, Range
<1>3. PICK j \in DOMAIN m.nodes : m.nodes[j] = NodeOf(m, k)
  BY <1>2 DEF Range
<1>4. i = j
  BY <1>1, <1>2, <1>3 DEF Linked
<1>5. m.nodes[i] \in Node
  BY LenProperties DEF Linked
<1>6. NodeOf(m, k) = m.nodes[i]
  BY <1>3, <1>4
<1>7. \A x \in DOMAIN m.nodes : m.nodes[x].id = m.lru[k] => x = i
  BY <1>1 DEF Linked
<1>8. m.lru[k] \in Nat /\ k \in Keys /\ m.nodes[i].e \in Entry
  BY <1>1, <1>5 DEF Node, Linked
<1> QED  BY <1>1, <1>5, <1>6, <1>7, <1>8 DEF Payload

\* One more node in front.
LEMMA Cons ==
  ASSUME NEW L \in Seq(Node), NEW n \in Node
  PROVE  /\ <<n>> \o L \in Seq(Node) /\ DOMAIN (<<n>> \o L) = 1..(Len(L) + 1)
         /\ (<<n>> \o L)[1] = n /\ \A i \in 1..Len(L) : (<<n>> \o L)[i + 1] = L[i]
         /\ \A j \in 1..(Len(L) + 1) : j # 1 => j - 1 \in 1..Len(L) /\ (<<n>> \o L)[j] = L[j - 1]
<1>1. <<n>> \in Seq(Node) /\ Len(<<n>>) = 1 /\ <<n>>[1] = n /\ Len(L) \in Nat
  BY LenProperties
<1>2. <<n>> \o L \in Seq(Node) /\ Len(<<n>> \o L) = Len(L) + 1
  BY <1>1, ConcatProperties
<1>3. \A i \in 1..(Len(L) + 1) : (<<n>> \o L)[i] = IF i <= 1 THEN <<n>>[i] ELSE L[i - 1]
  BY <1>1, ConcatProperties
<1>4. DOMAIN (<<n>> \o L) = 1..(Len(L) + 1)
  BY <1>2, LenProperties
<1>5. (<<n>> \o L)[1] = n
  BY <1>1, <1>3
<1>6. \A i \in 1..Len(L) : (<<n>> \o L)[i + 1] = L[i]
  BY <1>1, <1>3
<1>7. \A j \in 1..(Len(L) + 1) : j # 1 => j - 1 \in 1..Len(L) /\ (<<n>> \o L)[j] = L[j - 1]
  BY <1>1, <1>3
<1> QED  BY <1>2, <1>4, <1>5, <1>6, <1>7

\* No two nodes have an id in common.
UniqueIds(list) == \A i, j \in DOMAIN list : list[i].id = list[j].id => i = j

\* The nodes of list but the one at p, in their order.
IsWithout(L, list, p) ==
  /\ L \in Seq(Node) /\ Len(L) = Len(list) - 1 /\ UniqueIds(L)
  /\ \A j \in DOMAIN L : L[j].id # list[p].id
  /\ \A i \in DOMAIN list : i # p => \E j \in DOMAIN L : L[j] = list[i]

\* A list with unique ids, without the node of one of them.
LEMMA WithoutNodeIs ==
  ASSUME NEW list \in Seq(Node), NEW p \in DOMAIN list, NEW id, id = list[p].id, UniqueIds(list)
  PROVE  IsWithout(WithoutNode(list, id), list, p)
<1> DEFINE L == WithoutNode(list, id)
           n == Len(list)
           From(j) == IF j < p THEN j ELSE j + 1
<1>0. n \in Nat /\ DOMAIN list = 1..n /\ p \in 1..n /\ n - 1 \in Nat
      /\ \A i \in 1..n : list[i] \in Node
  BY LenProperties
<1>1. (CHOOSE i \in DOMAIN list : list[i].id = id) = p
  <2> DEFINE c == CHOOSE i \in DOMAIN list : list[i].id = id
  <2>1. c \in DOMAIN list /\ list[c].id = list[p].id
    OBVIOUS
  <2> HIDE DEF c
  <2>2. c = p
    BY <2>1 DEF UniqueIds
  <2> QED  BY <2>2 DEF c
<1>2. L = [i \in 1..(n - 1) |-> IF i < p THEN list[i] ELSE list[i + 1]]
  BY <1>1 DEF WithoutNode
<1>3. \A j \in 1..(n - 1) : From(j) \in 1..n /\ From(j) # p /\ L[j] = list[From(j)]
  BY <1>0, <1>2
<1>4. L \in Seq(Node) /\ Len(L) = n - 1 /\ DOMAIN L = 1..(n - 1)
  <2>1. \A j \in 1..(n - 1) : L[j] \in Node
    BY <1>0, <1>3
  <2>2. L \in [1..(n - 1) -> Node]
    BY <1>2, <2>1
  <2> DEFINE l == n - 1
  <2>3. l \in Nat /\ L \in [1..l -> Node]
    BY <1>0, <2>2
  <2> HIDE DEF L, l
  <2>4. L \in Seq(Node) /\ Len(L) = l /\ DOMAIN L = 1..l
    <3>1. L \in Seq(Node)
      BY <2>3, SeqDef
    <3>2. DOMAIN L = 1..l
      BY <2>3
    <3>3. Len(L) = l
      BY <2>3, <3>1, <3>2, LenProperties
    <3> QED  BY <3>1, <3>2, <3>3
  <2> QED  BY <2>4 DEF l
<1>5. \A i, j \in 1..(n - 1) : From(i) = From(j) => i = j
  BY <1>0
<1>6. \A i \in 1..n : i # p => \E j \in 1..(n - 1) : From(j) = i
  <2> TAKE i \in 1..n
  <2> HAVE i # p
  <2>1. CASE i < p
    <3>1. i \in 1..(n - 1) /\ From(i) = i
      BY <1>0, <2>1
    <3> QED  BY <3>1
  <2>2. CASE ~(i < p)
    <3>1. i - 1 \in 1..(n - 1) /\ From(i - 1) = i
      BY <1>0, <2>2
    <3> QED  BY <3>1
  <2> QED  BY <2>1, <2>2
<1> HIDE DEF L, From
<1>7. \A i, j \in DOMAIN L : L[i].id = L[j].id => i = j
  <2> TAKE i, j \in DOMAIN L
  <2> HAVE L[i].id = L[j].id
  <2>1. /\ L[i] = list[From(i)] /\ L[j] = list[From(j)]
        /\ From(i) \in DOMAIN list /\ From(j) \in DOMAIN list
    BY <1>0, <1>3, <1>4
  <2>2. From(i) = From(j)
    BY <2>1 DEF UniqueIds
  <2> QED  BY <1>4, <1>5, <2>2
<1>8. \A j \in DOMAIN L : L[j].id # id
  <2> TAKE j \in DOMAIN L
  <2>1. L[j] = list[From(j)] /\ From(j) \in DOMAIN list /\ From(j) # p
    BY <1>0, <1>3, <1>4
  <2>2. list[From(j)].id # list[p].id
    BY <2>1 DEF UniqueIds
  <2> QED  BY <2>1, <2>2
<1>9. \A i \in DOMAIN list : i # p => \E j \in DOMAIN L : L[j] = list[i]
  BY <1>0, <1>3, <1>4, <1>6
<1> QED  BY <1>4, <1>7, <1>8, <1>9 DEF L, IsWithout, UniqueIds

\* A memory with no more keys than another, the same entries for them, and one
\* that differs for a key.
Fewer(after, m) ==
  /\ Linked(after) /\ DOMAIN after.lru \subseteq DOMAIN m.lru
  /\ \A k \in DOMAIN after.lru : Payload(after, k) = Payload(m, k)

\* after has e for k, and for some other keys what m has for them.
With(after, m, k, e) ==
  /\ Linked(after) /\ DOMAIN after.lru \subseteq DOMAIN m.lru \cup {k}
  /\ \A x \in DOMAIN after.lru : Payload(after, x) = IF x = k THEN e ELSE Payload(m, x)

\* A memory that is left alone.
LEMMA FewerRefl ==
  ASSUME NEW m, Linked(m)
  PROVE  Fewer(m, m)
BY DEF Fewer

\* What is to be shown of a memory to know the entry of a key.
LEMMA PayloadIs ==
  ASSUME NEW m, Linked(m), NEW k \in DOMAIN m.lru, NEW i \in DOMAIN m.nodes,
         m.nodes[i].id = m.lru[k]
  PROVE  Payload(m, k) = m.nodes[i].e
BY NodeOfIs DEF Payload

\* The memory with some of the keys and their nodes.
LEMMA Remains ==
  ASSUME NEW m, Linked(m), NEW after,
         after = [nodes |-> after.nodes, lru |-> after.lru],
         after.nodes \in Seq(Node), NEW D \in SUBSET (DOMAIN m.lru),
         after.lru = [x \in D |-> m.lru[x]],
         \A i, j \in DOMAIN after.nodes : after.nodes[i].id = after.nodes[j].id => i = j,
         \A k \in D : \E i \in DOMAIN after.nodes : after.nodes[i] = NodeOf(m, k)
  PROVE  Fewer(after, m) /\ DOMAIN after.lru = D
<1>1. DOMAIN after.lru = D /\ \A k \in D : after.lru[k] = m.lru[k]
  OBVIOUS
<1>2. DOMAIN m.lru \subseteq Keys
  BY DEF Linked
<1>3. \A k \in D : \E i \in DOMAIN after.nodes :
        after.nodes[i] = NodeOf(m, k) /\ after.nodes[i].id = after.lru[k] /\ after.nodes[i].key = k
  BY <1>1, NodeOfIs
<1>4. Linked(after)
  BY <1>1, <1>2, <1>3 DEF Linked
<1>5. \A k \in D : Payload(after, k) = Payload(m, k)
  <2> TAKE k \in D
  <2>1. PICK i \in DOMAIN after.nodes : after.nodes[i] = NodeOf(m, k) /\ after.nodes[i].id = after.lru[k]
    BY <1>3
  <2>2. Payload(after, k) = after.nodes[i].e
    BY <1>1, <1>4, <2>1, PayloadIs
  <2> QED  BY <2>1, <2>2 DEF Payload
<1> QED  BY <1>1, <1>4, <1>5 DEF Fewer

\* removeNode with delete.
LEMMA DropIs ==
  ASSUME NEW m, Linked(m), NEW k \in DOMAIN m.lru
  PROVE  Fewer(Drop(m, k), m) /\ DOMAIN Drop(m, k).lru = DOMAIN m.lru \ {k}
<1> DEFINE after == Drop(m, k)
           L == WithoutNode(m.nodes, m.lru[k])
           D == DOMAIN m.lru \ {k}
<1>1. m.nodes \in Seq(Node) /\ \A i, j \in DOMAIN m.nodes : m.nodes[i].id = m.nodes[j].id => i = j
  BY DEF Linked
<1>2. PICK p \in DOMAIN m.nodes : m.nodes[p] = NodeOf(m, k)
  BY NodeOfIs
<1>3. m.lru[k] = m.nodes[p].id /\ m.nodes[p].key = k
  BY <1>2, NodeOfIs
<1>4. /\ L \in Seq(Node)
      /\ \A i, j \in DOMAIN L : L[i].id = L[j].id => i = j
      /\ \A i \in DOMAIN m.nodes : i # p => \E j \in DOMAIN L : L[j] = m.nodes[i]
  <2>1. IsWithout(L, m.nodes, p)
    BY <1>1, <1>3, WithoutNodeIs DEF UniqueIds
  <2> QED  BY <1>3, <2>1 DEF IsWithout, UniqueIds
<1>5. \A x \in D : \E j \in DOMAIN L : L[j] = NodeOf(m, x)
  <2> TAKE x \in D
  <2>1. PICK i \in DOMAIN m.nodes : m.nodes[i] = NodeOf(m, x) /\ NodeOf(m, x).key = x
    BY NodeOfIs
  <2>2. i # p
    BY <1>3, <2>1
  <2> QED  BY <1>4, <2>1, <2>2
<1>6. after = [nodes |-> L, lru |-> [x \in D |-> m.lru[x]]]
  BY DEF Drop, Restrict
<1>7. after = [nodes |-> after.nodes, lru |-> after.lru] /\ after.nodes = L
      /\ after.lru = [x \in D |-> m.lru[x]] /\ D \in SUBSET (DOMAIN m.lru)
  BY <1>6
<1> HIDE DEF after, L, D
<1>8. Fewer(after, m) /\ DOMAIN after.lru = D
  BY <1>4, <1>5, <1>7, Remains
<1> QED  BY <1>8 DEF after, D

\* moveToFront.
LEMMA TouchIs ==
  ASSUME NEW m, Linked(m), NEW k \in DOMAIN m.lru, NEW e \in Entry
  PROVE  With(Touch(m, k, e), m, k, e) /\ DOMAIN Touch(m, k, e).lru = DOMAIN m.lru
<1> DEFINE after == Touch(m, k, e)
           L == WithoutNode(m.nodes, m.lru[k])
           n == [NodeOf(m, k) EXCEPT !.e = e]
           list == <<n>> \o L
<1>1. m.nodes \in Seq(Node) /\ \A i, j \in DOMAIN m.nodes : m.nodes[i].id = m.nodes[j].id => i = j
  BY DEF Linked
<1>2. PICK p \in DOMAIN m.nodes : m.nodes[p] = NodeOf(m, k)
  BY NodeOfIs
<1>3. NodeOf(m, k) \in Node /\ m.lru[k] = m.nodes[p].id /\ m.nodes[p].key = k
      /\ NodeOf(m, k).id = m.lru[k] /\ NodeOf(m, k).key = k
  BY <1>2, NodeOfIs
<1>4. /\ L \in Seq(Node)
      /\ \A i, j \in DOMAIN L : L[i].id = L[j].id => i = j
      /\ \A j \in DOMAIN L : L[j].id # m.lru[k]
      /\ \A i \in DOMAIN m.nodes : i # p => \E j \in DOMAIN L : L[j] = m.nodes[i]
  <2>1. IsWithout(L, m.nodes, p)
    BY <1>1, <1>3, WithoutNodeIs DEF UniqueIds
  <2> QED  BY <1>3, <2>1 DEF IsWithout, UniqueIds
<1>5. n \in Node /\ n.id = m.lru[k] /\ n.key = k /\ n.e = e
  BY <1>3 DEF Node
<1>6. after = [nodes |-> list, lru |-> m.lru]
  <2>1. m = [nodes |-> m.nodes, lru |-> m.lru]
    BY DEF Linked
  <2>2. \A x : [m EXCEPT !.nodes = x] = [nodes |-> x, lru |-> m.lru]
    BY <2>1
  <2>3. after = [m EXCEPT !.nodes = list]
    BY DEF Touch
  <2> HIDE DEF list, after
  <2> QED  BY <2>2, <2>3
<1>7. Len(L) \in Nat /\ DOMAIN L = 1..Len(L)
  BY <1>4, LenProperties
<1> HIDE DEF n, L
<1>8. /\ list \in Seq(Node) /\ DOMAIN list = 1..(Len(L) + 1) /\ list[1] = n
      /\ \A i \in 1..Len(L) : list[i + 1] = L[i]
      /\ \A j \in 1..(Len(L) + 1) : j # 1 => j - 1 \in 1..Len(L) /\ list[j] = L[j - 1]
  BY <1>4, <1>5, Cons
<1> HIDE DEF list
<1>9. \A i, j \in DOMAIN list : list[i].id = list[j].id => i = j
  <2> TAKE i, j \in DOMAIN list
  <2> HAVE list[i].id = list[j].id
  <2>1. CASE i = 1 /\ j = 1
    BY <2>1
  <2>2. CASE i = 1 /\ j # 1
    <3>1. list[j] = L[j - 1] /\ j - 1 \in DOMAIN L
      BY <1>7, <1>8, <2>2
    <3> QED  BY <1>4, <1>5, <1>8, <2>2, <3>1
  <2>3. CASE i # 1 /\ j = 1
    <3>1. list[i] = L[i - 1] /\ i - 1 \in DOMAIN L
      BY <1>7, <1>8, <2>3
    <3> QED  BY <1>4, <1>5, <1>8, <2>3, <3>1
  <2>4. CASE i # 1 /\ j # 1
    <3>1. list[i] = L[i - 1] /\ i - 1 \in DOMAIN L /\ list[j] = L[j - 1] /\ j - 1 \in DOMAIN L
      BY <1>7, <1>8, <2>4
    <3>2. i - 1 = j - 1
      BY <1>4, <3>1
    <3> QED  BY <1>7, <1>8, <3>2
  <2> QED  BY <2>1, <2>2, <2>3, <2>4
<1>10. 1 \in DOMAIN list
  BY <1>7, <1>8
<1>11. \A x \in DOMAIN m.lru : x # k =>
         \E i \in DOMAIN list : list[i] = NodeOf(m, x) /\ list[i].id = m.lru[x] /\ list[i].key = x
  <2> TAKE x \in DOMAIN m.lru
  <2> HAVE x # k
  <2>1. PICK i \in DOMAIN m.nodes : m.nodes[i] = NodeOf(m, x) /\ NodeOf(m, x).key = x
          /\ NodeOf(m, x).id = m.lru[x]
    BY NodeOfIs
  <2>2. i # p
    BY <1>3, <2>1
  <2>3. PICK j \in DOMAIN L : L[j] = m.nodes[i]
    BY <1>4, <2>2
  <2>4. j + 1 \in DOMAIN list /\ list[j + 1] = L[j]
    BY <1>7, <1>8
  <2> QED  BY <2>1, <2>3, <2>4
<1>12. Linked(after)
  <2>1. after.nodes = list /\ after.lru = m.lru
    BY <1>6
  <2>2. \A x \in DOMAIN m.lru : \E i \in DOMAIN list : list[i].id = m.lru[x] /\ list[i].key = x
    BY <1>5, <1>8, <1>10, <1>11
  <2> HIDE DEF after
  <2> QED  BY <1>6, <1>8, <1>9, <2>1, <2>2 DEF Linked
<1>13. \A x \in DOMAIN m.lru : Payload(after, x) = IF x = k THEN e ELSE Payload(m, x)
  <2> TAKE x \in DOMAIN m.lru
  <2>1. after.nodes = list /\ after.lru = m.lru
    BY <1>6
  <2> HIDE DEF after
  <2>2. CASE x = k
    <3>1. Payload(after, k) = list[1].e
      BY <1>5, <1>8, <1>10, <1>12, <2>1, PayloadIs
    <3> QED  BY <1>5, <1>8, <2>2, <3>1
  <2>3. CASE x # k
    <3>1. PICK i \in DOMAIN list : list[i] = NodeOf(m, x) /\ list[i].id = m.lru[x]
      BY <1>11, <2>3
    <3>2. Payload(after, x) = list[i].e
      BY <1>12, <2>1, <3>1, PayloadIs
    <3> QED  BY <2>3, <3>1, <3>2 DEF Payload
  <2> QED  BY <2>2, <2>3
<1>14. after.lru = m.lru
  BY <1>6
<1> HIDE DEF after
<1>15. With(after, m, k, e) /\ DOMAIN after.lru = DOMAIN m.lru
  BY <1>12, <1>13, <1>14 DEF With
<1> QED  BY <1>15 DEF after

\* The numbers up to n.
LEMMA UpTo ==
  ASSUME NEW n \in Nat
  PROVE  IsFiniteSet(1..n) /\ Cardinality(1..n) = n
<1>1. IsFiniteSet(1..n) /\ Cardinality(1..n) = IF 1 > n THEN 0 ELSE n - 1 + 1
  BY FS_Interval
<1> QED  BY <1>1

\* There is an id that no node has: the ids are no more than the nodes.
LEMMA FreshId ==
  ASSUME NEW m, m.nodes \in Seq(Node)
  PROVE  \E n \in 1..(Len(m.nodes) + 1) : n \notin Ids(m)
<1> DEFINE n == Len(m.nodes)
           D == 1..n
           S == 1..(n + 1)
           f == [i \in D |-> m.nodes[i].id]
<1>1. n \in Nat /\ DOMAIN m.nodes = D /\ n + 1 \in Nat
  BY LenProperties
<1>2. IsFiniteSet(D) /\ Cardinality(D) = n /\ IsFiniteSet(S) /\ Cardinality(S) = n + 1
  BY <1>1, UpTo
<1>3. f \in Surjection(D, Ids(m))
  BY <1>1 DEF Surjection, Ids
<1>4. IsFiniteSet(Ids(m)) /\ Cardinality(Ids(m)) <= n /\ Cardinality(Ids(m)) \in Nat
  <2> HIDE DEF D, f
  <2> QED  BY <1>2, <1>3, FS_Surjection, FS_CardinalityType
<1>5. ~(S \subseteq Ids(m))
  <2>1. S \subseteq Ids(m) => Cardinality(S) <= Cardinality(Ids(m))
    BY <1>4, FS_Subset
  <2> QED  BY <1>1, <1>2, <1>4, <2>1
<1> QED  BY <1>5

\* insertFront and the map's new entry: the keys of before and this one.
LEMMA InsertFrontIs ==
  ASSUME NEW m, Linked(m), NEW k \in Keys, NEW e \in Entry
  PROVE  /\ With(InsertFront(m, k, e), m, k, e)
         /\ DOMAIN InsertFront(m, k, e).lru = DOMAIN m.lru \cup {k}
<1> DEFINE after == InsertFront(m, k, e)
           id == CHOOSE n \in 1..(Len(m.nodes) + 1) : n \notin Ids(m)
           new == [id |-> id, key |-> k, e |-> e]
           list == <<new>> \o m.nodes
           L == m.nodes
           D == DOMAIN m.lru \cup {k}
           map == [x \in D |-> IF x = k THEN id ELSE m.lru[x]]
<1>1. L \in Seq(Node) /\ Len(L) \in Nat /\ DOMAIN L = 1..Len(L) /\ UniqueIds(L) /\ DOMAIN m.lru \subseteq Keys
  BY LenProperties DEF Linked, UniqueIds
<1>2. id \in 1..(Len(m.nodes) + 1) /\ id \notin Ids(m)
  BY <1>1, FreshId
<1> HIDE DEF id
<1>3. new \in Node /\ new.id = id /\ new.key = k /\ new.e = e /\ id \in Nat
  BY <1>1, <1>2 DEF Node
<1>4. \A j \in DOMAIN L : L[j].id # id
  BY <1>2 DEF Ids
<1>5. after = [nodes |-> list, lru |-> map]
  BY DEF InsertFront, id
<1> HIDE DEF new
<1>6. /\ list \in Seq(Node) /\ DOMAIN list = 1..(Len(L) + 1) /\ list[1] = new
      /\ \A i \in 1..Len(L) : list[i + 1] = L[i]
      /\ \A j \in 1..(Len(L) + 1) : j # 1 => j - 1 \in 1..Len(L) /\ list[j] = L[j - 1]
  BY <1>1, <1>3, Cons
<1> HIDE DEF list
<1>7. UniqueIds(list)
  <2> SUFFICES ASSUME NEW i \in DOMAIN list, NEW j \in DOMAIN list, list[i].id = list[j].id
               PROVE  i = j
    BY DEF UniqueIds
  <2>1. CASE i = 1 /\ j = 1
    BY <2>1
  <2>2. CASE i = 1 /\ j # 1
    <3>1. list[j] = L[j - 1] /\ j - 1 \in DOMAIN L
      BY <1>1, <1>6, <2>2
    <3> QED  BY <1>3, <1>4, <1>6, <2>2, <3>1
  <2>3. CASE i # 1 /\ j = 1
    <3>1. list[i] = L[i - 1] /\ i - 1 \in DOMAIN L
      BY <1>1, <1>6, <2>3
    <3> QED  BY <1>3, <1>4, <1>6, <2>3, <3>1
  <2>4. CASE i # 1 /\ j # 1
    <3>1. list[i] = L[i - 1] /\ i - 1 \in DOMAIN L /\ list[j] = L[j - 1] /\ j - 1 \in DOMAIN L
      BY <1>1, <1>6, <2>4
    <3>2. i - 1 = j - 1
      BY <1>1, <3>1 DEF UniqueIds
    <3> QED  BY <1>1, <1>6, <3>2
  <2> QED  BY <2>1, <2>2, <2>3, <2>4
<1>8. after.nodes = list /\ after.lru = map /\ DOMAIN map = D
      /\ map[k] = id /\ (\A x \in DOMAIN m.lru : x # k => map[x] = m.lru[x])
  BY <1>5
<1>9. 1 \in DOMAIN list
  BY <1>1, <1>6
<1>10. \A x \in DOMAIN m.lru :
         \E i \in DOMAIN list : list[i] = NodeOf(m, x) /\ list[i].id = m.lru[x] /\ list[i].key = x
  <2> TAKE x \in DOMAIN m.lru
  <2>1. PICK i \in DOMAIN m.nodes : m.nodes[i] = NodeOf(m, x) /\ NodeOf(m, x).key = x
          /\ NodeOf(m, x).id = m.lru[x]
    BY NodeOfIs
  <2>2. i + 1 \in DOMAIN list /\ list[i + 1] = m.nodes[i]
    BY <1>1, <1>6
  <2> QED  BY <2>1, <2>2
<1>11. after = [nodes |-> after.nodes, lru |-> after.lru]
       /\ after.lru = [x \in DOMAIN after.lru |-> after.lru[x]]
  BY <1>5
<1> HIDE DEF after, map
<1>12. Linked(after)
  <2>1. \A x \in D : \E i \in DOMAIN list : list[i].id = map[x] /\ list[i].key = x
    <3> TAKE x \in D
    <3>1. CASE x = k
      BY <1>3, <1>6, <1>8, <1>9, <3>1
    <3>2. CASE x # k
      BY <1>8, <1>10, <3>2
    <3> QED  BY <3>1, <3>2
  <2>2. D \subseteq Keys
    BY <1>1
  <2> QED  BY <1>6, <1>7, <1>8, <1>11, <2>1, <2>2 DEF Linked, UniqueIds
<1>13. \A x \in DOMAIN after.lru : Payload(after, x) = IF x = k THEN e ELSE Payload(m, x)
  <2> TAKE x \in DOMAIN after.lru
  <2>1. CASE x = k
    <3>1. Payload(after, k) = list[1].e
      BY <1>3, <1>6, <1>8, <1>9, <1>12, PayloadIs
    <3> QED  BY <1>3, <1>6, <2>1, <3>1
  <2>2. CASE x # k
    <3>1. x \in DOMAIN m.lru /\ after.lru[x] = m.lru[x]
      BY <1>8, <2>2
    <3>2. PICK i \in DOMAIN list : list[i] = NodeOf(m, x) /\ list[i].id = m.lru[x]
      BY <1>10, <3>1
    <3>3. Payload(after, x) = list[i].e
      BY <1>8, <1>12, <3>1, <3>2, PayloadIs
    <3> QED  BY <2>2, <3>2, <3>3 DEF Payload
  <2> QED  BY <2>1, <2>2
<1>14. With(after, m, k, e) /\ DOMAIN after.lru = D
  BY <1>8, <1>12, <1>13 DEF With
<1> QED  BY <1>14 DEF after

\* A set of numbers up to a bound that is not empty has a largest one.
LEMMA MaxIs ==
  ASSUME NEW n \in Nat, NEW T \in SUBSET (0..n), T # {}
  PROVE  Max(T) \in T
<1> DEFINE R == {n - t : t \in T}
<1>1. R \in SUBSET Nat /\ R # {}
  <2>1. \A t \in T : n - t \in Nat
    <3> TAKE t \in T
    <3>1. t \in 0..n
      OBVIOUS
    <3> QED  BY <3>1
  <2> QED  BY <2>1
<1>2. PICK x \in R : \A y \in R : x <= y
  <2> HIDE DEF R
  <2> QED  BY <1>1, Least
<1>3. PICK t \in T : x = n - t
  BY <1>2
<1>4. \A y \in T : t >= y
  <2> TAKE y \in T
  <2>1. n - y \in R
    OBVIOUS
  <2>2. n - t <= n - y
    BY <1>2, <1>3, <2>1
  <2> QED  BY <2>2
<1> QED  BY <1>4 DEF Max

\* evictIfNeeded leaves a memory within the capacity, and what it leaves as it was.
LEMMA EvictIs ==
  ASSUME NEW m, Linked(m)
  PROVE  Fewer(Evict(m), m) /\ Cardinality(DOMAIN Evict(m).lru) <= Capacity
<1> DEFINE n == Len(m.nodes)
           Kept(i) == DOMAIN m.lru \ {m.nodes[j].key : j \in (i + 1)..n}
           T == {i \in 0..n : i = 0 \/ Cardinality(Kept(i)) <= Capacity}
           n0 == Max(T)
           D == Kept(n0)
           L == SubSeq(m.nodes, 1, n0)
           after == Evict(m)
<1>1. m.nodes \in Seq(Node) /\ n \in Nat /\ DOMAIN m.nodes = 1..n /\ UniqueIds(m.nodes)
  BY LenProperties DEF Linked, UniqueIds
<1>2. n0 \in T
  <2>1. T \in SUBSET (0..n) /\ 0 \in T
    BY <1>1
  <2> HIDE DEF T
  <2> QED  BY <1>1, <2>1, MaxIs
<1>3. after = [nodes |-> L, lru |-> [x \in D |-> m.lru[x]]]
  BY DEF Evict, Restrict
<1>4. n0 \in 0..n /\ (n0 = 0 \/ Cardinality(D) <= Capacity)
  BY <1>2
<1>5. \A x \in DOMAIN m.lru : \E i \in 1..n : m.nodes[i] = NodeOf(m, x) /\ m.nodes[i].key = x
  BY <1>1, NodeOfIs
<1> HIDE DEF n0, T
<1>6. \A x \in D : \E i \in 1..n0 : m.nodes[i] = NodeOf(m, x)
  <2> TAKE x \in D
  <2>1. PICK i \in 1..n : m.nodes[i] = NodeOf(m, x) /\ m.nodes[i].key = x
    BY <1>5
  <2>2. i \notin (n0 + 1)..n
    BY <2>1
  <2>3. i \in 1..n0
    BY <1>1, <1>4, <2>2
  <2> QED  BY <2>1, <2>3
<1>7. n0 \in Nat /\ n0 <= n
  BY <1>1, <1>4
<1>8. L \in Seq(Node) /\ DOMAIN L = 1..n0 /\ \A i \in 1..n0 : L[i] = m.nodes[i]
  <2>1. \A i \in 1..n0 : m.nodes[i] \in Node /\ i \in 1..n
    BY <1>1, <1>7
  <2>2. L \in Seq(Node) /\ Len(L) = n0
    BY <1>1, <1>7, <2>1, SubSeqProperties
  <2>3. \A i \in 1..n0 : L[i] = m.nodes[1 + i - 1]
    BY <1>1, <1>7, <2>1, SubSeqProperties
  <2>4. \A i \in 1..n0 : 1 + i - 1 = i
    OBVIOUS
  <2> QED  BY <2>2, <2>3, <2>4, LenProperties
<1>9. \A i, j \in DOMAIN L : L[i].id = L[j].id => i = j
  <2>1. \A i \in DOMAIN L : i \in DOMAIN m.nodes /\ L[i] = m.nodes[i]
    BY <1>1, <1>7, <1>8
  <2> QED  BY <1>1, <2>1 DEF UniqueIds
<1>10. D \in SUBSET (DOMAIN m.lru)
  OBVIOUS
<1>11. Cardinality(D) <= Capacity
  <2>1. CASE n0 = 0
    <3>1. D = {}
      BY <1>6, <2>1
    <3>2. Cardinality({}) = 0 /\ 0 <= Capacity
      BY FS_EmptySet, TokenCacheAssumption
    <3> HIDE DEF D
    <3> QED  BY <3>1, <3>2
  <2>2. CASE n0 # 0
    BY <1>4, <2>2
  <2> QED  BY <2>1, <2>2
<1>12. \A x \in D : \E i \in DOMAIN L : L[i] = NodeOf(m, x)
  BY <1>6, <1>8
<1> HIDE DEF after, L, D
<1>13. after.nodes = L /\ after.lru = [x \in D |-> m.lru[x]]
       /\ after = [nodes |-> after.nodes, lru |-> after.lru]
  BY <1>3
<1>14. Fewer(after, m) /\ DOMAIN after.lru = D
  <2>1. /\ after.nodes \in Seq(Node)
        /\ \A i, j \in DOMAIN after.nodes : after.nodes[i].id = after.nodes[j].id => i = j
        /\ \A x \in D : \E i \in DOMAIN after.nodes : after.nodes[i] = NodeOf(m, x)
    BY <1>8, <1>9, <1>12, <1>13
  <2> QED  BY <1>10, <1>13, <2>1, Remains
<1> QED  BY <1>11, <1>14 DEF after

\* The sections of Get and Put that put an entry in.
LEMMA PromoteIs ==
  ASSUME NEW m, Linked(m), NEW k \in Keys, NEW e \in Entry
  PROVE  With(Promote(m, k, e), m, k, e) /\ Cardinality(DOMAIN Promote(m, k, e).lru) <= Capacity
<1> DEFINE more == InsertFront(m, k, e)
<1>1. With(more, m, k, e)
  BY InsertFrontIs
<1>2. Linked(more)
  BY <1>1 DEF With
<1> HIDE DEF more
<1>3. Fewer(Evict(more), more) /\ Cardinality(DOMAIN Evict(more).lru) <= Capacity
  BY <1>2, EvictIs
<1>4. With(Evict(more), m, k, e)
  BY <1>1, <1>3 DEF With, Fewer
<1> QED  BY <1>3, <1>4 DEF Promote, more

\* Put's section: the entry is the key's, and the map within the capacity.
LEMMA PutMemoryIs ==
  ASSUME NEW m, Linked(m), Cardinality(DOMAIN m.lru) <= Capacity, NEW k \in Keys, NEW e \in Entry
  PROVE  With(PutMemory(m, k, e), m, k, e) /\ Cardinality(DOMAIN PutMemory(m, k, e).lru) <= Capacity
<1>1. CASE InMemory(m, k)
  <2>1. With(Touch(m, k, e), m, k, e) /\ DOMAIN Touch(m, k, e).lru = DOMAIN m.lru
    BY <1>1, TouchIs DEF InMemory
  <2> QED  BY <1>1, <2>1 DEF PutMemory
<1>2. CASE ~InMemory(m, k)
  <2>1. PutMemory(m, k, e) = Promote(m, k, e)
    BY <1>2 DEF PutMemory, Promote
  <2> QED  BY <2>1, PromoteIs
<1> QED  BY <1>1, <1>2

\* The folds of the cache run over memories, whatever their links.
Memories == [nodes : Seq(Node), lru : UNION {[D -> Nat] : D \in SUBSET Keys}]

\* A memory with sound links is a memory.
LEMMA LinkedIsMemory ==
  ASSUME NEW m, Linked(m)
  PROVE  m \in Memories
<1>1. DOMAIN m.lru \in SUBSET Keys /\ \A k \in DOMAIN m.lru : m.lru[k] \in Nat
  BY NodeOfIs DEF Linked
<1>2. m.lru = [x \in DOMAIN m.lru |-> m.lru[x]]
  BY DEF Linked
<1>3. m.lru \in [DOMAIN m.lru -> Nat]
  BY <1>1, <1>2
<1>4. m.lru \in UNION {[D -> Nat] : D \in SUBSET Keys}
  BY <1>1, <1>3
<1>5. m = [nodes |-> m.nodes, lru |-> m.lru] /\ m.nodes \in Seq(Node)
  BY DEF Linked
<1> QED  BY <1>4, <1>5 DEF Memories

\* Drop, of any memory and any key, is a memory.
LEMMA DropType ==
  ASSUME NEW m \in Memories, NEW k
  PROVE  Drop(m, k) \in Memories
<1> DEFINE list == m.nodes
           n == Len(list)
           id == m.lru[k]
           p == CHOOSE i \in DOMAIN list : list[i].id = id
           L == [i \in 1..(n - 1) |-> IF i < p THEN list[i] ELSE list[i + 1]]
           E == DOMAIN m.lru \ {k}
           map == [x \in E |-> m.lru[x]]
<1>1. list \in Seq(Node) /\ m.lru \in UNION {[D -> Nat] : D \in SUBSET Keys}
  BY DEF Memories
<1>2. n \in Nat /\ \A i \in 1..n : list[i] \in Node
  BY <1>1, LenProperties
<1>3. Drop(m, k) = [nodes |-> L, lru |-> map]
  BY DEF Drop, WithoutNode, Restrict
<1>4. PICK D \in SUBSET Keys : m.lru \in [D -> Nat]
  BY <1>1
<1>5. E \in SUBSET Keys /\ map \in [E -> Nat]
  BY <1>4
<1> HIDE DEF p, list, n
<1>6. \A i \in 1..(n - 1) : i \in 1..n /\ i + 1 \in 1..n
  BY <1>2
<1>7. L \in [1..(n - 1) -> Node]
  BY <1>2, <1>6
<1> HIDE DEF L
<1>8. L \in Seq(Node)
  <2>1. CASE n = 0
    <3>1. 1..(n - 1) = {} /\ 1..0 = {}
      BY <2>1
    <3>2. L \in [1..0 -> Node] /\ 0 \in Nat
      BY <1>7, <3>1
    <3> QED  BY <3>2, SeqDef
  <2>2. CASE n # 0
    <3> DEFINE l == n - 1
    <3>1. l \in Nat /\ L \in [1..l -> Node]
      BY <1>2, <1>7, <2>2
    <3> HIDE DEF l
    <3> QED  BY <3>1, SeqDef
  <2> QED  BY <2>1, <2>2
<1> HIDE DEF map, E
<1>9. map \in UNION {[A -> Nat] : A \in SUBSET Keys}
  BY <1>5
<1> QED  BY <1>3, <1>8, <1>9 DEF Memories

\* InsertFront, of any memory, is a memory.
LEMMA InsertFrontType ==
  ASSUME NEW m \in Memories, NEW k \in Keys, NEW e \in Entry
  PROVE  InsertFront(m, k, e) \in Memories
<1> DEFINE id == CHOOSE n \in 1..(Len(m.nodes) + 1) : n \notin Ids(m)
           new == [id |-> id, key |-> k, e |-> e]
           E == DOMAIN m.lru \cup {k}
           map == [x \in E |-> IF x = k THEN id ELSE m.lru[x]]
           list == <<new>> \o m.nodes
<1>1. m.nodes \in Seq(Node) /\ m.lru \in UNION {[D -> Nat] : D \in SUBSET Keys}
  BY DEF Memories
<1>2. id \in 1..(Len(m.nodes) + 1)
  BY <1>1, FreshId
<1>3. id \in Nat
  BY <1>1, <1>2, LenProperties
<1> HIDE DEF id
<1>4. new \in Node
  BY <1>3 DEF Node
<1>5. PICK D \in SUBSET Keys : m.lru \in [D -> Nat]
  BY <1>1
<1>6. E \in SUBSET Keys /\ map \in [E -> Nat]
  BY <1>3, <1>5
<1>7. InsertFront(m, k, e) = [nodes |-> list, lru |-> map]
  BY DEF InsertFront, id
<1> HIDE DEF new
<1>8. list \in Seq(Node)
  BY <1>1, <1>4, Cons
<1> HIDE DEF list, map, E
<1>9. map \in UNION {[A -> Nat] : A \in SUBSET Keys}
  BY <1>6
<1> QED  BY <1>7, <1>8, <1>9 DEF Memories

\* InvalidateByMtime's loop drops the keys of a set one by one.
Drops(iter, m, S) ==
  iter = [s \in SUBSET S |-> IF s = {} THEN m ELSE Drop(iter[s \ {Pick(s)}], Pick(s))]

\* InvalidateByMtime's loop only takes keys away.
LEMMA InvalidateIs ==
  ASSUME NEW m, Linked(m), NEW now
  PROVE  Fewer(Invalidate(m, now), m)
<1> DEFINE S == Stale(m, now)
           i == CHOOSE iter : Drops(iter, m, S)
           step == [p \in S \X Memories |-> Drop(p[2], p[1])]
           Bad == {s \in SUBSET S : ~(Fewer(i[s], m) /\ DOMAIN i[s].lru = DOMAIN m.lru \ s)}
<1>1. S \subseteq DOMAIN m.lru /\ S \subseteq Keys
  BY DEF Stale, Linked
<1>2. Invalidate(m, now) = i[S]
  BY DEF Invalidate, FoldSet, MapThenFoldSet, Drops, Pick
<1> HIDE DEF S
<1>3. IsFiniteSet(S)
  BY <1>1, TokenCacheAssumption, FS_Subset
<1>4. step \in [S \X Memories -> Memories]
  BY DropType
<1>5. m \in Memories
  BY LinkedIsMemory
<1>6. PICK g \in [SUBSET S -> Memories] : IsFold(g, S, m, step)
  <2> HIDE DEF step
  <2> QED  BY <1>3, <1>4, <1>5, FoldExists
<1>7. \A s \in SUBSET S : s # {} => step[<<Pick(s), g[s \ {Pick(s)}]>>] = Drop(g[s \ {Pick(s)}], Pick(s))
  <2> TAKE s \in SUBSET S
  <2> HAVE s # {}
  <2>1. Pick(s) \in S /\ s \ {Pick(s)} \in SUBSET S
    BY DEF Pick
  <2>2. <<Pick(s), g[s \ {Pick(s)}]>> \in S \X Memories
    BY <2>1, <1>6
  <2> QED  BY <2>2
<1>8. Drops(g, m, S)
  <2> HIDE DEF step
  <2> QED  BY <1>6, <1>7 DEF Drops, IsFold
<1>9. Drops(i, m, S)
  BY <1>8
<1> HIDE DEF i, step
<1>10. ASSUME Bad # {}  PROVE FALSE
  <2>1. PICK s \in Bad : \A x \in s : s \ {x} \notin Bad
    <3>1. Bad \in SUBSET (SUBSET S)
      OBVIOUS
    <3> HIDE DEF Bad
    <3> QED  BY <1>3, <1>10, <3>1, Smallest
  <2>2. s \in SUBSET S /\ i[s] = IF s = {} THEN m ELSE Drop(i[s \ {Pick(s)}], Pick(s))
    <3>1. s \in SUBSET S
      OBVIOUS
    <3> HIDE DEF Bad
    <3> QED  BY <1>9, <3>1 DEF Drops
  <2>3. CASE s = {}
    <3>1. i[s] = m /\ DOMAIN m.lru = DOMAIN m.lru \ s
      BY <2>2, <2>3
    <3>2. Fewer(i[s], m) /\ DOMAIN i[s].lru = DOMAIN m.lru \ s
      BY <3>1, FewerRefl
    <3> QED  BY <3>2
  <2>4. CASE s # {}
    <3> DEFINE k == Pick(s)
               before == i[s \ {k}]
    <3>1. k \in s /\ s \ {k} \in SUBSET S
      BY <2>2, <2>4 DEF Pick
    <3>2. Fewer(before, m) /\ DOMAIN before.lru = DOMAIN m.lru \ (s \ {k})
      BY <2>1, <3>1
    <3>3. Linked(before) /\ k \in DOMAIN before.lru
      BY <1>1, <2>2, <3>1, <3>2 DEF Fewer
    <3>4. i[s] = Drop(before, k)
      BY <2>2, <2>4
    <3> HIDE DEF k, before
    <3>5. Fewer(i[s], before) /\ DOMAIN i[s].lru = DOMAIN before.lru \ {k}
      BY <3>3, <3>4, DropIs
    <3>6. DOMAIN i[s].lru = DOMAIN m.lru \ s
      BY <3>1, <3>2, <3>5
    <3>7. Fewer(i[s], m)
      BY <3>2, <3>5 DEF Fewer
    <3> QED  BY <3>6, <3>7
  <2> QED  BY <2>3, <2>4
<1>11. S \in SUBSET S /\ S \notin Bad
  BY <1>10
<1>12. Fewer(i[S], m)
  BY <1>11
<1> HIDE DEF Bad
<1> QED  BY <1>2, <1>12

\* warmFromDisk puts the files of a list in, one by one.
Loads(iter, q, d) ==
  iter = [s \in SUBSET DOMAIN q |->
           IF s = {} THEN Empty ELSE InsertFront(iter[s \ {Pick(s)}], q[Pick(s)], d[q[Pick(s)]])]

\* A memory within the capacity that has what the disk has for its keys.
WarmFrom(m, d) ==
  /\ Linked(m) /\ Cardinality(DOMAIN m.lru) <= Capacity
  /\ \A k \in DOMAIN m.lru : Payload(m, k) = d[k] /\ k \in Keys /\ Readable(d[k])

\* The empty memory is sound.
LEMMA EmptyIsLinked == Linked(Empty) /\ DOMAIN Empty.lru = {} /\ Empty \in Memories
<1>1. Empty.nodes = <<>> /\ Empty.lru = <<>> /\ Empty = [nodes |-> <<>>, lru |-> <<>>]
  BY DEF Empty
<1>2. <<>> \in Seq(Node)
  OBVIOUS
<1>3. DOMAIN <<>> = {} /\ <<>> = [x \in {} |-> <<>>[x]]
  OBVIOUS
<1>4. Linked(Empty)
  BY <1>1, <1>2, <1>3 DEF Linked
<1> QED  BY <1>1, <1>3, <1>4, LinkedIsMemory

\* The memory that the files q make, one after the other.
LoadOf(d, q) == FoldFunctionOnSet(LAMBDA k, l : InsertFront(l, k, d[k]), Empty, q, DOMAIN q)
Found(d) == {k \in Keys : Readable(d[k])}

\* Warm has nothing but such memories.
LEMMA WarmLoads ==
  ASSUME NEW d
  PROVE  \A m \in Warm(d) : \E q \in [1..Min({Capacity, Cardinality(Found(d))}) -> Found(d)] :
           m = LoadOf(d, q)
<1> DEFINE size == Min({Capacity, Cardinality(Found(d))})
           Orders == {q \in [1..size -> Found(d)] : \A i, j \in 1..size : q[i] = q[j] => i = j}
<1>1. Warm(d) = {LoadOf(d, q) : q \in Orders}
  BY DEF Warm, Found, LoadOf
<1>2. Orders \subseteq [1..size -> Found(d)]
  OBVIOUS
<1> HIDE DEF Orders, size
<1>3. \A m \in Warm(d) : \E q \in [1..size -> Found(d)] : m = LoadOf(d, q)
  BY <1>1, <1>2
<1> QED  BY <1>3 DEF size

\* What warmFromDisk leaves, whatever the order of the files, is within the
\* capacity and has the entries of the disk.
LEMMA WarmIs ==
  ASSUME NEW d \in [Keys -> Entry], NEW m \in Warm(d)
  PROVE  WarmFrom(m, d)
<1> DEFINE size == Min({Capacity, Cardinality(Found(d))})
<1>1. size \in Nat /\ size <= Capacity
  <2>1. IsFiniteSet(Found(d))
    <3>1. Found(d) \subseteq Keys
      BY DEF Found
    <3> QED  BY <3>1, TokenCacheAssumption, FS_Subset
  <2> DEFINE c == Cardinality(Found(d))
  <2>2. c \in Nat /\ Capacity \in Nat
    BY <2>1, FS_CardinalityType, TokenCacheAssumption
  <2> HIDE DEF c
  <2>3. \E x \in {Capacity, c} : \A y \in {Capacity, c} : x <= y
    BY <2>2
  <2>4. Min({Capacity, c}) \in {Capacity, c} /\ \A y \in {Capacity, c} : Min({Capacity, c}) <= y
    BY <2>3 DEF Min
  <2> QED  BY <2>2, <2>4 DEF c
<1>2. PICK q \in [1..size -> Found(d)] : m = LoadOf(d, q)
  BY WarmLoads
<1> HIDE DEF size
<1> DEFINE S == 1..size
           i == CHOOSE iter : Loads(iter, q, d)
           step == [p \in S \X Memories |-> InsertFront(p[2], q[p[1]], d[q[p[1]]])]
           Bad == {s \in SUBSET S :
                     ~(/\ Linked(i[s]) /\ DOMAIN i[s].lru = {q[j] : j \in s}
                       /\ \A k \in DOMAIN i[s].lru : Payload(i[s], k) = d[k])}
<1>3. IsFiniteSet(S) /\ Cardinality(S) = size /\ DOMAIN q = S
  BY <1>1, UpTo
<1>4. m = i[S]
  <2>1. LoadOf(d, q) = (CHOOSE iter : Loads(iter, q, d))[DOMAIN q]
    BY DEF LoadOf, FoldFunctionOnSet, MapThenFoldSet, Loads, Pick
  <2> QED  BY <1>2, <1>3, <2>1
<1>5. \A j \in S : q[j] \in Keys /\ d[q[j]] \in Entry
  <2>1. \A j \in S : q[j] \in Found(d)
    BY <1>2
  <2> QED  BY <2>1 DEF Found
<1> HIDE DEF S
<1>6. step \in [S \X Memories -> Memories]
  BY <1>5, InsertFrontType
<1>7. PICK g \in [SUBSET S -> Memories] : IsFold(g, S, Empty, step)
  <2> HIDE DEF step
  <2> QED  BY <1>3, <1>6, EmptyIsLinked, FoldExists
<1>8. \A s \in SUBSET S : s # {} =>
        step[<<Pick(s), g[s \ {Pick(s)}]>>] = InsertFront(g[s \ {Pick(s)}], q[Pick(s)], d[q[Pick(s)]])
  <2> TAKE s \in SUBSET S
  <2> HAVE s # {}
  <2>1. Pick(s) \in S /\ s \ {Pick(s)} \in SUBSET S
    BY DEF Pick
  <2>2. <<Pick(s), g[s \ {Pick(s)}]>> \in S \X Memories
    BY <2>1, <1>7
  <2> QED  BY <2>2
<1>9. Loads(g, q, d)
  <2> HIDE DEF step
  <2> QED  BY <1>3, <1>7, <1>8 DEF Loads, IsFold
<1>10. Loads(i, q, d)
  BY <1>9
<1> HIDE DEF i, step
<1>11. ASSUME Bad # {}  PROVE FALSE
  <2>1. PICK s \in Bad : \A x \in s : s \ {x} \notin Bad
    <3>1. Bad \in SUBSET (SUBSET S)
      OBVIOUS
    <3> HIDE DEF Bad
    <3> QED  BY <1>3, <1>11, <3>1, Smallest
  <2>2. s \in SUBSET S
    OBVIOUS
  <2>3. i[s] = IF s = {} THEN Empty ELSE InsertFront(i[s \ {Pick(s)}], q[Pick(s)], d[q[Pick(s)]])
    <3> HIDE DEF Bad
    <3> QED  BY <1>3, <1>10, <2>2 DEF Loads
  <2>4. CASE s = {}
    <3>1. i[s] = Empty /\ {q[j] : j \in s} = {}
      BY <2>3, <2>4
    <3>2. Linked(i[s]) /\ DOMAIN i[s].lru = {q[j] : j \in s}
          /\ \A k \in DOMAIN i[s].lru : Payload(i[s], k) = d[k]
      BY <3>1, EmptyIsLinked
    <3> QED  BY <3>2
  <2>5. CASE s # {}
    <3> DEFINE p == Pick(s)
               before == i[s \ {p}]
               k == q[p]
    <3>1. p \in s /\ s \ {p} \in SUBSET S /\ p \in S
      BY <2>2, <2>5 DEF Pick
    <3>2. /\ Linked(before) /\ DOMAIN before.lru = {q[j] : j \in s \ {p}}
          /\ \A x \in DOMAIN before.lru : Payload(before, x) = d[x]
      BY <2>1, <3>1
    <3>3. k \in Keys /\ d[k] \in Entry
      BY <1>5, <3>1
    <3>4. i[s] = InsertFront(before, k, d[k])
      BY <2>3, <2>5
    <3>5. {q[j] : j \in s} = {q[j] : j \in s \ {p}} \cup {k}
      BY <3>1
    <3> HIDE DEF p, before, k
    <3>6. With(i[s], before, k, d[k]) /\ DOMAIN i[s].lru = DOMAIN before.lru \cup {k}
      BY <3>2, <3>3, <3>4, InsertFrontIs
    <3>7. Linked(i[s]) /\ DOMAIN i[s].lru = {q[j] : j \in s}
      BY <3>2, <3>5, <3>6 DEF With
    <3>8. \A x \in DOMAIN i[s].lru : Payload(i[s], x) = d[x]
      BY <3>2, <3>6 DEF With
    <3> QED  BY <3>7, <3>8
  <2> QED  BY <2>4, <2>5
<1>12. S \in SUBSET S /\ S \notin Bad
  BY <1>11
<1>13. /\ Linked(m) /\ DOMAIN m.lru = {q[j] : j \in S}
       /\ \A k \in DOMAIN m.lru : Payload(m, k) = d[k]
  BY <1>4, <1>12
<1> HIDE DEF Bad
<1>14. Cardinality(DOMAIN m.lru) <= Capacity
  <2>1. q \in Surjection(S, DOMAIN m.lru)
    BY <1>2, <1>3, <1>13 DEF Surjection, S
  <2>2. Cardinality(DOMAIN m.lru) <= size /\ Cardinality(DOMAIN m.lru) \in Nat
    BY <1>3, <2>1, FS_Surjection, FS_CardinalityType
  <2> QED  BY <1>1, <2>2, TokenCacheAssumption
<1>15. \A k \in DOMAIN m.lru : k \in Keys /\ Readable(d[k])
  <2>1. \A j \in S : q[j] \in Found(d)
    BY <1>2 DEF S
  <2> QED  BY <1>13, <2>1 DEF Found
<1> QED  BY <1>13, <1>14, <1>15 DEF WarmFrom

-----------------------------------------------------------------------------
\* A request is about to write the memory or the file of a key, or only the file.
UsingPlaces == {"promote", "unlink", "open", "write"}
\* Request r uses k's file, in state q of the requests.
Using(q, r, k) == q[r].key = k /\ q[r].pc \in UsingPlaces
Writing(q, r, k) == q[r].key = k /\ q[r].pc \in {"open", "write"}

\* Uses, of a state given by its parts.
UsesIn(q, u, w, k) ==
  Cardinality({r \in Requests : Using(q, r, k)}) + u[k] + (IF w.pc \in {"list", "remove"} THEN 1 ELSE 0)

\* A use of a key's file is the only one.
AloneIn(q, u, w, k) ==
  /\ \A r, s \in Requests : Using(q, r, k) /\ Using(q, s, k) => r = s
  /\ \A r \in Requests : Using(q, r, k) => u[k] = 0 /\ w.pc \notin {"list", "remove"}

\* The number of uses against the places of the requests: none means that no
\* request is about to write, one that nothing else is.
LEMMA UsesCount ==
  ASSUME NEW q, NEW u \in [Keys -> Nat], NEW w, NEW k \in Keys
  PROVE  /\ UsesIn(q, u, w, k) \in Nat
         /\ UsesIn(q, u, w, k) = 0 => \A r \in Requests : ~Using(q, r, k)
         /\ ~(UsesIn(q, u, w, k) > 1) => AloneIn(q, u, w, k)
<1> DEFINE S == {r \in Requests : Using(q, r, k)}
           c == Cardinality(S)
           x == u[k]
           y == IF w.pc \in {"list", "remove"} THEN 1 ELSE 0
<1>1. IsFiniteSet(S)
  BY TokenPathAssumption, FS_Subset
<1>2. c \in Nat /\ x \in Nat /\ y \in {0, 1}
  BY <1>1, FS_CardinalityType
<1>3. UsesIn(q, u, w, k) = c + x + y
  BY DEF UsesIn
<1>4. ASSUME NEW r \in S  PROVE c >= 1
  <2>1. c # 0
    BY <1>1, <1>4, FS_EmptySet
  <2> HIDE DEF c
  <2> QED  BY <1>2, <2>1
<1>5. ASSUME NEW r \in S, NEW s \in S, r # s  PROVE c >= 2
  <2>1. IsFiniteSet(S \ {r}) /\ Cardinality(S \ {r}) = c - 1
    BY <1>1, FS_RemoveElement
  <2>2. Cardinality(S \ {r}) # 0
    BY <1>5, <2>1, FS_EmptySet
  <2>3. c # 1
    BY <2>1, <2>2
  <2>4. c >= 1
    BY <1>4
  <2> HIDE DEF c
  <2> QED  BY <1>2, <2>3, <2>4
<1> HIDE DEF c, x, y
<1>6. UsesIn(q, u, w, k) \in Nat
  BY <1>2, <1>3
<1>7. UsesIn(q, u, w, k) = 0 => \A r \in Requests : ~Using(q, r, k)
  <2> HAVE UsesIn(q, u, w, k) = 0
  <2>1. c = 0
    BY <1>2, <1>3
  <2> QED  BY <1>4, <2>1
<1>8. ~(UsesIn(q, u, w, k) > 1) => AloneIn(q, u, w, k)
  <2> HAVE ~(UsesIn(q, u, w, k) > 1)
  <2>1. \A r, s \in Requests : Using(q, r, k) /\ Using(q, s, k) => r = s
    <3> SUFFICES ASSUME NEW r \in Requests, NEW s \in Requests, Using(q, r, k), Using(q, s, k), r # s
                 PROVE  FALSE
      OBVIOUS
    <3>1. c >= 2
      BY <1>5
    <3> QED  BY <1>2, <1>3, <3>1
  <2>2. ASSUME NEW r \in Requests, Using(q, r, k)  PROVE x = 0 /\ y = 0
    <3>1. c >= 1
      BY <1>4, <2>2
    <3> QED  BY <1>2, <1>3, <3>1
  <2> QED  BY <2>1, <2>2 DEF AloneIn, x, y
<1> QED  BY <1>6, <1>7, <1>8

\* The disk and the memory agree on a key, but for the one write under way.
CoherentIn(m, d, q, k) ==
  /\ k \in DOMAIN m.lru /\ Readable(d[k]) /\ (\A r \in Requests : ~Writing(q, r, k)) =>
       d[k] = Payload(m, k)
  /\ \A r \in Requests : q[r].pc = "promote" /\ q[r].key = k => d[k] = q[r].e
  /\ \A r \in Requests : Writing(q, r, k) /\ k \in DOMAIN m.lru => Payload(m, k) = q[r].e

\* The memory is sound; a key of which no two uses overlapped has had at most
\* one at a time, and its file and its entry agree.
CacheInv ==
  /\ Linked(mem) /\ Cardinality(DOMAIN mem.lru) <= Capacity
  /\ \A k \in Keys \ raced : AloneIn(req, unlinks, sweep, k) /\ CoherentIn(mem, disk, req, k)

\* Uses is UsesIn, of this state.
LEMMA UsesIsUsesIn ==
  \A k : Uses(k) = UsesIn(req, unlinks, sweep, k)
BY DEF Uses, UsesIn, Using, UsingPlaces

\* What a step of a running process does to raced.
RacedStep == raced' = (raced \ Afresh) \cup Overlap \cup Unsaved

\* After such a step a key that is not raced has one use at most. It was not
\* raced before, or a Put begins that has it to itself.
LEMMA AloneNext ==
  ASSUME PathTypeOK', RacedStep, NEW k \in Keys, k \notin raced'
  PROVE  /\ AloneIn(req', unlinks', sweep', k) /\ k \notin Unsaved
         /\ k \notin Afresh => k \notin raced
<1>1. ~(Uses(k)' > 1) /\ k \notin Unsaved /\ (k \notin Afresh => k \notin raced)
  <2>1. k \notin Overlap /\ k \notin Unsaved /\ (k \notin Afresh => k \notin raced)
    <3> HIDE DEF Overlap, Unsaved, Afresh
    <3> QED  BY Zenon DEF RacedStep
  <2> QED  BY <2>1 DEF Overlap
<1>2. Uses(k)' = UsesIn(req', unlinks', sweep', k)
  BY DEF Uses, UsesIn, Using, UsingPlaces
<1>3. unlinks' \in [Keys -> Nat]
  BY DEF PathTypeOK
<1>4. ~(UsesIn(req', unlinks', sweep', k) > 1)
  BY <1>1, <1>2
<1> HIDE DEF UsesIn, Unsaved, Afresh
<1> QED  BY <1>1, <1>3, <1>4, UsesCount

\* The one Put that may begin.
LEMMA AfreshIs ==
  ASSUME NEW r \in Requests, NEW place, Moves(r, place)
  PROVE  \A k \in Afresh : k = req[r].key /\ req[r].pc = "put" /\ place = "open"
BY DEF Afresh, At, Moves

\* Requests that are not about to write and do not come to be can move, and
\* keys can leave the memory, without the agreement being lost.
LEMMA CoherentStays ==
  ASSUME NEW m, NEW after, Fewer(after, m), NEW d, NEW q, NEW p, NEW k,
         CoherentIn(m, d, q, k),
         \A r \in Requests : q[r].pc \in UsingPlaces \/ p[r].pc \in UsingPlaces => p[r] = q[r]
  PROVE  CoherentIn(after, d, p, k)
<1>1. \A r \in Requests : Writing(p, r, k) <=> Writing(q, r, k)
  BY DEF Writing, UsingPlaces
<1>2. \A r \in Requests : Writing(p, r, k) => p[r] = q[r]
  BY DEF Writing, UsingPlaces
<1>3. \A r \in Requests : p[r].pc = "promote" => p[r] = q[r]
  BY DEF UsingPlaces
<1>4. k \in DOMAIN after.lru => k \in DOMAIN m.lru /\ Payload(after, k) = Payload(m, k)
  BY DEF Fewer
<1> QED  BY <1>1, <1>2, <1>3, <1>4 DEF CoherentIn

\* The cache of a process that starts with an empty disk.
LEMMA CacheInit ==
  Init => CacheInv
<1> SUFFICES ASSUME Init  PROVE CacheInv
  OBVIOUS
<1>1. mem = Empty /\ req = [r \in Requests |-> Idle] /\ raced = {}
      /\ unlinks = [k \in Keys |-> 0] /\ sweep = NoSweep
  BY DEF Init
<1>2. Linked(mem) /\ DOMAIN mem.lru = {} /\ Cardinality({}) = 0 /\ 0 <= Capacity
  BY <1>1, EmptyIsLinked, FS_EmptySet, TokenCacheAssumption
<1>3. \A r \in Requests : req[r].pc = "idle"
  BY <1>1 DEF Idle
<1>4. \A k \in Keys : AloneIn(req, unlinks, sweep, k) /\ CoherentIn(mem, disk, req, k)
  BY <1>2, <1>3 DEF AloneIn, CoherentIn, Using, UsingPlaces, Writing
<1> QED  BY <1>2, <1>4 DEF CacheInv

\* A key that stays in the memory keeps its entry.
Keeps(after, m, k) ==
  k \in DOMAIN after.lru => k \in DOMAIN m.lru /\ Payload(after, k) = Payload(m, k)

\* The agreement on a key is not lost by what concerns other keys.
LEMMA CoherentKeeps ==
  ASSUME NEW m, NEW after, NEW d, NEW c, NEW q, NEW p, NEW k,
         Keeps(after, m, k), c[k] = d[k], CoherentIn(m, d, q, k),
         \A x \in Requests : Using(q, x, k) \/ Using(p, x, k) => p[x] = q[x]
  PROVE  CoherentIn(after, c, p, k)
<1>1. \A x \in Requests : Writing(p, x, k) <=> Writing(q, x, k)
  BY DEF Writing, Using, UsingPlaces
<1>2. \A x \in Requests : Writing(p, x, k) => p[x] = q[x]
  BY DEF Writing, Using, UsingPlaces
<1>3. \A x \in Requests : p[x].pc = "promote" /\ p[x].key = k => p[x] = q[x]
  BY DEF Using, UsingPlaces
<1> QED  BY <1>1, <1>2, <1>3 DEF CoherentIn, Keeps

\* A file that is gone or torn agrees with any entry.
LEMMA CoherentGone ==
  ASSUME NEW m, NEW after, NEW d, NEW c, NEW q, NEW p, NEW k,
         Keeps(after, m, k), ~Readable(c[k]), CoherentIn(m, d, q, k),
         \A x \in Requests : p[x].key = k => p[x].pc # "promote",
         \A x \in Requests : Writing(p, x, k) => Writing(q, x, k) /\ p[x].e = q[x].e
  PROVE  CoherentIn(after, c, p, k)
BY DEF CoherentIn, Keeps

\* An entry that is in memory and in the file, while nothing else uses the key.
LEMMA CoherentPair ==
  ASSUME NEW after, NEW c, NEW p, NEW k,
         \A x \in Requests : ~Using(p, x, k),
         k \in DOMAIN after.lru => c[k] = Payload(after, k)
  PROVE  CoherentIn(after, c, p, k)
BY DEF CoherentIn, Using, UsingPlaces, Writing

\* A file that is gone, empty or torn is not used.
LEMMA NotReadable == ~Readable(None) /\ ~Readable(Torn) /\ ~Readable(Blank)
BY DEF Readable

\* The memories that the operators of the cache return, for one key.
LEMMA KeepsIs ==
  ASSUME NEW m, NEW after
  PROVE  /\ after = m => \A k : Keeps(after, m, k)
         /\ Fewer(after, m) => \A k : Keeps(after, m, k)
         /\ \A x, e : With(after, m, x, e) => \A k : k # x => Keeps(after, m, k)
         /\ \A x, e : With(after, m, x, e) /\ x \in DOMAIN after.lru => Payload(after, x) = e
BY DEF Keeps, Fewer, With

\* A memory with fewer keys is as sound.
Bounded(m) == Linked(m) /\ Cardinality(DOMAIN m.lru) <= Capacity

\* Keys that leave keep a memory within the capacity.
LEMMA FewerBounded ==
  ASSUME NEW m, Bounded(m), NEW after, Fewer(after, m)
  PROVE  Bounded(after)
<1>1. Linked(after) /\ DOMAIN after.lru \subseteq DOMAIN m.lru /\ DOMAIN m.lru \subseteq Keys
  BY DEF Bounded, Fewer, Linked
<1>2. IsFiniteSet(DOMAIN m.lru)
  BY <1>1, TokenCacheAssumption, FS_Subset
<1>3. Cardinality(DOMAIN after.lru) <= Cardinality(DOMAIN m.lru)
      /\ Cardinality(DOMAIN after.lru) \in Nat /\ Cardinality(DOMAIN m.lru) \in Nat
  BY <1>1, <1>2, FS_Subset, FS_CardinalityType
<1>4. Cardinality(DOMAIN m.lru) <= Capacity /\ Capacity \in Nat
  BY TokenCacheAssumption DEF Bounded
<1> QED  BY <1>1, <1>3, <1>4 DEF Bounded

\* What a step of a request does to the agreement on the other keys.
LEMMA OtherKeys ==
  ASSUME PathTypeOK, NEW r \in Requests, NEW place, Moves(r, place),
         NEW k, k # req[r].key,
         Keeps(mem', mem, k), disk'[k] = disk[k], CoherentIn(mem, disk, req, k)
  PROVE  CoherentIn(mem', disk', req', k)
<1>1. ~Using(req, r, k)
  BY DEF Using
<1>2. ~Using(req', r, k)
  BY DEF Using, UsingPlaces, Moves
<1>3. \A x \in Requests : x # r => req'[x] = req[x]
  BY DEF Moves
<1> DEFINE p == req'
           q == req
           after == mem'
           c == disk'
<1>4. \A x \in Requests : Using(q, x, k) \/ Using(p, x, k) => p[x] = q[x]
  BY <1>1, <1>2, <1>3
<1>5. Keeps(after, mem, k) /\ c[k] = disk[k] /\ CoherentIn(mem, disk, q, k)
  OBVIOUS
<1> HIDE DEF p, q, after, c
<1>6. CoherentIn(after, c, p, k)
  BY <1>4, <1>5, CoherentKeeps
<1> QED  BY <1>6 DEF p, after, c

\* A request that moves between places where it does not use its key.
LEMMA OwnKeyUnused ==
  ASSUME PathTypeOK, NEW r \in Requests, NEW place, Moves(r, place),
         req[r].pc \notin UsingPlaces, place \notin UsingPlaces,
         NEW k, Keeps(mem', mem, k), disk'[k] = disk[k], CoherentIn(mem, disk, req, k)
  PROVE  CoherentIn(mem', disk', req', k)
<1>1. ~Using(req, r, k) /\ ~Using(req', r, k)
  BY DEF Using, Moves
<1>3. \A x \in Requests : x # r => req'[x] = req[x]
  BY DEF Moves
<1> DEFINE p == req'
           q == req
           after == mem'
           c == disk'
<1>4. \A x \in Requests : Using(q, x, k) \/ Using(p, x, k) => p[x] = q[x]
  BY <1>1, <1>3
<1>5. Keeps(after, mem, k) /\ c[k] = disk[k] /\ CoherentIn(mem, disk, q, k)
  OBVIOUS
<1> HIDE DEF p, q, after, c
<1>6. CoherentIn(after, c, p, k)
  BY <1>4, <1>5, CoherentKeeps
<1> QED  BY <1>6 DEF p, after, c

\* A step of the cache keeps the memory sound and the agreement on every key.
LEMMA CacheStepKeeps ==
  ASSUME PathTypeOK, PathTypeOK', CacheInv, NEW r \in Requests, CacheStep(r), RacedStep
  PROVE  CacheInv'
<1> DEFINE key == req[r].key
<1>0. /\ req \in [Requests -> Request] /\ disk \in [Keys -> Entry] /\ mtime \in Nat
      /\ key \in Keys /\ req[r].e \in Entry /\ disk[key] \in Entry
  BY DEF PathTypeOK, Request
<1>1. Bounded(mem) /\ Linked(mem)
  BY DEF CacheInv, Bounded
<1>2. \A k \in Keys \ raced' :
        /\ k # key \/ req[r].pc # "put" =>
             AloneIn(req, unlinks, sweep, k) /\ CoherentIn(mem, disk, req, k)
        /\ AloneIn(req', unlinks', sweep', k) /\ k \notin Unsaved
  <2>1. \A k \in Afresh : k = key /\ req[r].pc = "put"
    BY CacheStepIs, AfreshIs
  <2>2. \A k \in Keys \ raced' :
          /\ AloneIn(req', unlinks', sweep', k) /\ k \notin Unsaved
          /\ k \notin Afresh => k \notin raced
    BY AloneNext
  <2> HIDE DEF Afresh, Unsaved, key
  <2>3. \A k \in Keys \ raced :
          AloneIn(req, unlinks, sweep, k) /\ CoherentIn(mem, disk, req, k)
    BY DEF CacheInv
  <2> QED  BY <2>1, <2>2, <2>3
<1>3. \A k \in Keys \ raced' : \A x, y \in Requests :
        /\ req[r].pc # "put" => (Using(req, x, k) /\ Using(req, y, k) => x = y)
        /\ Using(req', x, k) /\ Using(req', y, k) => x = y
  BY <1>2 DEF AloneIn
\* What is to be shown of a step.
<1>4. ASSUME NEW place, Moves(r, place), Bounded(mem'),
             \A k \in Keys : k # key => Keeps(mem', mem, k) /\ disk'[k] = disk[k],
             key \notin raced' => CoherentIn(mem', disk', req', key)
      PROVE  CacheInv'
  <2>1. \A k \in Keys \ raced' : CoherentIn(mem', disk', req', k)
    BY <1>2, <1>4, OtherKeys
  <2> QED  BY <1>2, <1>4, <2>1 DEF CacheInv, Bounded
<1>5. \A k : Keeps(mem, mem, k)
  BY DEF Keeps
<1>6. CASE LookUp(r)
  <2>1. /\ req[r].pc = "lookup" /\ UNCHANGED disk
        /\ \/ req' = [req EXCEPT ![r].pc = "load"]
           \/ req' = [req EXCEPT ![r].pc = "reserve"]
           \/ req' = [req EXCEPT ![r] = Idle]
        /\ \/ mem' = mem
           \/ key \in DOMAIN mem.lru /\ mem' = Touch(mem, key, Payload(mem, key))
           \/ key \in DOMAIN mem.lru /\ mem' = Drop(mem, key)
    BY <1>6 DEF LookUp, At, Goto, Return, Payload, InMemory
  <2>2. PICK place \in {"load", "reserve", "idle"} : Moves(r, place)
    <3>1. Moves(r, "load") \/ Moves(r, "reserve") \/ Moves(r, "idle")
      BY <2>1, MoveTo DEF Places
    <3> QED  BY <3>1
  <2>3. Fewer(mem', mem)
    <3>1. CASE mem' = mem
      BY <1>1, <3>1 DEF Fewer
    <3>2. CASE key \in DOMAIN mem.lru /\ mem' = Touch(mem, key, Payload(mem, key))
      <4>1. Payload(mem, key) \in Entry
        BY <1>1, <3>2, NodeOfIs DEF Payload, Node
      <4>2. With(mem', mem, key, Payload(mem, key)) /\ DOMAIN mem'.lru = DOMAIN mem.lru
        BY <1>1, <3>2, <4>1, TouchIs
      <4> QED  BY <4>2 DEF With, Fewer
    <3>3. CASE key \in DOMAIN mem.lru /\ mem' = Drop(mem, key)
      BY <1>1, <3>3, DropIs
    <3> QED  BY <2>1, <3>1, <3>2, <3>3
  <2>4. Bounded(mem') /\ \A k : Keeps(mem', mem, k)
    BY <1>1, <2>3, FewerBounded, KeepsIs
  <2>5. key \notin raced' => CoherentIn(mem', disk', req', key)
    <3> HAVE key \notin raced'
    <3>1. CoherentIn(mem, disk, req, key)
      BY <1>0, <1>2, <2>1
    <3>2. req[r].pc \notin UsingPlaces /\ place \notin UsingPlaces
      BY <2>1, <2>2 DEF UsingPlaces
    <3>3. Keeps(mem', mem, key) /\ disk'[key] = disk[key]
      BY <2>1, <2>4
    <3> QED  BY <2>2, <3>1, <3>2, <3>3, OwnKeyUnused
  <2> QED  BY <1>4, <2>1, <2>2, <2>4, <2>5
<1>7. CASE LoadFromDisk(r)
  <2>1. /\ req[r].pc = "load" /\ UNCHANGED <<mem, disk>>
        /\ \E e, place : /\ req' = [req EXCEPT ![r].e = e, ![r].pc = place]
                         /\ \/ place \in {"reserve", "unlink"} /\ e \in {None, disk[key]}
                            \/ place = "promote" /\ e = disk[key]
    <3>1. req[r].pc = "load" /\ UNCHANGED <<mem, disk>>
      BY <1>7 DEF LoadFromDisk, At, cacheVars
    <3>2. PICK d \in ReadsOf(disk) :
            req' = [req EXCEPT ![r].e = IF Readable(d[key]) /\ Fresh(key, d[key], mtime) THEN d[key] ELSE None,
                               ![r].pc = IF ~Readable(d[key]) THEN "reserve"
                                         ELSE IF Fresh(key, d[key], mtime) THEN "promote"
                                         ELSE "unlink"]
      BY <1>7 DEF LoadFromDisk
    <3>3. d[key] \in {disk[key], None}
      BY <1>0 DEF ReadsOf
    <3> DEFINE e == IF Readable(d[key]) /\ Fresh(key, d[key], mtime) THEN d[key] ELSE None
               place == IF ~Readable(d[key]) THEN "reserve"
                        ELSE IF Fresh(key, d[key], mtime) THEN "promote" ELSE "unlink"
    <3>4. \/ place \in {"reserve", "unlink"} /\ e \in {None, disk[key]}
          \/ place = "promote" /\ e = disk[key]
      BY <3>3, NotReadable
    <3>5. req' = [req EXCEPT ![r].e = e, ![r].pc = place]
      BY <3>2
    <3> HIDE DEF e, place
    <3> QED  BY <3>1, <3>4, <3>5
  <2>2. PICK e, place : /\ req' = [req EXCEPT ![r].e = e, ![r].pc = place]
                        /\ \/ place \in {"reserve", "unlink"} /\ e \in {None, disk[key]}
                           \/ place = "promote" /\ e = disk[key]
    BY <2>1
  <2>3. e \in Entry /\ place \in Places
    BY <1>0, <2>2 DEF None, Entry, Places
  <2>4. Moves(r, place)
    BY <2>2, <2>3, MoveEntry
  <2>5. req'[r].e = e /\ req'[r].pc = place
    BY <1>0, <2>2 DEF Request
  <2>6. key \notin raced' => CoherentIn(mem', disk', req', key)
    <3> HAVE key \notin raced'
    <3>1. CoherentIn(mem, disk, req, key)
      BY <1>0, <1>2, <2>1
    <3>2. \A x \in Requests : x # r => req'[x] = req[x]
      BY <2>4 DEF Moves
    <3>3. ~Writing(req, r, key) /\ ~Writing(req', r, key)
      BY <2>1, <2>2, <2>5 DEF Writing
    <3>4. \A x \in Requests : Writing(req', x, key) <=> Writing(req, x, key)
      BY <3>2, <3>3 DEF Writing
    <3>5. \A x \in Requests : Writing(req', x, key) => req'[x] = req[x]
      BY <3>2, <3>3
    <3>6. req'[r].pc = "promote" => disk[key] = req'[r].e
      BY <2>2, <2>5
    <3>7. mem' = mem /\ disk' = disk
      BY <2>1
    <3> QED  BY <3>1, <3>2, <3>4, <3>5, <3>6, <3>7 DEF CoherentIn
  <2> QED  BY <1>1, <1>4, <1>5, <2>1, <2>4, <2>6
<1>8. CASE UnlinkStale(r)
  <2>1. /\ req[r].pc = "unlink" /\ UNCHANGED mem
        /\ disk' = [disk EXCEPT ![key] = None] \/ disk' = disk
        /\ req' = [req EXCEPT ![r].pc = "reserve"]
    BY <1>8 DEF UnlinkStale, Unlink, At, Goto
  <2>2. Moves(r, "reserve")
    BY <2>1, MoveTo DEF Places
  <2>3. key \notin raced' => CoherentIn(mem', disk', req', key)
    <3> HAVE key \notin raced'
    <3>1. Using(req, r, key)
      BY <2>1 DEF Using, UsingPlaces
    <3>2. \A x \in Requests : ~Using(req', x, key)
      BY <1>0, <1>3, <2>1, <2>2, <3>1 DEF Moves, Using, UsingPlaces
    <3>3. ~Readable(disk'[key]) \/ disk' = disk
      BY <1>0, <2>1, NotReadable
    <3>4. CoherentIn(mem, disk, req, key)
      BY <1>0, <1>2, <2>1
    <3>5. \A x \in Requests : ~Writing(req, x, key)
      BY <1>0, <1>3, <2>1, <3>1 DEF Using, UsingPlaces, Writing
    <3> QED  BY <2>1, <3>2, <3>3, <3>4, <3>5 DEF CoherentIn, Using, UsingPlaces, Writing
  <2>4. \A k \in Keys : k # key => disk'[k] = disk[k]
    BY <1>0, <2>1
  <2> QED  BY <1>1, <1>4, <1>5, <2>1, <2>2, <2>3, <2>4
<1>9. CASE PromoteLoaded(r)
  <2>1. /\ req[r].pc = "promote" /\ UNCHANGED disk
        /\ mem' = Promote(mem, key, req[r].e) /\ req' = [req EXCEPT ![r] = Idle]
    BY <1>9 DEF PromoteLoaded, At, Return
  <2>2. Moves(r, "idle")
    BY <2>1, MoveTo
  <2>3. With(mem', mem, key, req[r].e) /\ Bounded(mem')
    BY <1>0, <1>1, <2>1, PromoteIs DEF Bounded, With
  <2>4. key \notin raced' => CoherentIn(mem', disk', req', key)
    <3> HAVE key \notin raced'
    <3>1. Using(req, r, key)
      BY <2>1 DEF Using, UsingPlaces
    <3>2. \A x \in Requests : ~Using(req', x, key)
      BY <1>0, <1>3, <2>1, <2>2, <3>1 DEF Moves, Using, UsingPlaces
    <3>3. CoherentIn(mem, disk, req, key)
      BY <1>0, <1>2, <2>1
    <3>4. disk[key] = req[r].e
      BY <2>1, <3>3 DEF CoherentIn
    <3>5. key \in DOMAIN mem'.lru => Payload(mem', key) = req[r].e
      BY <2>3 DEF With
    <3> QED  BY <2>1, <3>2, <3>4, <3>5 DEF CoherentIn, Using, UsingPlaces, Writing
  <2>5. \A k \in Keys : k # key => Keeps(mem', mem, k) /\ disk'[k] = disk[k]
    BY <2>1, <2>3, KeepsIs
  <2> QED  BY <1>4, <2>2, <2>3, <2>4, <2>5
<1>10. CASE PutInMemory(r)
  <2> DEFINE e == req[r].e
  <2>1. /\ req[r].pc = "put" /\ UNCHANGED disk
        /\ mem' = PutMemory(mem, key, e) /\ req' = [req EXCEPT ![r].pc = "open"]
    BY <1>10 DEF PutInMemory, At, Goto
  <2>2. e \in Entry
    BY <1>0
  <2>3. Moves(r, "open") /\ req'[r].e = e
    <3>1. Moves(r, "open")
      BY <2>1, MoveTo DEF Places
    <3>2. req'[r].e = e
      BY <1>0, <2>1 DEF Request
    <3> QED  BY <3>1, <3>2
  <2>4. With(mem', mem, key, e) /\ Bounded(mem')
    BY <1>0, <1>1, <2>1, <2>2, PutMemoryIs DEF Bounded, With
  <2>5. key \notin raced' => CoherentIn(mem', disk', req', key)
    <3> HAVE key \notin raced'
    <3>1. Writing(req', r, key) /\ Using(req', r, key) /\ req'[r].pc # "promote"
      BY <2>3 DEF Moves, Writing, Using, UsingPlaces
    <3>2. \A x \in Requests : Using(req', x, key) => x = r
      BY <1>0, <1>3, <3>1
    <3>3. key \in DOMAIN mem'.lru => Payload(mem', key) = e
      BY <2>4 DEF With
    <3> QED  BY <2>3, <3>1, <3>2, <3>3 DEF CoherentIn, Using, UsingPlaces, Writing
  <2>6. \A k \in Keys : k # key => Keeps(mem', mem, k) /\ disk'[k] = disk[k]
    BY <2>1, <2>4, KeepsIs
  <2> QED  BY <1>4, <2>3, <2>4, <2>5, <2>6
<1>11. CASE OpenFile(r)
  <2>1. /\ req[r].pc = "open" /\ UNCHANGED mem
        /\ disk' = [disk EXCEPT ![key] = Blank] /\ req' = [req EXCEPT ![r].pc = "write"]
    BY <1>11 DEF OpenFile, At, Goto
  <2>2. Moves(r, "write") /\ req'[r].e = req[r].e
    <3>1. Moves(r, "write")
      BY <2>1, MoveTo DEF Places
    <3>2. req'[r].e = req[r].e
      BY <1>0, <2>1 DEF Request
    <3> QED  BY <3>1, <3>2
  <2>3. key \notin raced' => CoherentIn(mem', disk', req', key)
    <3> HAVE key \notin raced'
    <3>1. Using(req', r, key) /\ Writing(req, r, key) /\ req'[r].pc # "promote"
      BY <2>1, <2>2 DEF Moves, Using, UsingPlaces, Writing
    <3>2. \A x \in Requests : Using(req', x, key) => x = r
      BY <1>0, <1>3, <3>1
    <3>3. CoherentIn(mem, disk, req, key)
      BY <1>0, <1>2, <2>1
    <3>4. key \in DOMAIN mem.lru => Payload(mem, key) = req[r].e
      BY <3>1, <3>3 DEF CoherentIn
    <3>5. disk'[key] = Blank /\ ~Readable(Blank)
      BY <1>0, <2>1, NotReadable
    <3> QED  BY <2>1, <2>2, <3>1, <3>2, <3>4, <3>5 DEF CoherentIn, Using, UsingPlaces, Writing
  <2>4. \A k \in Keys : k # key => disk'[k] = disk[k]
    BY <1>0, <2>1
  <2> QED  BY <1>1, <1>4, <1>5, <2>1, <2>2, <2>3, <2>4
<1>12. CASE WriteFile(r) \/ SaveFails(r)
  <2>1. /\ req[r].pc \in {"open", "write"} /\ UNCHANGED mem /\ req' = [req EXCEPT ![r] = Idle]
        /\ disk' = disk \/ \E e : disk' = [disk EXCEPT ![key] = e]
    <3>1. CASE WriteFile(r)
      BY <3>1 DEF WriteFile, At, Return
    <3>2. CASE SaveFails(r)
      BY <3>2 DEF SaveFails, At, Return
    <3> QED  BY <1>12, <3>1, <3>2
  <2>2. Moves(r, "idle")
    BY <2>1, MoveTo
  <2>3. key \notin raced' => CoherentIn(mem', disk', req', key)
    <3> HAVE key \notin raced'
    <3>1. Using(req, r, key) /\ Writing(req, r, key)
      BY <2>1 DEF Using, UsingPlaces, Writing
    <3>2. \A x \in Requests : ~Using(req', x, key)
      BY <1>0, <1>3, <2>1, <2>2, <3>1 DEF Moves, Using, UsingPlaces
    <3>3. CoherentIn(mem, disk, req, key)
      BY <1>0, <1>2, <2>1
    <3>4. key \in DOMAIN mem.lru => Payload(mem, key) = req[r].e
      BY <3>1, <3>3 DEF CoherentIn
    <3>5. key \notin Unsaved
      BY <1>0, <1>2
    <3>6. disk'[key] = req[r].e
      BY <1>0, <2>1, <2>2, <3>5 DEF Unsaved, Moves
    <3> QED  BY <2>1, <3>2, <3>4, <3>6 DEF CoherentIn, Using, UsingPlaces, Writing
  <2>4. \A k \in Keys : k # key => disk'[k] = disk[k]
    BY <1>0, <2>1
  <2> QED  BY <1>1, <1>4, <1>5, <2>1, <2>2, <2>3, <2>4
<1>13. CASE SnapshotMtime(r)
  <2> DEFINE e == [req[r].e EXCEPT !.at = IF req[r].key \in Sourced THEN mtime ELSE 0]
  <2>1. /\ req[r].pc = "stat" /\ UNCHANGED <<mem, disk>>
        /\ req' = [req EXCEPT ![r].pc = "put", ![r].e = e]
    BY <1>13 DEF SnapshotMtime, At, cacheVars
  <2>2. e \in Entry
    BY <1>0 DEF Entry
  <2> HIDE DEF e
  <2>3. Moves(r, "put")
    BY <2>1, <2>2, MoveEntry DEF Places
  <2>4. key \notin raced' => CoherentIn(mem', disk', req', key)
    <3> HAVE key \notin raced'
    <3>1. CoherentIn(mem, disk, req, key)
      BY <1>0, <1>2, <2>1
    <3>2. req[r].pc \notin UsingPlaces /\ "put" \notin UsingPlaces
      BY <2>1 DEF UsingPlaces
    <3>3. Keeps(mem', mem, key) /\ disk'[key] = disk[key]
      BY <1>5, <2>1
    <3> QED  BY <2>3, <3>1, <3>2, <3>3, OwnKeyUnused
  <2> QED  BY <1>1, <1>4, <1>5, <2>1, <2>3, <2>4
<1> QED  BY <1>6, <1>7, <1>8, <1>9, <1>10, <1>11, <1>12, <1>13 DEF CacheStep

\* A request on its way between the lookup and Put.
MoneyStep(r) ==
  \/ CheckBudget(r) \/ Answered(r) \/ Retry(r) \/ GiveUp(r) \/ ReleaseFailed(r)
  \/ CommitAnswered(r) \/ RecordCall(r)

\* It only counts events and answers.
LEMMA MoneyCounts ==
  ASSUME PathTypeOK, NEW r \in Requests, MoneyStep(r)
  PROVE  count' \in Counters /\ count'.restarts = count.restarts
<1>0. count \in Counters
  BY DEF PathTypeOK
<1>1. ASSUME NEW type, NEW usd, Enter(type, usd)
      PROVE  count' \in Counters /\ count'.restarts = count.restarts
  <2>1. UNCHANGED count \/ Event
    BY <1>1 DEF Enter
  <2> QED  BY <1>0, <2>1, EventType
<1>2. ASSUME NEW c, CommitCost(r, c)  PROVE count' \in Counters /\ count'.restarts = count.restarts
  <2>1. UNCHANGED count \/ Enter("commit", c)
    BY <1>2 DEF CommitCost
  <2> QED  BY <1>0, <1>1, <2>1
<1>3. CASE CheckBudget(r)
  <2>1. UNCHANGED count \/ Enter("reserve", CostOfReq(r))
    BY <1>3 DEF CheckBudget
  <2> QED  BY <1>0, <1>1, <2>1
<1>4. CASE Answered(r)
  BY <1>0, <1>4 DEF Answered, Counters
<1>5. CASE Retry(r) \/ GiveUp(r)
  BY <1>0, <1>5 DEF Retry, GiveUp
<1>6. CASE ReleaseFailed(r)
  BY <1>2, <1>6 DEF ReleaseFailed
<1>7. CASE CommitAnswered(r)
  BY <1>2, <1>7 DEF CommitAnswered
<1>8. CASE RecordCall(r)
  <2>1. UNCHANGED count \/ Event
    BY <1>8 DEF RecordCall
  <2> QED  BY <1>0, <2>1, EventType
<1> QED  BY <1>3, <1>4, <1>5, <1>6, <1>7, <1>8 DEF MoneyStep

\* It moves between places where nothing of the cache is written.
LEMMA MoneyStepIs ==
  ASSUME PathTypeOK, NEW r \in Requests, MoneyStep(r)
  PROVE  /\ mem' = mem /\ disk' = disk
         /\ \A x \in Requests : req[x].pc \in UsingPlaces \/ req'[x].pc \in UsingPlaces => req'[x] = req[x]
<1>0. req \in [Requests -> Request] /\ req[r] \in Request
  BY DEF PathTypeOK
<1>1. mem' = mem /\ disk' = disk
  BY DEF MoneyStep, CheckBudget, Answered, Retry, GiveUp, ReleaseFailed, CommitAnswered,
         RecordCall, cacheVars
<1> DEFINE from == {"reserve", "post", "failed", "answered", "record"}
           to == {"idle", "post", "failed", "answered", "record", "stat"}
<1>2. req[r].pc \in from /\ \E place \in to : Moves(r, place)
  <2>1. CASE CheckBudget(r)
    <3>1. req[r].pc = "reserve" /\ (req' = [req EXCEPT ![r].pc = "post"] \/ req' = [req EXCEPT ![r] = Idle])
      BY <2>1 DEF CheckBudget, At, Goto, Return
    <3>2. Moves(r, "post") \/ Moves(r, "idle")
      BY <3>1, MoveTo DEF Places
    <3> QED  BY <3>1, <3>2
  <2>2. CASE Answered(r)
    <3>1. count' \in Counters
      BY MoneyCounts
    <3>2. Moves(r, "answered")
      BY <2>2, <3>1, MoveAnswer
    <3>3. req[r].pc = "post"
      BY <2>2 DEF Answered, At
    <3> QED  BY <3>2, <3>3
  <2>3. CASE Retry(r)
    <3> DEFINE n == req[r].tries + 1
    <3>1. req[r].pc = "post" /\ n \in Nat /\ req' = [req EXCEPT ![r].tries = n]
      BY <1>0, <2>3 DEF Retry, At, Request
    <3> HIDE DEF n
    <3>2. Moves(r, "post")
      BY <3>1, MoveTries
    <3> QED  BY <3>1, <3>2
  <2>4. CASE GiveUp(r)
    <3>1. req[r].pc = "post" /\ req' = [req EXCEPT ![r].pc = "failed", ![r].tries = 0]
      BY <2>4 DEF GiveUp, At
    <3>2. "failed" \in Places /\ 0 \in Nat
      BY DEF Places
    <3>3. Moves(r, "failed")
      BY <3>1, <3>2, MoveTries
    <3> QED  BY <3>1, <3>3
  <2>5. CASE ReleaseFailed(r)
    <3>1. req[r].pc = "failed" /\ req' = [req EXCEPT ![r] = Idle]
      BY <2>5 DEF ReleaseFailed, At, Return
    <3>2. Moves(r, "idle")
      BY <3>1, MoveTo
    <3> QED  BY <3>1, <3>2
  <2>6. CASE CommitAnswered(r)
    <3>1. req[r].pc = "answered" /\ req' = [req EXCEPT ![r].pc = "record"]
      BY <2>6 DEF CommitAnswered, At, Goto
    <3>2. Moves(r, "record")
      BY <3>1, MoveTo DEF Places
    <3> QED  BY <3>1, <3>2
  <2>7. CASE RecordCall(r)
    <3>1. req[r].pc = "record" /\ req' = [req EXCEPT ![r].pc = "stat"]
      BY <2>7 DEF RecordCall, At, Goto
    <3>2. Moves(r, "stat")
      BY <3>1, MoveTo DEF Places
    <3> QED  BY <3>1, <3>2
  <2> QED  BY <2>1, <2>2, <2>3, <2>4, <2>5, <2>6, <2>7 DEF MoneyStep
<1>3. \A place \in to : place \notin UsingPlaces
  BY DEF UsingPlaces
<1>4. req[r].pc \notin UsingPlaces
  BY <1>2 DEF UsingPlaces
<1> QED  BY <1>1, <1>2, <1>3, <1>4 DEF Moves

\* So does a call that begins.
LEMMA CallIs ==
  ASSUME PathTypeOK, NEW r \in Requests, NEW k \in Keys, Call(r, k)
  PROVE  /\ mem' = mem /\ disk' = disk
         /\ \A x \in Requests : req[x].pc \in UsingPlaces \/ req'[x].pc \in UsingPlaces => req'[x] = req[x]
         /\ count'.restarts = count.restarts
<1>1. req[r].pc = "idle" /\ count' = [count EXCEPT !.calls = @ + 1]
      /\ UNCHANGED cacheVars /\ Moves(r, "lookup")
  BY MoveCall
<1>2. count'.restarts = count.restarts
  BY <1>1 DEF PathTypeOK, Counters
<1> QED  BY <1>1, <1>2 DEF Moves, UsingPlaces, cacheVars

\* Whatever leaves the files alone, takes entries only away from memory and
\* moves no request that is about to write keeps the cache coherent.
LEMMA CacheStays ==
  ASSUME PathTypeOK, PathTypeOK', CacheInv, RacedStep,
         Fewer(mem', mem), disk' = disk,
         \A x \in Requests : req[x].pc \in UsingPlaces \/ req'[x].pc \in UsingPlaces => req'[x] = req[x]
  PROVE  CacheInv'
<1>1. Bounded(mem')
  BY FewerBounded DEF CacheInv, Bounded
<1>2. \A k \in Keys \ raced' : AloneIn(req', unlinks', sweep', k) /\ CoherentIn(mem, disk, req, k)
  <2>1. Afresh = {}
    BY DEF Afresh, At, UsingPlaces
  <2>2. \A k \in Keys \ raced' : AloneIn(req', unlinks', sweep', k) /\ (k \notin Afresh => k \notin raced)
    BY AloneNext
  <2> HIDE DEF Afresh
  <2> QED  BY <2>1, <2>2 DEF CacheInv
<1>3. \A k \in Keys \ raced' : CoherentIn(mem', disk', req', k)
  <2> DEFINE p == req'
             after == mem'
  <2>1. \A x \in Requests : req[x].pc \in UsingPlaces \/ p[x].pc \in UsingPlaces => p[x] = req[x]
    OBVIOUS
  <2>2. Fewer(after, mem)
    OBVIOUS
  <2> HIDE DEF p, after
  <2>3. \A k \in Keys \ raced' : CoherentIn(after, disk, p, k)
    BY <1>2, <2>1, <2>2, CoherentStays
  <2> QED  BY <2>3 DEF p, after
<1> QED  BY <1>1, <1>2, <1>3 DEF CacheInv, Bounded

\* A file that is removed by a sweep or a goroutine of InvalidateByMtime.
LEMMA RemovalKeeps ==
  ASSUME PathTypeOK, PathTypeOK', CacheInv, RacedStep,
         UNCHANGED <<mem, req>>,
         NEW k \in Keys, disk' = [disk EXCEPT ![k] = None],
         unlinks[k] # 0 \/ sweep.pc = "remove"
  PROVE  CacheInv'
<1>1. \A x \in Keys \ raced' :
        /\ AloneIn(req', unlinks', sweep', x)
        /\ AloneIn(req, unlinks, sweep, x) /\ CoherentIn(mem, disk, req, x)
  <2>1. Afresh = {}
    BY DEF Afresh, At
  <2>2. \A x \in Keys \ raced' : AloneIn(req', unlinks', sweep', x) /\ (x \notin Afresh => x \notin raced)
    BY AloneNext
  <2> HIDE DEF Afresh
  <2> QED  BY <2>1, <2>2 DEF CacheInv
<1>2. ASSUME NEW x \in Keys \ raced'  PROVE CoherentIn(mem', disk', req', x)
  <2>1. CASE x # k
    <3>1. disk'[x] = disk[x]
      BY <2>1 DEF PathTypeOK
    <3> QED  BY <1>1, <3>1 DEF CoherentIn
  <2>2. CASE x = k
    <3>1. \A r \in Requests : ~Using(req, r, x)
      BY <1>1, <2>2 DEF AloneIn
    <3>2. disk'[x] = None /\ ~Readable(None)
      BY <2>2, NotReadable DEF PathTypeOK
    <3> QED  BY <3>1, <3>2 DEF CoherentIn, Using, UsingPlaces, Writing
  <2> QED  BY <2>1, <2>2
<1> QED  BY <1>1, <1>2 DEF CacheInv

\* What goes on beside the requests.
LEMMA BesideCache ==
  ASSUME PathTypeOK, PathTypeOK', CacheInv, RacedStep, Beside \/ Midnight
  PROVE  CacheInv'
<1>0. Linked(mem) /\ Fewer(mem, mem)
  BY FewerRefl DEF CacheInv
<1>1. CASE StartClear
  <2>1. mem' \in {Empty, mem} /\ disk' = disk /\ req' = req
    BY <1>1 DEF StartClear
  <2>2. Fewer(Empty, mem)
    BY EmptyIsLinked DEF Fewer
  <2> QED  BY <1>0, <2>1, <2>2, CacheStays
<1>2. CASE ListFiles \/ StatSource \/ EditSource \/ Midnight
  <2>1. mem' = mem /\ disk' = disk /\ req' = req
    BY <1>2 DEF ListFiles, StatSource, EditSource, Midnight, cacheVars
  <2> QED  BY <1>0, <2>1, CacheStays
<1>3. CASE RemoveFile
  <2>1. /\ sweep.pc = "remove" /\ UNCHANGED <<mem, req>>
        /\ (\E k \in sweep.todo : disk' = [disk EXCEPT ![k] = None]) \/ disk' = disk
    BY <1>3 DEF RemoveFile, Unlink
  <2>2. CASE disk' = disk
    BY <1>0, <2>1, <2>2, CacheStays
  <2>3. CASE \E k \in sweep.todo : disk' = [disk EXCEPT ![k] = None]
    <3>1. sweep.todo \subseteq Keys
      BY DEF PathTypeOK, SweepState
    <3> QED  BY <2>1, <2>3, <3>1, RemovalKeeps
  <2> QED  BY <2>1, <2>2, <2>3
<1>4. CASE InvalidateByMtime
  <2>1. mem' = Invalidate(mem, sweep.seen) /\ disk' = disk /\ req' = req
    BY <1>4 DEF InvalidateByMtime
  <2>2. Fewer(mem', mem)
    BY <1>0, <2>1, InvalidateIs
  <2> QED  BY <2>1, <2>2, CacheStays
<1>5. ASSUME NEW k \in Keys, UnlinkInvalid(k)  PROVE CacheInv'
  <2>1. /\ unlinks[k] > 0 /\ UNCHANGED <<mem, req>>
        /\ disk' = [disk EXCEPT ![k] = None] \/ disk' = disk
    BY <1>5 DEF UnlinkInvalid, Unlink
  <2>2. unlinks[k] # 0
    BY <2>1 DEF PathTypeOK
  <2>3. CASE disk' = disk
    BY <1>0, <2>1, <2>3, CacheStays
  <2>4. CASE disk' = [disk EXCEPT ![k] = None]
    BY <2>1, <2>2, <2>4, RemovalKeeps
  <2> QED  BY <2>1, <2>3, <2>4
<1> QED  BY <1>1, <1>2, <1>3, <1>4, <1>5 DEF Beside

\* A process that starts has what it reads of the disk.
LEMMA RestartCache ==
  ASSUME PathTypeOK, PathTypeOK', Restart
  PROVE  CacheInv'
<1>1. /\ disk' = disk /\ req' = [r \in Requests |-> Idle]
      /\ unlinks' = [k \in Keys |-> 0] /\ sweep' = NoSweep
  BY DEF Restart
<1>2. PICK d \in ReadsOf(disk) : mem' \in Warm(d)
  BY DEF Restart
<1>3. d \in [Keys -> Entry] /\ \A k \in Keys : d[k] \in {disk[k], None}
  BY <1>2 DEF ReadsOf, PathTypeOK, None, Entry
<1>4. WarmFrom(mem', d)
  BY <1>2, <1>3, WarmIs
<1>6. \A r \in Requests : req'[r].pc = "idle"
  BY <1>1, IdleType
<1>7. \A k \in Keys : AloneIn(req', unlinks', sweep', k)
  BY <1>6 DEF AloneIn, Using, UsingPlaces
<1>8. \A k \in Keys : CoherentIn(mem', disk', req', k)
  BY <1>1, <1>3, <1>4, <1>6, NotReadable DEF CoherentIn, WarmFrom, Writing
<1> QED  BY <1>4, <1>7, <1>8 DEF CacheInv, WarmFrom

\* Every step keeps the cache.
LEMMA CacheInvStep ==
  PathTypeOK /\ PathTypeOK' /\ CacheInv /\ [Next]_vars => CacheInv'
<1> SUFFICES ASSUME PathTypeOK, PathTypeOK', CacheInv, [Next]_vars  PROVE CacheInv'
  OBVIOUS
<1>1. CASE UNCHANGED vars
  BY <1>1 DEF vars, cacheVars, CacheInv
<1>2. CASE Next
  <2>1. (count'.restarts = count.restarts => RacedStep) /\ Anything
    <3> HIDE DEF Afresh, Unsaved, Overlap
    <3> QED  BY <1>2 DEF Next, RacedStep
  <2>2. Fewer(mem, mem)
    BY FewerRefl DEF CacheInv
  <2>3. ASSUME NEW r \in Requests, Step(r)  PROVE CacheInv'
    <3>1. CASE CacheStep(r)
      BY <2>1, <3>1, CacheStepIs, CacheStepKeeps
    <3>2. CASE MoneyStep(r)
      BY <2>1, <2>2, <3>2, MoneyCounts, MoneyStepIs, CacheStays
    <3> QED  BY <2>3, <3>1, <3>2 DEF Step, CacheStep, MoneyStep
  <2>4. ASSUME NEW r \in Requests, NEW k \in Keys, Call(r, k)  PROVE CacheInv'
    BY <2>1, <2>2, <2>4, CallIs, CacheStays
  <2>5. CASE Beside \/ Midnight
    <3>1. count'.restarts = count.restarts
      <4>1. count \in Counters
        BY DEF PathTypeOK
      <4> QED  BY <2>5, <4>1, BesideIs, EventType DEF Midnight
    <3> QED  BY <2>1, <2>5, <3>1, BesideCache
  <2>6. CASE Restart
    BY <2>6, RestartCache
  <2> QED  BY <2>1, <2>3, <2>4, <2>5, <2>6 DEF Anything, Beside
<1> QED  BY <1>1, <1>2

\* The cache's invariant holds in every reachable state.
THEOREM CacheInvHolds == Spec => []CacheInv
<1> DEFINE Both == PathInv /\ CacheInv
<1>1. Init => Both
  BY PathInit, CacheInit DEF PathInv
<1>2. Both /\ [Next]_vars => Both'
  BY PathStep, CacheInvStep DEF PathInv
<1> QED  BY <1>1, <1>2, PTL DEF Spec

\* CacheSound: whatever the order of the concurrent Gets, Puts, evictions,
\* clears, invalidations, restarts and failures, the map of the cache stays
\* within its capacity and points only at nodes of the list; and from a Put that
\* has its key's file to itself, or a restart, until two uses of the file overlap
\* or a save fails, the file never holds another payload than memory (cache.go).
THEOREM CacheSoundHolds == Spec => []CacheSound
<1>1. PathInv /\ CacheInv => CacheSound
  <2> SUFFICES ASSUME PathInv, CacheInv  PROVE CacheSound
    OBVIOUS
  <2>1. Linked(mem) /\ Cardinality(DOMAIN mem.lru) <= Capacity
    BY DEF CacheInv
  <2>2. Sound(mem)
    BY <2>1 DEF Linked, Sound, Range
  <2>3. ASSUME NEW k \in DOMAIN mem.lru \ raced, Uses(k) = 0, Readable(disk[k])
        PROVE  disk[k] = NodeOf(mem, k).e
    <3>1. k \in Keys \ raced
      BY <2>1, <2>3 DEF Linked
    <3>2. CoherentIn(mem, disk, req, k)
      BY <3>1 DEF CacheInv
    <3>3. \A r \in Requests : ~Using(req, r, k)
      BY <2>3, <3>1, UsesCount, UsesIsUsesIn DEF PathInv, PathTypeOK
    <3> QED  BY <2>3, <3>2, <3>3 DEF CoherentIn, Using, UsingPlaces, Writing, Payload
  <2> QED  BY <2>2, <2>3 DEF CacheSound
<1> QED  BY <1>1, PathInvHolds, CacheInvHolds, PTL
=============================================================================
