------------------------------ MODULE SpendMeter ------------------------------
(***************************************************************************)
(* The daily budget and the books beside it: internal/tokens/budget.go and *)
(* analytics.go. A meter b is the in-memory state [spent, reserved, day]   *)
(* of a budget; every operator is one method, which holds b.mu throughout. *)
(* Amounts are whole numbers. A method reads the clock for checkDailyReset *)
(* and again for the time of its line: TokenPath lets the day end between. *)
(* The two books are files of lines, which may be cut short by a write     *)
(* that fails; nobody is told.                                             *)
(***************************************************************************)
EXTENDS Integers, Sequences, FiniteSetsExt, Functions

CONSTANT Limit   \* dailyLimitUSD

ASSUME LimitAssumption == Limit \in Nat

NewMeter(today) == [spent |-> 0, reserved |-> 0, day |-> today]

\* checkDailyReset.
RollOver(b, today) == IF b.day = today THEN b ELSE NewMeter(today)

\* Mistake: what other calls have reserved is not counted.
FitsSpent(b, cost, today) ==
  LET m == RollOver(b, today) IN m.spent + cost <= Limit

\* CheckAndReserve refuses what the limit does not hold.
Fits(b, cost, today) ==
  LET m == RollOver(b, today) IN m.spent + m.reserved + cost <= Limit

Reserve(b, cost, today) == [RollOver(b, today) EXCEPT !.reserved = @ + cost]

\* Moving an amount from reserved to spent, with reserved clamped at zero.
Settle(m, cost) ==
  [m EXCEPT !.reserved = IF @ >= cost THEN @ - cost ELSE 0, !.spent = @ + cost]

\* Commit.
Commit(b, cost, today) == Settle(RollOver(b, today), cost)

\* replayLedger: the meter a new process makes of lines of the ledger.
Replay(ledger, today) ==
  LET m[n \in 0..Len(ledger)] ==
        IF n = 0 THEN NewMeter(today)
        ELSE IF ledger[n].day # today THEN m[n - 1]
        ELSE IF ledger[n].type = "reserve"
             THEN [m[n - 1] EXCEPT !.reserved = @ + ledger[n].usd]
             ELSE Settle(m[n - 1], ledger[n].usd)
  IN m[Len(ledger)]

-----------------------------------------------------------------------------
\* A book: the lines that can be read, and how the file ends: with a newline,
\* inside a line, or with a whole line whose newline is missing.
EmptyBook == [lines |-> <<>>, end |-> "newline"]

\* The lines that are still read when more is written to a file that does not
\* end with a newline: what is written joins the last one.
Separate(book) ==
  IF book.end = "whole" THEN SubSeq(book.lines, 1, Len(book.lines) - 1) ELSE book.lines

\* appendLedger and Record: the line and its newline are appended,
Appended(book, line) ==
  [lines |-> IF book.end = "newline" THEN Append(book.lines, line) ELSE Separate(book),
   end |-> "newline"]

\* or the file cannot be opened, or the write ends early: the error is logged.
CutShort(book, line) ==
  {book, [lines |-> Separate(book), end |-> "part"]}
    \cup (IF book.end = "newline" THEN {[lines |-> Append(book.lines, line), end |-> "whole"]}
          ELSE {})

\* What lines of the ledger say was spent.
Committed(ledger) ==
  SumFunctionOnSet([i \in DOMAIN ledger |-> ledger[i].usd],
                   {i \in DOMAIN ledger : ledger[i].type = "commit"})

\* What Summary reports for the calls since a day (readLedgerSince).
SummaryTotal(calls, since) ==
  SumFunctionOnSet([i \in DOMAIN calls |-> calls[i].usd],
                   {i \in DOMAIN calls : calls[i].day >= since})
=============================================================================
