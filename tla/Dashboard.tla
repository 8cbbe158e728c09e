------------------------------- MODULE Dashboard -------------------------------
(***************************************************************************)
(* "clue-code tui" (internal/tui): the root model, which passes every      *)
(* message that is not its own to all six views, and the views. The        *)
(* sessions and the state view list the registry; agents, skills and hooks *)
(* are lists with a selected row, of which only the lengths matter here.   *)
(* A command (tea.Cmd) runs in a goroutine of its own and its result comes *)
(* back as a message, in any order.                                        *)
(***************************************************************************)
EXTENDS SessionRegistry

CONSTANTS
  TermSizes,      \* <<columns, rows>> the terminal may have
  MaxEntries,     \* bound on the agents, the skills and the body of one
  MaxHookEvents,  \* entries of the hooks log that are kept, 20 in the code
  Loads           \* slots for the loads of the sessions view that overlap

ASSUME DashboardAssumption ==
  /\ TermSizes \subseteq Nat \X Nat
  /\ MaxEntries \in Nat /\ MaxHookEvents \in Nat

VARIABLES
  tui,       \* "off", "up" or "quit"
  size,      \* the terminal's, <<0, 0>> before the first message about it
  pending,   \* views whose load is on its way
  rows,      \* agents, skills, hooks: the number of rows, or an error
  cursor,    \* and the selected and the first visible row, and whether
             \* the detail of the selected row is shown
  listed,    \* sessions and state: the list shown
  top,       \* and its first visible row
  loads,     \* loads of the sessions view: idle, asked for, or a list read
  watchers   \* its watchers: 0, 1, or 2 for more than one

dashVars == <<tui, size, pending, rows, cursor, listed, top, loads, watchers>>

\* The tab that is on the screen decides which of the views is drawn, and
\* nothing else: every one of them may be.
Views == {"sessions", "agents", "skills", "tokens", "state", "hooks"}
Pickers == {"agents", "skills", "hooks"}
Sheets == {"sessions", "state"}
NoDir == MaxEntries + MaxHookEvents + 1   \* the directory or the log is not readable

Idle == [at |-> "idle", list |-> <<>>]
Asked == [at |-> "asked", list |-> <<>>]
FirstLoad == CHOOSE s \in Loads : TRUE

\* Bounds: the lists of the pickers are loaded while no session starts, and
\* loads of the sessions view that overlap while one does.
Quiet == \A p \in Starters : at[p] = "off"
Counts(max) == IF Quiet THEN 0..max \cup {NoDir} ELSE {0}
Reloads == IF Quiet THEN {"state", "hooks"} ELSE {"state"}
Slots == IF Quiet THEN {FirstLoad} ELSE Loads

Smaller(a, b) == IF a < b THEN a ELSE b
Larger(a, b) == IF a > b THEN a ELSE b

DashTypeOK ==
  /\ tui \in {"off", "up", "quit"}
  /\ size \in TermSizes \cup {<<0, 0>>}
  /\ pending \subseteq Pickers \cup {"state"}
  /\ rows \in [Pickers -> 0..MaxEntries \cup 0..MaxHookEvents \cup {NoDir}]
  /\ cursor \in [Pickers -> [selected : Nat, offset : Nat, detail : BOOLEAN]]
  /\ listed \in [Sheets -> Lists] /\ top \in [Sheets -> Nat]
  /\ loads \in [Loads -> [at : {"idle", "asked", "read"}, list : Lists]]
  /\ watchers \in 0..2

\* Init of the root runs the six Init commands; the sessions view has a load
\* and a watcher. The composition says which of the other loads it follows.
DashInit ==
  /\ size = <<0, 0>>
  /\ rows = [v \in Pickers |-> 0]
  /\ cursor = [v \in Pickers |-> [selected |-> 0, offset |-> 0, detail |-> FALSE]]
  /\ listed = [v \in Sheets |-> <<>>] /\ top = [v \in Sheets |-> 0]
  /\ loads = [s \in Loads |-> IF s = FirstLoad THEN Asked ELSE Idle]
  /\ watchers = 1

\* The number of rows of a picker that holds some.
Held(v) == IF rows[v] = NoDir THEN 0 ELSE rows[v]

\* The children have one row less than the terminal, for the tab bar.
ChildRows == size[2] - 1
SheetRows == IF ChildRows < 3 THEN 0 ELSE ChildRows - 3
PickerRows == IF ChildRows < 4 THEN 1 ELSE ChildRows - 3

-----------------------------------------------------------------------------
\* What a view cuts out of what it holds: from, to, and the length it is cut
\* from. A cut with a negative end or with its ends crossed is a panic.
Cut(from, to, of) == [from |-> from, to |-> to, of |-> of]

Window(offset, visible, of) == Cut(offset, Smaller(offset + visible, of), of)

\* truncateLines of a body of n lines, each at least as long as the screen.
DetailCuts(v, n) ==
  {Cut(cursor[v].selected, cursor[v].selected + 1, Held(v))}
  \cup (IF n > ChildRows - 3 THEN {Cut(0, ChildRows - 3, n)} ELSE {})
  \cup {Cut(0, size[1] - 4, size[1])}

PickerCuts(v) ==
  IF Held(v) = 0 THEN {}
  ELSE IF cursor[v].detail THEN UNION {DetailCuts(v, n) : n \in 1..MaxEntries}
  ELSE {Window(cursor[v].offset, PickerRows, Held(v)),
        Cut(0, IF v = "hooks" THEN size[1] - 1 ELSE size[1] - 2, size[1])}

SheetCuts(v) ==
  IF listed[v] = <<>> THEN {} ELSE {Window(top[v], SheetRows, Len(listed[v]))}

\* The tokens view has no cursor; its reports are drawn as they are.
TokensCuts == {Cut(0, size[1] - 1, size[1])}

\* View: nothing is drawn before the size is known.
Cuts(v) ==
  IF size[1] = 0 THEN {}
  ELSE IF v \in Pickers THEN PickerCuts(v)
  ELSE IF v \in Sheets THEN SheetCuts(v)
  ELSE TokensCuts

-----------------------------------------------------------------------------
\* A load of the sessions view takes a free slot.
AskForSessions == \E s \in Slots : loads[s] = Idle /\ loads' = [loads EXCEPT ![s] = Asked]

\* A message about the size goes to all the views; none of them moves its rows.
Resize(s) ==
  /\ size' = s
  /\ UNCHANGED <<tui, pending, rows, cursor, listed, top, loads, watchers>>

\* The root's own key: the children never see it.
KeyQ ==
  /\ tui' = "quit"
  /\ UNCHANGED <<size, pending, rows, cursor, listed, top, loads, watchers>>

\* Mistake: the last row is taken for the one before the last.
DownPast(v) ==
  LET c == cursor[v]
  IN IF c.detail \/ c.selected + 1 > Held(v) THEN c
     ELSE [c EXCEPT !.selected = @ + 1,
                    !.offset = IF c.selected + 1 >= @ + PickerRows THEN @ + 1 ELSE @]

\* A picker that shows the detail of a row ignores j and k.
Down(v) ==
  LET c == cursor[v]
  IN IF c.detail \/ c.selected + 1 >= Held(v) THEN c
     ELSE [c EXCEPT !.selected = @ + 1,
                    !.offset = IF c.selected + 1 >= @ + PickerRows THEN @ + 1 ELSE @]

Up(v) ==
  LET c == cursor[v]
  IN IF c.detail \/ c.selected = 0 THEN c
     ELSE [c EXCEPT !.selected = @ - 1,
                    !.offset = IF c.selected - 1 < @ THEN @ - 1 ELSE @]

\* Every view gets the key, whichever is on the screen.
KeyJ ==
  /\ cursor' = [v \in Pickers |-> Down(v)]
  /\ top' = [v \in Sheets |->
               IF top[v] + SheetRows < Len(listed[v]) THEN top[v] + 1 ELSE top[v]]
  /\ UNCHANGED <<tui, size, pending, rows, listed, loads, watchers>>

KeyK ==
  /\ cursor' = [v \in Pickers |-> Up(v)]
  /\ top' = [v \in Sheets |-> Larger(top[v], 1) - 1]
  /\ UNCHANGED <<tui, size, pending, rows, listed, loads, watchers>>

\* The hooks view has no detail.
KeyEnter ==
  /\ cursor' = [v \in Pickers |->
       [cursor[v] EXCEPT !.detail = @ \/ (v # "hooks" /\ Held(v) > 0)]]
  /\ UNCHANGED <<tui, size, pending, rows, listed, top, loads, watchers>>

KeyEsc ==
  /\ cursor' = [v \in Pickers |-> [cursor[v] EXCEPT !.detail = FALSE]]
  /\ UNCHANGED <<tui, size, pending, rows, listed, top, loads, watchers>>

\* Agents and skills are read once. A second reload that is on its way adds
\* nothing to the first: it does what pressing the key later would.
KeyR ==
  /\ pending' = pending \cup Reloads
  /\ AskForSessions
  /\ UNCHANGED <<tui, size, rows, cursor, listed, top, watchers>>

\* agentsLoadedMsg, skillsLoadedMsg, hooksLoadedMsg: the cursor goes to the
\* first row, in the hooks view to the last.
PickerLoaded(v, n) ==
  /\ v \in pending
  /\ pending' = pending \ {v}
  /\ rows' = [rows EXCEPT ![v] = n]
  /\ cursor' = [cursor EXCEPT ![v].offset = 0,
       ![v].selected = IF v = "hooks" /\ n \notin {0, NoDir} THEN n - 1 ELSE 0]
  /\ UNCHANGED <<tui, size, listed, top, loads, watchers>>

Loaded ==
  \/ \E v \in {"agents", "skills"}, n \in Counts(MaxEntries) : PickerLoaded(v, n)
  \/ \E n \in Counts(MaxHookEvents) : PickerLoaded("hooks", n)

Show(v, list) == listed' = [listed EXCEPT ![v] = list] /\ top' = [top EXCEPT ![v] = 0]

\* reloadMsg: the state view reads the index in Update itself.
StateReload ==
  /\ "state" \in pending
  /\ pending' = pending \ {"state"}
  /\ Show("state", index)
  /\ UNCHANGED <<tui, size, rows, cursor, loads, watchers>>

-----------------------------------------------------------------------------
\* loadSessionsCmd reads the index; its message is delivered later.
LoadReads(s) ==
  /\ loads[s] = Asked
  /\ loads' = [loads EXCEPT ![s] = [at |-> "read", list |-> index]]
  /\ UNCHANGED <<tui, size, pending, rows, cursor, listed, top, watchers>>

More(n) == Smaller(n + 1, 2)

\* sessionsReloadMsg: the list is replaced, and one more watcher starts.
LoadDelivers(s) ==
  /\ loads[s].at = "read"
  /\ loads' = [loads EXCEPT ![s] = Idle]
  /\ Show("sessions", loads[s].list)
  /\ watchers' = More(watchers)
  /\ UNCHANGED <<tui, size, pending, rows, cursor>>

\* sessionsFsnotifyMsg, at a change of the directory or after 5 s: a load and
\* a watcher in the place of the one that fired.
Rewatch ==
  /\ watchers > 0
  /\ AskForSessions
  /\ UNCHANGED watchers

WatcherFires ==
  /\ Rewatch
  /\ UNCHANGED <<tui, size, pending, rows, cursor, listed, top>>

DashCode == (\E s \in Loads : LoadReads(s) \/ LoadDelivers(s)) \/ WatcherFires

Keys ==
  \/ KeyQ \/ KeyJ \/ KeyK \/ KeyEnter \/ KeyEsc \/ KeyR
  \/ \E s \in TermSizes : Resize(s)

DashNext ==
  /\ tui = "up"
  /\ Keys \/ Loaded \/ StateReload \/ DashCode
=============================================================================
