-------------------------------- MODULE Viewer --------------------------------
(***************************************************************************)
(* The interactive case viewer, caseforge-tui: the reducer of app.ts and   *)
(* the loop of runtime.ts around it.                                       *)
(*                                                                         *)
(* A key is reduced at once.  The frame of the new state is drawn in the   *)
(* background: the list of cases in the same turn, a case after reads of   *)
(* its directory, during which more keys arrive, more draws begin and an   *)
(* investigation writes.  A draw that ends writes its frame to the screen  *)
(* and its counts over `counts', which bound the cursors of later keys.    *)
(***************************************************************************)
EXTENDS Integers

CONSTANTS
  LastRun,      \* index of the last case listed when the viewer started
  MaxItems,     \* bound: items of each list of a case
  Slots         \* bound: as many draws in progress when a key arrives

Panels == {"findings", "timeline", "coverage"}

Runs == 0 .. LastRun

ASSUME ViewerAssumption == LastRun \in Nat /\ MaxItems \in [Panels -> Nat]

VARIABLES
  lists,        \* how many findings, events and rows each directory holds
  state,        \* AppState
  counts,       \* DrawCounts
  draws,        \* the draws in progress
  screen,       \* the state whose frame is on the screen
  alone,        \* the last key found no draw in progress (history)
  calm          \* nor did any key since the case was opened (history)

vars == <<lists, state, counts, draws, screen, alone, calm>>

NextPanel ==
  [findings |-> "timeline", timeline |-> "coverage", coverage |-> "findings"]

DetailOf ==
  [findings |-> "detail", timeline |-> "timeline-detail",
   coverage |-> "coverage-detail"]

Views == {"picker", "case"} \cup {DetailOf[p] : p \in Panels}

\* at[p] is the cursor of panel p: finding, timeline or coverage.
AppStates ==
  [view: Views, cursor: Runs, at: [Panels -> Nat], panel: Panels, quit: BOOLEAN]

DrawCounts == [Panels -> Nat]

NoCounts == [p \in Panels |-> 0]

initialState ==
  [view |-> "picker", cursor |-> 0, at |-> NoCounts, panel |-> "findings",
   quit |-> FALSE]

\* A draw: what it draws, what it read so far, and what it does next.
Steps == {"idle", "verdict", "coverage", "write"}
Draws == [of: AppStates, read: DrawCounts, step: Steps]

Idle == [of |-> initialState, read |-> NoCounts, step |-> "idle"]

InProgress == {d \in Slots : draws[d].step # "idle"}

\* A detail view is the detail view of the panel in focus.
TypeOK ==
  /\ lists \in [Runs -> DrawCounts]
  /\ state \in AppStates
  /\ state.view \in {"picker", "case", DetailOf[state.panel]}
  /\ counts \in DrawCounts
  /\ draws \in [Slots -> Draws]
  /\ screen \in AppStates
  /\ alone \in BOOLEAN
  /\ calm \in BOOLEAN

-----------------------------------------------------------------------------
(* Drawing.                                                                *)

\* The list of cases is drawn without a read, before the next key.
DrawPicker(s) ==
  /\ s.view = "picker"
  /\ screen' = s
  /\ counts' = NoCounts
  /\ UNCHANGED draws

\* Mutant: the list of cases awaits its reads as well.
DrawCaseOrPicker(s) ==
  /\ \E d \in Slots \ InProgress :
       draws' = [draws EXCEPT ![d] = [of |-> s, read |-> NoCounts,
                                      step |-> "verdict"]]
  /\ UNCHANGED <<screen, counts>>

\* A case is read first: loadCase begins.
DrawCase(s) ==
  /\ s.view # "picker"
  /\ \E d \in Slots \ InProgress :
       draws' = [draws EXCEPT ![d] = [of |-> s, read |-> NoCounts,
                                      step |-> "verdict"]]
  /\ UNCHANGED <<screen, counts>>

\* What onData does with a key that leaves the viewer running.
Show(s) ==
  /\ state' = s
  /\ DrawPicker(s) \/ DrawCase(s)
  /\ alone' = (InProgress = {})
  /\ UNCHANGED lists

\* readVerdict: findings and timeline come from one read, and a file caught
\* half-written has neither.
ReadVerdict(d) ==
  /\ draws[d].step = "verdict"
  /\ \E whole \in BOOLEAN :
       draws' = [draws EXCEPT
                   ![d].read = [p \in Panels |->
                      IF whole /\ p # "coverage"
                        THEN lists[draws[d].of.cursor][p] ELSE 0],
                   ![d].step = "coverage"]
  /\ UNCHANGED <<lists, state, counts, screen, alone, calm>>

ReadCoverage(d) ==
  /\ draws[d].step = "coverage"
  /\ \E n \in {0, lists[draws[d].of.cursor]["coverage"]} :
       draws' = [draws EXCEPT ![d].read["coverage"] = n,
                              ![d].step = "write"]
  /\ UNCHANGED <<lists, state, counts, screen, alone, calm>>

\* The frame is written and, in the same turn, the counts are taken.
FinishDraw(d) ==
  /\ draws[d].step = "write"
  /\ screen' = draws[d].of
  /\ counts' = draws[d].read
  /\ draws' = [draws EXCEPT ![d] = Idle]
  /\ UNCHANGED <<lists, state, alone, calm>>

-----------------------------------------------------------------------------
(* Keys: reduce, with the counts of the draw that ended last.              *)

Awake == ~state.quit /\ InProgress # Slots

StillCalm == calm' = (calm /\ InProgress = {})

Up(n) == IF n = 0 THEN 0 ELSE n - 1

\* Math.min(Math.max(0, count - 1), n + 1)
Down(n, count) ==
  IF count = 0 THEN 0 ELSE IF n + 1 < count THEN n + 1 ELSE count - 1

MoveRun ==
  /\ Awake /\ state.view = "picker"
  /\ \E c \in {Up(state.cursor), Down(state.cursor, LastRun + 1)} :
       Show([state EXCEPT !.cursor = c])
  /\ StillCalm

\* Mutant: the cursors of the last case are kept.
OpenCaseWhereLeft ==
  /\ Awake /\ state.view = "picker"
  /\ Show([state EXCEPT !.view = "case", !.panel = "findings"])
  /\ calm' = (InProgress = {})

OpenCase ==
  /\ Awake /\ state.view = "picker"
  /\ Show([state EXCEPT !.view = "case", !.at = NoCounts, !.panel = "findings"])
  /\ calm' = (InProgress = {})

MoveItem ==
  /\ Awake /\ state.view = "case"
  /\ \E n \in {Up(state.at[state.panel]),
               Down(state.at[state.panel], counts[state.panel])} :
       Show([state EXCEPT !.at[state.panel] = n])
  /\ StillCalm

\* Mutant: tab is looked at before the view.
SwitchPanelAnywhere ==
  /\ Awake
  /\ Show([state EXCEPT !.panel = NextPanel[state.panel]])
  /\ StillCalm

SwitchPanel ==
  /\ Awake /\ state.view = "case"
  /\ Show([state EXCEPT !.panel = NextPanel[state.panel]])
  /\ StillCalm

OpenDetail ==
  /\ Awake /\ state.view = "case"
  /\ counts[state.panel] > 0
  /\ Show([state EXCEPT !.view = DetailOf[state.panel]])
  /\ StillCalm

Back ==
  /\ Awake /\ state.view # "picker"
  /\ Show([state EXCEPT !.view = IF state.view = "case" THEN "picker" ELSE "case"])
  /\ StillCalm

\* Mutant: a frame is only drawn when the state has changed.
IgnoredUndrawn ==
  /\ Awake
  /\ alone' = (InProgress = {})
  /\ StillCalm
  /\ UNCHANGED <<lists, state, counts, draws, screen>>

\* Any other key, and a chunk of several, changes nothing and draws again.
Ignored == Awake /\ Show(state) /\ StillCalm

\* Back from the list, or ctrl-c.  The screen is restored and the process
\* exits before another read returns.
Quit ==
  /\ ~state.quit
  /\ state' = [state EXCEPT !.quit = TRUE]
  /\ screen' = state'
  /\ draws' = [d \in Slots |-> Idle]
  /\ UNCHANGED <<lists, counts, alone, calm>>

-----------------------------------------------------------------------------
\* An investigation adds to a list of a case.
Grow ==
  \E r \in Runs, p \in Panels :
    /\ lists[r][p] < MaxItems[p]
    /\ lists' = [lists EXCEPT ![r][p] = @ + 1]
    /\ UNCHANGED <<state, counts, draws, screen, alone, calm>>

Init ==
  /\ lists = [r \in Runs |-> NoCounts]
  /\ state = initialState
  /\ counts = NoCounts
  /\ draws = [d \in Slots |-> Idle]
  /\ screen = initialState
  /\ alone = TRUE
  /\ calm = TRUE

Next ==
  \/ MoveRun \/ OpenCase \/ MoveItem \/ SwitchPanel \/ OpenDetail
  \/ Back \/ Ignored \/ Quit
  \/ \E d \in Slots : ReadVerdict(d) \/ ReadCoverage(d) \/ FinishDraw(d)
  \/ Grow

Spec == Init /\ [][Next]_vars

-----------------------------------------------------------------------------
(* Properties.                                                             *)

\* While the list of cases is on the screen, the highlighted row is the one
\* the cursor stands at: enter opens, or is opening, the case the user sees
\* selected, however many draws of other cases are still under way.
ListHighlightIsCurrent ==
  screen.view = "picker" => screen.cursor = state.cursor

\* Draws that overtake one another leave no lasting trace: a key that finds
\* no draw in progress, once drawn, leaves its own state on the screen.
QuietKeyIsShown == alone /\ InProgress = {} => screen = state

\* A user who waits for each frame of a case only opens details the case has,
\* also while its lists grow and when a read fails; and the frame of the detail
\* says "not produced by this run" only when the draw of that frame read no
\* item at all, as of a file it caught half-written.
OpenedItemExists ==
  calm /\ state.view = DetailOf[state.panel] =>
    LET n == state.at[state.panel]
    IN  /\ n < lists[state.cursor][state.panel]
        /\ screen = state => n < counts[state.panel] \/ counts[state.panel] = 0
=============================================================================
