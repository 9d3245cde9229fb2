----------------------------- MODULE ViewerProofs -----------------------------
(***************************************************************************)
(* Theorems about the case viewer, for every number of cases, of draws in  *)
(* progress and of items.                                                  *)
(***************************************************************************)
EXTENDS Viewer, TLAPS

USE DEF Panels

-----------------------------------------------------------------------------
(* Types.                                                                  *)

LEMMA InitialType ==
  /\ NoCounts \in DrawCounts
  /\ initialState \in AppStates
  /\ initialState.view = "picker"
  /\ Idle \in Draws
  BY ViewerAssumption
     DEF NoCounts, DrawCounts, initialState, AppStates, Views, Runs, Idle,
         Draws, Steps, DetailOf

LEMMA InitType == Init => TypeOK
  BY InitialType DEF Init, TypeOK, DrawCounts, NoCounts

\* A key leads to a proper state, and so does every frame.
LEMMA ShowType ==
  ASSUME TypeOK, NEW s \in AppStates, Show(s), calm' \in BOOLEAN,
         s.view \in {"picker", "case", DetailOf[s.panel]}
  PROVE  TypeOK'
  <1>1. CASE DrawPicker(s)
    BY <1>1, InitialType DEF Show, DrawPicker, TypeOK
  <1>2. CASE DrawCase(s)
    <2>1. draws' \in [Slots -> Draws]
      BY <1>2, InitialType DEF DrawCase, TypeOK, Draws, Steps
    <2>2. QED
      BY <1>2, <2>1 DEF Show, DrawCase, TypeOK
  <1>3. QED
    BY <1>1, <1>2 DEF Show

LEMMA UpType == ASSUME NEW n \in Nat PROVE Up(n) \in Nat /\ Up(n) <= n
  BY DEF Up

\* Down stays on the list, or at 0 beside an empty one.
LEMMA DownType ==
  ASSUME NEW n \in Nat, NEW c \in Nat
  PROVE  /\ Down(n, c) \in Nat
         /\ Down(n, c) = 0 \/ Down(n, c) < c
  BY DEF Down

LEMMA KeysType ==
  ASSUME TypeOK,
         \/ MoveRun \/ OpenCase \/ MoveItem \/ SwitchPanel \/ OpenDetail
         \/ Back \/ Ignored
  PROVE  TypeOK'
  <1> USE DEF AppStates
  <1>1. state \in AppStates /\ state.view \in {"picker", "case", DetailOf[state.panel]}
    BY DEF TypeOK
  <1>2. calm \in BOOLEAN /\ \A x : (calm' = (calm /\ x = {}) \/ calm' = (x = {}))
                                 => calm' \in BOOLEAN
    BY DEF TypeOK
  <1>3. CASE MoveRun
    <2>1. PICK c \in {Up(state.cursor), Down(state.cursor, LastRun + 1)} :
            Show([state EXCEPT !.cursor = c])
      BY <1>3 DEF MoveRun
    <2>2. c \in Runs
      BY <1>1, ViewerAssumption DEF Up, Down, Runs
    <2>3. [state EXCEPT !.cursor = c] \in AppStates
      BY <1>1, <2>2
    <2>4. QED
      BY <1>1, <1>2, <1>3, <2>1, <2>3, ShowType DEF MoveRun, StillCalm
  <1>4. CASE OpenCase
    <2> DEFINE s == [state EXCEPT !.view = "case", !.at = NoCounts,
                                  !.panel = "findings"]
    <2>1. s \in AppStates /\ s.view = "case"
      BY <1>1, InitialType DEF Views, DrawCounts
    <2>2. QED
      BY <1>2, <1>4, <2>1, ShowType DEF OpenCase
  <1>5. CASE MoveItem
    <2>1. PICK n \in {Up(state.at[state.panel]),
                      Down(state.at[state.panel], counts[state.panel])} :
            Show([state EXCEPT !.at[state.panel] = n])
      BY <1>5 DEF MoveItem
    <2>2. n \in Nat
      <3>1. state.at[state.panel] \in Nat /\ counts[state.panel] \in Nat
        BY <1>1 DEF TypeOK, DrawCounts
      <3>2. QED
        BY <3>1, UpType, DownType
    <2>3. [state EXCEPT !.at[state.panel] = n] \in AppStates
      BY <1>1, <2>2
    <2>4. QED
      BY <1>1, <1>2, <1>5, <2>1, <2>3, ShowType DEF MoveItem, StillCalm
  <1>6. CASE SwitchPanel
    <2> DEFINE s == [state EXCEPT !.panel = NextPanel[state.panel]]
    <2>1. s \in AppStates /\ s.view = "case"
      BY <1>1, <1>6 DEF SwitchPanel, NextPanel
    <2>2. QED
      BY <1>2, <1>6, <2>1, ShowType DEF SwitchPanel, StillCalm
  <1>7. CASE OpenDetail
    <2> DEFINE s == [state EXCEPT !.view = DetailOf[state.panel]]
    <2>1. s \in AppStates /\ s.view = DetailOf[s.panel]
      BY <1>1 DEF Views
    <2>2. QED
      BY <1>2, <1>7, <2>1, ShowType DEF OpenDetail, StillCalm
  <1>8. CASE Back
    <2> DEFINE s == [state EXCEPT !.view = IF state.view = "case"
                                             THEN "picker" ELSE "case"]
    <2>1. s \in AppStates /\ s.view \in {"picker", "case"}
      BY <1>1 DEF Views
    <2>2. QED
      BY <1>2, <1>8, <2>1, ShowType DEF Back, StillCalm
  <1>9. CASE Ignored
    BY <1>1, <1>2, <1>9, ShowType DEF Ignored, StillCalm
  <1>10. QED
    BY <1>3, <1>4, <1>5, <1>6, <1>7, <1>8, <1>9

LEMMA DrawsType ==
  ASSUME TypeOK, NEW d \in Slots,
         ReadVerdict(d) \/ ReadCoverage(d) \/ FinishDraw(d)
  PROVE  TypeOK'
  <1> DEFINE w == draws[d]
  <1>1. w \in Draws /\ lists[w.of.cursor] \in DrawCounts
    BY DEF TypeOK, Draws, AppStates
  <1>2. CASE ReadVerdict(d)
    <2>1. PICK whole \in BOOLEAN :
            draws' = [draws EXCEPT
                   ![d].read = [p \in Panels |->
                      IF whole /\ p # "coverage"
                        THEN lists[draws[d].of.cursor][p] ELSE 0],
                   ![d].step = "coverage"]
      BY <1>2 DEF ReadVerdict
    <2> DEFINE r == [p \in Panels |-> IF whole /\ p # "coverage"
                        THEN lists[draws[d].of.cursor][p] ELSE 0]
    <2>2. r \in DrawCounts
      BY <1>1 DEF DrawCounts
    <2>3. draws' \in [Slots -> Draws]
      <3> HIDE DEF r
      <3>1. draws' = [draws EXCEPT ![d].read = r, ![d].step = "coverage"]
        BY <2>1 DEF r
      <3>2. QED
        BY <2>2, <3>1 DEF TypeOK, Draws, Steps
    <2>4. QED
      BY <1>2, <2>3 DEF ReadVerdict, TypeOK
  <1>3. CASE ReadCoverage(d)
    <2>1. PICK n \in {0, lists[draws[d].of.cursor]["coverage"]} :
            draws' = [draws EXCEPT ![d].read["coverage"] = n,
                                   ![d].step = "write"]
      BY <1>3 DEF ReadCoverage
    <2>2. n \in Nat
      BY <1>1 DEF DrawCounts
    <2> DEFINE r == [w.read EXCEPT !["coverage"] = n]
    <2>3. r \in DrawCounts
      BY <1>1, <2>2 DEF DrawCounts, Draws
    <2>4. draws' \in [Slots -> Draws]
      <3>1. draws' = [draws EXCEPT ![d] = [w EXCEPT !.read = r, !.step = "write"]]
        BY <2>1 DEF TypeOK
      <3>2. [w EXCEPT !.read = r, !.step = "write"] \in Draws
        BY <1>1, <2>3 DEF Draws, Steps
      <3>3. QED
        BY <3>1, <3>2 DEF TypeOK
    <2>5. QED
      BY <1>3, <2>4 DEF ReadCoverage, TypeOK
  <1>4. CASE FinishDraw(d)
    BY <1>1, <1>4, InitialType DEF FinishDraw, TypeOK, Draws
  <1>5. QED
    BY <1>2, <1>3, <1>4

LEMMA StepType == ASSUME TypeOK, [Next]_vars PROVE TypeOK'
  <1>1. CASE Quit
    <2>1. state' \in AppStates /\ state'.view = state.view /\ state'.panel = state.panel
      BY <1>1 DEF Quit, TypeOK, AppStates
    <2>2. QED
      BY <1>1, <2>1, InitialType DEF Quit, TypeOK
  <1>2. CASE Grow
    BY <1>2 DEF Grow, TypeOK, DrawCounts
  <1>3. CASE UNCHANGED vars
    BY <1>3 DEF vars, TypeOK
  <1>4. QED
    BY <1>1, <1>2, <1>3, KeysType, DrawsType DEF Next

\* Every variable of the viewer keeps its type, and a detail view is the one of
\* the panel in focus (reduce of app.ts).
THEOREM TypeCorrect == Spec => []TypeOK
  BY InitType, StepType, PTL DEF Spec

-----------------------------------------------------------------------------
(* What the screen shows.                                                  *)

\* The list of cases is never drawn in the background.
OnlyCasesAreAwaited == \A d \in InProgress : draws[d].of.view # "picker"

\* After a key that found no draw in progress, its own is the only one.
OnlyOwnDraw ==
  alone => /\ \A d \in InProgress : draws[d].of = state
           /\ InProgress = {} => screen = state

ScreenInv ==
  TypeOK /\ ListHighlightIsCurrent /\ OnlyCasesAreAwaited /\ OnlyOwnDraw

\* A key keeps it, if it only moves the cursor of the list while in the list.
LEMMA ShowKeepsScreen ==
  ASSUME ScreenInv, NEW s \in AppStates, Show(s),
         s.view = "picker" \/ s.cursor = state.cursor
  PROVE  ListHighlightIsCurrent' /\ OnlyCasesAreAwaited' /\ OnlyOwnDraw'
  <1> USE DEF ScreenInv, ListHighlightIsCurrent, OnlyCasesAreAwaited, OnlyOwnDraw
  <1>1. CASE DrawPicker(s)
    <2>1. InProgress' = InProgress
      BY <1>1 DEF DrawPicker, InProgress
    <2>2. QED
      BY <1>1, <2>1 DEF DrawPicker, Show
  <1>2. CASE DrawCase(s)
    <2>1. PICK d \in Slots \ InProgress :
            draws' = [draws EXCEPT ![d] = [of |-> s, read |-> NoCounts,
                                           step |-> "verdict"]]
      BY <1>2 DEF DrawCase
    <2>2. InProgress' = InProgress \cup {d}
      BY <2>1 DEF InProgress, TypeOK
    <2>3. draws'[d].of = s /\ \A e \in InProgress : draws'[e] = draws[e]
      BY <2>1 DEF TypeOK, InProgress
    <2>4. QED
      BY <1>2, <2>2, <2>3 DEF DrawCase, Show
  <1>3. QED
    BY <1>1, <1>2 DEF Show

LEMMA ScreenInit == Init => ScreenInv
  BY InitType, InitialType
     DEF Init, ScreenInv, ListHighlightIsCurrent, OnlyCasesAreAwaited,
         OnlyOwnDraw, InProgress, Idle

LEMMA ScreenStep == ASSUME ScreenInv, [Next]_vars PROVE ScreenInv'
  <1> USE DEF ScreenInv
  <1>t. TypeOK'
    BY StepType
  <1>a. state \in AppStates
    BY DEF TypeOK
  <1> SUFFICES ListHighlightIsCurrent' /\ OnlyCasesAreAwaited' /\ OnlyOwnDraw'
    BY <1>t
  <1>1. CASE MoveRun
    <2>1. PICK c \in {Up(state.cursor), Down(state.cursor, LastRun + 1)} :
            Show([state EXCEPT !.cursor = c])
      BY <1>1 DEF MoveRun
    <2> DEFINE s == [state EXCEPT !.cursor = c]
    <2>2. s \in AppStates /\ s.view = "picker"
      BY <1>1, <1>a, <1>t, <2>1 DEF MoveRun, Show, TypeOK, AppStates
    <2>3. QED
      BY <2>1, <2>2, ShowKeepsScreen
  <1>2. CASE OpenCase \/ MoveItem \/ SwitchPanel \/ OpenDetail \/ Back \/ Ignored
    <2>1. Show(state') /\ state'.cursor = state.cursor
      BY <1>2, <1>a
         DEF OpenCase, MoveItem, SwitchPanel, OpenDetail, Back, Ignored, Show,
             AppStates
    <2>2. QED
      BY <1>t, <2>1, ShowKeepsScreen DEF TypeOK
  <1>3. ASSUME NEW d \in Slots, ReadVerdict(d) \/ ReadCoverage(d)
        PROVE  ListHighlightIsCurrent' /\ OnlyCasesAreAwaited' /\ OnlyOwnDraw'
    <2>1. /\ InProgress' = InProgress
          /\ \A e \in Slots : draws'[e].of = draws[e].of
          /\ UNCHANGED <<state, screen, alone>>
      BY <1>3 DEF ReadVerdict, ReadCoverage, InProgress, TypeOK, Draws
    <2>2. QED
      BY <2>1 DEF ListHighlightIsCurrent, OnlyCasesAreAwaited, OnlyOwnDraw, InProgress
  <1>4. ASSUME NEW d \in Slots, FinishDraw(d)
        PROVE  ListHighlightIsCurrent' /\ OnlyCasesAreAwaited' /\ OnlyOwnDraw'
    <2>1. /\ d \in InProgress
          /\ InProgress' = InProgress \ {d}
          /\ \A e \in InProgress' : draws'[e] = draws[e]
          /\ screen' = draws[d].of
          /\ UNCHANGED <<state, alone>>
      BY <1>4 DEF FinishDraw, InProgress, TypeOK, Idle
    <2>2. QED
      BY <2>1 DEF ListHighlightIsCurrent, OnlyCasesAreAwaited, OnlyOwnDraw
  <1>5. CASE Quit
    <2>1. InProgress' = {} /\ screen' = state'
      BY <1>5 DEF Quit, InProgress, Idle
    <2>2. QED
      BY <2>1 DEF ListHighlightIsCurrent, OnlyCasesAreAwaited, OnlyOwnDraw
  <1>6. CASE Grow \/ UNCHANGED vars
    BY <1>6 DEF Grow, vars, ListHighlightIsCurrent, OnlyCasesAreAwaited,
                OnlyOwnDraw, InProgress
  <1>7. QED
    BY <1>1, <1>2, <1>3, <1>4, <1>5, <1>6 DEF Next

\* While the list of cases is on the screen, the highlighted row is the one
\* the cursor stands at (draw of runtime.ts, whatever order its calls end in).
THEOREM ListHighlightIsCurrentAlways == Spec => []ListHighlightIsCurrent
  <1>1. ScreenInv => ListHighlightIsCurrent
    BY DEF ScreenInv
  <1>2. QED
    BY ScreenInit, ScreenStep, <1>1, PTL DEF Spec

\* A key that finds no draw in progress ends up on the screen (onData).
THEOREM QuietKeyIsShownAlways == Spec => []QuietKeyIsShown
  <1>1. ScreenInv => QuietKeyIsShown
    BY DEF ScreenInv, OnlyOwnDraw, QuietKeyIsShown
  <1>2. QED
    BY ScreenInit, ScreenStep, <1>1, PTL DEF Spec

-----------------------------------------------------------------------------
(* What a user who waits may open.                                         *)

\* The cursors of s are on the lists of its case; on an empty one, at 0.
OnLists(s) ==
  /\ \A p \in Panels : s.at[p] = 0 \/ s.at[p] < lists[s.cursor][p]
  /\ s.view = DetailOf[s.panel] => s.at[s.panel] < lists[s.cursor][s.panel]

\* A read that found a list reached the cursor of s.
Reaches(s, read) == \A p \in Panels : read[p] = 0 \/ s.at[p] < read[p]

\* Nothing counted more items than the case has, or fewer than it had when the
\* cursor came to its place.
CountsAreOfCase ==
  /\ \A d \in InProgress :
       /\ draws[d].of.cursor = state.cursor
       /\ \A p \in Panels : draws[d].read[p] <= lists[state.cursor][p]
       /\ Reaches(state, draws[d].read)
  /\ InProgress = {} =>
       \A p \in Panels : counts[p] <= lists[state.cursor][p]

CalmInv ==
  /\ TypeOK
  /\ state.quit => InProgress = {}
  /\ calm /\ state.view # "picker" =>
       OnLists(state) /\ Reaches(state, counts) /\ (~state.quit => CountsAreOfCase)

\* A key of a user who waited keeps it, if it keeps the cursors on the lists.
LEMMA ShowKeepsCalm ==
  ASSUME TypeOK, TypeOK', Show(state'), ~state'.quit, calm' => InProgress = {},
         calm' /\ state'.view # "picker" =>
           OnLists(state') /\ Reaches(state', counts)
  PROVE  CalmInv'
  <1> SUFFICES ASSUME calm', state'.view # "picker"
               PROVE  (OnLists(state) /\ Reaches(state, counts))' /\ CountsAreOfCase'
    BY DEF CalmInv
  <1>1. /\ InProgress = {} /\ lists' = lists /\ DrawCase(state')
        /\ counts' = counts
    BY DEF Show, DrawPicker, DrawCase
  <1>2. PICK d \in Slots \ InProgress :
          draws' = [draws EXCEPT ![d] = [of |-> state', read |-> NoCounts,
                                         step |-> "verdict"]]
    BY <1>1 DEF DrawCase
  <1>3. InProgress' = {d} /\ draws'[d].of = state' /\ draws'[d].read = NoCounts
    BY <1>1, <1>2 DEF InProgress, TypeOK
  <1>4. \A p \in Panels : NoCounts[p] <= lists'[state'.cursor][p]
    BY DEF TypeOK, AppStates, DrawCounts, NoCounts
  <1>5. CountsAreOfCase'
    BY <1>3, <1>4 DEF CountsAreOfCase, Reaches, NoCounts
  <1>6. QED
    BY <1>1, <1>5 DEF OnLists, Reaches

LEMMA MoveOnList ==
  ASSUME NEW a \in Nat, NEW c \in Nat, NEW k \in Nat, a = 0 \/ a < k, c <= k,
         NEW n \in {Up(a), Down(a, c)}
  PROVE  n \in Nat /\ (n = 0 \/ n < k)
  BY DEF Up, Down

LEMMA CalmInit == Init => CalmInv
  BY InitType, InitialType DEF Init, CalmInv, InProgress, Idle

LEMMA CalmKeys ==
  ASSUME CalmInv, TypeOK',
         \/ MoveRun \/ OpenCase \/ MoveItem \/ SwitchPanel \/ OpenDetail
         \/ Back \/ Ignored
  PROVE  CalmInv'
  <1> USE DEF CalmInv
  <1>1. state \in AppStates /\ state.view \in {"picker", "case", DetailOf[state.panel]}
    BY DEF TypeOK
  <1>2. Show(state') /\ ~state'.quit /\ (calm' => InProgress = {})
    BY <1>1 DEF MoveRun, OpenCase, MoveItem, SwitchPanel, OpenDetail, Back,
                Ignored, Show, StillCalm, Awake, AppStates
  <1> SUFFICES ASSUME calm', state'.view # "picker"
               PROVE  OnLists(state') /\ Reaches(state', counts)
    BY <1>2, ShowKeepsCalm
  <1>t. TypeOK'
    OBVIOUS
  <1>3. state.view # "picker" =>
          /\ \A p \in Panels : state.at[p] = 0 \/ state.at[p] < lists[state.cursor][p]
          /\ \A p \in Panels : counts[p] <= lists[state.cursor][p]
          /\ \A p \in Panels : counts[p] = 0 \/ state.at[p] < counts[p]
    BY <1>2 DEF MoveRun, OpenCase, MoveItem, SwitchPanel, OpenDetail, Back,
                Ignored, Awake, StillCalm, OnLists, CountsAreOfCase, Reaches
  <1>4. CASE MoveRun
    BY <1>1, <1>4 DEF MoveRun, Show, AppStates
  <1>5. CASE OpenCase
    <2>1. state' = [state EXCEPT !.view = "case", !.at = NoCounts, !.panel = "findings"]
      BY <1>5 DEF OpenCase, Show
    <2>2. state'.view = "case" /\ state'.at = NoCounts /\ state'.panel = "findings"
      BY <1>1, <2>1 DEF AppStates
    <2>3. \A p \in Panels : counts[p] \in Nat /\ NoCounts[p] = 0
      BY DEF TypeOK, DrawCounts, NoCounts
    <2>4. QED
      BY <2>2, <2>3 DEF OnLists, Reaches, DetailOf
  <1>6. CASE MoveItem
    <2>1. PICK n \in {Up(state.at[state.panel]),
                      Down(state.at[state.panel], counts[state.panel])} :
            state' = [state EXCEPT !.at[state.panel] = n]
      BY <1>6 DEF MoveItem, Show
    <2> DEFINE k == lists[state.cursor][state.panel]
    <2>2. state.at[state.panel] \in Nat /\ counts[state.panel] \in Nat /\ k \in Nat
      BY <1>1 DEF TypeOK, AppStates, DrawCounts
    <2>3. state.view = "case"
      BY <1>6 DEF MoveItem
    <2>4. (state.at[state.panel] = 0 \/ state.at[state.panel] < k)
          /\ counts[state.panel] <= k
      BY <1>1, <1>3, <2>3 DEF AppStates
    <2>5. n \in Nat /\ (n = 0 \/ n < k)
      <3> HIDE DEF k
      <3>1. QED
        BY <2>2, <2>4, MoveOnList
    <2>10. counts[state.panel] = 0 \/ n < counts[state.panel]
      <3>1. counts[state.panel] = 0 \/ state.at[state.panel] < counts[state.panel]
        BY <1>1, <1>3, <2>3 DEF AppStates
      <3>2. QED
        BY <2>2, <3>1 DEF Up, Down
    <2>6. /\ state'.view = "case" /\ state'.cursor = state.cursor
          /\ \A p \in Panels : state'.at[p] = IF p = state.panel THEN n ELSE state.at[p]
      BY <1>1, <2>1, <2>3 DEF AppStates
    <2>7. \A p \in Panels :
            /\ state.at[p] = 0 \/ state.at[p] < lists[state.cursor][p]
            /\ counts[p] = 0 \/ state.at[p] < counts[p]
      BY <1>3, <2>3
    <2>8. state'.view # DetailOf[state'.panel]
      BY <1>t, <2>6 DEF DetailOf, TypeOK, AppStates
    <2>9. QED
      BY <2>5, <2>6, <2>7, <2>8, <2>10 DEF OnLists, Reaches
  <1>7. CASE SwitchPanel
    <2>1. /\ state'.view = "case" /\ state'.cursor = state.cursor
          /\ state'.at = state.at /\ state.view = "case"
      BY <1>1, <1>7 DEF SwitchPanel, Show, AppStates
    <2>2. state'.view # DetailOf[state'.panel]
      BY <1>t, <2>1 DEF DetailOf, TypeOK, AppStates
    <2>3. QED
      BY <1>3, <2>1, <2>2 DEF OnLists, Reaches
  <1>8. CASE OpenDetail
    <2>1. /\ state' = [state EXCEPT !.view = DetailOf[state.panel]]
          /\ counts[state.panel] > 0 /\ state.view = "case"
      BY <1>8 DEF OpenDetail, Show
    <2>2. state.panel \in Panels /\ state.cursor \in Runs
          /\ state.at[state.panel] \in Nat
          /\ counts[state.panel] \in Nat
          /\ lists[state.cursor][state.panel] \in Nat
      BY <1>1 DEF TypeOK, AppStates, DrawCounts
    <2>3. state.at[state.panel] < lists[state.cursor][state.panel]
      BY <1>3, <2>1, <2>2
    <2>4. /\ state'.cursor = state.cursor /\ state'.at = state.at
          /\ state'.panel = state.panel
      BY <1>1, <2>1 DEF AppStates
    <2>5. QED
      BY <1>3, <2>1, <2>3, <2>4 DEF OnLists, Reaches
  <1>9. CASE Back
    <2>1. /\ state'.cursor = state.cursor /\ state'.at = state.at
          /\ state'.view = "case" /\ state.view # "picker"
      BY <1>1, <1>9 DEF Back, Show, AppStates
    <2>2. state'.view # DetailOf[state'.panel]
      BY <1>t, <2>1 DEF DetailOf, TypeOK, AppStates
    <2>3. QED
      BY <1>3, <2>1, <2>2 DEF OnLists, Reaches
  <1>10. CASE Ignored
    BY <1>1, <1>2, <1>10 DEF Ignored, Show, StillCalm
  <1>11. QED
    BY <1>4, <1>5, <1>6, <1>7, <1>8, <1>9, <1>10

LEMMA CalmDraws ==
  ASSUME CalmInv, TypeOK', NEW d \in Slots,
         ReadVerdict(d) \/ ReadCoverage(d) \/ FinishDraw(d)
  PROVE  CalmInv'
  <1> USE DEF CalmInv
  <1>1. UNCHANGED <<lists, state, calm>>
    BY DEF ReadVerdict, ReadCoverage, FinishDraw
  <1>3. d \in InProgress
    BY DEF ReadVerdict, ReadCoverage, FinishDraw, InProgress
  <1>q. ~state.quit /\ ~state'.quit
    BY <1>1, <1>3
  <1> SUFFICES ASSUME calm, state.view # "picker"
               PROVE  CountsAreOfCase' /\ Reaches(state', counts')
    BY <1>1, <1>q DEF OnLists, Reaches
  <1>2. /\ OnLists(state) /\ Reaches(state, counts) /\ CountsAreOfCase
        /\ lists[state.cursor] \in [Panels -> Nat]
    BY <1>q DEF TypeOK, AppStates, DrawCounts
  <1>4. CASE ReadVerdict(d) \/ ReadCoverage(d)
    <2>1. draws'[d].step # "idle" /\ draws'[d].of = draws[d].of
          /\ \A e \in Slots \ {d} : draws'[e] = draws[e]
      <3>1. CASE ReadVerdict(d)
        <4>1. PICK r :
                draws' = [draws EXCEPT ![d].read = r, ![d].step = "coverage"]
          BY <3>1 DEF ReadVerdict
        <4>2. QED
          BY <4>1 DEF TypeOK, Draws
      <3>2. CASE ReadCoverage(d)
        BY <3>2 DEF ReadCoverage, TypeOK, Draws
      <3>3. QED
        BY <1>4, <3>1, <3>2
    <2>2. InProgress' = InProgress
      BY <1>3, <2>1 DEF InProgress
    <2>3. draws[d].of.cursor = state.cursor
          /\ \A p \in Panels : draws[d].read[p] <= lists[state.cursor][p]
          /\ Reaches(state, draws[d].read)
      BY <1>2, <1>3 DEF CountsAreOfCase
    <2>4. \A p \in Panels :
            /\ draws'[d].read[p] <= lists[state.cursor][p]
            /\ draws'[d].read[p] = 0 \/ state.at[p] < draws'[d].read[p]
      <3>1. CASE ReadVerdict(d)
        <4>0. \A p \in Panels : state.at[p] \in Nat
          BY DEF TypeOK, AppStates
        <4>1. PICK whole \in BOOLEAN :
                draws' = [draws EXCEPT
                   ![d].read = [p \in Panels |->
                      IF whole /\ p # "coverage"
                        THEN lists[draws[d].of.cursor][p] ELSE 0],
                   ![d].step = "coverage"]
          BY <3>1 DEF ReadVerdict
        <4>2. draws'[d].read = [p \in Panels |->
                 IF whole /\ p # "coverage" THEN lists[state.cursor][p] ELSE 0]
          BY <2>3, <4>1 DEF TypeOK, Draws
        <4>3. QED
          BY <1>2, <4>2, <4>0 DEF OnLists
      <3>2. CASE ReadCoverage(d)
        <4>0. \A p \in Panels : state.at[p] \in Nat
          BY DEF TypeOK, AppStates
        <4>1. PICK n \in {0, lists[state.cursor]["coverage"]} :
                draws' = [draws EXCEPT ![d].read["coverage"] = n,
                                       ![d].step = "write"]
          BY <2>3, <3>2 DEF ReadCoverage
        <4>2. draws'[d].read = [draws[d].read EXCEPT !["coverage"] = n]
              /\ draws[d].read \in [Panels -> Nat]
          BY <4>1 DEF TypeOK, Draws, DrawCounts
        <4>3. QED
          BY <1>2, <2>3, <4>2, <4>0 DEF OnLists, Reaches
      <3>3. QED
        BY <1>4, <3>1, <3>2
    <2>5. \A e \in InProgress' :
            /\ draws'[e].of.cursor = state'.cursor
            /\ \A p \in Panels : draws'[e].read[p] <= lists'[state'.cursor][p]
            /\ Reaches(state', draws'[e].read)
      <3>1. ASSUME NEW e \in InProgress
            PROVE  /\ draws'[e].of.cursor = state'.cursor
                   /\ \A p \in Panels :
                        draws'[e].read[p] <= lists'[state'.cursor][p]
                   /\ Reaches(state', draws'[e].read)
        <4>1. CASE e = d
          BY <1>1, <2>1, <2>3, <2>4, <4>1 DEF Reaches
        <4>2. CASE e # d
          BY <1>1, <1>2, <2>1, <4>2 DEF CountsAreOfCase, InProgress
        <4>3. QED
          BY <4>1, <4>2
      <3>2. QED
        BY <2>2, <3>1
    <2>6. InProgress' # {}
      BY <1>3, <2>2
    <2>7. Reaches(state', counts')
      BY <1>1, <1>2, <1>4 DEF ReadVerdict, ReadCoverage, Reaches
    <2>8. QED
      BY <2>5, <2>6, <2>7 DEF CountsAreOfCase
  <1>5. CASE FinishDraw(d)
    <2>1. /\ InProgress' = InProgress \ {d}
          /\ \A e \in InProgress' : draws'[e] = draws[e]
          /\ counts' = draws[d].read
      BY <1>5 DEF FinishDraw, InProgress, TypeOK, Idle
    <2>2. \A p \in Panels : counts'[p] <= lists'[state'.cursor][p]
      BY <1>1, <1>2, <1>3, <2>1 DEF CountsAreOfCase
    <2>3. \A e \in InProgress' :
            /\ draws'[e].of.cursor = state'.cursor
            /\ \A p \in Panels : draws'[e].read[p] <= lists'[state'.cursor][p]
            /\ Reaches(state', draws'[e].read)
      BY <1>1, <1>2, <2>1 DEF CountsAreOfCase
    <2>4. Reaches(state', counts')
      BY <1>1, <1>2, <1>3, <2>1 DEF CountsAreOfCase, Reaches
    <2>5. QED
      BY <2>2, <2>3, <2>4 DEF CountsAreOfCase
  <1>6. QED
    BY <1>4, <1>5

LEMMA CalmStep == ASSUME CalmInv, [Next]_vars PROVE CalmInv'
  <1> USE DEF CalmInv
  <1>t. TypeOK'
    BY StepType
  <1>1. CASE Quit
    <2>1. /\ InProgress' = {} /\ UNCHANGED <<lists, counts, calm>>
          /\ state'.view = state.view /\ state'.cursor = state.cursor
          /\ state'.at = state.at /\ state'.panel = state.panel /\ state'.quit
      BY <1>1 DEF Quit, InProgress, Idle, TypeOK, AppStates
    <2>2. QED
      BY <1>t, <2>1 DEF OnLists, Reaches
  <1>2. CASE Grow
    <2>1. /\ UNCHANGED <<state, counts, draws, calm>>
          /\ \A r \in Runs, p \in Panels :
               /\ lists[r][p] \in Nat /\ lists'[r][p] \in Nat
               /\ lists[r][p] <= lists'[r][p]
      BY <1>2 DEF Grow, TypeOK, DrawCounts
    <2>2. state \in AppStates /\ counts \in [Panels -> Nat]
          /\ \A d \in Slots : draws[d].read \in [Panels -> Nat]
      BY DEF TypeOK, Draws, DrawCounts
    <2>3. InProgress' = InProgress
      BY <2>1 DEF InProgress
    <2>4. OnLists(state) => OnLists(state)'
      BY <2>1, <2>2 DEF OnLists, AppStates
    <2>5. CountsAreOfCase => CountsAreOfCase'
      BY <2>1, <2>2, <2>3 DEF CountsAreOfCase, Reaches, AppStates, InProgress
    <2>6. Reaches(state, counts) => Reaches(state, counts)'
      BY <2>1 DEF Reaches
    <2>7. QED
      BY <1>t, <2>1, <2>3, <2>4, <2>5, <2>6
  <1>3. CASE UNCHANGED vars
    BY <1>t, <1>3 DEF vars, OnLists, Reaches, CountsAreOfCase, InProgress
  <1>4. QED
    BY <1>1, <1>2, <1>3, <1>t, CalmKeys, CalmDraws DEF Next

\* A user who waits for each frame only opens details that exist, while lists
\* grow and reads fail (reduce of app.ts with the counts of runtime.ts).
THEOREM OpenedItemExistsAlways == Spec => []OpenedItemExists
  <1>1. CalmInv => OpenedItemExists
    BY DEF CalmInv, OpenedItemExists, OnLists, Reaches, TypeOK, AppStates, DetailOf
  <1>2. QED
    BY CalmInit, CalmStep, <1>1, PTL DEF Spec
=============================================================================
