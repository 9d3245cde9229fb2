--------------------------- MODULE FleetNavProofs ---------------------------
(***************************************************************************)
(* Theorems about FleetNav, for every set of directories, investigations   *)
(* and command lines: the terminal loop implements the fleet, the cursor   *)
(* stays on a row, the key acts on the row the user saw and nothing but    *)
(* the user moves the highlight.                                           *)
(***************************************************************************)
EXTENDS FleetNav, FleetProofs, FiniteSetTheorems, WellFoundedInduction

-----------------------------------------------------------------------------
(* Induction over Nat without an operator parameter: a nonempty set of     *)
(* numbers has a least member.                                             *)

LEMMA LessIsWellFounded ==
  \E R : IsWellFoundedOn(R, Nat) /\ \A x, y \in Nat : <<x, y>> \in R <=> x < y
  <1> DEFINE R == OpToRel(<, Nat)
  <1>1. IsWellFoundedOn(R, Nat)
    BY NatLessThanWellFounded
  <1>2. \A x, y \in Nat : <<x, y>> \in R <=> x < y
    BY DEF OpToRel
  <1> HIDE DEF R
  <1>3. QED
    BY <1>1, <1>2

LEMMA LeastIn ==
  ASSUME NEW R, IsWellFoundedOn(R, Nat), NEW T, T \subseteq Nat, T # {}
  PROVE  \E n \in T : \A m \in T : ~ (<<m, n>> \in R)
  BY WFMin

LEMMA Least ==
  ASSUME NEW T, T \subseteq Nat, T # {} PROVE \E n \in T : \A m \in T : n <= m
  <1>1. PICK R : IsWellFoundedOn(R, Nat) /\ \A x, y \in Nat : <<x, y>> \in R <=> x < y
    BY LessIsWellFounded
  <1>2. PICK n \in T : \A m \in T : ~ (<<m, n>> \in R)
    BY <1>1, LeastIn
  <1>3. n \in Nat /\ \A m \in T : m \in Nat /\ ~ (m < n)
    BY <1>1, <1>2
  <1>4. \A m \in T : n <= m
    BY <1>3
  <1>5. QED
    BY <1>4

-----------------------------------------------------------------------------
(* What Ascending does: the members of a set of positions, in order.       *)

Below(S, m) == {j \in S : j <= m}

LEMMA BelowGrows ==
  ASSUME NEW n \in Nat, NEW S, S \subseteq 1..n
  PROVE  /\ Cardinality(S) \in Nat /\ Cardinality(S) <= n
         /\ \A m \in Nat :
              /\ Cardinality(Below(S, m)) \in Nat
              /\ Cardinality(Below(S, m + 1)) =
                   Cardinality(Below(S, m)) + IF m + 1 \in S THEN 1 ELSE 0
  <1>0. \A j \in S : j \in Nat
    OBVIOUS
  <1>1. IsFiniteSet(1..n) /\ Cardinality(1..n) = n
    BY FS_Interval
  <1>2. IsFiniteSet(S) /\ Cardinality(S) <= n /\ Cardinality(S) \in Nat
    BY <1>1, FS_Subset, FS_CardinalityType
  <1>3. ASSUME NEW m \in Nat
        PROVE  IsFiniteSet(Below(S, m)) /\ Cardinality(Below(S, m)) \in Nat
    <2>1. Below(S, m) \in SUBSET S
      BY DEF Below
    <2>2. QED
      BY <1>2, <2>1, FS_Subset, FS_CardinalityType
  <1>4. ASSUME NEW m \in Nat
        PROVE  Cardinality(Below(S, m + 1)) =
                 Cardinality(Below(S, m)) + IF m + 1 \in S THEN 1 ELSE 0
    <2>1. CASE m + 1 \in S
      <3>1. \A j \in S : (j <= m + 1 <=> j <= m \/ j = m + 1) /\ ~ (m + 1 <= m)
        BY <1>0
      <3>2. Below(S, m + 1) = Below(S, m) \cup {m + 1} /\ m + 1 \notin Below(S, m)
        BY <2>1, <3>1, Zenon DEF Below
      <3>3. QED
        BY <1>3, <2>1, <3>2, FS_AddElement
    <2>2. CASE m + 1 \notin S
      <3>1. \A j \in S : j <= m + 1 <=> j <= m
        BY <1>0, <2>2
      <3>2. Below(S, m + 1) = Below(S, m)
        BY <3>1, Zenon DEF Below
      <3>3. QED
        BY <1>3, <2>2, <3>2
    <2>3. QED
      BY <2>1, <2>2
  <1>5. QED
    BY <1>2, <1>3, <1>4

LEMMA AscendingIn ==
  ASSUME NEW n \in Nat, NEW S, S \subseteq 1..n
  PROVE  /\ Cardinality(S) \in 0..n /\ Len(Ascending(S)) = Cardinality(S)
         /\ Ascending(S) \in [1..Cardinality(S) -> S]
         /\ \A k \in 1..Cardinality(S) :
              Ascending(S)[k] \in S /\ Cardinality(Below(S, Ascending(S)[k])) = k
  <1>0. \A j \in S : j \in 1..n
    OBVIOUS
  <1>1. /\ Cardinality(S) \in Nat /\ Cardinality(S) <= n
        /\ \A m \in Nat :
             /\ Cardinality(Below(S, m)) \in Nat
             /\ Cardinality(Below(S, m + 1)) =
                  Cardinality(Below(S, m)) + IF m + 1 \in S THEN 1 ELSE 0
    BY BelowGrows
  <1>2. DOMAIN Ascending(S) = 1..Cardinality(S) /\ Len(Ascending(S)) = Cardinality(S)
    BY <1>1 DEF Ascending
  <1>3. Below(S, n) = S /\ Cardinality(Below(S, 0)) = 0
    <2>1. \A j \in S : j <= n /\ ~ (j <= 0)
      BY <1>0
    <2>2. Below(S, n) = S /\ Below(S, 0) = {}
      BY <2>1, Zenon DEF Below
    <2>3. QED
      BY <2>2, FS_EmptySet
  <1>4. ASSUME NEW k \in 1..Cardinality(S)
        PROVE  \E i \in S : Cardinality(Below(S, i)) = k
    <2> DEFINE T == {m \in Nat : k <= Cardinality(Below(S, m))}
    <2>1. T # {} /\ T \subseteq Nat
      BY <1>1, <1>3
    <2>2. PICK m \in T : \A x \in T : m <= x
      BY <2>1, Least
    <2>3. m \in Nat /\ m # 0
      BY <1>3, <2>2
    <2>4. m - 1 \in Nat /\ (m - 1) + 1 = m /\ ~ (m <= m - 1)
      BY <2>3
    <2>5. m - 1 \notin T
      BY <2>2, <2>4
    <2>6. /\ ~ (k <= Cardinality(Below(S, m - 1))) /\ k <= Cardinality(Below(S, m))
          /\ Cardinality(Below(S, m - 1)) \in Nat
          /\ Cardinality(Below(S, m)) =
               Cardinality(Below(S, m - 1)) + IF m \in S THEN 1 ELSE 0
      BY <1>1, <2>2, <2>4, <2>5
    <2>7. m \in S /\ Cardinality(Below(S, m)) = k
      BY <2>6
    <2>8. QED
      BY <2>7
  <1>5. ASSUME NEW k \in 1..Cardinality(S)
        PROVE  Ascending(S)[k] \in S /\ Cardinality(Below(S, Ascending(S)[k])) = k
    <2>1. Ascending(S)[k] = CHOOSE i \in S : Cardinality(Below(S, i)) = k
      BY DEF Ascending, Below
    <2>2. QED
      BY <1>4, <2>1
  <1>6. Ascending(S) \in [1..Cardinality(S) -> S]
    BY <1>5 DEF Ascending
  <1>7. QED
    BY <1>1, <1>2, <1>5, <1>6

\* All positions, ascending, are themselves.
LEMMA AscendingAll ==
  ASSUME NEW n \in Nat
  PROVE  Len(Ascending(1..n)) = n /\ \A k \in 1..n : Ascending(1..n)[k] = k
  <1>1. Cardinality(1..n) = n
    BY FS_Interval
  <1>2. ASSUME NEW k \in 1..n PROVE Cardinality(Below(1..n, k)) = k
    <2>1. \A j : j \in Below(1..n, k) <=> j \in 1..k
      BY DEF Below
    <2>2. Below(1..n, k) = 1..k
      BY <2>1
    <2>3. QED
      BY <2>2, FS_Interval
  <1>3. QED
    BY <1>1, <1>2, AscendingIn

\* The positions of the tab's rows are positions of rows, each in its place.
LEMMA VisibleRows ==
  ASSUME TypeOK
  PROVE  /\ Visible \in Seq(DOMAIN entries) /\ Len(Visible) <= Len(entries)
         /\ Len(Visible) \in Nat
  <1>1. Rows \subseteq 1..Len(entries) /\ DOMAIN entries = 1..Len(entries)
        /\ Len(entries) \in Nat
    BY DEF Rows, TypeOK
  <1> DEFINE c == Cardinality(Rows)
  <1>2. c \in 0..Len(entries) /\ Len(Visible) = c /\ Visible \in [1..c -> Rows]
    BY <1>1, AscendingIn DEF Visible
  <1>3. Visible \in [1..c -> DOMAIN entries]
    BY <1>1, <1>2
  <1>4. QED
    BY <1>1, <1>2, <1>3

LEMMA SelectedType == ASSUME TypeOK, cursor \in Nat PROVE Selected \in Dirs \cup {None}
  <1>1. CASE cursor < Len(Visible)
    <2>1. cursor + 1 \in DOMAIN Visible
      BY <1>1, VisibleRows
    <2>2. Visible[cursor + 1] \in DOMAIN entries
      BY <2>1, VisibleRows
    <2>3. entries[Visible[cursor + 1]] \in Status
      BY <2>2 DEF TypeOK
    <2>4. QED
      BY <1>1, <2>3 DEF Selected, Status
  <1>2. CASE ~ (cursor < Len(Visible))
    BY <1>2 DEF Selected
  <1>3. QED
    BY <1>1, <1>2

-----------------------------------------------------------------------------
(* Every step of the loop is a step of the fleet or leaves it alone.       *)

LEMMA CommandIsFleet == ASSUME Command PROVE [Next]_vars
  <1> USE DEF Commanding, OnEvent, Quiet
  <1>1. CASE BeginInput \/ KeyTab \/ KeyUp \/ KeyDown \/ KeyEnter
    BY <1>1 DEF BeginInput, KeyTab, KeyUp, KeyDown, KeyEnter
  <1>2. CASE CtrlC \/ BackOut
    BY <1>2 DEF CtrlC, BackOut, Leave, Next
  <1>3. CASE BackToList \/ KeyOpen
    BY <1>3 DEF BackToList, KeyOpen
  <1>4. CASE InputPush \/ InputBackspace \/ CloseInput
    BY <1>4 DEF InputPush, InputBackspace, CloseInput
  <1>5. CASE \E p \in Procs : InputEnter(p)
    BY <1>5 DEF InputEnter, Next
  <1>6. CASE \E t \in Tabs : ClickTab(t)
    BY <1>6 DEF ClickTab
  <1>7. CASE \E pos \in 0..(Cardinality(Dirs) - 1) : ClickRow(pos)
    BY <1>7 DEF ClickRow
  <1>8. QED
    BY <1>1, <1>2, <1>3, <1>4, <1>5, <1>6, <1>7 DEF Command

LEMMA LoopIsFleet == ASSUME [NavNext]_navVars PROVE [Next]_vars
  <1>1. CASE UNCHANGED navVars
    BY <1>1 DEF navVars
  <1>2. CASE Draw \/ ViewerExits
    BY <1>2 DEF Draw, ViewerExits
  <1>3. CASE TimeOut \/ RefreshStep
    BY <1>3 DEF TimeOut, RefreshStep, Refresh, Next
  <1>4. CASE Command
    BY <1>4, CommandIsFleet
  <1>5. CASE (\E p \in Procs : SocketLaunch(p)) \/ Outside
    BY <1>5 DEF SocketLaunch, Outside, Next
  <1>6. QED
    BY <1>1, <1>2, <1>3, <1>4, <1>5 DEF NavNext

\* The terminal loop of main.rs, its keys, clicks and viewer and the socket
\* beside it drive FleetState only through the operations of Fleet: what is
\* proved of the fleet holds at the terminal.
THEOREM TerminalImplementsFleet == NavSpec => Spec
  <1>1. NavInit => Init
    BY DEF NavInit
  <1>2. [NavNext]_navVars => [Next]_vars
    BY LoopIsFleet
  <1>3. QED
    BY <1>1, <1>2, PTL DEF NavSpec, Spec

\* At the terminal, whatever is typed, opened or asked over the socket: one
\* process per adopted directory, a row for each session, no overclaimed custody,
\* and a kill on a collision only.
THEOREM FleetHoldsAtTerminal ==
  NavSpec => /\ [](OneOwner /\ SessionHasRow /\ NeverOverclaims)
             /\ KillsOnlyOnCollision
  BY TerminalImplementsFleet, OneOwnerAlways, SessionHasRowAlways, NeverOverclaimsAlways,
     KillsOnlyOnCollisionAlways, PTL

-----------------------------------------------------------------------------
(* The cursor.                                                             *)

\* The variables of the loop alone.
LoopTypeOK ==
  /\ loop \in {"draw", "poll", "refresh", "viewer", "down"}
  /\ cursor \in Nat /\ (cursor = 0 \/ cursor < Len(entries))
  /\ view \in {"List", "Detail"}
  /\ tab \in Tabs
  /\ input \in Inputs
  /\ shown \in Dirs \cup {None}
  /\ opened \in Dirs \cup {None}

LEMMA CommandType ==
  ASSUME TypeOK, LoopTypeOK, Command, Len(entries) \in Nat, Len(entries') \in Nat,
         Len(entries) <= Len(entries')
  PROVE  LoopTypeOK'
  <1> USE DEF Commanding, OnEvent, Quiet, LoopTypeOK, Tabs, Inputs
  <1>1. CASE BeginInput
    BY <1>1 DEF BeginInput, vars
  <1>2. CASE KeyTab
    BY <1>2 DEF KeyTab, NextTab, vars
  <1>3. CASE KeyUp
    BY <1>3 DEF KeyUp, vars
  <1>4. CASE KeyDown
    <2>1. Len(Visible) \in Nat /\ Len(Visible) <= Len(entries) /\ Len(Visible) # 0
      BY <1>4, VisibleRows DEF KeyDown
    <2>2. cursor' \in Nat /\ cursor' < Len(entries)
      BY <1>4, <2>1 DEF KeyDown, StepDown, Last
    <2>3. QED
      BY <1>4, <2>2 DEF KeyDown, vars
  <1>5. CASE KeyEnter
    BY <1>5 DEF KeyEnter, vars
  <1>6. CASE CtrlC \/ BackOut
    BY <1>6 DEF CtrlC, BackOut, Leave, nav
  <1>7. CASE BackToList
    BY <1>7 DEF BackToList, vars
  <1>8. CASE KeyOpen
    <2>1. Selected \in Dirs \cup {None}
      BY SelectedType
    <2>2. QED
      BY <1>8, <2>1 DEF KeyOpen, vars, nav
  <1>9. CASE InputPush \/ InputBackspace \/ CloseInput
    BY <1>9 DEF InputPush, InputBackspace, CloseInput, vars
  <1>10. ASSUME NEW p \in Procs, InputEnter(p) PROVE LoopTypeOK'
    BY <1>10 DEF InputEnter
  <1>11. ASSUME NEW t \in Tabs, ClickTab(t) PROVE LoopTypeOK'
    BY <1>11 DEF ClickTab, vars
  <1>12. ASSUME NEW pos \in 0..(Cardinality(Dirs) - 1), ClickRow(pos)
         PROVE  LoopTypeOK'
    <2>1. pos \in Nat /\ pos < Len(entries)
      BY <1>12, VisibleRows DEF ClickRow
    <2>2. QED
      BY <1>12, <2>1 DEF ClickRow, vars
  <1>13. QED
    BY <1>1, <1>2, <1>3, <1>4, <1>5, <1>6, <1>7, <1>8, <1>9, <1>10, <1>11, <1>12
    DEF Command

LEMMA LoopType ==
  ASSUME TypeOK, RefreshPlace, TypeOK', LoopTypeOK, [NavNext]_navVars
  PROVE  LoopTypeOK'
  <1>1. [Next]_vars
    BY LoopIsFleet
  <1>2. DOMAIN entries \subseteq DOMAIN entries'
    BY <1>1, RowsStay
  <1>3. /\ Len(entries) \in Nat /\ Len(entries') \in Nat
        /\ DOMAIN entries = 1..Len(entries) /\ DOMAIN entries' = 1..Len(entries')
    BY DEF TypeOK
  <1>4. Len(entries) <= Len(entries')
    BY <1>2, <1>3
  <1>5. CASE Draw
    <2>1. Selected \in Dirs \cup {None}
      BY SelectedType DEF LoopTypeOK
    <2>2. QED
      BY <1>5, <2>1 DEF Draw, LoopTypeOK, vars, nav
  <1>6. CASE TimeOut \/ RefreshStep
    BY <1>3, <1>4, <1>6 DEF TimeOut, RefreshStep, LoopTypeOK, nav
  <1>7. CASE ViewerExits
    BY <1>7 DEF ViewerExits, LoopTypeOK, vars, nav
  <1>8. CASE Command
    BY <1>3, <1>4, <1>8, CommandType
  <1>9. CASE (\E p \in Procs : SocketLaunch(p)) \/ Outside
    BY <1>3, <1>4, <1>9 DEF SocketLaunch, Outside, LoopTypeOK, nav
  <1>10. CASE UNCHANGED navVars
    BY <1>10 DEF navVars, LoopTypeOK, vars, nav
  <1>11. QED
    BY <1>5, <1>6, <1>7, <1>8, <1>9, <1>10 DEF NavNext

\* Every variable keeps its type; in particular the cursor stays on a row that
\* exists whatever the refreshes adopt and the tabs hide (move_selection,
\* select_visible and the tab switch of fleet.rs).
THEOREM NavTypeCorrect == NavSpec => []NavTypeOK
  <1>1. NavInit => LoopTypeOK
    BY DEF NavInit, LoopTypeOK, Tabs, Inputs
  <1>2. TypeOK /\ RefreshPlace /\ TypeOK' /\ LoopTypeOK /\ [NavNext]_navVars
        => LoopTypeOK'
    BY LoopType
  <1>3. TypeOK /\ LoopTypeOK => NavTypeOK
    BY DEF NavTypeOK, LoopTypeOK
  <1>4. QED
    BY <1>1, <1>2, <1>3, TerminalImplementsFleet, TypeCorrect, PTL DEF NavSpec

-----------------------------------------------------------------------------
(* The highlight.                                                          *)

\* With every row shown, the n-th line is the n-th row.
LEMMA UnfilteredLine ==
  ASSUME NEW es \in Seq(Status), NEW c \in Nat
  PROVE  LET vis == Ascending(1..Len(es))
         IN  (IF c < Len(vis) THEN es[vis[c + 1]].dir ELSE None) =
               IF c + 1 \in DOMAIN es THEN es[c + 1].dir ELSE None
  <1> DEFINE vis == Ascending(1..Len(es))
  <1>1. Len(es) \in Nat /\ DOMAIN es = 1..Len(es)
    OBVIOUS
  <1>2. Len(vis) = Len(es) /\ \A k \in 1..Len(es) : vis[k] = k
    BY <1>1, AscendingAll
  <1> HIDE DEF vis
  <1>3. (IF c < Len(vis) THEN es[vis[c + 1]].dir ELSE None) =
          IF c + 1 \in DOMAIN es THEN es[c + 1].dir ELSE None
    BY <1>1, <1>2
  <1>4. QED
    BY <1>3 DEF vis

LEMMA HighlightStays ==
  ASSUME TypeOK, RefreshPlace, TypeOK', LoopTypeOK, [NavNext]_navVars,
         tab = "All", tab' = "All", cursor' = cursor, Selected # None
  PROVE  Selected' = Selected
  <1>1. [Next]_vars /\ cursor \in Nat
    BY LoopIsFleet DEF LoopTypeOK
  <1>2. /\ DOMAIN entries \subseteq DOMAIN entries'
        /\ \A i \in DOMAIN entries : entries'[i].dir = entries[i].dir
    BY <1>1, RowsStay
  <1>3. /\ entries \in Seq(Status) /\ DOMAIN entries = 1..Len(entries)
        /\ entries' \in Seq(Status) /\ DOMAIN entries' = 1..Len(entries')
    BY DEF TypeOK
  <1>4. Rows = 1..Len(entries) /\ Rows' = 1..Len(entries')
    <2>1. \A i \in DOMAIN entries : InTab(entries[i])
      BY DEF InTab
    <2>2. \A i \in DOMAIN entries' : InTab(entries[i])'
      BY DEF InTab
    <2>3. QED
      BY <1>3, <2>1, <2>2 DEF Rows
  <1>5. Selected = IF cursor + 1 \in DOMAIN entries
                   THEN entries[cursor + 1].dir ELSE None
    BY <1>1, <1>3, <1>4, UnfilteredLine DEF Selected, Visible
  <1>6. Selected' = IF cursor + 1 \in DOMAIN entries'
                    THEN entries'[cursor + 1].dir ELSE None
    <2>1. Visible' = Ascending(1..Len(entries'))
      BY <1>4 DEF Visible, Ascending
    <2>2. Selected' = LET vis == Ascending(1..Len(entries'))
                      IN  IF cursor < Len(vis) THEN entries'[vis[cursor + 1]].dir
                          ELSE None
      BY <2>1 DEF Selected
    <2>3. QED
      BY <1>1, <1>3, <2>2, UnfilteredLine
  <1>7. QED
    BY <1>2, <1>5, <1>6

\* In the unfiltered tab only the user moves the highlight: adoptions,
\* refreshes and socket launches leave it on the same investigation
\* (resolve_pending of fleet.rs appends, refresh replaces in place).
THEOREM HighlightIsStableAlways == NavSpec => HighlightIsStable
  <1>1. NavInit => LoopTypeOK
    BY DEF NavInit, LoopTypeOK, Tabs, Inputs
  <1>2. TypeOK /\ RefreshPlace /\ TypeOK' /\ LoopTypeOK /\ [NavNext]_navVars
        => LoopTypeOK'
    BY LoopType
  <1>3. TypeOK /\ RefreshPlace /\ TypeOK' /\ LoopTypeOK /\ [NavNext]_navVars
        => (tab = "All" /\ tab' = "All" /\ cursor' = cursor /\ Selected # None
              => Selected' = Selected)
    BY HighlightStays
  <1>4. QED
    BY <1>1, <1>2, <1>3, TerminalImplementsFleet, TypeCorrect, PTL
    DEF NavSpec, HighlightIsStable

-----------------------------------------------------------------------------
\* While the loop waits for an event the last frame is still true, although
\* the socket launches and the investigations write meanwhile; the viewer is
\* then started from a true frame.
FrameIsTrue ==
  /\ loop = "poll" => shown = Selected
  /\ OpensWhatIsShown

\* The selection is read from the rows, the sessions, the cursor and the tab.
LEMMA SelectionStays ==
  ASSUME UNCHANGED <<entries, sessions, cursor, tab>>
  PROVE  Selected' = Selected
  <1>1. Visible' = Visible
    BY DEF Visible, Ascending, Rows, InTab, EffectiveState
  <1>2. QED
    BY <1>1 DEF Selected

\* What leaves the loop, the selection and the frame alone keeps it true.
LEMMA FrameStays ==
  ASSUME FrameIsTrue,
         UNCHANGED <<entries, sessions, cursor, tab, loop, shown, opened>>
  PROVE  FrameIsTrue'
  BY SelectionStays DEF FrameIsTrue, OpensWhatIsShown

\* After anything that makes the loop draw again nothing is claimed.
LEMMA NothingClaimed ==
  ASSUME loop' \notin {"poll", "viewer"} PROVE FrameIsTrue'
  BY DEF FrameIsTrue, OpensWhatIsShown

LEMMA FrameInit == NavInit => FrameIsTrue
  BY DEF NavInit, FrameIsTrue, OpensWhatIsShown

-----------------------------------------------------------------------------
LEMMA DrawShows == ASSUME Draw PROVE FrameIsTrue'
  <1>1. UNCHANGED <<entries, sessions, cursor, tab>> /\ shown' = Selected
        /\ loop' = "poll"
    BY DEF Draw, vars, nav
  <1>2. Selected' = Selected
    BY <1>1, SelectionStays
  <1>3. QED
    BY <1>1, <1>2 DEF FrameIsTrue, OpensWhatIsShown

\* Every command but `o' asks for a new frame or ends the loop.
LEMMA CommandsRedraw ==
  ASSUME Command PROVE loop' \in {"draw", "down"} \/ KeyOpen
  <1> USE DEF Commanding, OnEvent
  <1>1. CASE BeginInput \/ KeyTab \/ KeyUp \/ KeyDown \/ KeyEnter
    BY <1>1 DEF BeginInput, KeyTab, KeyUp, KeyDown, KeyEnter
  <1>2. CASE CtrlC \/ BackOut \/ BackToList
    BY <1>2 DEF CtrlC, BackOut, Leave, BackToList
  <1>3. CASE InputPush \/ InputBackspace \/ CloseInput
    BY <1>3 DEF InputPush, InputBackspace, CloseInput
  <1>4. CASE \E p \in Procs : InputEnter(p)
    BY <1>4 DEF InputEnter
  <1>5. CASE \E t \in Tabs : ClickTab(t)
    BY <1>5 DEF ClickTab
  <1>6. CASE \E pos \in 0..(Cardinality(Dirs) - 1) : ClickRow(pos)
    BY <1>6 DEF ClickRow
  <1>7. QED
    BY <1>1, <1>2, <1>3, <1>4, <1>5, <1>6 DEF Command

LEMMA FrameStep ==
  ASSUME FrameIsTrue, [NavNext]_navVars PROVE FrameIsTrue'
  <1>1. CASE Draw
    BY <1>1, DrawShows
  <1>2. CASE TimeOut
    BY <1>2, NothingClaimed DEF TimeOut
  <1>3. CASE RefreshStep
    <2>1. loop' \in {"draw", "refresh"}
      BY <1>3 DEF RefreshStep
    <2>2. QED
      BY <2>1, NothingClaimed
  <1>4. CASE ViewerExits
    BY <1>4, NothingClaimed DEF ViewerExits
  <1>5. CASE KeyOpen
    <2>1. shown = Selected
      BY <1>5 DEF KeyOpen, FrameIsTrue
    <2>2. loop' = "viewer" /\ opened' = Selected /\ shown' = shown
      BY <1>5 DEF KeyOpen
    <2>3. QED
      BY <2>1, <2>2 DEF FrameIsTrue, OpensWhatIsShown
  <1>6. CASE Command /\ ~KeyOpen
    <2>1. loop' \in {"draw", "down"}
      BY <1>6, CommandsRedraw
    <2>2. QED
      BY <2>1, NothingClaimed
  <1>7. ASSUME NEW p \in Procs, SocketLaunch(p) PROVE FrameIsTrue'
    <2>1. UNCHANGED <<entries, sessions, cursor, tab, loop, shown, opened>>
      BY <1>7 DEF SocketLaunch, LaunchInvestigation, nav
    <2>2. QED
      BY <2>1, FrameStays
  <1>8. CASE Outside
    <2>1. UNCHANGED fleet
      BY <1>8 DEF Outside, Investigations, CreateDir, AppendAudit, WriteManifest,
                  Cool, WriteVerify, Exit
    <2>2. UNCHANGED <<entries, sessions, cursor, tab, loop, shown, opened>>
      BY <1>8, <2>1 DEF Outside, fleet, nav
    <2>3. QED
      BY <2>2, FrameStays
  <1>9. CASE UNCHANGED navVars
    <2>1. UNCHANGED <<entries, sessions, cursor, tab, loop, shown, opened>>
      BY <1>9 DEF navVars, vars, nav
    <2>2. QED
      BY <2>1, FrameStays
  <1>10. QED
    BY <1>1, <1>2, <1>3, <1>4, <1>5, <1>6, <1>7, <1>8, <1>9 DEF NavNext

\* Whatever the socket launches and the investigations write between a frame
\* and the key that answers it, `o' opens the viewer on the investigation that
\* frame highlighted, and on nothing else until the viewer exits (the draw,
\* poll and on_key of main.rs, fleet.rs pending_open).
THEOREM OpensWhatIsShownAlways == NavSpec => []OpensWhatIsShown
  <1>1. NavInit => FrameIsTrue
    BY FrameInit
  <1>2. FrameIsTrue /\ [NavNext]_navVars => FrameIsTrue'
    BY FrameStep
  <1>3. FrameIsTrue => OpensWhatIsShown
    BY DEF FrameIsTrue
  <1>4. QED
    BY <1>1, <1>2, <1>3, PTL DEF NavSpec
=============================================================================
