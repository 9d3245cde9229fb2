------------------------------ MODULE FleetNav ------------------------------
(***************************************************************************)
(* The fleet at a terminal: the event loop of main.rs and the navigation   *)
(* of fleet.rs, composed with the refresh and the investigations of Fleet. *)
(*                                                                         *)
(* The loop draws under the mutex, waits a second for an event, and either *)
(* handles it or refreshes.  The socket API runs beside it and can launch  *)
(* whenever the mutex is free, between a frame and the key it provokes     *)
(* too.  A full-screen viewer blocks the loop, and with it the refresh.    *)
(***************************************************************************)
EXTENDS Fleet

VARIABLES
  loop,           \* where the event loop is
  cursor,         \* FleetState.cursor, from 0
  view,           \* FleetState.view
  tab,            \* FleetState.tab
  input,          \* FleetState.input: off, blank (trims to "") or text
  shown,          \* the investigation the last frame highlights
  opened          \* the directory the viewer was started on

nav == <<cursor, view, tab, input>>
navVars == <<vars, loop, nav, shown, opened>>

Tabs == {"All", "Active", "Done", "Issues"}
Inputs == {"off", "blank", "text"}

NavTypeOK ==
  /\ TypeOK
  /\ loop \in {"draw", "poll", "refresh", "viewer", "down"}
  /\ cursor \in Nat /\ (cursor = 0 \/ cursor < Len(entries))
  /\ view \in {"List", "Detail"}
  /\ tab \in Tabs
  /\ input \in Inputs
  /\ shown \in Dirs \cup {None}
  /\ opened \in Dirs \cup {None}

-----------------------------------------------------------------------------
InTab(e) ==
  CASE tab = "All"    -> TRUE
    [] tab = "Active" -> EffectiveState(e) \in {"Working", "Blocked"}
    [] tab = "Done"   -> EffectiveState(e) = "Done"
    [] tab = "Issues" -> e.custody = "CustodyInvalid" \/ EffectiveState(e) = "Blocked"

\* The members of a set of positions, ascending: the n-th has n of them up to it.
Ascending(rows) ==
  [n \in 1..Cardinality(rows) |->
     CHOOSE i \in rows : Cardinality({j \in rows : j <= i}) = n]

\* The positions of the tab's rows.
Rows == {i \in DOMAIN entries : InTab(entries[i])}
Visible == Ascending(Rows)

Selected ==
  LET vis == Visible
  IN  IF cursor < Len(vis) THEN entries[vis[cursor + 1]].dir ELSE None

NextTab == [t \in Tabs |-> CASE t = "All"    -> "Active"
                             [] t = "Active" -> "Done"
                             [] t = "Done"   -> "Issues"
                             [] t = "Issues" -> "All"]

NavInit ==
  /\ Init
  /\ loop = "draw" /\ cursor = 0 /\ view = "List" /\ tab = "All"
  /\ input = "off" /\ opened = None /\ shown = None

-----------------------------------------------------------------------------
(* The loop.                                                               *)

Draw ==
  /\ loop = "draw" /\ pc = "idle"
  /\ shown' = Selected
  /\ loop' = "poll"
  /\ UNCHANGED <<vars, nav, opened>>

\* A second without input: refresh, then draw again.
TimeOut ==
  /\ loop = "poll" /\ StartRefresh /\ loop' = "refresh"
  /\ UNCHANGED <<nav, shown, opened>>

\* Mutant: the next key is read before the refreshed rows are drawn.
RefreshStepUndrawn ==
  /\ loop = "refresh" /\ Refresh
  /\ loop' = IF pc' = "idle" THEN "poll" ELSE "refresh"
  /\ UNCHANGED <<nav, shown, opened>>

RefreshStep ==
  /\ loop = "refresh" /\ Refresh
  /\ loop' = IF pc' = "idle" THEN "draw" ELSE "refresh"
  /\ UNCHANGED <<nav, shown, opened>>

\* An event is read after the frame it answers and handled under the mutex;
\* the next frame follows.
OnEvent == loop = "poll" /\ pc = "idle" /\ loop' = "draw"
Commanding == OnEvent /\ input = "off"
Quiet == UNCHANGED <<vars, shown, opened>>

Leave ==
  /\ loop = "poll" /\ input = "off"
  /\ Quit /\ loop' = "down"
  /\ UNCHANGED <<nav, shown, opened>>

CtrlC == Leave

-----------------------------------------------------------------------------
(* Keys outside the prompt: on_key and the prompt's start.                 *)

BeginInput ==
  /\ Commanding /\ Quiet
  /\ input' = "blank"
  /\ UNCHANGED <<cursor, view, tab>>

KeyTab ==
  /\ Commanding /\ Quiet
  /\ tab' = NextTab[tab] /\ cursor' = 0
  /\ UNCHANGED <<view, input>>

Last == Len(Visible) - 1

KeyUp ==
  /\ Commanding /\ Quiet /\ Visible # <<>> /\ view = "List" /\ cursor > 0
  /\ cursor' = cursor - 1
  /\ UNCHANGED <<view, tab, input>>

\* Mutant: the last row is not the end.
StepDownPastEnd(c) == c + 1

StepDown(c) == IF c + 1 <= Last THEN c + 1 ELSE Last

KeyDown ==
  /\ Commanding /\ Quiet /\ Visible # <<>> /\ view = "List"
  /\ cursor' = StepDown(cursor)
  /\ UNCHANGED <<view, tab, input>>

KeyEnter ==
  /\ Commanding /\ Quiet /\ Visible # <<>> /\ view = "List"
  /\ view' = "Detail"
  /\ UNCHANGED <<cursor, tab, input>>

\* `q' or escape.  An empty tab leaves the fleet whatever the view.
BackOut == (Visible = <<>> \/ view = "List") /\ Leave

BackToList ==
  /\ Commanding /\ Quiet /\ Visible # <<>> /\ view = "Detail"
  /\ view' = "List"
  /\ UNCHANGED <<cursor, tab, input>>

\* `o': the key sets pending_open, the loop clears it and opens the selection.
KeyOpen ==
  /\ loop = "poll" /\ pc = "idle" /\ input = "off"
  /\ Visible # <<>> /\ Selected # None
  /\ opened' = Selected /\ loop' = "viewer"
  /\ UNCHANGED <<vars, nav, shown>>

ViewerExits ==
  /\ loop = "viewer"
  /\ opened' = None /\ loop' = "draw"
  /\ UNCHANGED <<vars, nav, shown>>

-----------------------------------------------------------------------------
(* Keys in the prompt.                                                     *)

InputPush ==
  /\ OnEvent /\ Quiet /\ input # "off"
  /\ input' \in {input, "text"}
  /\ UNCHANGED <<cursor, view, tab>>

InputBackspace ==
  /\ OnEvent /\ Quiet /\ input # "off"
  /\ input' \in {input, "blank"}
  /\ UNCHANGED <<cursor, view, tab>>

\* Escape, or Enter on a blank prompt, or a spawn that fails.
CloseInput ==
  /\ OnEvent /\ Quiet /\ input # "off"
  /\ input' = "off"
  /\ UNCHANGED <<cursor, view, tab>>

InputEnter(p) ==
  /\ OnEvent /\ input = "text"
  /\ LaunchInvestigation(p)
  /\ input' = "off"
  /\ UNCHANGED <<cursor, view, tab, shown, opened>>

-----------------------------------------------------------------------------
(* Clicks work with and without the prompt.                                *)

ClickTab(t) ==
  /\ OnEvent /\ Quiet
  /\ tab' = t /\ cursor' = 0
  /\ UNCHANGED <<view, input>>

ClickRow(pos) ==
  /\ OnEvent /\ Quiet /\ pos < Len(Visible)
  /\ cursor' = pos /\ view' = "List"
  /\ UNCHANGED <<tab, input>>

-----------------------------------------------------------------------------
(* Beside the loop.                                                        *)

SocketLaunch(p) ==
  /\ LaunchInvestigation(p)
  /\ UNCHANGED <<loop, nav, shown, opened>>

\* Bound: here the disk changes only while the loop waits - a frame or a viewer
\* reads nothing of FleetState from it, and Fleet alone interleaves refreshes.
Outside ==
  /\ loop = "poll" /\ pc = "idle" /\ Investigations
  /\ UNCHANGED <<loop, nav, shown, opened>>

Command ==
  \/ BeginInput \/ KeyTab \/ KeyUp \/ KeyDown \/ KeyEnter
  \/ CtrlC \/ BackOut \/ BackToList \/ KeyOpen
  \/ InputPush \/ InputBackspace \/ CloseInput
  \/ \E p \in Procs : InputEnter(p)
  \/ \E t \in Tabs : ClickTab(t)
  \/ \E pos \in 0..(Cardinality(Dirs) - 1) : ClickRow(pos)

NavNext ==
  \/ Draw \/ TimeOut \/ RefreshStep \/ ViewerExits
  \/ Command
  \/ \E p \in Procs : SocketLaunch(p)
  \/ Outside

NavSpec == NavInit /\ [][NavNext]_navVars

-----------------------------------------------------------------------------
\* The viewer opens on the investigation the last frame highlighted: nothing
\* that happens between the frame and the key - a launch over the socket, a
\* write to a run directory - moves the selection under the user's hand.
OpensWhatIsShown == loop = "viewer" => opened = shown

\* In the unfiltered tab, only the user moves the highlight: adoptions and
\* refreshes leave it on the same investigation.
HighlightIsStable ==
  [][tab = "All" /\ tab' = "All" /\ cursor' = cursor /\ Selected # None
       => Selected' = Selected]_navVars
=============================================================================
