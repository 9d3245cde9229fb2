---------------------------- MODULE WorkspaceSync ----------------------------
(***************************************************************************)
(* One session and the sites that hold its events: the control plane and   *)
(* the remote workspaces it can be moved to.  The event log of a site      *)
(* (core/src/event.ts) takes local events at its end and replayed ones at  *)
(* their sequence number, fenced by the owner of the sequence.  The        *)
(* control plane (opencode/src/control-plane/workspace.ts) keeps a loop    *)
(* per workspace that connects, fetches the history it lacks and follows   *)
(* the live events; sessionWarp moves the session between workspaces.      *)
(*                                                                         *)
(* Requests and answers may be lost, streams drop, and the control plane   *)
(* may crash.  The logs, their owners and the session's rows are on disk.  *)
(*                                                                         *)
(* A site that has the session may work on it: which one a request goes to *)
(* is not modelled, and no turn is cancelled when the session leaves.      *)
(***************************************************************************)
EXTENDS Naturals, Sequences, FiniteSets, SequencesExt

CONSTANTS
  Workspaces,   \* remote workspaces
  Here,         \* the control plane, also the place of a session of no workspace
  None,         \* no owner
  MaxWork,      \* bound: events of the session's own work, at all sites
  MaxWarps      \* bound: warps that are tried

ASSUME SyncAssumption ==
  /\ Here \notin Workspaces
  /\ None \notin Workspaces \union {Here}
  /\ MaxWork \in Nat /\ MaxWarps \in Nat

Sites == Workspaces \union {Here}

VARIABLES
  log,          \* EventTable of a site: the session's events by seq
  owner,        \* EventSequenceTable.owner_id of a site; Here stands for the project
  place,        \* SessionTable.workspace_id at a site
  edit,         \* the place a Session.patch at a site has read, until it publishes
  sync,         \* the fibers of syncWorkspaceLoop
  wire,         \* events of a workspace on their way to the control plane
  warp,         \* the sessionWarp in progress
  work, warps   \* bounded counters

vars == <<log, owner, place, edit, sync, wire, warp, work, warps>>

(* An event has an author, who numbers it, and may set the session's place. *)
Events == [by : Sites, n : Nat, to : Sites \union {None}]
Own(site) == {i \in DOMAIN log[site] : log[site][i].by = site}
NewEvent(site, to) == [by |-> site, n |-> Cardinality(Own(site)), to |-> to]

(* Pages of events: rows[1] has sequence number from + 1. *)
NoPage == [from |-> 0, rows |-> <<>>]
After(l, n) == [from |-> n, rows |-> SubSeq(l, n + 1, Len(l))]
TailPage(p) == [from |-> p.from + 1, rows |-> Tail(p.rows)]

Idle == [at |-> "idle", from |-> Here, to |-> Here, known |-> 0, page |-> NoPage]
Asleep == [at |-> "sleep", known |-> 0, page |-> NoPage]

(* The session was created at some site, in a workspace or in none. *)
Init ==
  /\ \E born, to \in Sites :
       /\ log = [s \in Sites |-> IF s = born THEN <<[by |-> born, n |-> 0, to |-> to]>> ELSE <<>>]
       /\ place = [s \in Sites |-> IF s = born THEN to ELSE Here]
  /\ owner = [s \in Sites |-> None]
  /\ edit = [s \in Sites |-> None]
  /\ sync = [w \in Workspaces |-> Asleep]
  /\ wire = [w \in Workspaces |-> <<>>]
  /\ warp = Idle
  /\ work = 0 /\ warps = 0

-------------------------------------------------------------------------------
(* The event log of a site. *)

(* A replay for another owner than the one that claimed the sequence. *)
Fenced(site, by) == owner[site] \notin {None, by}

(* Mutant: any event beyond the end is the next one. *)
AcceptedUnfenced(site, seq, e, by) ==
  /\ seq = Len(log[site]) + 1
  /\ e \notin Range(log[site])

Known(site, seq, e) == seq \in DOMAIN log[site] /\ log[site][seq] = e
Accepted(site, seq, e, by) ==
  /\ seq = Len(log[site]) + 1
  /\ ~Fenced(site, by)
  /\ e \notin Range(log[site])
Ignored(site, seq, by) == seq > Len(log[site]) /\ Fenced(site, by)

(* Mutant: every event of a session sets its place. *)
ProjectedAlways(site, e) == [place EXCEPT ![site] = e.to]

(* The session's row follows the events that set its place. *)
Projected(site, e) == IF e.to # None THEN [place EXCEPT ![site] = e.to] ELSE place

(* replay: an event the log has already is passed over, a fenced one is      *)
(* ignored, the next one is stored; the first of them that names an owner    *)
(* claims a sequence nobody owned.                                           *)
Replay(site, seq, e, by) ==
  LET stored == Accepted(site, seq, e, by)
  IN  /\ log' = IF stored THEN [log EXCEPT ![site] = Append(@, e)] ELSE log
      /\ owner' = IF owner[site] = None /\ (stored \/ Known(site, seq, e))
                  THEN [owner EXCEPT ![site] = by] ELSE owner
      /\ place' = IF stored THEN Projected(site, e) ELSE place

(* ... and everything else is a defect: divergence, a gap, an id used twice. *)
Dies(site, seq, e, by) ==
  ~(Known(site, seq, e) \/ Accepted(site, seq, e, by) \/ Ignored(site, seq, by))

(* Mutant: the events are followed only once the history is there. *)
ListeningLate(w) == sync[w].at = "live"

(* A local event goes to the end of the log, whoever owns the sequence, and *)
(* to those that follow the site live.                                      *)
Listening(w) == sync[w].at \in {"ask", "asked", "replay", "live"}
Publish(site, to) ==
  LET e == NewEvent(site, to)
  IN  /\ log' = [log EXCEPT ![site] = Append(@, e)]
      /\ place' = Projected(site, e)
      /\ wire' = IF site \in Workspaces /\ Listening(site)
                 THEN [wire EXCEPT ![site] = Append(@, [seq |-> Len(log[site]) + 1, event |-> e])]
                 ELSE wire

Works(site) == log[site] # <<>> /\ work < MaxWork /\ work' = work + 1

(* An event of a turn, or Moved, which takes the session out of any workspace. *)
Work(site) ==
  /\ Works(site)
  /\ \E to \in {None, Here} : Publish(site, to)
  /\ UNCHANGED <<owner, edit, sync, warp, warps>>

(* patch: the session's row is read, and Updated is published with all that  *)
(* was read, the place too.                                                  *)
ReadInfo(site) ==
  /\ Works(site)
  /\ edit[site] = None
  /\ edit' = [edit EXCEPT ![site] = place[site]]
  /\ UNCHANGED <<log, owner, place, sync, wire, warp, warps>>

Updated(site) ==
  /\ edit[site] # None
  /\ Publish(site, edit[site])
  /\ edit' = [edit EXCEPT ![site] = None]
  /\ UNCHANGED <<owner, sync, warp, work, warps>>

-------------------------------------------------------------------------------
(* syncWorkspaceLoop *)

Moves(w, s) == sync' = [sync EXCEPT ![w] = s]
Silent(w) == wire' = [wire EXCEPT ![w] = <<>>]

(* connectSSE; a failure only lets the loop sleep longer *)
Connect(w) ==
  /\ sync[w].at = "sleep"
  /\ Moves(w, [Asleep EXCEPT !.at = "ask"])
  /\ Silent(w)
  /\ UNCHANGED <<log, owner, place, edit, warp, work, warps>>

(* What the control plane has of a session it holds to be in w; of another  *)
(* session it asks for everything.                                          *)
KnownOf(w) == IF place[Here] = w THEN Len(log[Here]) ELSE 0

Ask(w) ==
  /\ sync[w].at = "ask"
  /\ Moves(w, [Asleep EXCEPT !.at = "asked", !.known = KnownOf(w)])
  /\ UNCHANGED <<log, owner, place, edit, wire, warp, work, warps>>

(* /sync/history of w *)
Answer(w) ==
  /\ sync[w].at = "asked"
  /\ Moves(w, [Asleep EXCEPT !.at = "replay", !.page = After(log[w], sync[w].known)])
  /\ UNCHANGED <<log, owner, place, edit, wire, warp, work, warps>>

AnswerLost(w) ==
  /\ sync[w].at = "asked"
  /\ Moves(w, Asleep) /\ Silent(w)
  /\ UNCHANGED <<log, owner, place, edit, warp, work, warps>>

(* A defect in the history ends the loop: it is no error to be caught. *)
ReplayHistory(w) ==
  /\ sync[w].at = "replay"
  /\ LET p == sync[w].page
     IN  /\ p.rows # <<>>
         /\ IF Dies(Here, p.from + 1, Head(p.rows), w)
            THEN Moves(w, [Asleep EXCEPT !.at = "dead"]) /\ Silent(w) /\ UNCHANGED <<log, owner, place>>
            ELSE Replay(Here, p.from + 1, Head(p.rows), w) /\ Moves(w, [sync[w] EXCEPT !.page = TailPage(p)])
                 /\ UNCHANGED wire
  /\ UNCHANGED <<edit, warp, work, warps>>

GoLive(w) ==
  /\ sync[w].at = "replay"
  /\ sync[w].page.rows = <<>>
  /\ Moves(w, [Asleep EXCEPT !.at = "live"])
  /\ UNCHANGED <<log, owner, place, edit, wire, warp, work, warps>>

(* A defect in a live event is logged and the event passed over. *)
Receive(w) ==
  /\ sync[w].at = "live" /\ wire[w] # <<>>
  /\ LET m == Head(wire[w])
     IN  IF Dies(Here, m.seq, m.event, w) THEN UNCHANGED <<log, owner, place>>
         ELSE Replay(Here, m.seq, m.event, w)
  /\ wire' = [wire EXCEPT ![w] = Tail(@)]
  /\ UNCHANGED <<edit, sync, warp, work, warps>>

(* The stream ends; the loop sleeps and connects again. *)
Drop(w) ==
  /\ sync[w].at = "live"
  /\ Moves(w, Asleep) /\ Silent(w)
  /\ UNCHANGED <<log, owner, place, edit, warp, work, warps>>

(* startSync finds no fiber of a loop that died. *)
Restart(w) ==
  /\ sync[w].at = "dead"
  /\ Moves(w, Asleep)
  /\ UNCHANGED <<log, owner, place, edit, wire, warp, work, warps>>

LoopStep(w) ==
  Connect(w) \/ Ask(w) \/ Answer(w) \/ ReplayHistory(w) \/ GoLive(w) \/ Receive(w)

-------------------------------------------------------------------------------
(* sessionWarp *)

Leaving == warp.from # Here     \* the session has a workspace to leave

StartWarp(to) ==
  /\ warp.at = "idle" /\ warps < MaxWarps
  /\ log[Here] # <<>>
  /\ warps' = warps + 1
  /\ LET from == place[Here]
     IN  warp' = [Idle EXCEPT !.at = IF from # Here THEN "ask" ELSE IF to = Here THEN "set" ELSE "rows",
                              !.from = from, !.to = to]
  /\ UNCHANGED <<log, owner, place, edit, sync, wire, work>>

(* A last syncHistory of the workspace that is left; its failure is logged. *)
WarpAsk ==
  /\ warp.at = "ask"
  /\ warp' = [warp EXCEPT !.at = "asked", !.known = KnownOf(warp.from)]
  /\ UNCHANGED <<log, owner, place, edit, sync, wire, work, warps>>

WarpAnswer ==
  /\ warp.at = "asked"
  /\ warp' = [warp EXCEPT !.at = "final", !.page = After(log[warp.from], warp.known), !.known = 0]
  /\ UNCHANGED <<log, owner, place, edit, sync, wire, work, warps>>

WarpAnswerLost ==
  /\ warp.at = "asked"
  /\ warp' = [warp EXCEPT !.at = "claim", !.known = 0]
  /\ UNCHANGED <<log, owner, place, edit, sync, wire, work, warps>>

FinalReplay ==
  /\ warp.at = "final"
  /\ LET p == warp.page
     IN  IF p.rows = <<>>
         THEN warp' = [warp EXCEPT !.at = "claim", !.page = NoPage] /\ UNCHANGED <<log, owner, place>>
         ELSE IF Dies(Here, p.from + 1, Head(p.rows), warp.from)
         THEN warp' = Idle /\ UNCHANGED <<log, owner, place>>
         ELSE Replay(Here, p.from + 1, Head(p.rows), warp.from) /\ warp' = [warp EXCEPT !.page = TailPage(p)]
  /\ UNCHANGED <<edit, sync, wire, work, warps>>

(* Mutant: the sequence is not claimed. *)
ClaimNothing ==
  /\ warp.at = "claim"
  /\ warp' = [warp EXCEPT !.at = "patch"]
  /\ UNCHANGED <<log, owner, place, edit, sync, wire, work, warps>>

(* claim: events of the workspace that is left are ignored from now on. *)
Claim ==
  /\ warp.at = "claim"
  /\ owner' = [owner EXCEPT ![Here] = warp.to]
  /\ warp' = [warp EXCEPT !.at = "patch"]
  /\ UNCHANGED <<log, place, edit, sync, wire, work, warps>>

(* The file changes are applied at the target; that a remote one does not   *)
(* take them is logged and passed over.                                     *)
Patch ==
  /\ warp.at = "patch"
  /\ warp' = [warp EXCEPT !.at = IF warp.to = Here THEN "set" ELSE "rows"]
  /\ UNCHANGED <<log, owner, place, edit, sync, wire, work, warps>>

(* All the rows there are; known keeps how many were read. *)
ReadRows ==
  /\ warp.at = "rows"
  /\ warp' = [warp EXCEPT !.at = "send", !.known = Len(log[Here]), !.page = After(log[Here], 0)]
  /\ UNCHANGED <<log, owner, place, edit, sync, wire, work, warps>>

(* /sync/replay at the target, strict about the owner; a defect there is an *)
(* answer that fails the warp.                                              *)
Send ==
  /\ warp.at = "send"
  /\ LET p == warp.page
         by == warp.to
     IN  IF p.rows = <<>>
         THEN warp' = [warp EXCEPT !.at = "steal", !.page = NoPage] /\ UNCHANGED <<log, owner, place>>
         ELSE IF Fenced(by, by) \/ Dies(by, p.from + 1, Head(p.rows), by)
         THEN warp' = Idle /\ UNCHANGED <<log, owner, place>>
         ELSE Replay(by, p.from + 1, Head(p.rows), by) /\ warp' = [warp EXCEPT !.page = TailPage(p)]
  /\ UNCHANGED <<edit, sync, wire, work, warps>>

(* Mutant: the place is set before the target has taken over. *)
StealLast ==
  /\ warp.at = "steal"
  /\ warp' = [warp EXCEPT !.at = "set"]
  /\ UNCHANGED <<log, owner, place, edit, sync, wire, work, warps>>

(* /sync/steal: the target notes that the session is its own. *)
Steal ==
  /\ warp.at = "steal"
  /\ Publish(warp.to, warp.to)
  /\ warp' = [warp EXCEPT !.at = "set"]
  /\ UNCHANGED <<owner, edit, sync, work, warps>>

(* ... and so does the control plane, in an event of its own. *)
SetWorkspace ==
  /\ warp.at = "set"
  /\ Publish(Here, warp.to)
  /\ warp' = Idle
  /\ UNCHANGED <<owner, edit, sync, work, warps>>

(* A local patch does not apply, the target is unknown, a request or its    *)
(* answer is lost.                                                          *)
WarpFails ==
  /\ warp.at \in {"patch", "rows", "send", "steal"} \/ (warp.at = "set" /\ warp.to # Here)
  /\ warp' = Idle
  /\ UNCHANGED <<log, owner, place, edit, sync, wire, work, warps>>

WarpStep == WarpAsk \/ WarpAnswer \/ FinalReplay \/ Claim \/ Patch \/ ReadRows \/ Send \/ Steal \/ SetWorkspace

(* The control plane dies and comes back. *)
Crash ==
  /\ sync' = [w \in Workspaces |-> Asleep]
  /\ wire' = [w \in Workspaces |-> <<>>]
  /\ warp' = Idle
  /\ edit' = [edit EXCEPT ![Here] = None]
  /\ UNCHANGED <<log, owner, place, work, warps>>

Next ==
  \/ \E s \in Sites : Work(s) \/ ReadInfo(s) \/ Updated(s) \/ StartWarp(s)
  \/ \E w \in Workspaces : LoopStep(w) \/ AnswerLost(w) \/ Drop(w) \/ Restart(w)
  \/ WarpStep \/ WarpAnswerLost \/ WarpFails
  \/ Crash

Spec == Init /\ [][Next]_vars

(* The loops run on; a workspace that is asked again and again answers in   *)
(* the end.                                                                 *)
FairSpec ==
  /\ Spec
  /\ \A w \in Workspaces : WF_vars(LoopStep(w)) /\ SF_vars(Answer(w))

-------------------------------------------------------------------------------
Pages == [from : Nat, rows : Seq(Events)]
TypeOK ==
  /\ log \in [Sites -> Seq(Events)]
  /\ owner \in [Sites -> Sites \union {None}]
  /\ place \in [Sites -> Sites]
  /\ edit \in [Sites -> Sites \union {None}]
  /\ sync \in [Workspaces -> [at : {"sleep", "ask", "asked", "replay", "live", "dead"}, known : Nat, page : Pages]]
  /\ wire \in [Workspaces -> Seq([seq : Nat, event : Events])]
  /\ warp \in [at : {"idle", "ask", "asked", "final", "claim", "patch", "rows", "send", "steal", "set"},
               from : Sites, to : Sites, known : Nat, page : Pages]
  /\ work \in Nat /\ warps \in Nat

(* workspace.ts:587, "claim this session so any future events coming from    *)
(* the old workspace are ignored": what is stored while another site owns    *)
(* the session was not made in this workspace, whatever way it came.         *)
FencedOut ==
  [][\A w \in Workspaces :
       Len(log'[Here]) > Len(log[Here]) /\ Last(log'[Here]).by = w => ~Fenced(Here, w)]_vars

(* When a warp out of a workspace is about to set the session's place, the   *)
(* target has all that the control plane has, event for event, but for what  *)
(* the control plane itself published since it read the rows.                *)
HandsOver ==
  warp.at = "set" /\ Leaving /\ warp.to # Here =>
    \A i \in DOMAIN log[Here] :
      i <= warp.known \/ log[Here][i].by # Here =>
        i \in DOMAIN log[warp.to] /\ log[warp.to][i] = log[Here][i]

(* No row places a session in a workspace that it was not created in and that *)
(* never took it over, however old the row an Updated repeats.                *)
CreatedIn(w) == \E s \in Sites : 1 \in DOMAIN log[s] /\ log[s][1].to = w
TookOver(w) == \E i \in DOMAIN log[w] : log[w][i].by = w /\ log[w][i].to = w
PlacedWhereTaken ==
  \A s \in Sites : place[s] # Here => CreatedIn(place[s]) \/ TookOver(place[s])

(* A control plane that stays up catches up with the workspace the session   *)
(* is in, unless that one is fenced out, its loop dies or the session moves: *)
(* the stream is opened before the history is asked for, so that no event    *)
(* falls between the two.  What was ignored while another site owned the     *)
(* session only comes again with the next history: it is not Coming.         *)
Behind(w) ==
  (log[Here] = <<>> \/ place[Here] = w) /\ ~Fenced(Here, w) /\ Len(log[Here]) < Len(log[w])
Coming(w) ==
  LET next == Len(log[Here]) + 1
      p == sync[w].page
  IN  \/ sync[w].at \in {"sleep", "ask", "asked"}
      \/ next \in p.from + 1 .. p.from + Len(p.rows)
      \/ \E m \in Range(wire[w]) : m.seq = next
CatchesUp ==
  \/ []<><<Crash>>_vars
  \/ \A w \in Workspaces :
       Behind(w) /\ Coming(w) ~> (~Behind(w) \/ sync[w].at = "dead" \/ warp.at # "idle")

(* workspace.ts:608, "We intentionally do first so if it fails we don't warp *)
(* the session": a warp that failed leaves the session with its workspace,   *)
(* whose events still count.                                                 *)
FailedWarpIsNone == warp.at = "idle" /\ place[Here] # Here => ~Fenced(Here, place[Here])

==============================================================================
