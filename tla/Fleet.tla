-------------------------------- MODULE Fleet --------------------------------
(***************************************************************************)
(* The fleet's state and its live refresh (crates/caseforge-fleet/src:     *)
(* fleet.rs, session.rs, and the loop of main.rs and socket.rs that calls  *)
(* them), together with the investigations that write the run directories  *)
(* it watches.                                                             *)
(*                                                                         *)
(* FleetState lives behind one mutex.  A refresh holds it from start to    *)
(* end, but the disk and the child processes do not wait for it, so the    *)
(* refresh is a step per look at the outside world, and the actions of the *)
(* investigations fall between any two of them.  A derivation's reads of a *)
(* directory that follow its parse are one look: the manifest and the log  *)
(* only appear, and the file that may change, manifest_verify.json, is     *)
(* read last.  Launches and the end of the fleet need the mutex: they      *)
(* happen only between refreshes.                                          *)
(***************************************************************************)
EXTENDS RunStatus, Sequences, FiniteSets

CONSTANTS
  Dirs,           \* run directories, existing or not yet created
  Procs,          \* investigations this fleet can launch
  ArgDirs,        \* the run directories named on the command line, in order
  Outsider,       \* an investigation started outside of this fleet
  None,
  MaxAudit,       \* bound: audit records per directory
  MaxDirs         \* bound: directories one investigation creates

ASSUME ConstantsAssumption ==
  /\ ArgDirs \in Seq(Dirs)
  /\ Outsider \notin Procs
  /\ None \notin Procs \cup Dirs \cup Fingerprints \cup {Outsider}
  /\ MaxAudit \in Nat /\ MaxDirs \in Nat

VARIABLES
  disk,           \* the run directories
  maker,          \* who created each directory
  proc,           \* the life of each launchable investigation
  entries,        \* FleetState.entries, in display order
  sessions,       \* FleetState.sessions: the process tracked at a directory
  fingerprints,   \* FleetState.fingerprints
  pending,        \* FleetState.pending
  todo,           \* the launches resolve_pending has yet to look at
  pc,             \* where the refresh is; "idle" when nobody refreshes
  row,            \* the entry the refresh is at
  parsed          \* the audit parse of that entry

env == <<disk, maker, proc>>
tick == <<pc, row, parsed, todo>>
vars == <<disk, maker, proc, entries, sessions, fingerprints, pending, tick>>

Status == [dir: Dirs, state: RunState, custody: Custody, records: Nat,
           last: Kinds \cup {NoKind}]
Launches == [session: Procs, before: SUBSET Dirs]
Steps == {"idle", "resolve", "probe", "reap", "check", "restat", "parse", "derive",
          "down"}

TypeOK ==
  /\ disk \in [Dirs -> CaseDisk]
  /\ maker \in [Dirs -> Procs \cup {Outsider, None}]
  /\ proc \in [Procs -> {"unborn", "running", "exited", "killed"}]
  /\ entries \in Seq(Status)
  /\ sessions \in [Dirs -> Procs \cup {None}]
  /\ fingerprints \in [Dirs -> Fingerprints \cup {None}]
  /\ pending \in Seq(Launches)
  /\ todo \in Seq(Launches)
  /\ pc \in Steps
  /\ row \in Nat \ {0}
  /\ parsed \in Parsed

-----------------------------------------------------------------------------
Made == {d \in Dirs : disk[d].made}                    \* list_case_dirs
Tracked == {entries[i].dir : i \in DOMAIN entries}
Running(p) == proc[p] = "running"                      \* Session::is_running

\* Dropping a Session kills its child; an exited child stays exited.
Kill(ps) ==
  proc' = [p \in Procs |-> IF p \in ps /\ Running(p) THEN "killed" ELSE proc[p]]

SessionProcs == {sessions[d] : d \in Dirs} \ {None}
LaunchProcs(ls) == {ls[i].session : i \in DOMAIN ls}

\* FleetState::scan over the directories of the command line.
Scan(dk) ==
  [i \in DOMAIN ArgDirs |->
     LET c == dk[ArgDirs[i]]
     IN  DeriveStatus(ArgDirs[i], c, ParseAudit(c), Recent(c))]

NoParse == ParseAudit(Absent)

\* The directories of the command line may be missing, in progress or done.
StartingDisks ==
  {Absent,
   [Absent EXCEPT !.made = TRUE],
   [Absent EXCEPT !.made = TRUE, !.size = 1, !.last = "work", !.hot = TRUE]}

ArgSet == {ArgDirs[i] : i \in DOMAIN ArgDirs}

Init ==
  /\ disk \in {dk \in [Dirs -> StartingDisks] :
                 \A d \in Dirs \ ArgSet : dk[d] = Absent}
  /\ maker = [d \in Dirs |-> IF disk[d].made THEN Outsider ELSE None]
  /\ proc = [p \in Procs |-> "unborn"]
  /\ entries = Scan(disk)
  /\ sessions = [d \in Dirs |-> None]
  /\ fingerprints = [d \in Dirs |-> None]
  /\ pending = <<>> /\ todo = <<>>
  /\ pc = "idle" /\ row = 1 /\ parsed = NoParse

-----------------------------------------------------------------------------
(* The investigations: `caseforge investigate' processes, launched by this *)
(* fleet or not.  An agent may outlive the run that started it, and a run  *)
(* may finish a directory it did not make: nobody's end stops the writing. *)

Started(w) == w = Outsider \/ (w \in Procs /\ proc[w] # "unborn")

fleet == <<entries, sessions, fingerprints, pending, tick>>

Write(d, c) == disk' = [disk EXCEPT ![d] = c]

CreateDir(w, d) ==
  /\ Started(w) /\ ~disk[d].made
  /\ Cardinality({e \in Dirs : maker[e] = w}) < MaxDirs
  /\ Write(d, [disk[d] EXCEPT !.made = TRUE])
  /\ maker' = [maker EXCEPT ![d] = w]
  /\ UNCHANGED <<proc, fleet>>

Appended(c, k) ==
  LET a == [c EXCEPT !.size = @ + 1, !.last = k, !.hot = TRUE]
  IN  IF k = "seal" THEN [a EXCEPT !.sealed = TRUE] ELSE a

AppendAudit(d, k) ==
  /\ disk[d].made /\ disk[d].size < MaxAudit
  /\ Write(d, Appended(disk[d], k))
  /\ UNCHANGED <<maker, proc, fleet>>

WriteManifest(d) ==
  /\ HasAudit(disk[d]) /\ ~disk[d].manifest
  /\ Write(d, [disk[d] EXCEPT !.manifest = TRUE])
  /\ UNCHANGED <<maker, proc, fleet>>

\* finalizeManifestVerify of the CLI: only over a manifest, and once, unless
\* two runs finish the directory: the later write then has the last word.
WriteVerify(d, v) ==
  /\ disk[d].manifest /\ disk[d].verify # v
  /\ Write(d, [disk[d] EXCEPT !.verify = v,
                              !.passed = @ \/ disk[d].verify = "pass"])
  /\ UNCHANGED <<maker, proc, fleet>>

\* WORKING_WINDOW_SECS pass without a write.
Cool(d) ==
  /\ disk[d].hot
  /\ Write(d, [disk[d] EXCEPT !.hot = FALSE])
  /\ UNCHANGED <<maker, proc, fleet>>

Exit(p) ==
  /\ Running(p)
  /\ proc' = [proc EXCEPT ![p] = "exited"]
  /\ UNCHANGED <<disk, maker, fleet>>

-----------------------------------------------------------------------------
(* Operations under the mutex, between refreshes.                          *)

\* From the prompt of the terminal or the launch command of the socket.
LaunchInvestigation(p) ==
  /\ pc = "idle" /\ proc[p] = "unborn"
  /\ proc' = [proc EXCEPT ![p] = "running"]
  /\ pending' = Append(pending, [session |-> p, before |-> Made])
  /\ UNCHANGED <<disk, maker, entries, sessions, fingerprints, tick>>

\* The fleet ends: its sessions are dropped, or hang up with their terminal.
Quit ==
  /\ pc = "idle"
  /\ Kill(SessionProcs \cup LaunchProcs(pending))
  /\ pc' = "down"
  /\ sessions' = [d \in Dirs |-> None]
  /\ pending' = <<>>
  /\ UNCHANGED <<disk, maker, entries, fingerprints, row, parsed, todo>>

-----------------------------------------------------------------------------
(* FleetState::refresh, a step per look at the outside world.              *)

StartRefresh ==
  /\ pc = "idle"
  /\ pc' = "resolve" /\ todo' = pending /\ pending' = <<>>
  /\ UNCHANGED <<env, entries, sessions, fingerprints, row, parsed>>

NewDirs(l) == Made \ l.before

\* The status of an adopted directory is derived with now = 0: never old.
AdoptedEntry(d) ==
  DeriveStatus(d, disk[d], ParseAudit(disk[d]), HasAudit(disk[d]))

\* Mutants: the membership test is inverted; the new row goes first.
WithEntryInverted(d) ==
  IF d \in Tracked THEN Append(entries, AdoptedEntry(d)) ELSE entries

WithEntryFirst(d) ==
  IF d \in Tracked THEN entries ELSE <<AdoptedEntry(d)>> \o entries

WithEntry(d) ==
  IF d \in Tracked THEN entries ELSE Append(entries, AdoptedEntry(d))

\* Mutant: the session that held the directory is forgotten, not dropped.
AdoptForgetting(d) ==
  /\ pc = "resolve" /\ todo # <<>> /\ d \in NewDirs(Head(todo))
  /\ entries' = WithEntry(d)
  /\ sessions' = [sessions EXCEPT ![d] = Head(todo).session]
  /\ todo' = Tail(todo)
  /\ UNCHANGED <<env, fingerprints, pending, pc, row, parsed>>

Adopt(d) ==
  /\ pc = "resolve" /\ todo # <<>> /\ d \in NewDirs(Head(todo))
  /\ entries' = WithEntry(d)
  /\ Kill({sessions[d]} \cap Procs)
  /\ sessions' = [sessions EXCEPT ![d] = Head(todo).session]
  /\ todo' = Tail(todo)
  /\ UNCHANGED <<disk, maker, fingerprints, pending, pc, row, parsed>>

\* The listing shows nothing new; the process is asked next.
FindNothing ==
  /\ pc = "resolve" /\ todo # <<>> /\ NewDirs(Head(todo)) = {}
  /\ pc' = "probe"
  /\ UNCHANGED <<env, entries, sessions, fingerprints, pending, todo, row, parsed>>

KeepWaiting ==
  /\ pc = "probe" /\ Running(Head(todo).session)
  /\ pending' = Append(pending, Head(todo)) /\ todo' = Tail(todo)
  /\ pc' = "resolve"
  /\ UNCHANGED <<env, entries, sessions, fingerprints, row, parsed>>

DropLaunch ==
  /\ Kill({Head(todo).session})
  /\ todo' = Tail(todo)
  /\ pc' = "resolve"
  /\ UNCHANGED <<disk, maker, entries, sessions, fingerprints, pending, row,
                 parsed>>

\* Mutant: a launch without a directory is given up while it still runs.
GiveUpEarly == pc = "probe" /\ DropLaunch

GiveUp == pc = "probe" /\ ~Running(Head(todo).session) /\ DropLaunch

EndResolve ==
  /\ pc = "resolve" /\ todo = <<>>
  /\ pc' = "reap"
  /\ UNCHANGED <<env, entries, sessions, fingerprints, pending, todo, row, parsed>>

\* Mutant: nothing is reaped.
NothingReaped == sessions

StillRunning ==
  [d \in Dirs |-> IF sessions[d] \in Procs /\ Running(sessions[d])
                  THEN sessions[d] ELSE None]

ReapSessions ==
  /\ pc = "reap"
  /\ sessions' = StillRunning
  /\ Kill({sessions[d] : d \in {e \in Dirs : StillRunning[e] = None}})
  /\ pc' = "check" /\ row' = 1
  /\ UNCHANGED <<disk, maker, entries, fingerprints, pending, todo, parsed>>

Entry == entries[row]
NextRow == pc' = "check" /\ row' = row + 1

CheckUnchanged ==
  /\ pc = "check" /\ row <= Len(entries)
  /\ fingerprints[Entry.dir] = Fingerprint(disk[Entry.dir])
  /\ pc' = "restat"
  /\ UNCHANGED <<env, entries, sessions, fingerprints, pending, todo, row, parsed>>

CheckChanged ==
  /\ pc = "check" /\ row <= Len(entries)
  /\ fingerprints[Entry.dir] # Fingerprint(disk[Entry.dir])
  /\ fingerprints' = [fingerprints EXCEPT
                        ![Entry.dir] = Fingerprint(disk[Entry.dir])]
  /\ pc' = "parse"
  /\ UNCHANGED <<env, entries, sessions, pending, todo, row, parsed>>

Restat ==
  /\ pc = "restat"
  /\ entries' = [entries EXCEPT ![row] = RefreshStatus(disk[Entry.dir], Entry)]
  /\ NextRow
  /\ UNCHANGED <<env, sessions, fingerprints, pending, todo, parsed>>

Parse ==
  /\ pc = "parse"
  /\ parsed' = ParseAudit(disk[Entry.dir])
  /\ pc' = "derive"
  /\ UNCHANGED <<env, entries, sessions, fingerprints, pending, todo, row>>

Derive ==
  /\ pc = "derive"
  /\ entries' = [entries EXCEPT
       ![row] = DeriveStatus(Entry.dir, disk[Entry.dir], parsed,
                             Recent(disk[Entry.dir]))]
  /\ NextRow /\ parsed' = NoParse
  /\ UNCHANGED <<env, sessions, fingerprints, pending, todo>>

EndRefresh ==
  /\ pc = "check" /\ row > Len(entries)
  /\ pc' = "idle" /\ row' = 1
  /\ UNCHANGED <<env, entries, sessions, fingerprints, pending, todo, parsed>>

-----------------------------------------------------------------------------
Refresh ==
  \/ StartRefresh
  \/ \E d \in Dirs : Adopt(d)
  \/ FindNothing \/ KeepWaiting \/ GiveUp \/ EndResolve \/ ReapSessions
  \/ CheckUnchanged \/ CheckChanged \/ Restat \/ Parse \/ Derive \/ EndRefresh

Investigations ==
  \/ \E d \in Dirs, w \in Procs \cup {Outsider} : CreateDir(w, d)
  \/ \E d \in Dirs, k \in Kinds : AppendAudit(d, k)
  \/ \E d \in Dirs : WriteManifest(d) \/ Cool(d)
  \/ \E d \in Dirs, v \in {"fail", "pass"} : WriteVerify(d, v)
  \/ \E p \in Procs : Exit(p)

Next ==
  \/ Investigations
  \/ \E p \in Procs : LaunchInvestigation(p)
  \/ Refresh
  \/ Quit

Spec == Init /\ [][Next]_vars

\* The event loop refreshes whenever a second passes without input, and a
\* refresh that has begun runs to its end.
FairSpec == Spec /\ WF_vars(Refresh)

-----------------------------------------------------------------------------
(* Ownership of the launched processes.                                    *)

Distinct(ls) == \A i, j \in DOMAIN ls : ls[i].session = ls[j].session => i = j

\* A running launched investigation is held by the fleet in exactly one
\* place - a pending launch or a session - so that it can be shown, reaped
\* and ended with the fleet, and is never dropped twice.
OneOwner ==
  /\ \A p \in Procs :
       Running(p) => p \in SessionProcs \cup LaunchProcs(pending) \cup LaunchProcs(todo)
  /\ \A d, e \in Dirs : sessions[d] = sessions[e] => d = e \/ sessions[d] = None
  /\ Distinct(pending) /\ Distinct(todo)
  /\ SessionProcs \cap LaunchProcs(pending) = {}
  /\ SessionProcs \cap LaunchProcs(todo) = {}
  /\ LaunchProcs(pending) \cap LaunchProcs(todo) = {}

\* Every tracked session has a row: the live output of a running
\* investigation is always reachable from the grid.
SessionHasRow == \A d \in Dirs : sessions[d] # None => d \in Tracked

\* The fleet ends a running investigation only when it quits itself, or when
\* another launch, waiting at the same time, adopts the same directory.
KillsOnlyOnCollision ==
  [][\A p \in Procs : Running(p) /\ proc'[p] = "killed" =>
       \/ pc' = "down"
       \/ \E d \in Dirs : sessions[d] = p /\ sessions'[d] \notin {p, None}]_vars

\* An exited investigation is released: its row falls back to the state its
\* directory shows, and a launch that produced no directory is given up.
ExitedIsReleased ==
  \A p \in Procs :
    proc[p] = "exited"
      ~> (p \notin SessionProcs \cup LaunchProcs(pending) \cup LaunchProcs(todo))

-----------------------------------------------------------------------------
(* Trust in what the grid shows.                                           *)

Sealed(c) ==
  /\ c.manifest /\ c.size > 0
  /\ c.verify = "pass" \/ c.sealed \/ c.passed

\* At any moment of a refresh, a row says custody is complete only for a
\* directory that holds a manifest, an audit log and a passing verification,
\* or held one that another run's finalizer has overwritten.
NeverOverclaims ==
  \A i \in DOMAIN entries :
    entries[i].custody = "Complete" => Sealed(disk[entries[i].dir])

UpToDate(i) ==
  fingerprints[entries[i].dir] = Fingerprint(disk[entries[i].dir])

\* Between refreshes, a row whose fingerprint still matches its directory
\* shows the audit log as it is, and misses only what the fingerprint does not
\* cover: a manifest_verify.json that has come to pass, or ceased to, where the
\* log itself claims nothing.
CachedFactsCurrent ==
  pc = "idle" => \A i \in DOMAIN entries : UpToDate(i) =>
    LET e == entries[i]
        c == disk[e.dir]
        now == DeriveCustody(c, ParseAudit(c))
    IN  /\ e.records = c.size /\ e.last = c.last
        /\ \/ e.custody = now
           \/ e.custody = "CustodyInvalid" /\ now = "Complete" /\ ~c.sealed
           \/ e.custody = "Complete" /\ now = "CustodyInvalid" /\ c.passed

\* What the grid, the tabs and the socket's list say of a row.
EffectiveState(e) == IF sessions[e.dir] # None THEN "Working" ELSE e.state

LiveSession(d) == sessions[d] \in Procs /\ Running(sessions[d])

\* A sealed directory with no running session is eventually shown as finished
\* or as needing attention, whatever the refreshes saw while it was written
\* (unless the fleet ends or a running session is tracked there meanwhile).
SealIsShown ==
  \A d \in Dirs :
    (disk[d].manifest /\ d \in Tracked /\ ~LiveSession(d)) ~>
      \/ pc = "down" \/ LiveSession(d)
      \/ \E i \in DOMAIN entries :
           entries[i].dir = d /\ EffectiveState(entries[i]) \in {"Done", "Blocked"}
=============================================================================
