# caseforge in TLA+

Specifications of caseforge-core: what an investigation run may do to the case
directories, what its exit code means, and what the fleet shows of it; and of
the three places in the engine under `src/engine` where concurrency, crashes
and lost messages are handled: the execution of a session, the replication of
its events between workspaces, and the lock between processes. The toolkit that
does the forensics is a separate program and appears only through what it
writes.

## 1. The system

| part | state it keeps | operations | hard behaviour |
|---|---|---|---|
| `caseforge investigate` (`caseforge-cli/src/commands/investigate.ts`) | one sequential process; a reserved case directory; the exit code | gates, reservation, EVTX engine as primary path or rescue, agent, one seal-continue session, search for the produced directory, attestation, report, run record, verification | other runs, agents and engines write the same cases root meanwhile; an agent may outlive its run; every step may fail |
| privacy router (`caseforge-sdk/privacy.ts`, `config.ts`) | none | `decideModel`, `chooseRoute`, `cloudAckGate` | three ways to a route, gates in sequence |
| case rules (`artifacts.ts`, `verify.ts`, `runrecord.ts`) | none; they read a directory | `validateRun`, the verdict of `verify`, `assembleRunRecord` | two sources of one fact, one of them written by the agent |
| report (`verdict.ts`, `finalizeVerdictJson`) | `verdict.json` | assembly from the audit log, custody check of findings, probe for Event ID 1102 | copies of a finding in any order; several finalizers between look, reading and write while the log grows |
| fleet status (`caseforge-fleet/src/status.rs`) | none; it reads a directory | `fingerprint`, `refresh_status`, `derive_status` | reads of files that change between them |
| fleet state (`fleet.rs`, `session.rs`) | rows, sessions, fingerprints, pending launches, behind one mutex | `scan`, `launch_investigation`, `refresh` (= `resolve_pending`, `reap_sessions`, rows) | the disk and the children do not wait for the mutex; launches race for directories |
| fleet terminal (`main.rs`, navigation of `fleet.rs`) | cursor, view, tab, prompt | event loop, keys, mouse, viewer | what the user sees is a frame older than what the key acts on |
| fleet socket and attach (`socket.rs`, `attach.rs`) | a socket file; a client's copy of the rows | `ping`, `list`, `launch`; polling | runs beside the loop; a file two fleets may claim |
| terminal case viewer (`caseforge-tui`) | view, cursors, counts of the last draw | pure reducer, un-awaited draws | draws land out of order |
| engine harness (`harness.ts`) | server and client handles | start, stop, subscribe | a check before an await |
| engine: session execution (`run-coordinator.ts`, `input.ts`, `runner/llm.ts`) | the durable inbox of prompts and the history's open tool calls; in memory an entry per session, its drain and the tools' fibers | prompt, resume, interrupt; one drain that promotes prompts, asks the provider, runs tools, turn by turn | clients, drain and tools interleave; an interruption or a crash falls anywhere; a wake while the drain is ending |
| engine: event log and workspace sync (`event.ts`, `workspace.ts`, `handlers/sync.ts`) | per site a log with an owner and the session's row; at the control plane a loop per workspace | publish, update of the row, replay, claim; connect, fetch the history, follow the stream; warp | a stream beside a history, lost answers, dropped streams, crashes, a warp that fails halfway |
| engine: file lock (`flock.ts`, `effect-flock.ts`) | a directory with heartbeat and metadata, a breaker directory | acquire with takeover of a stale lock, release | every step is a system call between two of another process; a process dies in any of them |
| rest of the engine, rendering, credentials, scripts, ingest | - | - | not modelled, see section 8 |

The parts meet in the case directories. `investigate` creates one, its agent
appends `audit.jsonl` and finalizes `run.manifest.json`, `investigate` adds
`manifest_verify.json`, `verdict.json` and `caseforge_run.json` and verifies;
the fleet starts `investigate` in a pseudo-terminal, finds the directory by
comparing listings, and derives a row from the files. Nothing else is shared.
The agent of an investigation is a session of the engine; its prompts, turns
and tools are what `SessionDrain` is about, its events are what
`WorkspaceSync` replicates, and the engine's processes share configuration and
caches under the file lock.

What makes each part correct, in the order of importance used below:

1. no cloud agent without the operator's consent; exit code 0 means a sealed
   and verified directory, and only a run that was verifying it at the same
   moment takes that back; a run finishes the right
   directory, says how it was produced, and ends;
2. the grid never claims custody that is not there, is never stale for longer
   than its cache key explains, and in the end shows a sealed case as finished;
3. a launched investigation is owned, shown, released, and not ended by
   accident;
4. a report is the chain's content, fails its own check only for a reason, and
   retracts nothing an older reading reported;
5. the user acts on what is on the screen;
6. a session has one drain, which an interruption reaches; a prompt is admitted
   once, served once and in its turn, and not forgotten but by a stop; the
   provider never sees a tool that was run without its outcome;
7. a session's events are stored from the site that owns it only, a move takes
   them along, and the control plane catches up after any failure;
8. a lock has one holder, and a dead holder does not keep it.

`PROJECT.json` lists the hazards, each at its line, with the properties that
cover them.

## 2. Modules

| module | models | extends |
|---|---|---|
| `CaseLife` | abstract: what a case directory goes through, whoever writes it | |
| `RunStatus` | `status.rs`: derivation of a row from a directory, as operators | |
| `Fleet` | `fleet.rs`, `session.rs` and the investigations beside them | `RunStatus` |
| `FleetNav` | the event loop of `main.rs`, keys, mouse, prompt, viewer, socket launch | `Fleet` |
| `PrivacyRouter` | routes, privacy modes, gates, as operators | |
| `CaseRules` | `validateRun`, `verify`, `assembleRunRecord`, as operators | |
| `Investigate` | `investigate.ts`, for any number of runs over one cases root; implements `CaseLife` (`INSTANCE`) | `PrivacyRouter`, `CaseRules` |
| `Verdict` | `verdict.ts` and the life of `verdict.json` | |
| `Viewer` | `app.ts` and `runtime.ts` of the case viewer, beside the writers of the cases | |
| `SessionInbox` | abstract: what the engine promises to whoever sends a session prompts | |
| `SessionDrain` | coordinator, inbox and runner of one session, clients, crashes; implements `SessionInbox` (`INSTANCE`) | |
| `WorkspaceSync` | the event log, the sync loops and `sessionWarp`, for one session over remote workspaces | |
| `FileLock` | both lock implementations, one step per system call | |
| `FleetProofs`, `FleetNavProofs`, `InvestigateProofs`, `VerdictProofs`, `ViewerProofs`, `SessionDrainProofs`, `WorkspaceSyncProofs`, `FileLockProofs` | theorems and proofs | the module named |
| `FleetMC`, `FleetNavMC`, `InvestigateMC`, `VerdictMC`, `ViewerMC`, `SessionDrainMC`, `WorkspaceSyncMC`, `FileLockMC` | instances for TLC | the module named |

**CaseLife** is what the writers of a case directory keep to, as the set of what
there is in it: the directory, its log, its manifest, a `manifest_verify.json`, a
claim in the log. `Founded` is the order in which they come. A step only adds, in
any number of directories at once. What an attestation says is not part of it: two
runs that verify one directory may write one answer over the other.
`Investigate` maps its records to such sets and implements it.

**Fleet.** `entries`, `sessions`, `fingerprints` and `pending` are the fields of
`FleetState`. A refresh holds the mutex, but every look at the disk or at a
child is a step of its own, so `pc`, `row`, `todo` and `parsed` are where the
refresh is, and the investigations (`CreateDir`, `AppendAudit`,
`WriteManifest`, `WriteVerify`, `Cool`, `Exit`) happen between any two looks. A
directory may be written after the process that made it has ended, and by others:
an agent may outlive its run, and a run may finish another's directory.
`Adopt`, `FindNothing`, `KeepWaiting`, `GiveUp` are the loop of
`resolve_pending`; `ReapSessions` is `reap_sessions` with the `Drop` of
`Session`; `CheckUnchanged`/`Restat` and `CheckChanged`/`Parse`/`Derive` are the
two branches per row. `WriteVerify` may write an answer over another, as two runs that finish one
directory do; `passed` remembers that a pass was there (a history variable). One
abstraction is worth knowing: the reads of a derivation after its parse are one
look. Log and manifest only ever appear, and `manifest_verify.json` only after
both, so what reads at several moments find is what one look finds at the moment
`manifest_verify.json` is read, or, if it is not there then, at the moment the
manifest appears. `mtime` and size of the append-only audit log are
one record count; the passing of `WORKING_WINDOW_SECS` is the action `Cool`.

**FleetNav** adds the loop: a frame is drawn and remembered in `shown`, then
either a second passes and a refresh runs, or one event is handled. `SocketLaunch`
happens whenever the mutex is free. `Outside` restricts the writes of the
investigations to the moments the loop waits: a frame or a viewer reads nothing
that a later moment would not show as well, and `Fleet` alone explores the
interleavings with a refresh.

**Investigate.** A directory is a record of its artifacts (`CaseRules.Cases`).
`recent` is the cases root ordered by modification time, and `fresh[r]` what
`findNewestCaseDir(launchedAtMs)` of run `r` would accept; an overwritten file
leaves a directory's modification time alone, a created one does not.
`own`, `target`, `engineDir` are `custody.caseDir`, `runDir` and the engine's
directory, `tries` counts agent sessions, `checked` remembers which
verification decided the exit code, `rivals` who else was verifying the
directory at that moment (history variables: no guard reads them).
Phases: admit (`NoEvidence`, `Refuse`, `NoReservation`, `Reserve`), engine
(`EngineStart`, `EngineSucceeds`, `EngineFails`, `RecordEngine`,
`CheckEngine`), agent (`LaunchAgent`, `AgentExits`), `Locate`, then what
`finalizeManifestVerify` and `finalizeVerdictJson` do, in steps between which the
other runs take theirs: `LookForAttestation`, `VerifierAnswers`, `Attest` (or
`SkipAttest`), `LookForReport`, `Report`; then `Record` and `Check`. A look that
found nothing is stale when the write comes, and the write goes over whatever is
there. The toolkit, the custody tools and the runtime are external: `AgentOpens`,
`AgentAudits`, `AgentSeals`, `AgentClaims`, `RuntimeResult`, `EngineSeals`,
`EngineReports`. `Killed` ends a run at any moment and may leave its agent behind
as an orphan that keeps writing. One step each are: the scan of
`findNewestCaseDir`, the reads of `verify`, the read and the write of
`caseforge_run.json`, a `writeFileSync`, and the two files the engine's summary
comes with. The moment of `Check` is the one at which `verify` reads
`manifest_verify.json`: log and manifest only appear, and that the report is read a
moment later is left out, no property is about it.

**Verdict.** An audit record is reduced to the words of a message, the findings
in it in the order `walk` meets them, and its 1102 rows. `MergeFields` is the
`p.x ?? r.x` of every field; a blank `tool_call_id` is a value to `??` and not a
citation. `finalizeVerdictJson` is run by any number of `Finalizers`, each in three
steps: `LookForReport` finds no report or one of caseforge's own, `ReadLog` reads
the log, and `WriteReport` writes what that reading and the probe gave, up to two
minutes later, over whatever has come meanwhile. `GiveUp` is a missing log or the
end of the run. `basis` remembers how much of the log the report in place was made
of (a history variable).

**Viewer.** `state` is `AppState`, its three item cursors one function `at`;
`counts` is the `counts` of `runInteractive`; a slot of `draws` is a pending
`draw`, with what it draws and what it has read. The reads of `loadCase` that
decide a count are steps of their own (`ReadVerdict`, `ReadCoverage`), and
`FinishDraw` writes the frame and takes the counts in one turn. A key action is
a branch of `reduce` followed by what `onData` does with the new state. Lists
only grow (`Grow`), as those of a report do (`NothingRetracted`), but a read may
find a file half-written and count nothing. `alone` and `calm` are history
variables: no guard reads them.

**SessionInbox** is the promise alone: an inbox in the order of admission,
which positions are served, which are *due* (somebody asked for them and no
stop forgot them), and whether the session runs. `Serve` takes the oldest of
its delivery; `Rest`, the ordinary end, is only possible when nothing is due.

**SessionDrain.** `inbox`, `promoted` and `open` are in the database and survive
`Crash`; a position of `inbox` stands for `admitted_seq`, `open` is the set of
tool calls the history shows as pending or running. `active`, `pendingWake`,
`stopping` and `owner` are the coordinator's Map entry. `drain[f]` is a fiber:
where `SessionRunner.run` is, with the rows it has read, the step, and of the
turn's tools those the provider has announced, called, those failed on the spot and
those still running. A call is in the history from the start of its input on
(`Announce`), and may never be made (`CallTool`; `CallDisabled` at the last step,
whose two publications are one step). How a stream ended (`EndTurn`: well, with a
provider error, or in a failure) decides what of the announced is failed; `unrun`
remembers what stays open without having run (a history variable). Tools the
provider executes itself are left out. Each look at the database is a step, so a
prompt may be admitted between the cutoff and the read of the rows, or between
two promotions. `Settle` is the `onExit` of the fiber and atomic, as the code is
(it contains no yield). An interruption sets `hit`; the drain unwinds in a step
of its own, failing the open tools of its turn. `Find`/`Publish` are `admit`:
the look-up and the insert are apart, and a conflict looks again. A message
already in the projected history (`projectAdmitted`'s other conflict) cannot
occur here because only promoted prompts become messages. The refinement maps
`promoted` to `served` and `active` to `running`.

**WorkspaceSync.** `log[s]` and `owner[s]` are the rows of a site's two event
tables, `place[s]` is its `SessionTable.workspace_id`, projected from the events.
`Replay`, `Known`, `Accepted`, `Ignored` and `Dies` are the branches of
`commitDurableEvent` in their order: a stored event is compared before the owner
is looked at. The session was created at any site, in any workspace or in none
(`Init`: `Session.create` and `fork` put a `workspaceID` into `Created`). Every site
that has it may work on it: an event of a turn, or `Moved`, which takes it out of
any workspace (`Work`); no turn is cancelled or checked when the session leaves.
`ReadInfo` and `Updated` are `Session.patch`, which reads the row and publishes all
of it, the workspace included, in two steps; `edit[s]` is what was read. A
workspace's loop connects (`Connect`, from which on `wire` collects its events),
asks for the history beyond what the control plane knows, replays it one event per
step and then follows the stream. A defect in the history ends the loop
(`Effect.catch` does not see it), one in a live event is logged. `warp` is the
`sessionWarp` in progress, at most one at a time; each of its requests may fail
(`WarpFails`), and `Crash` ends it. Only remote workspaces are modelled, one edit
at a time per site, and not which site a request is sent to.

**FileLock.** `file[x]` says who made path `x` (for the directory, who last
changed it, which is what its `mtime` tells) and whether it is older than
`staleMs`. `pc` is the next system call; `again` tells the second staleness
check, under the breaker, from the first. `rm -r` lists, removes by name and
then removes the directory, and may find new entries (`RmFails`). Time is one
assumption: an attempt does not take longer than `staleMs` (`since` keeps what
was made or touched while a process is at work young), a holder may. `faults`
is a history variable that notes the two things the protocol does not expect.

## 3. Runs

| run | instance | states | question |
|---|---|---|---|
| `fleet_launch` | 2 directories, 2 launches, an outsider, no audit records | 14 k | who owns a launched process, which row shows it, what ends it |
| `fleet_custody` | 1 directory, 1 launch, 3 audit records | 647 k | what a row may claim while its directory is written, and written over |
| `fleet_nav` | 3 directories, 2 launches, the loop, symmetry | 1.4 M | does the user act on what is shown |
| `case_solo` | 1 run, all gate options and all flow options, an earlier case | 2.2 M | consent, record of the engine, ending |
| `case_pair` | 2 runs, 2 directories, symmetry | 1.8 M | one run's promises under the other's looks and writes, and `CaseLife` |
| `verdict_log` | logs of 4 out of 8 kinds of record, 2 finalizers, symmetry | 772 k | the merge, and what a report may do |
| `viewer_draws` | 2 cases, 2 findings, 1 event, 2 draws at once | 4.5 M | what the screen shows and a key opens while draws overtake one another |
| `session_drain` | 2 clients, 2 prompts, 1 tool, 2 fibers, 2 steps, crashes at any time | 706 k | one drain, no forgotten tool call, and the promise of `SessionInbox` |
| `workspace_sync` | 2 remote workspaces, created anywhere, 1 event of work or patch at any site, 1 warp, losses and crashes at any time | 401 k | whose events are stored, complete moves, where rows point, catching up |
| `file_lock` | 2 processes and a dead one before them, 1 more death | 100 k | one holder, one cleaner, recovery |
| `case_stranger`, `workspace_fence` | as small as the disagreement needs | | see section 6 |

What the properties say:

- `EgressNeedsConsent`: an agent on a cloud route implies `cloud-ok`, a class
  other than `sensitive`, and the acknowledgement, however the route was chosen.
- `ZeroStaysVerified`: exit 0 rests on a directory with audit log, manifest and
  a passing verification or a claim of one, and no later write of any run,
  orphan or engine takes that away, save the opposite answer of a run that was
  verifying the same directory at that moment (`rivals`). Only `--no-verify` exits
  0 without.
- `OwnCaseFirst`: while a run finishes a directory other than its reserved one,
  its reserved one has no audit log.
- `KeepsCaseLife`: every behaviour of the runs, however their looks and writes
  fall, is one of `CaseLife`; no writer removes what another added, and nothing is
  attested or claimed before there is a log and, for a file, a manifest.
- `FallbackIsRecorded`: a run rescued by the engine leaves `used_fallback` yes.
  It is checked with one run: with two, another run may pick the engine's
  directory up and record it as its own (a hazard, not a promise of the code).
- `EveryRunEnds`: from every branch, with at most one more agent session.
- `OneOwner`, `SessionHasRow`, `KillsOnlyOnCollision`, `ExitedIsReleased`: a
  running launched process is in exactly one of pending launches and sessions;
  a session has a row; the fleet kills a running one only when it quits or when
  a second launch adopts the same directory; an exited one is let go.
- `NeverOverclaims`: `Complete` is shown only of a directory that is, at every
  step of a refresh, or that was until another run's answer was written over. `CachedFactsCurrent`: between refreshes a row with a
  matching fingerprint shows the log as it is and misses at most a
  `manifest_verify.json` that has come, or was written over, since. `SealIsShown`: a sealed directory is eventually shown
  as finished or as needing attention.
- `OpensWhatIsShown`, `HighlightIsStable`: the viewer opens on the highlighted
  row; adoptions and refreshes do not move the highlight of the unfiltered tab.
- `MergeIsFirstWins`: the fold of `walk` equals a reference that takes, per
  field, the first value in the chain. `NothingRetracted`: a report written
  anew drops no cited finding, no tool citation, no replay result, unless it is
  of an older reading of the log than the one it replaces (`basis`).
  `FailsOnReplayOnly`: caseforge's own report fails its own check only over a
  replay the chain records as failed.
- `ListHighlightIsCurrent`: while the list of cases is on the screen, its
  highlighted row is the cursor's, whatever case draws are still under way.
  `QuietKeyIsShown`: a key that finds no draw in progress, once drawn, leaves
  its own state on the screen. `OpenedItemExists`: a user who waits for each
  frame of a case only opens details that exist, while lists grow and reads
  fail, and the frame says "not produced by this run" only when the read of that
  very draw found no item (as of a file caught half-written: section 6).
- `OneDrain`: a session has a drain exactly while it has an entry, and it is the
  entry's owner. `RequestIsAnswered`: while a request streams, the open tool
  calls of the history are this turn's own, or were announced by an earlier turn of
  the same drain and never run: nothing that was run, and nothing of an earlier
  drain, is left without its outcome. `KeepsPromise`: every behaviour is
  one of `SessionInbox`, where a resume that joins a drain past its last look asks
  for nothing. `DueIsServed`: what somebody asked for is served or
  forgotten by a stop, unless its execution is broken off; it is the liveness
  `SessionInbox`, a safety promise, does not say. It rests on an agent with a
  step limit: without one a model may call tools for ever, and a queued prompt
  waits for the turns of the one before it.
- `FencedOut`: an event stored while another site owns the session was not made
  by the fenced workspace, whichever way it came. `HandsOver`: when a warp out
  of a workspace is about to set the place, the target has every row that was read,
  and every event the control plane has stored since that another site made; what
  the control plane itself published since is not sent (section 6).
  `PlacedWhereTaken`: no site's row places the session in a workspace it was neither
  created in nor taken over by, whatever stale `Updated` events repeat.
  `CatchesUp`: a control plane that stays up catches up with the workspace the
  session is in, unless that one is fenced, its loop dies or a warp is under
  way. It claims nothing of events that were ignored while another site owned
  the session and are not asked for before the next connection (`Coming`).
- `MutualExclusion`, `OneCleaner`, `RemovesOwn`: one holder; one process in the
  removal of a stale lock; a release meets nothing of another process. All
  three hold while no lock was held for longer than `staleMs` and no process
  died with the breaker in its hands; section 6 tells what happens then. The
  proviso takes the heartbeat's protection of a long hold out of what is shown.
  `Recovers`: an abandoned lock does not stay abandoned while somebody waits,
  whatever died where, with no such proviso; a lock counts as no longer abandoned
  once a living process has touched its directory.

Bounds. Races of the fleet need two launches and two directories (a third
directory adds a row for the cursor, so `fleet_nav` has three); one investigation
creates at most `MaxDirs = 1` directory. Custody facts concern one row at a
time, so `fleet_custody` has one directory, and three records give it a log
that grows after a parse, after a seal, and a heartbeat after either. Two runs
suffice for interference between runs: what matters to a run of the others is
only that they write. `case_pair` is limited to runs
over EVTX evidence without flags, which go through the engine, the agent, the
second session and the engine's rescue; a run over other evidence is one of
these without the engine and the second session, and it and the flags are
explored by `case_solo`. An agent's runtime says nothing or `no` of
`used_fallback`, the values that could contradict the engine. Four records suffice for a partial, a
rich and a replayed copy beside a row; two finalizers to overtake one another. Two draws suffice to end in the wrong
order, two cases to confuse their counts; the coverage list is left empty there
(the panels differ only in which read fills them).
A session needs two prompts for an order and a conflict of ids, two clients for
two calls at once, two fibers because an old drain may still be ending when its
successor is made, one tool to be left open, and two steps to have a last one
(`MaxSteps` is the agent's own limit, not an added bound). Two workspaces make
an old one and a new one, wherever the session was born. One event of work or one
patch (`MaxWork`) at any site is enough to be late, doubled, lost or stale, since
every comparison is of one event with one position, and one warp (`MaxWarps`) to
be overtaken by it or cut off; the claim, the steal and the place set are events
themselves. Warps that follow one another are covered by the theorems of section
5, which have no bound; with two of them the state space is beyond a short run.
Crashes of the session and of the control plane are not bounded. Two living
processes and a dead one (`Before`, whose remains are any) put two contenders on
a lock that goes stale; `MaxDeaths = 1` lets one of them die as well. The three
safety properties were also checked with three processes (1.4 M states).
Symmetry is used in `case_pair`, over runs and over directories, in `fleet_nav`,
over launches and over the directories the command line does not name, in
`viewer_draws`, over draws, and in `verdict_log`, over finalizers, all without
liveness.

Deadlock is not checked: runs end, the fleet quits, the investigations and the
logs reach their bounds, a session, a control plane and a lock may be at rest.

## 4. Fairness

`Fleet!FairSpec` has weak fairness of `Refresh`: `event::poll` returns after a
second without input, the loop then calls `refresh`, and a refresh that began
runs to its end under the mutex. The assumption fails under input that never
pauses for a second, a hazard listed as such. Launches, writes and exits of
investigations are not fair: `ExitedIsReleased` and `SealIsShown` are about what
has already happened.

`Investigate!FairSpec` has weak fairness of `RunStep(r)` for every run: a run is
a sequential program whose calls return, and an agent or engine it waits for
ends (`AgentExits`, `EngineSucceeds`, `EngineFails`). What they write meanwhile
is not fair.

`SessionDrain!FairSpec` has weak fairness of the fibers' and their tools' steps
together: the runtime runs its fibers, a provider's stream ends, and where a turn
waits for nothing but its tools, one of them ends or dies. Prompts, wakes,
interruptions and crashes are not fair.

`WorkspaceSync!FairSpec` has weak fairness of each sync loop (its sleeps end, at
most two minutes) and strong fairness of a workspace's answer: one that is asked
again and again does answer. Nothing else is fair, warps neither. `CatchesUp`
excuses a control plane that crashes infinitely often.

`FileLock!FairSpec` has weak fairness of every waiting process's next step and of
time (`Age`), and strong fairness of removal (`Rm`): a recursive removal that is
tried again and again is not disturbed or refused every time. To ask for the
lock, to give up, to let go of it and to die are not fair.

`FleetNav`, `case_pair`, `Verdict` and `Viewer` are checked for safety and assume none.

## 5. Proofs

For every set of directories, processes, runs, options, routes and every bound:

| theorem | states |
|---|---|
| `FleetProofs!TypeCorrect` | `Spec => []TypeOK` |
| `FleetProofs!OneOwnerAlways` | `Spec => []OneOwner` |
| `FleetProofs!SessionHasRowAlways` | `Spec => []SessionHasRow` |
| `FleetProofs!NeverOverclaimsAlways` | `Spec => []NeverOverclaims` |
| `FleetProofs!KillsOnlyOnCollisionAlways` | `Spec => KillsOnlyOnCollision` |
| `FleetProofs!CachedFactsCurrentAlways` | `Spec => []CachedFactsCurrent`, the arguments distinct |
| `FleetNavProofs!TerminalImplementsFleet` | `NavSpec => Spec`: the loop keeps to what `Fleet` allows |
| `FleetNavProofs!FleetHoldsAtTerminal` | `NavSpec =>` `OneOwner`, `SessionHasRow`, `NeverOverclaims`, `KillsOnlyOnCollision` |
| `FleetNavProofs!NavTypeCorrect` | `NavSpec => []NavTypeOK` |
| `FleetNavProofs!OpensWhatIsShownAlways` | `NavSpec => []OpensWhatIsShown` |
| `FleetNavProofs!HighlightIsStableAlways` | `NavSpec => HighlightIsStable` |
| `InvestigateProofs!TypeCorrect` | `Spec => []TypeOK`, and no directory twice in `recent` |
| `InvestigateProofs!StructureInvariant` | `Spec => []IInv` |
| `InvestigateProofs!InductiveInvariant` | `Spec => [](Ready /\ CustodyInv)` |
| `InvestigateProofs!ZeroStaysVerifiedAlways` | `Spec => []ZeroStaysVerified` |
| `InvestigateProofs!OwnCaseFirstAlways` | `Spec => []OwnCaseFirst` |
| `InvestigateProofs!EgressNeedsConsentAlways` | `Spec => []EgressNeedsConsent` |
| `InvestigateProofs!FallbackIsRecordedAlways` | `Spec => []FallbackIsRecorded`, one run at a time |
| `InvestigateProofs!KeepsCaseLifeAlways` | `Spec => KeepsCaseLife`: a refinement |
| `VerdictProofs!ReportsAreDerived` | `Spec => []ReportInv` |
| `VerdictProofs!TypeCorrect` | `Spec => []TypeOK` |
| `VerdictProofs!MergeIsFirstWinsAlways` | `Spec => []MergeIsFirstWins` |
| `VerdictProofs!FailsOnReplayOnlyAlways` | `Spec => []FailsOnReplayOnly` |
| `VerdictProofs!NothingRetractedAlways` | `Spec => NothingRetracted`, caseforge's ids its own |
| `ViewerProofs!TypeCorrect` | `Spec => []TypeOK` |
| `ViewerProofs!ListHighlightIsCurrentAlways` | `Spec => []ListHighlightIsCurrent` |
| `ViewerProofs!QuietKeyIsShownAlways` | `Spec => []QuietKeyIsShown` |
| `ViewerProofs!OpenedItemExistsAlways` | `Spec => []OpenedItemExists` |
| `SessionDrainProofs!TypeCorrect` | `Spec => []TypeOK` |
| `SessionDrainProofs!OneDrainAlways` | `Spec => []OneDrain` |
| `SessionDrainProofs!RequestIsAnsweredAlways` | `Spec => []RequestIsAnswered` |
| `SessionDrainProofs!Implements` | `Spec => KeepsPromise`: the refinement |
| `WorkspaceSyncProofs!TypeCorrect` | `Spec => []TypeOK` |
| `WorkspaceSyncProofs!FencedOutAlways` | `Spec => FencedOut` |
| `WorkspaceSyncProofs!HandsOverAlways` | `Spec => []HandsOver` |
| `WorkspaceSyncProofs!PlacedWhereTakenAlways` | `Spec => []PlacedWhereTaken` |
| `FileLockProofs!TypeCorrect` | `Spec => []TypeOK` |
| `FileLockProofs!MutualExclusionAlways` | `Spec => []MutualExclusion` |
| `FileLockProofs!OneCleanerAlways` | `Spec => []OneCleaner` |
| `FileLockProofs!RemovesOwnAlways` | `Spec => []RemovesOwn` |

Assumptions: `ConstantsAssumption` (the outsider is no launchable process, the
null value is nothing else, bounds are naturals), `RoutingAssumption` (cloud and
default routes are routes), `InvestigateAssumption` (the null value is no
directory; options have the shape of options), `ViewerAssumption` (at least
one case is listed, bounds are naturals), `DrainAssumption` (there is a fiber,
the null value is no fiber and no prompt, the step limit is a natural),
`SyncAssumption` (the control plane is no workspace, the null value is no site,
bounds are naturals), `VerdictAssumption` (records have the shape of records;
what stands for `undefined` and `null` is no value of a citation or a replay) and
`LockAssumption` (the dead process and the null value are no contenders). Three
theorems say in their statement what more they need: `DistinctArgs` (a directory
named twice has two rows and one fingerprint, so the second row can miss a
change: a hazard), `OneRun` (with more runs, another may take the engine's
directory for its newest and record it as its own) and `IdsApart` (no agent or
tool gives a finding an id of the form `evtx-1102-...`: the code takes the
chain's copy of such a finding before its own, and an uncited copy that comes
later would drop the row that was reported).

Nothing here is proved by the library's induction theorems, which no installed
prover can instantiate. Where a proof is by induction over a number, it goes by
the least counterexample, a first-order fact about sets of naturals (`Least` of
`FleetNavProofs`, `Upwards` of `VerdictProofs`, from `NatLessThanWellFounded` and
`WFMin`); the walks of `verdict.ts` are recursive functions, and the lemmas
`PartsWalk` and `MergeWalk` say that they exist and what they are at 0 and `n + 1`.

*Fleet.* `RefreshPlace` says where a refresh is: a row at its steps per row, a
head of `todo` at the step that asks a process. `OneOwner` is inductive only
with it and with `HeldWereBorn` (a held process was started, so a new launch is
none of them) and `TodoWhileResolving` (nothing is left in `todo` outside
`resolve_pending`): together `Ownership`, which makes the moves between
`pending`, `todo` and `sessions` keep each process in one place. The refresh's
own releases (`GiveUp`, `ReapSessions`) drop only processes that have exited;
that lemma, `DropsAreHarmless`, also carries `KillsOnlyOnCollision`. For
`NeverOverclaims`, `ParseIsTrue` says of the row in progress that what was
parsed is still true of the directory: seals stay. For `CachedFactsCurrent`,
directories only age (`Ages`: the facts of a log change with its size, and a
verdict that passed is there or was written over) and no fingerprint runs ahead of its directory
(`PrintsBehind`); so a fingerprint that holds now has held since it was taken,
and what was parsed and derived under it is of the same log (`ParseCurrent`,
`RowsCurrent`). The row between its new fingerprint and its derivation is the
one exception, and it ends before the refresh does.

*CaseLife.* An invariant of `Investigate` says that what a directory holds rests
on one another (`FoundedCase`), and a lemma that a step only adds (`StepAdvances`).
This needs that a directory is written by the agent it belongs to or by a run at
work on it (`IInv`), that whoever makes one finds none there (`MakeAdvances`), that
the directory of an engine at work has its log (`EngineAudits`), and that a run
which went past its look has seen a manifest, which is still there when it writes
(`SealsSeen`).

*FleetNav.* Every step of the loop is a step of `Fleet` or leaves its variables
alone (`LoopIsFleet`), so every theorem about `Fleet` holds under the loop.
`FrameIsTrue`: while the loop polls, the last frame highlights the selection.
Launches over the socket and writes of the investigations leave rows, sessions,
cursor and tab alone, and whatever moves them asks for a new frame. That the
highlight is stable needs to know what `visible` computes: `Ascending` of a finite
set of naturals is the sequence of its elements in order, so in the unfiltered
tab the visible rows are all rows (`AscendingAll`); and rows are only appended,
or rewritten in place with their directory kept.

*Investigate.* `IInv` adds to the two safety properties the types, that an
audit log is inside a directory that exists, that a run past the gates has
passed them and owns a directory, that two runs never own the same one, that a
run which has not ended has no exit code, and that a run at work on a directory
has one. The argument has three parts. Every write of a run, an agent or an
engine *grows* a directory (`Grows`). A finishing run's agent has ended and nobody
else writes its reserved directory, because reserved directories are apart, so
that directory gets no audit log behind its back (`AuditsKept`). And a step of one
run leaves the other runs' variables alone (`Others`), so `StepKeeps` needs a look
at one run only; every action is then an instance of it.
`ZeroStaysVerified` needs `CustodyInv` beside it: an answer not yet written is about
the directory the run is still about (`Answered`); an engine's own directory is
sealed once, so every verifier gives the same word about it and no rival can take
it back (`OneWord`); and of a directory an exit 0 rests on, whoever is verifying it
now was doing so at that exit (`ZeroHolds`), since a look that comes later finds the
file there. `SealStep` says what a step may do to the manifest and the word of a
directory: `OneWordStep`, `ZeroComes` and `ZeroStays` are then cases of it.
`FallbackIsRecorded` needs little more: while the engine
works, nothing in its directory is an agent's word (`EngineUntold`), and exit
code 0 is the end of the run's agent too (`ZeroIsEnd`).
`TypeCorrect` rests on `Once`: a touch removes the first occurrence of a directory
and appends it, which leaves no second one.

*Verdict.* `ReportInv` says where a report comes from: nobody, the toolkit, or
`Enrich(Assemble(...), rows)` of the first `basis` records of the log, and that no
finalizer has read more than there is; so a property of all reports is one of the
operators. `MergedIsFirst` is the induction of the merge:
after `k` parts every field holds the first value any of them gave (`FirstWins`).
So what is merged was given by a part (`MergedFromPart`), which with the filter
of cited findings gives `FailsOnReplayOnly`; and a longer log, whose parts begin
with those of the shorter (`PartsGrow`), gives every value again (`MergeKeeps`),
hence `NothingRetracted` of two readings in this order.

*Viewer.* `ListHighlightIsCurrent` needs that no draw in progress is of the list
(`OnlyCasesAreAwaited`), so no late frame can bring an old highlight back.
`QuietKeyIsShown` needs that after a quiet key every draw in progress draws the
present state (`OnlyOwnDraw`). `OpenedItemExists` needs `CalmInv`: in a case, all
draws in progress are of this case, no count that will bound a key exceeds its
lists, the cursors are on them, and no read that found a list stopped short of
the cursor (`Reaches`).

*SessionDrain.* `OneDrain` makes the interruption of the owner an interruption
of the session, and (`Alone`) every step of a drain one of the only drain.
`Answered` strengthens `RequestIsAnswered` to all places of a drain from its
repair on: nothing is open there but what an earlier turn of this drain announced
and never ran (`unrun`), in a turn also what it announced itself, and of what it
ran only what is still running, unless a tool has died (`OwnOpen`). For the
refinement, `RowsFirst` says of the rows a drain has read that they wait, and
that no older one of their delivery waits outside them, although prompts arrive
and rows are promoted meanwhile; so every `Promote` is a `Serve`. `UniqueIds`
makes every insert an `Admit`. `NoneLeft` says what a drain that was neither
woken again nor stopped knows after its looks: no due steer is left when it
looks for queued prompts, and nothing due when it leaves well; so a `Settle` is
a `Rest`, a `Stop`, or a stutter under a successor. `HitIsStopping` ties the two
halves of an interruption together. Every other step stutters or is an `Ask`.

*WorkspaceSync.* Logs only grow (`Grown`), so what is on its way stays true: a
page or a live event of a workspace is a part of that workspace's log, at the
positions it says (`Wires`). `Authors` (what a workspace holds and did not make,
the control plane has) gives `ReplayedHere`: whatever the control plane newly stores
from a workspace was made there. Hence `FencedOut`. `Places` says of every row, of
every edit in progress and of every event that the workspace it names got the
session when it was created or took it over (`Backed`); an `Updated` only repeats
what is there, and `Stolen` covers the one step that names a new one, hence
`PlacedWhereTaken`. For `HandsOver`: after the claim only the target and the control
plane itself can add to the control plane's log (`Claimed`), and what the target
adds stands in its own log at the same position; so the rows read and not in the
page any more, and those of other sites that came after (`Must`), are at the target
(`Sent`), and when the page is empty all are (`Delivered`).

*FileLock.* `Shape` holds always: no entry without its directory, nothing old
that is not there. `Protocol` holds while `faults` is empty. `UnderBreaker`: a
breaker that exists belongs to a process at work under it, which has seen it
made, so it is young and there is one (hence one cleaner, and nobody sweeps).
`Owner(p) => Owns(p)`: a process that has made the lock and not yet begun to
remove it, or is releasing it, has a young directory with no entry of another
process. `Orderly`: whoever clears a lock clears one that is there and has no
owner. The heart is `StaleIsFree`: a lock that looks stale under the breaker has
no owner, because an owner's directory and heartbeat are young; and nobody can
become one behind the cleaner's back while the directory is there. `StepKeeps`
reduces every system call to the facts about its own process.

What stays with TLC: liveness (`EveryRunEnds`, `ExitedIsReleased`, `SealIsShown`,
`DueIsServed`, `CatchesUp`, `Recovers`), which is beyond the prover. Every other
property of a passing run is a theorem. `ZeroStaysVerified` is checked where runs
interfere (`case_pair`) and proved for all options; the fleet's and its
terminal's types are checked together, as `NavTypeOK`.

## 6. Where the code and its words disagree

| run | the words | the code |
|---|---|---|
| `case_stranger` | "locate the produced run/case dir" (`investigate.ts:1002`) | a run whose agent left no audit log finishes another run's directory, and exits 0 for it |
| `workspace_fence` | "We intentionally do first so if it fails we don't warp the session" (`workspace.ts:608`) | the claim comes before; a warp that fails after it leaves the session in its workspace with that workspace fenced out, and the session's further events are ignored |

Also met, without a run of its own:

- "The fleet only launches and observes" (`crates/caseforge-fleet/README.md:37`):
  two launches that wait at the same time adopt the same directory, and the
  second adoption ends the first's process. `KillsOnlyOnCollision` states this
  exception.
- "q back" (`ui.rs:241`): when the tab empties under the detail view, `q` takes
  the branch of an empty list and quits the fleet (the disjunct `BackOut`).
- "Replay-failed findings are flagged" (`verdict.ts:10`): the first replay result
  of a finding wins, a later failure is not seen (`MergeIsFirstWins`).
- A resume that arrives while an execution is being stopped waits for its exit
  and runs only after a successful one, which a stopped execution does not have
  (`Resolved`). The test "starts a resume registered during interruption
  cleanup" (`session-run-coordinator.test.ts:285`) passes because its forked
  resume starts after the cleanup.
- "Breaker ownership ensures only one contender performs stale cleanup"
  (`flock.ts:185`): a process that dies with the breaker in its hands leaves one
  that is removed by name once it is stale; the second of two that found it
  stale removes the fresh breaker of the first, and both clean.
- "Token check prevents deleting a lock that was re-acquired" (`flock.ts:259`):
  after a lock was held for longer than `staleMs`, its release removes the young
  heartbeat and leaves the old metadata, a contender finds the lock stale, takes
  it over, and the release goes on to remove it.
- A remote target that refuses the patch of a warp answers with the fallback of
  `runInWorkspace`; the warp goes on and the file changes stay behind (`Patch`).
- Events a fenced workspace sent live are passed over for good by that
  connection; they come again with the next history only (`Coming`).
- An agent run whose runtime leaves no result is recorded with `used_fallback`
  false, although `runrecord.ts:14` says unknown is never defaulted to false
  (`Record` passes `FALSE`).
- A present-but-failed verification marks a run CUSTODY-INVALID, says
  `artifacts.ts:5`; a passing claim in the audit log outranks it
  (`CustodyValid`).
- The fleet accepts `overall` and `ok` of `manifest_verify.json` and `overall` of a
  claim (`status.rs:48`); `validateRun` also `verified`, `valid` and a `status`
  (`artifacts.ts:57`). The models take these spellings for one, so that the two
  agree is proved of a toolkit that writes `overall`, as VERDICT's does.
- The fleet's fingerprint does not cover `manifest_verify.json`, so a row parsed
  before it stays custody-invalid: the exception `CachedFactsCurrent` states.
- Case draws that overtake one another can leave an older frame on the screen
  until the next key, and a key that did not wait is bounded by the counts of
  whichever draw ended last, perhaps of another case: the detail view then says
  "not produced by this run" of a case that produced findings. Hence the words
  "quiet" and "calm" in the viewer's properties.

- `finalizeManifestVerify` keeps an existing answer (`investigate.ts:321`), but two
  runs that finish one directory may both pass this look before either writes
  (`:342`, `:349`): the later write wins, and an agent that finalizes its manifest
  again between their verifiers makes one of them fail where the other passed and
  its run exited 0. `ZeroStaysVerified` and `CachedFactsCurrent` state it.
- "Preserve toolkit auto-runner / other authoritative verdict.json files"
  (`investigate.ts:479`): one that comes between the look (`:481`) and the write
  (`:491`), up to two minutes later, is written over (`WriteReport`). Likewise a
  finalizer that was overtaken writes its older reading last, and takes back
  findings a newer report had (`NothingRetracted` excepts it).
- A tool call is in the history as pending from the start of its input
  (`publish-llm-event.ts:165`). A stream that ends without making it settles hosted
  calls only (`llm.ts:339`), so a steer or a queued prompt has the next turn of the
  same drain send it open; `failInterruptedTools` runs at the start of a drain.
  `RequestIsAnswered` states this exception. At the last step a call that was failed
  before it was made is shown as running again once it is made, and no later failure
  of its turn settles it (`CallDisabled`).
- What the control plane itself publishes of a session after the rows for the target
  are read (`workspace.ts:645`) stays behind: the turns of a session that leaves are
  cancelled only when the previous workspace is a local one (`:568`). `HandsOver`
  excepts it.
- `Session.patch` (`session.ts:736`) reads the row, and publishes all of it later: an
  `Updated` begun before a warp and published after it sets the old workspace
  again, which by then is fenced out. `PlacedWhereTaken` bounds where such a row can
  point; it does not exclude this.
- A detail view drawn while `verdict.json` or the coverage file is half-written says
  "not produced by this run" (`load.ts:44`), also to a user who waits.

## 7. Plan

1. `FleetSocket`: the socket file under two fleets on one path, the line
   protocol and the attach client, composed with `Fleet`'s rows.
2. The report in `CaseLife`: `verdict.json` is abstracted to its outcome in
   `Investigate` and modelled alone in `Verdict`; one abstract report, written
   and rewritten, would join the two.
3. Further candidates in the engine: the permission and question queues, the
   in-process subscriptions of the event log (commit before notify), revert and
   snapshots; and `Harness`, start and stop around an await.

## 8. Not modelled

Rendering (`ui.rs`, `render.ts`, `components.ts`) and the viewer's argument
vector are functions of the state that change nothing. Credentials, doctor,
models and stubs are one-shot reads; what `investigate` asks of them is the
three answers of `Subscriptions`. Prompts, tool hints, the environment of the
agent and the hashing of the evidence are data. The engine's summary file is
not modelled: an engine's directory is taken to be its own (a hazard). Audit
hash chains are the tools' business; the logs here only append. Scripts score
or probe finished runs. The ingest crate is a placeholder.

Of the engine, everything but the three parts above: it is a general coding
agent, some 380 thousand lines of which most are its user interfaces, generated
SDKs, provider adapters and tools, and caseforge starts it as a program. Within
the three parts: the content of prompts, messages and requests, context epochs,
snapshots and the text of a compaction (a compaction either shortens the request
or does not happen); switching agent or model and revert; local workspaces, the
life of a workspace itself, and `waitForSync`; several warps at once; which site a
request for a session is sent to; tools that the provider executes itself; the
backoff lengths of loops and locks, the hashing of lock keys (sessions, and
keys, share no state, so one of each is modelled), and the abort of a waiting
`acquire`, which is `GiveUp`. Sockets of the fleet other than `launch`, the
attach client and the harness are in the plan.
