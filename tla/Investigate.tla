----------------------------- MODULE Investigate -----------------------------
(***************************************************************************)
(* `caseforge investigate' (packages/caseforge-cli/src/commands/           *)
(* investigate.ts): the gates, the reservation of a case directory, the    *)
(* deterministic EVTX engine, the agent and its one seal-continue attempt, *)
(* the search for the directory the agent produced, and the artifacts and  *)
(* the exit code that follow from it.                                      *)
(*                                                                         *)
(* Several runs share one cases root.  A run is sequential; the agents and *)
(* engines it spawns, and the other runs, write to the root at any time.   *)
(***************************************************************************)
EXTENDS PrivacyRouter, CaseRules

CONSTANTS
  Runs,
  Dirs,        \* case directories, existing or not yet created
  Options,     \* what the operator may pass to a run
  Results,     \* bound: what an agent's runtime may say of used_fallback
  None

OptionType ==
  [mode: PrivacyModes, class: EvidenceClasses, route: STRING, ack: BOOLEAN,
   subscription: Subscriptions, evtx: BOOLEAN, force: BOOLEAN,
   noVerify: BOOLEAN, explicit: Dirs \cup {None}]

ASSUME InvestigateAssumption ==
  /\ None \notin Dirs \cup Nat
  /\ Results \subseteq {"yes", "no"}
  /\ Options \subseteq OptionType

VARIABLES
  disk,        \* the case directories
  maker,       \* the run that created each directory, or None
  recent,      \* the directories of the cases root, by modification time
  opt,         \* the options of each run
  pc,
  tries,       \* agent sessions started
  own,         \* the reserved directory: custody.caseDir
  target,      \* runDir
  engineDir,   \* the directory the EVTX engine writes
  code,        \* runCode
  word,        \* what the verifier answered for the run
  fresh,       \* directories modified after launchedAtMs
  checked,     \* the directory whose verification decided the exit code
  rivals,      \* history: the runs that were verifying it at that moment
  exit         \* the exit code, or None while the run lasts

root == <<disk, maker, recent, fresh>>
outcome == <<word, checked, rivals>>
locals == <<opt, tries, own, target, engineDir, code, outcome>>
vars == <<root, locals, pc, exit>>

Phases == {"admit", "engine", "engineRuns", "engineRecord", "engineCheck",
           "launch", "agent", "orphan", "locate", "attest", "verifier",
           "attestWrite", "report", "reportWrite", "record", "check", "done"}
Signalled == 3
ExitCodes == 0..Signalled
MaybeDir == Dirs \cup {None}

TypeOK ==
  /\ disk \in [Dirs -> Cases]
  /\ maker \in [Dirs -> Runs \cup {None}]
  /\ recent \in Seq(Dirs)
  /\ opt \in [Runs -> Options]
  /\ pc \in [Runs -> Phases]
  /\ tries \in [Runs -> 0..2]
  /\ own \in [Runs -> MaybeDir] /\ target \in [Runs -> MaybeDir]
  /\ engineDir \in [Runs -> MaybeDir] /\ checked \in [Runs -> MaybeDir]
  /\ code \in [Runs -> {0, 1}]
  /\ word \in [Runs -> {"none", "fail", "pass"}]
  /\ rivals \in [Runs -> SUBSET Runs]
  /\ fresh \in [Runs -> SUBSET Dirs]
  /\ exit \in [Runs -> ExitCodes \cup {None}]

-----------------------------------------------------------------------------
(* The cases root.                                                         *)

Named == {opt[r].explicit : r \in Runs} \ {None}

\* A reserved or engine directory has a random name: never one that is there.
Free == {d \in Dirs \ Named : ~disk[d].made}

Put(d, c) == disk' = [disk EXCEPT ![d] = c]

\* A file is created in d: the directory's modification time moves.
Touch(d) ==
  /\ recent' = Append(RemoveFirst(recent, d), d)
  /\ fresh' = [r \in Runs |-> fresh[r] \cup {d}]

InRoot(d) == \E i \in DOMAIN recent : recent[i] = d

Create(d, c) == Put(d, c) /\ Touch(d) /\ UNCHANGED maker
Overwrite(d, c) == Put(d, c) /\ UNCHANGED <<maker, recent, fresh>>
Store(new, d, c) == IF new THEN Create(d, c) ELSE Overwrite(d, c)

MakeDir(r, d, c) ==
  /\ d \in Free
  /\ Put(d, c)
  /\ maker' = [maker EXCEPT ![d] = r]

\* findNewestCaseDir(launchedAtMs)
IsNewest(r, d) ==
  \E i \in DOMAIN recent :
    /\ recent[i] = d /\ d \in fresh[r]
    /\ \A j \in DOMAIN recent : j > i => recent[j] \notin fresh[r]

Newest(r) ==
  IF \E d \in Dirs : IsNewest(r, d) THEN CHOOSE d \in Dirs : IsNewest(r, d) ELSE None

\* What an explicit --run-dir may find.
EarlierCases ==
  {NoCase, [NoCase EXCEPT !.made = TRUE],
   [NoCase EXCEPT !.made = TRUE, !.audit = TRUE, !.manifest = "good"]}

Init ==
  /\ opt \in [Runs -> Options]
  /\ disk \in {f \in [Dirs -> EarlierCases] : \A d \in Dirs \ Named : f[d] = NoCase}
  /\ maker = [d \in Dirs |-> None]
  /\ recent = <<>>
  /\ pc = [r \in Runs |-> "admit"] /\ tries = [r \in Runs |-> 0]
  /\ own = [r \in Runs |-> None] /\ target = [r \in Runs |-> None]
  /\ engineDir = [r \in Runs |-> None] /\ checked = [r \in Runs |-> None]
  /\ code = [r \in Runs |-> 0]
  /\ word = [r \in Runs |-> "none"] /\ rivals = [r \in Runs |-> {}]
  /\ fresh = [r \in Runs |-> {}]
  /\ exit = [r \in Runs |-> None]

Go(r, p) == pc' = [pc EXCEPT ![r] = p]
Continue(r, p) == Go(r, p) /\ UNCHANGED exit
End(r, c) == Go(r, "done") /\ exit' = [exit EXCEPT ![r] = c]

-----------------------------------------------------------------------------
(* Admission: the gates, then the reservation.                             *)

Route(r) == ChooseRoute(opt[r])

\* resolveEvidenceInput finds no file to open.
NoEvidence(r) ==
  /\ pc[r] = "admit" /\ End(r, 2)
  /\ UNCHANGED <<root, locals>>

Refuse(r) ==
  /\ pc[r] = "admit" /\ Gates(opt[r]) # 0 /\ End(r, Gates(opt[r]))
  /\ UNCHANGED <<root, locals>>

\* The evidence cannot be bound, or the case not reserved.
NoReservation(r) ==
  /\ pc[r] = "admit" /\ Gates(opt[r]) = 0 /\ End(r, 1)
  /\ UNCHANGED <<root, locals>>

EnginePrimary(r) ==
  ~opt[r].force /\ Route(r) \notin Cloud /\ opt[r].evtx

Reserve(r, d) ==
  /\ pc[r] = "admit" /\ Gates(opt[r]) = 0
  /\ MakeDir(r, d, [NoCase EXCEPT !.made = TRUE]) /\ Touch(d)
  /\ own' = [own EXCEPT ![r] = d]
  /\ Continue(r, IF EnginePrimary(r) THEN "engine" ELSE "launch")
  /\ UNCHANGED <<opt, tries, target, engineDir, code, outcome>>

-----------------------------------------------------------------------------
(* runLocalEvtxAutoFallback: before any agent session it is the primary    *)
(* path, after one the rescue of a run that did not verify.                *)

Primary(r) == tries[r] = 0

\* The engine opens a case of its own, under the cases root or elsewhere.
EngineStart(r, d, rooted) ==
  /\ pc[r] = "engine" /\ opt[r].evtx
  /\ MakeDir(r, d, [NoCase EXCEPT !.made = TRUE, !.audit = TRUE])
  /\ IF rooted THEN Touch(d) ELSE UNCHANGED <<recent, fresh>>
  /\ engineDir' = [engineDir EXCEPT ![r] = d]
  /\ Continue(r, "engineRuns")
  /\ UNCHANGED <<opt, tries, own, target, code, outcome>>

Verifier(m) == IF m = "good" THEN "pass" ELSE "fail"

\* It writes and signs the manifest, then the answer of its verifier and its
\* report.
EngineSeals(r, m) ==
  LET d == engineDir[r]
  IN  /\ pc[r] = "engineRuns" /\ disk[d].manifest = "none"
      /\ Store(InRoot(d), d, [disk[d] EXCEPT !.manifest = m])
      /\ UNCHANGED <<locals, pc, exit>>

EngineReports(r, rep) ==
  LET d == engineDir[r]
  IN  /\ pc[r] = "engineRuns" /\ disk[d].manifest # "none" /\ ~disk[d].byToolkit
      /\ Store(InRoot(d), d,
               [disk[d] EXCEPT !.verify = Verifier(disk[d].manifest),
                               !.report = rep, !.byToolkit = TRUE])
      /\ UNCHANGED <<locals, pc, exit>>

EngineSucceeds(r) ==
  /\ pc[r] = "engineRuns"
  /\ Continue(r, "engineRecord")
  /\ UNCHANGED <<root, locals>>

\* Not an EVTX, no engine installed, a failing engine, or no summary.
EngineFails(r) ==
  /\ pc[r] \in {"engine", "engineRuns"}
  /\ IF Primary(r) THEN Continue(r, "launch")
                   ELSE End(r, IF code[r] = 0 THEN 1 ELSE code[r])
  /\ UNCHANGED <<root, locals>>

WriteRecord(d, engineUsedFallback) ==
  Store(disk[d].record = "none", d,
        [disk[d] EXCEPT !.record = UsedFallback(disk[d], engineUsedFallback)])

\* Mutant: the engine's run is recorded as the agent's.
RecordEngineAsAgent(r) ==
  /\ pc[r] = "engineRecord"
  /\ WriteRecord(engineDir[r], FALSE)
  /\ Continue(r, "engineCheck")
  /\ UNCHANGED locals

RecordEngine(r) ==
  /\ pc[r] = "engineRecord"
  /\ WriteRecord(engineDir[r], TRUE)
  /\ Continue(r, "engineCheck")
  /\ UNCHANGED locals

\* Who has looked at the directory, found no manifest_verify.json, and is yet
\* to write one.
Verifying(q) == pc[q] \in {"verifier", "attestWrite"}
Rivals(d) == {q \in Runs : target[q] = d /\ Verifying(q)}

\* The exit code is decided by what `caseforge verify' says of d.
Decide(r, d, c) ==
  /\ checked' = [checked EXCEPT ![r] = d]
  /\ rivals' = [rivals EXCEPT ![r] = Rivals(d)]
  /\ End(r, c)

EngineExit(r, verified) ==
  IF verified = 0 \/ Primary(r) \/ target[r] = None \/ code[r] = 0
  THEN verified ELSE code[r]

CheckEngine(r) ==
  /\ pc[r] = "engineCheck"
  /\ Decide(r, engineDir[r], EngineExit(r, Verify(disk[engineDir[r]])))
  /\ UNCHANGED <<root, opt, tries, own, target, engineDir, code, word>>

-----------------------------------------------------------------------------
(* The agent.  It writes to the reserved directory - the tools accept seal *)
(* paths nowhere else - and opens parser cases beside it.                  *)

\* launchedAtMs is a second in the past: directories touched shortly before
\* count as fresh too.
LaunchAgent(r) ==
  /\ pc[r] = "launch"
  /\ \E i \in 1..(Len(recent) + 1) :
       fresh' = [fresh EXCEPT ![r] = {recent[j] : j \in i..Len(recent)}]
  /\ tries' = [tries EXCEPT ![r] = 1]
  /\ Continue(r, "agent")
  /\ UNCHANGED <<disk, maker, recent, opt, own, target, engineDir, code, outcome>>

AgentRuns(r) == pc[r] \in {"agent", "orphan"}
Mine(r) == disk[own[r]]

AgentOpens(r, d) ==
  /\ AgentRuns(r)
  /\ MakeDir(r, d, [NoCase EXCEPT !.made = TRUE]) /\ Touch(d)
  /\ UNCHANGED <<locals, pc, exit>>

AgentAudits(r) ==
  /\ AgentRuns(r) /\ ~Mine(r).audit
  /\ Create(own[r], [Mine(r) EXCEPT !.audit = TRUE])
  /\ UNCHANGED <<locals, pc, exit>>

\* manifest_finalize, again if the agent asks for it again.
AgentSeals(r, m) ==
  /\ AgentRuns(r) /\ Mine(r).audit /\ Mine(r).manifest # m
  /\ Store(Mine(r).manifest = "none", own[r], [Mine(r) EXCEPT !.manifest = m])
  /\ UNCHANGED <<locals, pc, exit>>

\* The agent appends a manifest_verify record with overall true.
AgentClaims(r) ==
  /\ AgentRuns(r) /\ Mine(r).audit /\ ~Mine(r).claim
  /\ Overwrite(own[r], [Mine(r) EXCEPT !.claim = TRUE])
  /\ UNCHANGED <<locals, pc, exit>>

RuntimeResult(r, v) ==
  /\ AgentRuns(r) /\ Mine(r).result = "unknown"
  /\ Create(own[r], [Mine(r) EXCEPT !.result = v])
  /\ UNCHANGED <<locals, pc, exit>>

\* The second session only counts when it succeeds.
AgentExits(r, c) ==
  /\ pc[r] = "agent"
  /\ code' = [code EXCEPT ![r] = IF tries[r] = 1 \/ c = 0 THEN c ELSE @]
  /\ Continue(r, "locate")
  /\ UNCHANGED <<root, opt, tries, own, target, engineDir, outcome>>

\* The run is ended from outside; the agent it spawned may live on.
Killed(r) ==
  /\ exit[r] = None
  /\ exit' = [exit EXCEPT ![r] = Signalled]
  /\ \E p \in {"done"} \cup {x \in {"orphan"} : pc[r] = "agent"} : Go(r, p)
  /\ UNCHANGED <<root, locals>>

-----------------------------------------------------------------------------
(* Which directory the run is about.                                       *)

\* Mutant: the newest directory wins over the reserved one.
NewestFirst(r) ==
  IF opt[r].explicit # None THEN opt[r].explicit
  ELSE IF Newest(r) # None THEN Newest(r)
  ELSE own[r]

RunDir(r) ==
  IF opt[r].explicit # None THEN opt[r].explicit
  ELSE IF Mine(r).audit THEN own[r]
  ELSE IF Newest(r) # None \/ tries[r] = 1 THEN Newest(r)
  ELSE IF target[r] # None THEN target[r]
  ELSE own[r]

\* Mutant: the attempt to continue a seal is not the last.
ContinuesAgain(r, d) ==
  /\ ~opt[r].noVerify /\ opt[r].evtx
  /\ d = None \/ ~CaseIsSealed(disk[d])

ContinuesSeal(r, d) ==
  /\ tries[r] = 1 /\ ~opt[r].noVerify /\ opt[r].evtx
  /\ d = None \/ ~CaseIsSealed(disk[d])

Locate(r) ==
  LET d == RunDir(r)
  IN  /\ pc[r] = "locate"
      /\ target' = [target EXCEPT ![r] = d]
      /\ tries' = [tries EXCEPT ![r] = IF ContinuesSeal(r, d) THEN 2 ELSE @]
      /\ IF ContinuesSeal(r, d) THEN Continue(r, "agent")
         ELSE IF opt[r].noVerify THEN End(r, code[r])
         ELSE Continue(r, IF d = None THEN "engine" ELSE "attest")
      /\ UNCHANGED <<root, opt, own, engineDir, code, outcome>>

-----------------------------------------------------------------------------
(* What the run adds to the directory, and the exit code.                  *)

Target(r) == disk[target[r]]

Finishing(r) ==
  pc[r] \in {"attest", "verifier", "attestWrite", "report", "reportWrite",
            "record", "check"}

\* finalizeManifestVerify: the look at the two files, the seconds the verifier
\* takes over the manifest, and the write of its answer, over whatever another
\* run has written meanwhile.
\* Mutant: what was never sealed is attested too.
LookUnsealed(r) ==
  /\ pc[r] = "attest" /\ Target(r).verify = "none"
  /\ Continue(r, "verifier")
  /\ UNCHANGED <<root, locals>>

LookForAttestation(r) ==
  /\ pc[r] = "attest" /\ Target(r).manifest # "none" /\ Target(r).verify = "none"
  /\ Continue(r, "verifier")
  /\ UNCHANGED <<root, locals>>

VerifierAnswers(r) ==
  /\ pc[r] = "verifier"
  /\ word' = [word EXCEPT ![r] = Verifier(Target(r).manifest)]
  /\ Continue(r, "attestWrite")
  /\ UNCHANGED <<root, opt, tries, own, target, engineDir, code, checked, rivals>>

Attest(r) ==
  /\ pc[r] = "attestWrite"
  /\ Store(Target(r).verify = "none", target[r],
           [Target(r) EXCEPT !.verify = word[r]])
  /\ Continue(r, "report")
  /\ UNCHANGED locals

\* Nothing to verify, verified before, or no verifier that runs.
SkipAttest(r) ==
  /\ pc[r] \in {"attest", "verifier"}
  /\ Continue(r, "report")
  /\ UNCHANGED <<root, locals>>

\* finalizeVerdictJson: a toolkit's report is left alone, unless it comes
\* between the look and the write.
LookForReport(r) ==
  /\ pc[r] = "report"
  /\ Continue(r, IF Target(r).byToolkit THEN "record" ELSE "reportWrite")
  /\ UNCHANGED <<root, locals>>

Report(r, rep) ==
  /\ pc[r] = "reportWrite"
  /\ IF Target(r).audit
     THEN Store(Target(r).report = "none", target[r],
                [Target(r) EXCEPT !.report = rep, !.byToolkit = FALSE])
     ELSE UNCHANGED root
  /\ Continue(r, "record")
  /\ UNCHANGED locals

\* recordRunProvenance(runDir, false); a missing directory is not an error.
Record(r) ==
  /\ pc[r] = "record"
  /\ IF Target(r).made THEN WriteRecord(target[r], FALSE) ELSE UNCHANGED root
  /\ Continue(r, "check")
  /\ UNCHANGED locals

Check(r) ==
  /\ pc[r] = "check"
  /\ IF Verify(Target(r)) = 0
     THEN Decide(r, target[r], code[r])
     ELSE Continue(r, "engine") /\ UNCHANGED <<checked, rivals>>
  /\ UNCHANGED <<root, opt, tries, own, target, engineDir, code, word>>

-----------------------------------------------------------------------------
\* What a run, its engine and the end of its agent contribute.
RunStep(r) ==
  \/ NoEvidence(r) \/ Refuse(r) \/ NoReservation(r)
  \/ \E d \in Dirs : Reserve(r, d)
  \/ \E d \in Dirs, rooted \in BOOLEAN : EngineStart(r, d, rooted)
  \/ EngineSucceeds(r) \/ EngineFails(r) \/ RecordEngine(r) \/ CheckEngine(r)
  \/ LaunchAgent(r)
  \/ \E c \in {0, 1} : AgentExits(r, c)
  \/ Locate(r)
  \/ LookForAttestation(r) \/ VerifierAnswers(r) \/ Attest(r) \/ SkipAttest(r)
  \/ LookForReport(r) \/ Record(r) \/ Check(r)
  \/ \E rep \in {"ok", "failed"} : Report(r, rep)

\* What the agents and engines write meanwhile.
AgentStep(r) ==
  \/ \E d \in Dirs : AgentOpens(r, d)
  \/ AgentAudits(r) \/ AgentClaims(r)
  \/ \E m \in {"bad", "good"} : AgentSeals(r, m)
  \/ \E v \in Results : RuntimeResult(r, v)

EngineStep(r) ==
  \/ \E m \in {"bad", "good"} : EngineSeals(r, m)
  \/ \E rep \in {"ok", "failed"} : EngineReports(r, rep)

Next == \E r \in Runs : RunStep(r) \/ AgentStep(r) \/ EngineStep(r) \/ Killed(r)

Spec == Init /\ [][Next]_vars

\* Agents and engines end, and a run goes on when they do.
FairSpec == Spec /\ \A r \in Runs : WF_vars(RunStep(r))

-----------------------------------------------------------------------------
\* What there is in a directory, of what its writers and readers agree on.
LifeOf(c) ==
  {a \in {"directory", "audit", "manifest", "attested", "claim"} :
     CASE a = "directory" -> c.made
       [] a = "audit"     -> c.audit
       [] a = "manifest"  -> c.manifest # "none"
       [] a = "attested"  -> c.verify # "none"
       [] a = "claim"     -> c.claim}

Life == INSTANCE CaseLife WITH life <- [d \in Dirs |-> LifeOf(disk[d])]

\* However many runs, agents and engines write the same directories, in
\* whatever order their looks and writes fall, a directory is made, audited,
\* sealed and attested in this order, and none removes what another added.
KeepsCaseLife == Life!Spec

\* An agent on a cloud model runs only for evidence the operator declared
\* fit to leave the host, in the mode that allows it, with the egress
\* acknowledged - whichever way the route was chosen.
EgressNeedsConsent ==
  \A r \in Runs : AgentRuns(r) /\ Route(r) \in Cloud =>
    opt[r].mode = "cloud-ok" /\ opt[r].class # "sensitive" /\ opt[r].ack

\* The word of a verification is taken back by nothing but a run that had
\* looked before it was there, and whose own verifier then failed the seal.
TakenBack(r) == \E q \in rivals[r] : word[q] = "fail"

\* A run that exits 0 after verifying leaves a sealed directory with a passing
\* verification or a claim of one.  No later write of any run takes that away,
\* save that of a rival: a run that was verifying the same directory when this
\* one exited, and came to the opposite answer.  Only --no-verify exits 0
\* without.
ZeroStaysVerified ==
  \A r \in Runs : exit[r] = 0 =>
    \/ checked[r] = None /\ opt[r].noVerify
    \/ /\ checked[r] # None
       /\ LET c == disk[checked[r]]
          IN  /\ c.audit /\ c.manifest # "none"
              /\ c.verify = "pass" \/ c.claim \/ TakenBack(r)

\* While a run finishes a directory that is not its reserved one, its own
\* audit log does not exist: other runs never draw a run away from evidence
\* its own agent has audited.
OwnCaseFirst ==
  \A r \in Runs :
    Finishing(r) /\ opt[r].explicit = None =>
      target[r] = own[r] \/ ~Mine(r).audit

\* A run that turns to the engine and succeeds leaves the engine's directory
\* recorded as a fallback run, whatever its agent left behind.  (With one
\* run; and an engine that fails after sealing leaves a directory the agent's
\* run may pick up and record as its own.)
FallbackIsRecorded ==
  \A r \in Runs :
    exit[r] = 0 /\ checked[r] \notin {None, target[r]} => disk[checked[r]].record = "yes"

\* Every run ends, with at most one more agent session after the first.
EveryRunEnds == \A r \in Runs : <>(exit[r] # None)

-----------------------------------------------------------------------------
\* "Close the loop: locate the produced run/case dir and validate it"
\* (investigate.ts): a success is about a directory of this run.
ZeroIsOwnCase ==
  \A r \in Runs : exit[r] = 0 /\ checked[r] # None /\ opt[r].explicit = None =>
    maker[checked[r]] = r
=============================================================================
