-------------------------- MODULE InvestigateProofs --------------------------
(***************************************************************************)
(* Theorems about Investigate, for every set of runs, directories, options *)
(* and routes.                                                             *)
(***************************************************************************)
EXTENDS Investigate, SequenceTheorems, TLAPS

Words == {"none", "fail", "pass"}

\* TypeOK but for the order in which the directories were touched.
StateType ==
  /\ disk \in [Dirs -> Cases]
  /\ opt \in [Runs -> Options]
  /\ pc \in [Runs -> Phases]
  /\ tries \in [Runs -> 0..2]
  /\ own \in [Runs -> MaybeDir] /\ target \in [Runs -> MaybeDir]
  /\ engineDir \in [Runs -> MaybeDir] /\ checked \in [Runs -> MaybeDir]
  /\ code \in [Runs -> {0, 1}] /\ word \in [Runs -> Words]
  /\ exit \in [Runs -> ExitCodes \cup {None}]

FinishPhases == {"attest", "verifier", "attestWrite", "report", "reportWrite",
                 "record", "check"}
EngineAtWork(r) == pc[r] \in {"engineRuns", "engineRecord", "engineCheck"}

AuditsInside == \A d \in Dirs : disk[d].audit => disk[d].made

\* Past the gates a run has a directory of its own, and no other run has it.
Admitted ==
  \A r \in Runs : pc[r] \notin {"admit", "done"} =>
    Gates(opt[r]) = 0 /\ own[r] \in Dirs

OwnMade == \A r \in Runs : own[r] \in Dirs => disk[own[r]].made

OwnApart ==
  \A r, q \in Runs : own[r] = own[q] => r = q \/ own[r] = None

Unfinished ==
  \A r \in Runs : pc[r] \notin {"orphan", "done"} => exit[r] = None /\ checked[r] = None

WorksOnDirs ==
  \A r \in Runs : /\ EngineAtWork(r) => engineDir[r] \in Dirs
                  /\ Finishing(r) => target[r] \in Dirs
                  /\ pc[r] = "attestWrite" => word[r] # "none"

IInv ==
  /\ StateType /\ AuditsInside /\ Admitted /\ OwnMade /\ OwnApart
  /\ Unfinished /\ WorksOnDirs /\ OwnCaseFirst

-----------------------------------------------------------------------------
(* Directories and audit logs are not removed.                             *)

Grows(a, b) ==
  /\ b \in Cases
  /\ a.made => b.made
  /\ a.audit => b.audit
  /\ b.audit => b.made

DiskGrows ==
  /\ disk' \in [Dirs -> Cases]
  /\ \A d \in Dirs : Grows(disk[d], disk'[d])

LEMMA SameGrows ==
  ASSUME IInv, UNCHANGED disk PROVE DiskGrows
  BY DEF IInv, StateType, AuditsInside, DiskGrows, Grows

LEMMA PutGrows ==
  ASSUME IInv, NEW d, NEW c, Put(d, c), d \in Dirs => Grows(disk[d], c)
  PROVE  DiskGrows
  <1>1. disk \in [Dirs -> Cases] /\ disk' = [disk EXCEPT ![d] = c]
    BY DEF IInv, StateType, Put
  <1>2. \A e \in Dirs : disk'[e] = IF e = d THEN c ELSE disk[e]
    BY <1>1
  <1>3. \A e \in Dirs : Grows(disk[e], disk[e])
    BY DEF IInv, StateType, AuditsInside, Grows
  <1>4. \A e \in Dirs : Grows(disk[e], disk'[e])
    BY <1>2, <1>3
  <1>5. disk' \in [Dirs -> Cases]
    BY <1>1, <1>4 DEF Grows
  <1>6. QED
    BY <1>4, <1>5 DEF DiskGrows

LEMMA StoreGrows ==
  ASSUME IInv, NEW new, NEW d, NEW c, Store(new, d, c), d \in Dirs => Grows(disk[d], c)
  PROVE  DiskGrows
  BY PutGrows DEF Store, Create, Overwrite

LEMMA MakeGrows ==
  ASSUME IInv, NEW r \in Runs, NEW d, NEW c \in Cases, c.made, MakeDir(r, d, c)
  PROVE  DiskGrows /\ d \in Dirs /\ ~disk[d].made /\ disk'[d] = c
  <1>1. d \in Dirs /\ ~disk[d].made /\ Put(d, c)
    BY DEF MakeDir, Free
  <1>2. Grows(disk[d], c)
    BY <1>1 DEF IInv, AuditsInside, Grows
  <1>3. disk'[d] = c
    BY <1>1 DEF IInv, StateType, Put
  <1>4. QED
    BY <1>1, <1>2, <1>3, PutGrows

LEMMA NewCases ==
  /\ [NoCase EXCEPT !.made = TRUE] \in Cases
  /\ [NoCase EXCEPT !.made = TRUE, !.audit = TRUE] \in Cases
  /\ [NoCase EXCEPT !.made = TRUE].made
  /\ [NoCase EXCEPT !.made = TRUE, !.audit = TRUE].made
  BY DEF NoCase, Cases, Reports, Tri

\* The run record of a directory does not touch its custody.
LEMMA RecordGrows ==
  ASSUME IInv, NEW d, NEW b \in BOOLEAN, WriteRecord(d, b)
  PROVE  DiskGrows
  <1> DEFINE c == [disk[d] EXCEPT !.record = UsedFallback(disk[d], b)]
  <1>1. ASSUME d \in Dirs PROVE Grows(disk[d], c)
    <2>1. disk[d] \in Cases /\ (disk[d].audit => disk[d].made)
      BY <1>1 DEF IInv, StateType, AuditsInside
    <2>2. UsedFallback(disk[d], b) \in {"none", "yes", "no"}
      BY <2>1 DEF UsedFallback, Cases, Tri
    <2>3. QED
      BY <2>1, <2>2 DEF Grows, Cases
  <1>2. QED
    BY <1>1, StoreGrows DEF WriteRecord

-----------------------------------------------------------------------------
(* What every step does to the directories.                                *)

\* The reserved directory of a finishing run gets no audit log: its agent
\* has ended, and no other agent writes there.
AuditsKept ==
  \A q \in Runs : Finishing(q) /\ ~disk[own[q]].audit => ~disk'[own[q]].audit

LEMMA SameKeeps == ASSUME UNCHANGED disk PROVE AuditsKept
  BY DEF AuditsKept

LEMMA PutKeeps ==
  ASSUME IInv, NEW d, NEW c, Put(d, c),
         \A q \in Runs : Finishing(q) /\ own[q] = d => (c.audit => disk[d].audit)
  PROVE  AuditsKept
  <1>1. disk \in [Dirs -> Cases] /\ disk' = [disk EXCEPT ![d] = c]
    BY DEF IInv, StateType, Put
  <1>2. \A q \in Runs : Finishing(q) => own[q] \in Dirs
    BY DEF IInv, Admitted, Finishing
  <1>3. \A e \in Dirs : disk'[e] = IF e = d THEN c ELSE disk[e]
    BY <1>1
  <1>4. QED
    BY <1>2, <1>3 DEF AuditsKept

LEMMA StoreKeeps ==
  ASSUME IInv, NEW new, NEW d, NEW c, Store(new, d, c),
         d \in Dirs => (c.audit => disk[d].audit)
  PROVE  AuditsKept
  <1>1. \A q \in Runs : Finishing(q) => own[q] \in Dirs
    BY DEF IInv, Admitted, Finishing
  <1>2. QED
    BY <1>1, PutKeeps DEF Store, Create, Overwrite

LEMMA MakeKeeps ==
  ASSUME IInv, NEW r \in Runs, NEW d, NEW c, MakeDir(r, d, c)
  PROVE  AuditsKept
  <1>1. d \in Dirs /\ ~disk[d].made /\ Put(d, c)
    BY DEF MakeDir, Free
  <1>2. \A q \in Runs : own[q] # d
    BY <1>1 DEF IInv, OwnMade
  <1>3. QED
    BY <1>1, <1>2, PutKeeps

LEMMA RecordKeeps ==
  ASSUME IInv, NEW d, NEW b \in BOOLEAN, WriteRecord(d, b)
  PROVE  AuditsKept
  <1> DEFINE c == [disk[d] EXCEPT !.record = UsedFallback(disk[d], b)]
  <1>1. d \in Dirs => (c.audit => disk[d].audit)
    BY DEF IInv, StateType, Cases
  <1>2. QED
    BY <1>1, StoreKeeps DEF WriteRecord

\* What agents and engines write between the steps of the runs.
LEMMA WritersGrow ==
  ASSUME IInv, NEW r \in Runs, AgentStep(r) \/ EngineStep(r)
  PROVE  DiskGrows /\ AuditsKept /\ UNCHANGED <<locals, pc, exit>>
  <1>0. \A d \in Dirs : disk[d] \in Cases /\ (disk[d].audit => disk[d].made)
    BY DEF IInv, StateType, AuditsInside
  <1>a. AgentRuns(r) => own[r] \in Dirs /\ Mine(r) \in Cases /\ Mine(r).made
    BY <1>0 DEF IInv, Admitted, OwnMade, AgentRuns, Mine
  <1>1. ASSUME NEW d \in Dirs, AgentOpens(r, d)
        PROVE  DiskGrows /\ AuditsKept /\ UNCHANGED <<locals, pc, exit>>
    BY <1>1, NewCases, MakeGrows, MakeKeeps DEF AgentOpens
  <1>2. ASSUME AgentAudits(r)
        PROVE  DiskGrows /\ AuditsKept /\ UNCHANGED <<locals, pc, exit>>
    <2> DEFINE c == [Mine(r) EXCEPT !.audit = TRUE]
    <2>1. Put(own[r], c) /\ AgentRuns(r) /\ UNCHANGED <<locals, pc, exit>>
      BY <1>2 DEF AgentAudits, Create
    <2>2. Grows(disk[own[r]], c)
      BY <2>1, <1>a DEF Mine, Grows, Cases
    <2>3. \A q \in Runs : Finishing(q) => own[q] # own[r]
      BY <2>1, <1>a, InvestigateAssumption
         DEF IInv, OwnApart, AgentRuns, Finishing
    <2> HIDE DEF c
    <2>4. QED
      BY <2>1, <2>2, <2>3, PutGrows, PutKeeps
  <1>3. ASSUME NEW m \in {"bad", "good"}, AgentSeals(r, m)
        PROVE  DiskGrows /\ AuditsKept /\ UNCHANGED <<locals, pc, exit>>
    <2> DEFINE c == [Mine(r) EXCEPT !.manifest = m]
    <2>1. /\ Store(Mine(r).manifest = "none", own[r], c)
          /\ AgentRuns(r) /\ UNCHANGED <<locals, pc, exit>>
      BY <1>3 DEF AgentSeals
    <2>2. Grows(disk[own[r]], c) /\ (c.audit => disk[own[r]].audit)
      BY <2>1, <1>a, <1>0 DEF Mine, Grows, Cases
    <2>3. QED
      BY <2>1, <2>2, StoreGrows, StoreKeeps
  <1>4. ASSUME AgentClaims(r)
        PROVE  DiskGrows /\ AuditsKept /\ UNCHANGED <<locals, pc, exit>>
    <2> DEFINE c == [Mine(r) EXCEPT !.claim = TRUE]
    <2>1. Put(own[r], c) /\ AgentRuns(r) /\ UNCHANGED <<locals, pc, exit>>
      BY <1>4 DEF AgentClaims, Overwrite
    <2>2. Grows(disk[own[r]], c) /\ (c.audit => disk[own[r]].audit)
      BY <2>1, <1>a, <1>0 DEF Mine, Grows, Cases
    <2>3. QED
      BY <2>1, <2>2, PutGrows, PutKeeps
  <1>5. ASSUME NEW v \in Results, RuntimeResult(r, v)
        PROVE  DiskGrows /\ AuditsKept /\ UNCHANGED <<locals, pc, exit>>
    <2> DEFINE c == [Mine(r) EXCEPT !.result = v]
    <2>1. Put(own[r], c) /\ AgentRuns(r) /\ UNCHANGED <<locals, pc, exit>>
      BY <1>5 DEF RuntimeResult, Create
    <2>2. Grows(disk[own[r]], c) /\ (c.audit => disk[own[r]].audit)
      BY <2>1, <1>a, <1>0, InvestigateAssumption DEF Mine, Grows, Cases, Tri
    <2>3. QED
      BY <2>1, <2>2, PutGrows, PutKeeps
  <1>6. ASSUME NEW m \in {"bad", "good"}, EngineSeals(r, m)
        PROVE  DiskGrows /\ AuditsKept /\ UNCHANGED <<locals, pc, exit>>
    <2> DEFINE d == engineDir[r]
               c == [disk[d] EXCEPT !.manifest = m]
    <2>1. Store(InRoot(d), d, c) /\ UNCHANGED <<locals, pc, exit>>
      BY <1>6 DEF EngineSeals
    <2>2. d \in Dirs => Grows(disk[d], c) /\ (c.audit => disk[d].audit)
      BY <1>0 DEF Grows, Cases
    <2> HIDE DEF d, c
    <2>3. QED
      BY <2>1, <2>2, StoreGrows, StoreKeeps
  <1>7. ASSUME NEW rep \in {"ok", "failed"}, EngineReports(r, rep)
        PROVE  DiskGrows /\ AuditsKept /\ UNCHANGED <<locals, pc, exit>>
    <2> DEFINE d == engineDir[r]
               c == [disk[d] EXCEPT !.verify = Verifier(disk[d].manifest),
                                    !.report = rep, !.byToolkit = TRUE]
    <2>1. Store(InRoot(d), d, c) /\ UNCHANGED <<locals, pc, exit>>
      BY <1>7 DEF EngineReports
    <2>2. Verifier(disk[d].manifest) \in {"fail", "pass"}
      BY DEF Verifier
    <2>3. d \in Dirs => Grows(disk[d], c) /\ (c.audit => disk[d].audit)
      BY <2>2, <1>0 DEF Grows, Cases, Reports
    <2> HIDE DEF d, c
    <2>4. QED
      BY <2>1, <2>3, StoreGrows, StoreKeeps
  <1>8. QED
    BY <1>1, <1>2, <1>3, <1>4, <1>5, <1>6, <1>7 DEF AgentStep, EngineStep

\* The steps of a run that write to a directory.
Writing(r) ==
  \/ RecordEngine(r) \/ Attest(r) \/ Record(r)
  \/ \E rep \in {"ok", "failed"} : Report(r, rep)

LEMMA WritingGrows ==
  ASSUME IInv, NEW r \in Runs, Writing(r)
  PROVE  DiskGrows /\ AuditsKept
  <1>0. \A d \in Dirs : disk[d] \in Cases /\ (disk[d].audit => disk[d].made)
    BY DEF IInv, StateType, AuditsInside
  <1>1. ASSUME RecordEngine(r) PROVE DiskGrows /\ AuditsKept
    BY <1>1, RecordGrows, RecordKeeps DEF RecordEngine
  <1>2. ASSUME Record(r) PROVE DiskGrows /\ AuditsKept
    <2>1. WriteRecord(target[r], FALSE) \/ UNCHANGED disk
      BY <1>2 DEF Record, root
    <2>2. QED
      BY <2>1, RecordGrows, RecordKeeps, SameGrows, SameKeeps
  <1>3. ASSUME Attest(r) PROVE DiskGrows /\ AuditsKept
    <2> DEFINE d == target[r]
               c == [disk[d] EXCEPT !.verify = word[r]]
    <2>1. Store(disk[d].verify = "none", d, c)
      BY <1>3 DEF Attest, Target
    <2>2. word[r] \in Words
      BY DEF IInv, StateType
    <2>3. d \in Dirs => Grows(disk[d], c) /\ (c.audit => disk[d].audit)
      BY <2>2, <1>0 DEF Grows, Cases, Words
    <2> HIDE DEF d, c
    <2>4. QED
      BY <2>1, <2>3, StoreGrows, StoreKeeps
  <1>4. ASSUME NEW rep \in {"ok", "failed"}, Report(r, rep)
        PROVE  DiskGrows /\ AuditsKept
    <2> DEFINE d == target[r]
               c == [disk[d] EXCEPT !.report = rep, !.byToolkit = FALSE]
    <2>1. \/ Store(disk[d].report = "none", d, c)
          \/ UNCHANGED disk
      BY <1>4 DEF Report, Target, root
    <2>2. d \in Dirs => Grows(disk[d], c) /\ (c.audit => disk[d].audit)
      BY <1>0 DEF Grows, Cases, Reports
    <2>3. QED
      BY <2>1, <2>2, StoreGrows, StoreKeeps, SameGrows, SameKeeps
  <1>5. QED
    BY <1>1, <1>2, <1>3, <1>4 DEF Writing

-----------------------------------------------------------------------------
(* A step of run r, as far as the invariant is concerned: it goes to phase *)
(* p, leaves the other runs alone, and what it leaves of r fits p.         *)

Others(r) ==
  \A q \in Runs \ {r} :
    /\ own'[q] = own[q] /\ target'[q] = target[q] /\ engineDir'[q] = engineDir[q]
    /\ checked'[q] = checked[q] /\ exit'[q] = exit[q] /\ word'[q] = word[q]

LocalType ==
  /\ tries \in [Runs -> 0..2]
  /\ own \in [Runs -> MaybeDir] /\ target \in [Runs -> MaybeDir]
  /\ engineDir \in [Runs -> MaybeDir] /\ checked \in [Runs -> MaybeDir]
  /\ code \in [Runs -> {0, 1}] /\ word \in [Runs -> Words]
  /\ exit \in [Runs -> ExitCodes \cup {None}]

FitsPhase(r, p) ==
  /\ p \notin {"admit", "done"} => Gates(opt[r]) = 0 /\ own'[r] \in Dirs
  /\ p \notin {"orphan", "done"} => exit'[r] = None /\ checked'[r] = None
  /\ p \in {"engineRuns", "engineRecord", "engineCheck"} => engineDir'[r] \in Dirs
  /\ p = "attestWrite" => word'[r] # "none"
  /\ p \in FinishPhases =>
       /\ target'[r] \in Dirs
       /\ opt[r].explicit = None => target'[r] = own'[r] \/ ~disk'[own'[r]].audit

LEMMA StepKeeps ==
  ASSUME IInv, NEW r \in Runs, NEW p \in Phases, pc' = [pc EXCEPT ![r] = p],
         DiskGrows, AuditsKept, UNCHANGED opt, LocalType', OwnMade', OwnApart',
         Others(r), FitsPhase(r, p)
  PROVE  IInv'
  <1>1. StateType'
    BY DEF IInv, StateType, LocalType, DiskGrows
  <1>2. AuditsInside'
    BY DEF AuditsInside, DiskGrows, Grows
  <1>3. \A q \in Runs : pc'[q] = IF q = r THEN p ELSE pc[q]
    BY DEF IInv, StateType
  <1>4. Admitted'
    BY <1>3 DEF IInv, Admitted, Others, FitsPhase
  <1>5. Unfinished'
    BY <1>3 DEF IInv, Unfinished, Others, FitsPhase
  <1>6. WorksOnDirs'
    BY <1>3 DEF IInv, WorksOnDirs, EngineAtWork, Finishing, FinishPhases, Others,
              FitsPhase
  <1>7. OwnCaseFirst'
    BY <1>3 DEF IInv, OwnCaseFirst, Mine, AuditsKept, Finishing, FinishPhases,
              Others, FitsPhase
  <1>8. QED
    BY <1>1, <1>2, <1>4, <1>5, <1>6, <1>7 DEF IInv

LEMMA OwnKept ==
  ASSUME IInv, DiskGrows, UNCHANGED own PROVE OwnMade' /\ OwnApart'
  BY DEF IInv, OwnMade, OwnApart, DiskGrows, Grows

\* A run that has not ended has no exit code.
LEMMA NoExitYet ==
  ASSUME IInv, NEW r \in Runs, pc[r] \notin {"orphan", "done"}
  PROVE  exit[r] = None /\ checked[r] = None /\ exit[r] # 0
  BY InvestigateAssumption DEF IInv, Unfinished

-----------------------------------------------------------------------------
(* One lemma for the steps that leave the directories alone, and one for   *)
(* those that write to them.                                               *)

\* A step of r that ends the run with a code other than 0.
LEMMA FailureKeeps ==
  ASSUME IInv, NEW r \in Runs, NEW c \in ExitCodes \ {0}, NEW p \in {"done", "orphan"},
         p = "orphan" => pc[r] = "agent",
         Go(r, p), exit' = [exit EXCEPT ![r] = c], UNCHANGED <<root, locals>>
  PROVE  IInv'
  <1>1. DiskGrows /\ AuditsKept
    BY SameGrows, SameKeeps DEF root
  <1>2. UNCHANGED <<opt, own>> /\ OwnMade' /\ OwnApart'
    BY <1>1, OwnKept DEF locals
  <1>3. LocalType'
    BY DEF IInv, StateType, LocalType, locals, outcome
  <1>4. exit'[r] = c /\ \A q \in Runs \ {r} : exit'[q] = exit[q]
    BY DEF IInv, StateType
  <1>5. Others(r)
    BY <1>4 DEF Others, locals, outcome
  <1>6. FitsPhase(r, p)
    BY DEF FitsPhase, FinishPhases, IInv, Admitted, locals
  <1>7. QED
    BY <1>1, <1>2, <1>3, <1>5, <1>6, StepKeeps DEF Phases, Go

\* A step of r that goes on and changes no variable but tries, word and fresh.
LEMMA GoingOnKeeps ==
  ASSUME IInv, NEW r \in Runs, NEW p \in Phases, Continue(r, p),
         pc[r] \notin {"admit", "orphan", "done"}, DiskGrows, AuditsKept,
         tries' \in [Runs -> 0..2], word' \in [Runs -> Words],
         \A q \in Runs \ {r} : word'[q] = word[q],
         UNCHANGED <<opt, own, target, engineDir, code, checked>>,
         p \in {"engineRuns", "engineRecord", "engineCheck"} => EngineAtWork(r),
         p \in FinishPhases => Finishing(r),
         p = "attestWrite" => word'[r] # "none"
  PROVE  IInv'
  <1>1. OwnMade' /\ OwnApart'
    BY OwnKept
  <1>2. LocalType'
    BY DEF IInv, StateType, LocalType, Continue
  <1>3. exit[r] = None /\ checked[r] = None /\ exit[r] # 0
    BY NoExitYet
  <1>4. Others(r)
    BY DEF Others, Continue
  <1>5. Gates(opt[r]) = 0 /\ own[r] \in Dirs
    BY DEF IInv, Admitted
  <1>6. Finishing(r) => /\ target[r] \in Dirs
                        /\ opt[r].explicit = None =>
                             target[r] = own[r] \/ ~disk'[own[r]].audit
    BY DEF IInv, WorksOnDirs, OwnCaseFirst, AuditsKept, Finishing, Mine
  <1>7. EngineAtWork(r) => engineDir[r] \in Dirs
    BY DEF IInv, WorksOnDirs
  <1>8. FitsPhase(r, p)
    BY <1>3, <1>5, <1>6, <1>7 DEF FitsPhase, Continue
  <1>9. QED
    BY <1>1, <1>2, <1>4, <1>8, StepKeeps DEF Continue, Go

-----------------------------------------------------------------------------
(* The steps that start or end something.                                  *)

LEMMA ReserveKeeps ==
  ASSUME IInv, NEW r \in Runs, NEW d \in Dirs, Reserve(r, d) PROVE IInv'
  <1> DEFINE p == IF EnginePrimary(r) THEN "engine" ELSE "launch"
  <1>1. /\ MakeDir(r, d, [NoCase EXCEPT !.made = TRUE])
        /\ own' = [own EXCEPT ![r] = d] /\ Go(r, p) /\ UNCHANGED exit
        /\ UNCHANGED <<opt, tries, target, engineDir, code, word, checked>>
        /\ pc[r] = "admit" /\ Gates(opt[r]) = 0
    BY DEF Reserve, Continue, outcome
  <1>2. DiskGrows /\ AuditsKept /\ ~disk[d].made /\ disk'[d].made
    BY <1>1, NewCases, MakeGrows, MakeKeeps
  <1>3. LocalType' /\ own'[r] = d /\ \A q \in Runs \ {r} : own'[q] = own[q]
    BY <1>1 DEF IInv, StateType, LocalType, MaybeDir
  <1>4. OwnMade'
    BY <1>2, <1>3 DEF IInv, OwnMade, DiskGrows, Grows
  <1>5. \A q \in Runs : own[q] # d
    BY <1>2 DEF IInv, OwnMade
  <1>6. OwnApart'
    BY <1>3, <1>5 DEF IInv, OwnApart
  <1>7. Others(r)
    BY <1>1, <1>3 DEF Others
  <1>8. FitsPhase(r, p)
    BY <1>1, <1>3, NoExitYet DEF FitsPhase, FinishPhases
  <1>9. p \in Phases /\ pc' = [pc EXCEPT ![r] = p]
    BY <1>1 DEF Phases, Go
  <1> HIDE DEF p
  <1>10. QED
    BY <1>1, <1>2, <1>3, <1>4, <1>6, <1>7, <1>8, <1>9, StepKeeps

LEMMA EngineStartKeeps ==
  ASSUME IInv, NEW r \in Runs, NEW d \in Dirs, NEW rooted \in BOOLEAN,
         EngineStart(r, d, rooted)
  PROVE  IInv'
  <1>1. /\ MakeDir(r, d, [NoCase EXCEPT !.made = TRUE, !.audit = TRUE])
        /\ engineDir' = [engineDir EXCEPT ![r] = d]
        /\ Go(r, "engineRuns") /\ pc[r] = "engine"
        /\ UNCHANGED <<opt, tries, own, target, code, word, checked, exit>>
    BY DEF EngineStart, Continue, outcome
  <1>2. DiskGrows /\ AuditsKept
    BY <1>1, NewCases, MakeGrows, MakeKeeps
  <1>3. LocalType' /\ engineDir'[r] = d
    BY <1>1 DEF IInv, StateType, LocalType, MaybeDir
  <1>4. OwnMade' /\ OwnApart'
    BY <1>1, <1>2, OwnKept
  <1>5. Others(r)
    BY <1>1 DEF Others, IInv, StateType
  <1>6. exit[r] = None /\ checked[r] = None /\ exit[r] # 0
    BY <1>1, NoExitYet
  <1>7. FitsPhase(r, "engineRuns")
    BY <1>1, <1>3, <1>6 DEF FitsPhase, FinishPhases, IInv, Admitted
  <1>8. QED
    BY <1>1, <1>2, <1>3, <1>4, <1>5, <1>7, StepKeeps DEF Phases, Go

LEMMA CheckEngineKeeps ==
  ASSUME IInv, NEW r \in Runs, CheckEngine(r) PROVE IInv'
  <1> DEFINE v == Verify(disk[engineDir[r]])
             x == EngineExit(r, v)
  <1>1. /\ checked' = [checked EXCEPT ![r] = engineDir[r]]
        /\ Go(r, "done") /\ exit' = [exit EXCEPT ![r] = x]
        /\ pc[r] = "engineCheck"
        /\ UNCHANGED <<disk, opt, tries, own, target, engineDir, code, word>>
    BY DEF CheckEngine, Decide, End, root
  <1>2. DiskGrows /\ AuditsKept /\ OwnMade' /\ OwnApart'
    BY <1>1, SameGrows, SameKeeps, OwnKept
  <1>3. engineDir[r] \in Dirs
    BY <1>1 DEF IInv, WorksOnDirs, EngineAtWork
  <1>4. v \in {0, 1}
    BY DEF Verify
  <1>5. x \in {0, 1}
    BY <1>4 DEF EngineExit, IInv, StateType
  <1>6. LocalType'
    BY <1>1, <1>3, <1>5 DEF IInv, StateType, LocalType, MaybeDir, ExitCodes, Signalled
  <1>7. checked'[r] = engineDir[r] /\ exit'[r] = x
    BY <1>1 DEF IInv, StateType
  <1>8. Others(r)
    BY <1>1 DEF Others, IInv, StateType
  <1>9. FitsPhase(r, "done")
    BY DEF FitsPhase, FinishPhases
  <1>10. QED
    BY <1>1, <1>2, <1>6, <1>8, <1>9, StepKeeps DEF Phases, Go

LEMMA AgentExitsKeeps ==
  ASSUME IInv, NEW r \in Runs, NEW c \in {0, 1}, AgentExits(r, c) PROVE IInv'
  <1>1. /\ code' = [code EXCEPT ![r] = IF tries[r] = 1 \/ c = 0 THEN c ELSE code[r]]
        /\ Go(r, "locate") /\ pc[r] = "agent"
        /\ UNCHANGED <<disk, opt, tries, own, target, engineDir, word, checked, exit>>
    BY DEF AgentExits, Continue, root, outcome
  <1>2. DiskGrows /\ AuditsKept /\ OwnMade' /\ OwnApart'
    BY <1>1, SameGrows, SameKeeps, OwnKept
  <1>3. LocalType'
    BY <1>1 DEF IInv, StateType, LocalType
  <1>4. exit[r] = None /\ checked[r] = None /\ exit[r] # 0
    BY <1>1, NoExitYet
  <1>5. Others(r) /\ FitsPhase(r, "locate")
    BY <1>1, <1>4 DEF Others, FitsPhase, FinishPhases, IInv, Admitted
  <1>6. QED
    BY <1>1, <1>2, <1>3, <1>5, StepKeeps DEF Phases, Go

\* The directory a run turns to: another than its own, with no --run-dir,
\* only while its own has no audit log.
LEMMA RunDirChoice ==
  ASSUME IInv, NEW r \in Runs
  PROVE  /\ RunDir(r) \in MaybeDir
         /\ opt[r].explicit = None => RunDir(r) = own[r] \/ ~Mine(r).audit
  <1>1. opt[r].explicit \in MaybeDir
    BY InvestigateAssumption DEF IInv, StateType, MaybeDir, OptionType
  <1>2. Newest(r) \in MaybeDir
    BY DEF Newest, MaybeDir
  <1>3. own[r] \in MaybeDir /\ target[r] \in MaybeDir
    BY DEF IInv, StateType
  <1>4. QED
    BY <1>1, <1>2, <1>3 DEF RunDir

LEMMA LocateKeeps ==
  ASSUME IInv, NEW r \in Runs, Locate(r) PROVE IInv'
  <1> DEFINE d == RunDir(r)
             p == IF ContinuesSeal(r, d) THEN "agent"
                  ELSE IF opt[r].noVerify THEN "done"
                  ELSE IF d = None THEN "engine" ELSE "attest"
  <1>1. /\ target' = [target EXCEPT ![r] = d]
        /\ tries' = [tries EXCEPT ![r] = IF ContinuesSeal(r, d) THEN 2 ELSE tries[r]]
        /\ pc[r] = "locate"
        /\ UNCHANGED <<disk, opt, own, engineDir, code, word, checked>>
    BY DEF Locate, root, outcome
  <1>2. /\ Go(r, p)
        /\ \/ UNCHANGED exit
           \/ opt[r].noVerify /\ p = "done" /\ exit' = [exit EXCEPT ![r] = code[r]]
    BY DEF Locate, Continue, End, ContinuesSeal
  <1>3. p \in {"agent", "done", "engine", "attest"} /\ (p = "attest" => d # None)
    OBVIOUS
  <1>4. /\ d \in MaybeDir
        /\ opt[r].explicit = None => d = own[r] \/ ~disk[own[r]].audit
    BY RunDirChoice DEF Mine
  <1> HIDE DEF d, p
  <1>5. DiskGrows /\ AuditsKept /\ OwnMade' /\ OwnApart'
    BY <1>1, SameGrows, SameKeeps, OwnKept
  <1>6. LocalType'
    <2>1. tries' \in [Runs -> 0..2] /\ target' \in [Runs -> MaybeDir]
      BY <1>1, <1>4 DEF IInv, StateType
    <2>2. exit' \in [Runs -> ExitCodes \cup {None}]
      BY <1>2 DEF IInv, StateType, ExitCodes, Signalled
    <2>3. QED
      BY <1>1, <2>1, <2>2 DEF IInv, StateType, LocalType
  <1>7. exit[r] = None /\ checked[r] = None /\ exit[r] # 0
    BY <1>1, NoExitYet
  <1>8. Others(r)
    BY <1>1, <1>2 DEF Others, IInv, StateType
  <1>9. FitsPhase(r, p)
    <2>1. target'[r] = d
      BY <1>1 DEF IInv, StateType
    <2>2. p # "done" => UNCHANGED exit
      BY <1>2
    <2>3. Gates(opt[r]) = 0 /\ own[r] \in Dirs
      BY <1>1 DEF IInv, Admitted
    <2>4. QED
      BY <1>1, <1>3, <1>4, <1>7, <2>1, <2>2, <2>3 DEF FitsPhase, FinishPhases, MaybeDir
  <1>10. QED
    BY <1>1, <1>2, <1>3, <1>5, <1>6, <1>8, <1>9, StepKeeps DEF Phases, Go

LEMMA CheckKeeps ==
  ASSUME IInv, NEW r \in Runs, Check(r) PROVE IInv'
  <1>1. UNCHANGED disk /\ DiskGrows /\ AuditsKept
    BY SameGrows, SameKeeps DEF Check, root
  <1>2. CASE Verify(Target(r)) # 0
    <2>1. /\ Continue(r, "engine") /\ pc[r] = "check" /\ tries' = tries
          /\ UNCHANGED <<opt, own, target, engineDir, code, word, checked>>
      BY <1>2 DEF Check
    <2>2. tries' \in [Runs -> 0..2] /\ word \in [Runs -> Words]
      BY <2>1 DEF IInv, StateType
    <2>3. QED
      BY <1>1, <2>1, <2>2, GoingOnKeeps DEF Phases, FinishPhases
  <1>3. CASE Verify(Target(r)) = 0
    <2>1. /\ checked' = [checked EXCEPT ![r] = target[r]]
          /\ Go(r, "done") /\ exit' = [exit EXCEPT ![r] = code[r]]
          /\ pc[r] = "check"
          /\ UNCHANGED <<opt, tries, own, target, engineDir, code, word>>
      BY <1>3 DEF Check, Decide, End
    <2>2. OwnMade' /\ OwnApart'
      BY <1>1, <2>1, OwnKept
    <2>3. target[r] \in Dirs
      BY <2>1 DEF IInv, WorksOnDirs, Finishing
    <2>4. LocalType'
      BY <2>1, <2>3 DEF IInv, StateType, LocalType, MaybeDir, ExitCodes, Signalled
    <2>5. checked'[r] = target[r]
      BY <2>1 DEF IInv, StateType
    <2>6. Others(r)
      BY <2>1 DEF Others, IInv, StateType
    <2>7. FitsPhase(r, "done")
      BY DEF FitsPhase, FinishPhases
    <2>8. QED
      BY <1>1, <2>1, <2>2, <2>4, <2>6, <2>7, StepKeeps DEF Phases, Go
  <1>4. QED
    BY <1>2, <1>3

\* The other steps of a run: each refuses, fails, or goes on.
LEMMA PlainStepsKeep ==
  ASSUME IInv, NEW r \in Runs,
         \/ NoEvidence(r) \/ Refuse(r) \/ NoReservation(r)
         \/ EngineSucceeds(r) \/ EngineFails(r) \/ LaunchAgent(r)
         \/ LookForAttestation(r) \/ VerifierAnswers(r) \/ SkipAttest(r)
         \/ LookForReport(r) \/ Writing(r)
  PROVE  IInv'
  <1>0. /\ tries \in [Runs -> 0..2] /\ code \in [Runs -> {0, 1}]
        /\ word \in [Runs -> Words]
    BY DEF IInv, StateType
  <1>1. ASSUME NoEvidence(r) \/ Refuse(r) \/ NoReservation(r) PROVE IInv'
    <2>1. PICK c \in ExitCodes \ {0} :
            Go(r, "done") /\ exit' = [exit EXCEPT ![r] = c] /\ UNCHANGED <<root, locals>>
      BY <1>1 DEF NoEvidence, Refuse, NoReservation, End, Gates, ExitCodes, Signalled
    <2>2. QED
      BY <2>1, FailureKeeps
  <1>2. ASSUME EngineFails(r), Primary(r) PROVE IInv'
    <2>1. /\ Continue(r, "launch") /\ pc[r] \in {"engine", "engineRuns"}
          /\ UNCHANGED <<root, locals>>
      BY <1>2 DEF EngineFails
    <2>2. DiskGrows /\ AuditsKept
      BY <2>1, SameGrows, SameKeeps DEF root
    <2>3. QED
      BY <1>0, <2>1, <2>2, GoingOnKeeps DEF Phases, FinishPhases, locals, outcome
  <1>3. ASSUME EngineFails(r), ~Primary(r) PROVE IInv'
    <2>1. PICK c \in ExitCodes \ {0} :
            Go(r, "done") /\ exit' = [exit EXCEPT ![r] = c] /\ UNCHANGED <<root, locals>>
      BY <1>0, <1>3 DEF EngineFails, End, ExitCodes, Signalled
    <2>2. QED
      BY <2>1, FailureKeeps
  <1>4. ASSUME EngineSucceeds(r) PROVE IInv'
    <2>1. /\ Continue(r, "engineRecord") /\ EngineAtWork(r) /\ pc[r] = "engineRuns"
          /\ UNCHANGED <<root, locals>>
      BY <1>4 DEF EngineSucceeds, EngineAtWork
    <2>2. DiskGrows /\ AuditsKept
      BY <2>1, SameGrows, SameKeeps DEF root
    <2>3. QED
      BY <1>0, <2>1, <2>2, GoingOnKeeps DEF Phases, FinishPhases, locals, outcome
  <1>5. ASSUME LaunchAgent(r) PROVE IInv'
    <2>1. /\ Continue(r, "agent") /\ pc[r] = "launch"
          /\ tries' = [tries EXCEPT ![r] = 1]
          /\ UNCHANGED <<disk, opt, own, target, engineDir, code, word, checked>>
      BY <1>5 DEF LaunchAgent, outcome
    <2>2. DiskGrows /\ AuditsKept
      BY <2>1, SameGrows, SameKeeps
    <2>3. tries' \in [Runs -> 0..2]
      BY <1>0, <2>1
    <2>4. QED
      BY <1>0, <2>1, <2>2, <2>3, GoingOnKeeps DEF Phases, FinishPhases
  <1>6. ASSUME LookForAttestation(r) \/ SkipAttest(r) \/ LookForReport(r) PROVE IInv'
    <2>1. PICK p \in {"verifier", "report", "reportWrite", "record"} : Continue(r, p)
      BY <1>6 DEF LookForAttestation, SkipAttest, LookForReport
    <2>2. Finishing(r) /\ UNCHANGED <<root, locals>>
      BY <1>6 DEF LookForAttestation, SkipAttest, LookForReport, Finishing
    <2>3. DiskGrows /\ AuditsKept
      BY <2>2, SameGrows, SameKeeps DEF root
    <2>4. QED
      BY <1>0, <2>1, <2>2, <2>3, GoingOnKeeps
         DEF Phases, FinishPhases, Finishing, locals, outcome
  <1>7. ASSUME VerifierAnswers(r) PROVE IInv'
    <2>1. /\ Continue(r, "attestWrite") /\ pc[r] = "verifier" /\ Finishing(r)
          /\ word' = [word EXCEPT ![r] = Verifier(Target(r).manifest)]
          /\ UNCHANGED <<root, opt, tries, own, target, engineDir, code, checked>>
      BY <1>7 DEF VerifierAnswers, Finishing
    <2>2. Verifier(Target(r).manifest) \in {"fail", "pass"}
      BY DEF Verifier
    <2>3. /\ word' \in [Runs -> Words] /\ word'[r] # "none"
          /\ \A q \in Runs \ {r} : word'[q] = word[q]
      BY <1>0, <2>1, <2>2 DEF Words
    <2>4. DiskGrows /\ AuditsKept
      BY <2>1, SameGrows, SameKeeps DEF root
    <2>5. QED
      BY <1>0, <2>1, <2>3, <2>4, GoingOnKeeps DEF Phases, FinishPhases
  <1>8. ASSUME Writing(r) PROVE IInv'
    <2>1. DiskGrows /\ AuditsKept
      BY <1>8, WritingGrows
    <2>2. PICK p \in {"engineCheck", "report", "record", "check"} :
            /\ Continue(r, p) /\ UNCHANGED locals
            /\ pc[r] \in {"engineRecord", "attestWrite", "reportWrite", "record"}
            /\ p = "engineCheck" <=> pc[r] = "engineRecord"
      BY <1>8 DEF Writing, RecordEngine, Attest, Report, Record
    <2>3. QED
      BY <1>0, <2>1, <2>2, GoingOnKeeps
         DEF Phases, locals, outcome, Finishing, FinishPhases, EngineAtWork
  <1>9. QED
    BY <1>1, <1>2, <1>3, <1>4, <1>5, <1>6, <1>7, <1>8

LEMMA WritersKeep ==
  ASSUME IInv, NEW r \in Runs, AgentStep(r) \/ EngineStep(r) PROVE IInv'
  <1>1. DiskGrows /\ AuditsKept /\ UNCHANGED <<locals, pc, exit>>
    BY WritersGrow
  <1>2. OwnMade' /\ OwnApart'
    BY <1>1, OwnKept DEF locals
  <1>3. pc' = [pc EXCEPT ![r] = pc[r]] /\ pc[r] \in Phases
    BY <1>1 DEF IInv, StateType
  <1>4. LocalType' /\ Others(r)
    BY <1>1 DEF IInv, StateType, LocalType, Others, locals, outcome
  <1>5. FitsPhase(r, pc[r])
    <2>1. pc[r] \notin {"admit", "done"} => Gates(opt[r]) = 0 /\ own[r] \in Dirs
      BY DEF IInv, Admitted
    <2>2. pc[r] \notin {"orphan", "done"} => exit[r] = None /\ checked[r] = None
      BY DEF IInv, Unfinished
    <2>3. EngineAtWork(r) => engineDir[r] \in Dirs
      BY DEF IInv, WorksOnDirs
    <2>4. Finishing(r) => /\ target[r] \in Dirs
                          /\ opt[r].explicit = None =>
                               target[r] = own[r] \/ ~disk'[own[r]].audit
      BY <1>1 DEF IInv, WorksOnDirs, OwnCaseFirst, AuditsKept, Finishing, Mine
    <2>5. pc[r] = "attestWrite" => word[r] # "none"
      BY DEF IInv, WorksOnDirs
    <2>6. QED
      BY <1>1, <2>1, <2>2, <2>3, <2>4, <2>5
         DEF FitsPhase, FinishPhases, EngineAtWork, Finishing, locals, outcome
  <1>6. QED
    BY <1>1, <1>2, <1>3, <1>4, <1>5, StepKeeps DEF locals

LEMMA KilledKeeps ==
  ASSUME IInv, NEW r \in Runs, Killed(r) PROVE IInv'
  <1>1. PICK p \in {"done"} \cup {x \in {"orphan"} : pc[r] = "agent"} : Go(r, p)
    BY DEF Killed
  <1>2. exit' = [exit EXCEPT ![r] = Signalled] /\ UNCHANGED <<root, locals>>
    BY DEF Killed
  <1>3. Signalled \in ExitCodes \ {0}
    BY DEF Signalled, ExitCodes
  <1>4. QED
    BY <1>1, <1>2, <1>3, FailureKeeps

-----------------------------------------------------------------------------
LEMMA InitInv == ASSUME Init PROVE IInv
  <1>0. disk \in [Dirs -> EarlierCases]
    BY DEF Init
  <1>a. ASSUME NEW c \in EarlierCases PROVE c \in Cases /\ (c.audit => c.made)
    <2>1. NoCase \in Cases /\ ~NoCase.audit
      BY DEF NoCase, Cases, Reports, Tri
    <2>2. [NoCase EXCEPT !.made = TRUE, !.audit = TRUE, !.manifest = "good"] \in Cases
      BY <2>1 DEF Cases
    <2>3. [NoCase EXCEPT !.made = TRUE, !.audit = TRUE, !.manifest = "good"].made
      BY <2>1 DEF Cases
    <2>4. [NoCase EXCEPT !.made = TRUE].made
      BY <2>1 DEF Cases
    <2>5. QED
      BY <2>1, <2>2, <2>3, <2>4, NewCases DEF EarlierCases
  <1>1. StateType
    <2>1. disk \in [Dirs -> Cases]
      BY <1>0, <1>a
    <2>2. QED
      BY <2>1 DEF Init, StateType, Phases, MaybeDir, ExitCodes, Words
  <1>2. AuditsInside
    BY <1>0, <1>a DEF AuditsInside
  <1>3. Admitted /\ Unfinished /\ WorksOnDirs /\ OwnCaseFirst
    BY DEF Init, Admitted, Unfinished, WorksOnDirs, OwnCaseFirst, EngineAtWork, Finishing
  <1>4. OwnMade /\ OwnApart
    BY InvestigateAssumption DEF Init, OwnMade, OwnApart
  <1>5. QED
    BY <1>1, <1>2, <1>3, <1>4 DEF IInv

LEMMA NextInv == ASSUME IInv, [Next]_vars PROVE IInv'
  <1>1. CASE UNCHANGED vars
    BY <1>1 DEF vars, root, locals, IInv, StateType, AuditsInside, Admitted, OwnMade,
                OwnApart, Unfinished, WorksOnDirs, EngineAtWork, Finishing,
                OwnCaseFirst, Mine, outcome
  <1>2. ASSUME NEW r \in Runs, RunStep(r) PROVE IInv'
    BY <1>2, ReserveKeeps, EngineStartKeeps, CheckEngineKeeps, AgentExitsKeeps,
       LocateKeeps, CheckKeeps, PlainStepsKeep DEF RunStep, Writing
  <1>3. QED
    BY <1>1, <1>2, WritersKeep, KilledKeeps DEF Next

THEOREM StructureInvariant == Spec => []IInv
  <1>1. Init => IInv
    BY InitInv
  <1>2. IInv /\ [Next]_vars => IInv'
    BY NextInv
  <1>3. QED
    BY <1>1, <1>2, PTL DEF Spec

-----------------------------------------------------------------------------
(* The cases root: who created what, in which order it was touched.        *)

\* No entry twice.
Once(s) == \A i, j \in DOMAIN s : s[i] = s[j] => i = j

\* RemoveFirst takes the one occurrence out and keeps the rest.
LEMMA Removed ==
  ASSUME NEW S, NEW s \in Seq(S), Once(s), NEW d \in S
  PROVE  /\ RemoveFirst(s, d) \in Seq(S) /\ Once(RemoveFirst(s, d))
         /\ \A i \in DOMAIN RemoveFirst(s, d) : RemoveFirst(s, d)[i] # d
  <1>0. DOMAIN s = 1..Len(s) /\ Len(s) \in Nat /\ \A i \in 1..Len(s) : s[i] \in S
    OBVIOUS
  <1>1. CASE ~ \E i \in 1..Len(s) : s[i] = d
    BY <1>0, <1>1 DEF RemoveFirst
  <1>2. ASSUME NEW i \in 1..Len(s), s[i] = d
        PROVE  /\ RemoveFirst(s, d) \in Seq(S) /\ Once(RemoveFirst(s, d))
               /\ \A k \in DOMAIN RemoveFirst(s, d) : RemoveFirst(s, d)[k] # d
    <2> DEFINE a == SubSeq(s, 1, i - 1)
               b == SubSeq(s, i + 1, Len(s))
               t == a \o b
    <2>1. RemoveFirst(s, d) = t
      <3>1. {k \in 1..Len(s) : s[k] = d} = {i}
        BY <1>0, <1>2 DEF Once
      <3>2. (CHOOSE x \in {i} : \A y \in {i} : x <= y) = i
        OBVIOUS
      <3>3. SelectInSeq(s, LAMBDA v : v = d) = i
        BY <3>1, <3>2 DEF SelectInSeq, Min
      <3>4. QED
        BY <1>2, <3>3 DEF RemoveFirst, RemoveAt
    <2>2. /\ a \in Seq(S) /\ Len(a) = i - 1
          /\ \A k \in 1..(i - 1) : a[k] = s[k]
      <3>1. 1 \in Int /\ i - 1 \in Int /\ \A k \in 1..(i - 1) : s[k] \in S
        BY <1>0
      <3>2. QED
        BY <3>1, SubSeqProperties
    <2>3. /\ b \in Seq(S) /\ Len(b) = Len(s) - i
          /\ \A k \in 1..(Len(s) - i) : b[k] = s[i + k]
      <3>1. i + 1 \in Int /\ Len(s) \in Int /\ \A k \in (i + 1)..Len(s) : s[k] \in S
        BY <1>0
      <3>2. /\ b \in Seq(S) /\ Len(b) = IF i + 1 <= Len(s) THEN Len(s) - (i + 1) + 1 ELSE 0
            /\ \A k \in 1..(Len(s) - (i + 1) + 1) : b[k] = s[(i + 1) + k - 1]
        BY <3>1, SubSeqProperties
      <3>3. \A k \in Nat : (i + 1) + k - 1 = i + k
        OBVIOUS
      <3>4. Len(s) - (i + 1) + 1 = Len(s) - i /\ \A k \in 1..(Len(s) - i) : k \in Nat
        BY <1>0
      <3>5. ASSUME NEW k \in 1..(Len(s) - i) PROVE b[k] = s[i + k]
        <4>1. b[k] = s[(i + 1) + k - 1] /\ k \in Nat
          BY <3>2, <3>4
        <4>2. QED
          BY <3>3, <4>1
      <3>6. Len(b) = Len(s) - i
        <4>1. Len(b) = IF i + 1 <= Len(s) THEN Len(s) - (i + 1) + 1 ELSE 0
          BY <3>2
        <4>2. \A n \in Nat : \A k \in 1..n :
                (IF k + 1 <= n THEN n - (k + 1) + 1 ELSE 0) = n - k
          OBVIOUS
        <4>3. (IF i + 1 <= Len(s) THEN Len(s) - (i + 1) + 1 ELSE 0) = Len(s) - i
          BY <1>0, <4>2, Zenon
        <4>4. QED
          BY <4>1, <4>3
      <3>7. QED
        BY <3>2, <3>5, <3>6
    <2> HIDE DEF a, b
    <2>4. /\ t \in Seq(S) /\ Len(t) = Len(s) - 1 /\ DOMAIN t = 1..(Len(s) - 1)
          /\ \A k \in 1..(Len(s) - 1) : t[k] = IF k < i THEN s[k] ELSE s[k + 1]
      <3>1. /\ t \in Seq(S) /\ Len(t) = Len(a) + Len(b)
            /\ \A k \in 1..(Len(a) + Len(b)) :
                 t[k] = IF k <= Len(a) THEN a[k] ELSE b[k - Len(a)]
        BY <2>2, <2>3, ConcatProperties
      <3>2. Len(a) + Len(b) = Len(s) - 1
        BY <1>0, <2>2, <2>3
      <3>3. ASSUME NEW k \in 1..(Len(s) - 1)
            PROVE  t[k] = IF k < i THEN s[k] ELSE s[k + 1]
        <4>1. CASE k < i
          BY <4>1, <2>2, <3>1, <3>2
        <4>2. CASE ~ (k < i)
          <5>1. k - (i - 1) \in 1..(Len(s) - i) /\ i + (k - (i - 1)) = k + 1
            BY <1>0, <4>2
          <5>2. b[k - (i - 1)] = s[k + 1]
            BY <2>3, <5>1
          <5>3. QED
            BY <4>2, <5>2, <2>2, <3>1, <3>2
        <4>3. QED
          BY <4>1, <4>2
      <3>4. QED
        BY <3>1, <3>2, <3>3
    <2> HIDE DEF t
    <2>5. ASSUME NEW k \in 1..(Len(s) - 1)
          PROVE  \E m \in 1..Len(s) : /\ m = (IF k < i THEN k ELSE k + 1)
                                      /\ m # i /\ t[k] = s[m]
      BY <1>0, <2>4
    <2>6. \A k \in 1..(Len(s) - 1) : t[k] # d
      BY <1>0, <1>2, <2>5 DEF Once
    <2>7. Once(t)
      <3>1. ASSUME NEW k \in 1..(Len(s) - 1), NEW l \in 1..(Len(s) - 1), t[k] = t[l]
            PROVE  k = l
        <4>1. (IF k < i THEN k ELSE k + 1) = (IF l < i THEN l ELSE l + 1)
          BY <1>0, <2>5, <3>1 DEF Once
        <4>2. QED
          BY <4>1
      <3>2. QED
        BY <2>4, <3>1 DEF Once
    <2>8. QED
      BY <2>1, <2>4, <2>6, <2>7
  <1>3. QED
    BY <1>1, <1>2

RootType ==
  /\ maker \in [Dirs -> Runs \cup {None}]
  /\ recent \in Seq(Dirs)
  /\ fresh \in [Runs -> SUBSET Dirs]
  /\ Once(recent)

LEMMA RootUntouched ==
  ASSUME RootType, UNCHANGED <<maker, recent, fresh>> PROVE RootType'
  BY DEF RootType, Once

LEMMA TouchType ==
  ASSUME RootType, NEW d \in Dirs, Touch(d)
  PROVE  /\ recent' \in Seq(Dirs) /\ Once(recent')
         /\ fresh' \in [Runs -> SUBSET Dirs]
  <1> DEFINE t == RemoveFirst(recent, d)
  <1>1. /\ t \in Seq(Dirs) /\ Once(t)
        /\ \A i \in DOMAIN t : t[i] # d
    BY Removed DEF RootType
  <1>2. recent' = Append(t, d) /\ fresh' = [r \in Runs |-> fresh[r] \cup {d}]
    BY DEF Touch
  <1> HIDE DEF t
  <1>3. /\ recent' \in Seq(Dirs) /\ DOMAIN recent' = 1..(Len(t) + 1)
        /\ Len(t) \in Nat /\ DOMAIN t = 1..Len(t)
        /\ recent'[Len(t) + 1] = d /\ \A i \in 1..Len(t) : recent'[i] = t[i]
    BY <1>1, <1>2
  <1>4. Once(recent')
    <2>1. ASSUME NEW i \in 1..(Len(t) + 1), NEW j \in 1..(Len(t) + 1),
                 recent'[i] = recent'[j]
          PROVE  i = j
      <3>1. CASE i \in 1..Len(t) /\ j \in 1..Len(t)
        BY <1>1, <1>3, <2>1, <3>1 DEF Once
      <3>2. CASE i = Len(t) + 1 \/ j = Len(t) + 1
        <4>1. \A k \in 1..Len(t) : recent'[k] # d
          BY <1>1, <1>3
        <4>2. \A k \in 1..(Len(t) + 1) : k \in 1..Len(t) \/ k = Len(t) + 1
          BY <1>3
        <4>3. QED
          BY <1>3, <2>1, <3>2, <4>1, <4>2
      <3>3. QED
        BY <1>3, <3>1, <3>2
    <2>2. QED
      BY <1>3, <2>1 DEF Once
  <1>5. fresh' \in [Runs -> SUBSET Dirs]
    BY <1>2 DEF RootType
  <1>6. QED
    BY <1>3, <1>4, <1>5

LEMMA CreateType ==
  ASSUME RootType, NEW d \in Dirs, NEW c, Create(d, c) PROVE RootType'
  BY TouchType DEF Create, RootType

LEMMA StoreType ==
  ASSUME RootType, NEW new, NEW d \in Dirs, NEW c, Store(new, d, c) PROVE RootType'
  BY CreateType, RootUntouched DEF Store, Overwrite

LEMMA MakeType ==
  ASSUME RootType, NEW r \in Runs, NEW d \in Dirs, NEW c, MakeDir(r, d, c),
         Touch(d) \/ UNCHANGED <<recent, fresh>>
  PROVE  RootType'
  <1>1. maker' \in [Dirs -> Runs \cup {None}]
    BY DEF MakeDir, RootType
  <1>2. CASE Touch(d)
    BY <1>1, <1>2, TouchType DEF RootType
  <1>3. CASE UNCHANGED <<recent, fresh>>
    BY <1>1, <1>3 DEF RootType
  <1>4. QED
    BY <1>2, <1>3

LEMMA WritersRoot ==
  ASSUME IInv, RootType, NEW r \in Runs, AgentStep(r) \/ EngineStep(r)
  PROVE  RootType'
  <1>1. AgentRuns(r) => own[r] \in Dirs
    BY DEF IInv, Admitted, AgentRuns
  <1>2. pc[r] = "engineRuns" => engineDir[r] \in Dirs
    BY DEF IInv, WorksOnDirs, EngineAtWork
  <1>3. ASSUME NEW d \in Dirs, AgentOpens(r, d) PROVE RootType'
    BY <1>3, MakeType DEF AgentOpens
  <1>4. CASE AgentAudits(r)
    BY <1>1, <1>4, CreateType DEF AgentAudits
  <1>5. CASE AgentClaims(r)
    BY <1>5, RootUntouched DEF AgentClaims, Overwrite
  <1>6. ASSUME NEW m \in {"bad", "good"}, AgentSeals(r, m) PROVE RootType'
    BY <1>1, <1>6, StoreType DEF AgentSeals
  <1>7. ASSUME NEW v \in Results, RuntimeResult(r, v) PROVE RootType'
    BY <1>1, <1>7, CreateType DEF RuntimeResult
  <1>8. ASSUME NEW m \in {"bad", "good"}, EngineSeals(r, m) PROVE RootType'
    BY <1>2, <1>8, StoreType DEF EngineSeals
  <1>9. ASSUME NEW rep \in {"ok", "failed"}, EngineReports(r, rep) PROVE RootType'
    BY <1>2, <1>9, StoreType DEF EngineReports
  <1>10. QED
    BY <1>3, <1>4, <1>5, <1>6, <1>7, <1>8, <1>9 DEF AgentStep, EngineStep

LEMMA WritingRoot ==
  ASSUME IInv, RootType, NEW r \in Runs, Writing(r) PROVE RootType'
  <1>1. Finishing(r) => target[r] \in Dirs
    BY DEF IInv, WorksOnDirs
  <1>2. EngineAtWork(r) => engineDir[r] \in Dirs
    BY DEF IInv, WorksOnDirs
  <1>3. CASE RecordEngine(r)
    BY <1>2, <1>3, StoreType DEF RecordEngine, WriteRecord, EngineAtWork
  <1>4. CASE Attest(r)
    BY <1>1, <1>4, StoreType DEF Attest, Finishing
  <1>5. CASE Record(r)
    BY <1>1, <1>5, StoreType, RootUntouched DEF Record, WriteRecord, Finishing, root
  <1>6. ASSUME NEW rep \in {"ok", "failed"}, Report(r, rep) PROVE RootType'
    BY <1>1, <1>6, StoreType, RootUntouched DEF Report, Finishing, root
  <1>7. QED
    BY <1>3, <1>4, <1>5, <1>6 DEF Writing

LEMMA RunStepRoot ==
  ASSUME IInv, RootType, NEW r \in Runs, RunStep(r) PROVE RootType'
  <1>1. ASSUME NEW d \in Dirs, Reserve(r, d) PROVE RootType'
    BY <1>1, MakeType DEF Reserve
  <1>2. ASSUME NEW d \in Dirs, NEW rooted \in BOOLEAN, EngineStart(r, d, rooted)
        PROVE  RootType'
    BY <1>2, MakeType DEF EngineStart
  <1>3. CASE LaunchAgent(r)
    <2>1. PICK i \in 1..(Len(recent) + 1) :
            fresh' = [fresh EXCEPT ![r] = {recent[j] : j \in i..Len(recent)}]
      BY <1>3 DEF LaunchAgent
    <2>2. {recent[j] : j \in i..Len(recent)} \subseteq Dirs
      BY DEF RootType
    <2>3. fresh' \in [Runs -> SUBSET Dirs]
      BY <2>1, <2>2 DEF RootType
    <2>4. QED
      BY <1>3, <2>3 DEF LaunchAgent, RootType, Once
  <1>4. CASE Writing(r)
    BY <1>4, WritingRoot
  <1>5. CASE \/ NoEvidence(r) \/ Refuse(r) \/ NoReservation(r)
             \/ EngineSucceeds(r) \/ EngineFails(r) \/ CheckEngine(r)
             \/ (\E c \in {0, 1} : AgentExits(r, c))
             \/ Locate(r) \/ LookForAttestation(r) \/ VerifierAnswers(r)
             \/ SkipAttest(r) \/ LookForReport(r) \/ Check(r)
    <2>1. UNCHANGED root
      BY <1>5 DEF NoEvidence, Refuse, NoReservation, EngineSucceeds, EngineFails,
                  CheckEngine, AgentExits, Locate, LookForAttestation,
                  VerifierAnswers, SkipAttest, LookForReport, Check
    <2>2. QED
      BY <2>1, RootUntouched DEF root
  <1>6. QED
    BY <1>1, <1>2, <1>3, <1>4, <1>5 DEF RunStep, Writing

LEMMA RootStep == ASSUME IInv, RootType, [Next]_vars PROVE RootType'
  <1>1. CASE UNCHANGED vars
    BY <1>1, RootUntouched DEF vars, root
  <1>2. ASSUME NEW r \in Runs, Killed(r) PROVE RootType'
    BY <1>2, RootUntouched DEF Killed, root
  <1>3. QED
    BY <1>1, <1>2, RunStepRoot, WritersRoot DEF Next

\* The outcome of a run changes when its verifier answers and when its exit
\* code is decided.
LEMMA RivalsType ==
  ASSUME rivals \in [Runs -> SUBSET Runs], [Next]_vars
  PROVE  rivals' \in [Runs -> SUBSET Runs]
  <1>1. CASE UNCHANGED rivals
    BY <1>1
  <1>2. ASSUME NEW r \in Runs, NEW d, NEW c, Decide(r, d, c)
        PROVE  rivals' \in [Runs -> SUBSET Runs]
    <2>1. Rivals(d) \subseteq Runs
      BY DEF Rivals
    <2>2. QED
      BY <1>2, <2>1 DEF Decide
  <1>3. ASSUME NEW r \in Runs, RunStep(r)
        PROVE  UNCHANGED rivals \/ \E d, c : Decide(r, d, c)
    BY <1>3 DEF RunStep, NoEvidence, Refuse, NoReservation, Reserve, EngineStart,
       EngineSucceeds, EngineFails, RecordEngine, CheckEngine, LaunchAgent, AgentExits,
       Locate, LookForAttestation, VerifierAnswers, Attest, SkipAttest, LookForReport,
       Report, Record, Check, locals, outcome
  <1>4. ASSUME NEW r \in Runs, AgentStep(r) \/ EngineStep(r) \/ Killed(r)
        PROVE  UNCHANGED rivals
    BY <1>4 DEF AgentStep, AgentOpens, AgentAudits, AgentSeals, AgentClaims,
       RuntimeResult, EngineStep, EngineSeals, EngineReports, Killed, locals, outcome
  <1>5. QED
    BY <1>1, <1>2, <1>3, <1>4 DEF Next, vars, locals, outcome

\* Every variable keeps its type, for any number of runs, and the cases root
\* never lists a directory twice (findNewestCaseDir picks among distinct ones).
THEOREM TypeCorrect == Spec => [](TypeOK /\ Once(recent))
  <1> DEFINE RT == RootType /\ rivals \in [Runs -> SUBSET Runs]
  <1>1. Init => RT
    BY DEF Init, RootType, Once
  <1>2. IInv /\ RT /\ [Next]_vars => RT'
    BY RootStep, RivalsType
  <1>3. IInv /\ RT => TypeOK /\ Once(recent)
    BY DEF IInv, StateType, RootType, TypeOK, Words
  <1>4. QED
    BY <1>1, <1>2, <1>3, StructureInvariant, PTL DEF Spec

-----------------------------------------------------------------------------
\* A run never finishes another directory than its reserved one while that
\* one has an audit log.
THEOREM OwnCaseFirstAlways == Spec => []OwnCaseFirst
  <1>1. IInv => OwnCaseFirst
    BY DEF IInv
  <1>2. QED
    BY <1>1, StructureInvariant, PTL

\* The gates let a cloud route through only with the operator's consent, for
\* every table of routes and every policy default.
LEMMA GatesAskConsent ==
  ASSUME NEW o \in OptionType, Gates(o) = 0, ChooseRoute(o) \in Cloud
  PROVE  o.mode = "cloud-ok" /\ o.class # "sensitive" /\ o.ack
  <1>1. /\ DecideModel(ChooseRoute(o), o.mode, o.class)
        /\ CloudAckGate(ChooseRoute(o), o.ack)
    BY DEF Gates
  <1>2. QED
    BY <1>1 DEF DecideModel, CloudAckGate, OpenClasses

\* No agent of any run is on a cloud model without that consent.
THEOREM EgressNeedsConsentAlways == Spec => []EgressNeedsConsent
  <1>1. IInv => EgressNeedsConsent
    BY GatesAskConsent, InvestigateAssumption
       DEF IInv, Admitted, StateType, EgressNeedsConsent, AgentRuns, Route
  <1>2. QED
    BY <1>1, StructureInvariant, PTL

-----------------------------------------------------------------------------
(* The engine's record, in a cases root with one run at a time.  (With     *)
(* more, another run may take the engine's directory for its newest one    *)
(* and record it as its own.)                                              *)

OneRun == \A r, q \in Runs : r = q

\* While the engine runs and is recorded nothing says its directory is an
\* agent's: only a runtime writes that, and only to a reserved directory of a
\* run whose agent is at work.
EngineUntold(r) ==
  /\ pc[r] \in {"engineRuns", "engineRecord"} => disk[engineDir[r]].result = "unknown"
  /\ pc[r] = "engineCheck" => disk[engineDir[r]].record = "yes"

\* Exit code 0 is the end, of the run and of its agent.
ZeroIsEnd(r) == exit[r] = 0 => pc[r] = "done"

FallbackInv ==
  /\ \A r \in Runs : EngineUntold(r) /\ ZeroIsEnd(r)
  /\ FallbackIsRecorded

LEMMA FallbackInit == Init => FallbackInv
  BY InvestigateAssumption
     DEF Init, FallbackInv, EngineUntold, ZeroIsEnd, FallbackIsRecorded

\* A run that neither is with the engine nor exits 0 makes no promise.
LEMMA NoPromise ==
  ASSUME OneRun, NEW r \in Runs, exit'[r] # 0,
         pc'[r] \notin {"engineRuns", "engineRecord", "engineCheck"}
  PROVE  FallbackInv'
  BY DEF OneRun, FallbackInv, EngineUntold, ZeroIsEnd, FallbackIsRecorded

\* Steps that go on, and steps that fail, outside the engine's phases.
LEMMA PlainStepsPromiseNothing ==
  ASSUME IInv, OneRun, NEW r \in Runs,
         \/ NoEvidence(r) \/ Refuse(r) \/ NoReservation(r)
         \/ \E d \in Dirs : Reserve(r, d)
         \/ EngineFails(r) \/ LaunchAgent(r)
         \/ \E c \in {0, 1} : AgentExits(r, c)
         \/ LookForAttestation(r) \/ VerifierAnswers(r) \/ Attest(r)
         \/ SkipAttest(r) \/ LookForReport(r) \/ Record(r)
         \/ \E rep \in {"ok", "failed"} : Report(r, rep)
  PROVE  FallbackInv'
  <1>0. /\ pc \in [Runs -> Phases] /\ exit \in [Runs -> ExitCodes \cup {None}]
        /\ code \in [Runs -> {0, 1}] /\ None # 0
        /\ pc[r] \notin {"orphan", "done"} => exit[r] = None
    BY InvestigateAssumption DEF IInv, StateType, Unfinished
  <1>1. ASSUME NEW p \in Phases, Continue(r, p), pc[r] \notin {"orphan", "done"},
               p \notin {"engineRuns", "engineRecord", "engineCheck"}
        PROVE  FallbackInv'
    <2>1. pc'[r] = p /\ exit'[r] # 0
      BY <1>0, <1>1 DEF Continue, Go
    <2>2. QED
      BY <1>1, <2>1, NoPromise
  <1>2. ASSUME NEW c \in ExitCodes \ {0}, End(r, c) PROVE FallbackInv'
    <2>1. pc'[r] = "done" /\ exit'[r] = c
      BY <1>0, <1>2 DEF End, Go
    <2>2. QED
      BY <2>1, NoPromise
  <1>3. CASE NoEvidence(r) \/ Refuse(r) \/ NoReservation(r)
    <2>1. \E c \in ExitCodes \ {0} : End(r, c)
      BY <1>3 DEF NoEvidence, Refuse, NoReservation, Gates, ExitCodes, Signalled
    <2>2. QED
      BY <2>1, <1>2
  <1>4. CASE \E d \in Dirs : Reserve(r, d)
    BY <1>1, <1>4 DEF Reserve, Phases
  <1>5. CASE EngineFails(r)
    <2>1. CASE Primary(r)
      BY <1>1, <1>5, <2>1 DEF EngineFails, Phases
    <2>2. CASE ~Primary(r)
      <3>1. \E c \in ExitCodes \ {0} : End(r, c)
        BY <1>0, <1>5, <2>2 DEF EngineFails, ExitCodes, Signalled
      <3>2. QED
        BY <3>1, <1>2
    <2>3. QED
      BY <2>1, <2>2
  <1>6. CASE LaunchAgent(r) \/ \E c \in {0, 1} : AgentExits(r, c)
    BY <1>1, <1>6 DEF LaunchAgent, AgentExits, Phases
  <1>7. CASE \/ LookForAttestation(r) \/ VerifierAnswers(r) \/ Attest(r)
             \/ SkipAttest(r) \/ LookForReport(r) \/ Record(r)
    BY <1>1, <1>7 DEF LookForAttestation, VerifierAnswers, Attest, SkipAttest,
                      LookForReport, Record, Phases
  <1>8. CASE \E rep \in {"ok", "failed"} : Report(r, rep)
    BY <1>1, <1>8 DEF Report, Phases
  <1>9. QED
    BY <1>3, <1>4, <1>5, <1>6, <1>7, <1>8

\* Where the run is located and checked, its own directory is the target.
LEMMA LocatingIsAboutTarget ==
  ASSUME IInv, OneRun, NEW r \in Runs, Locate(r) \/ Check(r) PROVE FallbackInv'
  <1>0. /\ pc \in [Runs -> Phases] /\ exit \in [Runs -> ExitCodes \cup {None}]
        /\ checked \in [Runs -> MaybeDir] /\ target \in [Runs -> MaybeDir] /\ None # 0
        /\ pc[r] \notin {"orphan", "done"} => exit[r] = None /\ checked[r] = None
    BY InvestigateAssumption DEF IInv, StateType, Unfinished
  <1>1. pc'[r] \notin {"engineRuns", "engineRecord", "engineCheck"}
    BY <1>0 DEF Locate, Check, Decide, Continue, End, Go
  <1>2. exit'[r] = 0 => pc'[r] = "done"
    BY <1>0 DEF Locate, Check, Decide, Continue, End, Go
  <1>3. CASE Locate(r)
    <2>1. checked'[r] = None
      BY <1>0, <1>3 DEF Locate, outcome
    <2>2. QED
      BY <1>1, <1>2, <2>1
         DEF OneRun, FallbackInv, EngineUntold, ZeroIsEnd, FallbackIsRecorded
  <1>4. CASE Check(r)
    <2>1. checked'[r] \in {None, target'[r]}
      BY <1>0, <1>4 DEF Check, Decide
    <2>2. QED
      BY <1>1, <1>2, <2>1
         DEF OneRun, FallbackInv, EngineUntold, ZeroIsEnd, FallbackIsRecorded
  <1>5. QED
    BY <1>3, <1>4

\* The engine's own steps: its directory is new and nothing is said in it; it
\* is recorded as a fallback before it is checked.
LEMMA EngineIsRecorded ==
  ASSUME IInv, FallbackInv, OneRun, NEW r \in Runs,
         \/ \E d \in Dirs, rooted \in BOOLEAN : EngineStart(r, d, rooted)
         \/ EngineStep(r) \/ EngineSucceeds(r) \/ RecordEngine(r) \/ CheckEngine(r)
  PROVE  FallbackInv'
  <1> DEFINE e == engineDir[r]
  <1>0. /\ pc \in [Runs -> Phases] /\ exit \in [Runs -> ExitCodes \cup {None}]
        /\ checked \in [Runs -> MaybeDir] /\ engineDir \in [Runs -> MaybeDir]
        /\ disk \in [Dirs -> Cases] /\ None # 0
        /\ pc[r] \notin {"orphan", "done"} => exit[r] = None /\ checked[r] = None
        /\ EngineAtWork(r) => e \in Dirs
        /\ EngineUntold(r)
    BY InvestigateAssumption DEF IInv, StateType, Unfinished, WorksOnDirs, FallbackInv
  <1>1. ASSUME exit'[r] # 0, EngineUntold(r)' PROVE FallbackInv'
    BY <1>1 DEF OneRun, FallbackInv, ZeroIsEnd, FallbackIsRecorded
  <1>2. ASSUME NEW d \in Dirs, NEW rooted \in BOOLEAN, EngineStart(r, d, rooted)
        PROVE  FallbackInv'
    <2>1. /\ disk' = [disk EXCEPT ![d] = [NoCase EXCEPT !.made = TRUE, !.audit = TRUE]]
          /\ engineDir'[r] = d /\ pc'[r] = "engineRuns" /\ exit'[r] = None
      BY <1>0, <1>2 DEF EngineStart, MakeDir, Put, Continue, Go
    <2>2. disk'[d].result = "unknown"
      BY <1>0, <2>1 DEF NoCase
    <2>3. QED
      BY <1>0, <1>1, <2>1, <2>2 DEF EngineUntold
  <1>3. CASE EngineStep(r)
    <2>1. /\ pc[r] = "engineRuns" /\ UNCHANGED <<pc, exit, engineDir>>
          /\ \E c : disk' = [disk EXCEPT ![e] = c] /\ c.result = disk[e].result
      <3>1. ASSUME NEW m \in {"bad", "good"}, EngineSeals(r, m) PROVE <2>1!2
        <4>1. disk' = [disk EXCEPT ![e] = [disk[e] EXCEPT !.manifest = m]]
          BY <3>1 DEF EngineSeals, Store, Create, Overwrite, Put
        <4>2. [disk[e] EXCEPT !.manifest = m].result = disk[e].result
          BY <1>0, <3>1 DEF EngineSeals, EngineAtWork, Cases
        <4>3. QED
          BY <4>1, <4>2
      <3>2. ASSUME NEW rep \in {"ok", "failed"}, EngineReports(r, rep) PROVE <2>1!2
        <4> DEFINE c == [disk[e] EXCEPT !.verify = Verifier(disk[e].manifest),
                                        !.report = rep, !.byToolkit = TRUE]
        <4>1. disk' = [disk EXCEPT ![e] = c]
          BY <3>2 DEF EngineReports, Store, Create, Overwrite, Put
        <4>2. c.result = disk[e].result
          BY <1>0, <3>2 DEF EngineReports, EngineAtWork, Cases
        <4>3. QED
          BY <4>1, <4>2
      <3>3. QED
        BY <1>3, <3>1, <3>2 DEF EngineStep, EngineSeals, EngineReports, locals
    <2>2. disk'[e].result = "unknown"
      BY <1>0, <2>1 DEF EngineAtWork, EngineUntold
    <2>3. QED
      BY <1>0, <1>1, <2>1, <2>2 DEF EngineUntold
  <1>4. CASE EngineSucceeds(r)
    <2>1. /\ pc[r] = "engineRuns" /\ pc'[r] = "engineRecord"
          /\ UNCHANGED <<exit, engineDir, disk>>
      BY <1>0, <1>4 DEF EngineSucceeds, Continue, Go, root, locals
    <2>2. QED
      BY <1>0, <1>1, <2>1 DEF EngineUntold
  <1>5. CASE RecordEngine(r)
    <2>1. /\ pc[r] = "engineRecord" /\ pc'[r] = "engineCheck"
          /\ UNCHANGED <<exit, engineDir>>
          /\ disk' = [disk EXCEPT ![e] =
                        [disk[e] EXCEPT !.record = UsedFallback(disk[e], TRUE)]]
      BY <1>0, <1>5
         DEF RecordEngine, WriteRecord, Continue, Go, locals, Store, Create, Overwrite, Put
    <2>2. UsedFallback(disk[e], TRUE) = "yes"
      BY <1>0, <2>1 DEF EngineUntold, UsedFallback
    <2>3. disk'[e].record = "yes"
      BY <1>0, <2>1, <2>2 DEF EngineAtWork, Cases
    <2>4. QED
      BY <1>0, <1>1, <2>1, <2>3 DEF EngineUntold
  <1>6. CASE CheckEngine(r)
    <2>1. /\ checked'[r] = e /\ pc'[r] = "done" /\ disk' = disk
          /\ pc[r] = "engineCheck"
      BY <1>0, <1>6 DEF CheckEngine, Decide, End, Go, root
    <2>2. disk'[checked'[r]].record = "yes"
      BY <1>0, <2>1 DEF EngineUntold
    <2>3. QED
      BY <2>1, <2>2
         DEF OneRun, FallbackInv, EngineUntold, ZeroIsEnd, FallbackIsRecorded
  <1>7. QED
    BY <1>2, <1>3, <1>4, <1>5, <1>6

LEMMA FallbackStep ==
  ASSUME IInv, FallbackInv, OneRun, [Next]_vars PROVE FallbackInv'
  <1>1. CASE UNCHANGED vars
    BY <1>1 DEF vars, root, locals, outcome, FallbackInv, EngineUntold, ZeroIsEnd,
                FallbackIsRecorded
  <1>2. ASSUME NEW r \in Runs, RunStep(r) PROVE FallbackInv'
    BY <1>2, PlainStepsPromiseNothing, LocatingIsAboutTarget, EngineIsRecorded
       DEF RunStep
  <1>3. ASSUME NEW r \in Runs, AgentStep(r) PROVE FallbackInv'
    <2>1. AgentRuns(r) /\ UNCHANGED <<pc, exit>>
      BY <1>3 DEF AgentStep, AgentOpens, AgentAudits, AgentClaims, AgentSeals,
                  RuntimeResult
    <2>2. exit[r] # 0
      BY <2>1 DEF FallbackInv, ZeroIsEnd, AgentRuns
    <2>3. QED
      BY <2>1, <2>2, NoPromise DEF AgentRuns
  <1>4. ASSUME NEW r \in Runs, EngineStep(r) PROVE FallbackInv'
    BY <1>4, EngineIsRecorded
  <1>5. ASSUME NEW r \in Runs, Killed(r) PROVE FallbackInv'
    <2>1. pc'[r] \in {"done", "orphan"} /\ exit'[r] = 3
      BY <1>5 DEF Killed, Go, Signalled, IInv, StateType
    <2>2. QED
      BY <2>1, NoPromise
  <1>6. QED
    BY <1>1, <1>2, <1>3, <1>4, <1>5 DEF Next

\* A single run that turns to the engine and exits 0 leaves the engine's
\* directory recorded as a fallback, whatever its agent left behind and for
\* every set of directories and options (runLocalEvtxAutoFallback and
\* recordRunProvenance of investigate.ts).
THEOREM FallbackIsRecordedAlways ==
  ASSUME OneRun PROVE Spec => []FallbackIsRecorded
  <1>1. Init => IInv /\ FallbackInv
    BY InitInv, FallbackInit
  <1>2. IInv /\ FallbackInv /\ [Next]_vars => IInv' /\ FallbackInv'
    BY NextInv, FallbackStep
  <1>3. FallbackInv => FallbackIsRecorded
    BY DEF FallbackInv
  <1>4. QED
    BY <1>1, <1>2, <1>3, PTL DEF Spec

-----------------------------------------------------------------------------
(* The runs, their agents and their engines keep to CaseLife.              *)

FoundedCase(c) ==
  /\ c.audit => c.made
  /\ c.claim => c.audit
  /\ c.manifest # "none" => c.audit
  /\ c.verify # "none" => c.manifest # "none"

Advances(a, b) ==
  /\ FoundedCase(b)
  /\ a.made => b.made
  /\ a.audit => b.audit
  /\ a.claim => b.claim
  /\ a.manifest # "none" => b.manifest # "none"
  /\ a.verify # "none" => b.verify # "none"

AllAdvance == \A d \in Dirs : Advances(disk[d], disk'[d])

\* An engine that runs has opened its audit log.
EngineAudits ==
  \A r \in Runs : pc[r] = "engineRuns" =>
    engineDir[r] \in Dirs /\ disk[engineDir[r]].audit

\* A run verifies what it has seen sealed.
SealsSeen ==
  \A r \in Runs : Verifying(r) =>
    target[r] \in Dirs /\ disk[target[r]].manifest # "none"

LifeInv == (\A d \in Dirs : FoundedCase(disk[d])) /\ EngineAudits /\ SealsSeen

LEMMA InLife ==
  ASSUME NEW c
  PROVE  /\ LifeOf(c) \subseteq Life!Artifacts
         /\ "directory" \in LifeOf(c) <=> c.made
         /\ "audit" \in LifeOf(c) <=> c.audit
         /\ "manifest" \in LifeOf(c) <=> c.manifest # "none"
         /\ "claim" \in LifeOf(c) <=> c.claim
         /\ "attested" \in LifeOf(c) <=> c.verify # "none"
  BY DEF LifeOf, Life!Artifacts

LEMMA FoundedIsCase ==
  ASSUME NEW c, FoundedCase(c) PROVE LifeOf(c) \in Life!Cases
  BY InLife DEF FoundedCase, Life!Cases, Life!Founded

LEMMA AdvancesInLife ==
  ASSUME NEW a, NEW b, Advances(a, b) PROVE LifeOf(a) \subseteq LifeOf(b)
  BY InLife DEF Advances, Life!Artifacts

LEMMA LifeStart == Init => LifeInv
  <1> SUFFICES ASSUME Init PROVE LifeInv
    OBVIOUS
  <1>1. EngineAudits /\ SealsSeen
    BY DEF Init, EngineAudits, SealsSeen, Verifying
  <1>2. \A d \in Dirs : disk[d] \in EarlierCases
    BY DEF Init
  <1>3. FoundedCase(NoCase) /\ FoundedCase([NoCase EXCEPT !.made = TRUE])
    BY DEF NoCase, FoundedCase
  <1>4. FoundedCase([NoCase EXCEPT !.made = TRUE, !.audit = TRUE, !.manifest = "good"])
    BY DEF NoCase, FoundedCase
  <1>5. QED
    BY <1>1, <1>2, <1>3, <1>4 DEF LifeInv, EarlierCases

LEMMA SameAdvances == ASSUME LifeInv, UNCHANGED disk PROVE AllAdvance
  BY DEF LifeInv, AllAdvance, Advances

LEMMA PutAdvances ==
  ASSUME IInv, LifeInv, NEW d, NEW c, Put(d, c), d \in Dirs => Advances(disk[d], c)
  PROVE  AllAdvance
  <1>1. \A e \in Dirs : disk'[e] = IF e = d THEN c ELSE disk[e]
    BY DEF IInv, StateType, Put
  <1>2. \A e \in Dirs : Advances(disk[e], disk[e])
    BY DEF LifeInv, Advances
  <1>3. QED
    BY <1>1, <1>2 DEF AllAdvance

LEMMA StoreAdvances ==
  ASSUME IInv, LifeInv, NEW new, NEW d, NEW c, Store(new, d, c),
         d \in Dirs => Advances(disk[d], c)
  PROVE  AllAdvance
  BY PutAdvances DEF Store, Create, Overwrite

LEMMA RecordAdvances ==
  ASSUME IInv, LifeInv, NEW d, NEW b \in BOOLEAN, WriteRecord(d, b)
  PROVE  AllAdvance
  <1> DEFINE c == [disk[d] EXCEPT !.record = UsedFallback(disk[d], b)]
  <1>1. d \in Dirs => Advances(disk[d], c)
    BY DEF IInv, StateType, Cases, LifeInv, FoundedCase, Advances
  <1>2. QED
    BY <1>1, StoreAdvances DEF WriteRecord

\* A new directory may hold anything but a seal.
LEMMA MakeAdvances ==
  ASSUME IInv, LifeInv, NEW r \in Runs, NEW d, NEW c, MakeDir(r, d, c),
         FoundedCase(c), c.made
  PROVE  AllAdvance
  <1>1. d \in Dirs /\ ~disk[d].made /\ Put(d, c)
    BY DEF MakeDir, Free
  <1>2. FoundedCase(disk[d])
    BY <1>1 DEF LifeInv
  <1>3. Advances(disk[d], c)
    BY <1>1, <1>2 DEF FoundedCase, Advances
  <1>4. QED
    BY <1>1, <1>3, PutAdvances

LEMMA NewIsFounded ==
  LET empty   == [NoCase EXCEPT !.made = TRUE]
      audited == [NoCase EXCEPT !.made = TRUE, !.audit = TRUE]
  IN  FoundedCase(empty) /\ empty.made /\ FoundedCase(audited) /\ audited.made
  BY DEF NoCase, FoundedCase

LEMMA WritersAdvance ==
  ASSUME IInv, LifeInv, NEW r \in Runs, AgentStep(r) \/ EngineStep(r)
  PROVE  AllAdvance
  <1>1. \A d \in Dirs : disk[d] \in Cases /\ FoundedCase(disk[d])
    BY DEF IInv, StateType, LifeInv
  <1>2. AgentRuns(r) => own[r] \in Dirs /\ Mine(r) = disk[own[r]] /\ Mine(r).made
    BY DEF IInv, Admitted, OwnMade, AgentRuns, Mine
  <1>3. ASSUME NEW d \in Dirs, AgentOpens(r, d) PROVE AllAdvance
    BY <1>3, NewIsFounded, MakeAdvances DEF AgentOpens
  <1>4. CASE AgentAudits(r)
    <2>1. Put(own[r], [Mine(r) EXCEPT !.audit = TRUE]) /\ AgentRuns(r)
      BY <1>4 DEF AgentAudits, Create
    <2>2. Advances(disk[own[r]], [Mine(r) EXCEPT !.audit = TRUE])
      BY <1>1, <1>2, <2>1 DEF Cases, FoundedCase, Advances
    <2>3. QED
      BY <2>1, <2>2, PutAdvances
  <1>5. ASSUME NEW m \in {"bad", "good"}, AgentSeals(r, m) PROVE AllAdvance
    <2>1. /\ Store(Mine(r).manifest = "none", own[r], [Mine(r) EXCEPT !.manifest = m])
          /\ AgentRuns(r) /\ Mine(r).audit
      BY <1>5 DEF AgentSeals
    <2>2. Advances(disk[own[r]], [Mine(r) EXCEPT !.manifest = m])
      BY <1>1, <1>2, <2>1 DEF Cases, FoundedCase, Advances
    <2>3. QED
      BY <2>1, <2>2, StoreAdvances
  <1>6. CASE AgentClaims(r)
    <2>1. /\ Put(own[r], [Mine(r) EXCEPT !.claim = TRUE])
          /\ AgentRuns(r) /\ Mine(r).audit
      BY <1>6 DEF AgentClaims, Overwrite
    <2>2. Advances(disk[own[r]], [Mine(r) EXCEPT !.claim = TRUE])
      BY <1>1, <1>2, <2>1 DEF Cases, FoundedCase, Advances
    <2>3. QED
      BY <2>1, <2>2, PutAdvances
  <1>7. ASSUME NEW v \in Results, RuntimeResult(r, v) PROVE AllAdvance
    <2>1. Put(own[r], [Mine(r) EXCEPT !.result = v]) /\ AgentRuns(r)
      BY <1>7 DEF RuntimeResult, Create
    <2>2. Advances(disk[own[r]], [Mine(r) EXCEPT !.result = v])
      BY <1>1, <1>2, <2>1 DEF Cases, FoundedCase, Advances
    <2>3. QED
      BY <2>1, <2>2, PutAdvances
  <1>8. ASSUME NEW m \in {"bad", "good"}, EngineSeals(r, m) PROVE AllAdvance
    <2> DEFINE d == engineDir[r]
               c == [disk[d] EXCEPT !.manifest = m]
    <2>1. Store(InRoot(d), d, c) /\ disk[d].audit /\ d \in Dirs
      BY <1>8 DEF EngineSeals, LifeInv, EngineAudits
    <2>2. Advances(disk[d], c)
      BY <1>1, <2>1 DEF Cases, FoundedCase, Advances
    <2> HIDE DEF d, c
    <2>3. QED
      BY <2>1, <2>2, StoreAdvances
  <1>9. ASSUME NEW rep \in {"ok", "failed"}, EngineReports(r, rep) PROVE AllAdvance
    <2> DEFINE d == engineDir[r]
               c == [disk[d] EXCEPT !.verify = Verifier(disk[d].manifest),
                                    !.report = rep, !.byToolkit = TRUE]
    <2>1. Store(InRoot(d), d, c) /\ disk[d].manifest # "none" /\ d \in Dirs
      BY <1>9 DEF EngineReports, LifeInv, EngineAudits
    <2>2. Verifier(disk[d].manifest) # "none"
      BY DEF Verifier
    <2>3. Advances(disk[d], c)
      BY <1>1, <2>1, <2>2 DEF Cases, FoundedCase, Advances
    <2> HIDE DEF d, c
    <2>4. QED
      BY <2>1, <2>3, StoreAdvances
  <1>10. QED
    BY <1>3, <1>4, <1>5, <1>6, <1>7, <1>8, <1>9 DEF AgentStep, EngineStep

LEMMA WritingAdvances ==
  ASSUME IInv, LifeInv, NEW r \in Runs, Writing(r) PROVE AllAdvance
  <1>1. \A d \in Dirs : disk[d] \in Cases /\ FoundedCase(disk[d])
    BY DEF IInv, StateType, LifeInv
  <1>2. CASE RecordEngine(r)
    BY <1>2, RecordAdvances DEF RecordEngine
  <1>3. CASE Record(r)
    BY <1>3, RecordAdvances, SameAdvances DEF Record, root
  <1>4. CASE Attest(r)
    <2> DEFINE d == target[r]
               c == [disk[d] EXCEPT !.verify = word[r]]
    <2>1. /\ Store(disk[d].verify = "none", d, c) /\ d \in Dirs
          /\ disk[d].manifest # "none" /\ word[r] # "none"
      BY <1>4 DEF Attest, Target, LifeInv, SealsSeen, Verifying, IInv, WorksOnDirs
    <2>2. Advances(disk[d], c)
      BY <1>1, <2>1 DEF Cases, FoundedCase, Advances
    <2> HIDE DEF d, c
    <2>3. QED
      BY <2>1, <2>2, StoreAdvances
  <1>5. ASSUME NEW rep \in {"ok", "failed"}, Report(r, rep) PROVE AllAdvance
    <2> DEFINE d == target[r]
               c == [disk[d] EXCEPT !.report = rep, !.byToolkit = FALSE]
    <2>1. Store(disk[d].report = "none", d, c) \/ UNCHANGED disk
      BY <1>5 DEF Report, Target, root
    <2>2. d \in Dirs => Advances(disk[d], c)
      BY <1>1 DEF Cases, FoundedCase, Advances
    <2>3. QED
      BY <2>1, <2>2, StoreAdvances, SameAdvances
  <1>6. QED
    BY <1>2, <1>3, <1>4, <1>5 DEF Writing

LEMMA StepAdvances == ASSUME IInv, LifeInv, [Next]_vars PROVE AllAdvance
  <1>1. CASE UNCHANGED disk
    BY <1>1, SameAdvances
  <1>2. ASSUME NEW r \in Runs, RunStep(r) PROVE AllAdvance
    <2>1. ASSUME NEW d \in Dirs, Reserve(r, d) PROVE AllAdvance
      BY <2>1, NewIsFounded, MakeAdvances DEF Reserve
    <2>2. ASSUME NEW d \in Dirs, NEW rooted \in BOOLEAN, EngineStart(r, d, rooted)
          PROVE  AllAdvance
      BY <2>2, NewIsFounded, MakeAdvances DEF EngineStart
    <2>3. CASE Writing(r)
      BY <2>3, WritingAdvances
    <2>4. QED
      BY <1>1, <1>2, <2>1, <2>2, <2>3
         DEF RunStep, Writing, NoEvidence, Refuse, NoReservation, EngineSucceeds,
             EngineFails, CheckEngine, LaunchAgent, AgentExits, Locate,
             LookForAttestation, VerifierAnswers, SkipAttest, LookForReport, Check,
             root
  <1>3. QED
    BY <1>1, <1>2, WritersAdvance DEF Next, Killed, vars, root

\* Only its start makes an engine run, and no other step changes its directory.
LEMMA EngineKept ==
  ASSUME IInv, [Next]_vars, NEW q \in Runs, pc'[q] = "engineRuns"
  PROVE  \/ pc[q] = "engineRuns" /\ engineDir'[q] = engineDir[q]
         \/ engineDir'[q] \in Dirs /\ disk'[engineDir'[q]].audit
  <1>1. /\ pc \in [Runs -> Phases] /\ engineDir \in [Runs -> MaybeDir]
        /\ disk \in [Dirs -> Cases]
    BY DEF IInv, StateType
  <1>2. CASE UNCHANGED <<pc, engineDir>>
    BY <1>2
  <1>3. ASSUME NEW r \in Runs, NEW p, Go(r, p), p # "engineRuns", UNCHANGED engineDir
        PROVE  pc[q] = "engineRuns" /\ engineDir'[q] = engineDir[q]
    BY <1>1, <1>3 DEF Go
  <1>4. ASSUME NEW r \in Runs, NEW d \in Dirs, NEW rooted \in BOOLEAN,
               EngineStart(r, d, rooted)
        PROVE  \/ pc[q] = "engineRuns" /\ engineDir'[q] = engineDir[q]
               \/ engineDir'[q] \in Dirs /\ disk'[engineDir'[q]].audit
    <2>1. /\ pc' = [pc EXCEPT ![r] = "engineRuns"]
          /\ engineDir' = [engineDir EXCEPT ![r] = d]
          /\ disk' = [disk EXCEPT ![d] = [NoCase EXCEPT !.made = TRUE, !.audit = TRUE]]
      BY <1>4 DEF EngineStart, MakeDir, Put, Continue, Go
    <2>2. disk'[d].audit
      BY <1>1, <2>1 DEF NoCase
    <2>3. QED
      BY <1>1, <2>1, <2>2
  <1>5. ASSUME NEW r \in Runs, RunStep(r),
               \A d \in Dirs, rooted \in BOOLEAN : ~EngineStart(r, d, rooted)
        PROVE  \E p : Go(r, p) /\ p # "engineRuns" /\ UNCHANGED engineDir
    BY <1>5 DEF RunStep, NoEvidence, Refuse, NoReservation, Reserve, EngineSucceeds,
       EngineFails, RecordEngine, CheckEngine, LaunchAgent, AgentExits, Locate,
       LookForAttestation, VerifierAnswers, Attest, SkipAttest, LookForReport, Record,
       Check, Report, Decide, End, Continue, locals
  <1>6. ASSUME NEW r \in Runs, Killed(r)
        PROVE  \E p : Go(r, p) /\ p # "engineRuns" /\ UNCHANGED engineDir
    BY <1>6 DEF Killed, locals
  <1>7. ASSUME NEW r \in Runs, AgentStep(r) \/ EngineStep(r)
        PROVE  UNCHANGED <<pc, engineDir>>
    BY <1>7, WritersGrow DEF locals
  <1>8. QED
    BY <1>2, <1>3, <1>4, <1>5, <1>6, <1>7 DEF Next, vars, locals

\* Only the look makes a run verify, and it goes on about the same directory.
LEMMA VerifyingKept ==
  ASSUME IInv, [Next]_vars, NEW q \in Runs, Verifying(q)'
  PROVE  \/ Verifying(q) /\ target'[q] = target[q]
         \/ LookForAttestation(q)
  <1>1. pc \in [Runs -> Phases] /\ target \in [Runs -> MaybeDir]
    BY DEF IInv, StateType
  <1>2. CASE UNCHANGED <<pc, target>>
    BY <1>2 DEF Verifying
  <1>3. ASSUME NEW r \in Runs, NEW p, Go(r, p), p \notin {"verifier", "attestWrite"},
               UNCHANGED target \/ \E d : target' = [target EXCEPT ![r] = d]
        PROVE  Verifying(q) /\ target'[q] = target[q]
    BY <1>1, <1>3 DEF Go, Verifying
  <1>4. ASSUME NEW r \in Runs, LookForAttestation(r) \/ VerifierAnswers(r)
        PROVE  (Verifying(q) /\ target'[q] = target[q]) \/ LookForAttestation(q)
    BY <1>1, <1>4 DEF LookForAttestation, VerifierAnswers, Continue, Go, Verifying, locals
  <1>5. ASSUME NEW r \in Runs, RunStep(r), ~LookForAttestation(r), ~VerifierAnswers(r)
        PROVE  \E p : /\ Go(r, p) /\ p \notin {"verifier", "attestWrite"}
                      /\ UNCHANGED target \/ \E d : target' = [target EXCEPT ![r] = d]
    BY <1>5 DEF RunStep, NoEvidence, Refuse, NoReservation, Reserve, EngineStart,
       EngineSucceeds, EngineFails, RecordEngine, CheckEngine, LaunchAgent, AgentExits,
       Locate, Attest, SkipAttest, LookForReport, Record, Check, Report, Decide, End,
       Continue, locals
  <1>6. ASSUME NEW r \in Runs, Killed(r)
        PROVE  \E p : Go(r, p) /\ p \notin {"verifier", "attestWrite"} /\ UNCHANGED target
    BY <1>6 DEF Killed, locals
  <1>7. ASSUME NEW r \in Runs, AgentStep(r) \/ EngineStep(r)
        PROVE  UNCHANGED <<pc, target>>
    BY <1>7, WritersGrow DEF locals
  <1>8. QED
    BY <1>2, <1>3, <1>4, <1>5, <1>6, <1>7 DEF Next, vars, locals

LEMMA LifeStep == ASSUME IInv, LifeInv, [Next]_vars PROVE LifeInv'
  <1>1. AllAdvance
    BY StepAdvances
  <1>2. ASSUME NEW q \in Runs, pc'[q] = "engineRuns"
        PROVE  engineDir'[q] \in Dirs /\ disk'[engineDir'[q]].audit
    BY <1>1, <1>2, EngineKept DEF LifeInv, EngineAudits, AllAdvance, Advances
  <1>3. ASSUME NEW q \in Runs, Verifying(q)'
        PROVE  target'[q] \in Dirs /\ disk'[target'[q]].manifest # "none"
    <2>1. /\ target'[q] = target[q] /\ target[q] \in Dirs
          /\ disk[target[q]].manifest # "none"
      BY <1>3, VerifyingKept
         DEF LifeInv, SealsSeen, LookForAttestation, Target, locals, IInv, WorksOnDirs,
             Finishing
    <2>2. QED
      BY <1>1, <2>1 DEF AllAdvance, Advances
  <1>4. QED
    BY <1>1, <1>2, <1>3 DEF LifeInv, EngineAudits, SealsSeen, AllAdvance, Advances

\* However many runs, agents, orphaned agents and engines write the same cases
\* root, and however their looks and writes interleave, no directory loses an
\* artifact and each comes in its order (every write of investigate.ts and of
\* the tools).
THEOREM KeepsCaseLifeAlways == Spec => KeepsCaseLife
  <1>1. Init => IInv /\ LifeInv
    BY InitInv, LifeStart
  <1>2. IInv /\ LifeInv /\ [Next]_vars => IInv' /\ LifeInv'
    BY NextInv, LifeStep
  <1>3. Init => Life!Init
    BY LifeStart, FoundedIsCase DEF LifeInv, Life!Init
  <1>4. IInv /\ LifeInv /\ [Next]_vars => [Life!Next]_([d \in Dirs |-> LifeOf(disk[d])])
    <2> SUFFICES ASSUME IInv, LifeInv, [Next]_vars PROVE Life!Next
      OBVIOUS
    <2>1. \A d \in Dirs : Advances(disk[d], disk'[d])
      BY StepAdvances DEF AllAdvance
    <2>2. \A d \in Dirs : LifeOf(disk'[d]) \in Life!Cases
      BY <2>1, FoundedIsCase DEF Advances
    <2>3. \A d \in Dirs : LifeOf(disk[d]) \subseteq LifeOf(disk'[d])
      BY <2>1, AdvancesInLife
    <2>4. QED
      BY <2>2, <2>3 DEF Life!Next
  <1>5. QED
    BY <1>1, <1>2, <1>3, <1>4, PTL DEF Spec, KeepsCaseLife, Life!Spec

-----------------------------------------------------------------------------
(* Exit code 0 and the word of the verification it rests on.               *)

\* The phases of a run whose verifier may have answered.
After == {"attestWrite", "report", "reportWrite", "record", "check", "engine",
          "engineRuns", "engineRecord", "engineCheck", "done"}

\* An answer is about the directory the run is still about, and comes after
\* its agent.
Answered(r) ==
  /\ word[r] # "none" => /\ target[r] \in Dirs /\ disk[target[r]].manifest # "none"
                         /\ pc[r] \in After
  /\ pc[r] \in {"agent", "orphan", "locate"} \/ Finishing(r) \/ word[r] # "none" =>
       tries[r] # 0

\* An engine's directory is no run's own, so nobody seals it a second time,
\* and every verifier gives the same answer about it.
OneWord(p) ==
  engineDir[p] \in Dirs =>
    /\ disk[engineDir[p]].made
    /\ \A q \in Runs : own[q] # engineDir[p]
    /\ LET c == disk[engineDir[p]]
       IN  /\ c.verify # "none" => c.verify = Verifier(c.manifest)
           /\ \A q \in Runs : target[q] = engineDir[p] /\ word[q] # "none" =>
                word[q] = Verifier(c.manifest)

Holds(r) ==
  LET c == disk[checked[r]]
  IN  \/ c.claim
      \/ /\ c.verify # "none" /\ (c.verify = "pass" \/ TakenBack(r))
         /\ Rivals(checked[r]) \subseteq rivals[r]

ZeroHolds(r) ==
  exit[r] = 0 =>
    \/ checked[r] = None /\ opt[r].noVerify
    \/ /\ checked[r] \in Dirs
       /\ disk[checked[r]].audit /\ disk[checked[r]].manifest # "none"
       /\ Holds(r)

CustodyInv ==
  \A r \in Runs : Answered(r) /\ OneWord(r) /\ ZeroHolds(r)

Ready == IInv /\ LifeInv /\ rivals \in [Runs -> SUBSET Runs]

\* What a step of run r leaves to the others.
Frame(r) ==
  /\ UNCHANGED opt
  /\ \A q \in Runs \ {r} :
       /\ pc'[q] = pc[q] /\ tries'[q] = tries[q] /\ own'[q] = own[q]
       /\ target'[q] = target[q] /\ engineDir'[q] = engineDir[q]
       /\ word'[q] = word[q] /\ checked'[q] = checked[q]
       /\ rivals'[q] = rivals[q] /\ exit'[q] = exit[q]

\* What it may do to the run itself.
Moves(r) ==
  /\ exit[r] = None
  /\ own'[r] # own[r] => \E d \in Dirs : Reserve(r, d)
  /\ engineDir'[r] # engineDir[r] =>
       \E d \in Dirs, rooted \in BOOLEAN : EngineStart(r, d, rooted)
  /\ target'[r] # target[r] => pc[r] = "locate"
  /\ word'[r] # word[r] => VerifierAnswers(r)
  /\ tries'[r] = tries[r] \/ tries'[r] # 0
  /\ pc[r] \in After /\ tries[r] # 0 => pc'[r] \in After
  /\ pc'[r] \in {"agent", "orphan", "locate"} \/ Finishing(r)' =>
       pc[r] \in {"agent", "locate"} \/ Finishing(r) \/ tries'[r] # 0
  /\ exit'[r] = 0 => \/ checked'[r] = None /\ opt[r].noVerify
                     \/ /\ checked'[r] \in Dirs /\ Verify(disk[checked'[r]]) = 0
                        /\ rivals'[r] = Rivals(checked'[r])
                        /\ UNCHANGED <<disk, target, word>> /\ pc'[r] = "done"

LEMMA RunMoves ==
  ASSUME Ready, NEW r \in Runs, RunStep(r) \/ Killed(r)
  PROVE  Frame(r) /\ Moves(r)
  <1>0. /\ pc \in [Runs -> Phases] /\ tries \in [Runs -> 0..2]
        /\ own \in [Runs -> MaybeDir] /\ target \in [Runs -> MaybeDir]
        /\ engineDir \in [Runs -> MaybeDir] /\ checked \in [Runs -> MaybeDir]
        /\ word \in [Runs -> Words] /\ code \in [Runs -> {0, 1}]
        /\ exit \in [Runs -> ExitCodes \cup {None}]
        /\ rivals \in [Runs -> SUBSET Runs]
        /\ None # 0
    BY InvestigateAssumption DEF Ready, IInv, StateType
  <1>a. /\ pc[r] \notin {"orphan", "done"} => exit[r] = None /\ checked[r] = None
        /\ EngineAtWork(r) => engineDir[r] \in Dirs
        /\ Finishing(r) => target[r] \in Dirs
    BY DEF Ready, IInv, Unfinished, WorksOnDirs
  <1>1. CASE NoEvidence(r) \/ Refuse(r) \/ NoReservation(r)
    BY <1>0, <1>a, <1>1 DEF NoEvidence, Refuse, NoReservation, Gates, End, Go, locals,
       outcome, Frame, Moves, Finishing, After
  <1>2. ASSUME NEW d \in Dirs, Reserve(r, d) PROVE Frame(r) /\ Moves(r)
    BY <1>0, <1>a, <1>2 DEF Reserve, Continue, Go, outcome, Frame, Moves, Finishing, After
  <1>3. ASSUME NEW d \in Dirs, NEW rooted \in BOOLEAN, EngineStart(r, d, rooted)
        PROVE  Frame(r) /\ Moves(r)
    BY <1>0, <1>a, <1>3 DEF EngineStart, Continue, Go, outcome, Frame, Moves, Finishing, After
  <1>4. CASE EngineSucceeds(r) \/ RecordEngine(r)
    BY <1>0, <1>a, <1>4 DEF EngineSucceeds, RecordEngine, Continue, Go, locals, outcome,
       Frame, Moves, Finishing, After
  <1>5. CASE EngineFails(r)
    BY <1>0, <1>a, <1>5 DEF EngineFails, Primary, Continue, End, Go, locals, outcome,
       Frame, Moves, Finishing, After
  <1>6. CASE CheckEngine(r)
    <2>1. /\ Decide(r, engineDir[r], EngineExit(r, Verify(disk[engineDir[r]])))
          /\ pc[r] = "engineCheck" /\ engineDir[r] \in Dirs
          /\ UNCHANGED <<root, opt, tries, own, target, engineDir, code, word>>
      BY <1>a, <1>6 DEF CheckEngine, EngineAtWork
    <2>2. EngineExit(r, Verify(disk[engineDir[r]])) = 0 => Verify(disk[engineDir[r]]) = 0
      BY <1>0 DEF EngineExit
    <2>3. QED
      BY <1>0, <1>a, <2>1, <2>2 DEF Decide, End, Go, root, Frame, Moves, Finishing, After
  <1>7. CASE LaunchAgent(r)
    BY <1>0, <1>a, <1>7 DEF LaunchAgent, Continue, Go, outcome, Frame, Moves, Finishing, After
  <1>8. ASSUME NEW c \in {0, 1}, AgentExits(r, c) PROVE Frame(r) /\ Moves(r)
    BY <1>0, <1>a, <1>8 DEF AgentExits, Continue, Go, outcome, Frame, Moves, Finishing, After
  <1>9. CASE Locate(r)
    <2>1. /\ pc[r] = "locate" /\ UNCHANGED <<root, opt, own, engineDir, code, outcome>>
          /\ target' = [target EXCEPT ![r] = RunDir(r)]
          /\ tries' = tries \/ tries' = [tries EXCEPT ![r] = 2]
          /\ \/ UNCHANGED exit
             \/ opt[r].noVerify /\ exit' = [exit EXCEPT ![r] = code[r]]
          /\ \E p : Go(r, p)
      BY <1>0, <1>9 DEF Locate, Continue, End
    <2>2. QED
      BY <1>0, <1>a, <2>1 DEF Go, outcome, Frame, Moves, Finishing, After
  <1>10. CASE \/ LookForAttestation(r) \/ SkipAttest(r) \/ LookForReport(r)
              \/ Attest(r) \/ Record(r)
              \/ \E rep \in {"ok", "failed"} : Report(r, rep)
    <2>1. /\ UNCHANGED <<locals, exit>> /\ Finishing(r) /\ pc[r] # "locate"
          /\ \E p \in After \cup {"verifier"} : Go(r, p) /\ (pc[r] \in After => p \in After)
      BY <1>10 DEF LookForAttestation, SkipAttest, LookForReport, Attest, Record, Report,
         Continue, Finishing, After
    <2>2. QED
      BY <1>0, <1>a, <2>1 DEF Go, locals, outcome, Frame, Moves, Finishing, After
  <1>11. CASE VerifierAnswers(r)
    BY <1>0, <1>a, <1>11 DEF VerifierAnswers, Continue, Go, Frame, Moves, Finishing, After
  <1>12. CASE Check(r)
    <2>1. CASE Verify(Target(r)) = 0
      <3>1. /\ Decide(r, target[r], code[r]) /\ pc[r] = "check" /\ target[r] \in Dirs
            /\ UNCHANGED <<root, opt, tries, own, target, engineDir, code, word>>
        BY <1>a, <1>12, <2>1 DEF Check, Finishing
      <3>2. QED
        BY <1>0, <1>a, <2>1, <3>1
           DEF Decide, End, Go, root, Target, Frame, Moves, Finishing, After
    <2>2. CASE Verify(Target(r)) # 0
      BY <1>0, <1>a, <1>12, <2>2 DEF Check, Continue, Go, Frame, Moves, Finishing, After
    <2>3. QED
      BY <2>1, <2>2
  <1>13. CASE Killed(r)
    <2>1. /\ exit[r] = None /\ exit' = [exit EXCEPT ![r] = 3] /\ UNCHANGED locals
          /\ Go(r, "done") \/ (pc[r] = "agent" /\ Go(r, "orphan"))
      BY <1>13 DEF Killed, Signalled
    <2>2. pc'[r] \in {"done", "orphan"} /\ (pc[r] \in After => pc'[r] = "done")
      BY <1>0, <2>1 DEF Go, After
    <2>3. \A q \in Runs \ {r} : pc'[q] = pc[q] /\ exit'[q] = exit[q]
      BY <1>0, <2>1 DEF Go
    <2>4. exit'[r] = 3 /\ (pc'[r] = "orphan" => pc[r] = "agent")
      BY <1>0, <2>1 DEF Go
    <2>5. QED
      BY <2>1, <2>2, <2>3, <2>4 DEF locals, outcome, Frame, Moves, Finishing, After
  <1>14. QED
    BY <1>1, <1>2, <1>3, <1>4, <1>5, <1>6, <1>7, <1>8, <1>9, <1>10, <1>11, <1>12, <1>13
       DEF RunStep

\* Whatever happens is a step of one run, or of an agent, an engine or nobody,
\* which changes no run.
LEMMA WhoMoves ==
  ASSUME Ready, [Next]_vars
  PROVE  \/ UNCHANGED <<locals, pc, exit>>
         \/ \E r \in Runs : (RunStep(r) \/ Killed(r)) /\ Frame(r) /\ Moves(r)
  <1>1. ASSUME NEW r \in Runs, AgentStep(r) \/ EngineStep(r)
        PROVE  UNCHANGED <<locals, pc, exit>>
    BY <1>1, WritersGrow DEF Ready
  <1>2. QED
    BY <1>1, RunMoves DEF Next, vars

-----------------------------------------------------------------------------
(* What a step does to the manifest and the attestation of a directory.    *)

SameSeal(d) ==
  disk'[d].manifest = disk[d].manifest /\ disk'[d].verify = disk[d].verify

\* An agent seals its own directory, again if asked to.
SealedByAgent(d) ==
  /\ \E r \in Runs : own[r] = d
  /\ disk'[d].manifest # "none" /\ disk'[d].verify = disk[d].verify
  /\ UNCHANGED <<locals, pc, exit>>

SealedByEngine(d) ==
  /\ disk[d].manifest = "none" /\ disk'[d].verify = disk[d].verify
  /\ UNCHANGED <<locals, pc, exit>>

ReportedByEngine(d) ==
  /\ \E r \in Runs : engineDir[r] = d
  /\ disk'[d].manifest = disk[d].manifest
  /\ disk'[d].verify = Verifier(disk[d].manifest)
  /\ UNCHANGED <<locals, pc, exit>>

AttestedBy(r, d) ==
  /\ Verifying(r) /\ target[r] = d /\ word[r] # "none"
  /\ disk'[d].manifest = disk[d].manifest /\ disk'[d].verify = word[r]
  /\ UNCHANGED locals

LEMMA OtherSeals ==
  ASSUME Ready, NEW e, NEW c, Put(e, c), NEW d \in Dirs, d # e PROVE SameSeal(d)
  BY DEF Ready, IInv, StateType, Put, SameSeal

LEMMA PutSeals ==
  ASSUME Ready, NEW e, NEW c, Put(e, c), NEW d \in Dirs,
         c.manifest = disk[e].manifest, c.verify = disk[e].verify
  PROVE  SameSeal(d)
  BY DEF Ready, IInv, StateType, Put, SameSeal

LEMMA StorePuts ==
  ASSUME NEW new, NEW e, NEW c, Store(new, e, c) PROVE Put(e, c)
  BY DEF Store, Create, Overwrite

LEMMA RecordSeals ==
  ASSUME Ready, NEW e \in Dirs, NEW b \in BOOLEAN, WriteRecord(e, b), NEW d \in Dirs
  PROVE  SameSeal(d)
  <1> DEFINE c == [disk[e] EXCEPT !.record = UsedFallback(disk[e], b)]
  <1>1. c.manifest = disk[e].manifest /\ c.verify = disk[e].verify
    BY DEF Ready, IInv, StateType, Cases
  <1>2. QED
    BY <1>1, StorePuts, PutSeals DEF WriteRecord

\* A new directory is neither sealed nor attested, and neither was its name.
LEMMA MakeSeals ==
  ASSUME Ready, NEW r \in Runs, NEW e, NEW c, MakeDir(r, e, c), NEW d \in Dirs,
         c.manifest = "none", c.verify = "none"
  PROVE  SameSeal(d)
  <1>1. e \in Dirs /\ ~disk[e].made /\ Put(e, c)
    BY DEF MakeDir, Free
  <1>2. disk[e].manifest = "none" /\ disk[e].verify = "none"
    BY <1>1 DEF Ready, LifeInv, FoundedCase
  <1>3. QED
    BY <1>1, <1>2, PutSeals

LEMMA NewIsUnsealed ==
  LET empty   == [NoCase EXCEPT !.made = TRUE]
      audited == [NoCase EXCEPT !.made = TRUE, !.audit = TRUE]
  IN  /\ empty.manifest = "none" /\ empty.verify = "none"
      /\ audited.manifest = "none" /\ audited.verify = "none"
  BY DEF NoCase

LEMMA SealStep ==
  ASSUME Ready, [Next]_vars, NEW d \in Dirs
  PROVE  \/ SameSeal(d) \/ SealedByAgent(d) \/ SealedByEngine(d) \/ ReportedByEngine(d)
         \/ \E r \in Runs : AttestedBy(r, d)
  <1>0. disk \in [Dirs -> Cases] /\ IInv
    BY DEF Ready, IInv, StateType
  <1>1. CASE UNCHANGED disk
    BY <1>1 DEF SameSeal
  <1>2. ASSUME NEW r \in Runs, AgentStep(r)
        PROVE  SameSeal(d) \/ SealedByAgent(d)
    <2>1. UNCHANGED <<locals, pc, exit>>
      BY <1>0, <1>2, WritersGrow
    <2>2. AgentRuns(r) => own[r] \in Dirs
      BY <1>0 DEF IInv, Admitted, AgentRuns
    <2>3. ASSUME NEW e \in Dirs, AgentOpens(r, e) PROVE SameSeal(d)
      BY <2>3, NewIsUnsealed, MakeSeals DEF AgentOpens
    <2>4. CASE AgentAudits(r)
      <3>1. Put(own[r], [Mine(r) EXCEPT !.audit = TRUE]) /\ own[r] \in Dirs
        BY <2>2, <2>4 DEF AgentAudits, Create
      <3>2. QED
        BY <1>0, <3>1, PutSeals DEF Mine, Cases
    <2>5. CASE AgentClaims(r)
      <3>1. Put(own[r], [Mine(r) EXCEPT !.claim = TRUE]) /\ own[r] \in Dirs
        BY <2>2, <2>5 DEF AgentClaims, Overwrite
      <3>2. QED
        BY <1>0, <3>1, PutSeals DEF Mine, Cases
    <2>6. ASSUME NEW v \in Results, RuntimeResult(r, v) PROVE SameSeal(d)
      <3>1. Put(own[r], [Mine(r) EXCEPT !.result = v]) /\ own[r] \in Dirs
        BY <2>2, <2>6 DEF RuntimeResult, Create
      <3>2. QED
        BY <1>0, <3>1, PutSeals DEF Mine, Cases
    <2>7. ASSUME NEW m \in {"bad", "good"}, AgentSeals(r, m)
          PROVE  SameSeal(d) \/ SealedByAgent(d)
      <3>1. Put(own[r], [Mine(r) EXCEPT !.manifest = m]) /\ own[r] \in Dirs
        BY <2>2, <2>7, StorePuts DEF AgentSeals
      <3>2. CASE own[r] # d
        BY <3>1, <3>2, OtherSeals
      <3>3. CASE own[r] = d
        BY <1>0, <2>1, <3>1, <3>3 DEF SealedByAgent, Put, Mine, Cases
      <3>4. QED
        BY <3>2, <3>3
    <2>8. QED
      BY <1>2, <2>3, <2>4, <2>5, <2>6, <2>7 DEF AgentStep
  <1>3. ASSUME NEW r \in Runs, EngineStep(r)
        PROVE  SameSeal(d) \/ SealedByEngine(d) \/ ReportedByEngine(d)
    <2>1. UNCHANGED <<locals, pc, exit>>
      BY <1>0, <1>3, WritersGrow
    <2>2. ASSUME NEW m \in {"bad", "good"}, EngineSeals(r, m)
          PROVE  SameSeal(d) \/ SealedByEngine(d)
      <3>1. /\ Put(engineDir[r], [disk[engineDir[r]] EXCEPT !.manifest = m])
            /\ disk[engineDir[r]].manifest = "none"
        BY <2>2, StorePuts DEF EngineSeals
      <3>2. CASE engineDir[r] # d
        BY <3>1, <3>2, OtherSeals
      <3>3. CASE engineDir[r] = d
        BY <1>0, <2>1, <3>1, <3>3 DEF SealedByEngine, Put, Cases
      <3>4. QED
        BY <3>2, <3>3
    <2>3. ASSUME NEW rep \in {"ok", "failed"}, EngineReports(r, rep)
          PROVE  SameSeal(d) \/ ReportedByEngine(d)
      <3> DEFINE e == engineDir[r]
                 c == [disk[e] EXCEPT !.verify = Verifier(disk[e].manifest),
                                      !.report = rep, !.byToolkit = TRUE]
      <3>1. Put(e, c)
        BY <2>3, StorePuts DEF EngineReports
      <3>2. CASE e # d
        BY <3>1, <3>2, OtherSeals
      <3>3. CASE e = d
        <4>1. disk'[d] = c
          BY <1>0, <3>1, <3>3 DEF Put
        <4>2. c.verify = Verifier(disk[d].manifest) /\ c.manifest = disk[d].manifest
          BY <1>0, <3>3 DEF Cases
        <4>3. QED
          BY <2>1, <3>3, <4>1, <4>2 DEF ReportedByEngine
      <3>4. QED
        BY <3>2, <3>3
    <2>4. QED
      BY <1>3, <2>2, <2>3 DEF EngineStep
  <1>4. ASSUME NEW r \in Runs, RunStep(r)
        PROVE  SameSeal(d) \/ AttestedBy(r, d)
    <2>0. /\ EngineAtWork(r) => engineDir[r] \in Dirs
          /\ Finishing(r) => target[r] \in Dirs
          /\ pc[r] = "attestWrite" => word[r] # "none"
      BY <1>0 DEF IInv, WorksOnDirs
    <2>1. ASSUME NEW e \in Dirs, Reserve(r, e) PROVE SameSeal(d)
      BY <2>1, NewIsUnsealed, MakeSeals DEF Reserve
    <2>2. ASSUME NEW e \in Dirs, NEW rooted \in BOOLEAN, EngineStart(r, e, rooted)
          PROVE  SameSeal(d)
      BY <2>2, NewIsUnsealed, MakeSeals DEF EngineStart
    <2>3. CASE RecordEngine(r)
      BY <2>0, <2>3, RecordSeals DEF RecordEngine, EngineAtWork
    <2>4. CASE Record(r)
      BY <1>1, <2>0, <2>4, RecordSeals DEF Record, Finishing, SameSeal, root
    <2>5. CASE Attest(r)
      <3> DEFINE c == [disk[target[r]] EXCEPT !.verify = word[r]]
      <3>1. /\ Put(target[r], c) /\ Verifying(r) /\ word[r] # "none" /\ UNCHANGED locals
            /\ target[r] \in Dirs
        BY <2>0, <2>5, StorePuts DEF Attest, Target, Verifying, Finishing
      <3>2. CASE target[r] # d
        BY <3>1, <3>2, OtherSeals
      <3>3. CASE target[r] = d
        BY <1>0, <3>1, <3>3 DEF AttestedBy, Put, Cases
      <3>4. QED
        BY <3>2, <3>3
    <2>6. ASSUME NEW rep \in {"ok", "failed"}, Report(r, rep) PROVE SameSeal(d)
      <3> DEFINE c == [disk[target[r]] EXCEPT !.report = rep, !.byToolkit = FALSE]
      <3>1. Put(target[r], c) \/ UNCHANGED disk
        BY <2>6, StorePuts DEF Report, Target, root
      <3>2. target[r] \in Dirs
        BY <2>0, <2>6 DEF Report, Finishing
      <3>3. c.manifest = disk[target[r]].manifest /\ c.verify = disk[target[r]].verify
        BY <1>0, <3>2 DEF Cases
      <3> HIDE DEF c
      <3>4. QED
        BY <3>1, <3>3, PutSeals DEF SameSeal
    <2>7. CASE \/ NoEvidence(r) \/ Refuse(r) \/ NoReservation(r)
               \/ EngineSucceeds(r) \/ EngineFails(r) \/ CheckEngine(r)
               \/ LaunchAgent(r) \/ (\E c \in {0, 1} : AgentExits(r, c))
               \/ Locate(r) \/ LookForAttestation(r) \/ VerifierAnswers(r)
               \/ SkipAttest(r) \/ LookForReport(r) \/ Check(r)
      <3>1. UNCHANGED disk
        BY <2>7 DEF NoEvidence, Refuse, NoReservation, EngineSucceeds, EngineFails,
           CheckEngine, LaunchAgent, AgentExits, Locate, LookForAttestation,
           VerifierAnswers, SkipAttest, LookForReport, Check, root
      <3>2. QED
        BY <3>1 DEF SameSeal
    <2>8. QED
      BY <1>4, <2>1, <2>2, <2>3, <2>4, <2>5, <2>6, <2>7 DEF RunStep
  <1>5. ASSUME NEW r \in Runs, Killed(r) PROVE SameSeal(d)
    BY <1>5 DEF Killed, root, SameSeal
  <1>6. QED
    BY <1>1, <1>2, <1>3, <1>4, <1>5 DEF Next, vars, root

-----------------------------------------------------------------------------
(* The three parts of CustodyInv.                                          *)

\* A manifest, an attestation, an audit log and a claim are not removed.
LEMMA Stays ==
  ASSUME Ready, [Next]_vars, NEW d \in Dirs
  PROVE  /\ disk[d].made => disk'[d].made
         /\ disk[d].audit => disk'[d].audit
         /\ disk[d].claim => disk'[d].claim
         /\ disk[d].manifest # "none" => disk'[d].manifest # "none"
         /\ disk[d].verify # "none" => disk'[d].verify # "none"
  BY StepAdvances DEF Ready, AllAdvance, Advances

LEMMA AnsweredStep ==
  ASSUME Ready, CustodyInv, [Next]_vars, NEW q \in Runs PROVE Answered(q)'
  <1>1. Answered(q)
    BY DEF CustodyInv
  <1>2. \A d \in Dirs : disk[d].manifest # "none" => disk'[d].manifest # "none"
    BY Stays
  <1>3. CASE UNCHANGED <<locals, pc, exit>>
    BY <1>1, <1>2, <1>3 DEF Answered, Finishing, locals, outcome
  <1>4. ASSUME NEW r \in Runs, Frame(r), r # q PROVE Answered(q)'
    BY <1>1, <1>2, <1>4 DEF Frame, Answered, Finishing
  <1>5. ASSUME RunStep(q) \/ Killed(q), Moves(q) PROVE Answered(q)'
    <2>1. CASE VerifierAnswers(q)
      <3>1. /\ target[q] \in Dirs /\ disk[target[q]].manifest # "none"
            /\ Finishing(q) /\ pc[q] = "verifier"
        BY <2>1 DEF VerifierAnswers, Ready, LifeInv, SealsSeen, Verifying, Finishing
      <3>2. pc'[q] = "attestWrite" /\ UNCHANGED <<disk, target, tries>>
        BY <2>1 DEF VerifierAnswers, Continue, Go, root, Ready, IInv, StateType
      <3>3. QED
        BY <1>1, <3>1, <3>2 DEF Answered, After
    <2>2. CASE word'[q] = word[q]
      <3>1. word[q] # "none" => target'[q] = target[q] /\ pc'[q] \in After
        BY <1>1, <1>5 DEF Moves, Answered, After
      <3>2. word[q] # "none" => disk'[target'[q]].manifest # "none"
        BY <1>1, <1>2, <3>1 DEF Answered
      <3>3. tries[q] # 0 => tries'[q] # 0
        BY <1>5 DEF Moves
      <3>4. pc'[q] \in {"agent", "orphan", "locate"} \/ Finishing(q)' => tries'[q] # 0
        BY <1>1, <1>5, <3>3 DEF Moves, Answered
      <3>5. QED
        BY <1>1, <2>2, <3>1, <3>2, <3>3, <3>4 DEF Answered
    <2>3. QED
      BY <1>5, <2>1, <2>2 DEF Moves
  <1>6. QED
    BY <1>3, <1>4, <1>5, WhoMoves

\* An answer that is there after the step was there before, about the same
\* directory, or is given now.
LEMMA AnswerKept ==
  ASSUME Ready, CustodyInv, [Next]_vars, NEW q \in Runs, word'[q] # "none"
  PROVE  \/ word'[q] = word[q] /\ target'[q] = target[q] /\ Answered(q)
         \/ /\ word'[q] = Verifier(disk[target[q]].manifest)
            /\ UNCHANGED <<disk, target>>
  <1>1. Answered(q)
    BY DEF CustodyInv
  <1>2. CASE UNCHANGED <<locals, pc, exit>>
    BY <1>1, <1>2 DEF locals, outcome
  <1>3. ASSUME NEW r \in Runs, Frame(r), r # q
        PROVE  word'[q] = word[q] /\ target'[q] = target[q] /\ Answered(q)
    BY <1>1, <1>3 DEF Frame
  <1>4. CASE VerifierAnswers(q)
    BY <1>4 DEF VerifierAnswers, Target, root, Ready, IInv, StateType
  <1>5. ASSUME Moves(q), word'[q] = word[q] PROVE target'[q] = target[q]
    BY <1>1, <1>5 DEF Moves, Answered, After
  <1>6. QED
    BY <1>1, <1>2, <1>3, <1>4, <1>5, WhoMoves DEF Moves

LEMMA OneWordStep ==
  ASSUME Ready, CustodyInv, [Next]_vars, NEW p \in Runs, engineDir'[p] \in Dirs
  PROVE  OneWord(p)'
  <1> DEFINE d == engineDir'[p]
  <1>1. IInv /\ d \in Dirs /\ FoundedCase(disk[d])
    BY DEF Ready, LifeInv
  <1>2. CASE engineDir'[p] # engineDir[p]
    <2>1. PICK e \in Dirs, rooted \in BOOLEAN : EngineStart(p, e, rooted)
      BY <1>2, WhoMoves DEF Frame, Moves, locals
    <2>2. /\ d = e /\ ~disk[d].made /\ UNCHANGED <<own, target, word>>
          /\ disk'[d] = [NoCase EXCEPT !.made = TRUE, !.audit = TRUE]
      BY <2>1 DEF EngineStart, MakeDir, Free, Put, Ready, IInv, StateType, outcome
    <2>3. \A q \in Runs : own[q] # d
      BY <1>1, <2>2 DEF IInv, OwnMade
    <2>4. \A q \in Runs : target[q] = d => word[q] = "none"
      BY <1>1, <2>2 DEF FoundedCase, CustodyInv, Answered
    <2>5. disk'[d].made /\ disk'[d].verify = "none"
      BY <2>2, NewIsUnsealed DEF NoCase
    <2>6. QED
      BY <2>2, <2>3, <2>4, <2>5 DEF OneWord
  <1>3. CASE engineDir'[p] = engineDir[p]
    <2>1. OneWord(p) /\ engineDir[p] = d /\ disk[d].made
      BY <1>1, <1>3 DEF CustodyInv, OneWord
    <2>2. ASSUME NEW q \in Runs PROVE own'[q] # d
      <3>1. CASE own'[q] = own[q]
        BY <1>1, <2>1, <3>1 DEF OneWord
      <3>2. CASE own'[q] # own[q]
        <4>1. PICK e \in Dirs : Reserve(q, e)
          BY <3>2, WhoMoves DEF Frame, Moves, locals
        <4>2. own'[q] = e /\ ~disk[e].made
          BY <4>1 DEF Reserve, MakeDir, Free, Ready, IInv, StateType
        <4>3. QED
          BY <2>1, <4>2
      <3>3. QED
        BY <3>1, <3>2
    <2> HIDE DEF d
    <2>3. /\ disk[d].verify # "none" => disk[d].verify = Verifier(disk[d].manifest)
          /\ \A q \in Runs : target[q] = d /\ word[q] # "none" =>
               word[q] = Verifier(disk[d].manifest)
      BY <1>1, <2>1 DEF OneWord
    <2>4. \A q \in Runs : target[q] = d /\ word[q] # "none" => disk[d].manifest # "none"
      BY DEF CustodyInv, Answered
    <2>5. ~SealedByAgent(d)
      BY <1>1, <2>1 DEF OneWord, SealedByAgent
    <2>6. /\ disk'[d].verify # "none" => disk'[d].verify = Verifier(disk'[d].manifest)
          /\ \/ disk'[d].manifest = disk[d].manifest
             \/ disk[d].manifest = "none" /\ UNCHANGED <<locals, pc, exit>>
      <3>1. CASE SameSeal(d)
        BY <2>3, <3>1 DEF SameSeal
      <3>2. CASE SealedByEngine(d)
        BY <1>1, <3>2 DEF SealedByEngine, FoundedCase
      <3>3. CASE ReportedByEngine(d)
        BY <3>3 DEF ReportedByEngine
      <3>4. ASSUME NEW q \in Runs, AttestedBy(q, d) PROVE <2>6
        BY <2>3, <3>4 DEF AttestedBy
      <3>5. QED
        BY <1>1, <2>5, <3>1, <3>2, <3>3, <3>4, SealStep
    <2>7. ASSUME NEW q \in Runs, target'[q] = d, word'[q] # "none"
          PROVE  word'[q] = Verifier(disk'[d].manifest)
      <3>1. CASE word'[q] = word[q] /\ target'[q] = target[q]
        BY <2>3, <2>4, <2>6, <2>7, <3>1
      <3>2. CASE /\ word'[q] = Verifier(disk[target[q]].manifest)
                 /\ UNCHANGED <<disk, target>>
        BY <2>7, <3>2
      <3>3. QED
        BY <2>7, <3>1, <3>2, AnswerKept
    <2>8. disk'[d].made
      BY <1>1, <2>1, Stays
    <2>9. QED
      BY <2>1, <2>2, <2>6, <2>7, <2>8, <1>3 DEF OneWord, d
  <1>4. QED
    BY <1>2, <1>3

-----------------------------------------------------------------------------
LEMMA VerifyVouches ==
  ASSUME NEW c, Verify(c) = 0
  PROVE  c.audit /\ c.manifest # "none" /\ (c.verify = "pass" \/ c.claim)
  BY DEF Verify, ValidateRun, CaseIsSealed, CustodyValid

\* Exit code 0 has just been decided.
LEMMA ZeroComes ==
  ASSUME Ready, [Next]_vars, NEW r \in Runs, exit[r] # 0, exit'[r] = 0
  PROVE  ZeroHolds(r)'
  <1>1. PICK q \in Runs : Frame(q) /\ Moves(q)
    BY WhoMoves DEF locals
  <1>2. q = r
    BY <1>1 DEF Frame
  <1>3. CASE checked'[r] = None /\ opt[r].noVerify
    BY <1>1, <1>3 DEF Frame, ZeroHolds
  <1>4. ASSUME NEW d \in Dirs, checked'[r] = d, Verify(disk[d]) = 0,
               rivals'[r] = Rivals(d), UNCHANGED <<disk, target, word>>, pc'[r] = "done"
        PROVE  ZeroHolds(r)'
    <2>1. ASSUME NEW x \in Runs, target'[x] = d, Verifying(x)' PROVE x \in Rivals(d)
      <3>1. pc'[x] \in {"verifier", "attestWrite"}
        BY <2>1 DEF Verifying
      <3>2. x # r
        BY <1>4, <3>1
      <3>3. pc'[x] = pc[x] /\ target[x] = d
        BY <1>1, <1>2, <1>4, <2>1, <3>2 DEF Frame
      <3>4. QED
        BY <3>1, <3>3 DEF Rivals, Verifying
    <2>2. Rivals(d)' \subseteq rivals'[r]
      BY <1>4, <2>1 DEF Rivals
    <2> DEFINE c == disk'[d]
    <2>3. c.audit /\ c.manifest # "none" /\ (c.verify = "pass" \/ c.claim)
      BY <1>4, VerifyVouches
    <2>4. Holds(r)'
      BY <1>4, <2>2, <2>3 DEF Holds
    <2>5. QED
      BY <1>4, <2>3, <2>4 DEF ZeroHolds
  <1>5. QED
    BY <1>1, <1>2, <1>3, <1>4 DEF Moves

\* Exit code 0 was there before: whatever is written now, the run keeps what
\* its success rests on, or a rival's verifier has failed the seal.
LEMMA ZeroStays ==
  ASSUME Ready, CustodyInv, [Next]_vars, NEW r \in Runs, exit[r] = 0
  PROVE  ZeroHolds(r)'
  <1>1. exit[r] # None /\ ZeroHolds(r)
    BY InvestigateAssumption DEF CustodyInv
  <1>2. UNCHANGED opt /\ checked'[r] = checked[r] /\ rivals'[r] = rivals[r]
    BY <1>1, WhoMoves DEF Frame, Moves, locals, outcome
  <1>3. CASE checked[r] = None /\ opt[r].noVerify
    BY <1>2, <1>3 DEF ZeroHolds
  <1>4. CASE /\ checked[r] \in Dirs
             /\ disk[checked[r]].audit /\ disk[checked[r]].manifest # "none"
             /\ Holds(r)
    <2> DEFINE d == checked[r]
    <2>0. d \in Dirs /\ rivals[r] \subseteq Runs
      BY <1>4 DEF Ready
    <2>1. disk'[d].audit /\ disk'[d].manifest # "none"
      BY <1>4, Stays
    <2>2. CASE disk[d].claim
      BY <1>2, <1>4, <2>1, <2>2, Stays DEF ZeroHolds, Holds
    <2>3. CASE ~disk[d].claim
      <3>1. /\ disk[d].verify # "none" /\ (disk[d].verify = "pass" \/ TakenBack(r))
            /\ Rivals(d) \subseteq rivals[r]
        BY <1>4, <2>3 DEF Holds
      <3> HIDE DEF d
      <3>2. disk'[d].verify # "none"
        BY <2>0, <3>1, Stays
      <3>3. TakenBack(r) => TakenBack(r)'
        <4>1. ASSUME NEW q \in Runs, word[q] = "fail" PROVE word'[q] = "fail"
          <5>1. pc[q] # "verifier"
            BY <4>1 DEF CustodyInv, Answered, After
          <5>2. ~VerifierAnswers(q)
            BY <5>1 DEF VerifierAnswers
          <5>3. QED
            BY <4>1, <5>2, WhoMoves DEF Frame, Moves, locals, outcome
        <4>2. QED
          BY <1>2, <2>0, <4>1 DEF TakenBack
      <3>4. disk'[d].verify = "pass" \/ TakenBack(r)'
        <4>1. CASE disk'[d].verify = disk[d].verify
          BY <3>1, <3>3, <4>1
        <4>2. CASE ReportedByEngine(d)
          <5>1. disk[d].verify = Verifier(disk[d].manifest)
            BY <2>0, <3>1, <4>2 DEF ReportedByEngine, CustodyInv, OneWord
          <5>2. QED
            BY <4>1, <4>2, <5>1 DEF ReportedByEngine
        <4>3. ASSUME NEW q \in Runs, AttestedBy(q, d)
              PROVE  disk'[d].verify = "pass" \/ TakenBack(r)'
          <5>1. q \in rivals[r] /\ word'[q] = word[q] /\ disk'[d].verify = word[q]
            BY <3>1, <4>3 DEF AttestedBy, Rivals, locals, outcome
          <5>2. word[q] \in Words /\ word[q] # "none"
            BY <4>3 DEF AttestedBy, Ready, IInv, StateType
          <5>3. QED
            BY <1>2, <5>1, <5>2 DEF TakenBack, Words
        <4>4. QED
          BY <2>0, <4>1, <4>2, <4>3, SealStep
             DEF SameSeal, SealedByAgent, SealedByEngine
      <3>5. Rivals(d)' \subseteq rivals'[r]
        <4>1. ASSUME NEW q \in Runs, target'[q] = d, Verifying(q)'
              PROVE  q \in Rivals(d)
          <5>1. ~LookForAttestation(q) \/ target[q] # d
            BY <3>1 DEF LookForAttestation, Target
          <5>2. LookForAttestation(q) => target[q] = d
            BY <4>1 DEF LookForAttestation, locals
          <5>3. QED
            BY <4>1, <5>1, <5>2, VerifyingKept DEF Rivals, Ready
        <4>2. QED
          BY <1>2, <3>1, <4>1 DEF Rivals, d
      <3>6. Holds(r)'
        BY <1>2, <3>2, <3>4, <3>5 DEF Holds, d
      <3>7. QED
        BY <1>2, <2>0, <2>1, <3>6 DEF ZeroHolds, d
    <2>4. QED
      BY <2>2, <2>3
  <1>5. QED
    BY <1>1, <1>3, <1>4 DEF ZeroHolds

LEMMA CustodyStep ==
  ASSUME Ready, CustodyInv, [Next]_vars PROVE CustodyInv'
  <1>1. ASSUME NEW r \in Runs PROVE ZeroHolds(r)'
    BY ZeroComes, ZeroStays DEF ZeroHolds
  <1>2. ASSUME NEW r \in Runs PROVE OneWord(r)'
    BY OneWordStep DEF OneWord
  <1>3. QED
    BY <1>1, <1>2, AnsweredStep DEF CustodyInv

LEMMA CustodyStart == Init => CustodyInv
  <1> SUFFICES ASSUME Init PROVE CustodyInv
    OBVIOUS
  <1>1. None \notin Dirs /\ None # 0
    BY InvestigateAssumption
  <1>2. QED
    BY <1>1 DEF Init, CustodyInv, Answered, OneWord, ZeroHolds, Finishing

\* Whatever the interleaving: every run is where its gates and its own
\* directory allow it to be; directories only gain artifacts, in their order;
\* a verifier's answer is about a sealed directory; all answers about an
\* engine's directory agree; and a success rests on a verification that only a
\* rival verifying at the time can take back.
THEOREM InductiveInvariant == Spec => [](Ready /\ CustodyInv)
  <1>1. Init => Ready /\ CustodyInv
    <2>1. Init => rivals \in [Runs -> SUBSET Runs]
      BY DEF Init
    <2>2. QED
      BY <2>1, InitInv, LifeStart, CustodyStart DEF Ready
  <1>2. Ready /\ CustodyInv /\ [Next]_vars => Ready' /\ CustodyInv'
    BY NextInv, LifeStep, RivalsType, CustodyStep DEF Ready
  <1>3. QED
    BY <1>1, <1>2, PTL DEF Spec

\* A run that has exited 0 after verifying keeps a sealed directory with a
\* passing verification or a claim of one, whatever any run, agent or engine
\* writes afterwards; the one exception is a run that was verifying the same
\* directory at that moment and whose verifier failed it
\* (finalizeManifestVerify of investigate.ts looks, waits and writes).
THEOREM ZeroStaysVerifiedAlways == Spec => []ZeroStaysVerified
  <1>1. CustodyInv => ZeroStaysVerified
    <2>1. None \notin Dirs
      BY InvestigateAssumption
    <2>2. QED
      BY <2>1 DEF CustodyInv, ZeroHolds, Holds, ZeroStaysVerified
  <1>2. QED
    BY <1>1, InductiveInvariant, PTL
=============================================================================
