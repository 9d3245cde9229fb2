----------------------------- MODULE FleetProofs -----------------------------
(***************************************************************************)
(* Theorems about Fleet, for every set of directories and investigations   *)
(* and every bound.                                                        *)
(***************************************************************************)
EXTENDS Fleet, TLAPS

-----------------------------------------------------------------------------
(* Types of what status.rs returns.                                        *)

LEMMA ParseType == ASSUME NEW c \in CaseDisk PROVE ParseAudit(c) \in Parsed
  BY DEF ParseAudit, Parsed, CaseDisk

LEMMA FingerprintType ==
  ASSUME NEW c \in CaseDisk PROVE Fingerprint(c) \in Fingerprints
  BY DEF Fingerprint, Fingerprints, CaseDisk

LEMMA RecentType ==
  ASSUME NEW c \in CaseDisk
  PROVE Recent(c) \in BOOLEAN /\ HasAudit(c) \in BOOLEAN
  BY DEF Recent, HasAudit, CaseDisk

LEMMA StateType ==
  ASSUME NEW l, NEW m, NEW r PROVE DecideState(l, m, r) \in RunState
  BY DEF DecideState, RunState

LEMMA DeriveType ==
  ASSUME NEW d \in Dirs, NEW c, NEW a \in Parsed, NEW r
  PROVE DeriveStatus(d, c, a, r) \in Status
  <1>1. DeriveCustody(c, a) \in Custody
    BY DEF DeriveCustody, Custody
  <1>2. QED
    BY <1>1, StateType DEF DeriveStatus, Status, Parsed

LEMMA RestatType ==
  ASSUME NEW c, NEW e \in Status PROVE RefreshStatus(c, e) \in Status
  BY StateType DEF RefreshStatus, Status

LEMMA AbsentType == Absent \in CaseDisk
  BY DEF Absent, CaseDisk, Kinds, NoKind, Verdicts

LEMMA ScanType ==
  ASSUME NEW dk \in [Dirs -> CaseDisk] PROVE Scan(dk) \in Seq(Status)
  <1>1. \A i \in DOMAIN ArgDirs : ArgDirs[i] \in Dirs
    BY ConstantsAssumption
  <1>2. \A i \in DOMAIN ArgDirs : Scan(dk)[i] \in Status
    BY <1>1, DeriveType, ParseType DEF Scan
  <1>3. DOMAIN Scan(dk) = 1..Len(ArgDirs) /\ Len(ArgDirs) \in Nat
    BY ConstantsAssumption DEF Scan
  <1>4. Scan(dk) \in [1..Len(ArgDirs) -> Status]
    BY <1>2, <1>3 DEF Scan
  <1>5. QED
    BY <1>3, <1>4

-----------------------------------------------------------------------------
(* Type correctness.                                                       *)

LEMMA InitType == Init => TypeOK
  <1> SUFFICES ASSUME Init PROVE TypeOK
    OBVIOUS
  <1>1. disk \in [Dirs -> CaseDisk]
    <2>1. \A dk \in StartingDisks : dk \in CaseDisk
      <3>1. [Absent EXCEPT !.made = TRUE] \in CaseDisk
        BY AbsentType DEF CaseDisk
      <3>2. [Absent EXCEPT !.made = TRUE, !.size = 1, !.last = "work",
                           !.hot = TRUE] \in CaseDisk
        BY AbsentType DEF CaseDisk, Kinds
      <3>3. QED
        BY <3>1, <3>2, AbsentType DEF StartingDisks
    <2>2. QED
      BY <2>1 DEF Init
  <1>2. entries \in Seq(Status)
    BY <1>1, ScanType DEF Init
  <1>3. parsed \in Parsed
    BY AbsentType, ParseType DEF Init, NoParse
  <1>4. QED
    BY <1>1, <1>2, <1>3 DEF Init, TypeOK, Steps

LEMMA WriteType ==
  ASSUME TypeOK, NEW d \in Dirs, NEW c \in CaseDisk, Write(d, c)
  PROVE  disk' \in [Dirs -> CaseDisk]
  BY DEF TypeOK, Write

LEMMA AppendedType ==
  ASSUME NEW c \in CaseDisk, NEW k \in Kinds PROVE Appended(c, k) \in CaseDisk
  <1> DEFINE a == [c EXCEPT !.size = @ + 1, !.last = k, !.hot = TRUE]
  <1>1. a \in CaseDisk
    <2>1. \A n \in Nat : [c EXCEPT !.size = n, !.last = k, !.hot = TRUE] \in CaseDisk
      BY DEF CaseDisk
    <2>2. c.size + 1 \in Nat
      BY DEF CaseDisk
    <2>3. QED
      BY <2>1, <2>2
  <1>2. [a EXCEPT !.sealed = TRUE] \in CaseDisk
    BY <1>1 DEF CaseDisk
  <1>3. Appended(c, k) = IF k = "seal" THEN [a EXCEPT !.sealed = TRUE] ELSE a
    BY Zenon DEF Appended
  <1>4. QED
    <2> HIDE DEF a
    <2> QED  BY <1>1, <1>2, <1>3, Zenon

\* What the investigations write stays a run directory.
LEMMA InvestigationsType == ASSUME TypeOK, Investigations PROVE TypeOK'
  <1> USE DEF fleet, tick
  <1>1. ASSUME NEW d \in Dirs, NEW w \in Procs \cup {Outsider}, CreateDir(w, d)
        PROVE TypeOK'
    <2>1. [disk[d] EXCEPT !.made = TRUE] \in CaseDisk
      BY DEF TypeOK, CaseDisk
    <2>2. QED
      BY <1>1, <2>1, WriteType DEF CreateDir, TypeOK
  <1>2. ASSUME NEW d \in Dirs, NEW k \in Kinds, AppendAudit(d, k) PROVE TypeOK'
    <2>1. Appended(disk[d], k) \in CaseDisk
      BY AppendedType DEF TypeOK
    <2>2. QED
      BY <1>2, <2>1, WriteType DEF AppendAudit, TypeOK
  <1>3. ASSUME NEW d \in Dirs, WriteManifest(d) PROVE TypeOK'
    <2>1. [disk[d] EXCEPT !.manifest = TRUE] \in CaseDisk
      BY DEF TypeOK, CaseDisk
    <2>2. QED
      BY <1>3, <2>1, WriteType DEF WriteManifest, TypeOK
  <1>4. ASSUME NEW d \in Dirs, Cool(d) PROVE TypeOK'
    <2>1. [disk[d] EXCEPT !.hot = FALSE] \in CaseDisk
      BY DEF TypeOK, CaseDisk
    <2>2. QED
      BY <1>4, <2>1, WriteType DEF Cool, TypeOK
  <1>5. ASSUME NEW d \in Dirs, NEW v \in {"fail", "pass"}, WriteVerify(d, v)
        PROVE TypeOK'
    <2>1. [disk[d] EXCEPT !.verify = v, !.passed = @ \/ disk[d].verify = "pass"]
            \in CaseDisk
      BY DEF TypeOK, CaseDisk, Verdicts
    <2>2. QED
      BY <1>5, <2>1, WriteType DEF WriteVerify, TypeOK
  <1>6. ASSUME NEW p \in Procs, Exit(p) PROVE TypeOK'
    BY <1>6 DEF Exit, TypeOK
  <1>7. QED
    BY <1>1, <1>2, <1>3, <1>4, <1>5, <1>6 DEF Investigations

LEMMA KillType ==
  ASSUME TypeOK, NEW ps, Kill(ps)
  PROVE  proc' \in [Procs -> {"unborn", "running", "exited", "killed"}]
  BY DEF TypeOK, Kill

\* The refresh is at a row, or at a launch, that exists.
RefreshPlace ==
  /\ pc \in {"restat", "parse", "derive"} => row \in DOMAIN entries
  /\ pc = "probe" => todo # <<>>

\* The drops of GiveUp and ReapSessions find nothing to kill.
LEMMA DropsAreHarmless ==
  ASSUME TypeOK, GiveUp \/ ReapSessions PROVE proc' = proc
  <1>1. CASE GiveUp
    BY <1>1 DEF GiveUp, DropLaunch, Kill, Running, TypeOK
  <1>2. CASE ReapSessions
    <2>1. \A p \in {sessions[d] : d \in {e \in Dirs : StillRunning[e] = None}} :
            p \in Procs => ~Running(p)
      BY ConstantsAssumption DEF StillRunning
    <2>2. QED
      BY <1>2, <2>1 DEF ReapSessions, Kill, TypeOK
  <1>3. QED
    BY <1>1, <1>2

LEMMA LaunchType ==
  ASSUME TypeOK, NEW p \in Procs, LaunchInvestigation(p) PROVE TypeOK'
  BY DEF LaunchInvestigation, TypeOK, tick, Launches, Made

LEMMA QuitType == ASSUME TypeOK, Quit PROVE TypeOK'
  BY KillType DEF Quit, TypeOK, Steps

LEMMA RefreshType ==
  ASSUME TypeOK, RefreshPlace, Refresh PROVE TypeOK'
  <1> USE DEF env
  <1>1. CASE StartRefresh
    BY <1>1 DEF StartRefresh, TypeOK, Steps
  <1>2. ASSUME NEW d \in Dirs, Adopt(d) PROVE TypeOK'
    <2>1. Head(todo) \in Launches /\ Tail(todo) \in Seq(Launches)
      BY <1>2 DEF Adopt, TypeOK
    <2>2. AdoptedEntry(d) \in Status
      BY DeriveType, ParseType DEF AdoptedEntry, TypeOK
    <2>3. entries' \in Seq(Status)
      BY <1>2, <2>2 DEF Adopt, WithEntry, TypeOK
    <2>4. sessions' \in [Dirs -> Procs \cup {None}]
      BY <1>2, <2>1 DEF Adopt, TypeOK, Launches
    <2>5. proc' \in [Procs -> {"unborn", "running", "exited", "killed"}]
      BY <1>2, KillType DEF Adopt
    <2>6. QED
      BY <1>2, <2>1, <2>3, <2>4, <2>5 DEF Adopt, TypeOK
  <1>3. CASE KeepWaiting
    <2>1. Head(todo) \in Launches /\ Tail(todo) \in Seq(Launches)
      BY <1>3 DEF KeepWaiting, TypeOK, RefreshPlace
    <2>2. QED
      BY <1>3, <2>1 DEF KeepWaiting, TypeOK, Steps
  <1>4. CASE GiveUp
    <2>1. Tail(todo) \in Seq(Launches)
      BY <1>4 DEF GiveUp, TypeOK, RefreshPlace
    <2>2. QED
      BY <1>4, <2>1, DropsAreHarmless DEF GiveUp, DropLaunch, TypeOK, Steps
  <1>5. CASE EndResolve
    BY <1>5 DEF EndResolve, TypeOK, Steps
  <1>6. CASE ReapSessions
    BY <1>6, DropsAreHarmless DEF ReapSessions, StillRunning, TypeOK, Steps
  <1>7. CASE CheckUnchanged
    BY <1>7 DEF CheckUnchanged, TypeOK, Steps
  <1>8. CASE CheckChanged
    <2>1. Entry \in Status
      BY <1>8 DEF CheckChanged, Entry, TypeOK
    <2>2. Fingerprint(disk[Entry.dir]) \in Fingerprints
      BY <2>1, FingerprintType DEF Status, TypeOK
    <2>3. QED
      BY <1>8, <2>2 DEF CheckChanged, TypeOK, Steps
  <1>9. CASE Restat
    <2>1. Entry \in Status /\ row \in DOMAIN entries
      BY <1>9 DEF Restat, Entry, TypeOK, RefreshPlace
    <2>2. RefreshStatus(disk[Entry.dir], Entry) \in Status
      BY <2>1, RestatType
    <2>3. QED
      BY <1>9, <2>1, <2>2 DEF Restat, NextRow, TypeOK, Steps
  <1>10. CASE Parse
    <2>1. Entry \in Status
      BY <1>10 DEF Parse, Entry, TypeOK, RefreshPlace
    <2>2. parsed' \in Parsed
      BY <1>10, <2>1, ParseType DEF Parse, Status, TypeOK
    <2>3. QED
      BY <1>10, <2>2 DEF Parse, TypeOK, Steps
  <1>11. CASE Derive
    <2>1. Entry \in Status /\ row \in DOMAIN entries
      BY <1>11 DEF Derive, Entry, TypeOK, RefreshPlace
    <2>2. DeriveStatus(Entry.dir, disk[Entry.dir], parsed,
                       Recent(disk[Entry.dir])) \in Status
      BY <2>1, DeriveType DEF Status, TypeOK
    <2>3. NoParse \in Parsed
      BY AbsentType, ParseType DEF NoParse
    <2>4. QED
      BY <1>11, <2>1, <2>2, <2>3 DEF Derive, NextRow, TypeOK, Steps
  <1>12. CASE EndRefresh
    BY <1>12 DEF EndRefresh, TypeOK, Steps
  <1>13. CASE FindNothing
    BY <1>13 DEF FindNothing, TypeOK, Steps
  <1>14. QED
    BY <1>1, <1>2, <1>3, <1>4, <1>5, <1>6, <1>7, <1>8, <1>9, <1>10, <1>11,
       <1>12, <1>13 DEF Refresh

LEMMA RowStaysInRange ==
  ASSUME TypeOK, RefreshPlace, [Next]_vars PROVE RefreshPlace'
  <1>1. ASSUME Refresh PROVE RefreshPlace'
    <2> USE DEF RefreshPlace, TypeOK
    <2>1. CASE StartRefresh \/ FindNothing \/ KeepWaiting \/ GiveUp \/ EndResolve
               \/ ReapSessions
      BY <2>1 DEF StartRefresh, FindNothing, KeepWaiting, GiveUp, DropLaunch,
         EndResolve, ReapSessions
    <2>2. ASSUME NEW d \in Dirs, Adopt(d) PROVE RefreshPlace'
      BY <2>2 DEF Adopt
    <2>3. CASE CheckUnchanged \/ CheckChanged
      BY <2>3 DEF CheckUnchanged, CheckChanged
    <2>4. CASE Restat \/ Derive \/ EndRefresh
      BY <2>4 DEF Restat, Derive, EndRefresh, NextRow
    <2>5. CASE Parse
      BY <2>5 DEF Parse
    <2>6. QED
      BY <1>1, <2>1, <2>2, <2>3, <2>4, <2>5 DEF Refresh
  <1>2. ASSUME Investigations PROVE RefreshPlace'
    BY <1>2 DEF Investigations, CreateDir, AppendAudit, WriteManifest,
       WriteVerify, Cool, Exit, fleet, tick, RefreshPlace
  <1>3. ASSUME NEW p \in Procs, LaunchInvestigation(p) PROVE RefreshPlace'
    BY <1>3 DEF LaunchInvestigation, tick, RefreshPlace
  <1>4. CASE Quit
    BY <1>4 DEF Quit, RefreshPlace
  <1>5. CASE UNCHANGED vars
    BY <1>5 DEF vars, tick, RefreshPlace
  <1>6. QED
    BY <1>1, <1>2, <1>3, <1>4, <1>5 DEF Next

LEMMA StepType == ASSUME TypeOK, RefreshPlace, [Next]_vars PROVE TypeOK'
  <1>1. CASE UNCHANGED vars
    BY <1>1 DEF vars, tick, TypeOK
  <1>2. CASE Next
    BY <1>2, InvestigationsType, LaunchType, RefreshType, QuitType DEF Next
  <1>3. QED
    BY <1>1, <1>2

\* Every variable keeps its type, and the refresh stays on a row that exists
\* although the rows and the disk change between its steps.
THEOREM TypeCorrect == Spec => [](TypeOK /\ RefreshPlace)
  <1>1. Init => TypeOK /\ RefreshPlace
    BY InitType DEF Init, RefreshPlace
  <1>2. TypeOK /\ RefreshPlace /\ [Next]_vars => TypeOK' /\ RefreshPlace'
    BY StepType, RowStaysInRange
  <1>3. QED
    BY <1>1, <1>2, PTL DEF Spec

-----------------------------------------------------------------------------
(* Ownership of the launched processes.                                    *)

LEMMA NoLaunches == LaunchProcs(<<>>) = {} /\ Distinct(<<>>)
  BY DEF LaunchProcs, Distinct

LEMMA AppendLaunch ==
  ASSUME NEW ls \in Seq(Launches), NEW l \in Launches
  PROVE  /\ LaunchProcs(Append(ls, l)) = LaunchProcs(ls) \cup {l.session}
         /\ Distinct(ls) /\ l.session \notin LaunchProcs(ls)
              => Distinct(Append(ls, l))
  <1> DEFINE al == Append(ls, l)
  <1>1. /\ DOMAIN al = DOMAIN ls \cup {Len(ls) + 1}
        /\ \A i \in DOMAIN ls : al[i] = ls[i]
        /\ al[Len(ls) + 1] = l
        /\ Len(ls) + 1 \notin DOMAIN ls
    OBVIOUS
  <1> HIDE DEF al
  <1>2. LaunchProcs(al) = LaunchProcs(ls) \cup {l.session}
    BY <1>1 DEF LaunchProcs
  <1>3. Distinct(ls) /\ l.session \notin LaunchProcs(ls) => Distinct(al)
    BY <1>1 DEF LaunchProcs, Distinct
  <1>4. QED
    BY <1>2, <1>3 DEF al

LEMMA TailLaunch ==
  ASSUME NEW ls \in Seq(Launches), ls # <<>>
  PROVE  /\ LaunchProcs(ls) = LaunchProcs(Tail(ls)) \cup {Head(ls).session}
         /\ Distinct(ls) => /\ Distinct(Tail(ls))
                            /\ Head(ls).session \notin LaunchProcs(Tail(ls))
         /\ Head(ls) \in Launches /\ Tail(ls) \in Seq(Launches)
  <1> DEFINE tl == Tail(ls)
  <1>1. /\ Len(tl) = Len(ls) - 1 /\ DOMAIN tl = 1..Len(tl) /\ DOMAIN ls = 1..Len(ls)
        /\ \A i \in 1..Len(tl) : tl[i] = ls[i + 1]
        /\ Head(ls) = ls[1] /\ Len(ls) \in Nat \ {0}
    OBVIOUS
  <1>2. Head(ls) \in Launches /\ Tail(ls) \in Seq(Launches)
    OBVIOUS
  <1> HIDE DEF tl
  <1>3. \A i \in DOMAIN ls : i = 1 \/ (i - 1 \in DOMAIN tl /\ tl[i - 1] = ls[i])
    BY <1>1
  <1>4. \A i \in DOMAIN tl : i + 1 \in DOMAIN ls /\ tl[i] = ls[i + 1]
    BY <1>1
  <1>5. LaunchProcs(ls) = LaunchProcs(tl) \cup {Head(ls).session}
    BY <1>1, <1>3, <1>4 DEF LaunchProcs
  <1>6. ASSUME Distinct(ls) PROVE Distinct(tl) /\ Head(ls).session \notin LaunchProcs(tl)
    <2>1. Distinct(tl)
      BY <1>1, <1>4, <1>6 DEF Distinct
    <2>2. \A i \in DOMAIN tl : tl[i].session # ls[1].session
      BY <1>1, <1>4, <1>6 DEF Distinct
    <2>3. QED
      BY <1>1, <2>1, <2>2 DEF LaunchProcs
  <1>7. QED
    BY <1>2, <1>5, <1>6 DEF tl

\* What the fleet holds has been launched, and the taken launches exist only
\* while a refresh resolves them.
HeldWereBorn ==
  \A p \in SessionProcs \cup LaunchProcs(pending) \cup LaunchProcs(todo) :
    p \in Procs /\ proc[p] # "unborn"

TodoWhileResolving == pc \notin {"resolve", "probe"} => todo = <<>>

Ownership == TypeOK /\ RefreshPlace /\ OneOwner /\ HeldWereBorn /\ TodoWhileResolving

\* Steps that touch none of what ownership is about.
LEMMA OwnershipFrame ==
  ASSUME OneOwner, HeldWereBorn, TodoWhileResolving,
         UNCHANGED <<proc, sessions, pending, todo>>,
         pc' \notin {"resolve", "probe"} =>
           pc \notin {"resolve", "probe"} \/ todo = <<>>
  PROVE  OneOwner' /\ HeldWereBorn' /\ TodoWhileResolving'
  <1>1. /\ SessionProcs' = SessionProcs
        /\ LaunchProcs(pending)' = LaunchProcs(pending)
        /\ LaunchProcs(todo)' = LaunchProcs(todo)
    BY DEF SessionProcs, LaunchProcs
  <1>2. OneOwner'
    BY <1>1 DEF OneOwner, Distinct, Running
  <1>3. HeldWereBorn'
    BY <1>1 DEF HeldWereBorn
  <1>4. TodoWhileResolving'
    BY DEF TodoWhileResolving
  <1>5. QED
    BY <1>2, <1>3, <1>4

LEMMA OwnershipStep ==
  ASSUME Ownership, [Next]_vars
  PROVE  OneOwner' /\ HeldWereBorn' /\ TodoWhileResolving'
  <1> USE DEF Ownership, env, tick, fleet
  <1>1. CASE \/ \E d \in Dirs, w \in Procs \cup {Outsider} : CreateDir(w, d)
             \/ \E d \in Dirs, k \in Kinds : AppendAudit(d, k)
             \/ \E d \in Dirs : WriteManifest(d) \/ Cool(d)
             \/ \E d \in Dirs, v \in {"fail", "pass"} : WriteVerify(d, v)
             \/ UNCHANGED vars
    BY <1>1, OwnershipFrame DEF CreateDir, AppendAudit, WriteManifest, Cool,
       WriteVerify, vars, TodoWhileResolving
  <1>2. CASE \/ EndResolve \/ CheckUnchanged \/ CheckChanged \/ Restat \/ Parse
             \/ Derive \/ EndRefresh \/ FindNothing
    BY <1>2, OwnershipFrame DEF FindNothing, EndResolve, CheckUnchanged, CheckChanged, Restat,
       Parse, Derive, EndRefresh, NextRow, TodoWhileResolving
  <1>3. ASSUME NEW q \in Procs, Exit(q)
        PROVE  OneOwner' /\ HeldWereBorn' /\ TodoWhileResolving'
    <2>1. \A p \in Procs : /\ proc'[p] = "running" => proc[p] = "running"
                           /\ proc[p] # "unborn" => proc'[p] # "unborn"
      BY <1>3 DEF Exit, TypeOK
    <2>2. /\ SessionProcs' = SessionProcs /\ UNCHANGED <<sessions, pending, todo, pc>>
          /\ LaunchProcs(pending)' = LaunchProcs(pending)
          /\ LaunchProcs(todo)' = LaunchProcs(todo)
      BY <1>3 DEF Exit, SessionProcs, LaunchProcs
    <2>3. OneOwner'
      BY <2>1, <2>2 DEF OneOwner, Distinct, Running
    <2>4. HeldWereBorn'
      BY <2>1, <2>2 DEF HeldWereBorn
    <2>5. QED
      BY <2>2, <2>3, <2>4 DEF TodoWhileResolving
  <1>4. ASSUME NEW q \in Procs, LaunchInvestigation(q)
        PROVE  OneOwner' /\ HeldWereBorn' /\ TodoWhileResolving'
    <2> DEFINE l == [session |-> q, before |-> Made]
    <2>1. l \in Launches /\ l.session = q
      BY DEF Launches, Made
    <2>2. q \notin SessionProcs \cup LaunchProcs(pending) \cup LaunchProcs(todo)
      BY <1>4 DEF LaunchInvestigation, HeldWereBorn
    <2>3. pending' = Append(pending, l) /\ UNCHANGED <<sessions, todo, pc>>
      BY <1>4 DEF LaunchInvestigation
    <2>4. LaunchProcs(pending') = LaunchProcs(pending) \cup {q} /\ Distinct(pending')
      BY <2>1, <2>2, <2>3, AppendLaunch DEF OneOwner, TypeOK
    <2>5. LaunchProcs(todo)' = LaunchProcs(todo) /\ SessionProcs' = SessionProcs
      BY <2>3 DEF LaunchProcs, SessionProcs
    <2>6. \A p \in Procs : p # q => proc'[p] = proc[p]
      BY <1>4 DEF LaunchInvestigation, TypeOK
    <2>7. proc'[q] = "running"
      BY <1>4 DEF LaunchInvestigation, TypeOK
    <2>8. OneOwner'
      BY <2>2, <2>3, <2>4, <2>5, <2>6 DEF OneOwner, Running, Distinct
    <2>9. HeldWereBorn'
      BY <2>4, <2>5, <2>6, <2>7 DEF HeldWereBorn
    <2>10. QED
      BY <2>3, <2>8, <2>9 DEF TodoWhileResolving
  <1>5. CASE Quit
    <2>1. SessionProcs' = {} /\ LaunchProcs(pending)' = {} /\ LaunchProcs(todo)' = {}
      BY <1>5, NoLaunches DEF Quit, SessionProcs, LaunchProcs, TodoWhileResolving
    <2>2. \A p \in Procs : proc'[p] # "running"
      <3>1. \A p \in Procs : proc[p] = "running" =>
              p \in SessionProcs \cup LaunchProcs(pending)
        BY <1>5, NoLaunches DEF Quit, OneOwner, Running, TodoWhileResolving
      <3>2. QED
        BY <1>5, <3>1 DEF Quit, Kill, Running
    <2>3. Distinct(pending') /\ Distinct(todo') /\ todo' = <<>>
      BY <1>5, NoLaunches DEF Quit, TodoWhileResolving
    <2>4. QED
      BY <1>5, <2>1, <2>2, <2>3 DEF Quit, OneOwner, HeldWereBorn, Running,
         TodoWhileResolving, Distinct
  <1>6. CASE StartRefresh
    <2>1. /\ LaunchProcs(todo)' = LaunchProcs(pending) /\ LaunchProcs(pending)' = {}
          /\ Distinct(todo') /\ Distinct(pending') /\ LaunchProcs(todo) = {}
          /\ SessionProcs' = SessionProcs /\ UNCHANGED <<proc, sessions>>
      BY <1>6, NoLaunches DEF StartRefresh, LaunchProcs, SessionProcs,
         TodoWhileResolving, OneOwner
    <2>2. QED
      BY <1>6, <2>1 DEF StartRefresh, OneOwner, HeldWereBorn, TodoWhileResolving,
         Running, Distinct
  <1>7. ASSUME NEW d \in Dirs, Adopt(d)
        PROVE  OneOwner' /\ HeldWereBorn' /\ TodoWhileResolving'
    <2> DEFINE h == Head(todo).session
    <2>1. /\ LaunchProcs(todo) = LaunchProcs(todo') \cup {h}
          /\ Distinct(todo') /\ h \notin LaunchProcs(todo') /\ h \in Procs
      BY <1>7, TailLaunch DEF Adopt, OneOwner, TypeOK, Launches
    <2>2. /\ sessions' = [sessions EXCEPT ![d] = h] /\ UNCHANGED <<pending, pc>>
          /\ LaunchProcs(pending') = LaunchProcs(pending)
      BY <1>7 DEF Adopt, LaunchProcs
    <2> HIDE DEF h
    <2>3. h # None /\ h \notin SessionProcs /\ h \notin LaunchProcs(pending)
      BY <2>1, ConstantsAssumption DEF OneOwner
    <2>4. \A e \in Dirs : sessions'[e] = IF e = d THEN h ELSE sessions[e]
      BY <2>2 DEF TypeOK
    <2>5. SessionProcs' \subseteq SessionProcs \cup {h}
      BY <2>4 DEF SessionProcs
    <2>6. \A p \in SessionProcs \cup {h} : p \in SessionProcs' \/ p = sessions[d]
      BY <2>3, <2>4 DEF SessionProcs
    <2>7. \A e, f \in Dirs : sessions'[e] = sessions'[f] => e = f \/ sessions'[e] = None
      BY <2>3, <2>4 DEF SessionProcs, OneOwner
    <2>8. \A p \in Procs : /\ proc'[p] = "running" =>
                                proc[p] = "running" /\ p # sessions[d]
                           /\ proc[p] # "unborn" => proc'[p] # "unborn"
      BY <1>7 DEF Adopt, Kill, Running
    <2>9. OneOwner'
      <3>1. \A p \in Procs : proc'[p] = "running" =>
              p \in SessionProcs' \cup LaunchProcs(pending') \cup LaunchProcs(todo')
        BY <2>1, <2>2, <2>6, <2>8 DEF OneOwner, Running
      <3>2. /\ SessionProcs' \cap LaunchProcs(pending') = {}
            /\ SessionProcs' \cap LaunchProcs(todo') = {}
            /\ LaunchProcs(pending') \cap LaunchProcs(todo') = {}
        BY <2>1, <2>2, <2>3, <2>5 DEF OneOwner
      <3>3. Distinct(pending)' /\ Distinct(todo)'
        BY <2>1, <2>2 DEF OneOwner, Distinct
      <3>4. LaunchProcs(pending)' = LaunchProcs(pending') /\ LaunchProcs(todo)' = LaunchProcs(todo')
        BY DEF LaunchProcs
      <3>5. QED
        BY <2>7, <3>1, <3>2, <3>3, <3>4 DEF OneOwner, Running
    <2>10. HeldWereBorn'
      <3>1. LaunchProcs(pending)' = LaunchProcs(pending') /\ LaunchProcs(todo)' = LaunchProcs(todo')
        BY DEF LaunchProcs
      <3>2. QED
        BY <2>1, <2>2, <2>5, <2>8, <3>1 DEF HeldWereBorn
    <2>11. QED
      BY <1>7, <2>9, <2>10 DEF Adopt, TodoWhileResolving
  <1>8. CASE KeepWaiting
    <2> DEFINE h == Head(todo)
    <2>1. /\ LaunchProcs(todo) = LaunchProcs(todo') \cup {h.session}
          /\ Distinct(todo') /\ h.session \notin LaunchProcs(todo') /\ h \in Launches
      BY <1>8, TailLaunch DEF KeepWaiting, OneOwner, TypeOK, RefreshPlace
    <2>2. /\ LaunchProcs(pending') = LaunchProcs(pending) \cup {h.session}
          /\ Distinct(pending')
      BY <1>8, <2>1, AppendLaunch DEF KeepWaiting, OneOwner, TypeOK
    <2>3. UNCHANGED <<proc, sessions>> /\ SessionProcs' = SessionProcs
      BY <1>8 DEF KeepWaiting, SessionProcs
    <2> HIDE DEF h
    <2>4. LaunchProcs(pending)' = LaunchProcs(pending') /\ LaunchProcs(todo)' = LaunchProcs(todo')
      BY DEF LaunchProcs
    <2>5. OneOwner'
      BY <2>1, <2>2, <2>3, <2>4 DEF OneOwner, Running, Distinct
    <2>6. HeldWereBorn'
      BY <2>1, <2>2, <2>3, <2>4 DEF HeldWereBorn
    <2>7. QED
      BY <1>8, <2>5, <2>6 DEF KeepWaiting, TodoWhileResolving
  <1>9. CASE GiveUp
    <2> DEFINE h == Head(todo)
    <2>1. /\ LaunchProcs(todo) = LaunchProcs(todo') \cup {h.session}
          /\ Distinct(todo')
      BY <1>9, TailLaunch DEF GiveUp, DropLaunch, OneOwner, TypeOK, RefreshPlace
    <2>2. UNCHANGED <<proc, sessions, pending>> /\ SessionProcs' = SessionProcs
      BY <1>9, DropsAreHarmless DEF GiveUp, DropLaunch, SessionProcs
    <2>3. ~Running(h.session)
      BY <1>9 DEF GiveUp
    <2> HIDE DEF h
    <2>4. LaunchProcs(pending)' = LaunchProcs(pending) /\ LaunchProcs(todo)' = LaunchProcs(todo')
      BY <2>2 DEF LaunchProcs
    <2>5. OneOwner'
      BY <2>1, <2>2, <2>3, <2>4 DEF OneOwner, Running, Distinct
    <2>6. HeldWereBorn'
      BY <2>1, <2>2, <2>4 DEF HeldWereBorn
    <2>7. QED
      BY <1>9, <2>5, <2>6 DEF GiveUp, DropLaunch, TodoWhileResolving
  <1>10. CASE ReapSessions
    <2>1. UNCHANGED <<proc, pending, todo>> /\ sessions' = StillRunning
      BY <1>10, DropsAreHarmless DEF ReapSessions
    <2>2. \A d \in Dirs : /\ sessions'[d] # None => sessions'[d] = sessions[d]
                          /\ sessions[d] \in Procs /\ Running(sessions[d])
                               => sessions'[d] = sessions[d]
      BY <2>1 DEF StillRunning
    <2>3. SessionProcs' \subseteq SessionProcs
      BY <2>2 DEF SessionProcs
    <2>4. \A p \in SessionProcs : p \in Procs /\ Running(p) => p \in SessionProcs'
      BY <2>2 DEF SessionProcs
    <2>5. LaunchProcs(pending)' = LaunchProcs(pending) /\ LaunchProcs(todo)' = LaunchProcs(todo)
      BY <2>1 DEF LaunchProcs
    <2>6. OneOwner'
      BY <2>1, <2>2, <2>3, <2>4, <2>5 DEF OneOwner, Running, Distinct
    <2>7. HeldWereBorn'
      BY <2>1, <2>3, <2>5 DEF HeldWereBorn
    <2>8. QED
      BY <1>10, <2>6, <2>7 DEF ReapSessions, TodoWhileResolving
  <1>11. QED
    BY <1>1, <1>2, <1>3, <1>4, <1>5, <1>6, <1>7, <1>8, <1>9, <1>10
       DEF Next, Investigations, Refresh

LEMMA OwnershipInit == Init => OneOwner /\ HeldWereBorn /\ TodoWhileResolving
  <1> SUFFICES ASSUME Init PROVE OneOwner /\ HeldWereBorn /\ TodoWhileResolving
    OBVIOUS
  <1>1. SessionProcs = {} /\ LaunchProcs(pending) = {} /\ LaunchProcs(todo) = {}
    BY NoLaunches DEF Init, SessionProcs
  <1>2. Distinct(pending) /\ Distinct(todo)
    BY NoLaunches DEF Init
  <1>3. QED
    BY <1>1, <1>2 DEF Init, OneOwner, HeldWereBorn, TodoWhileResolving, Running

\* Every running launched investigation is held in exactly one place, through
\* adoptions that collide, reaps, give-ups and the end of the fleet.
THEOREM OneOwnerAlways == Spec => []OneOwner
  <1>1. Init => OneOwner /\ HeldWereBorn /\ TodoWhileResolving
    BY OwnershipInit
  <1>2. TypeOK /\ RefreshPlace /\ OneOwner /\ HeldWereBorn /\ TodoWhileResolving
          /\ [Next]_vars
          => OneOwner' /\ HeldWereBorn' /\ TodoWhileResolving'
    BY OwnershipStep DEF Ownership
  <1>3. QED
    BY <1>1, <1>2, TypeCorrect, PTL DEF Spec

-----------------------------------------------------------------------------
(* What a step does to the rows and to the run directories.                *)

\* Rows are only ever added, and keep their directory.
LEMMA RowsStay ==
  ASSUME TypeOK, RefreshPlace, [Next]_vars
  PROVE  /\ DOMAIN entries \subseteq DOMAIN entries'
         /\ \A i \in DOMAIN entries : entries'[i].dir = entries[i].dir
  <1>1. CASE UNCHANGED entries
    BY <1>1
  <1>2. ASSUME NEW d \in Dirs, Adopt(d)
        PROVE  /\ DOMAIN entries \subseteq DOMAIN entries'
               /\ \A i \in DOMAIN entries : entries'[i].dir = entries[i].dir
    BY <1>2 DEF Adopt, WithEntry, TypeOK
  <1>3. CASE Restat
    BY <1>3 DEF Restat, RefreshStatus, Entry, RefreshPlace, TypeOK, Status
  <1>4. CASE Derive
    BY <1>4 DEF Derive, DeriveStatus, Entry, RefreshPlace, TypeOK
  <1>5. QED
    BY <1>1, <1>2, <1>3, <1>4 DEF Next, Investigations, Refresh, vars, fleet,
       tick, CreateDir, AppendAudit, WriteManifest, WriteVerify, Cool, Exit,
       LaunchInvestigation, Quit, StartRefresh, FindNothing, KeepWaiting, GiveUp, DropLaunch, EndResolve,
       ReapSessions, CheckUnchanged, CheckChanged, Parse, EndRefresh

\* A directory's seal, once there, stays: the audit log only grows, and a
\* manifest_verify.json that passed is remembered.
LEMMA SealsStay ==
  ASSUME TypeOK, [Next]_vars, NEW d \in Dirs
  PROVE  /\ disk[d].sealed => disk'[d].sealed
         /\ Sealed(disk[d]) => Sealed(disk'[d])
  <1> USE DEF Sealed, HasAudit, ManifestVerified, ParseAudit
  <1>1. disk[d] \in CaseDisk
    BY DEF TypeOK
  <1>2. CASE UNCHANGED disk
    BY <1>2
  <1>3. ASSUME NEW e \in Dirs, NEW w \in Procs \cup {Outsider}, CreateDir(w, e)
        PROVE  /\ disk[d].sealed => disk'[d].sealed
               /\ Sealed(disk[d]) => Sealed(disk'[d])
    BY <1>1, <1>3 DEF CreateDir, Write, TypeOK, CaseDisk
  <1>4. ASSUME NEW e \in Dirs, NEW k \in Kinds, AppendAudit(e, k)
        PROVE  /\ disk[d].sealed => disk'[d].sealed
               /\ Sealed(disk[d]) => Sealed(disk'[d])
    BY <1>1, <1>4 DEF AppendAudit, Appended, Write, TypeOK, CaseDisk
  <1>5. ASSUME NEW e \in Dirs, WriteManifest(e) \/ Cool(e)
        PROVE  /\ disk[d].sealed => disk'[d].sealed
               /\ Sealed(disk[d]) => Sealed(disk'[d])
    <2>1. CASE WriteManifest(e)
      BY <1>1, <2>1 DEF WriteManifest, Write, TypeOK, CaseDisk
    <2>2. CASE Cool(e)
      BY <1>1, <2>2 DEF Cool, Write, TypeOK, CaseDisk
    <2>3. QED
      BY <1>5, <2>1, <2>2
  <1>6. ASSUME NEW e \in Dirs, NEW v \in {"fail", "pass"}, WriteVerify(e, v)
        PROVE  /\ disk[d].sealed => disk'[d].sealed
               /\ Sealed(disk[d]) => Sealed(disk'[d])
    BY <1>1, <1>6 DEF WriteVerify, Write, TypeOK, CaseDisk
  <1>7. QED
    BY <1>2, <1>3, <1>4, <1>5, <1>6 DEF Next, Investigations, Refresh, vars, env,
       tick, Exit, LaunchInvestigation, Quit, StartRefresh, Adopt, FindNothing, KeepWaiting,
       GiveUp, DropLaunch, EndResolve, ReapSessions, CheckUnchanged, CheckChanged, Restat,
       Parse, Derive, EndRefresh

-----------------------------------------------------------------------------
(* Trust in what the grid shows.                                           *)

\* The audit parse of a row, when it is used, claims no seal the log lacks.
ParseIsTrue == pc = "derive" => (parsed.sealed => disk[Entry.dir].sealed)

LEMMA ParseStaysTrue ==
  ASSUME TypeOK, RefreshPlace, ParseIsTrue, [Next]_vars PROVE ParseIsTrue'
  <1>1. CASE Parse
    BY <1>1 DEF Parse, ParseIsTrue, ParseAudit, Entry, env
  <1>2. CASE pc' # "derive"
    BY <1>2 DEF ParseIsTrue
  <1>3. CASE UNCHANGED <<pc, row, parsed, entries>>
    <2>1. pc = "derive" => Entry.dir \in Dirs /\ Entry' = Entry
      <3>1. pc = "derive" => Entry \in Status
        BY DEF TypeOK, RefreshPlace, Entry
      <3>2. QED
        BY <1>3, <3>1 DEF Entry, Status
    <2>2. QED
      BY <1>3, <2>1, SealsStay DEF ParseIsTrue
  <1>4. QED
    BY <1>1, <1>2, <1>3 DEF Next, Investigations, Refresh, vars, fleet, tick,
       CreateDir, AppendAudit, WriteManifest, WriteVerify, Cool, Exit,
       LaunchInvestigation, Quit, StartRefresh, Adopt, FindNothing, KeepWaiting, GiveUp, DropLaunch,
       EndResolve, ReapSessions, CheckUnchanged, CheckChanged, Restat, Derive,
       EndRefresh, NextRow

LEMMA DerivedIsTrue ==
  ASSUME NEW d, NEW c, NEW a, NEW r, a.sealed => c.sealed,
         DeriveStatus(d, c, a, r).custody = "Complete"
  PROVE  Sealed(c)
  BY DEF DeriveStatus, DeriveCustody, Sealed, HasAudit, ManifestVerified

LEMMA ClaimsStayTrue ==
  ASSUME TypeOK, RefreshPlace, ParseIsTrue, NeverOverclaims, [Next]_vars
  PROVE  NeverOverclaims'
  <1>1. \A i \in DOMAIN entries : entries[i] \in Status /\ entries[i].dir \in Dirs
    <2>1. \A i \in DOMAIN entries : entries[i] \in Status
      BY DEF TypeOK
    <2>2. QED
      BY <2>1 DEF Status
  <1>2. CASE UNCHANGED entries
    BY <1>1, <1>2, SealsStay DEF NeverOverclaims
  <1>3. ASSUME NEW d \in Dirs, Adopt(d) PROVE NeverOverclaims'
    <2>1. UNCHANGED disk
      BY <1>3 DEF Adopt
    <2>2. AdoptedEntry(d).custody = "Complete" => Sealed(disk[d])
      BY DerivedIsTrue DEF AdoptedEntry, ParseAudit
    <2>3. AdoptedEntry(d).dir = d
      BY DEF AdoptedEntry, DeriveStatus
    <2>4. CASE entries' = entries
      BY <2>1, <2>4 DEF NeverOverclaims
    <2>5. CASE entries' = Append(entries, AdoptedEntry(d))
      <3>1. \A i \in DOMAIN entries' :
              \/ i \in DOMAIN entries /\ entries'[i] = entries[i]
              \/ entries'[i] = AdoptedEntry(d)
        BY <2>5 DEF TypeOK
      <3>2. QED
        BY <2>1, <2>2, <2>3, <3>1 DEF NeverOverclaims
    <2>6. QED
      BY <1>3, <2>4, <2>5 DEF Adopt, WithEntry
  <1>4. CASE Restat
    <2>1. UNCHANGED disk /\ DOMAIN entries' = DOMAIN entries
      BY <1>4 DEF Restat, env, TypeOK
    <2>2. \A i \in DOMAIN entries : /\ entries'[i].dir = entries[i].dir
                                    /\ entries'[i].custody = entries[i].custody
      BY <1>1, <1>4 DEF Restat, RefreshStatus, Entry, RefreshPlace, TypeOK, Status
    <2>3. QED
      BY <2>1, <2>2 DEF NeverOverclaims
  <1>5. CASE Derive
    <2> DEFINE new == DeriveStatus(Entry.dir, disk[Entry.dir], parsed,
                                   Recent(disk[Entry.dir]))
    <2>1. UNCHANGED disk /\ DOMAIN entries' = DOMAIN entries /\ row \in DOMAIN entries
      BY <1>5 DEF Derive, env, TypeOK, RefreshPlace
    <2>2. \A i \in DOMAIN entries : entries'[i] = IF i = row THEN new ELSE entries[i]
      BY <1>5, <2>1 DEF Derive, TypeOK
    <2>3. new.custody = "Complete" => Sealed(disk[Entry.dir])
      BY <1>5, DerivedIsTrue DEF Derive, ParseIsTrue
    <2>4. new.dir = Entry.dir
      BY DEF DeriveStatus
    <2> HIDE DEF new
    <2>5. QED
      BY <2>1, <2>2, <2>3, <2>4 DEF NeverOverclaims
  <1>6. QED
    BY <1>2, <1>3, <1>4, <1>5 DEF Next, Investigations, Refresh, vars, fleet,
       tick, CreateDir, AppendAudit, WriteManifest, WriteVerify, Cool, Exit,
       LaunchInvestigation, Quit, StartRefresh, FindNothing, KeepWaiting, GiveUp, DropLaunch, EndResolve,
       ReapSessions, CheckUnchanged, CheckChanged, Parse, EndRefresh

LEMMA ClaimsInit == Init => ParseIsTrue /\ NeverOverclaims
  <1> SUFFICES ASSUME Init PROVE ParseIsTrue /\ NeverOverclaims
    OBVIOUS
  <1>1. ASSUME NEW i \in DOMAIN entries, entries[i].custody = "Complete"
        PROVE  Sealed(disk[entries[i].dir])
    <2> DEFINE c == disk[ArgDirs[i]]
    <2>1. entries[i] = DeriveStatus(ArgDirs[i], c, ParseAudit(c), Recent(c))
      BY <1>1 DEF Init, Scan
    <2>2. entries[i].dir = ArgDirs[i]
      BY <2>1 DEF DeriveStatus
    <2>3. QED
      BY <1>1, <2>1, <2>2, DerivedIsTrue DEF ParseAudit
  <1>2. QED
    BY <1>1 DEF Init, ParseIsTrue, NeverOverclaims

\* The grid never claims a complete custody the directory does not have,
\* whatever is written between the reads of a refresh.
THEOREM NeverOverclaimsAlways == Spec => []NeverOverclaims
  <1>1. Init => ParseIsTrue /\ NeverOverclaims
    BY ClaimsInit
  <1>2. TypeOK /\ RefreshPlace /\ ParseIsTrue /\ NeverOverclaims /\ [Next]_vars
          => ParseIsTrue' /\ NeverOverclaims'
    BY ParseStaysTrue, ClaimsStayTrue
  <1>3. QED
    BY <1>1, <1>2, TypeCorrect, PTL DEF Spec

-----------------------------------------------------------------------------
(* Sessions and rows.                                                      *)

LEMMA RowsForSessions ==
  ASSUME TypeOK, RefreshPlace, SessionHasRow, [Next]_vars PROVE SessionHasRow'
  <1>1. Tracked \subseteq Tracked'
    BY RowsStay DEF Tracked
  <1>2. CASE \A d \in Dirs : sessions'[d] \in {sessions[d], None}
    BY <1>1, <1>2 DEF SessionHasRow
  <1>3. ASSUME NEW d \in Dirs, Adopt(d) PROVE SessionHasRow'
    <2>1. d \in Tracked'
      <3>1. CASE d \in Tracked
        BY <1>1, <3>1
      <3>2. CASE entries' = Append(entries, AdoptedEntry(d))
        <4>1. AdoptedEntry(d).dir = d
          BY DEF AdoptedEntry, DeriveStatus
        <4>2. entries'[Len(entries) + 1] = AdoptedEntry(d)
              /\ Len(entries) + 1 \in DOMAIN entries'
          BY <3>2 DEF TypeOK
        <4>3. QED
          BY <4>1, <4>2 DEF Tracked
      <3>3. QED
        BY <1>3, <3>1, <3>2 DEF Adopt, WithEntry
    <2>2. \A e \in Dirs : e # d => sessions'[e] = sessions[e]
      BY <1>3 DEF Adopt, TypeOK
    <2>3. QED
      BY <1>1, <2>1, <2>2 DEF SessionHasRow
  <1>4. QED
    BY <1>2, <1>3 DEF Next, Investigations, Refresh, vars, fleet, env, tick,
       CreateDir, AppendAudit, WriteManifest, WriteVerify, Cool, Exit,
       LaunchInvestigation, Quit, StartRefresh, FindNothing, KeepWaiting, GiveUp, DropLaunch, EndResolve,
       ReapSessions, StillRunning, CheckUnchanged, CheckChanged, Restat, Parse,
       Derive, EndRefresh

\* A tracked session always has a row in the grid.
THEOREM SessionHasRowAlways == Spec => []SessionHasRow
  <1>1. Init => SessionHasRow
    BY DEF Init, SessionHasRow
  <1>2. TypeOK /\ RefreshPlace /\ SessionHasRow /\ [Next]_vars => SessionHasRow'
    BY RowsForSessions
  <1>3. QED
    BY <1>1, <1>2, TypeCorrect, PTL DEF Spec

-----------------------------------------------------------------------------
(* Kills.                                                                  *)

LEMMA KillNeedsCollision ==
  ASSUME Ownership, [Next]_vars, NEW p \in Procs, Running(p), proc'[p] = "killed"
  PROVE  \/ pc' = "down"
         \/ \E d \in Dirs : sessions[d] = p /\ sessions'[d] \notin {p, None}
  <1>1. proc' # proc
    BY DEF Running
  <1>2. ASSUME NEW q \in Procs, Exit(q) \/ LaunchInvestigation(q) PROVE FALSE
    BY <1>2 DEF Exit, LaunchInvestigation, Running, Ownership, TypeOK
  <1>3. ASSUME NEW d \in Dirs, Adopt(d)
        PROVE  sessions[d] = p /\ sessions'[d] \notin {p, None}
    <2>1. sessions[d] = p
      BY <1>3 DEF Adopt, Kill, Running
    <2>2. sessions'[d] = Head(todo).session /\ Head(todo).session \in LaunchProcs(todo)
          /\ Head(todo).session \in Procs
      <3>1. todo \in Seq(Launches) /\ todo # <<>>
        BY <1>3 DEF Adopt, Ownership, TypeOK
      <3>2. Head(todo).session \in LaunchProcs(todo) /\ Head(todo) \in Launches
        BY <3>1, TailLaunch
      <3>3. sessions'[d] = Head(todo).session
        BY <1>3 DEF Adopt, Ownership, TypeOK
      <3>4. QED
        BY <3>2, <3>3 DEF Launches
    <2>3. p \in SessionProcs
      BY <2>1, ConstantsAssumption DEF SessionProcs
    <2>4. QED
      BY <2>1, <2>2, <2>3, ConstantsAssumption DEF Ownership, OneOwner
  <1>4. ~(GiveUp \/ ReapSessions)
    BY <1>1, DropsAreHarmless DEF Ownership
  <1>5. QED
    BY <1>1, <1>2, <1>3, <1>4 DEF Next, Investigations, Refresh, vars, env, tick,
       CreateDir, AppendAudit, WriteManifest, WriteVerify, Cool, Quit,
       StartRefresh, FindNothing, KeepWaiting, EndResolve, CheckUnchanged,
       CheckChanged, Restat, Parse, Derive, EndRefresh

\* While it is up, the fleet ends a running investigation only by adopting the
\* same directory for another launch.
THEOREM KillsOnlyOnCollisionAlways == Spec => KillsOnlyOnCollision
  <1>1. Init => OneOwner /\ HeldWereBorn /\ TodoWhileResolving
    BY OwnershipInit
  <1>2. TypeOK /\ RefreshPlace /\ OneOwner /\ HeldWereBorn /\ TodoWhileResolving
          /\ [Next]_vars
          => OneOwner' /\ HeldWereBorn' /\ TodoWhileResolving'
    BY OwnershipStep DEF Ownership
  <1>3. TypeOK /\ RefreshPlace /\ OneOwner /\ HeldWereBorn /\ TodoWhileResolving
          /\ [Next]_vars
          => [\A p \in Procs : Running(p) /\ proc'[p] = "killed" =>
                \/ pc' = "down"
                \/ \E d \in Dirs : sessions[d] = p
                                   /\ sessions'[d] \notin {p, None}]_vars
    BY KillNeedsCollision DEF Ownership
  <1>4. QED
    BY <1>1, <1>2, <1>3, TypeCorrect, PTL DEF Spec, KillsOnlyOnCollision


-----------------------------------------------------------------------------
(* The cache: what a row keeps while its fingerprint holds.  A directory   *)
(* named twice on the command line shares one fingerprint between two      *)
(* rows, so the rows must be of different directories.                     *)

DistinctArgs == \A i, j \in DOMAIN ArgDirs : ArgDirs[i] = ArgDirs[j] => i = j

UniqueRows ==
  \A i, j \in DOMAIN entries : entries[i].dir = entries[j].dir => i = j

CurrentFacts(e, c) ==
  LET now == DeriveCustody(c, ParseAudit(c))
  IN  /\ e.records = c.size /\ e.last = c.last
      /\ \/ e.custody = now
         \/ e.custody = "CustodyInvalid" /\ now = "Complete" /\ ~c.sealed
         \/ e.custody = "Complete" /\ now = "CustodyInvalid" /\ c.passed

\* Between its new fingerprint and its derivation a row shows older facts.
BeingDerived(i) == pc \in {"parse", "derive"} /\ i = row

RowsCurrent ==
  \A i \in DOMAIN entries :
    UpToDate(i) /\ ~BeingDerived(i) => CurrentFacts(entries[i], disk[entries[i].dir])

\* The parse is of the log the fingerprint saw, unless the log has grown and
\* the fingerprint no longer holds.
ParseCurrent ==
  pc = "derive" /\ UpToDate(row) => parsed = ParseAudit(disk[Entry.dir])

\* A fingerprint never runs ahead of its directory.
Behind(f, c) == f # None => f[1] <= c.size /\ (f[2] => c.manifest)
PrintsBehind == \A d \in Dirs : Behind(fingerprints[d], disk[d])

CacheInv == UniqueRows /\ RowsCurrent /\ ParseCurrent /\ PrintsBehind

\* What an investigation does to a directory: the log and the manifest only
\* grow, the log's facts change with its size, and a passing verdict is kept or
\* remembered.
Ages(c, n) ==
  /\ c.size <= n.size
  /\ c.manifest => n.manifest
  /\ c.size = n.size => c.last = n.last /\ c.sealed = n.sealed
  /\ c.verify # n.verify => n.verify \in {"fail", "pass"}
  /\ c.verify = "pass" => n.verify = "pass" \/ n.passed
  /\ c.passed => n.passed

LEMMA AppendedAges ==
  ASSUME NEW c \in CaseDisk, NEW k \in Kinds PROVE Ages(c, Appended(c, k))
  <1> DEFINE a == [c EXCEPT !.size = @ + 1, !.last = k, !.hot = TRUE]
  <1>1. /\ c.size \in Nat /\ a.size = c.size + 1
        /\ a.manifest = c.manifest /\ a.verify = c.verify /\ a.passed = c.passed
    BY DEF CaseDisk
  <1>2. /\ Appended(c, k).size = a.size
        /\ Appended(c, k).manifest = a.manifest
        /\ Appended(c, k).verify = a.verify /\ Appended(c, k).passed = a.passed
    BY DEF Appended, CaseDisk
  <1>3. c.size <= a.size /\ c.size # a.size
    BY <1>1
  <1>4. QED
    BY <1>1, <1>2, <1>3 DEF Ages

LEMMA DirectoriesAge ==
  ASSUME TypeOK, [Next]_vars, NEW d \in Dirs PROVE Ages(disk[d], disk'[d])
  <1>1. disk[d] \in CaseDisk
    BY DEF TypeOK
  <1>2. CASE UNCHANGED disk
    BY <1>1, <1>2 DEF Ages, CaseDisk
  <1>3. ASSUME NEW e \in Dirs, NEW w \in Procs \cup {Outsider}, CreateDir(w, e)
        PROVE  Ages(disk[d], disk'[d])
    BY <1>1, <1>3 DEF CreateDir, Write, TypeOK, CaseDisk, Ages
  <1>4. ASSUME NEW e \in Dirs, NEW k \in Kinds, AppendAudit(e, k)
        PROVE  Ages(disk[d], disk'[d])
    <2>1. disk' = [disk EXCEPT ![e] = Appended(disk[e], k)] /\ disk[e] \in CaseDisk
      BY <1>4 DEF AppendAudit, Write, TypeOK
    <2>2. Ages(disk[e], Appended(disk[e], k))
      BY <2>1, AppendedAges
    <2>3. CASE d = e
      BY <2>1, <2>2, <2>3 DEF TypeOK
    <2>4. CASE d # e
      <3>1. disk'[d] = disk[d]
        BY <2>1, <2>4 DEF TypeOK
      <3>2. QED
        BY <1>1, <3>1 DEF Ages, CaseDisk
    <2>5. QED
      BY <2>3, <2>4
  <1>5. ASSUME NEW e \in Dirs, WriteManifest(e) PROVE Ages(disk[d], disk'[d])
    BY <1>1, <1>5 DEF WriteManifest, Write, TypeOK, CaseDisk, Ages
  <1>6. ASSUME NEW e \in Dirs, Cool(e) PROVE Ages(disk[d], disk'[d])
    BY <1>1, <1>6 DEF Cool, Write, TypeOK, CaseDisk, Ages
  <1>7. ASSUME NEW e \in Dirs, NEW v \in {"fail", "pass"}, WriteVerify(e, v)
        PROVE  Ages(disk[d], disk'[d])
    BY <1>1, <1>7 DEF WriteVerify, Write, TypeOK, CaseDisk, Ages
  <1>8. QED
    BY <1>2, <1>3, <1>4, <1>5, <1>6, <1>7 DEF Next, Investigations, Refresh, vars, env,
       tick, Exit, LaunchInvestigation, Quit, StartRefresh, Adopt, FindNothing, KeepWaiting,
       GiveUp, DropLaunch, EndResolve, ReapSessions, CheckUnchanged, CheckChanged, Restat,
       Parse, Derive, EndRefresh

\* A fingerprint that still holds after a directory aged held before, and so
\* do the facts of a row, but for a verification that changed meanwhile.
LEMMA AgingKeepsFacts ==
  ASSUME NEW c \in CaseDisk, NEW n \in CaseDisk, Ages(c, n),
         NEW f \in Fingerprints \cup {None}, Behind(f, c), f = Fingerprint(n)
  PROVE  /\ f = Fingerprint(c)
         /\ ParseAudit(n) = ParseAudit(c)
         /\ \A e : CurrentFacts(e, c) => CurrentFacts(e, n)
  <1>1. /\ c.size \in Nat /\ n.size \in Nat /\ c.manifest \in BOOLEAN
        /\ n.manifest \in BOOLEAN /\ c.verify \in Verdicts /\ n.verify \in Verdicts
        /\ c.sealed \in BOOLEAN
    BY DEF CaseDisk
  <1>2. f \in Fingerprints /\ f # None /\ f[1] = n.size /\ f[2] = n.manifest
    BY <1>1, ConstantsAssumption DEF Fingerprint, Fingerprints
  <1>3. c.size = n.size /\ c.manifest = n.manifest
    BY <1>1, <1>2 DEF Behind, Ages
  <1>4. c.last = n.last /\ c.sealed = n.sealed
    BY <1>3 DEF Ages
  <1>5. ASSUME NEW e, CurrentFacts(e, c) PROVE CurrentFacts(e, n)
    <2> DEFINE was == DeriveCustody(c, ParseAudit(c))
               now == DeriveCustody(n, ParseAudit(n))
    <2>1. n.sealed = c.sealed /\ (c.passed => n.passed)
      BY <1>4 DEF Ages
    <2>2. \/ now = was
          \/ was = "CustodyInvalid" /\ now = "Complete" /\ ~c.sealed
          \/ was = "Complete" /\ now = "CustodyInvalid" /\ n.passed
      BY <1>3, <1>4 DEF DeriveCustody, ParseAudit, ManifestVerified, HasAudit, Ages
    <2>3. e.records = n.size /\ e.last = n.last
      BY <1>3, <1>4, <1>5 DEF CurrentFacts
    <2>4. \/ e.custody = was
          \/ e.custody = "CustodyInvalid" /\ was = "Complete" /\ ~c.sealed
          \/ e.custody = "Complete" /\ was = "CustodyInvalid" /\ c.passed
      BY <1>5 DEF CurrentFacts
    <2> HIDE DEF was, now
    <2>5. \/ e.custody = now
          \/ e.custody = "CustodyInvalid" /\ now = "Complete" /\ ~n.sealed
          \/ e.custody = "Complete" /\ now = "CustodyInvalid" /\ n.passed
      BY <2>1, <2>2, <2>4
    <2>6. QED
      BY <2>3, <2>5 DEF CurrentFacts, now
  <1>6. QED
    BY <1>2, <1>3, <1>4, <1>5 DEF Fingerprint, ParseAudit

\* A derivation from a current parse is current.
LEMMA DerivedIsCurrent ==
  ASSUME NEW d, NEW c, NEW r PROVE CurrentFacts(DeriveStatus(d, c, ParseAudit(c), r), c)
  BY DEF CurrentFacts, DeriveStatus, ParseAudit

LEMMA RowTypes ==
  ASSUME TypeOK
  PROVE  \A i \in DOMAIN entries : entries[i] \in Status /\ entries[i].dir \in Dirs
  <1>1. \A i \in DOMAIN entries : entries[i] \in Status
    BY DEF TypeOK
  <1>2. QED
    BY <1>1 DEF Status

LEMMA RowsStayUnique ==
  ASSUME TypeOK, RefreshPlace, UniqueRows, [Next]_vars PROVE UniqueRows'
  <1>1. CASE DOMAIN entries' = DOMAIN entries
    BY <1>1, RowsStay DEF UniqueRows
  <1>2. ASSUME NEW d \in Dirs, Adopt(d) PROVE UniqueRows'
    <2>1. CASE d \in Tracked
      BY <1>1, <1>2, <2>1 DEF Adopt, WithEntry
    <2>2. CASE d \notin Tracked
      <3>1. /\ Len(entries) \in Nat /\ DOMAIN entries = 1..Len(entries)
            /\ DOMAIN entries' = 1..(Len(entries) + 1)
            /\ entries'[Len(entries) + 1] = AdoptedEntry(d)
            /\ \A i \in DOMAIN entries : entries'[i] = entries[i]
        BY <1>2, <2>2 DEF Adopt, WithEntry, TypeOK
      <3>2. AdoptedEntry(d).dir = d
        BY DEF AdoptedEntry, DeriveStatus
      <3>3. \A i \in DOMAIN entries : entries[i].dir # d
        BY <2>2 DEF Tracked
      <3>4. \A i \in DOMAIN entries' : i \in DOMAIN entries \/ i = Len(entries) + 1
        BY <3>1
      <3>5. QED
        BY <3>1, <3>2, <3>3, <3>4 DEF UniqueRows
    <2>3. QED
      BY <2>1, <2>2
  <1>3. CASE Restat \/ Derive
    <2>1. DOMAIN entries' = DOMAIN entries
      BY <1>3 DEF Restat, Derive, TypeOK
    <2>2. QED
      BY <1>1, <2>1
  <1>4. QED
    BY <1>1, <1>2, <1>3 DEF Next, Investigations, Refresh, vars, fleet,
       tick, CreateDir, AppendAudit, WriteManifest, WriteVerify, Cool, Exit,
       LaunchInvestigation, Quit, StartRefresh, FindNothing, KeepWaiting, GiveUp, DropLaunch,
       EndResolve, ReapSessions, CheckUnchanged, CheckChanged, Parse, EndRefresh

\* A step that leaves the rows and the fingerprints alone, and the row in
\* progress in progress: only the directories age.
LEMMA AgingKeepsCache ==
  ASSUME TypeOK, TypeOK', RefreshPlace, CacheInv, [Next]_vars,
         UNCHANGED <<entries, fingerprints>>,
         \/ UNCHANGED <<pc, row, parsed>>
         \/ pc \notin {"parse", "derive"} /\ pc' \notin {"parse", "derive"}
  PROVE  CacheInv'
  <1>1. \A d \in Dirs : /\ disk[d] \in CaseDisk /\ disk'[d] \in CaseDisk
                        /\ fingerprints[d] \in Fingerprints \cup {None}
                        /\ Ages(disk[d], disk'[d])
    BY DirectoriesAge DEF TypeOK
  <1>2. UniqueRows'
    BY DEF CacheInv, UniqueRows
  <1>3. PrintsBehind'
    <2> SUFFICES ASSUME NEW d \in Dirs PROVE Behind(fingerprints[d], disk'[d])
      BY DEF PrintsBehind
    <2>1. disk[d].size \in Nat /\ disk'[d].size \in Nat
      BY <1>1 DEF CaseDisk
    <2>2. fingerprints[d] # None => fingerprints[d][1] \in Nat
      BY <1>1 DEF Fingerprints
    <2>3. QED
      BY <1>1, <2>1, <2>2 DEF CacheInv, PrintsBehind, Behind, Ages
  <1>4. ASSUME NEW i \in DOMAIN entries, UpToDate(i)'
        PROVE  /\ UpToDate(i)
               /\ ParseAudit(disk'[entries[i].dir]) = ParseAudit(disk[entries[i].dir])
               /\ \A e : CurrentFacts(e, disk[entries[i].dir])
                           => CurrentFacts(e, disk'[entries[i].dir])
    <2> DEFINE d == entries[i].dir
    <2>1. d \in Dirs
      BY RowTypes
    <2>2. fingerprints[d] = Fingerprint(disk'[d]) /\ Behind(fingerprints[d], disk[d])
      BY <1>4, <2>1 DEF UpToDate, CacheInv, PrintsBehind
    <2> HIDE DEF d
    <2>3. /\ fingerprints[d] = Fingerprint(disk[d])
          /\ ParseAudit(disk'[d]) = ParseAudit(disk[d])
          /\ \A e : CurrentFacts(e, disk[d]) => CurrentFacts(e, disk'[d])
      BY <1>1, <2>1, <2>2, AgingKeepsFacts
    <2>4. QED
      BY <2>3 DEF UpToDate, d
  <1>5. RowsCurrent'
    BY <1>4 DEF RowsCurrent, CacheInv, BeingDerived
  <1>6. ParseCurrent'
    <2> SUFFICES ASSUME pc' = "derive", UpToDate(row)'
                 PROVE  parsed' = ParseAudit(disk'[Entry'.dir])
      BY DEF ParseCurrent
    <2>1. pc = "derive" /\ row' = row /\ parsed' = parsed /\ row \in DOMAIN entries
      BY DEF RefreshPlace, TypeOK
    <2>2. UpToDate(row)
      BY <1>4, <2>1 DEF UpToDate
    <2>3. QED
      BY <1>4, <2>1, <2>2 DEF CacheInv, ParseCurrent, Entry, UpToDate
  <1>7. QED
    BY <1>2, <1>3, <1>5, <1>6 DEF CacheInv

\* The steps of a refresh that change a row or a fingerprint.
LEMMA RefreshKeepsCache ==
  ASSUME TypeOK, TypeOK', RefreshPlace, CacheInv, UniqueRows',
         \/ \E d \in Dirs : Adopt(d)
         \/ CheckChanged \/ Restat \/ Parse \/ Derive
  PROVE  CacheInv'
  <1>0. \A i \in DOMAIN entries : entries[i] \in Status /\ entries[i].dir \in Dirs
    BY RowTypes
  <1>1. UNCHANGED disk
    BY DEF Adopt, CheckChanged, Restat, Parse, Derive, env
  <1>2. \A d \in Dirs : disk[d] \in CaseDisk
    BY DEF TypeOK
  <1>3. ASSUME UNCHANGED fingerprints PROVE PrintsBehind'
    BY <1>1, <1>3 DEF CacheInv, PrintsBehind
  <1>4. ASSUME NEW d \in Dirs, Adopt(d) PROVE CacheInv'
    <2>1. /\ pc = "resolve" /\ pc' = "resolve" /\ UNCHANGED fingerprints
          /\ entries' = WithEntry(d)
      BY <1>4 DEF Adopt
    <2>2. \A i \in DOMAIN entries' :
            \/ i \in DOMAIN entries /\ entries'[i] = entries[i]
            \/ entries'[i] = AdoptedEntry(d)
      BY <2>1 DEF WithEntry, TypeOK
    <2>3. CurrentFacts(AdoptedEntry(d), disk[d]) /\ AdoptedEntry(d).dir = d
      BY DerivedIsCurrent DEF AdoptedEntry, DeriveStatus
    <2>4. RowsCurrent'
      BY <1>1, <2>1, <2>2, <2>3
         DEF RowsCurrent, CacheInv, BeingDerived, UpToDate
    <2>5. QED
      BY <1>3, <2>1, <2>4 DEF CacheInv, ParseCurrent
  <1>5. CASE CheckChanged
    <2> DEFINE d == Entry.dir
    <2>1. /\ pc' = "parse" /\ row' = row /\ entries' = entries /\ row \in DOMAIN entries
          /\ pc = "check" /\ d \in Dirs
          /\ fingerprints' = [fingerprints EXCEPT ![d] = Fingerprint(disk[d])]
      BY <1>0, <1>5 DEF CheckChanged, TypeOK, Entry
    <2>2. ASSUME NEW i \in DOMAIN entries, i # row
          PROVE  entries[i].dir # d
      BY <2>1, <2>2 DEF CacheInv, UniqueRows, Entry
    <2> HIDE DEF d
    <2>3. RowsCurrent'
      BY <1>1, <2>1, <2>2 DEF RowsCurrent, CacheInv, BeingDerived, UpToDate
    <2>4. PrintsBehind'
      <3>1. Behind(Fingerprint(disk[d]), disk[d])
        BY <1>2, <2>1 DEF Behind, Fingerprint, CaseDisk
      <3>2. QED
        BY <1>1, <2>1, <3>1 DEF PrintsBehind, CacheInv, TypeOK
    <2>5. QED
      BY <2>1, <2>3, <2>4 DEF CacheInv, ParseCurrent
  <1>6. CASE Restat
    <2>1. /\ DOMAIN entries' = DOMAIN entries /\ UNCHANGED fingerprints
          /\ pc = "restat" /\ pc' = "check"
      BY <1>6 DEF Restat, NextRow, TypeOK
    <2>2. \A i \in DOMAIN entries : /\ entries'[i].dir = entries[i].dir
                                    /\ entries'[i].custody = entries[i].custody
                                    /\ entries'[i].records = entries[i].records
                                    /\ entries'[i].last = entries[i].last
      BY <1>0, <1>6 DEF Restat, RefreshStatus, Entry, RefreshPlace, TypeOK, Status
    <2>3. RowsCurrent'
      BY <1>1, <2>1, <2>2
         DEF RowsCurrent, CacheInv, BeingDerived, UpToDate, CurrentFacts
    <2>4. QED
      BY <1>3, <2>1, <2>3 DEF CacheInv, ParseCurrent
  <1>7. CASE Parse
    <2>1. /\ parsed' = ParseAudit(disk[Entry.dir]) /\ Entry' = Entry
          /\ pc = "parse" /\ pc' = "derive" /\ UNCHANGED <<entries, row, fingerprints>>
      BY <1>7 DEF Parse, Entry
    <2>2. RowsCurrent'
      BY <1>1, <2>1 DEF RowsCurrent, CacheInv, BeingDerived, UpToDate
    <2>3. QED
      BY <1>1, <1>3, <2>1, <2>2 DEF CacheInv, ParseCurrent
  <1>8. CASE Derive
    <2> DEFINE new == DeriveStatus(Entry.dir, disk[Entry.dir], parsed,
                                   Recent(disk[Entry.dir]))
    <2>1. /\ DOMAIN entries' = DOMAIN entries /\ row \in DOMAIN entries
          /\ UNCHANGED fingerprints /\ pc = "derive" /\ pc' = "check"
      BY <1>8 DEF Derive, NextRow, TypeOK, RefreshPlace
    <2>2. \A i \in DOMAIN entries : entries'[i] = IF i = row THEN new ELSE entries[i]
      BY <1>8, <2>1 DEF Derive, TypeOK
    <2>3. new.dir = entries[row].dir
      BY DEF DeriveStatus, Entry
    <2>4. UpToDate(row) => CurrentFacts(new, disk[entries[row].dir])
      BY <2>1, DerivedIsCurrent DEF CacheInv, ParseCurrent, Entry
    <2> HIDE DEF new
    <2>5. RowsCurrent'
      BY <1>1, <2>1, <2>2, <2>3, <2>4 DEF RowsCurrent, CacheInv, BeingDerived, UpToDate
    <2>6. QED
      BY <1>3, <2>1, <2>5 DEF CacheInv, ParseCurrent
  <1>9. QED
    BY <1>4, <1>5, <1>6, <1>7, <1>8

LEMMA CacheStep ==
  ASSUME TypeOK, RefreshPlace, CacheInv, [Next]_vars PROVE CacheInv'
  <1>0. TypeOK' /\ UniqueRows'
    BY StepType, RowsStayUnique DEF CacheInv
  <1>1. CASE \E d \in Dirs : Adopt(d)
    BY <1>0, <1>1, RefreshKeepsCache
  <1>2. CASE CheckChanged \/ Restat \/ Parse \/ Derive
    BY <1>0, <1>2, RefreshKeepsCache
  <1>3. CASE CheckUnchanged \/ EndRefresh \/ StartRefresh \/ FindNothing \/ KeepWaiting
             \/ GiveUp \/ EndResolve \/ ReapSessions \/ Quit
    <2>1. /\ UNCHANGED <<entries, fingerprints>>
          /\ pc \notin {"parse", "derive"} /\ pc' \notin {"parse", "derive"}
      BY <1>3 DEF CheckUnchanged, EndRefresh, StartRefresh, FindNothing, KeepWaiting,
                  GiveUp, DropLaunch, EndResolve, ReapSessions, Quit
    <2>2. QED
      BY <1>0, <2>1, AgingKeepsCache
  <1>4. CASE Investigations \/ UNCHANGED vars
             \/ \E p \in Procs : LaunchInvestigation(p)
    <2>1. UNCHANGED <<entries, fingerprints, pc, row, parsed>>
      BY <1>4 DEF Investigations, CreateDir, AppendAudit, WriteManifest, WriteVerify,
                  Cool, Exit, fleet, tick, vars, LaunchInvestigation
    <2>2. QED
      BY <1>0, <2>1, AgingKeepsCache
  <1>5. QED
    BY <1>1, <1>2, <1>3, <1>4 DEF Next, Refresh

LEMMA CacheStarts == ASSUME DistinctArgs, Init PROVE CacheInv
  <1>0. TypeOK
    BY InitType
  <1>1. /\ \A d \in Dirs : fingerprints[d] = None /\ disk[d] \in CaseDisk
        /\ pc = "idle"
    BY <1>0 DEF Init, TypeOK
  <1>2. \A i \in DOMAIN entries : i \in DOMAIN ArgDirs /\ entries[i].dir = ArgDirs[i]
    BY DEF Init, Scan, DeriveStatus
  <1>3. UniqueRows
    BY <1>2 DEF DistinctArgs, UniqueRows
  <1>4. \A i \in DOMAIN entries : ~UpToDate(i)
    <2>1. \A d \in Dirs : Fingerprint(disk[d]) # None
      BY <1>1, FingerprintType, ConstantsAssumption
    <2>2. QED
      BY <1>0, <1>1, <2>1, RowTypes DEF UpToDate
  <1>5. QED
    BY <1>1, <1>3, <1>4 DEF CacheInv, RowsCurrent, ParseCurrent, PrintsBehind, Behind

\* When every directory is named once on the command line, a row whose
\* fingerprint still matches shows the audit log as it is and misses at most a
\* verification that passed, although fingerprint, parse and derivation are
\* separate reads of a directory others write (refresh_entry of fleet.rs).
THEOREM CachedFactsCurrentAlways ==
  ASSUME DistinctArgs PROVE Spec => []CachedFactsCurrent
  <1>1. Init => CacheInv
    BY CacheStarts
  <1>2. TypeOK /\ RefreshPlace /\ CacheInv /\ [Next]_vars => CacheInv'
    BY CacheStep
  <1>3. CacheInv => CachedFactsCurrent
    BY DEF CacheInv, RowsCurrent, CachedFactsCurrent, BeingDerived, CurrentFacts
  <1>4. QED
    BY <1>1, <1>2, <1>3, TypeCorrect, PTL DEF Spec

=============================================================================
