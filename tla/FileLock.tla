------------------------------- MODULE FileLock -------------------------------
(***************************************************************************)
(* The lock between processes of the engine, a directory with a heartbeat  *)
(* and a metadata file in it (core/src/util/flock.ts; effect-flock.ts is   *)
(* the same protocol over Effect's file system).  A lock whose owner died  *)
(* goes stale and is taken over by whoever makes the breaker directory.    *)
(*                                                                         *)
(* One step per system call.  Time is whether a path is older than         *)
(* staleMs.  No attempt takes that long: a path that was made or touched   *)
(* while a process was at work stays young until that process rests.  A    *)
(* holder rests, and may hold for longer; its heartbeat alone stays young. *)
(***************************************************************************)
EXTENDS Naturals, FiniteSets

CONSTANTS
  Procs,        \* the processes that contend for one key
  Before,       \* a process of the past, dead
  None,         \* no process
  MaxDeaths     \* bound: processes that die

ASSUME LockAssumption ==
  /\ None \notin Procs \union {Before} /\ Before \notin Procs
  /\ MaxDeaths \in Nat

VARIABLES
  file,         \* the paths: who made each, or last changed the directory
  pc,           \* where a process is
  again,        \* is its staleness check the second one, under the breaker?
  listed,       \* entries its rm has found and not yet removed
  since,        \* paths made or touched since it went to work
  deaths,       \* bounded counter
  faults        \* history: what has happened that the protocol does not expect

vars == <<file, pc, again, listed, since, deaths, faults>>

Entries == {"heartbeat", "meta"}
Paths == Entries \union {"dir", "breaker"}

Gone == [by |-> None, old |-> FALSE]
Fresh(p) == [by |-> p, old |-> FALSE]
Exists(x) == file[x].by # None

(* What a process that died in any step can have left behind. *)
Init ==
  /\ file \in [Paths -> {Gone, Fresh(Before)}]
  /\ (\E e \in Entries : Exists(e)) => Exists("dir")
  /\ pc = [p \in Procs |-> "idle"]
  /\ again = [p \in Procs |-> FALSE]
  /\ listed = [p \in Procs |-> {}]
  /\ since = [p \in Procs |-> {}]
  /\ deaths = 0
  /\ faults = IF Exists("breaker") THEN {"breaker died"} ELSE {}

Resting == {"idle", "retry", "held", "dead"}

(* p goes to `place', paths xs have been made or touched. *)
GoesTouching(p, place, xs) ==
  /\ pc' = [pc EXCEPT ![p] = place]
  /\ since' = [q \in Procs |-> IF pc'[q] \in Resting THEN {} ELSE since[q] \union xs]
Goes(p, place) == GoesTouching(p, place, {})

Looks == UNCHANGED <<file, again, listed, deaths, faults>>
Acts == UNCHANGED <<again, listed, deaths, faults>>

-------------------------------------------------------------------------------
(* tryAcquireLockDir *)

(* The lock is whose mkdir succeeds. *)
MkDir(p) ==
  /\ again' = [again EXCEPT ![p] = FALSE]
  /\ IF Exists("dir") THEN Goes(p, "heartbeat?") /\ UNCHANGED file
     ELSE GoesTouching(p, "heartbeat", {"dir"}) /\ file' = [file EXCEPT !["dir"] = Fresh(p)]
  /\ UNCHANGED <<listed, deaths, faults>>

Acquire(p) == pc[p] = "idle" /\ MkDir(p)

(* acquireLockDir: after a sleep another attempt, or a timeout or an abort *)
Retry(p) == pc[p] = "retry" /\ MkDir(p)
GiveUp(p) == pc[p] = "retry" /\ Goes(p, "idle") /\ Looks

(* What follows a staleness check: the first is made to claim the breaker,   *)
(* the second to remove the lock.                                            *)
Decides(p, stale) ==
  Goes(p, IF again[p] THEN (IF stale THEN "clear" ELSE "unbreak")
                      ELSE (IF stale THEN "break" ELSE "retry"))

(* stale: the age of the heartbeat, or of what is there instead *)
StatHeartbeat(p) ==
  /\ pc[p] = "heartbeat?"
  /\ IF Exists("heartbeat") THEN Decides(p, file["heartbeat"].old) ELSE Goes(p, "meta?")
  /\ Looks

StatMeta(p) ==
  /\ pc[p] = "meta?"
  /\ IF Exists("meta") THEN Decides(p, file["meta"].old) ELSE Goes(p, "dir?")
  /\ Looks

StatDir(p) == pc[p] = "dir?" /\ Decides(p, file["dir"].old) /\ Looks

(* Mutant: the lock is not looked at again under the breaker. *)
BreakAtOnce(p) ==
  /\ pc[p] = "break"
  /\ IF Exists("breaker") THEN Goes(p, "breaker?") /\ UNCHANGED <<file, again>>
     ELSE /\ GoesTouching(p, "clear", {"breaker"})
          /\ file' = [file EXCEPT !["breaker"] = Fresh(p)]
          /\ again' = [again EXCEPT ![p] = TRUE]
  /\ UNCHANGED <<listed, deaths, faults>>

(* Mutant: that the breaker is there already is no error. *)
BreakAnyway(p) ==
  /\ pc[p] = "break"
  /\ GoesTouching(p, "heartbeat?", {"breaker"})
  /\ file' = [file EXCEPT !["breaker"] = Fresh(p)]
  /\ again' = [again EXCEPT ![p] = TRUE]
  /\ UNCHANGED <<listed, deaths, faults>>

(* Claim the breaker, and look again. *)
Break(p) ==
  /\ pc[p] = "break"
  /\ IF Exists("breaker") THEN Goes(p, "breaker?") /\ UNCHANGED <<file, again>>
     ELSE /\ GoesTouching(p, "heartbeat?", {"breaker"})
          /\ file' = [file EXCEPT !["breaker"] = Fresh(p)]
          /\ again' = [again EXCEPT ![p] = TRUE]
  /\ UNCHANGED <<listed, deaths, faults>>

(* Mutant: another one's breaker is respected for ever. *)
StatNoBreaker(p) ==
  /\ pc[p] = "breaker?"
  /\ Goes(p, "retry")
  /\ Looks

(* Another one's breaker is only removed, for the next attempt, ... *)
StatBreaker(p) ==
  /\ pc[p] = "breaker?"
  /\ Goes(p, IF file["breaker"].old THEN "sweep" ELSE "retry")
  /\ Looks

(* ... by its name, whoever has made it meanwhile. *)
Sweep(p) ==
  /\ pc[p] = "sweep"
  /\ file' = [file EXCEPT !["breaker"] = Gone]
  /\ Goes(p, "retry")
  /\ Acts

(* Mutant: that the lock is there already is no error. *)
RemakeAnyway(p) ==
  /\ pc[p] = "remake"
  /\ GoesTouching(p, "unbreak mine", {"dir"})
  /\ file' = [file EXCEPT !["dir"] = Fresh(p)]
  /\ Acts

(* The lock is made again, or lost to one who was faster, ... *)
Remake(p) ==
  /\ pc[p] = "remake"
  /\ IF Exists("dir") THEN Goes(p, "unbreak") /\ UNCHANGED file
     ELSE GoesTouching(p, "unbreak mine", {"dir"}) /\ file' = [file EXCEPT !["dir"] = Fresh(p)]
  /\ Acts

(* ... and the breaker is removed, whatever happened. *)
Unbreak(p) ==
  /\ pc[p] \in {"unbreak", "unbreak mine", "unbreak failed"}
  /\ file' = [file EXCEPT !["breaker"] = Gone]
  /\ Goes(p, CASE pc[p] = "unbreak" -> "retry"
               [] pc[p] = "unbreak mine" -> "heartbeat"
               [] OTHER -> "idle")
  /\ Acts

(* An exclusive write into a directory that has to be there; if it is not,   *)
(* or the file is: the lock is removed and the caller gets an error.         *)
Write(p, e, next) ==
  /\ pc[p] = e
  /\ IF Exists("dir") /\ ~Exists(e)
     THEN /\ file' = [file EXCEPT ![e] = Fresh(p), !["dir"] = Fresh(p)]
          /\ GoesTouching(p, next, {e, "dir"})
     ELSE Goes(p, "undo") /\ UNCHANGED file
  /\ Acts

WriteHeartbeat(p) == Write(p, "heartbeat", "meta")
WriteMeta(p) == Write(p, "meta", "held")

-------------------------------------------------------------------------------
(* release *)

(* The timer is cleared; the metadata is gone or another one's: refuse. *)
Release(p) ==
  /\ pc[p] = "held"
  /\ GoesTouching(p, IF file["meta"].by = p THEN "release" ELSE "idle", {"heartbeat"})
  /\ Looks

(* rm, recursive: list the directory, remove what was listed by its name,    *)
(* then the directory.                                                       *)
Removes(p) == pc[p] \in {"clear", "undo", "release"}
Found == {e \in Entries : Exists(e)}

RmList(p) ==
  /\ Removes(p) /\ listed[p] = {} /\ Found # {}
  /\ listed' = [listed EXCEPT ![p] = Found]
  /\ UNCHANGED <<file, pc, again, since, deaths, faults>>

RmEntry(p) ==
  /\ Removes(p)
  /\ \E e \in listed[p] :
       /\ listed' = [listed EXCEPT ![p] = @ \ {e}]
       /\ file' = [file EXCEPT ![e] = Gone, !["dir"] = IF Exists("dir") THEN Fresh(p) ELSE Gone]
  /\ GoesTouching(p, pc[p], {"dir"})
  /\ UNCHANGED <<again, deaths, faults>>

RmDir(p) ==
  /\ Removes(p) /\ listed[p] = {} /\ Found = {}
  /\ file' = [file EXCEPT !["dir"] = Gone]
  /\ Goes(p, IF pc[p] = "clear" THEN "remake" ELSE "idle")
  /\ Acts

(* Entries the remover cannot remove, or finds again under its hands: it     *)
(* gives up.  Effect's goes on as if it had not, and finds the directory.    *)
RmFails(p) ==
  /\ Removes(p) /\ listed[p] = {} /\ Found # {}
  /\ IF pc[p] = "clear" THEN Goes(p, "unbreak failed") \/ Goes(p, "unbreak") ELSE Goes(p, "idle")
  /\ Looks

Rm(p) == RmList(p) \/ RmEntry(p) \/ RmDir(p)

-------------------------------------------------------------------------------
(* A path grows old unless somebody at work has seen it younger, or a holder *)
(* beats on it, by its name.                                                 *)
Age(x) ==
  /\ Exists(x) /\ ~file[x].old
  /\ \A p \in Procs : x \notin since[p]
  /\ x = "heartbeat" => \A p \in Procs : pc[p] # "held"
  /\ file' = [file EXCEPT ![x].old = TRUE]
  /\ faults' = IF x \in {"meta", "dir"} /\ \E p \in Procs : pc[p] \in {"held", "release"} /\ file[x].by = p
               THEN faults \union {"held long"} ELSE faults
  /\ UNCHANGED <<pc, again, listed, since, deaths>>

Breaking(p) == again[p] /\ pc[p] \in {"heartbeat?", "meta?", "dir?", "clear", "remake",
                                      "unbreak", "unbreak mine", "unbreak failed"}

Die(p) ==
  /\ deaths < MaxDeaths
  /\ pc[p] \notin {"idle", "dead"}
  /\ deaths' = deaths + 1
  /\ GoesTouching(p, "dead", IF pc[p] = "held" THEN {"heartbeat"} ELSE {})
  /\ listed' = [listed EXCEPT ![p] = {}]
  /\ faults' = IF Breaking(p) THEN faults \union {"breaker died"} ELSE faults
  /\ UNCHANGED <<file, again>>

Attempt(p) ==
  \/ Retry(p) \/ StatHeartbeat(p) \/ StatMeta(p) \/ StatDir(p)
  \/ Break(p) \/ StatBreaker(p) \/ Sweep(p) \/ Rm(p) \/ Remake(p) \/ Unbreak(p)
  \/ WriteHeartbeat(p) \/ WriteMeta(p)

Next ==
  \/ \E p \in Procs : Acquire(p) \/ Attempt(p) \/ RmFails(p) \/ Release(p) \/ GiveUp(p) \/ Die(p)
  \/ \E x \in Paths : Age(x)

Spec == Init /\ [][Next]_vars

(* Processes run on, time passes, and a removal that is tried again and      *)
(* again is not refused each time.                                           *)
FairSpec ==
  /\ Spec
  /\ WF_vars(\E x \in Paths : Age(x))
  /\ \A p \in Procs : WF_vars(Attempt(p)) /\ SF_vars(Rm(p))

-------------------------------------------------------------------------------
Places == {"idle", "heartbeat?", "meta?", "dir?", "break", "breaker?", "sweep",
           "clear", "remake", "unbreak", "unbreak mine", "unbreak failed",
           "heartbeat", "meta", "held", "undo", "release", "retry", "dead"}
TypeOK ==
  /\ file \in [Paths -> [by : Procs \union {Before, None}, old : BOOLEAN]]
  /\ pc \in [Procs -> Places]
  /\ again \in [Procs -> BOOLEAN]
  /\ listed \in [Procs -> SUBSET Entries]
  /\ since \in [Procs -> SUBSET Paths]
  /\ deaths \in Nat
  /\ faults \subseteq {"held long", "breaker died"}

(* While no lock was held past staleMs and no process died with the breaker  *)
(* in its hands, two processes never hold the lock, whoever else died in     *)
(* whatever step.                                                            *)
MutualExclusion ==
  faults = {} => \A p, q \in Procs : pc[p] = "held" /\ pc[q] = "held" => p = q

(* flock.ts:185, "Breaker ownership ensures only one contender performs      *)
(* stale cleanup": under the same proviso.                                   *)
OneCleaner ==
  faults = {} => \A p, q \in Procs : pc[p] = "clear" /\ pc[q] = "clear" => p = q

(* flock.ts:259, "Token check prevents deleting a lock that was re-acquired  *)
(* by another process": between the check and the end of the removal, too,   *)
(* there is nothing of another process for rm to find.                       *)
RemovesOwn ==
  faults = {} => \A p \in Procs : pc[p] = "release" => \A x \in Entries : file[x].by \in {p, None}

(* The lock of a process that died is taken from it, or removed, as long as  *)
(* somebody waits for it, wherever in the protocol that process and others   *)
(* died.                                                                     *)
Abandoned == LET p == file["dir"].by IN p = Before \/ (p \in Procs /\ pc[p] = "dead")
WaitsFor(p) == pc[p] \notin {"idle", "held", "dead", "release"}
Recovers == \A p \in Procs : Abandoned /\ WaitsFor(p) ~> (~Abandoned \/ ~WaitsFor(p))

===============================================================================
