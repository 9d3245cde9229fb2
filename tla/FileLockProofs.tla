---------------------------- MODULE FileLockProofs ----------------------------
(***************************************************************************)
(* Proofs about FileLock, for any number of processes: as long as no lock  *)
(* is held past staleMs and no process dies with the breaker in its hands, *)
(* the lock excludes, one process at a time cleans up, and a release finds *)
(* nothing but its own files.                                              *)
(***************************************************************************)
EXTENDS FileLock, TLAPS

USE DEF Entries, Paths, Resting

Mark == [by : Procs \union {Before, None}, old : BOOLEAN]

(* Marks on a path. *)
LEMMA Marks ==
  /\ Gone \in Mark /\ Gone.by = None /\ ~Gone.old
  /\ \A p \in Procs \union {Before} : Fresh(p) \in Mark /\ Fresh(p).by = p /\ ~Fresh(p).old
BY DEF Mark, Gone, Fresh

(* A step of p: where it goes, and what it has seen made. *)
LEMMA Motion ==
  ASSUME TypeOK, NEW p \in Procs, NEW place \in Places, NEW xs \in SUBSET Paths,
         GoesTouching(p, place, xs)
  PROVE  /\ pc' \in [Procs -> Places] /\ since' \in [Procs -> SUBSET Paths]
         /\ pc'[p] = place
         /\ \A q \in Procs : q # p => pc'[q] = pc[q]
         /\ \A q \in Procs : pc'[q] \notin Resting => since'[q] = since[q] \union xs
BY DEF TypeOK, GoesTouching

-------------------------------------------------------------------------------
(* Type correctness.                                                       *)

LEMMA TypeInit == Init => TypeOK
<1> SUFFICES ASSUME Init PROVE TypeOK
  OBVIOUS
<1>1. file \in [Paths -> Mark]
  <2>1. {Gone, Fresh(Before)} \subseteq Mark BY Marks
  <2> QED BY <2>1 DEF Init
<1>2. "idle" \in Places BY DEF Places
<1>3. faults \subseteq {"held long", "breaker died"} BY DEF Init
<1> QED BY <1>1, <1>2, <1>3 DEF Init, TypeOK, Mark

LEMMA TypeStep == TypeOK /\ [Next]_vars => TypeOK'
<1> SUFFICES ASSUME TypeOK, [Next]_vars PROVE TypeOK'
  OBVIOUS
<1> USE DEF Goes, Looks, Acts
<1>f. file \in [Paths -> Mark] BY DEF TypeOK, Mark
<1>1. ASSUME NEW p \in Procs, MkDir(p) PROVE TypeOK'
  <2>1. pc' \in [Procs -> Places] /\ since' \in [Procs -> SUBSET Paths]
    BY <1>1, Motion DEF MkDir, Places
  <2>2. file' \in [Paths -> Mark]
    BY <1>1, <1>f, Marks DEF MkDir
  <2> QED BY <1>1, <2>1, <2>2 DEF MkDir, TypeOK, Mark
<1>2. ASSUME NEW p \in Procs, StatHeartbeat(p) \/ StatMeta(p) \/ StatDir(p) PROVE TypeOK'
  <2>1. pc' \in [Procs -> Places] /\ since' \in [Procs -> SUBSET Paths]
    BY <1>2, Motion DEF StatHeartbeat, StatMeta, StatDir, Decides, Places
  <2> QED BY <1>2, <2>1 DEF StatHeartbeat, StatMeta, StatDir, TypeOK
<1>3. ASSUME NEW p \in Procs, Break(p) PROVE TypeOK'
  <2>1. pc' \in [Procs -> Places] /\ since' \in [Procs -> SUBSET Paths]
    BY <1>3, Motion DEF Break, Places
  <2>2. file' \in [Paths -> Mark]
    BY <1>3, <1>f, Marks DEF Break
  <2> QED BY <1>3, <2>1, <2>2 DEF Break, TypeOK, Mark
<1>4. ASSUME NEW p \in Procs, StatBreaker(p) \/ GiveUp(p) PROVE TypeOK'
  <2>1. pc' \in [Procs -> Places] /\ since' \in [Procs -> SUBSET Paths]
    BY <1>4, Motion DEF StatBreaker, GiveUp, Places
  <2> QED BY <1>4, <2>1 DEF StatBreaker, GiveUp, TypeOK, Mark
<1>5. ASSUME NEW p \in Procs, Sweep(p) \/ Unbreak(p) PROVE TypeOK'
  <2>1. pc' \in [Procs -> Places] /\ since' \in [Procs -> SUBSET Paths]
    BY <1>5, Motion DEF Sweep, Unbreak, Places
  <2>2. file' \in [Paths -> Mark]
    BY <1>5, <1>f, Marks DEF Sweep, Unbreak
  <2> QED BY <1>5, <2>1, <2>2 DEF Sweep, Unbreak, TypeOK, Mark
<1>6. ASSUME NEW p \in Procs, Remake(p) PROVE TypeOK'
  <2>1. pc' \in [Procs -> Places] /\ since' \in [Procs -> SUBSET Paths]
    BY <1>6, Motion DEF Remake, Places
  <2>2. file' \in [Paths -> Mark]
    <3>1. file' = file \/ file' = [file EXCEPT !["dir"] = Fresh(p)] BY <1>6 DEF Remake
    <3> QED BY <3>1, <1>f, Marks
  <2> QED BY <1>6, <2>1, <2>2 DEF Remake, TypeOK, Mark
<1>7. ASSUME NEW p \in Procs, NEW e \in Entries, NEW next \in Places, Write(p, e, next)
      PROVE  TypeOK'
  <2>1. pc' \in [Procs -> Places] /\ since' \in [Procs -> SUBSET Paths]
    BY <1>7, Motion DEF Write, Places
  <2>2. file' \in [Paths -> Mark]
    BY <1>7, <1>f, Marks DEF Write
  <2> QED BY <1>7, <2>1, <2>2 DEF Write, TypeOK, Mark
<1>8. ASSUME NEW p \in Procs, Release(p) PROVE TypeOK'
  <2>1. pc' \in [Procs -> Places] /\ since' \in [Procs -> SUBSET Paths]
    BY <1>8, Motion DEF Release, Places
  <2> QED BY <1>8, <2>1 DEF Release, TypeOK, Mark
<1>9. ASSUME NEW p \in Procs, RmList(p) PROVE TypeOK'
  BY <1>9 DEF RmList, Found, TypeOK
<1>10. ASSUME NEW p \in Procs, RmEntry(p) PROVE TypeOK'
  <2>1. pc' \in [Procs -> Places] /\ since' \in [Procs -> SUBSET Paths]
    <3>1. pc[p] \in Places BY DEF TypeOK
    <3> QED BY <1>10, <3>1, Motion DEF RmEntry
  <2>2. PICK e \in listed[p] :
          /\ listed' = [listed EXCEPT ![p] = @ \ {e}]
          /\ file' = [file EXCEPT ![e] = Gone, !["dir"] = IF Exists("dir") THEN Fresh(p) ELSE Gone]
    BY <1>10 DEF RmEntry
  <2>3. e \in Entries BY <2>2 DEF TypeOK
  <2>4. file' \in [Paths -> Mark]
    BY <2>2, <2>3, <1>f, Marks
  <2> QED BY <1>10, <2>1, <2>2, <2>4 DEF RmEntry, TypeOK, Mark
<1>11. ASSUME NEW p \in Procs, RmDir(p) PROVE TypeOK'
  <2>1. pc' \in [Procs -> Places] /\ since' \in [Procs -> SUBSET Paths]
    BY <1>11, Motion DEF RmDir, Places
  <2>2. file' \in [Paths -> Mark]
    BY <1>11, <1>f, Marks DEF RmDir
  <2> QED BY <1>11, <2>1, <2>2 DEF RmDir, TypeOK, Mark
<1>12. ASSUME NEW p \in Procs, RmFails(p) PROVE TypeOK'
  <2>1. pc' \in [Procs -> Places] /\ since' \in [Procs -> SUBSET Paths]
    BY <1>12, Motion DEF RmFails, Places
  <2> QED BY <1>12, <2>1 DEF RmFails, TypeOK, Mark
<1>13. ASSUME NEW p \in Procs, Die(p) PROVE TypeOK'
  <2>1. pc' \in [Procs -> Places] /\ since' \in [Procs -> SUBSET Paths]
    BY <1>13, Motion DEF Die, Places
  <2>2. faults' \subseteq {"held long", "breaker died"}
    <3>1. faults' = faults \/ faults' = faults \union {"breaker died"} BY <1>13 DEF Die
    <3> QED BY <3>1 DEF TypeOK
  <2>3. deaths' \in Nat
    <3>1. deaths' = deaths + 1 BY <1>13 DEF Die
    <3>2. deaths \in Nat BY DEF TypeOK
    <3> QED BY <3>1, <3>2
  <2>4. listed' \in [Procs -> SUBSET Entries]
    <3>1. listed' = [listed EXCEPT ![p] = {}] BY <1>13 DEF Die
    <3>2. listed \in [Procs -> SUBSET Entries] BY DEF TypeOK
    <3> QED BY <3>1, <3>2
  <2> QED BY <1>13, <2>1, <2>2, <2>3, <2>4 DEF Die, TypeOK, Mark
<1>14. ASSUME NEW x \in Paths, Age(x) PROVE TypeOK'
  <2>1. file' \in [Paths -> Mark]
    <3>1. file' = [file EXCEPT ![x].old = TRUE] BY <1>14 DEF Age
    <3>2. [file[x] EXCEPT !.old = TRUE] \in Mark BY <1>f DEF Mark
    <3> QED BY <3>1, <3>2, <1>f
  <2>2. faults' \subseteq {"held long", "breaker died"}
    BY <1>14 DEF Age, TypeOK
  <2> QED BY <1>14, <2>1, <2>2 DEF Age, TypeOK, Mark
<1>15. CASE UNCHANGED vars BY <1>15 DEF vars, TypeOK
<1> QED
  BY <1>1, <1>2, <1>3, <1>4, <1>5, <1>6, <1>7, <1>8, <1>9, <1>10, <1>11, <1>12, <1>13,
     <1>14, <1>15
  DEF Next, Acquire, Attempt, Retry, Rm, WriteHeartbeat, WriteMeta, Places

(* The type invariant, for any number of processes. *)
THEOREM TypeCorrect == Spec => []TypeOK
BY TypeInit, TypeStep, PTL DEF Spec

-------------------------------------------------------------------------------
(* The invariant.                                                          *)

(* Entries are in a directory; what is gone is not old. *)
Shape ==
  /\ \A e \in Entries : Exists(e) => Exists("dir")
  /\ \A x \in Paths : ~Exists(x) => ~file[x].old

(* An owner has the directory, young, in which no entry is another's. *)
Owner(p) == pc[p] \in {"unbreak mine", "heartbeat", "meta", "held", "release"}
Owns(p) ==
  /\ file["dir"].by = p /\ ~file["dir"].old
  /\ \A e \in Entries : file[e].by \in {p, None} /\ ~file[e].old
  /\ pc[p] \in {"unbreak mine", "heartbeat", "meta"} => "dir" \in since[p] /\ ~Exists("meta")
  /\ pc[p] \in {"unbreak mine", "heartbeat"} => ~Exists("heartbeat")
  /\ pc[p] \in {"meta", "release"} => "heartbeat" \in since[p]
  /\ pc[p] = "held" => file["meta"].by = p

(* The breaker is that of a process at work under it, which has seen it made. *)
UnderBreaker ==
  /\ Exists("breaker") => \E p \in Procs : Breaking(p)
  /\ \A p \in Procs : Breaking(p) =>
       file["breaker"].by = p /\ ~file["breaker"].old /\ "breaker" \in since[p]
  /\ \A p \in Procs :
       pc[p] \in {"clear", "remake", "unbreak", "unbreak mine", "unbreak failed"} => again[p]

(* Nobody removes another's breaker or finds its own lock taken; who clears  *)
(* up has a directory to clear, and no owner.                                *)
Orderly ==
  /\ \A p \in Procs : pc[p] \notin {"sweep", "undo"}
  /\ \A p \in Procs : pc[p] = "clear" => Exists("dir") /\ \A q \in Procs : ~Owner(q)

Protocol == UnderBreaker /\ Orderly /\ \A p \in Procs : Owner(p) => Owns(p)

IInv == TypeOK /\ Shape /\ (faults = {} => Protocol)

-------------------------------------------------------------------------------
(* The invariant is inductive.                                             *)

LEMMA Facts ==
  ASSUME IInv, faults = {}, NEW p \in Procs, NEW q \in Procs
  PROVE  /\ Owner(p) => Owns(p) /\ Exists("dir")
         /\ Owner(p) /\ Owner(q) => p = q
         /\ Breaking(p) /\ Breaking(q) => p = q
         /\ Breaking(p) => Exists("breaker")
         /\ pc[p] = "clear" => Breaking(p) /\ Exists("dir") /\ ~Owner(q)
BY LockAssumption DEF IInv, Protocol, Owns, Exists, UnderBreaker, Orderly, Breaking

(* What a step of p must show: what becomes of the breaker, that others keep *)
(* their locks, and that its own new place is a right one.                   *)
LEMMA StepKeeps ==
  ASSUME IInv, faults = {},
         NEW p \in Procs, NEW place \in Places, NEW xs \in SUBSET Paths,
         GoesTouching(p, place, xs),
         \A q \in Procs : q # p => again'[q] = again[q],
         \/ file'["breaker"] = file["breaker"] /\ (Breaking(p)' <=> Breaking(p))
         \/ file'["breaker"] = Gone /\ Breaking(p) /\ ~Breaking(p)'
         \/ /\ file'["breaker"] = Fresh(p) /\ "breaker" \in xs
            /\ ~Exists("breaker") /\ Breaking(p)' /\ place \notin Resting,
         place \in {"clear", "remake", "unbreak", "unbreak mine", "unbreak failed"} => again'[p],
         place \notin {"sweep", "undo"},
         place = "clear" => Exists("dir")' /\ \A q \in Procs : ~Owner(q),
         \A q \in Procs : q # p /\ Owner(q) =>
           \A x \in Entries \union {"dir"} : file'[x] = file[x],
         \A q \in Procs : q # p /\ pc[q] = "clear" => Exists("dir")' /\ ~Owner(p)',
         Owner(p)' => Owns(p)'
  PROVE  Protocol'
<1>t. TypeOK BY DEF IInv
<1>m. /\ pc'[p] = place
      /\ \A q \in Procs : q # p => pc'[q] = pc[q]
      /\ \A q \in Procs : pc'[q] \notin Resting => since'[q] = since[q] \union xs
  <2>1. pc'[p] = place /\ \A q \in Procs : q # p => pc'[q] = pc[q]
    <3>1. pc' = [pc EXCEPT ![p] = place] BY DEF GoesTouching
    <3>2. pc \in [Procs -> Places] BY <1>t DEF TypeOK
    <3> QED BY ONLY <3>1, <3>2, p \in Procs
  <2>2. \A q \in Procs : pc'[q] \notin Resting => since'[q] = since[q] \union xs
    <3>1. since' = [q \in Procs |-> IF pc'[q] \in Resting THEN {} ELSE since[q] \union xs]
      BY DEF GoesTouching
    <3> QED BY ONLY <3>1
  <2> QED BY <2>1, <2>2
<1>b. \A q \in Procs : q # p => (Breaking(q)' <=> Breaking(q))
  BY <1>m DEF Breaking
<1>1. UnderBreaker'
  <2>1. Exists("breaker")' => \E q \in Procs : Breaking(q)'
    <3> SUFFICES ASSUME Exists("breaker")' PROVE \E q \in Procs : Breaking(q)'
      OBVIOUS
    <3>1. CASE file'["breaker"] = file["breaker"] /\ (Breaking(p)' <=> Breaking(p))
      <4>1. PICK q \in Procs : Breaking(q)
        BY <3>1 DEF Exists, IInv, Protocol, UnderBreaker
      <4> QED BY <4>1, <3>1, <1>b
    <3>2. CASE file'["breaker"] = Gone
      BY <3>2, Marks DEF Exists
    <3>3. CASE Breaking(p)'
      BY <3>3
    <3> QED BY <3>1, <3>2, <3>3
  <2>2. ASSUME NEW q \in Procs, Breaking(q)'
        PROVE  file'["breaker"].by = q /\ ~file'["breaker"].old /\ "breaker" \in since'[q]
    <3>1. pc'[q] \notin Resting
      BY <2>2 DEF Breaking
    <3>2. CASE Breaking(q) /\ file'["breaker"] = file["breaker"]
      BY <3>1, <3>2, <1>m DEF IInv, Protocol, UnderBreaker
    <3>3. CASE q # p
      <4>1. Breaking(q) /\ Exists("breaker")
        BY <2>2, <3>3, <1>b, Facts
      <4>2. ~Breaking(p)
        BY <4>1, <3>3, Facts
      <4> QED BY <4>1, <4>2, <3>2
    <3>4. CASE q = p /\ ~Breaking(p)
      BY <2>2, <3>1, <3>4, <1>m, Marks
    <3>5. CASE q = p /\ Breaking(p)
      <4>1. Breaking(p)' /\ Exists("breaker")
        BY <2>2, <3>5, Facts
      <4> QED BY <3>5, <4>1, <3>2
    <3> QED BY <3>3, <3>4, <3>5
  <2>3. ASSUME NEW q \in Procs,
               pc'[q] \in {"clear", "remake", "unbreak", "unbreak mine", "unbreak failed"}
        PROVE  again'[q]
    BY <2>3, <1>m DEF IInv, Protocol, UnderBreaker
  <2> QED BY <2>1, <2>2, <2>3 DEF UnderBreaker, Breaking
<1>2. Orderly'
  <2>1. \A q \in Procs : pc'[q] \notin {"sweep", "undo"}
    BY <1>m DEF IInv, Protocol, Orderly
  <2>2. ASSUME NEW q \in Procs, pc'[q] = "clear", NEW r \in Procs
        PROVE  Exists("dir")' /\ ~Owner(r)'
    <3>1. CASE q = p
      BY <2>2, <3>1, <1>m DEF Owner
    <3>2. CASE q # p /\ r = p
      BY <2>2, <3>2, <1>m
    <3>3. CASE q # p /\ r # p
      <4>1. pc[q] = "clear" /\ ~Owner(r)
        BY <2>2, <3>3, <1>m, Facts
      <4> QED BY <4>1, <3>3, <1>m DEF Owner
    <3> QED BY <3>1, <3>2, <3>3
  <2> QED BY <2>1, <2>2 DEF Orderly
<1>3. ASSUME NEW q \in Procs, Owner(q)' PROVE Owns(q)'
  <2>1. CASE q = p
    BY <2>1, <1>3
  <2>2. CASE q # p
    <3>1. Owner(q) /\ pc'[q] = pc[q]
      BY <2>2, <1>3, <1>m DEF Owner
    <3>2. /\ Owns(q)
          /\ \A x \in Entries \union {"dir"} : file'[x] = file[x]
      BY <3>1, <2>2, Facts
    <3>3. pc'[q] \notin Resting => since'[q] = since[q] \union xs
      BY <1>m
    <3> QED BY <3>1, <3>2, <3>3 DEF Owns, Exists
  <2> QED BY <2>1, <2>2
<1> QED BY <1>1, <1>2, <1>3 DEF Protocol

(* A look: nothing but the place changes. *)
LEMMA LookKeeps ==
  ASSUME IInv, faults = {},
         NEW p \in Procs, NEW place \in Places, NEW xs \in SUBSET Paths,
         GoesTouching(p, place, xs), UNCHANGED <<file, again>>,
         Breaking(p)' <=> Breaking(p),
         place \in {"clear", "remake", "unbreak", "unbreak mine", "unbreak failed"} => again[p],
         place \notin {"sweep", "undo"},
         place = "clear" => Exists("dir") /\ \A q \in Procs : ~Owner(q),
         Owner(p)' => Owner(p) /\ Owns(p)'
  PROVE  Protocol'
<1>1. Exists("dir")' <=> Exists("dir") BY DEF Exists
<1>2. \A q \in Procs : pc[q] = "clear" => Exists("dir") /\ ~Owner(p) BY Facts
<1> QED BY <1>1, <1>2, StepKeeps

(* What is found stale has no owner. *)
LEMMA StaleIsFree ==
  ASSUME IInv, faults = {}, NEW x \in Entries \union {"dir"}, file[x].old
  PROVE  Exists("dir") /\ \A q \in Procs : ~Owner(q)
BY DEF IInv, Shape, Protocol, Owns

LEMMA StatsKeep ==
  ASSUME IInv, faults = {}, NEW p \in Procs,
         StatHeartbeat(p) \/ StatMeta(p) \/ StatDir(p)
  PROVE  Protocol'
<1> USE DEF Goes, Looks
<1>p. pc[p] \in {"heartbeat?", "meta?", "dir?"}
  BY DEF StatHeartbeat, StatMeta, StatDir
<1>u. UNCHANGED <<file, again>>
  BY DEF StatHeartbeat, StatMeta, StatDir
<1>1. ASSUME NEW x \in Entries \union {"dir"}, Decides(p, file[x].old) PROVE Protocol'
  <2> DEFINE place == IF again[p] THEN (IF file[x].old THEN "clear" ELSE "unbreak")
                                  ELSE (IF file[x].old THEN "break" ELSE "retry")
  <2>1. GoesTouching(p, place, {}) /\ place \in Places
    BY <1>1 DEF Decides, Places
  <2>2. pc'[p] = place
    BY <2>1, Motion DEF IInv
  <2>3. Breaking(p)' <=> Breaking(p)
    BY <1>p, <1>u, <2>2 DEF Breaking
  <2>4. ~Owner(p)'
    BY <2>2 DEF Owner
  <2>5. place = "clear" => Exists("dir") /\ \A q \in Procs : ~Owner(q)
    BY StaleIsFree
  <2>6. place \in {"clear", "remake", "unbreak", "unbreak mine", "unbreak failed"} => again[p]
    OBVIOUS
  <2>7. place \notin {"sweep", "undo"}
    OBVIOUS
  <2> HIDE DEF place
  <2> QED BY <1>u, <2>1, <2>3, <2>4, <2>5, <2>6, <2>7, LookKeeps
<1>2. ASSUME NEW place \in {"meta?", "dir?"}, Goes(p, place) PROVE Protocol'
  <2>1. GoesTouching(p, place, {}) /\ place \in Places
    BY <1>2 DEF Places
  <2>2. pc'[p] = place
    BY <2>1, Motion DEF IInv
  <2>3. (Breaking(p)' <=> Breaking(p)) /\ ~Owner(p)'
    BY <1>p, <1>u, <2>2 DEF Breaking, Owner
  <2> QED BY <1>u, <2>1, <2>3, LookKeeps
<1> QED BY <1>1, <1>2 DEF StatHeartbeat, StatMeta, StatDir

(* MkDir *)
LEMMA MkDirKeeps ==
  ASSUME IInv, faults = {}, NEW p \in Procs, pc[p] \in {"idle", "retry"}, MkDir(p)
  PROVE  Protocol'
<1> USE DEF Goes
<1>t. TypeOK /\ file \in [Paths -> Mark] BY DEF IInv, TypeOK, Mark
<1>b. ~Breaking(p) BY DEF Breaking
<1>a. /\ again' = [again EXCEPT ![p] = FALSE]
      /\ again \in [Procs -> BOOLEAN]
  BY <1>t DEF MkDir, TypeOK
<1>c. ~Breaking(p)' BY <1>a DEF Breaking
<1>1. CASE Exists("dir")
  <2>1. GoesTouching(p, "heartbeat?", {}) /\ UNCHANGED file
    BY <1>1 DEF MkDir
  <2>2. pc'[p] = "heartbeat?"
    BY <2>1, <1>t, Motion DEF Places
  <2>3. ~Owner(p)'
    BY <2>2 DEF Owner
  <2>4. "heartbeat?" \in Places /\ {} \subseteq Paths
    BY DEF Places
  <2>5. \A q \in Procs : q # p /\ pc[q] = "clear" => Exists("dir")'
    BY <1>1, <2>1 DEF Exists
  <2> QED BY <1>a, <1>b, <1>c, <2>1, <2>3, <2>4, <2>5, StepKeeps
<1>2. CASE ~Exists("dir")
  <2>1. GoesTouching(p, "heartbeat", {"dir"}) /\ file' = [file EXCEPT !["dir"] = Fresh(p)]
    BY <1>2 DEF MkDir
  <2>2. "heartbeat" \in Places /\ {"dir"} \subseteq Paths
    BY DEF Places
  <2>3. pc'[p] = "heartbeat" /\ since'[p] = since[p] \union {"dir"}
    BY <2>1, <2>2, <1>t, Motion
  <2>4. \A q \in Procs : ~Owner(q) /\ pc[q] # "clear"
    BY <1>2, Facts
  <2>5. file'["breaker"] = file["breaker"]
    BY <2>1, <1>t
  <2>6. Owns(p)'
    <3>1. file'["dir"] = Fresh(p) /\ \A e \in Entries : file'[e] = file[e]
      BY <2>1, <1>t
    <3>2. \A e \in Entries : file[e].by = None /\ ~file[e].old
      BY <1>2 DEF IInv, Shape, Exists
    <3> QED BY <3>1, <3>2, <2>3, Marks DEF Owns, Exists
  <2> QED BY <1>a, <1>b, <1>c, <2>1, <2>2, <2>4, <2>5, <2>6, StepKeeps
<1> QED BY <1>1, <1>2

LEMMA BreakKeeps ==
  ASSUME IInv, faults = {}, NEW p \in Procs, Break(p)
  PROVE  Protocol'
<1> USE DEF Goes
<1>t. TypeOK /\ file \in [Paths -> Mark] /\ again \in [Procs -> BOOLEAN]
  BY DEF IInv, TypeOK, Mark
<1>b. ~Breaking(p) /\ pc[p] = "break" BY DEF Break, Breaking
<1>1. CASE Exists("breaker")
  <2>1. GoesTouching(p, "breaker?", {}) /\ UNCHANGED <<file, again>>
    BY <1>1 DEF Break
  <2>2. "breaker?" \in Places /\ {} \subseteq Paths
    BY DEF Places
  <2>3. pc'[p] = "breaker?"
    BY <2>1, <2>2, <1>t, Motion
  <2>4. ~Owner(p)' /\ ~Breaking(p)'
    BY <2>3 DEF Owner, Breaking
  <2> QED BY <1>b, <2>1, <2>2, <2>4, LookKeeps
<1>2. CASE ~Exists("breaker")
  <2>1. /\ GoesTouching(p, "heartbeat?", {"breaker"})
        /\ file' = [file EXCEPT !["breaker"] = Fresh(p)]
        /\ again' = [again EXCEPT ![p] = TRUE]
    BY <1>2 DEF Break
  <2>2. "heartbeat?" \in Places /\ {"breaker"} \subseteq Paths
    BY DEF Places
  <2>3. pc'[p] = "heartbeat?"
    BY <2>1, <2>2, <1>t, Motion
  <2>4. Breaking(p)' /\ ~Owner(p)'
    BY <1>t, <2>1, <2>3 DEF Breaking, Owner
  <2>5. file'["breaker"] = Fresh(p) /\ \A x \in Entries \union {"dir"} : file'[x] = file[x]
    BY <1>t, <2>1
  <2>6. \A q \in Procs : pc[q] = "clear" => Exists("dir")'
    BY <2>5, Facts DEF Exists
  <2>7. (\A q \in Procs : q # p => again'[q] = again[q]) /\ again'[p]
    BY <1>t, <2>1
  <2> QED BY <1>2, <2>1, <2>2, <2>4, <2>5, <2>6, <2>7, StepKeeps
<1> QED BY <1>1, <1>2

(* A breaker that exists is that of a process at work: it is not old. *)
LEMMA StatBreakerKeeps ==
  ASSUME IInv, faults = {}, NEW p \in Procs, StatBreaker(p)
  PROVE  Protocol'
<1>t. TypeOK BY DEF IInv
<1>1. ~file["breaker"].old
  BY DEF IInv, Shape, Protocol, UnderBreaker
<1>2. GoesTouching(p, "retry", {}) /\ UNCHANGED <<file, again>> /\ pc[p] = "breaker?"
  BY <1>1 DEF StatBreaker, Goes, Looks
<1>3. "retry" \in Places /\ {} \subseteq Paths
  BY DEF Places
<1>4. ~Owner(p)' /\ ~Breaking(p)' /\ ~Breaking(p)
  BY <1>2, <1>3, <1>t, Motion DEF Owner, Breaking
<1> QED BY <1>2, <1>3, <1>4, LookKeeps

LEMMA RemakeKeeps ==
  ASSUME IInv, faults = {}, NEW p \in Procs, Remake(p)
  PROVE  Protocol'
<1> USE DEF Goes, Acts
<1>t. TypeOK /\ file \in [Paths -> Mark] BY DEF IInv, TypeOK, Mark
<1>b. again[p] /\ Breaking(p) /\ UNCHANGED again
  BY DEF Remake, Breaking, IInv, Protocol, UnderBreaker
<1>1. CASE Exists("dir")
  <2>1. GoesTouching(p, "unbreak", {}) /\ UNCHANGED file
    BY <1>1 DEF Remake
  <2>2. "unbreak" \in Places /\ {} \subseteq Paths
    BY DEF Places
  <2>3. ~Owner(p)' /\ Breaking(p)'
    BY <1>b, <2>1, <2>2, <1>t, Motion DEF Owner, Breaking
  <2> QED BY <1>b, <2>1, <2>2, <2>3, LookKeeps
<1>2. CASE ~Exists("dir")
  <2>1. GoesTouching(p, "unbreak mine", {"dir"}) /\ file' = [file EXCEPT !["dir"] = Fresh(p)]
    BY <1>2 DEF Remake
  <2>2. "unbreak mine" \in Places /\ {"dir"} \subseteq Paths
    BY DEF Places
  <2>3. pc'[p] = "unbreak mine" /\ since'[p] = since[p] \union {"dir"}
    BY <2>1, <2>2, <1>t, Motion
  <2>4. \A q \in Procs : ~Owner(q) /\ pc[q] # "clear"
    BY <1>2, Facts
  <2>5. file'["breaker"] = file["breaker"] /\ Breaking(p)'
    BY <1>b, <2>1, <2>3, <1>t DEF Breaking
  <2>6. Owns(p)'
    <3>1. file'["dir"] = Fresh(p) /\ \A e \in Entries : file'[e] = file[e]
      BY <2>1, <1>t
    <3>2. \A e \in Entries : file[e].by = None /\ ~file[e].old
      BY <1>2 DEF IInv, Shape, Exists
    <3> QED BY <3>1, <3>2, <2>3, Marks DEF Owns, Exists
  <2> QED BY <1>b, <2>1, <2>2, <2>4, <2>5, <2>6, StepKeeps
<1> QED BY <1>1, <1>2 DEF Remake

LEMMA UnbreakKeeps ==
  ASSUME IInv, faults = {}, NEW p \in Procs, Unbreak(p)
  PROVE  Protocol'
<1> USE DEF Goes, Acts
<1>t. TypeOK /\ file \in [Paths -> Mark] BY DEF IInv, TypeOK, Mark
<1>b. Breaking(p) /\ UNCHANGED again
  BY DEF Unbreak, Breaking, IInv, Protocol, UnderBreaker
<1>1. PICK place \in {"retry", "heartbeat", "idle"} :
        GoesTouching(p, place, {}) /\ (place = "heartbeat" <=> pc[p] = "unbreak mine")
  <2>1. CASE pc[p] = "unbreak" BY <2>1 DEF Unbreak
  <2>2. CASE pc[p] = "unbreak mine" BY <2>2 DEF Unbreak
  <2>3. CASE pc[p] = "unbreak failed" BY <2>3 DEF Unbreak
  <2> QED BY <2>1, <2>2, <2>3 DEF Unbreak
<1>2. place \in Places /\ {} \subseteq Paths
  BY DEF Places
<1>3. /\ pc'[p] = place /\ ~Breaking(p)'
      /\ place = "heartbeat" => since'[p] = since[p]
  <2>1. pc'[p] = place /\ (place \notin Resting => since'[p] = since[p] \union {})
    BY <1>1, <1>2, <1>t, Motion
  <2> QED BY <2>1 DEF Breaking
<1>4. /\ file'["breaker"] = Gone
      /\ \A x \in Entries \union {"dir"} : file'[x] = file[x]
  BY <1>t DEF Unbreak
<1>5. \A q \in Procs : q # p => pc[q] # "clear"
  BY <1>b, Facts
<1>6. Owner(p)' => Owns(p)'
  <2> SUFFICES ASSUME Owner(p)' PROVE Owns(p)'
    OBVIOUS
  <2>1. place = "heartbeat" /\ pc[p] = "unbreak mine"
    BY <1>1, <1>3 DEF Owner
  <2>2. Owns(p)
    BY <2>1, Facts DEF Owner
  <2> QED BY <2>1, <2>2, <1>3, <1>4 DEF Owns, Exists
<1>7. /\ place \notin {"clear", "remake", "unbreak", "unbreak mine", "unbreak failed"}
      /\ place \notin {"sweep", "undo"}
  BY <1>1
<1> QED BY <1>b, <1>1, <1>2, <1>3, <1>4, <1>5, <1>6, <1>7, StepKeeps

(* An owner's writes find the directory, and no entry in their way. *)
LEMMA WriteKeeps ==
  ASSUME IInv, faults = {}, NEW p \in Procs, WriteHeartbeat(p) \/ WriteMeta(p)
  PROVE  Protocol'
<1> USE DEF Goes, Acts
<1>t. TypeOK /\ file \in [Paths -> Mark] BY DEF IInv, TypeOK, Mark
<1>o. Owner(p) /\ Owns(p) /\ Exists("dir") /\ ~Breaking(p)
  BY Facts DEF WriteHeartbeat, WriteMeta, Write, Owner, Breaking
<1>f. \A q \in Procs : (q # p => ~Owner(q)) /\ pc[q] # "clear"
  BY <1>o, Facts
<1>1. CASE WriteHeartbeat(p)
  <2>1. /\ GoesTouching(p, "meta", {"heartbeat", "dir"}) /\ UNCHANGED again
        /\ file' = [file EXCEPT !["heartbeat"] = Fresh(p), !["dir"] = Fresh(p)]
        /\ pc[p] = "heartbeat"
    BY <1>1, <1>o DEF WriteHeartbeat, Write, Owns
  <2>2. "meta" \in Places /\ {"heartbeat", "dir"} \subseteq Paths
    BY DEF Places
  <2>3. pc'[p] = "meta" /\ since'[p] = since[p] \union {"heartbeat", "dir"}
    BY <2>1, <2>2, <1>t, Motion
  <2>4. /\ file'["heartbeat"] = Fresh(p) /\ file'["dir"] = Fresh(p)
        /\ file'["meta"] = file["meta"] /\ file'["breaker"] = file["breaker"]
    BY <2>1, <1>t
  <2>5. ~Breaking(p)'
    BY <2>3 DEF Breaking
  <2>6. Owns(p)'
    BY <1>o, <2>1, <2>3, <2>4, Marks DEF Owns, Exists
  <2> QED BY <1>o, <1>f, <2>1, <2>2, <2>4, <2>5, <2>6, StepKeeps
<1>2. CASE WriteMeta(p)
  <2>1. /\ GoesTouching(p, "held", {"meta", "dir"}) /\ UNCHANGED again
        /\ file' = [file EXCEPT !["meta"] = Fresh(p), !["dir"] = Fresh(p)]
        /\ pc[p] = "meta"
    BY <1>2, <1>o DEF WriteMeta, Write, Owns
  <2>2. "held" \in Places /\ {"meta", "dir"} \subseteq Paths
    BY DEF Places
  <2>3. pc'[p] = "held"
    BY <2>1, <2>2, <1>t, Motion
  <2>4. /\ file'["meta"] = Fresh(p) /\ file'["dir"] = Fresh(p)
        /\ file'["heartbeat"] = file["heartbeat"] /\ file'["breaker"] = file["breaker"]
    BY <2>1, <1>t
  <2>5. ~Breaking(p)'
    BY <2>3 DEF Breaking
  <2>6. Owns(p)'
    BY <1>o, <2>3, <2>4, Marks DEF Owns, Exists
  <2> QED BY <1>o, <1>f, <2>1, <2>2, <2>4, <2>5, <2>6, StepKeeps
<1> QED BY <1>1, <1>2

(* A holder finds its own metadata. *)
LEMMA ReleaseKeeps ==
  ASSUME IInv, faults = {}, NEW p \in Procs, Release(p)
  PROVE  Protocol'
<1>t. TypeOK BY DEF IInv
<1>1. Owner(p) /\ Owns(p) /\ pc[p] = "held" /\ ~Breaking(p)
  BY Facts DEF Release, Owner, Breaking
<1>2. GoesTouching(p, "release", {"heartbeat"}) /\ UNCHANGED <<file, again>>
  BY <1>1 DEF Release, Looks, Owns
<1>3. "release" \in Places /\ {"heartbeat"} \subseteq Paths
  BY DEF Places
<1>4. pc'[p] = "release" /\ since'[p] = since[p] \union {"heartbeat"}
  BY <1>2, <1>3, <1>t, Motion
<1>5. ~Breaking(p)' BY <1>4 DEF Breaking
<1>6. Owns(p)' BY <1>1, <1>2, <1>4 DEF Owns, Exists
<1> QED BY <1>1, <1>2, <1>3, <1>5, <1>6, LookKeeps

(* rm: that of an owner finds its own, that of a cleaner nobody's. *)
LEMMA RmKeeps ==
  ASSUME IInv, faults = {}, NEW p \in Procs, Rm(p)
  PROVE  Protocol'
<1> USE DEF Goes, Acts
<1>t. TypeOK /\ file \in [Paths -> Mark] BY DEF IInv, TypeOK, Mark
<1>p. pc[p] \in {"clear", "release"}
  BY DEF Rm, RmList, RmEntry, RmDir, Removes, IInv, Protocol, Orderly
<1>o. \A q \in Procs : q # p => ~Owner(q) /\ pc[q] # "clear"
  BY <1>p, Facts DEF Owner
<1>d. Exists("dir") BY <1>p, Facts DEF Owner
<1>b. (pc[p] = "clear" => again[p] /\ Breaking(p)) /\ (pc[p] = "release" => ~Breaking(p))
  BY DEF Breaking, IInv, Protocol, UnderBreaker
<1>1. CASE RmList(p)
  BY <1>1 DEF RmList, IInv, Protocol, UnderBreaker, Orderly, Owner, Owns, Breaking, Exists
<1>2. CASE RmEntry(p)
  <2>1. PICK e \in listed[p] :
          file' = [file EXCEPT ![e] = Gone, !["dir"] = IF Exists("dir") THEN Fresh(p) ELSE Gone]
    BY <1>2 DEF RmEntry
  <2>2. e \in Entries BY <2>1, <1>t DEF TypeOK
  <2>3. /\ file'["dir"] = Fresh(p) /\ file'["breaker"] = file["breaker"]
        /\ \A x \in Entries : file'[x] \in {file[x], Gone}
    BY <2>1, <2>2, <1>t, <1>d
  <2>4. GoesTouching(p, pc[p], {"dir"}) /\ UNCHANGED again
    BY <1>2 DEF RmEntry
  <2>5. pc[p] \in Places /\ {"dir"} \subseteq Paths
    BY <1>t DEF TypeOK
  <2>6. pc'[p] = pc[p] /\ since'[p] = since[p] \union {"dir"}
    BY <2>4, <2>5, <1>t, <1>p, Motion
  <2>7. (Breaking(p)' <=> Breaking(p)) /\ (Owner(p)' <=> Owner(p))
    BY <2>4, <2>6 DEF Breaking, Owner
  <2>8. Owner(p)' => Owns(p)'
    <3>1. Owner(p) => Owns(p) /\ pc[p] = "release" BY <1>p, Facts DEF Owner
    <3> QED BY <3>1, <2>3, <2>6, <2>7, Marks DEF Owns, Exists
  <2>9. Exists("dir")' BY <2>3, Marks, LockAssumption DEF Exists
  <2>10. pc[p] = "clear" => \A q \in Procs : ~Owner(q) BY Facts
  <2> QED BY <1>p, <1>o, <1>b, <2>3, <2>4, <2>5, <2>7, <2>8, <2>9, <2>10, StepKeeps
<1>3. CASE RmDir(p)
  <2>1. PICK place \in {"remake", "idle"} :
          GoesTouching(p, place, {}) /\ (place = "remake" <=> pc[p] = "clear")
    <3>1. CASE pc[p] = "clear" BY <1>3, <3>1 DEF RmDir
    <3>2. CASE pc[p] = "release" BY <1>3, <3>2 DEF RmDir
    <3> QED BY <1>p, <3>1, <3>2
  <2>2. place \in Places /\ {} \subseteq Paths
    BY DEF Places
  <2>3. pc'[p] = place /\ UNCHANGED again
    BY <1>3, <2>1, <2>2, <1>t, Motion DEF RmDir
  <2>4. (Breaking(p)' <=> Breaking(p)) /\ ~Owner(p)'
    BY <1>p, <1>b, <2>1, <2>3 DEF Breaking, Owner
  <2>5. file'["breaker"] = file["breaker"]
    BY <1>3, <1>t DEF RmDir
  <2>6. place = "remake" => again[p] BY <1>b, <2>1
  <2> QED BY <1>o, <2>1, <2>2, <2>3, <2>4, <2>5, <2>6, StepKeeps
<1> QED BY <1>1, <1>2, <1>3 DEF Rm

LEMMA RmFailsKeeps ==
  ASSUME IInv, faults = {}, NEW p \in Procs, RmFails(p)
  PROVE  Protocol'
<1>t. TypeOK BY DEF IInv
<1>1. PICK place \in {"unbreak failed", "unbreak", "idle"} :
        GoesTouching(p, place, {}) /\ (place # "idle" <=> pc[p] = "clear")
  <2>1. CASE pc[p] = "clear" BY <2>1 DEF RmFails, Goes
  <2>2. CASE pc[p] # "clear" BY <2>2 DEF RmFails, Goes
  <2> QED BY <2>1, <2>2
<1>2. UNCHANGED <<file, again>> /\ pc[p] \in {"clear", "release"}
  BY DEF RmFails, Looks, Removes, IInv, Protocol, Orderly
<1>3. place \in Places /\ {} \subseteq Paths BY DEF Places
<1>4. pc'[p] = place BY <1>1, <1>3, <1>t, Motion
<1>5. pc[p] = "clear" => again[p] BY DEF IInv, Protocol, UnderBreaker
<1>6. (Breaking(p)' <=> Breaking(p)) /\ ~Owner(p)'
  BY <1>1, <1>2, <1>4, <1>5 DEF Breaking, Owner
<1> QED BY <1>1, <1>2, <1>3, <1>5, <1>6, LookKeeps

LEMMA GiveUpKeeps ==
  ASSUME IInv, faults = {}, NEW p \in Procs, GiveUp(p)
  PROVE  Protocol'
<1>1. GoesTouching(p, "idle", {}) /\ UNCHANGED <<file, again>> /\ pc[p] = "retry"
  BY DEF GiveUp, Goes, Looks
<1>2. "idle" \in Places /\ {} \subseteq Paths BY DEF Places
<1>3. pc'[p] = "idle" BY <1>1, <1>2, Motion DEF IInv
<1>4. ~Breaking(p) /\ ~Breaking(p)' /\ ~Owner(p)' BY <1>1, <1>3 DEF Breaking, Owner
<1> QED BY <1>1, <1>2, <1>4, LookKeeps

(* Unless it is the breaker's owner that dies. *)
LEMMA DieKeeps ==
  ASSUME IInv, faults' = {}, faults = {}, NEW p \in Procs, Die(p)
  PROVE  Protocol'
<1> DEFINE xs == IF pc[p] = "held" THEN {"heartbeat"} ELSE {}
<1>1. ~Breaking(p) BY DEF Die
<1>2. GoesTouching(p, "dead", xs) /\ UNCHANGED <<file, again>> BY DEF Die
<1>3. "dead" \in Places /\ xs \subseteq Paths BY DEF Places
<1> HIDE DEF xs
<1>4. pc'[p] = "dead" BY <1>2, <1>3, Motion DEF IInv
<1>5. ~Breaking(p)' /\ ~Owner(p)' BY <1>4 DEF Breaking, Owner
<1> QED BY <1>1, <1>2, <1>3, <1>5, LookKeeps

(* What the protocol relies on to be young does not age, or the lock is held *)
(* for long.                                                                 *)
LEMMA AgeKeeps ==
  ASSUME IInv, faults' = {}, faults = {}, NEW x \in Paths, Age(x)
  PROVE  Protocol'
<1>t. file \in [Paths -> Mark] BY DEF IInv, TypeOK, Mark
<1>1. /\ file' = [file EXCEPT ![x].old = TRUE]
      /\ UNCHANGED <<pc, again, since>>
      /\ Exists(x) /\ \A p \in Procs : x \notin since[p]
      /\ x = "heartbeat" => \A p \in Procs : pc[p] # "held"
  BY DEF Age
<1>2. \A y \in Paths : file'[y].by = file[y].by /\ (y # x => file'[y] = file[y])
  BY <1>1, <1>t DEF Mark
<1>3. \A y \in Paths : Exists(y)' <=> Exists(y)
  BY <1>2 DEF Exists
<1>4. \A p \in Procs : (Owner(p)' <=> Owner(p)) /\ (Breaking(p)' <=> Breaking(p))
  BY <1>1 DEF Owner, Breaking
<1>5. UnderBreaker'
  <2>1. \A p \in Procs : Breaking(p) => x # "breaker"
    BY <1>1 DEF IInv, Protocol, UnderBreaker
  <2> QED BY <1>1, <1>2, <1>3, <1>4, <2>1 DEF IInv, Protocol, UnderBreaker
<1>6. Orderly'
  BY <1>1, <1>3, <1>4 DEF IInv, Protocol, Orderly
<1>7. ASSUME NEW p \in Procs, Owner(p)' PROVE Owns(p)'
  <2>1. Owner(p) /\ Owns(p) BY <1>4, <1>7, Facts
  <2>2. x = "breaker"
    <3>1. x # "dir"
      <4>1. CASE pc[p] \in {"held", "release"}
        BY <2>1, <4>1 DEF Age, Owns
      <4>2. CASE pc[p] \notin {"held", "release"}
        BY <2>1, <4>2, <1>1 DEF Owns, Owner
      <4> QED BY <4>1, <4>2
    <3>2. x # "heartbeat"
      BY <2>1, <1>1 DEF Owns, Owner
    <3>3. x # "meta"
      <4>1. CASE pc[p] \in {"held", "release"}
        BY <2>1, <4>1, <1>1 DEF Age, Owns, Exists
      <4>2. CASE pc[p] \notin {"held", "release"}
        BY <2>1, <4>2, <1>1 DEF Owns, Owner
      <4> QED BY <4>1, <4>2
    <3> QED BY <3>1, <3>2, <3>3
  <2> QED BY <2>1, <2>2, <1>1, <1>2, <1>3 DEF Owns
<1> QED BY <1>5, <1>6, <1>7 DEF Protocol

-------------------------------------------------------------------------------
(* Where entries are and what is gone does not depend on the proviso. *)
LEMMA ShapeStep ==
  ASSUME TypeOK, Shape, Next
  PROVE  Shape'
<1> USE DEF Goes, Looks, Acts
<1>t. file \in [Paths -> Mark] /\ listed \in [Procs -> SUBSET Entries]
  BY DEF TypeOK, Mark
<1>n. ~(None \in Procs) BY LockAssumption
<1>0. ASSUME UNCHANGED file PROVE Shape'
  BY <1>0 DEF Shape, Exists
<1>1. ASSUME NEW p \in Procs, NEW x \in {"dir", "breaker"},
             file' = [file EXCEPT ![x] = Fresh(p)]
      PROVE  Shape'
  BY <1>1, <1>t, <1>n, Marks DEF Shape, Exists
<1>2. ASSUME file' = [file EXCEPT !["breaker"] = Gone] PROVE Shape'
  BY <1>2, <1>t, Marks DEF Shape, Exists
<1>3. ASSUME NEW p \in Procs, NEW e \in Entries,
             file' = [file EXCEPT ![e] = Fresh(p), !["dir"] = Fresh(p)]
      PROVE  Shape'
  BY <1>3, <1>t, <1>n, Marks DEF Shape, Exists
<1>4. ASSUME NEW p \in Procs, RmEntry(p) PROVE Shape'
  <2>1. PICK e \in listed[p] :
          file' = [file EXCEPT ![e] = Gone, !["dir"] = IF Exists("dir") THEN Fresh(p) ELSE Gone]
    BY <1>4 DEF RmEntry
  <2>2. e \in Entries BY <2>1, <1>t
  <2>3. /\ file'["breaker"] = file["breaker"]
        /\ \A x \in Entries : file'[x] \in {file[x], Gone}
        /\ file'["dir"] = IF Exists("dir") THEN Fresh(p) ELSE Gone
    BY <2>1, <2>2, <1>t
  <2> QED BY <2>3, <1>n, Marks DEF Shape, Exists
<1>5. ASSUME NEW p \in Procs, RmDir(p) PROVE Shape'
  <2>1. file' = [file EXCEPT !["dir"] = Gone] /\ \A e \in Entries : ~Exists(e)
    BY <1>5 DEF RmDir, Found
  <2> QED BY <2>1, <1>t, Marks DEF Shape, Exists
<1>6. ASSUME NEW x \in Paths, Age(x) PROVE Shape'
  <2>1. file' = [file EXCEPT ![x].old = TRUE] /\ Exists(x) BY <1>6 DEF Age
  <2>2. \A y \in Paths : file'[y].by = file[y].by /\ (y # x => file'[y] = file[y])
    BY <2>1, <1>t DEF Mark
  <2> QED BY <2>1, <2>2 DEF Shape, Exists
<1>7. ASSUME NEW p \in Procs, Acquire(p) \/ Retry(p) \/ Remake(p) PROVE Shape'
  <2>1. UNCHANGED file \/ file' = [file EXCEPT !["dir"] = Fresh(p)]
    BY <1>7 DEF Acquire, Retry, MkDir, Remake
  <2> QED BY <2>1, <1>0, <1>1
<1>8. ASSUME NEW p \in Procs, Break(p) PROVE Shape'
  <2>1. UNCHANGED file \/ file' = [file EXCEPT !["breaker"] = Fresh(p)]
    BY <1>8 DEF Break
  <2> QED BY <2>1, <1>0, <1>1
<1>9. ASSUME NEW p \in Procs, WriteHeartbeat(p) \/ WriteMeta(p) PROVE Shape'
  <2>1. PICK e \in Entries :
          UNCHANGED file \/ file' = [file EXCEPT ![e] = Fresh(p), !["dir"] = Fresh(p)]
    BY <1>9 DEF WriteHeartbeat, WriteMeta, Write
  <2> QED BY <2>1, <1>0, <1>3
<1>10. ASSUME NEW p \in Procs, Sweep(p) \/ Unbreak(p) PROVE Shape'
  BY <1>10, <1>2 DEF Sweep, Unbreak
<1>11. ASSUME NEW p \in Procs,
              \/ StatHeartbeat(p) \/ StatMeta(p) \/ StatDir(p) \/ StatBreaker(p)
              \/ RmList(p) \/ RmFails(p) \/ Release(p) \/ GiveUp(p) \/ Die(p)
       PROVE  Shape'
  BY <1>11, <1>0 DEF StatHeartbeat, StatMeta, StatDir, StatBreaker, RmList, RmFails,
     Release, GiveUp, Die
<1> QED
  BY <1>4, <1>5, <1>6, <1>7, <1>8, <1>9, <1>10, <1>11 DEF Next, Attempt, Rm

(* Nobody forgets a fault. *)
LEMMA FaultsGrow == TypeOK /\ Next => faults \subseteq faults'
BY DEF Next, Acquire, Attempt, Retry, MkDir, StatHeartbeat, StatMeta, StatDir, Break,
   StatBreaker, Sweep, Rm, RmList, RmEntry, RmDir, RmFails, Remake, Unbreak, WriteHeartbeat,
   WriteMeta, Write, Release, GiveUp, Die, Age, Looks, Acts

LEMMA InvInit == Init => IInv
<1> SUFFICES ASSUME Init PROVE IInv
  OBVIOUS
<1>1. \A x \in Paths : file[x] \in {Gone, Fresh(Before)} BY DEF Init
<1>2. Shape
  BY <1>1, LockAssumption, Marks DEF Init, Shape, Exists
<1>3. faults = {} => ~Exists("breaker")
  BY DEF Init
<1>4. \A p \in Procs : pc[p] = "idle"
  BY DEF Init
<1>5. faults = {} => Protocol
  BY <1>3, <1>4 DEF Protocol, UnderBreaker, Orderly, Owner, Breaking
<1> QED BY <1>2, <1>5, TypeInit DEF IInv

LEMMA Inductive == IInv /\ [Next]_vars => IInv'
<1> SUFFICES ASSUME IInv, [Next]_vars PROVE IInv'
  OBVIOUS
<1>1. CASE UNCHANGED vars
  BY <1>1 DEF vars, IInv, TypeOK, Shape, Exists, Protocol, UnderBreaker, Breaking, Orderly,
     Owner, Owns
<1>2. CASE Next
  <2>1. TypeOK' BY <1>2, TypeStep DEF IInv
  <2>2. Shape' BY <1>2, ShapeStep DEF IInv
  <2>3. ASSUME faults' = {} PROVE Protocol'
    <3>1. faults = {} BY <1>2, <2>3, FaultsGrow DEF IInv
    <3>2. ASSUME NEW p \in Procs, Acquire(p) \/ Retry(p) PROVE Protocol'
      BY <3>1, <3>2, MkDirKeeps DEF Acquire, Retry
    <3>3. ASSUME NEW p \in Procs, StatHeartbeat(p) \/ StatMeta(p) \/ StatDir(p)
          PROVE  Protocol'
      BY <3>1, <3>3, StatsKeep
    <3>4. ASSUME NEW p \in Procs, Sweep(p) PROVE Protocol'
      BY <3>1, <3>4 DEF Sweep, IInv, Protocol, Orderly
    <3>5. ASSUME NEW p \in Procs, Break(p) \/ StatBreaker(p) \/ Remake(p) \/ Unbreak(p)
          PROVE  Protocol'
      BY <3>1, <3>5, BreakKeeps, StatBreakerKeeps, RemakeKeeps, UnbreakKeeps
    <3>6. ASSUME NEW p \in Procs, WriteHeartbeat(p) \/ WriteMeta(p) \/ Release(p)
          PROVE  Protocol'
      BY <3>1, <3>6, WriteKeeps, ReleaseKeeps
    <3>7. ASSUME NEW p \in Procs, Rm(p) \/ RmFails(p) \/ GiveUp(p) PROVE Protocol'
      BY <3>1, <3>7, RmKeeps, RmFailsKeeps, GiveUpKeeps
    <3>8. ASSUME NEW p \in Procs, Die(p) PROVE Protocol'
      BY <3>1, <3>8, <2>3, DieKeeps
    <3>9. ASSUME NEW x \in Paths, Age(x) PROVE Protocol'
      BY <3>1, <3>9, <2>3, AgeKeeps
    <3> QED BY <1>2, <3>2, <3>3, <3>4, <3>5, <3>6, <3>7, <3>8, <3>9 DEF Next, Attempt
  <2> QED BY <2>1, <2>2, <2>3 DEF IInv
<1> QED BY <1>1, <1>2

-------------------------------------------------------------------------------
(* The lock's promises, for any number of processes.                       *)

(* Unless a lock was held past staleMs or a process died with the breaker in *)
(* its hands, two processes never hold the lock at once.                     *)
THEOREM MutualExclusionAlways == Spec => []MutualExclusion
<1>1. IInv => MutualExclusion
  BY Facts DEF MutualExclusion, Owner
<1> QED BY <1>1, InvInit, Inductive, PTL DEF Spec

(* Nor do two processes clean a stale lock up at once. *)
THEOREM OneCleanerAlways == Spec => []OneCleaner
<1>1. IInv => OneCleaner
  BY Facts DEF OneCleaner
<1> QED BY <1>1, InvInit, Inductive, PTL DEF Spec

(* Nor does a release come across files of a process that has the lock now. *)
THEOREM RemovesOwnAlways == Spec => []RemovesOwn
<1>1. IInv => RemovesOwn
  BY Facts DEF RemovesOwn, Owner, Owns
<1> QED BY <1>1, InvInit, Inductive, PTL DEF Spec
===============================================================================
