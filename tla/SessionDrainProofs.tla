-------------------------- MODULE SessionDrainProofs --------------------------
(* What SessionDrain keeps for any number of fibers, calls, prompts and tools, *)
(* and that it implements SessionInbox.                                        *)
EXTENDS SessionDrain, TLAPS

(* A message id is in the inbox once. *)
UniqueIds == \A i, j \in DOMAIN inbox : inbox[i].id = inbox[j].id => i = j

(* Between the turns of a drain that has repaired the history, what is open   *)
(* was never run.                                                             *)
Repaired == {"cutoff", "select", "promote", "request", "more?", "more queued?"}
Fresh(d) == d.called = {} /\ d.settled = {}

(* In a turn it may also be the turn's own: and what was run is being run,    *)
(* unless a tool has died.                                                    *)
OwnOpen(d, o, u) ==
  /\ o \subseteq d.announced \union u
  /\ d.called \subseteq d.announced
  /\ d.step < MaxSteps =>
       d.settled = {} /\ (d.fault = "none" => o \intersect d.called \subseteq d.busy)

Answered ==
  \A f \in Fibers :
    /\ drain[f].at \in Repaired => open \subseteq unrun /\ Fresh(drain[f])
    /\ drain[f].at \in {"stream", "tools"} => OwnOpen(drain[f], open, unrun)

(* The rows in hand are the oldest that wait, per delivery. *)
RowsFirst ==
  \A f \in Fibers : drain[f].at = "promote" =>
    \A i \in drain[f].rows :
      /\ i \in Waiting
      /\ \A j \in Waiting : inbox[j].delivery = inbox[i].delivery /\ j <= i => j \in drain[f].rows

(* A drain that is neither woken nor stopped leaves nothing behind: no steer *)
(* that was asked for once it looks for queued prompts, and nothing at all   *)
(* once it leaves well.                                                      *)
NoneLeft ==
  \A f \in Fibers : ~pendingWake /\ ~stopping =>
    /\ drain[f].at \in {"queue?", "more queued?"} => due \intersect Pending("steer") = {}
    /\ drain[f].at = "leave" /\ drain[f].exit = "ok" => due = {}

(* An interrupted drain is that of a stopping entry. *)
HitIsStopping == \A f \in Fibers : drain[f].hit => stopping /\ drain[f].at # "none"

IInv == TypeOK /\ OneDrain /\ UniqueIds /\ Answered /\ RowsFirst /\ NoneLeft /\ HitIsStopping

-------------------------------------------------------------------------------
(* A fiber that is alive is the owner, and alone. *)
LEMMA Alone ==
  ASSUME IInv, NEW f \in Fibers, drain[f].at # "none"
  PROVE  /\ active /\ owner = f
         /\ \A g \in Fibers : g # f => drain[g].at = "none"
BY DEF IInv, OneDrain, Alive

(* Places of a drain, and the records built from the empty one. *)
LEMMA NoDrainType ==
  /\ NoDrain \in Drain
  /\ NoDrain.at = "none" /\ ~NoDrain.hit /\ Fresh(NoDrain) /\ NoDrain.exit = "ok"
BY DEF NoDrain, Drain, Fresh

LEMMA TurnType ==
  ASSUME DrainAssumption, NEW p \in {"none", "steer", "queue"}, NEW n \in Nat
  PROVE  /\ Turn(p, n) \in Drain
         /\ Turn(p, n).at = IF p = "none" THEN "request" ELSE "cutoff"
         /\ ~Turn(p, n).hit /\ Fresh(Turn(p, n))
<1>1. MaxSteps \in Nat BY DEF DrainAssumption
<1>2. Turn(p, n) \in Drain
  BY <1>1, NoDrainType DEF Turn, Drain
<1>3. Turn(p, n).at = IF p = "none" THEN "request" ELSE "cutoff"
  BY NoDrainType DEF Turn, Drain
<1>4. ~Turn(p, n).hit /\ Fresh(Turn(p, n))
  BY NoDrainType DEF Turn, Drain, Fresh
<1>5. QED BY <1>2, <1>3, <1>4

(* What a step of the only drain must show for the invariant to stay: the    *)
(* types, and the three promises of its new place.                           *)
LEMMA MoveKeeps ==
  ASSUME IInv, NEW f \in Fibers, drain[f].at # "none",
         drain' \in [Fibers -> Drain],
         \A g \in Fibers : g # f => drain'[g] = drain[g],
         drain'[f].at # "none",
         drain'[f].hit => stopping,
         UNCHANGED <<inbox, entry, call>>,
         promoted' \subseteq DOMAIN inbox,
         due' \subseteq DOMAIN inbox \ promoted',
         open' \subseteq Tools, unrun' \subseteq Tools,
         drain'[f].at \in Repaired => open' \subseteq unrun' /\ Fresh(drain'[f]),
         drain'[f].at \in {"stream", "tools"} => OwnOpen(drain'[f], open', unrun'),
         drain'[f].at = "promote" =>
           \A i \in drain'[f].rows :
             /\ i \in Waiting'
             /\ \A j \in Waiting' : inbox[j].delivery = inbox[i].delivery /\ j <= i => j \in drain'[f].rows,
         ~pendingWake /\ ~stopping =>
           /\ drain'[f].at \in {"queue?", "more queued?"} => due' \intersect Pending("steer")' = {}
           /\ drain'[f].at = "leave" /\ drain'[f].exit = "ok" => due' = {}
  PROVE  IInv'
<1>1. \A g \in Fibers : g # f => drain'[g].at = "none"
  BY Alone
<1>2. TypeOK'
  BY DEF IInv, TypeOK, entry, Waiting
<1>3. OneDrain'
  BY <1>1, Alone DEF OneDrain, Alive, entry
<1>4. UniqueIds'
  BY DEF IInv, UniqueIds
<1>5. Answered'
  BY <1>1 DEF Answered, Repaired
<1>6. RowsFirst'
  BY <1>1 DEF RowsFirst
<1>7. NoneLeft'
  BY <1>1 DEF NoneLeft, entry
<1>8. HitIsStopping'
  BY DEF IInv, HitIsStopping, entry
<1>9. QED BY <1>2, <1>3, <1>4, <1>5, <1>6, <1>7, <1>8 DEF IInv

(* A move leaves the other fibers alone. *)
LEMMA MovesType ==
  ASSUME IInv, NEW f \in Fibers, NEW d \in Drain, Moves(f, d)
  PROVE  /\ drain' \in [Fibers -> Drain]
         /\ drain'[f] = d
         /\ \A g \in Fibers : g # f => drain'[g] = drain[g]
BY DEF IInv, TypeOK, Moves

LEMMA LeavesType ==
  ASSUME NEW x \in {"ok", "failed", "interrupted"}
  PROVE  LET d == [NoDrain EXCEPT !.at = "leave", !.exit = x]
         IN  d \in Drain /\ d.at = "leave" /\ d.exit = x /\ ~d.hit
BY NoDrainType DEF Drain

(* What the invariant says of the drain in hand and the database. *)
LEMMA InHand ==
  ASSUME IInv, NEW f \in Fibers
  PROVE  /\ drain[f] \in Drain
         /\ promoted \subseteq DOMAIN inbox /\ due \subseteq DOMAIN inbox \ promoted /\ open \subseteq Tools /\ unrun \subseteq Tools
         /\ drain[f].at \in Repaired => open \subseteq unrun /\ Fresh(drain[f])
         /\ drain[f].at \in {"stream", "tools"} => OwnOpen(drain[f], open, unrun)
         /\ drain[f].hit => stopping
BY DEF IInv, TypeOK, Answered, HitIsStopping, Waiting

(* A step of the drain that promotes nothing: its new record decides. *)
LEMMA QuietKeeps ==
  ASSUME IInv, NEW f \in Fibers, drain[f].at # "none",
         NEW d \in Drain, Moves(f, d),
         UNCHANGED <<inbox, promoted, entry, call, due>>,
         open' \subseteq Tools, unrun' \subseteq Tools,
         d.at # "none", d.hit => stopping,
         d.at \in Repaired => open' \subseteq unrun' /\ Fresh(d),
         d.at \in {"stream", "tools"} => OwnOpen(d, open', unrun'),
         d.at = "promote" =>
           \A i \in d.rows :
             /\ i \in Waiting
             /\ \A j \in Waiting : inbox[j].delivery = inbox[i].delivery /\ j <= i => j \in d.rows,
         ~pendingWake /\ ~stopping =>
           /\ d.at \in {"queue?", "more queued?"} => due \intersect Pending("steer") = {}
           /\ d.at = "leave" /\ d.exit = "ok" => due = {}
  PROVE  IInv'
<1>1. drain' \in [Fibers -> Drain] /\ drain'[f] = d /\ \A g \in Fibers : g # f => drain'[g] = drain[g]
  BY MovesType
<1>2. Waiting' = Waiting /\ Pending("steer")' = Pending("steer")
  BY DEF Waiting, Pending
<1>3. promoted' \subseteq DOMAIN inbox /\ due' \subseteq DOMAIN inbox \ promoted'
  BY InHand
<1>4. QED
  BY <1>1, <1>2, <1>3, MoveKeeps

(* If no prompt waits, of either delivery, nothing is due. *)
LEMMA NothingDue ==
  ASSUME IInv, due \intersect Pending("steer") = {}, Pending("queue") = {}
  PROVE  due = {}
<1>1. due \subseteq DOMAIN inbox \ promoted
  BY InHand, IInv, Zenon DEF IInv, TypeOK, Waiting
<1>2. \A i \in DOMAIN inbox : inbox[i].delivery \in Deliveries
  <2> DEFINE Row == [id : Prompts, delivery : Deliveries]
  <2>1. inbox \in Seq(Row)
    BY DEF IInv, TypeOK
  <2> HIDE DEF Row
  <2>2. \A i \in DOMAIN inbox : inbox[i] \in Row
    BY <2>1
  <2>3. QED BY <2>2 DEF Row
<1>3. QED BY <1>1, <1>2 DEF Pending, Deliveries

LEMMA HasSteerKeeps == ASSUME IInv, NEW f \in Fibers, HasSteer(f) PROVE IInv'
<1> DEFINE d == IF Pending("steer") # {}
                THEN [NoDrain EXCEPT !.at = "repair", !.promotion = "steer"]
                ELSE [drain[f] EXCEPT !.at = "queue?"]
<1>1. drain[f].at = "ready" /\ ~drain[f].hit /\ Moves(f, d) /\ UNCHANGED <<db, entry, call, due>>
  BY DEF HasSteer, At
<1>2. /\ d \in Drain /\ ~d.hit
      /\ d.at = IF Pending("steer") # {} THEN "repair" ELSE "queue?"
  BY <1>1, InHand, NoDrainType DEF Drain
<1> HIDE DEF d
<1>3. QED
  BY <1>1, <1>2, InHand, QuietKeeps DEF Repaired, db, history

LEMMA HasQueueKeeps == ASSUME IInv, NEW f \in Fibers, HasQueue(f) PROVE IInv'
<1>1. drain[f].at = "queue?" /\ ~drain[f].hit /\ UNCHANGED <<db, entry, call, due>>
  BY DEF HasQueue, At
<1>2. CASE Pending("queue") # {} \/ drain[f].force
  <2> DEFINE d == IF Pending("queue") # {} THEN [NoDrain EXCEPT !.at = "repair", !.promotion = "queue"]
                  ELSE [NoDrain EXCEPT !.at = "repair"]
  <2>1. Moves(f, d)
    BY <1>2 DEF HasQueue
  <2>2. d \in Drain /\ ~d.hit /\ d.at = "repair"
    BY NoDrainType DEF Drain
  <2> HIDE DEF d
  <2>3. QED BY <1>1, <2>1, <2>2, InHand, QuietKeeps DEF Repaired, db, history
<1>3. CASE ~(Pending("queue") # {} \/ drain[f].force)
  <2> DEFINE d == [NoDrain EXCEPT !.at = "leave", !.exit = "ok"]
  <2>1. Moves(f, d)
    BY <1>3 DEF HasQueue, Leaves
  <2>2. d \in Drain /\ ~d.hit /\ d.at = "leave"
    BY LeavesType
  <2>3. ~pendingWake /\ ~stopping => due = {}
    BY <1>1, <1>3, NothingDue DEF IInv, NoneLeft
  <2> HIDE DEF d
  <2>4. QED BY <1>1, <2>1, <2>2, <2>3, InHand, QuietKeeps DEF Repaired, db, history
<1>4. QED BY <1>2, <1>3

LEMMA RepairKeeps ==
  ASSUME DrainAssumption, IInv, NEW f \in Fibers, FailInterruptedTools(f) PROVE IInv'
<1> DEFINE d == Turn(drain[f].promotion, 1)
<1>1. drain[f].at = "repair" /\ Moves(f, d) /\ open' = {} /\ UNCHANGED <<inbox, promoted, unrun, entry, call, due>>
  BY DEF FailInterruptedTools, At
<1>2. drain[f].promotion \in {"none", "steer", "queue"}
  BY InHand DEF Drain
<1>3. d \in Drain /\ ~d.hit /\ Fresh(d) /\ d.at \in {"request", "cutoff"}
  BY <1>2, TurnType
<1> HIDE DEF d
<1>4. QED BY <1>1, <1>3, InHand, QuietKeeps DEF Repaired

LEMMA CutoffKeeps == ASSUME IInv, NEW f \in Fibers, Cutoff(f) PROVE IInv'
<1> DEFINE d == [drain[f] EXCEPT !.at = "select", !.cut = Len(inbox)]
<1>1. drain[f].at = "cutoff" /\ ~drain[f].hit /\ Moves(f, d) /\ UNCHANGED <<db, entry, call, due>>
  BY DEF Cutoff, At
<1>2. Len(inbox) \in Nat
  BY DEF IInv, TypeOK
<1>3. drain[f] \in Drain /\ ~drain[f].hit /\ Fresh(drain[f])
  BY <1>1, InHand DEF Repaired
<1>4. d \in Drain /\ ~d.hit /\ Fresh(d) /\ d.at = "select"
  BY <1>2, <1>3 DEF Drain, Fresh
<1> HIDE DEF d
<1>5. QED BY <1>1, <1>4, InHand, QuietKeeps DEF Repaired, db, history

LEMMA SelectKeeps == ASSUME IInv, NEW f \in Fibers, Select(f) PROVE IInv'
<1> DEFINE R == IF drain[f].promotion = "queue" THEN QueueRows ELSE SteerRows(f)
           d == [drain[f] EXCEPT !.at = "promote", !.rows = R]
<1>1. drain[f].at = "select" /\ ~drain[f].hit /\ Moves(f, d) /\ UNCHANGED <<db, entry, call, due>>
  BY DEF Select, At
<1>2. DOMAIN inbox \subseteq Nat
  BY DEF IInv, TypeOK
<1>3. R \subseteq Nat
  BY <1>2 DEF QueueRows, SteerRows, Pending
<1>4. \A i \in R : /\ i \in Waiting
                    /\ \A j \in Waiting : inbox[j].delivery = inbox[i].delivery /\ j <= i => j \in R
  <2>1. drain[f].cut \in Nat
    BY InHand DEF Drain
  <2>2. CASE drain[f].promotion = "queue"
    <3>1. R = QueueRows
      BY <2>2
    <3> HIDE DEF R
    <3>2. SUFFICES ASSUME NEW i \in QueueRows
                   PROVE  /\ i \in Waiting
                          /\ \A j \in Waiting : inbox[j].delivery = inbox[i].delivery /\ j <= i => j \in QueueRows
      BY <3>1
    <3>3. i \in Pending("queue") /\ \A k \in Pending("queue") : i <= k
      BY DEF QueueRows
    <3>4. i \in Waiting /\ inbox[i].delivery = "queue"
      BY <3>3 DEF Pending, Waiting
    <3>5. ASSUME NEW j \in Waiting, inbox[j].delivery = inbox[i].delivery, j <= i PROVE j \in QueueRows
      <4>1. j \in Pending("queue")
        BY <3>4, <3>5 DEF Pending, Waiting
      <4>2. i <= j /\ i \in Nat /\ j \in Nat
        BY <1>2, <3>3, <4>1 DEF Pending
      <4>3. i = j
        BY <3>5, <4>2
      <4>4. QED BY <4>3
    <3>6. QED BY <3>4, <3>5
  <2>3. CASE drain[f].promotion # "queue"
    <3>1. R = SteerRows(f)
      BY <2>3
    <3> HIDE DEF R
    <3>2. QED BY <1>2, <2>1, <3>1 DEF SteerRows, Pending, Waiting
  <2>4. QED BY <2>2, <2>3
<1> HIDE DEF R
<1>5. drain[f] \in Drain /\ ~drain[f].hit /\ open \subseteq unrun /\ Fresh(drain[f])
  BY <1>1, InHand DEF Repaired
<1>6. d \in Drain /\ ~d.hit /\ Fresh(d) /\ d.at = "promote" /\ d.rows = R
  BY <1>3, <1>5 DEF Drain, Fresh
<1> HIDE DEF d
<1>7. QED BY <1>1, <1>4, <1>5, <1>6, InHand, QuietKeeps DEF Repaired, db, history

(* One row becomes a message; the rest in hand stay the oldest that wait. *)
LEMMA PromoteKeeps == ASSUME IInv, NEW f \in Fibers, Promote(f) PROVE IInv'
<1>1. drain[f].at = "promote" /\ ~drain[f].hit /\ UNCHANGED <<inbox, history, entry, call>>
  BY DEF Promote, At
<1>2. PICK i \in drain[f].rows :
        /\ \A j \in drain[f].rows : i <= j
        /\ promoted' = promoted \union {i}
        /\ due' = due \ {i}
        /\ Moves(f, [drain[f] EXCEPT !.rows = @ \ {i}, !.step = 1])
  BY DEF Promote
<1> DEFINE d == [drain[f] EXCEPT !.rows = @ \ {i}, !.step = 1]
<1>3. drain[f] \in Drain /\ open \subseteq unrun /\ Fresh(drain[f])
  BY <1>1, InHand DEF Repaired
<1>4. d \in Drain /\ ~d.hit /\ Fresh(d) /\ d.at = "promote" /\ d.rows = drain[f].rows \ {i}
  BY <1>1, <1>3 DEF Drain, Fresh
<1>5. Moves(f, d)
  BY <1>2
<1> HIDE DEF d
<1>6. drain' \in [Fibers -> Drain] /\ drain'[f] = d /\ \A g \in Fibers : g # f => drain'[g] = drain[g]
  BY <1>4, <1>5, MovesType
<1>7. \A k \in drain[f].rows :
        /\ k \in Waiting
        /\ \A j \in Waiting : inbox[j].delivery = inbox[k].delivery /\ j <= k => j \in drain[f].rows
  BY <1>1 DEF IInv, RowsFirst
<1>8. Waiting' = Waiting \ {i}
  BY <1>1, <1>2 DEF Waiting
<1>9. \A k \in d.rows :
        /\ k \in Waiting'
        /\ \A j \in Waiting' : inbox[j].delivery = inbox[k].delivery /\ j <= k => j \in d.rows
  BY <1>4, <1>7, <1>8
<1>10. promoted' \subseteq DOMAIN inbox /\ due' \subseteq DOMAIN inbox \ promoted'
  BY <1>2, <1>7, InHand DEF Waiting
<1>11. QED
  BY <1>1, <1>3, <1>4, <1>6, <1>9, <1>10, InHand, MoveKeeps DEF history

LEMMA PromotedKeeps ==
  ASSUME DrainAssumption, IInv, NEW f \in Fibers, Promoted(f) PROVE IInv'
<1> DEFINE d == IF drain[f].promotion = "queue"
                THEN [drain[f] EXCEPT !.at = "select", !.promotion = "steer"]
                ELSE Turn("none", drain[f].step)
<1>1. drain[f].at = "promote" /\ ~drain[f].hit /\ Moves(f, d) /\ UNCHANGED <<db, entry, call, due>>
  BY DEF Promoted, At
<1>2. drain[f] \in Drain /\ open \subseteq unrun /\ Fresh(drain[f])
  BY <1>1, InHand DEF Repaired
<1>3. Turn("none", drain[f].step) \in Drain /\ Turn("none", drain[f].step).at = "request"
      /\ ~Turn("none", drain[f].step).hit /\ Fresh(Turn("none", drain[f].step))
  <2>1. drain[f].step \in Nat BY <1>2 DEF Drain
  <2>2. QED BY <2>1, TurnType
<1>4. d \in Drain /\ ~d.hit /\ Fresh(d) /\ d.at \in {"select", "request"}
  <2>1. CASE drain[f].promotion = "queue" BY <1>1, <1>2, <2>1 DEF Drain, Fresh
  <2>2. CASE drain[f].promotion # "queue" BY <1>3, <2>2
  <2>3. QED BY <2>1, <2>2
<1> HIDE DEF d
<1>5. QED BY <1>1, <1>2, <1>4, InHand, QuietKeeps DEF Repaired, db, history

LEMMA CompactKeeps ==
  ASSUME DrainAssumption, IInv, NEW f \in Fibers, Compact(f) PROVE IInv'
<1> DEFINE n == Turn("none", drain[f].step)
           d == [n EXCEPT !.compacted = TRUE]
<1>1. /\ drain[f].at \in {"request", "stream"} /\ ~drain[f].hit /\ drain[f].announced = {}
      /\ Moves(f, d) /\ UNCHANGED <<db, entry, call, due>>
  BY DEF Compact, At
<1>2. drain[f].step \in Nat /\ open \subseteq unrun
  BY <1>1, InHand DEF Drain, Repaired, OwnOpen
<1>3. n \in Drain /\ n.at = "request" /\ ~n.hit /\ Fresh(n)
  BY <1>2, TurnType
<1> HIDE DEF n
<1>4. d \in Drain /\ ~d.hit /\ Fresh(d) /\ d.at = "request"
  BY <1>3 DEF Drain, Fresh
<1> HIDE DEF d
<1>5. QED BY <1>1, <1>2, <1>4, InHand, QuietKeeps DEF Repaired, db, history

LEMMA RequestKeeps == ASSUME IInv, NEW f \in Fibers, Request(f) PROVE IInv'
<1> DEFINE d == [drain[f] EXCEPT !.at = "stream"]
<1>1. drain[f].at = "request" /\ ~drain[f].hit /\ Moves(f, d) /\ UNCHANGED <<db, entry, call, due>>
  BY DEF Request, At
<1>2. drain[f] \in Drain /\ open \subseteq unrun /\ Fresh(drain[f])
  BY <1>1, InHand DEF Repaired
<1>3. d \in Drain /\ ~d.hit /\ Fresh(d) /\ d.at = "stream"
  BY <1>1, <1>2 DEF Drain, Fresh
<1>5. OwnOpen(d, open, unrun)
  BY <1>2, <1>3 DEF OwnOpen, Fresh
<1> HIDE DEF d
<1>4. QED BY <1>1, <1>2, <1>3, <1>5, InHand, QuietKeeps DEF Repaired, db, history

LEMMA AnnounceKeeps == ASSUME IInv, NEW f \in Fibers, NEW t \in Tools, Announce(f, t) PROVE IInv'
<1> DEFINE d == [drain[f] EXCEPT !.announced = @ \union {t}, !.compacted = FALSE]
<1>1. /\ drain[f].at = "stream" /\ ~drain[f].hit /\ Moves(f, d)
      /\ t \notin drain[f].announced /\ open' = open \union {t}
      /\ UNCHANGED <<inbox, promoted, unrun, entry, call, due>>
  BY DEF Announce, At
<1>2. /\ drain[f] \in Drain /\ OwnOpen(drain[f], open, unrun)
      /\ open \subseteq Tools /\ unrun \subseteq Tools
  BY <1>1, InHand
<1>3. /\ d \in Drain /\ ~d.hit /\ d.at = "stream"
      /\ d.announced = drain[f].announced \union {t}
      /\ d.called = drain[f].called /\ d.settled = drain[f].settled
      /\ d.busy = drain[f].busy /\ d.fault = drain[f].fault /\ d.step = drain[f].step
  BY <1>1, <1>2 DEF Drain
<1> HIDE DEF d
<1>4. OwnOpen(d, open', unrun')
  BY <1>1, <1>2, <1>3 DEF OwnOpen
<1>5. QED BY <1>1, <1>2, <1>3, <1>4, QuietKeeps DEF Repaired

LEMMA CallToolKeeps == ASSUME IInv, NEW f \in Fibers, NEW t \in Tools, CallTool(f, t) PROVE IInv'
<1> DEFINE d == [drain[f] EXCEPT !.called = @ \union {t}, !.busy = @ \union {t}]
<1>1. /\ drain[f].at = "stream" /\ ~drain[f].hit /\ Moves(f, d)
      /\ t \in drain[f].announced /\ UNCHANGED <<db, entry, call, due>>
  BY DEF CallTool, At
<1>2. /\ drain[f] \in Drain /\ OwnOpen(drain[f], open, unrun)
      /\ open \subseteq Tools /\ unrun \subseteq Tools
  BY <1>1, InHand
<1>3. /\ d \in Drain /\ ~d.hit /\ d.at = "stream"
      /\ d.announced = drain[f].announced /\ d.settled = drain[f].settled
      /\ d.called = drain[f].called \union {t} /\ d.busy = drain[f].busy \union {t}
      /\ d.fault = drain[f].fault /\ d.step = drain[f].step
  BY <1>1, <1>2 DEF Drain
<1> HIDE DEF d
<1>4. OwnOpen(d, open, unrun)
  BY <1>1, <1>2, <1>3 DEF OwnOpen
<1>5. QED BY <1>1, <1>2, <1>3, <1>4, QuietKeeps DEF Repaired, db, history

LEMMA CallDisabledKeeps ==
  ASSUME DrainAssumption, IInv, NEW f \in Fibers, NEW t \in Tools, CallDisabled(f, t) PROVE IInv'
<1> DEFINE d == [drain[f] EXCEPT !.called = @ \union {t}, !.settled = drain[f].announced]
<1>1. /\ drain[f].at = "stream" /\ ~drain[f].hit /\ Moves(f, d)
      /\ t \in drain[f].announced /\ drain[f].step = MaxSteps
      /\ open' = (open \union {t}) \ (drain[f].announced \ drain[f].settled)
      /\ UNCHANGED <<inbox, promoted, unrun, entry, call, due>>
  BY DEF CallDisabled, At
<1>2. /\ drain[f] \in Drain /\ OwnOpen(drain[f], open, unrun)
      /\ open \subseteq Tools /\ unrun \subseteq Tools
  BY <1>1, InHand
<1>3. /\ d \in Drain /\ ~d.hit /\ d.at = "stream"
      /\ d.announced = drain[f].announced
      /\ d.called = drain[f].called \union {t} /\ d.step = MaxSteps
  BY <1>1, <1>2 DEF Drain
<1> HIDE DEF d
<1>4. OwnOpen(d, open', unrun')
  BY <1>1, <1>2, <1>3 DEF OwnOpen, DrainAssumption
<1>5. open' \subseteq Tools
  BY <1>1, <1>2
<1>6. QED BY <1>1, <1>2, <1>3, <1>4, <1>5, QuietKeeps DEF Repaired

LEMMA ToolEndsKeeps == ASSUME IInv, NEW f \in Fibers, NEW t \in Tools, ToolEnds(f, t) PROVE IInv'
<1> DEFINE d == [drain[f] EXCEPT !.busy = @ \ {t}]
<1>1. /\ drain[f].at \in {"stream", "tools"} /\ Moves(f, d)
      /\ open' = open \ {t} /\ UNCHANGED <<inbox, promoted, unrun, entry, call, due>>
  BY DEF ToolEnds
<1>2. /\ drain[f] \in Drain /\ OwnOpen(drain[f], open, unrun)
      /\ open \subseteq Tools /\ unrun \subseteq Tools /\ (drain[f].hit => stopping)
  BY <1>1, InHand
<1>3. /\ d \in Drain /\ d.hit = drain[f].hit /\ d.at = drain[f].at
      /\ d.announced = drain[f].announced /\ d.called = drain[f].called
      /\ d.settled = drain[f].settled /\ d.busy = drain[f].busy \ {t}
      /\ d.fault = drain[f].fault /\ d.step = drain[f].step
  BY <1>2 DEF Drain
<1> HIDE DEF d
<1>4. OwnOpen(d, open', unrun')
  BY <1>1, <1>2, <1>3 DEF OwnOpen
<1>5. QED BY <1>1, <1>2, <1>3, <1>4, QuietKeeps DEF Repaired

LEMMA ToolDiesKeeps == ASSUME IInv, NEW f \in Fibers, NEW t \in Tools, ToolDies(f, t) PROVE IInv'
<1>1. drain[f].at \in {"stream", "tools"} /\ UNCHANGED <<db, entry, call, due>>
  BY DEF ToolDies
<1>2. PICK why \in {"tool", "question"} :
        Moves(f, [drain[f] EXCEPT !.busy = @ \ {t}, !.fault = IF @ = "none" THEN why ELSE @])
  BY DEF ToolDies
<1> DEFINE d == [drain[f] EXCEPT !.busy = @ \ {t}, !.fault = IF @ = "none" THEN why ELSE @]
<1>3. /\ drain[f] \in Drain /\ OwnOpen(drain[f], open, unrun)
      /\ open \subseteq Tools /\ unrun \subseteq Tools /\ (drain[f].hit => stopping)
  BY <1>1, InHand
<1>4. /\ d \in Drain /\ d.hit = drain[f].hit /\ d.at = drain[f].at
      /\ d.announced = drain[f].announced /\ d.called = drain[f].called
      /\ d.settled = drain[f].settled /\ d.step = drain[f].step /\ d.fault # "none"
  BY <1>3 DEF Drain
<1>5. Moves(f, d)
  BY <1>2
<1> HIDE DEF d
<1>6. OwnOpen(d, open, unrun)
  BY <1>3, <1>4 DEF OwnOpen
<1>7. QED BY <1>1, <1>3, <1>4, <1>5, <1>6, QuietKeeps DEF Repaired, db, history

LEMMA StreamEndsKeeps ==
  ASSUME IInv, NEW f \in Fibers, StreamEnds(f) PROVE IInv'
<1> DEFINE d == [drain[f] EXCEPT !.at = "tools", !.compacted = FALSE]
<1>1. drain[f].at = "stream" /\ ~drain[f].hit /\ Moves(f, d) /\ UNCHANGED <<db, entry, call, due>>
  BY DEF StreamEnds, At
<1>2. /\ drain[f] \in Drain /\ OwnOpen(drain[f], open, unrun)
      /\ open \subseteq Tools /\ unrun \subseteq Tools
  BY <1>1, InHand
<1>3. /\ d \in Drain /\ ~d.hit /\ d.at = "tools"
      /\ d.announced = drain[f].announced /\ d.called = drain[f].called
      /\ d.settled = drain[f].settled /\ d.busy = drain[f].busy
      /\ d.fault = drain[f].fault /\ d.step = drain[f].step
  BY <1>1, <1>2 DEF Drain
<1> HIDE DEF d
<1>4. OwnOpen(d, open, unrun)
  BY <1>2, <1>3 DEF OwnOpen
<1>5. QED BY <1>1, <1>2, <1>3, <1>4, QuietKeeps DEF Repaired, db, history

(* A drain that leaves unwell: what it left open is repaired by the next. *)
LEMMA LeavesKeeps ==
  ASSUME IInv, NEW f \in Fibers, drain[f].at # "none", NEW x \in {"failed", "interrupted"}, Leaves(f, x),
         UNCHANGED <<inbox, promoted, entry, call, due>>,
         open' \subseteq Tools, unrun' \subseteq Tools
  PROVE  IInv'
<1> DEFINE d == [NoDrain EXCEPT !.at = "leave", !.exit = x]
<1>1. d \in Drain /\ d.at = "leave" /\ d.exit = x /\ ~d.hit
  BY LeavesType
<1>2. Moves(f, d)
  BY DEF Leaves
<1> HIDE DEF d
<1>3. QED BY <1>1, <1>2, QuietKeeps DEF Repaired

(* What a turn leaves open it never ran. *)
LEMMA EndTurnLeaves ==
  ASSUME DrainAssumption, IInv, NEW f \in Fibers,
         NEW stream \in {"ok", "error", "failed"}, EndTurn(f, stream)
  PROVE  open' \subseteq unrun' /\ open' \subseteq Tools
<1> DEFINE d == drain[f]
<1>1. /\ d.at = "tools" /\ (d.busy = {} \/ d.fault # "none")
      /\ open' = IF d.fault # "none" \/ stream = "error" THEN open \ Unsettled(d) ELSE open
      /\ unrun' = open' \intersect (unrun \union (d.announced \ Ran(d)))
  BY DEF EndTurn, At
<1>2. d \in Drain /\ OwnOpen(d, open, unrun) /\ open \subseteq Tools
  BY <1>1, InHand
<1>3. d.step \in Nat /\ MaxSteps \in Nat
  BY <1>2 DEF Drain, DrainAssumption
<1> HIDE DEF d
<1>4. ASSUME NEW t \in open' PROVE t \in unrun \union (d.announced \ Ran(d))
  <2>1. t \in open /\ (t \in unrun \/ t \in d.announced)
    BY <1>1, <1>2, <1>4 DEF OwnOpen
  <2>2. CASE d.step < MaxSteps
    <3>1. d.settled = {} /\ (d.fault = "none" => open \intersect d.called \subseteq d.busy)
      BY <1>2, <2>2 DEF OwnOpen
    <3>2. CASE d.fault # "none" \/ stream = "error"
      BY <1>1, <1>4, <2>1, <3>1, <3>2 DEF Unsettled
    <3>3. CASE d.fault = "none" /\ stream # "error"
      BY <1>1, <2>1, <3>1, <3>3 DEF Ran
    <3>4. QED BY <3>2, <3>3
  <2>3. CASE ~(d.step < MaxSteps)
    BY <2>1, <2>3 DEF Ran
  <2>4. QED BY <2>2, <2>3
<1>5. QED BY <1>1, <1>2, <1>4

LEMMA EndTurnKeeps ==
  ASSUME DrainAssumption, IInv, NEW f \in Fibers,
         NEW stream \in {"ok", "error", "failed"}, EndTurn(f, stream)
  PROVE  IInv'
<1>1. /\ drain[f].at = "tools" /\ unrun' \subseteq open'
      /\ UNCHANGED <<inbox, promoted, entry, call, due>>
  BY DEF EndTurn, At
<1>2. /\ drain[f] \in Drain /\ drain[f].step \in Nat
      /\ open' \subseteq unrun' /\ open' \subseteq Tools /\ unrun' \subseteq Tools
  <2>1. open' \subseteq unrun' /\ open' \subseteq Tools
    BY EndTurnLeaves
  <2>2. drain[f] \in Drain
    BY InHand
  <2>3. drain[f].step \in Nat
    BY <2>2 DEF Drain
  <2>4. QED BY <1>1, <2>1, <2>2, <2>3
<1> DEFINE t == Turn("steer", drain[f].step + 1)
           n == [NoDrain EXCEPT !.at = "more?", !.step = drain[f].step]
<1>3. Leaves(f, "interrupted") \/ Leaves(f, "failed") \/ Moves(f, t) \/ Moves(f, n)
  BY DEF EndTurn
<1>4. t \in Drain /\ t.at = "cutoff" /\ ~t.hit /\ Fresh(t)
  BY <1>2, TurnType
<1>5. n \in Drain /\ n.at = "more?" /\ ~n.hit /\ Fresh(n)
  BY <1>2, NoDrainType DEF Drain, Fresh
<1> HIDE DEF t, n
<1>6. CASE Leaves(f, "interrupted") \/ Leaves(f, "failed")
  BY <1>1, <1>2, <1>6, LeavesKeeps
<1>7. CASE Moves(f, t)
  BY <1>1, <1>2, <1>4, <1>7, QuietKeeps
<1>8. CASE Moves(f, n)
  BY <1>1, <1>2, <1>5, <1>8, QuietKeeps
<1>9. QED BY <1>3, <1>6, <1>7, <1>8

LEMMA MoreSteersKeeps ==
  ASSUME DrainAssumption, IInv, NEW f \in Fibers, MoreSteers(f) PROVE IInv'
<1> DEFINE t == Turn("steer", drain[f].step + 1)
           n == [NoDrain EXCEPT !.at = "more queued?"]
<1>1. /\ drain[f].at = "more?" /\ Moves(f, IF Pending("steer") # {} THEN t ELSE n)
      /\ UNCHANGED <<db, entry, call, due>>
  BY DEF MoreSteers, At
<1>2. /\ drain[f].step \in Nat
      /\ open \subseteq unrun /\ open \subseteq Tools /\ unrun \subseteq Tools
  BY <1>1, InHand DEF Drain, Repaired
<1>3. t \in Drain /\ t.at = "cutoff" /\ ~t.hit /\ Fresh(t)
  BY <1>2, TurnType
<1>4. n \in Drain /\ n.at = "more queued?" /\ ~n.hit /\ Fresh(n)
  BY NoDrainType DEF Drain, Fresh
<1> HIDE DEF t, n
<1>5. CASE Pending("steer") # {}
  BY <1>1, <1>2, <1>3, <1>5, QuietKeeps DEF db, history
<1>6. CASE Pending("steer") = {}
  BY <1>1, <1>2, <1>4, <1>6, QuietKeeps DEF db, history
<1>7. QED BY <1>5, <1>6

LEMMA MoreQueuedKeeps ==
  ASSUME DrainAssumption, IInv, NEW f \in Fibers, MoreQueued(f) PROVE IInv'
<1> DEFINE t == Turn("queue", 1)
           l == [NoDrain EXCEPT !.at = "leave", !.exit = "ok"]
<1>1. /\ drain[f].at = "more queued?" /\ Moves(f, IF Pending("queue") # {} THEN t ELSE l)
      /\ UNCHANGED <<db, entry, call, due>>
  BY DEF MoreQueued, At, Leaves
<1>2. /\ open' \subseteq unrun' /\ open' \subseteq Tools /\ unrun' \subseteq Tools
  BY <1>1, InHand DEF Repaired, db, history
<1>3. t \in Drain /\ t.at = "cutoff" /\ ~t.hit /\ Fresh(t)
  BY TurnType
<1>4. l \in Drain /\ l.at = "leave" /\ ~l.hit
  BY LeavesType
<1> HIDE DEF t, l
<1>5. CASE Pending("queue") # {}
  BY <1>1, <1>2, <1>3, <1>5, QuietKeeps DEF db, history
<1>6. CASE Pending("queue") = {}
  <2>1. ~pendingWake /\ ~stopping => due = {}
    BY <1>1, <1>6, NothingDue DEF IInv, NoneLeft
  <2>2. QED BY <1>1, <1>2, <1>4, <1>6, <2>1, QuietKeeps DEF db, history, Repaired
<1>7. QED BY <1>5, <1>6

LEMMA FailsKeeps == ASSUME IInv, NEW f \in Fibers, Fails(f) PROVE IInv'
BY InHand, LeavesKeeps DEF Fails, db, history

LEMMA UnwindKeeps == ASSUME IInv, NEW f \in Fibers, Unwind(f) PROVE IInv'
<1>1. open' \subseteq Tools /\ unrun' \subseteq Tools
  BY InHand DEF Unwind
<1>2. QED BY <1>1, LeavesKeeps DEF Unwind

-------------------------------------------------------------------------------
(* The coordinator and the clients. *)

LEMMA NoCallType == NoCall \in Call /\ \A x \in {"wake", "run", "joined", "queued"} : [NoCall EXCEPT !.at = x] \in Call
BY DEF NoCall, Call, Deliveries

(* A forked drain is the only one. *)
LEMMA Forks ==
  ASSUME DrainAssumption, NEW others \in [Fibers -> Drain], NEW force \in BOOLEAN,
         \A g \in Fibers : others[g].at = "none" /\ ~others[g].hit,
         Start(others, force)
  PROVE  /\ owner' \in Fibers
         /\ drain' \in [Fibers -> Drain]
         /\ drain'[owner'].at = "ready"
         /\ \A g \in Fibers : ~drain'[g].hit
         /\ \A g \in Fibers : g # owner' => drain'[g].at = "none"
<1> DEFINE g == CHOOSE g \in Fibers : others[g].at = "none"
           n == [NoDrain EXCEPT !.at = "ready", !.force = force]
<1>1. g \in Fibers
  <2>1. \E h \in Fibers : others[h].at = "none"
    BY DEF DrainAssumption
  <2>2. QED BY <2>1
<1>2. owner' = g /\ drain' = [others EXCEPT ![g] = n]
  BY DEF Start
<1>3. n \in Drain /\ n.at = "ready" /\ ~n.hit
  BY NoDrainType DEF Drain
<1> HIDE DEF n, g
<1>4. QED BY <1>1, <1>2, <1>3

(* Nothing but the slot of a drain that has left is not empty. *)
LEMMA Emptied ==
  ASSUME IInv, NEW f \in Fibers, drain[f].at # "none"
  PROVE  LET others == [drain EXCEPT ![f] = NoDrain]
         IN  /\ others \in [Fibers -> Drain]
             /\ \A g \in Fibers : others[g].at = "none" /\ ~others[g].hit
<1> DEFINE others == [drain EXCEPT ![f] = NoDrain]
<1>1. drain \in [Fibers -> Drain]
  BY DEF IInv, TypeOK
<1>2. others \in [Fibers -> Drain] /\ others[f] = NoDrain /\ \A g \in Fibers : g # f => others[g] = drain[g]
  BY <1>1, NoDrainType
<1>3. \A g \in Fibers : g # f => drain[g].at = "none"
  BY Alone
<1>4. \A g \in Fibers : g # f => ~drain[g].hit
  BY <1>3 DEF IInv, HitIsStopping
<1> HIDE DEF others
<1>5. \A g \in Fibers : others[g].at = "none" /\ ~others[g].hit
  BY <1>2, <1>3, <1>4, NoDrainType
<1>6. QED BY <1>2, <1>5 DEF others

(* A step after which a freshly forked drain is the only one. *)
LEMMA FreshKeeps ==
  ASSUME IInv, UNCHANGED <<inbox, promoted, open>>, unrun' \subseteq Tools,
         drain' \in [Fibers -> Drain], owner' \in Fibers, drain'[owner'].at = "ready",
         \A g \in Fibers : ~drain'[g].hit /\ (g # owner' => drain'[g].at = "none"),
         active', pendingWake' \in BOOLEAN, stopping' \in BOOLEAN,
         call' \in [Calls -> Call], due' \subseteq Waiting
  PROVE  IInv'
<1>1. \A g \in Fibers : drain'[g].at \in {"none", "ready"}
  OBVIOUS
<1>2. Waiting' = Waiting
  BY DEF Waiting
<1>3. active' \in BOOLEAN
  BY DEF IInv, TypeOK
<1>4. TypeOK'
  BY <1>2 DEF IInv, TypeOK, db, history
<1>5. OneDrain'
  BY DEF OneDrain, Alive
<1>6. UniqueIds'
  BY DEF IInv, UniqueIds, db, history
<1>7. Answered' /\ RowsFirst' /\ NoneLeft'
  BY <1>1 DEF Answered, Repaired, RowsFirst, NoneLeft
<1>8. HitIsStopping'
  BY DEF HitIsStopping
<1>9. QED BY <1>4, <1>5, <1>6, <1>7, <1>8 DEF IInv

(* A step after which there is no drain. *)
LEMMA NoneKeeps ==
  ASSUME IInv, UNCHANGED <<inbox, promoted, open>>, unrun' \subseteq Tools,
         drain' \in [Fibers -> Drain],
         \A g \in Fibers : ~drain'[g].hit /\ drain'[g].at = "none",
         active' = FALSE, owner' = None, stopping' = FALSE, pendingWake' = FALSE,
         call' \in [Calls -> Call], due' \subseteq Waiting
  PROVE  IInv'
<1>1. Waiting' = Waiting
  BY DEF Waiting
<1>2. TypeOK'
  BY <1>1 DEF IInv, TypeOK, db, history
<1>3. OneDrain'
  BY DEF OneDrain, Alive
<1>4. UniqueIds'
  BY DEF IInv, UniqueIds, db, history
<1>5. Answered' /\ RowsFirst' /\ NoneLeft'
  BY DEF Answered, Repaired, RowsFirst, NoneLeft
<1>6. HitIsStopping'
  BY DEF HitIsStopping
<1>7. QED BY <1>2, <1>3, <1>4, <1>5, <1>6 DEF IInv

LEMMA NewEntryKeeps ==
  ASSUME DrainAssumption, IInv, ~active, NEW force \in BOOLEAN, NewEntry(force),
         UNCHANGED db, call' \in [Calls -> Call]
  PROVE  IInv'
<1>1. drain \in [Fibers -> Drain] /\ \A g \in Fibers : drain[g].at = "none" /\ ~drain[g].hit
  BY DEF IInv, TypeOK, OneDrain, Alive, HitIsStopping
<1>2. Start(drain, force) /\ active' /\ pendingWake' = FALSE /\ stopping' = FALSE /\ due' = Waiting
  BY DEF NewEntry
<1>3. /\ owner' \in Fibers /\ drain' \in [Fibers -> Drain] /\ drain'[owner'].at = "ready"
      /\ \A g \in Fibers : ~drain'[g].hit
      /\ \A g \in Fibers : g # owner' => drain'[g].at = "none"
  BY <1>1, <1>2, Forks
<1>4. UNCHANGED <<inbox, promoted, open>> /\ unrun' \subseteq Tools
  BY DEF IInv, TypeOK, db, history
<1>5. QED BY <1>2, <1>3, <1>4, FreshKeeps

LEMMA ResolvedType ==
  ASSUME call \in [Calls -> Call], NEW exit
  PROVE  Resolved(exit) \in [Calls -> Call]
<1>1. ASSUME NEW c \in Calls PROVE Resolved(exit)[c] \in Call
  <2>1. call[c] \in Call
    OBVIOUS
  <2>2. Resolved(exit)[c] \in {NoCall, [NoCall EXCEPT !.at = "run"], call[c]}
    BY DEF Resolved
  <2>3. QED BY <2>1, <2>2, NoCallType
<1>2. Resolved(exit) = [c \in Calls |-> Resolved(exit)[c]]
  BY DEF Resolved
<1>3. QED BY <1>1, <1>2

LEMMA SettleKeeps == ASSUME DrainAssumption, IInv, NEW f \in Fibers, Settle(f) PROVE IInv'
<1> DEFINE others == [drain EXCEPT ![f] = NoDrain]
<1>1. /\ drain[f].at = "leave" /\ UNCHANGED <<inbox, promoted, open>>
      /\ unrun' \subseteq Tools
  BY DEF Settle
<1>2. others \in [Fibers -> Drain] /\ \A g \in Fibers : others[g].at = "none" /\ ~others[g].hit
  BY <1>1, Emptied
<1>3. active /\ call \in [Calls -> Call] /\ due \subseteq Waiting /\ stopping \in BOOLEAN
  BY <1>1, Alone DEF IInv, TypeOK
<1>4. CASE SettleAgain(f)
  <2>1. Start(others, FALSE) /\ pendingWake' = FALSE /\ UNCHANGED <<active, stopping, call, due>>
    BY <1>4 DEF SettleAgain
  <2> HIDE DEF others
  <2>2. /\ owner' \in Fibers /\ drain' \in [Fibers -> Drain] /\ drain'[owner'].at = "ready"
        /\ \A g \in Fibers : ~drain'[g].hit
        /\ \A g \in Fibers : g # owner' => drain'[g].at = "none"
    BY <1>2, <2>1, Forks
  <2>3. QED BY <1>1, <1>3, <2>1, <2>2, FreshKeeps
<1>5. CASE SettleDone(f)
  <2>1. pendingWake' = FALSE /\ stopping' = FALSE
    BY <1>5 DEF SettleDone
  <2>2. call' \in [Calls -> Call]
    BY <1>3, <1>5, ResolvedType DEF SettleDone
  <2>3. due' \subseteq Waiting
    BY <1>3, <1>5 DEF SettleDone, StillDue
  <2>4. CASE pendingWake
    <3>1. Start(others, FALSE) /\ UNCHANGED active
      BY <1>5, <2>4 DEF SettleDone
    <3> HIDE DEF others
    <3>2. /\ owner' \in Fibers /\ drain' \in [Fibers -> Drain] /\ drain'[owner'].at = "ready"
          /\ \A g \in Fibers : ~drain'[g].hit
          /\ \A g \in Fibers : g # owner' => drain'[g].at = "none"
      BY <1>2, <3>1, Forks
    <3>3. QED BY <1>1, <1>3, <2>1, <2>2, <2>3, <3>1, <3>2, FreshKeeps
  <2>5. CASE ~pendingWake
    <3>1. drain' = others /\ active' = FALSE /\ owner' = None
      BY <1>5, <2>5 DEF SettleDone
    <3> HIDE DEF others
    <3>2. QED BY <1>1, <1>2, <2>1, <2>2, <2>3, <3>1, NoneKeeps
  <2>6. QED BY <2>4, <2>5
<1>6. QED BY <1>4, <1>5 DEF Settle

LEMMA CrashKeeps == ASSUME IInv, Crash PROVE IInv'
<1>1. drain' \in [Fibers -> Drain] /\ \A g \in Fibers : ~drain'[g].hit /\ drain'[g].at = "none"
  BY NoDrainType DEF Crash
<1>2. call' \in [Calls -> Call]
  BY NoCallType DEF Crash
<1>3. QED BY <1>1, <1>2, NoneKeeps DEF Crash

LEMMA InterruptKeeps == ASSUME IInv, Interrupt PROVE IInv'
<1>1. /\ active /\ stopping' = TRUE /\ pendingWake' = FALSE
      /\ drain' = [drain EXCEPT ![owner].hit = TRUE]
      /\ UNCHANGED <<db, active, owner, call, due>>
  BY DEF Interrupt
<1>2. owner \in Fibers /\ drain[owner].at # "none" /\ drain \in [Fibers -> Drain]
  BY <1>1 DEF IInv, TypeOK, OneDrain, Alive
<1> DEFINE d == [drain[owner] EXCEPT !.hit = TRUE]
<1>3. /\ d \in Drain /\ d.at = drain[owner].at /\ d.rows = drain[owner].rows
      /\ Fresh(drain[owner]) => Fresh(d)
      /\ OwnOpen(drain[owner], open, unrun) => OwnOpen(d, open, unrun)
  <2>1. drain[owner] \in Drain
    BY <1>2
  <2>2. QED BY <2>1 DEF Drain, Fresh, OwnOpen
<1>4. drain' = [drain EXCEPT ![owner] = d]
  BY <1>1
<1> HIDE DEF d
<1>5. /\ drain' \in [Fibers -> Drain]
      /\ \A f \in Fibers : /\ drain'[f].at = drain[f].at /\ drain'[f].rows = drain[f].rows
                           /\ Fresh(drain[f]) => Fresh(drain'[f])
                           /\ OwnOpen(drain[f], open, unrun) => OwnOpen(drain'[f], open, unrun)
                           /\ drain'[f].hit => drain'[f].at # "none" \/ drain[f].hit
  BY <1>2, <1>3, <1>4
<1>6. Waiting' = Waiting
  BY <1>1 DEF db, history, Waiting
<1>7. TypeOK'
  BY <1>1, <1>5, <1>6 DEF IInv, TypeOK, db, history
<1>8. OneDrain'
  BY <1>1, <1>5 DEF IInv, OneDrain, Alive
<1>9. UniqueIds'
  BY <1>1 DEF IInv, UniqueIds, db, history
<1>10. Answered'
  BY <1>1, <1>5 DEF IInv, Answered, Repaired, db, history
<1>11. RowsFirst'
  BY <1>1, <1>5, <1>6 DEF IInv, RowsFirst, db, history
<1>12. NoneLeft'
  BY <1>1 DEF NoneLeft
<1>13. HitIsStopping'
  BY <1>1, <1>5 DEF IInv, HitIsStopping
<1>14. QED BY <1>7, <1>8, <1>9, <1>10, <1>11, <1>12, <1>13 DEF IInv

(* Only the calls change. *)
LEMMA CallKeeps ==
  ASSUME IInv, UNCHANGED <<db, entry, drain, due>>, call' \in [Calls -> Call] PROVE IInv'
<1>1. UNCHANGED <<inbox, promoted, open, unrun, active, pendingWake, stopping, owner, drain, due>>
  BY DEF db, history, entry
<1>2. TypeOK'
  BY <1>1 DEF IInv, TypeOK, Waiting
<1>3. OneDrain' /\ UniqueIds' /\ Answered' /\ RowsFirst' /\ NoneLeft' /\ HitIsStopping'
  BY <1>1 DEF IInv, OneDrain, Alive, UniqueIds, Answered, Repaired, RowsFirst, NoneLeft, HitIsStopping,
              Waiting, Pending
<1>4. QED BY <1>2, <1>3 DEF IInv

(* A call moves on. *)
LEMMA CallMoves ==
  ASSUME IInv, NEW c \in Calls, NEW r \in Call, call' = [call EXCEPT ![c] = r]
  PROVE  call' \in [Calls -> Call]
BY DEF IInv, TypeOK

LEMMA FindKeeps == ASSUME IInv, NEW c \in Calls, Find(c) PROVE IInv'
<1>1. PICK p \in Prompts, d \in Deliveries :
        \/ call' = [call EXCEPT ![c] = [at |-> "publish", id |-> p, delivery |-> d]]
        \/ call' = [call EXCEPT ![c] = [NoCall EXCEPT !.at = "wake"]]
  BY DEF Find
<1>2. [at |-> "publish", id |-> p, delivery |-> d] \in Call
  BY DEF Call
<1>3. call' \in [Calls -> Call]
  BY <1>1, <1>2, NoCallType, CallMoves
<1>4. QED BY <1>3, CallKeeps DEF Find

(* The inbox grows at its end, by ids it did not have. *)
LEMMA Inserts ==
  ASSUME IInv, NEW p \in Prompts, NEW d \in Deliveries, inbox' = Insert(p, d)
  PROVE  /\ inbox' \in Seq([id : Prompts, delivery : Deliveries])
         /\ DOMAIN inbox \subseteq DOMAIN inbox'
         /\ \A i \in DOMAIN inbox : inbox'[i] = inbox[i]
         /\ \A i \in DOMAIN inbox, j \in DOMAIN inbox' \ DOMAIN inbox : i < j
         /\ UniqueIds'
<1> DEFINE Row == [id : Prompts, delivery : Deliveries]
           r == [id |-> p, delivery |-> d]
<1>1. inbox \in Seq(Row)
  BY DEF IInv, TypeOK
<1>2. r \in Row /\ r.id = p
  OBVIOUS
<1>3. CASE \E i \in DOMAIN inbox : inbox[i].id = p
  <2>1. inbox' = inbox
    BY <1>3 DEF Insert
  <2> HIDE DEF Row
  <2>2. QED BY <1>1, <2>1 DEF IInv, UniqueIds, Row
<1>4. CASE ~\E i \in DOMAIN inbox : inbox[i].id = p
  <2>1. inbox' = Append(inbox, r)
    BY <1>4 DEF Insert
  <2> HIDE DEF Row, r
  <2>2. /\ inbox' \in Seq(Row) /\ DOMAIN inbox' = DOMAIN inbox \union {Len(inbox) + 1}
        /\ \A i \in DOMAIN inbox : inbox'[i] = inbox[i] /\ i < Len(inbox) + 1
        /\ inbox'[Len(inbox) + 1] = r
    BY <1>1, <1>2, <2>1
  <2>3. UniqueIds'
    BY <1>2, <1>4, <2>2 DEF IInv, UniqueIds
  <2>4. QED BY <2>2, <2>3 DEF Row
<1>5. QED BY <1>3, <1>4

LEMMA PublishKeeps == ASSUME IInv, NEW c \in Calls, Publish(c) PROVE IInv'
<1>1. /\ call[c].at = "publish" /\ inbox' = Insert(call[c].id, call[c].delivery)
      /\ UNCHANGED <<promoted, history, entry, drain, due>>
      /\ call' = [call EXCEPT ![c] = [NoCall EXCEPT !.at = "wake"]] \/ call' = [call EXCEPT ![c] = NoCall]
  BY DEF Publish
<1>2. call[c].id \in Prompts /\ call[c].delivery \in Deliveries
  <2>1. call[c] \in Call
    BY DEF IInv, TypeOK
  <2>2. QED BY <1>1, <2>1 DEF Call
<1>3. /\ inbox' \in Seq([id : Prompts, delivery : Deliveries])
      /\ DOMAIN inbox \subseteq DOMAIN inbox'
      /\ \A i \in DOMAIN inbox : inbox'[i] = inbox[i]
      /\ \A i \in DOMAIN inbox, j \in DOMAIN inbox' \ DOMAIN inbox : i < j
      /\ UniqueIds'
  BY <1>1, <1>2, Inserts
<1>4. UNCHANGED <<promoted, open, unrun, active, pendingWake, stopping, owner, drain, due>>
  BY <1>1 DEF entry, history
<1>5. call' \in [Calls -> Call]
  BY <1>1, NoCallType, CallMoves
<1>6. TypeOK'
  BY <1>3, <1>4, <1>5 DEF IInv, TypeOK, Waiting
<1>7. OneDrain' /\ Answered' /\ HitIsStopping'
  BY <1>4 DEF IInv, OneDrain, Alive, Answered, Repaired, HitIsStopping
<1>8. RowsFirst'
  <2>1. SUFFICES ASSUME NEW f \in Fibers, drain[f].at = "promote", NEW i \in drain[f].rows
                 PROVE  /\ i \in Waiting'
                        /\ \A j \in Waiting' : inbox'[j].delivery = inbox'[i].delivery /\ j <= i => j \in drain[f].rows
    BY <1>4 DEF RowsFirst
  <2>2. /\ i \in Waiting
        /\ \A j \in Waiting : inbox[j].delivery = inbox[i].delivery /\ j <= i => j \in drain[f].rows
    BY <2>1 DEF IInv, RowsFirst
  <2>3. ASSUME NEW j \in Waiting', inbox'[j].delivery = inbox'[i].delivery, j <= i PROVE j \in drain[f].rows
    <3>1. i \in DOMAIN inbox /\ i \in Nat
      BY <2>2 DEF Waiting, IInv, TypeOK
    <3>2. j \in DOMAIN inbox' /\ j \in Nat /\ j \notin promoted
      BY <1>3, <1>4 DEF Waiting
    <3>3. j \in DOMAIN inbox
      BY <1>3, <2>3, <3>1, <3>2
    <3>4. QED BY <1>3, <2>2, <2>3, <3>1, <3>2, <3>3 DEF Waiting
  <2>4. i \in Waiting'
    BY <1>3, <1>4, <2>2 DEF Waiting
  <2>5. QED BY <2>3, <2>4
<1>9. NoneLeft'
  <2>1. due \subseteq DOMAIN inbox
    BY DEF IInv, TypeOK, Waiting
  <2>2. due' \intersect Pending("steer")' = due \intersect Pending("steer")
    BY <1>3, <1>4, <2>1 DEF Pending
  <2>3. QED BY <1>4, <2>2 DEF IInv, NoneLeft
<1>10. QED BY <1>3, <1>6, <1>7, <1>8, <1>9 DEF IInv

LEMMA WakeKeeps == ASSUME DrainAssumption, IInv, NEW c \in Calls, Wake(c) PROVE IInv'
<1>1. WakeEntry /\ UNCHANGED db /\ call' = [call EXCEPT ![c] = NoCall]
  BY DEF Wake
<1>2. call' \in [Calls -> Call]
  BY <1>1, NoCallType, CallMoves
<1>3. CASE ~active
  BY <1>1, <1>2, <1>3, NewEntryKeeps DEF WakeEntry
<1>4. CASE active
  <2>1. pendingWake' = TRUE /\ due' = Waiting /\ UNCHANGED <<active, stopping, owner, drain>>
    BY <1>1, <1>4 DEF WakeEntry
  <2>2. TypeOK'
    BY <1>1, <1>2, <2>1 DEF IInv, TypeOK, db, history, Waiting
  <2>3. OneDrain' /\ UniqueIds' /\ Answered' /\ HitIsStopping'
    BY <1>1, <2>1 DEF IInv, OneDrain, Alive, UniqueIds, Answered, Repaired, HitIsStopping, db, history
  <2>4. RowsFirst'
    BY <1>1, <2>1 DEF IInv, RowsFirst, Waiting, db, history
  <2>5. NoneLeft'
    BY <2>1 DEF NoneLeft
  <2>6. QED BY <2>2, <2>3, <2>4, <2>5 DEF IInv
<1>5. QED BY <1>3, <1>4

LEMMA RunKeeps == ASSUME DrainAssumption, IInv, NEW c \in Calls, Run(c) PROVE IInv'
<1>1. CASE active
  <2>1. PICK x \in {"queued", "joined"} : call' = [call EXCEPT ![c] = [NoCall EXCEPT !.at = x]]
    BY <1>1 DEF Run
  <2>2. call' \in [Calls -> Call]
    BY <2>1, NoCallType, CallMoves
  <2>3. QED BY <1>1, <2>2, CallKeeps DEF Run
<1>2. CASE ~active
  <2>1. call' = [call EXCEPT ![c] = [NoCall EXCEPT !.at = "joined"]] /\ NewEntry(TRUE) /\ UNCHANGED db
    BY <1>2 DEF Run
  <2>2. call' \in [Calls -> Call]
    BY <2>1, NoCallType, CallMoves
  <2>3. QED BY <1>2, <2>1, <2>2, NewEntryKeeps
<1>3. QED BY <1>1, <1>2

LEMMA DropKeeps == ASSUME IInv, NEW c \in Calls, NoWake(c) \/ Abandon(c) PROVE IInv'
<1>1. call' \in [Calls -> Call]
  BY NoCallType, CallMoves DEF NoWake, Abandon
<1>2. QED BY <1>1, CallKeeps DEF NoWake, Abandon

-------------------------------------------------------------------------------
(* The invariant. *)

LEMMA InitHolds == ASSUME DrainAssumption, Init PROVE IInv
<1>1. TypeOK
  <2>1. inbox \in Seq([id : Prompts, delivery : Deliveries])
    BY DEF Init
  <2>2. drain \in [Fibers -> Drain] /\ call \in [Calls -> Call]
    BY NoDrainType, NoCallType DEF Init
  <2>3. QED BY <2>1, <2>2 DEF Init, TypeOK, Waiting
<1>2. \A f \in Fibers : drain[f] = NoDrain
  BY DEF Init
<1>3. OneDrain /\ UniqueIds /\ Answered /\ RowsFirst /\ NoneLeft /\ HitIsStopping
  BY <1>2, NoDrainType DEF Init, OneDrain, Alive, UniqueIds, Answered, Repaired, RowsFirst, NoneLeft, HitIsStopping
<1>4. QED BY <1>1, <1>3 DEF IInv

LEMMA NextKeeps == ASSUME DrainAssumption, IInv, [Next]_vars PROVE IInv'
<1>1. CASE \E f \in Fibers : DrainStep(f)
  <2>1. PICK f \in Fibers : DrainStep(f)
    BY <1>1
  <2>2. CASE HasSteer(f) \/ HasQueue(f) \/ FailInterruptedTools(f) \/ Cutoff(f) \/ Select(f)
    BY <2>2, HasSteerKeeps, HasQueueKeeps, RepairKeeps, CutoffKeeps, SelectKeeps
  <2>3. CASE Promote(f) \/ Promoted(f) \/ Compact(f) \/ Request(f) \/ StreamEnds(f)
    BY <2>3, PromoteKeeps, PromotedKeeps, CompactKeeps, RequestKeeps, StreamEndsKeeps
  <2>4. CASE MoreSteers(f) \/ MoreQueued(f) \/ Fails(f) \/ Unwind(f) \/ Settle(f)
    BY <2>4, MoreSteersKeeps, MoreQueuedKeeps, FailsKeeps, UnwindKeeps, SettleKeeps
  <2>5. CASE \E t \in Tools : Announce(f, t) \/ CallTool(f, t) \/ CallDisabled(f, t)
    BY <2>5, AnnounceKeeps, CallToolKeeps, CallDisabledKeeps
  <2>6. CASE \E stream \in {"ok", "error", "failed"} : EndTurn(f, stream)
    BY <2>6, EndTurnKeeps
  <2>7. QED BY <2>1, <2>2, <2>3, <2>4, <2>5, <2>6 DEF DrainStep
<1>2. CASE \E f \in Fibers : ToolStep(f)
  BY <1>2, ToolEndsKeeps, ToolDiesKeeps DEF ToolStep
<1>3. CASE \E c \in Calls : Find(c) \/ Publish(c) \/ Wake(c) \/ NoWake(c) \/ Run(c) \/ Abandon(c)
  BY <1>3, FindKeeps, PublishKeeps, WakeKeeps, DropKeeps, RunKeeps
<1>4. CASE Interrupt
  BY <1>4, InterruptKeeps
<1>5. CASE Crash
  BY <1>5, CrashKeeps
<1>6. CASE UNCHANGED vars
  <2>1. UNCHANGED <<db, entry, drain, call, due>>
    BY <1>6 DEF vars
  <2>2. call' \in [Calls -> Call]
    BY <2>1 DEF IInv, TypeOK
  <2>3. QED BY <2>1, <2>2, CallKeeps
<1>7. QED BY <1>1, <1>2, <1>3, <1>4, <1>5, <1>6 DEF Next

(* The strengthening holds in every reachable state. *)
LEMMA Inductive == Spec => []IInv
<1>1. Init => IInv
  BY DrainAssumption, InitHolds
<1>2. IInv /\ [Next]_vars => IInv'
  BY DrainAssumption, NextKeeps
<1>3. QED BY <1>1, <1>2, PTL DEF Spec

(* Every variable of a session keeps its type, whatever the clients, the     *)
(* interruptions and the crashes do.                                         *)
THEOREM TypeCorrect == Spec => []TypeOK
<1>1. IInv => TypeOK
  BY DEF IInv
<1>2. QED BY <1>1, Inductive, PTL

(* A session never has two drains, nor a drain that an interruption cannot   *)
(* reach, for any number of concurrent callers.                              *)
THEOREM OneDrainAlways == Spec => []OneDrain
<1>1. IInv => OneDrain
  BY DEF IInv
<1>2. QED BY <1>1, Inductive, PTL

(* No request carries a call of an earlier turn without its outcome, unless  *)
(* this drain announced it and never ran it: whatever an earlier turn was    *)
(* doing when it was interrupted or the process died, and whichever of its   *)
(* tools ended, died or went on when it ended.                               *)
THEOREM RequestIsAnsweredAlways == Spec => []RequestIsAnswered
<1>1. IInv => RequestIsAnswered
  BY DEF IInv, Answered, OwnOpen, RequestIsAnswered
<1>2. QED BY <1>1, Inductive, PTL

-------------------------------------------------------------------------------
(* The session implements the inbox it promises. *)

Quiet == UNCHANGED <<inbox, promoted, due, active>>

LEMMA PromoteServes ==
  ASSUME IInv, NEW f \in Fibers, Promote(f) PROVE Promise!Next
<1>1. drain[f].at = "promote" /\ UNCHANGED <<inbox, active>>
  BY DEF Promote, At, entry
<1>2. PICK i \in drain[f].rows :
        (\A j \in drain[f].rows : i <= j) /\ promoted' = promoted \union {i} /\ due' = due \ {i}
  BY DEF Promote
<1>3. /\ i \in Waiting
      /\ \A j \in Waiting : inbox[j].delivery = inbox[i].delivery /\ j <= i => j \in drain[f].rows
  BY <1>1 DEF IInv, RowsFirst
<1>4. \A j \in Waiting : j \in Nat
  BY DEF IInv, TypeOK, Waiting
<1>5. \A j \in Waiting : inbox[j].delivery = inbox[i].delivery => i <= j
  BY <1>2, <1>3, <1>4
<1>6. active
  BY <1>1, Alone
<1>7. Promise!Serve(i)
  BY <1>1, <1>2, <1>3, <1>5, <1>6 DEF Promise!Serve, Promise!Waiting, Waiting
<1>8. QED BY <1>3, <1>7 DEF Promise!Next, Promise!Waiting, Waiting

LEMMA SettleStops ==
  ASSUME IInv, NEW f \in Fibers, Settle(f) PROVE Promise!Next \/ Quiet
<1>1. drain[f].at = "leave" /\ UNCHANGED <<inbox, promoted>>
  BY DEF Settle, db, history
<1>2. CASE SettleAgain(f)
  BY <1>1, <1>2 DEF SettleAgain, Quiet
<1>3. CASE SettleDone(f) /\ pendingWake
  BY <1>1, <1>3 DEF SettleDone, StillDue, Quiet
<1>4. CASE SettleDone(f) /\ ~pendingWake
  <2>1. active' = FALSE /\ due' = StillDue(drain[f].exit)
    BY <1>4 DEF SettleDone
  <2>2. due' = {}
    BY <1>1, <1>4, <2>1 DEF StillDue, IInv, NoneLeft
  <2>3. QED BY <1>1, <2>1, <2>2 DEF Promise!Next, Promise!Stop
<1>5. QED BY <1>2, <1>3, <1>4 DEF Settle

LEMMA PublishAdmits ==
  ASSUME IInv, NEW c \in Calls, Publish(c) PROVE Promise!Next \/ Quiet
<1>1. call[c].at = "publish" /\ inbox' = Insert(call[c].id, call[c].delivery) /\ UNCHANGED <<promoted, active, due>>
  BY DEF Publish, entry
<1>2. call[c].id \in Prompts /\ call[c].delivery \in Deliveries
  <2>1. call[c] \in Call
    BY DEF IInv, TypeOK
  <2>2. QED BY <1>1, <2>1 DEF Call
<1>3. CASE \E i \in DOMAIN inbox : inbox[i].id = call[c].id
  BY <1>1, <1>3 DEF Insert, Quiet
<1>4. CASE ~\E i \in DOMAIN inbox : inbox[i].id = call[c].id
  <2>1. inbox' = Append(inbox, [id |-> call[c].id, delivery |-> call[c].delivery])
    BY <1>1, <1>4 DEF Insert
  <2>2. Promise!Admit
    BY <1>1, <1>2, <1>4, <2>1 DEF Promise!Admit
  <2>3. QED BY <2>2 DEF Promise!Next
<1>5. QED BY <1>3, <1>4

LEMMA NewEntryAsks ==
  ASSUME NEW force, NewEntry(force), UNCHANGED db PROVE Promise!Next
<1>1. active' = TRUE /\ due' = Waiting
  BY DEF NewEntry
<1>2. Promise!Ask
  BY <1>1 DEF Promise!Ask, Promise!Waiting, Waiting, db, history
<1>3. QED BY <1>2 DEF Promise!Next

LEMMA WakeAsks ==
  ASSUME IInv, NEW c \in Calls, Wake(c) PROVE Promise!Next
<1>1. WakeEntry /\ UNCHANGED db
  BY DEF Wake
<1>2. CASE active
  <2>1. due' = Waiting /\ active' = TRUE
    BY <1>1, <1>2 DEF WakeEntry, IInv, TypeOK
  <2>2. Promise!Ask
    BY <1>1, <2>1 DEF Promise!Ask, Promise!Waiting, Waiting, db, history
  <2>3. QED BY <2>2 DEF Promise!Next
<1>3. CASE ~active
  BY <1>1, <1>3, NewEntryAsks DEF WakeEntry
<1>4. QED BY <1>2, <1>3

LEMMA RunAsks ==
  ASSUME NEW c \in Calls, Run(c) PROVE Promise!Next \/ Quiet
<1>1. CASE active
  BY <1>1 DEF Run, db, history, entry, Quiet
<1>2. CASE ~active
  BY <1>2, NewEntryAsks DEF Run
<1>3. QED BY <1>1, <1>2

LEMMA StepSimulates ==
  ASSUME IInv, [Next]_vars PROVE [Promise!Next]_(Promise!ivars)
<1>1. SUFFICES Promise!Next \/ Quiet
  BY DEF Quiet, Promise!ivars
<1>2. CASE \E f \in Fibers : DrainStep(f)
  <2>1. PICK f \in Fibers : DrainStep(f)
    BY <1>2
  <2>2. CASE HasSteer(f) \/ HasQueue(f) \/ FailInterruptedTools(f) \/ Cutoff(f) \/ Select(f)
    BY <2>2 DEF HasSteer, HasQueue, FailInterruptedTools, Cutoff, Select, Quiet, db, history, entry
  <2>3. CASE Promoted(f) \/ Compact(f) \/ Request(f) \/ StreamEnds(f)
    BY <2>3 DEF Promoted, Compact, Request, StreamEnds, Quiet, db, history, entry
  <2>4. CASE MoreSteers(f) \/ MoreQueued(f) \/ Fails(f) \/ Unwind(f)
    BY <2>4 DEF MoreSteers, MoreQueued, Fails, Unwind, Quiet, db, history, entry
  <2>5. CASE \E t \in Tools : Announce(f, t) \/ CallTool(f, t) \/ CallDisabled(f, t)
    BY <2>5 DEF Announce, CallTool, CallDisabled, Quiet, db, entry
  <2>6. CASE \E stream \in {"ok", "error", "failed"} : EndTurn(f, stream)
    BY <2>6 DEF EndTurn, Quiet, entry
  <2>7. CASE Promote(f) \/ Settle(f)
    BY <2>7, PromoteServes, SettleStops
  <2>8. QED BY <2>1, <2>2, <2>3, <2>4, <2>5, <2>6, <2>7 DEF DrainStep
<1>3. CASE \E f \in Fibers : ToolStep(f)
  BY <1>3 DEF ToolStep, ToolEnds, ToolDies, Quiet, db, history, entry
<1>4. CASE \E c \in Calls : Find(c) \/ NoWake(c) \/ Abandon(c)
  BY <1>4 DEF Find, NoWake, Abandon, Quiet, db, history, entry
<1>5. CASE \E c \in Calls : Publish(c) \/ Wake(c) \/ Run(c)
  BY <1>5, PublishAdmits, WakeAsks, RunAsks
<1>6. CASE Interrupt
  BY <1>6 DEF Interrupt, Quiet, db, history
<1>7. CASE Crash
  BY <1>7 DEF Crash, db, history, Promise!Next, Promise!Stop
<1>8. CASE UNCHANGED vars
  BY <1>8 DEF vars, db, history, entry, Quiet
<1>9. QED BY <1>2, <1>3, <1>4, <1>5, <1>6, <1>7, <1>8 DEF Next

(* The coordinator, the inbox and the runner together keep what SessionInbox *)
(* promises: prompts are admitted and served once, in order per delivery,    *)
(* and none that was asked for is left behind by an execution that ends well.*)
THEOREM Implements == Spec => KeepsPromise
<1>1. Init => Promise!Init
  BY DEF Init, Promise!Init
<1>2. IInv /\ [Next]_vars => [Promise!Next]_(Promise!ivars)
  BY StepSimulates
<1>3. QED BY <1>1, <1>2, Inductive, PTL DEF Spec, KeepsPromise, Promise!Spec

===============================================================================
