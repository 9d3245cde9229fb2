----------------------------- MODULE SessionDrain -----------------------------
(***************************************************************************)
(* One session of the engine: the run coordinator (run-coordinator.ts),    *)
(* the durable inbox of prompts (input.ts) and the runner that serves them *)
(* turn by turn (runner/llm.ts), under concurrent clients, interruptions   *)
(* and crashes of the process.  Sessions share nothing but the code: the   *)
(* coordinator's Map has an entry per session and this is one of them.     *)
(*                                                                         *)
(* The database (inbox, promoted, open) survives a crash, the rest is      *)
(* memory.  A position of the inbox stands for admitted_seq.  Tools that   *)
(* the provider executes itself are left out.                              *)
(***************************************************************************)
EXTENDS Naturals, Sequences, FiniteSets

CONSTANTS
  Fibers,       \* slots for the fibers the coordinator forks
  Calls,        \* client calls in progress: prompt, resume
  Prompts,      \* message ids
  Tools,        \* tool call ids of a turn
  MaxSteps,     \* agent.info.steps: from this step on, tools are disabled
  None          \* no fiber, no prompt

ASSUME DrainAssumption ==
  /\ MaxSteps \in Nat
  /\ Fibers # {}
  /\ None \notin Fibers
  /\ None \notin Prompts

Deliveries == {"steer", "queue"}

VARIABLES
  inbox,        \* SessionInputTable: the admitted prompts by admitted_seq
  promoted,     \* positions whose promoted_seq is set
  open,         \* tool calls the session's history shows as pending or running
  unrun,        \* history: those an earlier turn of this drain never ran
  active,       \* does the Map have an entry?
  pendingWake, stopping, owner,     \* the fields of the entry
  drain,        \* the fibers of the drains
  call,         \* the calls of the clients
  due           \* history: positions somebody asked to serve (see SessionInbox)

history == <<open, unrun>>
db == <<inbox, promoted, history>>
entry == <<active, pendingWake, stopping, owner>>
vars == <<db, entry, drain, call, due>>

Pending(d) == {i \in DOMAIN inbox \ promoted : inbox[i].delivery = d}
Waiting == DOMAIN inbox \ promoted

NoDrain == [at |-> "none", force |-> FALSE, hit |-> FALSE, promotion |-> "none",
            cut |-> 0, rows |-> {}, step |-> 0, announced |-> {}, called |-> {},
            settled |-> {}, busy |-> {},
            fault |-> "none", compacted |-> FALSE, exit |-> "ok"]
NoCall == [at |-> "idle", id |-> None, delivery |-> "steer"]

Alive == {f \in Fibers : drain[f].at # "none"}

Init ==
  /\ inbox = <<>> /\ promoted = {} /\ open = {} /\ unrun = {}
  /\ active = FALSE /\ pendingWake = FALSE /\ stopping = FALSE /\ owner = None
  /\ drain = [f \in Fibers |-> NoDrain]
  /\ call = [c \in Calls |-> NoCall]
  /\ due = {}

-------------------------------------------------------------------------------
(* The coordinator. *)

(* start: fork the drain beside `others', the fibers that go on; it becomes *)
(* the owner.  Two drains need two slots.                                   *)
Start(others, force) ==
  LET g == CHOOSE g \in Fibers : others[g].at = "none"
  IN  /\ drain' = [others EXCEPT ![g] = [NoDrain EXCEPT !.at = "ready", !.force = force]]
      /\ owner' = g

(* A fresh entry with its first drain. *)
NewEntry(force) ==
  /\ Start(drain, force)
  /\ active' = TRUE /\ pendingWake' = FALSE /\ stopping' = FALSE
  /\ due' = Waiting

(* wake(key) *)
WakeEntry ==
  IF active
  THEN /\ pendingWake' = TRUE
       /\ due' = Waiting
       /\ UNCHANGED <<active, stopping, owner, drain>>
  ELSE NewEntry(FALSE)

(* interrupt(key): the owner is told; it ends in a step of its own. *)
Interrupt ==
  /\ active
  /\ stopping' = TRUE /\ pendingWake' = FALSE
  /\ drain' = [drain EXCEPT ![owner].hit = TRUE]
  /\ UNCHANGED <<db, active, owner, call, due>>

(* The callers that await `done' learn of the exit; one that was told to    *)
(* wait for a stopping execution runs again only after a successful exit.   *)
Resolved(exit) ==
  [c \in Calls |->
     CASE call[c].at = "joined" -> NoCall
       [] call[c].at = "queued" -> IF exit = "ok" THEN [NoCall EXCEPT !.at = "run"] ELSE NoCall
       [] OTHER -> call[c]]

(* History: a stop forgets what was asked for, unless a wake was registered  *)
(* that no interruption took back.                                           *)
StillDue(exit) == IF pendingWake \/ (exit = "ok" /\ ~stopping) THEN due ELSE {}

(* settle, when the drain was woken again and ended well: same entry, new drain *)
SettleAgain(f) ==
  /\ drain[f].exit = "ok" /\ ~stopping /\ pendingWake
  /\ pendingWake' = FALSE
  /\ Start([drain EXCEPT ![f] = NoDrain], FALSE)
  /\ UNCHANGED <<active, stopping, call, due>>

(* Mutant: only a drain that ended well has a successor. *)
SettleDoneDropping(f) ==
  /\ ~(drain[f].exit = "ok" /\ ~stopping /\ pendingWake)
  /\ drain' = [drain EXCEPT ![f] = NoDrain]
  /\ active' = FALSE /\ owner' = None
  /\ pendingWake' = FALSE /\ stopping' = FALSE
  /\ call' = Resolved(drain[f].exit)
  /\ due' = StillDue(drain[f].exit)

(* settle, otherwise: the entry is done, with or without a successor *)
SettleDone(f) ==
  /\ ~(drain[f].exit = "ok" /\ ~stopping /\ pendingWake)
  /\ IF pendingWake
     THEN /\ Start([drain EXCEPT ![f] = NoDrain], FALSE)
          /\ UNCHANGED active
     ELSE /\ drain' = [drain EXCEPT ![f] = NoDrain]
          /\ active' = FALSE /\ owner' = None
  /\ pendingWake' = FALSE /\ stopping' = FALSE
  /\ call' = Resolved(drain[f].exit)
  /\ due' = StillDue(drain[f].exit)

Settle(f) ==
  /\ drain[f].at = "leave"
  /\ SettleAgain(f) \/ SettleDone(f)
  /\ unrun' = {}
  /\ UNCHANGED <<inbox, promoted, open>>

-------------------------------------------------------------------------------
(* The clients. *)

(* prompt: admit looks the message id up before it publishes PromptAdmitted. *)
Find(c) ==
  /\ call[c].at = "idle"
  /\ \E p \in Prompts, d \in Deliveries :
       LET known == {i \in DOMAIN inbox : inbox[i].id = p}
       IN  /\ \A i \in known : inbox[i].delivery = d     \* else PromptConflictError
           /\ call' = [call EXCEPT ![c] = IF known = {}
                         THEN [at |-> "publish", id |-> p, delivery |-> d]
                         ELSE [NoCall EXCEPT !.at = "wake"]]
  /\ UNCHANGED <<db, entry, drain, due>>

(* The projector of PromptAdmitted: the id is the primary key of the inbox. *)
Insert(p, d) ==
  IF \E i \in DOMAIN inbox : inbox[i].id = p THEN inbox
  ELSE Append(inbox, [id |-> p, delivery |-> d])

(* A conflict makes admit look again; what was stored decides. *)
Publish(c) ==
  /\ call[c].at = "publish"
  /\ inbox' = Insert(call[c].id, call[c].delivery)
  /\ LET same == \A i \in DOMAIN inbox' :
                   inbox'[i].id = call[c].id => inbox'[i].delivery = call[c].delivery
     IN  call' = [call EXCEPT ![c] = IF same THEN [NoCall EXCEPT !.at = "wake"] ELSE NoCall]
  /\ UNCHANGED <<promoted, history, entry, drain, due>>

Wake(c) ==
  /\ call[c].at = "wake"
  /\ call' = [call EXCEPT ![c] = NoCall]
  /\ WakeEntry
  /\ UNCHANGED db

(* resume: false *)
NoWake(c) ==
  /\ call[c].at = "wake"
  /\ call' = [call EXCEPT ![c] = NoCall]
  /\ UNCHANGED <<db, entry, drain, due>>

(* Mutant: a stopping execution does not hold a resume back. *)
RunAnew(c) ==
  /\ call[c].at \in {"idle", "run"}
  /\ call' = [call EXCEPT ![c] = [NoCall EXCEPT !.at = "joined"]]
  /\ IF active /\ ~stopping THEN UNCHANGED <<entry, drain, due>> ELSE NewEntry(TRUE)
  /\ UNCHANGED db

(* run(key): by a resume, or again after a stopping execution ended *)
Run(c) ==
  /\ call[c].at \in {"idle", "run"}
  /\ IF active
     THEN /\ call' = [call EXCEPT ![c] = [NoCall EXCEPT !.at = IF stopping THEN "queued" ELSE "joined"]]
          /\ UNCHANGED <<entry, drain, due>>
     ELSE /\ call' = [call EXCEPT ![c] = [NoCall EXCEPT !.at = "joined"]]
          /\ NewEntry(TRUE)
  /\ UNCHANGED db

(* A waiting caller goes away; the execution is not cancelled. *)
Abandon(c) ==
  /\ call[c].at \in {"joined", "queued", "run"}
  /\ call' = [call EXCEPT ![c] = NoCall]
  /\ UNCHANGED <<db, entry, drain, due>>

-------------------------------------------------------------------------------
(* The drain: SessionRunner.run, one step per look at the database. *)

At(f, place) == drain[f].at = place /\ ~drain[f].hit
Moves(f, d) == drain' = [drain EXCEPT ![f] = d]
Leaves(f, exit) == Moves(f, [NoDrain EXCEPT !.at = "leave", !.exit = exit])

(* The first step of a turn: what is promoted, if anything.  All steps from  *)
(* MaxSteps on are alike.                                                    *)
Turn(promotion, step) ==
  [NoDrain EXCEPT !.at = IF promotion = "none" THEN "request" ELSE "cutoff",
                  !.promotion = promotion,
                  !.step = IF step > MaxSteps THEN MaxSteps ELSE step]

HasSteer(f) ==
  /\ At(f, "ready")
  /\ Moves(f, IF Pending("steer") # {}
              THEN [NoDrain EXCEPT !.at = "repair", !.promotion = "steer"]
              ELSE [drain[f] EXCEPT !.at = "queue?"])
  /\ UNCHANGED <<db, entry, call, due>>

HasQueue(f) ==
  /\ At(f, "queue?")
  /\ IF Pending("queue") # {} THEN Moves(f, [NoDrain EXCEPT !.at = "repair", !.promotion = "queue"])
     ELSE IF drain[f].force THEN Moves(f, [NoDrain EXCEPT !.at = "repair"])
     ELSE Leaves(f, "ok")
  /\ UNCHANGED <<db, entry, call, due>>

(* Mutant: what an earlier execution left open stays open. *)
FailNothing(f) ==
  /\ At(f, "repair")
  /\ Moves(f, Turn(drain[f].promotion, 1))
  /\ UNCHANGED <<db, entry, call, due>>

(* failInterruptedTools: settle what an earlier execution left open. *)
FailInterruptedTools(f) ==
  /\ At(f, "repair")
  /\ open' = {}
  /\ Moves(f, Turn(drain[f].promotion, 1))
  /\ UNCHANGED <<inbox, promoted, unrun, entry, call, due>>

(* latestSequence: later steers wait for the next turn. *)
Cutoff(f) ==
  /\ At(f, "cutoff")
  /\ Moves(f, [drain[f] EXCEPT !.at = "select", !.cut = Len(inbox)])
  /\ UNCHANGED <<db, entry, call, due>>

(* The rows promoteSteers and promoteNextQueued read. *)
SteerRows(f) == {i \in Pending("steer") : i <= drain[f].cut}
QueueRows == {i \in Pending("queue") : \A j \in Pending("queue") : i <= j}

Select(f) ==
  /\ At(f, "select")
  /\ Moves(f, [drain[f] EXCEPT !.at = "promote",
                               !.rows = IF drain[f].promotion = "queue" THEN QueueRows ELSE SteerRows(f)])
  /\ UNCHANGED <<db, entry, call, due>>

(* Mutant: the row after the one that was read is marked. *)
PromoteNext(f) ==
  /\ At(f, "promote")
  /\ \E i \in drain[f].rows :
       /\ \A j \in drain[f].rows : i <= j
       /\ promoted' = promoted \union {i + 1}
       /\ due' = due \ {i + 1}
       /\ Moves(f, [drain[f] EXCEPT !.rows = @ \ {i}, !.step = 1])
  /\ UNCHANGED <<inbox, history, entry, call>>

(* Prompted is published for one row after the other; a row that has been *)
(* promoted already is left alone.                                        *)
Promote(f) ==
  /\ At(f, "promote")
  /\ \E i \in drain[f].rows :
       /\ \A j \in drain[f].rows : i <= j
       /\ promoted' = promoted \union {i}
       /\ due' = due \ {i}
       /\ Moves(f, [drain[f] EXCEPT !.rows = @ \ {i}, !.step = 1])
  /\ UNCHANGED <<inbox, history, entry, call>>

(* After the queued prompt the steers, then the request. *)
Promoted(f) ==
  /\ At(f, "promote")
  /\ drain[f].rows = {}
  /\ Moves(f, IF drain[f].promotion = "queue"
              THEN [drain[f] EXCEPT !.at = "select", !.promotion = "steer"]
              ELSE Turn("none", drain[f].step))
  /\ UNCHANGED <<db, entry, call, due>>

(* Mutant: the attempt after a compaction may end in another one. *)
CompactAgain(f) ==
  /\ At(f, "request") \/ At(f, "stream")
  /\ drain[f].announced = {}
  /\ Moves(f, [Turn("none", drain[f].step) EXCEPT !.compacted = TRUE])
  /\ UNCHANGED <<db, entry, call, due>>

(* Compaction before the request, or after the provider found it too long:  *)
(* the turn starts again without a promotion.  What is left is too short to *)
(* be compacted again.                                                      *)
Compact(f) ==
  /\ At(f, "request") \/ At(f, "stream")
  /\ drain[f].announced = {} /\ ~drain[f].compacted
  /\ Moves(f, [Turn("none", drain[f].step) EXCEPT !.compacted = TRUE])
  /\ UNCHANGED <<db, entry, call, due>>

(* The history is sent to the provider. *)
Request(f) ==
  /\ At(f, "request")
  /\ Moves(f, [drain[f] EXCEPT !.at = "stream"])
  /\ UNCHANGED <<db, entry, call, due>>

(* The provider begins to write a tool's input: the call is pending in the   *)
(* history before it is made, if it ever is.                                 *)
Announce(f, t) ==
  /\ At(f, "stream")
  /\ t \notin drain[f].announced \union open
  /\ open' = open \union {t}
  /\ Moves(f, [drain[f] EXCEPT !.announced = @ \union {t}, !.compacted = FALSE])
  /\ UNCHANGED <<inbox, promoted, unrun, entry, call, due>>

(* The call is made; its fiber starts at once, ... *)
CallTool(f, t) ==
  /\ At(f, "stream")
  /\ t \in drain[f].announced \ drain[f].called
  /\ drain[f].step < MaxSteps
  /\ Moves(f, [drain[f] EXCEPT !.called = @ \union {t}, !.busy = @ \union {t}])
  /\ UNCHANGED <<db, entry, call, due>>

(* ... or, at the last step, what was announced is failed on the spot.  One  *)
(* that was failed so before it is called is running from then on.           *)
CallDisabled(f, t) ==
  /\ At(f, "stream")
  /\ t \in drain[f].announced \ drain[f].called
  /\ drain[f].step = MaxSteps
  /\ open' = (open \union {t}) \ (drain[f].announced \ drain[f].settled)
  /\ Moves(f, [drain[f] EXCEPT !.called = @ \union {t}, !.settled = drain[f].announced])
  /\ UNCHANGED <<inbox, promoted, unrun, entry, call, due>>

(* The tool's fiber publishes its result, ... *)
ToolEnds(f, t) ==
  /\ drain[f].at \in {"stream", "tools"}
  /\ t \in drain[f].busy
  /\ open' = open \ {t}
  /\ Moves(f, [drain[f] EXCEPT !.busy = @ \ {t}])
  /\ UNCHANGED <<inbox, promoted, unrun, entry, call, due>>

(* ... or dies, perhaps because the user dismissed its question. *)
ToolDies(f, t) ==
  /\ drain[f].at \in {"stream", "tools"}
  /\ t \in drain[f].busy
  /\ \E why \in {"tool", "question"} :
       Moves(f, [drain[f] EXCEPT !.busy = @ \ {t}, !.fault = IF @ = "none" THEN why ELSE @])
  /\ UNCHANGED <<db, entry, call, due>>

(* The stream ends.  How it ended matters once its tools have. *)
StreamEnds(f) ==
  /\ At(f, "stream")
  /\ Moves(f, [drain[f] EXCEPT !.at = "tools", !.compacted = FALSE])
  /\ UNCHANGED <<db, entry, call, due>>

(* What a turn announced and neither its tools nor a failure settled. *)
Unsettled(d) == d.announced \ d.settled

(* The calls that were made while tools were enabled. *)
Ran(d) == IF d.step < MaxSteps THEN d.called ELSE {}

(* All tools ended, or one of them died: the turn's outcome is known, and    *)
(* its fibers are interrupted with its scope.  The stream had ended well,    *)
(* with a provider error among its events, or failed.  After a dead tool or  *)
(* a provider error what is open is failed; otherwise a call that was        *)
(* announced and not made stays open, and the turn does not continue for it. *)
EndTurn(f, stream) ==
  /\ At(f, "tools")
  /\ drain[f].busy = {} \/ drain[f].fault # "none"
  /\ LET d == drain[f]
         more == Ran(d) # {} /\ stream = "ok"
     IN  /\ open' = IF d.fault # "none" \/ stream = "error"
                     THEN open \ Unsettled(d) ELSE open
         /\ unrun' = open' \intersect (unrun \union (d.announced \ Ran(d)))
         /\ IF d.fault = "question" THEN Leaves(f, "interrupted")
            ELSE IF stream = "failed" THEN Leaves(f, "failed")
            ELSE IF more THEN Moves(f, Turn("steer", d.step + 1))
            ELSE Moves(f, [NoDrain EXCEPT !.at = "more?", !.step = d.step])
  /\ UNCHANGED <<inbox, promoted, entry, call, due>>

MoreSteers(f) ==
  /\ At(f, "more?")
  /\ Moves(f, IF Pending("steer") # {} THEN Turn("steer", drain[f].step + 1)
              ELSE [NoDrain EXCEPT !.at = "more queued?"])
  /\ UNCHANGED <<db, entry, call, due>>

MoreQueued(f) ==
  /\ At(f, "more queued?")
  /\ IF Pending("queue") # {} THEN Moves(f, Turn("queue", 1)) ELSE Leaves(f, "ok")
  /\ UNCHANGED <<db, entry, call, due>>

(* Setting a turn up may fail: no model, no session, a conflict, or a       *)
(* session that was moved elsewhere.                                        *)
Fails(f) ==
  /\ drain[f].at \in {"cutoff", "select", "request"} /\ ~drain[f].hit
  /\ Leaves(f, "failed")
  /\ UNCHANGED <<db, entry, call, due>>

(* The interruption arrives; a turn fails the calls it left unsettled and   *)
(* interrupts their fibers.                                                 *)
Unwind(f) ==
  /\ drain[f].hit
  /\ drain[f].at \notin {"none", "leave"}
  /\ open' = IF drain[f].at \in {"stream", "tools"} THEN open \ Unsettled(drain[f]) ELSE open
  /\ Leaves(f, "interrupted")
  /\ UNCHANGED <<inbox, promoted, unrun, entry, call, due>>

DrainStep(f) ==
  \/ HasSteer(f) \/ HasQueue(f) \/ FailInterruptedTools(f)
  \/ Cutoff(f) \/ Select(f) \/ Promote(f) \/ Promoted(f)
  \/ Compact(f) \/ Request(f) \/ (\E t \in Tools : Announce(f, t))
  \/ \E t \in Tools : CallTool(f, t) \/ CallDisabled(f, t)
  \/ StreamEnds(f) \/ \E stream \in {"ok", "error", "failed"} : EndTurn(f, stream)
  \/ MoreSteers(f) \/ MoreQueued(f) \/ Fails(f) \/ Unwind(f) \/ Settle(f)

ToolStep(f) == \E t \in Tools : ToolEnds(f, t) \/ ToolDies(f, t)

(* The process dies: what is not in the database is gone. *)
Crash ==
  /\ active' = FALSE /\ pendingWake' = FALSE /\ stopping' = FALSE /\ owner' = None
  /\ drain' = [f \in Fibers |-> NoDrain]
  /\ call' = [c \in Calls |-> NoCall]
  /\ due' = {} /\ unrun' = {}
  /\ UNCHANGED <<inbox, promoted, open>>

Next ==
  \/ \E f \in Fibers : DrainStep(f) \/ ToolStep(f)
  \/ \E c \in Calls : Find(c) \/ Publish(c) \/ Wake(c) \/ NoWake(c) \/ Run(c) \/ Abandon(c)
  \/ Interrupt
  \/ Crash

Spec == Init /\ [][Next]_vars

(* Fibers are run, and the tools that a turn waits for end. *)
FairSpec == Spec /\ WF_vars(\E f \in Alive : DrainStep(f) \/ ToolStep(f))

-------------------------------------------------------------------------------
(* Types: the shape of the database, the entry, the fibers and the calls. *)
Drain == [at : {"none", "ready", "queue?", "repair", "cutoff", "select", "promote",
                "request", "stream", "tools", "more?", "more queued?", "leave"},
          force : BOOLEAN, hit : BOOLEAN, promotion : {"none", "steer", "queue"},
          cut : Nat, rows : SUBSET Nat, step : Nat,
          announced : SUBSET Tools, called : SUBSET Tools,
          settled : SUBSET Tools, busy : SUBSET Tools,
          fault : {"none", "tool", "question"},
          compacted : BOOLEAN, exit : {"ok", "failed", "interrupted"}]
Call == [at : {"publish"}, id : Prompts, delivery : Deliveries]
        \union [at : {"idle", "wake", "run", "joined", "queued"}, id : {None}, delivery : Deliveries]

TypeOK ==
  /\ inbox \in Seq([id : Prompts, delivery : Deliveries])
  /\ promoted \subseteq DOMAIN inbox
  /\ due \subseteq Waiting
  /\ open \subseteq Tools /\ unrun \subseteq Tools
  /\ active \in BOOLEAN /\ pendingWake \in BOOLEAN /\ stopping \in BOOLEAN
  /\ owner \in Fibers \union {None}
  /\ drain \in [Fibers -> Drain]
  /\ call \in [Calls -> Call]

(* run-coordinator.ts:5, "Serializes execution for each key": whatever the   *)
(* order of wakes, resumes, interruptions and settlements, there is a drain  *)
(* exactly while there is an entry, and it is the entry's owner, so that an  *)
(* interruption reaches it.                                                  *)
OneDrain == Alive = IF active THEN {owner} ELSE {}

(* No tool that was run is forgotten, and nothing an earlier drain left open  *)
(* is: while a request streams, the calls the history shows as open are this *)
(* turn's own, or calls that this drain's earlier turns announced and never  *)
(* ran.  It takes a crash or an interruption in an earlier drain to break,   *)
(* or a turn that ends before its tools do.                                  *)
RequestIsAnswered ==
  \A f \in Fibers :
    drain[f].at \in {"stream", "tools"} => open \subseteq drain[f].announced \union unrun

(* SessionInbox is what this session promises. *)
Promise == INSTANCE SessionInbox WITH served <- promoted, running <- active
KeepsPromise == Promise!Spec

(* Liveness: with finitely many prompts, all that somebody asked for is      *)
(* served in the end, or forgotten by a stop (which SessionInbox allows      *)
(* after an interruption, a failure or a crash only), unless the execution   *)
(* that was to serve it is broken off, again and again if it has successors. *)
BrokenOff == \E f \in Fibers : drain[f].exit # "ok"
DueIsServed == due # {} ~> (due = {} \/ BrokenOff)

===============================================================================
