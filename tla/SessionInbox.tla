----------------------------- MODULE SessionInbox -----------------------------
(***************************************************************************)
(* What the engine's sessions promise to whoever sends them prompts,       *)
(* without coordinator, fibers, turns or database: a prompt is admitted at *)
(* most once, it is served at most once and in its turn, and a session     *)
(* comes to rest with a prompt unserved only if nobody asked for it or if  *)
(* the execution was stopped.  SessionDrain is shown to implement it.      *)
(***************************************************************************)
EXTENDS Naturals, Sequences

CONSTANTS Prompts,      \* message ids
          Deliveries    \* ways to deliver a prompt

VARIABLES
  inbox,        \* the admitted prompts, in the order of their admission
  served,       \* positions of the inbox that became messages of the session
  due,          \* positions somebody asked the session to serve
  running       \* does the session have an execution?

ivars == <<inbox, served, due, running>>

Waiting == DOMAIN inbox \ served

Init ==
  /\ inbox = <<>>
  /\ served = {} /\ due = {}
  /\ running = FALSE

(* A prompt enters the inbox: a message id does so once. *)
Admit ==
  /\ \E p \in Prompts, d \in Deliveries :
       /\ \A i \in DOMAIN inbox : inbox[i].id # p
       /\ inbox' = Append(inbox, [id |-> p, delivery |-> d])
  /\ UNCHANGED <<served, due, running>>

(* The session is asked to serve what waits now. *)
Ask ==
  /\ due' = Waiting
  /\ running' = TRUE
  /\ UNCHANGED <<inbox, served>>

(* One prompt is served, the oldest of its delivery. *)
Serve(i) ==
  /\ running
  /\ i \in Waiting
  /\ \A j \in Waiting : inbox[j].delivery = inbox[i].delivery => i <= j
  /\ served' = served \union {i}
  /\ due' = due \ {i}
  /\ UNCHANGED <<inbox, running>>

(* The execution ends well: nothing asked for is left behind. *)
Rest ==
  /\ running
  /\ due = {}
  /\ running' = FALSE
  /\ UNCHANGED <<inbox, served, due>>

(* The execution is stopped by an interruption, a failure or a crash; what *)
(* waits then waits until somebody asks again.                             *)
Stop ==
  /\ running' = FALSE
  /\ due' = {}
  /\ UNCHANGED <<inbox, served>>

Next == Admit \/ Ask \/ (\E i \in Waiting : Serve(i)) \/ Rest \/ Stop

Spec == Init /\ [][Next]_ivars

===============================================================================
