---------------------------- MODULE InvestigateMC ----------------------------
(* Instances of Investigate: the routes of a small model-routes.yaml and   *)
(* the options the runs are given.                                         *)
EXTENDS Investigate, TLC

CONSTANT dx      \* the directory --run-dir names

Order == <<"openai", "ollama">>
CloudRoutes == {"openai"}
LocalDefault == "ollama"
CloudDefault == "openai"
UnsetRoute == ""

Plain ==
  [mode |-> "local-only", class |-> "sensitive", route |-> "", ack |-> FALSE,
   subscription |-> "ready", evtx |-> FALSE, force |-> FALSE,
   noVerify |-> FALSE, explicit |-> None]

\* Everything the gates look at, on a run that ends with its agent.
GateOptions ==
  {[Plain EXCEPT !.mode = m, !.class = k, !.route = r, !.ack = a,
                 !.subscription = s, !.noVerify = TRUE] :
     m \in PrivacyModes, k \in {"public", "sensitive"},
     r \in {"", "openai", "ollama", "typo"}, a \in BOOLEAN, s \in Subscriptions}

\* Everything the rest of the run looks at, once through the gates.
FlowOptions ==
  {[Plain EXCEPT !.evtx = TRUE, !.force = f, !.noVerify = n, !.explicit = x] :
     f \in BOOLEAN, n \in BOOLEAN, x \in {None, dx}}
  \cup {[Plain EXCEPT !.mode = "cloud-ok", !.class = "public", !.ack = TRUE,
                     !.evtx = TRUE]}

AllOptions == GateOptions \cup FlowOptions

\* Runs are alike, and so are directories nobody names.
Same == Permutations(Runs) \cup Permutations(Dirs)

\* Runs without flags over EVTX evidence: the engine first, the agent when it
\* fails, a second session, the engine again.
LocalOptions == {[Plain EXCEPT !.evtx = TRUE]}
=============================================================================
