---------------------------- MODULE PrivacyRouter ----------------------------
(***************************************************************************)
(* Which model route an investigation may use (caseforge-sdk/privacy.ts,   *)
(* and the selection of investigate.ts over configs/model-routes.yaml).    *)
(*                                                                         *)
(* A route is a name; what the router looks at is its location and the     *)
(* answer of its subscription check.  An option record holds what the      *)
(* operator passed: mode, class, route, ack.                               *)
(***************************************************************************)
EXTENDS Naturals, Sequences, SequencesExt

CONSTANTS
  RouteOrder,        \* the ids of model-routes.yaml, in file order
  Cloud,             \* those whose privacy_locations include "cloud"
  SensitiveDefault,  \* routing_policy.sensitive_default
  OrdinaryDefault,   \* routing_policy.non_sensitive_default
  NoRoute

Routes == {RouteOrder[i] : i \in DOMAIN RouteOrder}

ASSUME RoutingAssumption ==
  /\ Cloud \subseteq Routes
  /\ SensitiveDefault \in Routes /\ OrdinaryDefault \in Routes
  /\ NoRoute \notin Routes

\* The command line takes any string: "other" is a mode the router has not
\* heard of.
PrivacyModes == {"local-only", "redacted-cloud", "cloud-ok", "other"}
EvidenceClasses == {"synthetic", "public", "approved", "sensitive"}
OpenClasses == EvidenceClasses \ {"sensitive"}
Subscriptions == {"ready", "missing", "mismatched"}

\* Mutant: cloud-ok forgets to look at the evidence class.
CloudOkForAll(route, mode, class) == route \notin Cloud \/ mode = "cloud-ok"

\* decideModel as investigate calls it: never with redacted content.
DecideModel(route, mode, class) ==
  \/ route \notin Cloud
  \/ mode = "cloud-ok" /\ class \in OpenClasses

IsRouteAllowed(route, o) == route \in Routes /\ DecideModel(route, o.mode, o.class)

PolicyDefault(o) ==
  IF o.class = "sensitive" THEN SensitiveDefault ELSE OrdinaryDefault

ChooseRoute(o) ==
  LET allowed == SelectSeq(RouteOrder, LAMBDA r : IsRouteAllowed(r, o))
  IN  CASE o.route # NoRoute                  -> o.route
        [] o.route = NoRoute /\ IsRouteAllowed(PolicyDefault(o), o)
                                              -> PolicyDefault(o)
        [] OTHER -> IF allowed = <<>> THEN NoRoute ELSE Head(allowed)

CloudAckGate(route, ack) == route \notin Cloud \/ ack

\* The gates of investigate in their order: 0 to go on, else the exit code.
Gates(o) ==
  LET route == ChooseRoute(o)
  IN  IF route = NoRoute THEN 1
      ELSE IF route \notin Routes THEN 2
      ELSE IF ~DecideModel(route, o.mode, o.class) THEN 1
      ELSE IF ~CloudAckGate(route, o.ack) THEN 1
      ELSE IF o.subscription = "mismatched" THEN 2
      ELSE IF o.subscription = "missing" THEN 1
      ELSE 0
=============================================================================
