SPECIFICATION FairSpec
CONSTANTS
  Runs = {r1}
  dx = dx
  Dirs = {c1, c2, dx}
  None = none
  Results = {"no"}
  Options <- AllOptions
  RouteOrder <- Order
  Cloud <- CloudRoutes
  SensitiveDefault <- LocalDefault
  OrdinaryDefault <- CloudDefault
  NoRoute <- UnsetRoute
INVARIANTS TypeOK EgressNeedsConsent FallbackIsRecorded
PROPERTIES EveryRunEnds
CHECK_DEADLOCK FALSE
