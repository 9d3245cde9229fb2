SPECIFICATION Spec
CONSTANTS
  Runs = {r1, r2}
  dx = none
  Dirs = {c1, c2}
  None = none
  Results = {}
  Options <- LocalOptions
  RouteOrder <- Order
  Cloud <- CloudRoutes
  SensitiveDefault <- LocalDefault
  OrdinaryDefault <- CloudDefault
  NoRoute <- UnsetRoute
INVARIANT ZeroIsOwnCase
CHECK_DEADLOCK FALSE
