SPECIFICATION RouterSpec
CONSTANTS
  Queries <- MCQueries
  PollEvery = 2
  None = None
INVARIANTS
  RouteIsCheapest
  RouteIsDrivable
  RoadsideIsRouted
  RecoveredRouteAgrees
PROPERTIES
  PlanEnds
CHECK_DEADLOCK FALSE
