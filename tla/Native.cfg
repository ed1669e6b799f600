CONSTANTS
  Clients = {k1}
  Plan <- DefaultPlan
  MaxConnections = 3
  MaxWire = 9
SPECIFICATION FairSpec
INVARIANTS CounterSequence OwnConnection PlanOrder MapLoadWaits
PROPERTIES StopReturns WaitEnds
CHECK_DEADLOCK FALSE
