CONSTANTS
  Clients = {k1}
  Plan <- DefaultPlan
  MaxConnections = 1
  MaxWire = 9
SPECIFICATION Spec
INVARIANTS ReliableInSequence
CHECK_DEADLOCK FALSE
