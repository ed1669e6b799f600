CONSTANTS
  SentWindow = 2
  MaxSessions = 2
  MaxRequests = 2
  Kinds = {"open", "echo", "info", "close", "other"}
SPECIFICATION FairSpec
INVARIANTS TypeOK
PROPERTIES ImplementsChannel PushesWhenDrained CatchesUp InfoArrives
CHECK_DEADLOCK FALSE
