SPECIFICATION Spec
CONSTANTS
  QUEUE = 2
  MaxServers = 2
  Fault = {"INT", "KILL"}
INVARIANTS
  RequestsAccounted
  HandlerCleansUp
PROPERTIES
  ClientFollows
CHECK_DEADLOCK FALSE
