\* Two requests of any kind on a pool of two connections, with failures.
SPECIFICATION FairSpec
CONSTANTS
  Requests = {r1, r2}
  Connections = {c1, c2}
  Operations = {"list", "info", "delete", "reset", "query"}
  OperatorSql = {"plain", "invalid", "SET", "COMMIT"}
  Faults = TRUE
INVARIANTS
  TypeOK
  SessionsStayApart
PROPERTIES
  EveryRequestEnds
