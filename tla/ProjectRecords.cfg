\* Two requests of any kind on two projects and a saved query, with failures.
SPECIFICATION Spec
CONSTANTS
  Half = 8
  DefaultLimit = 2
  MaxLimit = 3
  Unset = Unset
  p = p  q = q  s = s
  Requests = {r1, r2}
  Projects = {p, q}
  Old = {s}
  Values = {"a", "b"}
  Patches <- FourPatches
  Stored <- TwoProjects
  Past <- TwoQueries
  Listings <- Pages
  Operations = {"create", "update", "delete", "get", "list", "history", "audits"}
  MaxHistory = 3
  Faults = TRUE
  Null = Null
  Keep = Keep
  Absent = Absent
SYMMETRY RecordsSymmetry
INVARIANTS
  TypeOK
  UpdateHolds
PROPERTIES
  AnswersExplained
  PageExplained
  ImplementsAuditTrail
