\* Any two operations, with every kind of configuration, while users are added.
SPECIFICATION Spec
CONSTANTS
  Requests = {r1, r2}
  Users = {u1, u2}
  Flags = {"b"}
  Texts = {"t"}
  Configs <- AllConfigs
  Operations = {"put", "ban", "unban", "reset", "delete", "config", "get", "list", "export"}
  MaxRows = 1
  PageLimit = 1
  Faults = TRUE
  Absent = Absent
SYMMETRY UsersSymmetry
INVARIANTS
  TypeOK
  AnswersHold
  DeletedOnce
  ErrorExplained
PROPERTIES
  CutOffExplained
  ImplementsAuditTrail
