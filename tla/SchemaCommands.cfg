\* Any two operations on an empty or a filled project, with inserts and failures.
SPECIFICATION Spec
CONSTANTS
  Requests = {r1, r2}
  Commands <- AllCommands
  Catalogs <- BothCatalogs
  Tables = {"a", "b", "c"}
  Columns = {"x", "y"}
  Types = {"int", "text"}
  Names = {"f", "k", "n"}
  RowIds = {1, 2, 3}
  Faults = TRUE
  None = None
SYMMETRY SchemaSymmetry
INVARIANTS
  TypeOK
  DdlHolds
  RowDeletedOnce
PROPERTIES
  ReadingsExplained
  ImplementsAuditTrail
