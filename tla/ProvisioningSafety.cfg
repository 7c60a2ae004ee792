\* Three concurrent requests of any kind on one project, with failures.
SPECIFICATION Spec
CONSTANTS
  p1 = p1  p2 = p2  s1 = s1  s2 = s2  s3 = s3
  Projects = {p1}
  Schemas = {s1, s2}
  Requests = {r1, r2, r3}
  Home <- OneHome
  NextCandidate <- TwoNames
  TooLong = {}
  Operations = {"create", "delete", "reset", "info", "CreateSchema", "DropSchema", "RevokeConnect"}
  Faults = TRUE
  Absent = Absent  NoRole = NoRole  Legacy = Legacy
SYMMETRY RequestSymmetry
INVARIANTS
  TypeOK
  CredentialsInSync
  AnswersAccounted
  ResetHolds
  NoWaitCycle
  CreateNeverCommits
PROPERTIES
  DeletesExplained
