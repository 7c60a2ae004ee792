\* A query whose COMMIT fails.
SPECIFICATION Spec
CONSTANTS
  p1 = p1  p2 = p2  s1 = s1  s2 = s2  s3 = s3
  Projects = {p1}
  Schemas = {s1}
  Requests = {r1}
  Home <- OneHome
  NextCandidate <- OneName
  TooLong = {}
  Operations = {"CreateSchema"}
  Faults = TRUE
  Absent = Absent  NoRole = NoRole  Legacy = Legacy
INVARIANTS
  QuerySuccessMeansCommitted
