\* Creates without failures: the answer of POST /api/projects.
SPECIFICATION Spec
CONSTANTS
  p1 = p1  p2 = p2  s1 = s1  s2 = s2  s3 = s3
  Projects = {p1}
  Schemas = {s1, s2}
  Requests = {r1, r2}
  Home <- OneHome
  NextCandidate <- TwoNames
  TooLong = {}
  Operations = {"create"}
  Faults = FALSE
  Absent = Absent  NoRole = NoRole  Legacy = Legacy
INVARIANTS
  CreateReturnsCreated
