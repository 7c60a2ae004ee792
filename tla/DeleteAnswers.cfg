\* A delete without failures: the answer of DELETE /api/projects/:id.
SPECIFICATION Spec
CONSTANTS
  p1 = p1  p2 = p2  s1 = s1  s2 = s2  s3 = s3
  Projects = {p1}
  Schemas = {s1}
  Requests = {r1}
  Home <- OneHome
  NextCandidate <- OneName
  TooLong = {}
  Operations = {"delete"}
  Faults = FALSE
  Absent = Absent  NoRole = NoRole  Legacy = Legacy
INVARIANTS
  DeleteReturnsNoContent
