\* Five requests on one project, none failing: a role outlives its project only
\* for a reason, and every run is a behaviour of ProjectStore.  Four requests are
\* too few for the longest of those reasons: a delete, the reset it overlaps, and
\* the CREATE SCHEMA that brings back the name the delete had not found.
SPECIFICATION Spec
CONSTANTS
  p1 = p1  p2 = p2  s1 = s1  s2 = s2  s3 = s3
  Projects = {p1}
  Schemas = {s1}
  Requests = {r1, r2, r3, r4, r5}
  Home <- OneHome
  NextCandidate <- OneName
  TooLong = {}
  Operations = {"delete", "reset", "CreateSchema", "RevokeConnect"}
  Faults = FALSE
  Absent = Absent  NoRole = NoRole  Legacy = Legacy
SYMMETRY RequestSymmetry
INVARIANTS
  RolesExplained
PROPERTIES
  ImplementsStore
