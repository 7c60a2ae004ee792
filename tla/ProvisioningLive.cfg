\* Every request ends, without any help from time-outs.
SPECIFICATION FairSpec
CONSTANTS
  p1 = p1  p2 = p2  s1 = s1  s2 = s2  s3 = s3
  Projects = {p1, p2}
  Schemas = {s1, s2, s3}
  Requests = {r1, r2}
  Home <- TwoHomes
  NextCandidate <- ThreeNames
  TooLong = {}
  Operations = {"create", "delete", "reset", "info", "CreateSchema", "DropSchema", "RevokeConnect"}
  Faults = TRUE
  Absent = Absent  NoRole = NoRole  Legacy = Legacy
PROPERTIES
  EveryRequestEnds
