\* Two projects are created with any of 88 names, beside those of before.
SPECIFICATION Spec
CONSTANTS
  Names <- Some
  Former <- Before
  Prefix <- P
  RoleSuffix <- U
  Unnamed <- U
  Keep = 4
  MaxIdent = 8
  MaxCreates = 2
INVARIANTS
  TypeOK
  SlugExact
PROPERTIES
  RefusalsExplained
  ProbingEnds
