\* Two requests, a server that restarts with other environments, and a clock.
SPECIFICATION GuardedSpec
CONSTANTS
  Configs <- Environments
  Attempts <- Typed
  j1 = j1  j2 = j2  k1 = k1  k2 = k2  short = short
  TooShort = {short}
  MinPassword = 2
  Lifetime = 2
  Leeway = 1
  MaxTime = 4
  MaxLogins = 1
  Down = Down
  Requests = {r1, r2}
  Keys <- KeysThatStart
  Old = {o}
  Projects = {p}
  Operations = {"create", "reveal", "delete", "list"}
  Faults = TRUE
  None = None
SYMMETRY SecretsSymmetry
INVARIANTS
  TypeOK
  PlaintextTraceable
  SecretHolds
  DeleteIsFinal
PROPERTIES
  TokenLife
  AnswersExplained
  ImplementsAuditTrail
