CONSTANTS
  w1 = w1  w2 = w2  s1 = s1  s2 = s2
  Workers = {w1, w2}
  Stores = {s1, s2}
  Modes = {"vault", "aws", "yandex"}
  Auths = {"login", "referent", "batch", "static"}
  Roles <- RoleChain
  CacheSize = 1
  Lifetime = 1
  TTL = 3
  MaxRuns = 3
  MaxEdits = 1
  MaxFaults = 1
  MaxTime = 6
SPECIFICATION Spec
INVARIANT OwnSession
INVARIANT TokensAccounted
INVARIANT TokenValid
INVARIANT ActsInRole
SYMMETRY Interchangeable
CHECK_DEADLOCK FALSE
