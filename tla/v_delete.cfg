CONSTANTS
  a = a  b = b  tgt = tgt  k1 = k1  k2 = k2  v1 = v1  v2 = v2
  ES = {a}
  Secrets = {tgt}
  Keys = {k1}
  Vals = {v1}
  Absent = Absent
  NoValue = NoValue
  NoOwner = NoOwner
  Other = Other
  Target <- OneTarget
  SpecsOf <- DeleteSpecs
  Accesses = {"ok"}
  Workers = 1
  MaxRev = 1
  MaxEnv = 1
  MaxFaults = 0
SPECIFICATION Spec
PROPERTIES DeletesOnlyOwned
CHECK_DEADLOCK FALSE
