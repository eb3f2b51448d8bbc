CONSTANTS
  a = a  b = b  tgt = tgt  k1 = k1  k2 = k2  v1 = v1  v2 = v2
  ES = {a}
  Secrets = {tgt}
  Keys = {k1}
  Vals = {v1, v2}
  Absent = Absent
  NoValue = NoValue
  NoOwner = NoOwner
  Other = Other
  Target <- OneTarget
  SpecsOf <- RefreshSpecs
  Accesses = {"ok", "failing"}
  Workers = 1
  MaxRev = 2
  MaxEnv = 2
  MaxFaults = 1
SPECIFICATION FairSpec
PROPERTIES Converges Repaired NoDanglingSecret
CHECK_DEADLOCK FALSE
