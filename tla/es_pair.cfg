CONSTANTS
  a = a  b = b  tgt = tgt  k1 = k1  k2 = k2  v1 = v1  v2 = v2
  ES = {a, b}
  Secrets = {tgt}
  Keys = {k1, k2}
  Vals = {v1}
  Absent = Absent
  NoValue = NoValue
  NoOwner = NoOwner
  Other = Other
  Target <- OneTarget
  SpecsOf <- PairSpecs
  Accesses = {"ok"}
  Workers = 2
  MaxRev = 1
  MaxEnv = 1
  MaxFaults = 0
SPECIFICATION PairSpec
PROPERTIES OwnerRespected MergeConverges
CHECK_DEADLOCK FALSE
