CONSTANTS
  a = a  b = b  tgt = tgt  k1 = k1  k2 = k2  v1 = v1  v2 = v2
  ES = {a}
  Secrets = {tgt}
  Keys = {k1, k2}
  Vals = {v1}
  Absent = Absent
  NoValue = NoValue
  NoOwner = NoOwner
  Other = Other
  Target <- OneTarget
  SpecsOf <- PolicySpecs
  Accesses = {"ok", "failing", "foreign"}
  Workers = 1
  MaxRev = 2
  MaxEnv = 2
  MaxFaults = 1
SPECIFICATION Spec
INVARIANTS TypeOK DeleteJustified SyncedRevisionApplied
CHECK_DEADLOCK FALSE
