CONSTANTS
  s1 = s1  s2 = s2  k1 = k1  k2 = k2  v1 = v1  v2 = v2
  Absent = Absent
  Foreign = Foreign
  Stores = {s1, s2}
  Keys = {k1, k2}
  Vals = {v1}
  Specs <- EditedSpecs
  CanRestart = TRUE
  MaxEnv = 3
  MaxFaults = 1
SPECIFICATION FairSpec
INVARIANTS TypeOK PartialPushTracked
PROPERTIES FinalizerHolds Converges DeletionCompletes
CHECK_DEADLOCK FALSE
