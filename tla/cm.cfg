CONSTANTS
  p1 = p1  p2 = p2  g1 = g1  g2 = g2  x1 = x1  AWS = AWS
  GCP = GCP
  None = None
  Procs = {p1, p2}
  Stores = {g1, g2, x1}
  Types = {GCP, AWS}
  TypeOf <- MCTypeOf
  MaxRefs = 2
  MaxEdits = 1
  Referent = {p1}
SPECIFICATION FairSpec
INVARIANTS TypeOK OneConnection NothingLeftOpen ClosedOnce
PROPERTIES EveryReconcileEnds
CHECK_DEADLOCK FALSE
