CONSTANTS
  a = a  b = b  n1 = n1  n2 = n2  la = la  lb = lb  x1 = x1  t1 = t1  t2 = t2
  UserSpec = UserSpec
  NoOwner = NoOwner
  NoNS = NoNS
  Stranger = Stranger
  CES = {a}
  NS = {n1}
  Labels = {la}
  Names = {x1}
  Templates = {t1, t2}
  UserOwners = {NoOwner, Stranger}
  SpecsOf <- EditedSpecs
  Workers = 1
  CanRestart = TRUE
  MaxEnv = 3
  MaxFaults = 1
SPECIFICATION FairSpec
INVARIANTS TypeOK
PROPERTIES OwnerNeverChanges AllProvisioned 
CHECK_DEADLOCK FALSE
