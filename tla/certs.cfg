SPECIFICATION FairSpec
CONSTANTS
  c1 = c1
  c2 = c2
  Crds <- MCCrds
  CAIds <- MCCAIds
  Validity = 2
  MaxTime = 3
  MaxTroubles = 1
INVARIANT Agreement
INVARIANT NeverServesExpired
PROPERTY GoodCAKept
PROPERTY Converges
