SPECIFICATION Spec
CONSTANTS
    k1 = k1
    k2 = k2
    k3 = k3
    Keys <- MCKeys
    Matching <- MCMatching
    Clashing <- MCClashing
    FirstPage <- MCFirstPage
    Main = k1
    Providers <- AllProviders
    MaxFaults = 1
    MaxEdits = 1
    MaxOps = 2
INVARIANT FindComplete
INVARIANT RetryPossible
PROPERTY KeepsPromise
CHECK_DEADLOCK FALSE
INVARIANT AbsenceJustified
INVARIANT ResultsJustified
INVARIANT WritesEffective
