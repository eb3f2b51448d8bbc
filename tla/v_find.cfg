SPECIFICATION Spec
CONSTANTS
    k1 = k1
    k2 = k2
    k3 = k3
    Keys <- MCKeys
    Matching <- MCMatching
    Clashing <- MCClashing
    FirstPage <- MCFirstPage
    Main = k1
    Providers = {"awssm"}
    MaxFaults = 0
    MaxEdits = 1
    MaxOps = 2
CHECK_DEADLOCK FALSE
INVARIANT DeleteOnlyIfAllGone
