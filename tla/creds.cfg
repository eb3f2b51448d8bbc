SPECIFICATION Spec
CONSTANTS
    Workers <- MCWorkers
    AuthProviders <- AllAuth
INVARIANT Confined
INVARIANT OwnCredentials
INVARIANT ReadyMeansUsable
INVARIANT AdmittedRuns
CHECK_DEADLOCK FALSE
