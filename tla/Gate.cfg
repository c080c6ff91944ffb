CONSTANTS
    FailureThreshold = 3
    ProbeLimit = 1
    Job = {j1, j2}
    Provider = {p1, p2}
    TasksPerJob = 2
    FailBound = 4
SPECIFICATION Spec
INVARIANTS TypeOK TrialsBounded
 
