CONSTANTS
    t1 = t1
    t2 = t2
    c1 = c1
    f1 = f1
    f2 = f2
    f3 = f3
    d1 = d1
    d2 = d2
    a1 = a1
    a2 = a2
    Task = {t1, c1, f1, f2, d1, d2}
    NoTask = NoTask
    Actor = {a1, a2}
    NoActor = NoActor
    MaxAttempts = 2
    Slot = {1, 2}
    CanDo <- AllCan
    Verifier = {c1, d1, d2}
    AvoidActors <- NoAvoids
    Outcomes <- Checked
    ConcurrencyLimit = 1
    ActorLimit = 1
    FaultBound = 0
    InitialDeps <- BuildCheck
    MaxReplans = 1
    MaxRepairs = 1
    MaxTasks = 6
    HasPlanner = TRUE
    VerdictRepairs = TRUE
    Verdicts = {"pass", "env", "repairable", "hard"}
    Recommends = {TRUE, FALSE}
    HealthEvents = {}
    Controls = {}
SPECIFICATION Spec
INVARIANTS BudgetsRespected ConcurrencyRespected CompletedMeansDone
PROPERTY SupersededStays
SYMMETRY AddedTasks
