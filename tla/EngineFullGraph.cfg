CONSTANTS
    t1 = t1
    t2 = t2
    c1 = c1
    f1 = f1
    f2 = f2
    f3 = f3
    d1 = d1
    d2 = d2
    a1 = a1
    a2 = a2
    Task = {t1, t2, f1}
    NoTask = NoTask
    Actor = {a1, a2}
    NoActor = NoActor
    MaxAttempts = 2
    Slot = {1, 2}
    CanDo <- AllCan
    Verifier = {}
    AvoidActors <- NoAvoids
    Outcomes <- Plain
    ConcurrencyLimit = 2
    ActorLimit = 1
    FaultBound = 0
    InitialDeps <- Fork
    MaxReplans = 1
    MaxRepairs = 1
    MaxTasks = 2
    HasPlanner = TRUE
    VerdictRepairs = FALSE
    Verdicts = {"pass", "env", "repairable", "hard"}
    Recommends = {FALSE}
    HealthEvents = {}
    Controls = {}
SPECIFICATION Spec
INVARIANT CompletedMeansDone
