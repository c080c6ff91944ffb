CONSTANTS
    t1 = t1
    t2 = t2
    c1 = c1
    f1 = f1
    f2 = f2
    f3 = f3
    d1 = d1
    d2 = d2
    a1 = a1
    a2 = a2
    Task = {t1, t2, f1, f2, f3}
    NoTask = NoTask
    Actor = {a1, a2}
    NoActor = NoActor
    MaxAttempts = 2
    Slot = {1, 2}
    CanDo <- Scarce
    Verifier = {}
    AvoidActors <- NoAvoids
    Outcomes <- Discover
    ConcurrencyLimit = 2
    ActorLimit = 2
    FaultBound = 2
    InitialDeps <- Fork
    MaxReplans = 2
    MaxRepairs = 1
    MaxTasks = 6
    HasPlanner = TRUE
    VerdictRepairs = FALSE
    Verdicts = {"pass", "env", "repairable", "hard"}
    Recommends = {FALSE}
    HealthEvents = {"up"}
    Controls = {}
SPECIFICATION Spec
INVARIANT FollowUpsHeard
