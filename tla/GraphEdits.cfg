CONSTANTS
    Task = {t1, t2, t3}
    NoTask = NoTask
    Actor = {a1}
    NoActor = NoActor
    MaxAttempts = 2
    ForwardReferences = FALSE
    StartBound = 2
SPECIFICATION Spec
INVARIANTS TypeOK Acyclic NoDanglingDependency NoSpuriousDeadlock
