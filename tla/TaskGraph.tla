------------------------------ MODULE TaskGraph ------------------------------
(***************************************************************************)
(* The dependency graph of one job (runtime/task_graph.py): the queries    *)
(* the engine and the scheduler take their decisions from, and the edits   *)
(* that change a node.  A graph is a function from the identifiers of the  *)
(* tasks it holds to node records, so every operator takes the graph as    *)
(* its first argument and the modules that own a graph keep it in a        *)
(* variable of theirs.                                                     *)
(***************************************************************************)
EXTENDS Naturals, FiniteSets

CONSTANTS Task,         \* every task identifier a job may ever use
          NoTask,       \* superseded_by = None
          Actor,        \* agents a task can be assigned to
          NoActor,      \* assigned_actor = None
          MaxAttempts   \* max_attempts of every node (limits.max_task_attempts)

ASSUME GraphAssumption == /\ NoTask \notin Task
                          /\ NoActor \notin Actor
                          /\ MaxAttempts \in Nat \ {0}

TaskStatus == {"PENDING", "READY", "RUNNING", "SUCCEEDED",
               "FAILED", "BLOCKED", "CANCELLED", "SUPERSEDED"}

TaskNode == [status  : TaskStatus,
             deps    : SUBSET Task,
             by      : Task \cup {NoTask},     \* superseded_by
             attempt : Nat,
             actor   : Actor \cup {NoActor}]   \* assigned_actor

IsGraph(g) == DOMAIN g \subseteq Task /\ g \in [DOMAIN g -> TaskNode]

NewNode(deps) == [status |-> "PENDING", deps |-> deps, by |-> NoTask,
                  attempt |-> 0, actor |-> NoActor]

WithStatus(g, S) == {t \in DOMAIN g : g[t].status \in S}

----------------------------------------------------------------------------
(* Queries *)

\* A set of tasks that holds the dependencies of each of its members.
Closed(g, S) == \A t \in S \cap DOMAIN g : g[t].deps \subseteq S

\* _has_path: b lies in the least set that holds a and is closed under
\* dependencies, which is what the breadth-first search visits.
HasPath(g, a, b) == \A S \in SUBSET Task : a \in S /\ Closed(g, S) => b \in S

\* A set of tasks that holds what replaced each of its members.
ClosedUnderReplacement(g, S) ==
    \A t \in S \cap WithStatus(g, {"SUPERSEDED"}) : g[t].by \in S \cup {NoTask}

\* A task nobody waits for: it SUCCEEDED, or was superseded by nothing.
Settled(g, t) == \/ g[t].status = "SUCCEEDED"
                 \/ g[t].status = "SUPERSEDED" /\ g[t].by = NoTask

\* _dependency_done: following superseded_by from d ends at a settled task.
\* As in HasPath, the least closed set that holds d is what the walk visits,
\* and a settled task can only be the last of it.
DependencyDone(g, d) ==
    \E t \in DOMAIN g :
        /\ Settled(g, t)
        /\ \A S \in SUBSET Task : d \in S /\ ClosedUnderReplacement(g, S) => t \in S

\* Mutants of ReadyTasks: a superseded task is not filtered out; a dependency
\* about to be retried counts as done; a task to be retried is forgotten.
ReadyByExclusion(g) ==
    {t \in DOMAIN g \ WithStatus(g, {"RUNNING", "SUCCEEDED", "FAILED", "BLOCKED", "CANCELLED"}) :
        \A d \in g[t].deps : DependencyDone(g, d)}
ReadyTooEarly(g) ==
    {t \in WithStatus(g, {"PENDING", "READY"}) :
        \A d \in g[t].deps : d \notin WithStatus(g, {"PENDING", "RUNNING"})}
ReadyForgetsRetries(g) ==
    {t \in WithStatus(g, {"PENDING"}) : \A d \in g[t].deps : DependencyDone(g, d)}

ReadyTasks(g) ==
    {t \in DOMAIN g :
        \/ g[t].status = "READY"
        \/ g[t].status = "PENDING" /\ \A d \in g[t].deps : DependencyDone(g, d)}

HasRunningTasks(g) == WithStatus(g, {"RUNNING"}) # {}

\* Mutant of AllCompleted: a blocked task does not count either.
AllCompletedLenient(g) ==
    LET counted == DOMAIN g \ WithStatus(g, {"SUPERSEDED", "CANCELLED", "BLOCKED"})
    IN counted # {} /\ \A t \in counted : g[t].status = "SUCCEEDED"

\* is_all_completed: superseded and cancelled tasks do not count.
AllCompleted(g) ==
    LET counted == DOMAIN g \ WithStatus(g, {"SUPERSEDED", "CANCELLED"})
    IN counted # {} /\ \A t \in counted : g[t].status = "SUCCEEDED"

HasActiveTasks(g) == HasRunningTasks(g) \/ ReadyTasks(g) # {}

\* Mutant of IsStalled: a blocked task is taken for a finished one.
StalledIgnoringBlocked(g) ==
    /\ ~HasActiveTasks(g)
    /\ DOMAIN g \ WithStatus(g, {"SUCCEEDED", "SUPERSEDED", "CANCELLED", "BLOCKED"}) # {}

IsStalled(g) ==
    /\ ~HasActiveTasks(g)
    /\ ~AllCompleted(g)
    /\ DOMAIN g \ WithStatus(g, {"SUCCEEDED", "SUPERSEDED", "CANCELLED"}) # {}

----------------------------------------------------------------------------
(* Edits.  CanX is the condition under which the method does not raise.     *)

CanAddTask(g, t) == t \notin DOMAIN g
AddTask(g, t, node) ==
    [u \in DOMAIN g \cup {t} |-> IF u = t THEN node ELSE g[u]]

\* Mutant of CanAddDependency: reachability checked in the wrong direction.
CanAddBackwards(g, t, d) == t \in DOMAIN g /\ d \in DOMAIN g /\ t # d /\ ~HasPath(g, t, d)

CanAddDependency(g, t, d) == /\ t \in DOMAIN g
                             /\ d \in DOMAIN g
                             /\ t # d
                             /\ ~HasPath(g, d, t)
AddDependency(g, t, d) == [g EXCEPT ![t].deps = @ \cup {d}]

\* Mutant of CanRemoveTask: only the dependents that run are asked.
CanRemoveUnlessRunning(g, t) ==
    t \in DOMAIN g /\ \A u \in WithStatus(g, {"RUNNING"}) : t \notin g[u].deps

CanRemoveTask(g, t) == /\ t \in DOMAIN g
                       /\ \A u \in DOMAIN g : t \notin g[u].deps
RemoveTask(g, t) == [u \in DOMAIN g \ {t} |-> g[u]]

MarkReady(g, t) ==
    IF g[t].status \in {"SUCCEEDED", "SUPERSEDED", "CANCELLED"}
    THEN g ELSE [g EXCEPT ![t].status = "READY"]

\* Starts an attempt whatever the task's status is.
MarkRunning(g, t, a) == [g EXCEPT ![t].status = "RUNNING",
                                  ![t].actor = a,
                                  ![t].attempt = @ + 1]

MarkSuccess(g, t) == [g EXCEPT ![t].status = "SUCCEEDED"]

\* Mutant of MarkFailure: one attempt too many.
MarkFailureLate(g, t) ==
    [g EXCEPT ![t].status = IF g[t].attempt <= MaxAttempts THEN "READY" ELSE "FAILED"]

\* mark_failure with allow_retry: another attempt while the budget lasts.
MarkFailure(g, t) ==
    [g EXCEPT ![t].status = IF g[t].attempt < MaxAttempts THEN "READY" ELSE "FAILED"]

MarkBlocked(g, T) == [u \in DOMAIN g |-> IF u \in T THEN [g[u] EXCEPT !.status = "BLOCKED"]
                                                     ELSE g[u]]

MarkCancelled(g, t) == [g EXCEPT ![t].status = "CANCELLED"]

\* Mutant of SupersedeTask: the two values stored the other way round.
SupersedeSwapped(g, t, r) == [g EXCEPT ![t].status = r, ![t].by = "SUPERSEDED"]

SupersedeTask(g, t, r) == [g EXCEPT ![t].status = "SUPERSEDED", ![t].by = r]
=============================================================================
