------------------------------ MODULE GraphEdits ------------------------------
(***************************************************************************)
(* A task graph edited through its public methods: the mutations a planner *)
(* asks for (BoundedReplanner.apply_mutations turns every rejected one     *)
(* into a warning, so a step is taken only when the method accepts it) and *)
(* the marks the scheduler and the workers set.                            *)
(***************************************************************************)
EXTENDS TaskGraph

CONSTANTS ForwardReferences,  \* add_task is given ids that do not exist yet
          StartBound          \* bound of the model: attempts started per task

ASSUME EditsAssumption == ForwardReferences \in BOOLEAN /\ StartBound \in Nat

VARIABLE graph

Init == graph = [t \in {} |-> NewNode({})]

Add(t) ==
    /\ CanAddTask(graph, t)
    /\ \E D \in SUBSET (IF ForwardReferences THEN Task ELSE DOMAIN graph) :
          graph' = AddTask(graph, t, NewNode(D))

Depend(t, d) ==
    /\ CanAddDependency(graph, t, d)
    /\ graph' = AddDependency(graph, t, d)

Remove(t) ==
    /\ CanRemoveTask(graph, t)
    /\ graph' = RemoveTask(graph, t)

\* A planner supersedes by a task of the graph or drops the task (None).
Supersede(t, r) ==
    /\ t \in DOMAIN graph
    /\ r \in DOMAIN graph \cup {NoTask}
    /\ graph' = SupersedeTask(graph, t, r)

Ready(t) ==
    /\ t \in DOMAIN graph
    /\ graph[t].status \notin {"SUCCEEDED", "SUPERSEDED", "CANCELLED"}
    /\ graph' = MarkReady(graph, t)

Run(t) ==
    /\ t \in ReadyTasks(graph)
    /\ graph[t].attempt < StartBound
    /\ \E a \in Actor : graph' = MarkRunning(graph, t, a)

Finish(t) ==
    /\ t \in WithStatus(graph, {"RUNNING"})
    /\ \/ graph' = MarkSuccess(graph, t)
       \/ graph' = MarkFailure(graph, t)

Block(t) ==
    /\ t \in ReadyTasks(graph)
    /\ graph' = MarkBlocked(graph, {t})

Cancel(t) ==
    /\ t \in WithStatus(graph, {"PENDING", "READY", "RUNNING"})
    /\ graph' = MarkCancelled(graph, t)

Next == \/ \E t \in Task : Add(t) \/ Remove(t) \/ Ready(t) \/ Run(t)
                              \/ Finish(t) \/ Block(t) \/ Cancel(t)
        \/ \E t, d \in Task : Depend(t, d)
        \/ \E t \in Task, r \in Task \cup {NoTask} : Supersede(t, r)

Spec == Init /\ [][Next]_graph

----------------------------------------------------------------------------
(* Properties *)

\* Every node of the graph is a well-formed TaskNode.
TypeOK == IsGraph(graph)

\* No dependency cycle: every nonempty set of tasks has a member that depends
\* on no member of the set (add_dependency refuses the edge that closes one).
Acyclic == \A S \in SUBSET DOMAIN graph :
              S # {} => \E t \in S : graph[t].deps \cap S = {}

\* A dependency always names a task of the graph: remove_task refuses a task
\* others depend on, add_dependency one that is not there.
NoDanglingDependency == \A t \in DOMAIN graph : graph[t].deps \subseteq DOMAIN graph

\* While nothing failed, was cancelled or replaced, a graph never deadlocks:
\* some task runs or may run until all have succeeded.  This is what lets
\* the engine treat a stalled graph as the consequence of a failure.
Undisturbed == WithStatus(graph, {"FAILED", "BLOCKED", "CANCELLED", "SUPERSEDED"}) = {}
NoSpuriousDeadlock ==
    Undisturbed /\ DOMAIN graph # {} => HasActiveTasks(graph) \/ AllCompleted(graph)
=============================================================================
