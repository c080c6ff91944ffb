--------------------------- MODULE GraphEdits_proofs ---------------------------
(***************************************************************************)
(* A task graph edited through its public methods stays well formed, for   *)
(* every set of tasks and actors; and as long as add_task is only given    *)
(* dependencies that exist, no edit closes a cycle or leaves a dependency  *)
(* dangling, so that a job where nothing failed cannot deadlock.           *)
(***************************************************************************)
EXTENDS GraphEdits, TaskGraph_proofs

----------------------------------------------------------------------------
(* Every step: the edits that change the shape are three *)

\* Every step keeps the graph well formed, and unless it adds or removes a task
\* or a dependency it leaves the shape alone.
LEMMA StepShape ==
    ASSUME GraphAssumption, TypeOK, Next
    PROVE  /\ TypeOK'
           /\ \/ \E t \in Task : Add(t)
              \/ \E t, d \in Task : Depend(t, d)
              \/ \E t \in Task : Remove(t)
              \/ SameShape(graph, graph')
  <1> USE DEF TypeOK
  <1>1. ASSUME NEW t \in Task, Add(t) PROVE TypeOK'
    <2>1. PICK D \in SUBSET Task : graph' = AddTask(graph, t, NewNode(D))
      BY <1>1 DEF Add, IsGraph
    <2> QED BY <2>1, NewNodeType, AddTaskType
  <1>2. ASSUME NEW t \in Task, Remove(t) PROVE TypeOK'
    BY <1>2 DEF Remove, RemoveTask, IsGraph
  <1>3. ASSUME NEW t \in Task, Ready(t) PROVE TypeOK' /\ SameShape(graph, graph')
    BY <1>3, StatusEdits DEF Ready, MarkReady, TaskStatus
  <1>4. ASSUME NEW t \in Task, Run(t) PROVE TypeOK' /\ SameShape(graph, graph')
    <2>1. t \in DOMAIN graph
      BY <1>4 DEF Run, ReadyTasks
    <2> QED BY <1>4, <2>1, StatusEdits DEF Run
  <1>5. ASSUME NEW t \in Task, Finish(t) PROVE TypeOK' /\ SameShape(graph, graph')
    <2>1. t \in DOMAIN graph
      BY <1>5 DEF Finish, WithStatus
    <2>2. PICK s \in TaskStatus : graph' = [graph EXCEPT ![t].status = s]
      BY <1>5 DEF Finish, MarkSuccess, MarkFailure, TaskStatus
    <2> QED BY <2>1, <2>2, StatusEdits
  <1>6. ASSUME NEW t \in Task, Block(t) PROVE TypeOK' /\ SameShape(graph, graph')
    BY <1>6, BlockType DEF Block
  <1>7. ASSUME NEW t \in Task, Cancel(t) PROVE TypeOK' /\ SameShape(graph, graph')
    <2>1. t \in DOMAIN graph
      BY <1>7 DEF Cancel, WithStatus
    <2> QED BY <1>7, <2>1, StatusEdits DEF Cancel, MarkCancelled, TaskStatus
  <1>8. ASSUME NEW t \in Task, NEW d \in Task, Depend(t, d) PROVE TypeOK'
    <2>1. t \in DOMAIN graph /\ graph[t] \in TaskNode
      BY <1>8 DEF Depend, CanAddDependency, IsGraph
    <2>2. [graph[t] EXCEPT !.deps = @ \cup {d}] \in TaskNode
      BY <2>1 DEF TaskNode
    <2>3. graph' = [graph EXCEPT ![t] = [graph[t] EXCEPT !.deps = @ \cup {d}]]
      BY <1>8, <2>1 DEF Depend, AddDependency, IsGraph, TaskNode
    <2> QED BY <2>1, <2>2, <2>3, ExceptType
  <1>9. ASSUME NEW t \in Task, NEW r \in Task \cup {NoTask}, Supersede(t, r)
        PROVE  TypeOK' /\ SameShape(graph, graph')
    BY <1>9, StatusEdits DEF Supersede
  <1> QED BY <1>1, <1>2, <1>3, <1>4, <1>5, <1>6, <1>7, <1>8, <1>9 DEF Next

\* The type invariant: whatever is added, linked, removed, superseded or
\* marked, every node stays a TaskNode with dependencies that are task ids.
THEOREM GraphTyped == Spec => []TypeOK
  <1>1. Init => TypeOK
    BY DEF Init, TypeOK, IsGraph
  <1>2. TypeOK /\ [Next]_graph => TypeOK'
    BY StepShape, GraphAssumption DEF TypeOK
  <1> QED BY <1>1, <1>2, PTL DEF Spec

----------------------------------------------------------------------------
(* Cycles and dangling dependencies.  Acyclic alone is not inductive: a     *)
(* node added later could close a cycle through a dependency that named it  *)
(* in advance, so the two are proved together.                              *)

ShapeInv == TypeOK /\ NoDanglingDependency /\ Acyclic

\* add_task: nothing depends on the new task yet, so it closes no cycle.
LEMMA AddKeepsShape ==
    ASSUME ShapeInv, ~ForwardReferences, NEW t \in Task, Add(t)
    PROVE  NoDanglingDependency' /\ Acyclic'
  <1>1. PICK D \in SUBSET DOMAIN graph : graph' = AddTask(graph, t, NewNode(D))
    BY DEF Add
  <1>2. /\ t \notin DOMAIN graph
        /\ DOMAIN graph' = DOMAIN graph \cup {t}
        /\ graph'[t].deps = D
        /\ \A u \in DOMAIN graph : graph'[u].deps = graph[u].deps
    BY <1>1 DEF Add, CanAddTask, AddTask, NewNode
  <1>3. NoDanglingDependency'
    BY <1>2 DEF ShapeInv, NoDanglingDependency
  <1>4. ASSUME NEW S \in SUBSET DOMAIN graph', S # {}
        PROVE  \E u \in S : graph'[u].deps \cap S = {}
    <2>1. CASE S \ {t} = {}
      BY <1>2, <1>4, <2>1
    <2>2. CASE S \ {t} # {}
      <3>1. S \ {t} \in SUBSET DOMAIN graph
        BY <1>2
      <3>2. PICK u \in S \ {t} : graph[u].deps \cap (S \ {t}) = {}
        BY <2>2, <3>1 DEF ShapeInv, Acyclic
      <3>3. u \in DOMAIN graph /\ t \notin graph[u].deps
        BY <1>2, <3>1, <3>2 DEF ShapeInv, NoDanglingDependency
      <3> QED BY <1>2, <3>2, <3>3
    <2> QED BY <2>1, <2>2
  <1> QED BY <1>3, <1>4 DEF Acyclic

\* add_dependency: a cycle through the new edge would need the path from d to t
\* the check has ruled out.
LEMMA DependKeepsShape ==
    ASSUME ShapeInv, NEW t \in Task, NEW d \in Task, Depend(t, d)
    PROVE  NoDanglingDependency' /\ Acyclic'
  <1>1. /\ t \in DOMAIN graph /\ d \in DOMAIN graph /\ t # d
        /\ DOMAIN graph' = DOMAIN graph
        /\ graph'[t].deps = graph[t].deps \cup {d}
        /\ \A u \in DOMAIN graph : u # t => graph'[u].deps = graph[u].deps
    BY DEF Depend, CanAddDependency, AddDependency, ShapeInv, TypeOK, IsGraph, TaskNode
  <1>2. PICK R \in SUBSET Task : d \in R /\ Closed(graph, R) /\ t \notin R
    BY DEF Depend, CanAddDependency, HasPath
  <1>3. NoDanglingDependency'
    BY <1>1 DEF ShapeInv, NoDanglingDependency
  <1>4. ASSUME NEW S \in SUBSET DOMAIN graph', S # {}
        PROVE  \E u \in S : graph'[u].deps \cap S = {}
    <2>1. CASE S \cap R = {}
      <3>1. PICK u \in S : graph[u].deps \cap S = {}
        BY <1>1, <1>4 DEF ShapeInv, Acyclic
      <3> QED BY <1>1, <1>2, <2>1, <3>1
    <2>2. CASE S \cap R # {}
      <3>1. PICK u \in S \cap R : graph[u].deps \cap (S \cap R) = {}
        BY <1>1, <2>2 DEF ShapeInv, Acyclic
      <3>2. graph[u].deps \subseteq R
        BY <1>1, <1>2, <3>1 DEF Closed
      <3> QED BY <1>1, <1>2, <3>1, <3>2
    <2> QED BY <2>1, <2>2
  <1> QED BY <1>3, <1>4 DEF Acyclic

\* remove_task: nothing depends on the task that goes.
LEMMA RemoveKeepsShape ==
    ASSUME ShapeInv, NEW t \in Task, Remove(t)
    PROVE  NoDanglingDependency' /\ Acyclic'
  <1>1. /\ DOMAIN graph' = DOMAIN graph \ {t}
        /\ \A u \in DOMAIN graph' : graph'[u] = graph[u]
        /\ \A u \in DOMAIN graph : t \notin graph[u].deps
    BY DEF Remove, CanRemoveTask, RemoveTask
  <1> QED BY <1>1 DEF ShapeInv, NoDanglingDependency, Acyclic

\* No edit a planner may ask for, in any order, closes a dependency cycle or
\* leaves a dependency dangling, provided add_task is given existing ids.
LEMMA ShapeInductive ==
    ASSUME ~ForwardReferences PROVE Spec => []ShapeInv
  <1>1. Init => ShapeInv
    BY DEF Init, ShapeInv, TypeOK, IsGraph, NoDanglingDependency, Acyclic
  <1>2. ASSUME ShapeInv, [Next]_graph PROVE ShapeInv'
    <2>1. CASE UNCHANGED graph
      BY <1>2, <2>1 DEF ShapeInv, TypeOK, NoDanglingDependency, Acyclic
    <2>2. CASE Next
      <3>1. TypeOK'
        BY <1>2, <2>2, StepShape, GraphAssumption DEF ShapeInv
      <3>2. ASSUME SameShape(graph, graph') PROVE NoDanglingDependency' /\ Acyclic'
        BY <1>2, <3>2 DEF SameShape, ShapeInv, NoDanglingDependency, Acyclic
      <3>3. NoDanglingDependency' /\ Acyclic'
        BY <1>2, <2>2, <3>2, StepShape, GraphAssumption, AddKeepsShape,
           DependKeepsShape, RemoveKeepsShape DEF ShapeInv
      <3> QED BY <3>1, <3>3 DEF ShapeInv
    <2> QED BY <1>2, <2>1, <2>2
  <1> QED BY <1>1, <1>2, PTL DEF Spec

\* The dependency graph never has a cycle.
THEOREM GraphAcyclic == ASSUME ~ForwardReferences PROVE Spec => []Acyclic
  BY ShapeInductive, PTL DEF ShapeInv

\* A dependency never names a task that is not in the graph.
THEOREM GraphClosed == ASSUME ~ForwardReferences PROVE Spec => []NoDanglingDependency
  BY ShapeInductive, PTL DEF ShapeInv

\* What the engine concludes from a stalled graph: in a graph where nothing
\* failed or was replaced, an unfinished task without unfinished dependencies
\* exists, and it runs or is ready.
THEOREM GraphNeverDeadlocks == ASSUME ~ForwardReferences PROVE Spec => []NoSpuriousDeadlock
  <1>1. ASSUME ShapeInv PROVE NoSpuriousDeadlock
    <2> SUFFICES ASSUME Undisturbed, DOMAIN graph # {}, ~AllCompleted(graph)
                 PROVE  HasActiveTasks(graph)
      BY DEF NoSpuriousDeadlock
    <2> DEFINE U == {t \in DOMAIN graph : graph[t].status # "SUCCEEDED"}
    <2>1. U # {}
      BY DEF AllCompleted, Undisturbed, WithStatus
    <2>2. PICK t \in U : graph[t].deps \cap U = {}
      BY <2>1, <1>1 DEF ShapeInv, Acyclic
    <2>3. \A d \in graph[t].deps : d \in DOMAIN graph /\ graph[d].status = "SUCCEEDED"
      BY <2>2, <1>1 DEF ShapeInv, NoDanglingDependency
    <2>4. \A d \in graph[t].deps : DependencyDone(graph, d)
      BY <2>3 DEF DependencyDone, Settled
    <2>5. graph[t].status \in {"PENDING", "READY", "RUNNING"}
      BY <2>2, <1>1 DEF ShapeInv, TypeOK, IsGraph, TaskNode, TaskStatus, Undisturbed, WithStatus
    <2> QED BY <2>2, <2>4, <2>5 DEF HasActiveTasks, HasRunningTasks, WithStatus, ReadyTasks
  <1> QED BY <1>1, ShapeInductive, PTL
=============================================================================
