---------------------------- MODULE TaskGraph_proofs ----------------------------
(***************************************************************************)
(* What the edits of TaskGraph do to a well-formed graph: lemmas for the   *)
(* modules that own one.                                                   *)
(***************************************************************************)
EXTENDS TaskGraph, TLAPS

\* Edits of status, attempt, actor and superseded_by: neither the tasks nor
\* their dependencies change.
SameShape(g, h) == DOMAIN h = DOMAIN g /\ \A t \in DOMAIN g : h[t].deps = g[t].deps

\* TaskNode() as add_task gets it: PENDING, no attempt, nobody assigned.
LEMMA NewNodeType == ASSUME NEW D \in SUBSET Task PROVE NewNode(D) \in TaskNode
  BY DEF NewNode, TaskNode, TaskStatus

\* Adding a well-formed node to a well-formed graph.
LEMMA AddTaskType ==
    ASSUME NEW g, IsGraph(g), NEW t \in Task, NEW node \in TaskNode
    PROVE  IsGraph(AddTask(g, t, node))
  BY DEF IsGraph, AddTask

\* Replacing the node of a task by one with the same dependencies.
LEMMA ExceptType ==
    ASSUME NEW g, IsGraph(g), NEW t \in DOMAIN g, NEW node \in TaskNode
    PROVE  LET h == [g EXCEPT ![t] = node]
           IN IsGraph(h) /\ (node.deps = g[t].deps => SameShape(g, h))
  BY DEF IsGraph, SameShape

\* Each edit of a single node yields a well-formed graph of the same shape.
LEMMA StatusEdits ==
    ASSUME NEW g, IsGraph(g), NEW t \in DOMAIN g
    PROVE  /\ \A s \in TaskStatus : LET h == [g EXCEPT ![t].status = s]
                                    IN IsGraph(h) /\ SameShape(g, h)
           /\ \A a \in Actor : LET h == MarkRunning(g, t, a) IN IsGraph(h) /\ SameShape(g, h)
           /\ \A r \in Task \cup {NoTask} :
                 LET h == SupersedeTask(g, t, r) IN IsGraph(h) /\ SameShape(g, h)
  <1>1. g[t] \in TaskNode /\ t \in Task
    BY DEF IsGraph
  <1>2. ASSUME NEW s \in TaskStatus
        PROVE  \E node \in TaskNode : /\ node.deps = g[t].deps
                                      /\ [g EXCEPT ![t].status = s] = [g EXCEPT ![t] = node]
    <2>1. [g[t] EXCEPT !.status = s] \in TaskNode
      BY <1>1 DEF TaskNode
    <2>2. [g[t] EXCEPT !.status = s].deps = g[t].deps
      BY <1>1 DEF TaskNode
    <2> QED BY <2>1, <2>2
  <1>3. ASSUME NEW a \in Actor
        PROVE  \E node \in TaskNode : /\ node.deps = g[t].deps
                                      /\ MarkRunning(g, t, a) = [g EXCEPT ![t] = node]
    <2>1. g[t].attempt + 1 \in Nat
      BY <1>1 DEF TaskNode
    <2>2. [g[t] EXCEPT !.status = "RUNNING", !.actor = a, !.attempt = g[t].attempt + 1] \in TaskNode
      BY <1>1, <2>1 DEF TaskNode, TaskStatus
    <2>3. [g[t] EXCEPT !.status = "RUNNING", !.actor = a, !.attempt = g[t].attempt + 1].deps = g[t].deps
      BY <1>1 DEF TaskNode
    <2>4. MarkRunning(g, t, a)
            = [g EXCEPT ![t] = [g[t] EXCEPT !.status = "RUNNING", !.actor = a, !.attempt = g[t].attempt + 1]]
      BY <1>1 DEF MarkRunning, IsGraph, TaskNode
    <2> QED BY <2>2, <2>3, <2>4
  <1>4. ASSUME NEW r \in Task \cup {NoTask}
        PROVE  \E node \in TaskNode : /\ node.deps = g[t].deps
                                      /\ SupersedeTask(g, t, r) = [g EXCEPT ![t] = node]
    <2>1. [g[t] EXCEPT !.status = "SUPERSEDED", !.by = r] \in TaskNode
      BY <1>1 DEF TaskNode, TaskStatus
    <2>2. [g[t] EXCEPT !.status = "SUPERSEDED", !.by = r].deps = g[t].deps
      BY <1>1 DEF TaskNode
    <2>3. SupersedeTask(g, t, r)
            = [g EXCEPT ![t] = [g[t] EXCEPT !.status = "SUPERSEDED", !.by = r]]
      BY <1>1 DEF SupersedeTask, IsGraph, TaskNode
    <2> QED BY <2>1, <2>2, <2>3
  <1>5. ASSUME NEW h, \E node \in TaskNode : node.deps = g[t].deps /\ h = [g EXCEPT ![t] = node]
        PROVE  IsGraph(h) /\ SameShape(g, h)
    <2>1. PICK node \in TaskNode : node.deps = g[t].deps /\ h = [g EXCEPT ![t] = node]
      BY <1>5
    <2>2. IsGraph([g EXCEPT ![t] = node]) /\ SameShape(g, [g EXCEPT ![t] = node])
      BY <2>1, ExceptType
    <2> QED BY <2>1, <2>2
  <1>6. ASSUME NEW s \in TaskStatus
        PROVE  LET h == [g EXCEPT ![t].status = s] IN IsGraph(h) /\ SameShape(g, h)
    BY <1>2, <1>5
  <1>7. ASSUME NEW a \in Actor
        PROVE  LET h == MarkRunning(g, t, a) IN IsGraph(h) /\ SameShape(g, h)
    BY <1>3, <1>5
  <1>8. ASSUME NEW r \in Task \cup {NoTask}
        PROVE  LET h == SupersedeTask(g, t, r) IN IsGraph(h) /\ SameShape(g, h)
    BY <1>4, <1>5
  <1> QED BY <1>6, <1>7, <1>8

\* The scheduler blocks several tasks at once.
LEMMA BlockType ==
    ASSUME NEW g, IsGraph(g), NEW T
    PROVE  IsGraph(MarkBlocked(g, T)) /\ SameShape(g, MarkBlocked(g, T))
  <1>1. ASSUME NEW u \in DOMAIN g
        PROVE  /\ [g[u] EXCEPT !.status = "BLOCKED"] \in TaskNode
               /\ [g[u] EXCEPT !.status = "BLOCKED"].deps = g[u].deps
    BY DEF IsGraph, TaskNode, TaskStatus
  <1>2. ASSUME NEW u \in DOMAIN g
        PROVE  MarkBlocked(g, T)[u] \in TaskNode /\ MarkBlocked(g, T)[u].deps = g[u].deps
    BY <1>1 DEF MarkBlocked, IsGraph
  <1>3. MarkBlocked(g, T) = [u \in DOMAIN g |-> MarkBlocked(g, T)[u]]
    BY DEF MarkBlocked
  <1> QED BY <1>2, <1>3 DEF IsGraph, SameShape

----------------------------------------------------------------------------
(* The marks the scheduler sets, on a task the graph may not hold: an edit  *)
(* of a task that is not there changes nothing.                             *)

\* Replacing the node of a task, if the graph holds it.
LEMMA PatchType ==
    ASSUME NEW g, IsGraph(g), NEW t, NEW node, t \in DOMAIN g => node \in TaskNode
    PROVE  IsGraph([g EXCEPT ![t] = node])
  BY DEF IsGraph

\* Every status, including those of mark_success, mark_failure and mark_cancelled.
LEMMA StatusType ==
    ASSUME NEW g, IsGraph(g), NEW t, NEW s \in TaskStatus
    PROVE  IsGraph([g EXCEPT ![t].status = s])
  <1>1. t \in DOMAIN g => [g[t] EXCEPT !.status = s] \in TaskNode
    BY DEF IsGraph, TaskNode
  <1>2. [g EXCEPT ![t].status = s] = [g EXCEPT ![t] = [g[t] EXCEPT !.status = s]]
    BY DEF IsGraph
  <1> QED BY <1>1, <1>2, PatchType

\* mark_running.
LEMMA RunningType ==
    ASSUME NEW g, IsGraph(g), NEW t, NEW a \in Actor
    PROVE  IsGraph(MarkRunning(g, t, a))
  <1> DEFINE node == [g[t] EXCEPT !.status = "RUNNING", !.actor = a,
                                  !.attempt = g[t].attempt + 1]
  <1>1. t \in DOMAIN g => node \in TaskNode
    <2> SUFFICES ASSUME t \in DOMAIN g PROVE node \in TaskNode
      OBVIOUS
    <2>1. g[t] \in TaskNode /\ g[t].attempt + 1 \in Nat
      BY DEF IsGraph, TaskNode
    <2> QED BY <2>1 DEF TaskNode, TaskStatus
  <1>2. MarkRunning(g, t, a) = [g EXCEPT ![t] = node]
    <2>1. CASE t \in DOMAIN g
      BY <2>1 DEF MarkRunning, IsGraph, TaskNode
    <2>2. CASE t \notin DOMAIN g
      BY <2>2 DEF MarkRunning, IsGraph
    <2> QED BY <2>1, <2>2
  <1>3. IsGraph([g EXCEPT ![t] = node])
    <2> HIDE DEF node
    <2> QED BY <1>1, PatchType
  <1> QED BY <1>2, <1>3

\* A reroute before or after an attempt.
LEMMA RerouteType ==
    ASSUME NEW g, IsGraph(g), NEW t, NEW a \in Actor
    PROVE  /\ IsGraph([g EXCEPT ![t].actor = a])
           /\ IsGraph([g EXCEPT ![t].actor = a, ![t].status = "READY"])
  <1>1. t \in DOMAIN g => /\ [g[t] EXCEPT !.actor = a] \in TaskNode
                          /\ [g[t] EXCEPT !.actor = a, !.status = "READY"] \in TaskNode
    BY DEF IsGraph, TaskNode, TaskStatus
  <1>2. [g EXCEPT ![t].actor = a] = [g EXCEPT ![t] = [g[t] EXCEPT !.actor = a]]
    BY DEF IsGraph
  <1>3. [g EXCEPT ![t].actor = a, ![t].status = "READY"]
           = [g EXCEPT ![t] = [g[t] EXCEPT !.actor = a, !.status = "READY"]]
    <2>1. CASE t \in DOMAIN g
      BY <2>1 DEF IsGraph, TaskNode
    <2>2. CASE t \notin DOMAIN g
      BY <2>2 DEF IsGraph
    <2> QED BY <2>1, <2>2
  <1>4. IsGraph([g EXCEPT ![t] = [g[t] EXCEPT !.actor = a]])
    BY <1>1, PatchType
  <1>5. IsGraph([g EXCEPT ![t] = [g[t] EXCEPT !.actor = a, !.status = "READY"]])
    BY <1>1, PatchType
  <1> QED BY <1>2, <1>3, <1>4, <1>5

\* An attempt given back.
LEMMA GiveBackType ==
    ASSUME NEW g, IsGraph(g), NEW t, NEW n, t \in DOMAIN g => n \in Nat
    PROVE  IsGraph([g EXCEPT ![t].attempt = n])
  <1>1. t \in DOMAIN g => [g[t] EXCEPT !.attempt = n] \in TaskNode
    BY DEF IsGraph, TaskNode
  <1>2. [g EXCEPT ![t].attempt = n] = [g EXCEPT ![t] = [g[t] EXCEPT !.attempt = n]]
    BY DEF IsGraph
  <1> QED BY <1>1, <1>2, PatchType
=============================================================================
