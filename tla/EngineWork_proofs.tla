---------------------------- MODULE EngineWork_proofs ----------------------------
(***************************************************************************)
(* What the engine does with the tasks of a job, on the invariants of      *)
(* ReactiveEngine_proofs: the order the dependencies ask for, what is      *)
(* superseded, what verification is given to judge, and what a completed   *)
(* job has done.                                                           *)
(***************************************************************************)
EXTENDS ReactiveEngine_proofs

----------------------------------------------------------------------------
(* What coroutines know of the tasks they have in hand                      *)

Waiting == {"PENDING", "READY", "CANCELLED"}

\* A worker alive has its task RUNNING, or back among the READY ones while it
\* announces a reroute; a pass has tasks in hand that nobody settles.
StatusInv ==
    /\ \A w \in WorkerId : Live(w) =>
          /\ graph[w[1]].status \in {"RUNNING", "READY", "CANCELLED"}
          /\ graph[w[1]].status = "READY" => worker[w].pc = "routeEmit"
          /\ w[1] \in pass.todo => worker[w].pc \in {"routeEmit", "unwind"}
    /\ \A t \in pass.todo : graph[t].status \in Waiting
    /\ pass.pc = "reroute" => graph[pass.task].status \in Waiting
    /\ pass.pc = "start" => graph[pass.task].status \in {"RUNNING", "CANCELLED"}
    /\ pass.pc \in {"reroute", "start"} => pass.task \notin pass.todo

\* Dependencies never change, and what is settled stays as it is.
Persists ==
    \A t \in DOMAIN graph :
       /\ t \in DOMAIN graph'
       /\ graph'[t].deps = graph[t].deps
       /\ graph[t].status \in {"SUCCEEDED", "SUPERSEDED"} =>
             graph'[t].status = graph[t].status /\ graph'[t].by = graph[t].by

\* Nothing is superseded that somebody has in hand.
Harmless ==
    \A t \in DOMAIN graph :
       \/ graph'[t] = graph[t]
       \/ /\ graph[t].status \notin {"SUCCEEDED", "SUPERSEDED"}
          /\ t \notin pass.todo
          /\ pass.pc \in {"reroute", "start"} => pass.task # t
          /\ \A w \in WorkerId : Live(w) => w[1] # t

\* What has failed, nobody has in hand.
LEMMA FailedIsFree ==
    ASSUME StatusInv, OnlyFailed
    PROVE  Harmless
  BY DEF StatusInv, OnlyFailed, Harmless, Waiting

LEMMA CalmStatus ==
    ASSUME WorkersInv, StatusInv, Calm, Harmless
    PROVE  StatusInv' /\ Persists
  <1>1. /\ \A t \in DOMAIN graph : t \in DOMAIN graph'
        /\ \A t \in pass.todo : t \in DOMAIN graph
        /\ pass.pc \in {"reroute", "start"} => pass.task \in DOMAIN graph
        /\ \A w \in WorkerId : Live(w) => w[1] \in DOMAIN graph
    BY DEF Calm, Edited, WorkersInv, KnownTasks, Live
  <1>2. ASSUME NEW t \in DOMAIN graph, graph'[t] # graph[t]
        PROVE  graph'[t].deps = graph[t].deps
    <2>1. Edited(graph, graph') /\ graph[t] \in TaskNode
      BY DEF Calm, WorkersInv, TypeOK, SchedTypeOK, IsGraph
    <2> QED BY <1>2, <2>1, EditedNode
  <1>3. Persists
    BY <1>1, <1>2 DEF Persists, Harmless
  <1>4. \A w \in WorkerId : Live(w)' => Live(w) /\ worker'[w].pc = worker[w].pc
    BY DEF Calm, Quiet, Live, Done
  <1>5. /\ \A w \in WorkerId : Live(w) => graph'[w[1]] = graph[w[1]]
        /\ \A t \in pass.todo : graph'[t] = graph[t]
        /\ pass.pc \in {"reroute", "start"} => graph'[pass.task] = graph[pass.task]
    BY <1>1 DEF Harmless
  <1>6. StatusInv'
    <2>1. CASE UNCHANGED pass
      BY <1>4, <1>5, <2>1 DEF StatusInv
    <2>2. CASE pass' = IdlePass
      BY <1>4, <1>5, <2>2 DEF StatusInv, IdlePass
    <2> QED BY <2>1, <2>2 DEF Calm
  <1> QED BY <1>3, <1>6

\* What mark_cancelled, and the other marks, leave of the node.
LEMMA MarkKeeps ==
    ASSUME IsGraph(graph), NEW t \in DOMAIN graph, NEW s,
           graph' = [graph EXCEPT ![t].status = s]
    PROVE  /\ DOMAIN graph' = DOMAIN graph
           /\ \A u \in DOMAIN graph \ {t} : graph'[u] = graph[u]
           /\ graph'[t].status = s /\ graph'[t].deps = graph[t].deps /\ graph'[t].by = graph[t].by
  <1>1. graph[t] \in TaskNode
    BY DEF IsGraph
  <1>2. graph' = [graph EXCEPT ![t] = [graph[t] EXCEPT !.status = s]]
    OBVIOUS
  <1> QED BY <1>1, <1>2 DEF TaskNode

LEMMA CancelStatus ==
    ASSUME WorkersInv, StatusInv, Cancels
    PROVE  StatusInv' /\ Persists
  <1>1. \A w \in WorkerId : Live(w)' => Live(w) /\ worker'[w].pc = worker[w].pc
    BY DEF Cancels, Quiet, Live, Done
  <1>2. CASE UNCHANGED graph
    BY <1>1, <1>2 DEF Cancels, StatusInv, Persists
  <1>3. ASSUME NEW t \in WithStatus(graph, {"RUNNING", "READY", "PENDING", "CANCELLED"}),
               graph' = MarkCancelled(graph, t)
        PROVE  StatusInv' /\ Persists
    <2>1. t \in DOMAIN graph /\ graph[t].status \notin {"SUCCEEDED", "SUPERSEDED"}
      BY DEF WithStatus
    <2>2. /\ DOMAIN graph' = DOMAIN graph
          /\ \A u \in DOMAIN graph \ {t} : graph'[u] = graph[u]
          /\ graph'[t].status = "CANCELLED" /\ graph'[t].deps = graph[t].deps
      BY <1>3, <2>1, MarkKeeps DEF MarkCancelled, WorkersInv, TypeOK, SchedTypeOK
    <2>3. /\ \A u \in pass.todo : u \in DOMAIN graph
          /\ pass.pc \in {"reroute", "start"} => pass.task \in DOMAIN graph
          /\ \A w \in WorkerId : Live(w) => w[1] \in DOMAIN graph
      BY DEF WorkersInv, KnownTasks, Live
    <2>4. StatusInv'
      BY <1>1, <2>2, <2>3 DEF StatusInv, Cancels, Waiting
    <2> QED BY <2>1, <2>2, <2>4 DEF Persists
  <1> QED BY <1>2, <1>3 DEF Cancels

----------------------------------------------------------------------------
\* A worker changes its own task only, and that before it settles anything.
LEMMA WorkerMarks ==
    ASSUME WorkersInv, StatusInv, NEW w \in WorkerId, WorkerStep(w)
    PROVE  /\ UNCHANGED pass /\ Live(w)
           /\ \A v \in WorkerId : v # w => worker'[v] = worker[v]
           /\ DOMAIN graph' = DOMAIN graph /\ w[1] \in DOMAIN graph
           /\ \A t \in DOMAIN graph \ {w[1]} : graph'[t] = graph[t]
           /\ graph'[w[1]].deps = graph[w[1]].deps /\ graph'[w[1]].status # "SUPERSEDED"
           /\ Live(w)' =>
                /\ graph'[w[1]].status \in {"RUNNING", "READY", "CANCELLED"}
                /\ graph'[w[1]].status = "READY" => worker'[w].pc = "routeEmit"
           /\ w[1] \in pass.todo =>
                /\ graph'[w[1]].status \in Waiting
                /\ Live(w)' => worker'[w].pc = "unwind"
  <1> DEFINE t == w[1]
             Goal == /\ UNCHANGED pass /\ Live(w)
                     /\ \A v \in WorkerId : v # w => worker'[v] = worker[v]
                     /\ DOMAIN graph' = DOMAIN graph /\ t \in DOMAIN graph
                     /\ \A u \in DOMAIN graph \ {t} : graph'[u] = graph[u]
                     /\ graph'[t].deps = graph[t].deps /\ graph'[t].status # "SUPERSEDED"
                     /\ Live(w)' =>
                          /\ graph'[t].status \in {"RUNNING", "READY", "CANCELLED"}
                          /\ graph'[t].status = "READY" => worker'[w].pc = "routeEmit"
                     /\ t \in pass.todo =>
                          /\ graph'[t].status \in Waiting
                          /\ Live(w)' => worker'[w].pc = "unwind"
  <1>1. WorkersOK /\ worker[w] \in WorkerRecord /\ IsGraph(graph)
    BY DEF WorkersInv, TypeOK, SchedTypeOK, WorkersOK
  <1>2. Live(w)
    BY DEF WorkerStep, WorkerBegin, WorkerNeverRan, WorkerSucceeds, WorkerFails,
           WorkerProviderFails, WorkerReroutes, WorkerSettles, WorkerInterrupted,
           WorkerUnwinds, WorkerAt, Live
  <1>3. t \in DOMAIN graph /\ graph[t] \in TaskNode
    BY <1>1, <1>2 DEF WorkersInv, KnownTasks, Live, IsGraph
  <1>4. /\ graph[t].status \in {"RUNNING", "READY", "CANCELLED"}
        /\ graph[t].status = "READY" => worker[w].pc = "routeEmit"
        /\ t \in pass.todo => worker[w].pc \in {"routeEmit", "unwind"} /\ graph[t].status \in Waiting
    BY <1>2 DEF StatusInv
  <1>5. ASSUME NEW pc \in {"exec", "okEmit", "record", "routeEmit", "backEmit", "failEmit", "unwind"},
               NEW r, Move(w, pc) \/ worker' = [worker EXCEPT ![w].pc = pc, ![w].result = r]
        PROVE  worker'[w].pc = pc /\ Live(w)' /\ \A v \in WorkerId : v # w => worker'[v] = worker[v]
    BY <1>1, <1>5 DEF Move, WorkersOK, WorkerRecord, Live
  <1>6. ASSUME NEW r, Finish(w, r)
        PROVE  ~Live(w)' /\ \A v \in WorkerId : v # w => worker'[v] = worker[v]
    BY <1>1, <1>6 DEF Finish, WorkersOK, WorkerRecord, Live
  <1>7. ASSUME NEW s, graph' = [graph EXCEPT ![t].status = s]
        PROVE  /\ DOMAIN graph' = DOMAIN graph
               /\ \A u \in DOMAIN graph \ {t} : graph'[u] = graph[u]
               /\ graph'[t].status = s /\ graph'[t].deps = graph[t].deps
    <2> HIDE DEF t
    <2> QED BY <1>1, <1>3, <1>7, MarkKeeps
  <1>8. CASE WorkerBegin(w)
    BY <1>2, <1>3, <1>4, <1>5, <1>8 DEF WorkerBegin, WorkerAt
  <1>9. CASE WorkerNeverRan(w)
    <2>1. ~Live(w)' /\ \A v \in WorkerId : v # w => worker'[v] = worker[v]
      BY <1>1, <1>9 DEF WorkerNeverRan, WorkersOK, WorkerRecord, Live
    <2> QED BY <1>2, <1>3, <1>4, <1>9, <2>1 DEF WorkerNeverRan
  <1>10. ASSUME NEW r \in Outcome,
                WorkerSucceeds(w, r) \/ WorkerFails(w, r) \/ WorkerProviderFails(w, r)
         PROVE  Goal
    BY <1>2, <1>3, <1>4, <1>5, <1>10
       DEF WorkerSucceeds, WorkerFails, WorkerProviderFails, WorkerAt
  <1>11. CASE WorkerReroutes(w)
    <2>1. UNCHANGED pass /\ worker[w].pc = "record" /\ t \notin pass.todo
      BY <1>4, <1>11 DEF WorkerReroutes, WorkerAt
    <2>2. ASSUME NEW a, graph' = [graph EXCEPT ![t].actor = a, ![t].status = "READY"],
                 Move(w, "routeEmit")
          PROVE  Goal
      <3>1. graph' = [graph EXCEPT ![t] = [graph[t] EXCEPT !.actor = a, !.status = "READY"]]
        BY <2>2
      <3>2. /\ DOMAIN graph' = DOMAIN graph /\ graph'[t].deps = graph[t].deps
            /\ \A u \in DOMAIN graph \ {t} : graph'[u] = graph[u]
            /\ graph'[t].status = "READY"
        <4> HIDE DEF t
        <4> QED BY <1>3, <3>1 DEF TaskNode
      <3> QED BY <1>2, <1>3, <1>5, <2>1, <2>2, <3>2
    <2>3. ASSUME graph' = [graph EXCEPT ![t].attempt = IF @ = 0 THEN 0 ELSE @ - 1],
                 Move(w, "backEmit")
          PROVE  Goal
      <3> DEFINE n == IF graph[t].attempt = 0 THEN 0 ELSE graph[t].attempt - 1
      <3>1. graph' = [graph EXCEPT ![t] = [graph[t] EXCEPT !.attempt = n]]
        BY <2>3
      <3>2. /\ DOMAIN graph' = DOMAIN graph /\ graph'[t].deps = graph[t].deps
            /\ \A u \in DOMAIN graph \ {t} : graph'[u] = graph[u]
            /\ graph'[t].status = graph[t].status
        <4> HIDE DEF t, n
        <4> QED BY <1>3, <3>1 DEF TaskNode
      <3> QED BY <1>2, <1>3, <1>4, <1>5, <2>1, <2>3, <3>2
    <2>4. ASSUME UNCHANGED graph, Move(w, "failEmit") PROVE Goal
      BY <1>2, <1>3, <1>4, <1>5, <2>1, <2>4
    <2> QED BY <1>11, <2>2, <2>3, <2>4 DEF WorkerReroutes
  <1>12. CASE WorkerSettles(w)
    <2>1. ~Live(w)' /\ UNCHANGED pass /\ \A v \in WorkerId : v # w => worker'[v] = worker[v]
      BY <1>6, <1>12 DEF WorkerSettles
    <2>2. CASE WorkerAt(w, "routeEmit") /\ UNCHANGED graph
      BY <1>2, <1>3, <1>4, <2>1, <2>2
    <2>3. CASE worker[w].pc \in {"okEmit", "failEmit", "backEmit"}
                 /\ \E s \in {"SUCCEEDED", "READY", "FAILED"} : graph' = [graph EXCEPT ![t].status = s]
      BY <1>2, <1>3, <1>4, <1>7, <2>1, <2>3
    <2> QED BY <1>12, <2>2, <2>3 DEF WorkerSettles, WorkerAt, MarkSuccess, MarkFailure
  <1>13. CASE WorkerInterrupted(w)
    <2>1. worker'[w].pc = "unwind" /\ UNCHANGED pass /\ \A v \in WorkerId : v # w => worker'[v] = worker[v]
      BY <1>5, <1>13 DEF WorkerInterrupted
    <2>2. CASE graph[t].status \in {"RUNNING", "READY"}
      <3>1. graph' = [graph EXCEPT ![t].status = "CANCELLED"]
        BY <1>13, <2>2 DEF WorkerInterrupted, MarkCancelled
      <3> HIDE DEF t
      <3>2. DOMAIN graph' = DOMAIN graph /\ graph'[t].status = "CANCELLED"
        BY <1>7, <3>1
      <3> QED BY <1>2, <1>3, <1>7, <2>1, <3>1, <3>2 DEF t, Waiting
    <2>3. CASE graph[t].status \notin {"RUNNING", "READY"}
      BY <1>2, <1>3, <1>4, <1>13, <2>1, <2>3 DEF WorkerInterrupted
    <2> QED BY <2>2, <2>3
  <1>14. CASE WorkerUnwinds(w)
    BY <1>2, <1>3, <1>4, <1>6, <1>14 DEF WorkerUnwinds
  <1> QED BY <1>8, <1>9, <1>10, <1>11, <1>12, <1>13, <1>14 DEF WorkerStep

LEMMA WorkerStatus ==
    ASSUME WorkersInv, StatusInv, NEW w \in WorkerId, WorkerStep(w)
    PROVE  StatusInv' /\ Persists
  <1>1. /\ \A t \in pass.todo : t \in DOMAIN graph
        /\ pass.pc \in {"reroute", "start"} => pass.task \in DOMAIN graph
        /\ \A v \in WorkerId : Live(v) => v[1] \in DOMAIN graph
    BY DEF WorkersInv, KnownTasks, Live
  <1>2. /\ pass.pc \in {"reroute", "start"} => pass.task # w[1]
        /\ \A v \in WorkerId : Live(v) /\ v # w => v[1] # w[1]
    BY WorkerMarks DEF WorkersInv, WorkInv, OneWorker
  <1>3. Persists
    BY WorkerMarks DEF Persists, StatusInv
  <1>4. \A v \in WorkerId : v # w => Live(v)' = Live(v)
    BY WorkerMarks DEF Live
  <1>5. StatusInv'
    BY <1>1, <1>2, <1>4, WorkerMarks DEF StatusInv
  <1> QED BY <1>3, <1>5

----------------------------------------------------------------------------
\* The tasks a pass passes over are not running, and were waiting.
LEMMA PassOverMarks ==
    ASSUME WorkersInv, StatusInv, NEW S \in SUBSET pass.todo
    PROVE  LET h == PassOver(S)
           IN /\ DOMAIN h = DOMAIN graph
              /\ \A u \in DOMAIN graph : h[u].deps = graph[u].deps /\ h[u].by = graph[u].by
              /\ \A u \in DOMAIN graph : h[u] # graph[u] => u \in S \ running /\ h[u].status = "BLOCKED"
  <1>1. \A u \in DOMAIN graph : graph[u] \in TaskNode
    BY DEF WorkersInv, TypeOK, SchedTypeOK, IsGraph
  <1> DEFINE T == {t \in S \ running : Incapable \in Decisions(t)}
             h == PassOver(S)
  <1>2. h = [u \in DOMAIN graph |-> IF u \in T THEN [graph[u] EXCEPT !.status = "BLOCKED"]
                                               ELSE graph[u]]
    BY DEF PassOver, MarkBlocked
  <1>3. T \subseteq S \ running
    OBVIOUS
  <1> HIDE DEF T, h
  <1> QED BY <1>1, <1>2, <1>3 DEF TaskNode, h

\* No task becomes READY, none CANCELLED and none SUPERSEDED.
NoneReadied == \A t \in WithStatus(graph', {"READY"}) : t \in WithStatus(graph, {"READY"})
NoneCancelled == \A t \in WithStatus(graph', {"CANCELLED"}) : t \in WithStatus(graph, {"CANCELLED"})
NoneSuperseded == \A t \in WithStatus(graph', {"SUPERSEDED"}) : t \in WithStatus(graph, {"SUPERSEDED"})
NoneMarked == NoneReadied /\ NoneCancelled /\ NoneSuperseded

\* The dispatch of a task that waits, behind the tasks passed over.
LEMMA AcquireMarks ==
    ASSUME WorkersInv, StatusInv, NEW S \in SUBSET pass.todo, NEW t \in DOMAIN graph \ running,
           t \notin S, graph[t].status \in Waiting, pass.pc # "start",
           NEW g, g = PassOver(S) \/ (g = graph /\ S = {}), NEW a, Acquire(g, t, a, S), UNCHANGED worker
    PROVE  StatusInv' /\ Persists /\ NoneMarked
  <1>1. /\ DOMAIN g = DOMAIN graph
        /\ \A u \in DOMAIN graph : g[u].deps = graph[u].deps /\ g[u].by = graph[u].by
        /\ \A u \in DOMAIN graph : g[u] # graph[u] => u \in S \ running /\ g[u].status = "BLOCKED"
    <2>1. CASE g = PassOver(S)
      BY <2>1, PassOverMarks
    <2>2. CASE g = graph
      BY <2>2
    <2> QED BY <2>1, <2>2
  <1>2. graph' = [g EXCEPT ![t] = [g[t] EXCEPT !.status = "RUNNING", !.actor = a,
                                               !.attempt = @ + 1]]
    BY DEF Acquire, MarkRunning
  <1>3. g[t] = graph[t] /\ graph[t] \in TaskNode
    BY <1>1 DEF WorkersInv, TypeOK, SchedTypeOK, IsGraph
  <1>4. /\ DOMAIN graph' = DOMAIN graph
        /\ \A u \in DOMAIN graph \ {t} : graph'[u] = g[u]
        /\ graph'[t].status = "RUNNING" /\ graph'[t].deps = graph[t].deps
        /\ graph'[t].by = graph[t].by
    BY <1>1, <1>2, <1>3 DEF TaskNode
  <1>5. /\ pass'.pc = "start" /\ pass'.task = t /\ pass'.todo = pass.todo \ (S \cup {t})
    BY DEF Acquire, WorkersInv, TypeOK, SchedTypeOK, PassRecord
  <1>6. /\ pass.todo \subseteq DOMAIN graph
        /\ \A w \in WorkerId : Live(w) => w[1] \in DOMAIN graph /\ w[1] \in running
    BY DEF WorkersInv, KnownTasks, WorkInv, Live
  <1>7. Persists
    BY <1>1, <1>4 DEF Persists, StatusInv, Waiting
  <1>8. /\ \A w \in WorkerId : Live(w)' = Live(w)
        /\ \A w \in WorkerId : Live(w) => graph'[w[1]] = graph[w[1]]
        /\ \A u \in pass'.todo : graph'[u] = graph[u]
    BY <1>1, <1>4, <1>5, <1>6 DEF Live
  <1>9. StatusInv'
    BY <1>4, <1>5, <1>8 DEF StatusInv, Waiting
  <1>10. NoneMarked
    BY <1>1, <1>4 DEF NoneMarked, NoneReadied, NoneCancelled, NoneSuperseded, WithStatus
  <1> QED BY <1>7, <1>9, <1>10

LEMMA PassStatus ==
    ASSUME WorkersInv, StatusInv, PassBegin \/ PassStep \/ PassEnd
    PROVE  StatusInv' /\ Persists /\ NoneMarked
  <1>1. pass \in PassRecord /\ IsGraph(graph) /\ WorkersOK
    BY DEF WorkersInv, TypeOK, SchedTypeOK, WorkersOK
  <1>2. /\ pass.todo \subseteq DOMAIN graph
        /\ pass.pc \in {"reroute", "start"} => pass.task \in DOMAIN graph
        /\ \A w \in WorkerId : Live(w) => w[1] \in DOMAIN graph /\ w[1] \in running
    BY DEF WorkersInv, KnownTasks, WorkInv, Live
  <1>3. CASE PassBegin
    <2>1. pass'.pc = "pick" /\ pass'.todo = ReadyTasks(graph) /\ UNCHANGED <<graph, worker>>
      BY <1>3 DEF PassBegin, IdlePass
    <2>2. \A t \in ReadyTasks(graph) : graph[t].status \in {"PENDING", "READY"}
      BY DEF ReadyTasks
    <2> QED BY <2>1, <2>2 DEF StatusInv, Persists, NoneMarked, NoneReadied, NoneCancelled, NoneSuperseded, Live, Waiting
  <1>4. CASE PassEnd
    <2>1. UNCHANGED worker /\ pass'.pc = "idle" /\ pass'.todo = {}
      BY <1>4, Zenon DEF PassEnd, IdlePass
    <2>2. \/ UNCHANGED graph
          \/ graph' = PassOver(pass.todo)
      BY <1>4 DEF PassEnd
    <2>3. /\ \A u \in DOMAIN graph : u \in DOMAIN graph' /\ graph'[u].deps = graph[u].deps
          /\ DOMAIN graph' = DOMAIN graph
          /\ \A u \in DOMAIN graph : graph'[u] # graph[u] =>
                u \in pass.todo \ running /\ graph'[u].status = "BLOCKED"
      BY <2>2, PassOverMarks
    <2>4. Persists
      BY <2>3 DEF Persists, StatusInv, Waiting
    <2>5. \A w \in WorkerId : Live(w)' = Live(w) /\ (Live(w) => graph'[w[1]] = graph[w[1]])
      BY <1>2, <2>1, <2>3 DEF Live
    <2>6. NoneMarked
      BY <2>3 DEF NoneMarked, NoneReadied, NoneCancelled, NoneSuperseded, WithStatus
    <2> QED BY <2>1, <2>4, <2>5, <2>6 DEF StatusInv
  <1>5. CASE PassResume
    <2>1. pass.task \notin running /\ pass.task \in DOMAIN graph /\ graph[pass.task].status \in Waiting
      BY <1>2, <1>5 DEF PassResume, StatusInv, WorkersInv, WorkInv
    <2> QED BY <1>5, <2>1, AcquireMarks DEF PassResume
  <1>6. ASSUME NEW t \in pass.todo, NEW S \in SUBSET PassedOver, PassAssign(t, S)
        PROVE  StatusInv' /\ Persists /\ NoneMarked
    <2>1. /\ S \subseteq pass.todo /\ t \notin S /\ t \in DOMAIN graph \ running
          /\ graph[t].status \in Waiting /\ pass.pc # "start" /\ UNCHANGED worker
      BY <1>2, <1>6 DEF PassAssign, Picks, PassedOver, StatusInv
    <2>2. PICK a : Acquire(PassOver(S), t, a, S)
      BY <1>6 DEF PassAssign
    <2> QED BY <2>1, <2>2, AcquireMarks
  <1>7. ASSUME NEW t \in pass.todo, NEW S \in SUBSET PassedOver, PassReroute(t, S)
        PROVE  StatusInv' /\ Persists /\ NoneMarked
    <2>1. /\ S \subseteq pass.todo /\ t \notin S /\ t \in DOMAIN graph \ running
          /\ graph[t].status \in Waiting /\ UNCHANGED worker
      BY <1>2, <1>7 DEF PassReroute, Picks, PassedOver, StatusInv
    <2> DEFINE g == PassOver(S)
    <2>2. PICK a : /\ graph' = [g EXCEPT ![t] = [g[t] EXCEPT !.actor = a]]
                   /\ pass' = [pass EXCEPT !.pc = "reroute", !.task = t, !.actor = a,
                                           !.todo = @ \ (S \cup {t})]
      BY <1>7 DEF PassReroute
    <2>3. /\ DOMAIN g = DOMAIN graph
          /\ \A u \in DOMAIN graph : g[u].deps = graph[u].deps /\ g[u].by = graph[u].by
          /\ \A u \in DOMAIN graph : g[u] # graph[u] => u \in S \ running /\ g[u].status = "BLOCKED"
      BY <2>1, PassOverMarks
    <2> HIDE DEF g
    <2>4. g[t] = graph[t] /\ graph[t] \in TaskNode
      BY <1>1, <2>1, <2>3 DEF IsGraph
    <2>5. /\ DOMAIN graph' = DOMAIN graph
          /\ \A u \in DOMAIN graph \ {t} : graph'[u] = g[u]
          /\ graph'[t].status = graph[t].status /\ graph'[t].deps = graph[t].deps
          /\ graph'[t].by = graph[t].by
      BY <2>1, <2>2, <2>3, <2>4 DEF TaskNode
    <2>6. /\ pass'.pc = "reroute" /\ pass'.task = t /\ pass'.todo = pass.todo \ (S \cup {t})
      BY <1>1, <2>2 DEF PassRecord
    <2>7. Persists
      BY <2>1, <2>3, <2>5 DEF Persists, StatusInv, Waiting
    <2>8. /\ \A w \in WorkerId : Live(w)' = Live(w)
          /\ \A w \in WorkerId : Live(w) => graph'[w[1]] = graph[w[1]]
          /\ \A u \in pass'.todo : graph'[u] = graph[u]
      BY <1>2, <2>1, <2>3, <2>5, <2>6 DEF Live
    <2>9. StatusInv'
      BY <2>1, <2>5, <2>6, <2>8 DEF StatusInv
    <2>10. NoneMarked
      BY <2>3, <2>5 DEF NoneMarked, NoneReadied, NoneCancelled, NoneSuperseded, WithStatus
    <2> QED BY <2>7, <2>9, <2>10
  <1>8. ASSUME NEW w \in WorkerId, PassLaunch(w) PROVE StatusInv' /\ Persists /\ NoneMarked
    <2>1. /\ UNCHANGED graph /\ w[1] = pass.task /\ pass.pc = "start" /\ pass'.pc = "pick"
          /\ UNCHANGED pass.todo
          /\ worker'[w].pc = "new" /\ \A v \in WorkerId : v # w => worker'[v] = worker[v]
      BY <1>1, <1>8 DEF PassLaunch, PassRecord, WorkersOK, NoWorker
    <2>2. \A v \in WorkerId : Live(v)' => v = w \/ Live(v)
      BY <2>1 DEF Live
    <2> QED BY <2>1, <2>2 DEF StatusInv, Persists, NoneMarked, NoneReadied, NoneCancelled, NoneSuperseded, Waiting
  <1> QED BY <1>3, <1>4, <1>5, <1>6, <1>7, <1>8 DEF PassStep

\* Every step, given that nobody has in hand what a calm step supersedes.
LEMMA NextStatus ==
    ASSUME WorkersInv, StatusInv, [Next]_vars, DriverStep /\ Calm => Harmless
    PROVE  StatusInv' /\ Persists
  <1>1. CASE DriverStep
    BY <1>1, DriverPasses, PassStatus, CalmStatus
  <1>2. CASE ControlStep
    BY <1>2, ControlCalm, CancelStatus
  <1>3. ASSUME NEW w \in WorkerId, RunWorker(w) PROVE StatusInv' /\ Persists
    BY <1>3, WorkerStatus DEF RunWorker
  <1>4. CASE EnvStep \/ Ended \/ UNCHANGED vars
    <2>1. UNCHANGED <<graph, pass, worker>>
      BY <1>4 DEF EnvStep, HealthChanges, Ended, vars, schedVars
    <2> QED BY <2>1 DEF StatusInv, Persists, Live
  <1> QED BY <1>1, <1>2, <1>3, <1>4 DEF Next

LEMMA InitStatus == Init => StatusInv
  BY DEF Init, SchedInit, StatusInv, IdlePass, NoWorker, Live

----------------------------------------------------------------------------
(* Dependencies                                                             *)

DepsDone(t) == \A d \in graph[t].deps : DependencyDone(graph, d)

DepsInv ==
    /\ \A t \in WithStatus(graph, {"READY"}) \cup pass.todo : DepsDone(t)
    /\ \A w \in WorkerId : Live(w) => DepsDone(w[1])
    /\ pass.pc \in {"reroute", "start"} => DepsDone(pass.task)

\* A dependency done stays done: what the walk along superseded_by finds
\* settled stays settled, and the walk still gets there.
LEMMA DoneStays ==
    ASSUME Persists, NEW d, DependencyDone(graph, d)
    PROVE  DependencyDone(graph', d)
  <1>1. PICK t \in DOMAIN graph :
           /\ Settled(graph, t)
           /\ \A S \in SUBSET Task : d \in S /\ ClosedUnderReplacement(graph, S) => t \in S
    BY DEF DependencyDone
  <1>2. t \in DOMAIN graph' /\ Settled(graph', t)
    BY <1>1 DEF Persists, Settled
  <1>3. ASSUME NEW S, ClosedUnderReplacement(graph', S) PROVE ClosedUnderReplacement(graph, S)
    BY <1>3 DEF Persists, ClosedUnderReplacement, WithStatus
  <1> QED BY <1>1, <1>2, <1>3 DEF DependencyDone

LEMMA DepsStay ==
    ASSUME Persists, NEW t \in DOMAIN graph, DepsDone(t)
    PROVE  DepsDone(t)'
  BY DoneStays DEF DepsDone, Persists

\* Who becomes READY, is taken up by a pass or gets a worker had its
\* dependencies done.
LEMMA DepsCarried ==
    ASSUME WorkersInv, DepsInv, Persists,
           \A t \in WithStatus(graph', {"READY"}) \cup pass'.todo :
              \/ t \in WithStatus(graph, {"READY"}) \cup pass.todo
              \/ t \in DOMAIN graph /\ DepsDone(t),
           \A w \in WorkerId : Live(w)' => Live(w) \/ (w[1] \in DOMAIN graph /\ DepsDone(w[1])),
           pass'.pc \in {"reroute", "start"} => pass'.task \in DOMAIN graph /\ DepsDone(pass'.task)
    PROVE  DepsInv'
  <1>1. /\ \A t \in WithStatus(graph, {"READY"}) \cup pass.todo : t \in DOMAIN graph
        /\ \A w \in WorkerId : Live(w) => w[1] \in DOMAIN graph
    BY DEF WorkersInv, KnownTasks, Live, WithStatus
  <1>2. /\ \A t \in WithStatus(graph, {"READY"}) \cup pass.todo : DepsDone(t)
        /\ \A w \in WorkerId : Live(w) => DepsDone(w[1])
    BY DEF DepsInv
  <1>3. \A t \in DOMAIN graph : DepsDone(t) => DepsDone(t)'
    BY DepsStay
  <1>4. \A t \in WithStatus(graph', {"READY"}) \cup pass'.todo : DepsDone(t)'
    BY <1>1, <1>2, <1>3
  <1>5. \A w \in WorkerId : Live(w)' => DepsDone(w[1])'
    BY <1>1, <1>2, <1>3
  <1>6. pass'.pc \in {"reroute", "start"} => DepsDone(pass.task)'
    <2> SUFFICES ASSUME NEW t, t = pass'.task, pass'.pc \in {"reroute", "start"}
                 PROVE  DepsDone(t)'
      BY DEF DepsDone
    <2> QED BY <1>3
  <1> QED BY <1>4, <1>5, <1>6 DEF DepsInv

\* What a pass has in hand it found waiting, or had in hand already.
LEMMA PassHands ==
    ASSUME WorkersInv, PassBegin \/ PassStep \/ PassEnd
    PROVE  /\ \/ pass'.todo \subseteq pass.todo
              \/ UNCHANGED graph /\ pass'.todo = ReadyTasks(graph)
           /\ pass'.pc \in {"reroute", "start"} =>
                 \/ pass'.task \in pass.todo
                 \/ pass.pc = "reroute" /\ pass'.task = pass.task
           /\ \A w \in WorkerId : Live(w)' =>
                 Live(w) \/ (pass.pc = "start" /\ w[1] = pass.task)
  <1> DEFINE Goal == /\ \/ pass'.todo \subseteq pass.todo
                        \/ UNCHANGED graph /\ pass'.todo = ReadyTasks(graph)
                     /\ pass'.pc \in {"reroute", "start"} =>
                           \/ pass'.task \in pass.todo
                           \/ pass.pc = "reroute" /\ pass'.task = pass.task
                     /\ \A w \in WorkerId : Live(w)' =>
                           Live(w) \/ (pass.pc = "start" /\ w[1] = pass.task)
  <1>1. pass \in PassRecord /\ WorkersOK
    BY DEF WorkersInv, TypeOK, SchedTypeOK, WorkersOK
  <1>2. CASE PassBegin
    <2>1. UNCHANGED <<graph, worker>> /\ pass'.pc = "pick" /\ pass'.todo = ReadyTasks(graph)
      BY <1>2 DEF PassBegin, IdlePass
    <2> QED BY <2>1 DEF Live
  <1>3. CASE PassEnd
    <2>1. UNCHANGED worker /\ pass'.pc = "idle" /\ pass'.todo = {}
      BY <1>3, Zenon DEF PassEnd, IdlePass
    <2> QED BY <2>1 DEF Live
  <1>4. CASE PassResume
    BY <1>1, <1>4 DEF PassResume, Acquire, PassRecord, Live
  <1>5. ASSUME NEW t \in pass.todo, NEW S, PassAssign(t, S) PROVE Goal
    BY <1>1, <1>5 DEF PassAssign, Acquire, PassRecord, Live
  <1>6. ASSUME NEW t \in pass.todo, NEW S, PassReroute(t, S) PROVE Goal
    BY <1>1, <1>6 DEF PassReroute, PassRecord, Live
  <1>7. ASSUME NEW w \in WorkerId, PassLaunch(w) PROVE Goal
    <2>1. /\ pass'.todo = pass.todo /\ pass'.pc = "pick" /\ pass.pc = "start" /\ w[1] = pass.task
          /\ \A v \in WorkerId : v # w => worker'[v] = worker[v]
      BY <1>1, <1>7 DEF PassLaunch, PassRecord, WorkersOK
    <2> QED BY <2>1 DEF Live
  <1> QED BY <1>2, <1>3, <1>4, <1>5, <1>6, <1>7 DEF PassStep

LEMMA PassDeps ==
    ASSUME WorkersInv, StatusInv, DepsInv, PassBegin \/ PassStep \/ PassEnd
    PROVE  DepsInv'
  <1>1. Persists /\ NoneReadied
    BY PassStatus DEF NoneMarked
  <1>2. /\ pass.todo \subseteq DOMAIN graph
        /\ pass.pc \in {"reroute", "start"} => pass.task \in DOMAIN graph
    BY DEF WorkersInv, KnownTasks
  <1>3. \A t \in ReadyTasks(graph) : t \in DOMAIN graph /\ DepsDone(t)
    BY DEF ReadyTasks, DepsInv, DepsDone, WithStatus
  <1>4. /\ \A t \in pass.todo : DepsDone(t)
        /\ pass.pc \in {"reroute", "start"} => DepsDone(pass.task)
    BY DEF DepsInv
  <1>5. \A t \in WithStatus(graph', {"READY"}) \cup pass'.todo :
           \/ t \in WithStatus(graph, {"READY"}) \cup pass.todo
           \/ t \in DOMAIN graph /\ DepsDone(t)
    BY <1>1, <1>3, PassHands DEF NoneReadied
  <1>6. \A w \in WorkerId : Live(w)' => Live(w) \/ (w[1] \in DOMAIN graph /\ DepsDone(w[1]))
    BY <1>2, <1>4, PassHands
  <1>7. pass'.pc \in {"reroute", "start"} => pass'.task \in DOMAIN graph /\ DepsDone(pass'.task)
    BY <1>2, <1>4, PassHands
  <1> QED BY <1>1, <1>5, <1>6, <1>7, DepsCarried

\* A worker hands its task back as READY; it had its dependencies done.
LEMMA WorkerDeps ==
    ASSUME WorkersInv, StatusInv, DepsInv, NEW w \in WorkerId, WorkerStep(w)
    PROVE  DepsInv'
  <1>1. Persists
    BY WorkerStatus
  <1>2. w[1] \in DOMAIN graph /\ DepsDone(w[1])
    BY WorkerMarks DEF DepsInv
  <1>3. \A t \in WithStatus(graph', {"READY"}) : t \in WithStatus(graph, {"READY"}) \/ t = w[1]
    BY WorkerMarks DEF WithStatus
  <1>4. \A v \in WorkerId : Live(v)' => Live(v)
    BY WorkerMarks DEF Live
  <1>5. UNCHANGED pass /\ (pass.pc \in {"reroute", "start"} => pass.task \in DOMAIN graph)
    BY WorkerMarks DEF WorkersInv, KnownTasks
  <1>6. pass'.pc \in {"reroute", "start"} => pass'.task \in DOMAIN graph /\ DepsDone(pass'.task)
    BY <1>5 DEF DepsInv
  <1> QED BY <1>1, <1>2, <1>3, <1>4, <1>5, <1>6, DepsCarried

LEMMA OtherDeps ==
    ASSUME WorkersInv, DepsInv, Persists, NoneReadied,
           UNCHANGED pass \/ pass' = IdlePass, \A w \in WorkerId : Live(w)' => Live(w)
    PROVE  DepsInv'
  <1>1. \A t \in pass'.todo : t \in pass.todo
    BY DEF IdlePass
  <1>2. pass'.pc \in {"reroute", "start"} => UNCHANGED pass
    BY DEF IdlePass
  <1>3. pass'.pc \in {"reroute", "start"} => pass'.task \in DOMAIN graph /\ DepsDone(pass'.task)
    BY <1>2 DEF DepsInv, WorkersInv, KnownTasks
  <1> QED BY <1>1, <1>3, DepsCarried DEF NoneReadied

LEMMA NextDeps ==
    ASSUME WorkersInv, StatusInv, DepsInv, [Next]_vars, DriverStep /\ Calm => Harmless
    PROVE  DepsInv'
  <1>1. Persists
    BY NextStatus
  <1>2. CASE PassBegin \/ PassStep \/ PassEnd
    BY <1>2, PassDeps
  <1>3. CASE Calm
    <2>1. Edited(graph, graph') /\ \A t \in DOMAIN graph : graph[t] \in TaskNode
      BY <1>3 DEF Calm, WorkersInv, TypeOK, SchedTypeOK, IsGraph
    <2>2. ASSUME NEW t \in WithStatus(graph', {"READY"}) PROVE t \in WithStatus(graph, {"READY"})
      <3>1. t \in DOMAIN graph
        BY <2>1, <2>2 DEF Edited, WithStatus
      <3>2. graph'[t] = graph[t]
        BY <2>1, <2>2, <3>1, EditedNode DEF WithStatus
      <3> QED BY <2>2, <3>1, <3>2 DEF WithStatus
    <2>3. \A w \in WorkerId : Live(w)' => Live(w)
      BY <1>3 DEF Calm, Quiet, Live, Done
    <2> QED BY <1>1, <1>3, <2>2, <2>3, OtherDeps DEF Calm, NoneReadied
  <1>4. CASE Cancels
    <2>1. \A t \in WithStatus(graph', {"READY"}) : t \in WithStatus(graph, {"READY"})
      <3>1. CASE UNCHANGED graph
        BY <3>1
      <3>2. ASSUME NEW t \in WithStatus(graph, {"RUNNING", "READY", "PENDING", "CANCELLED"}),
                   graph' = MarkCancelled(graph, t)
            PROVE  \A u \in WithStatus(graph', {"READY"}) : u \in WithStatus(graph, {"READY"})
        <4>1. t \in DOMAIN graph /\ IsGraph(graph)
          BY DEF WithStatus, WorkersInv, TypeOK, SchedTypeOK
        <4>2. /\ DOMAIN graph' = DOMAIN graph /\ graph'[t].status = "CANCELLED"
              /\ \A u \in DOMAIN graph \ {t} : graph'[u] = graph[u]
          BY <3>2, <4>1, MarkKeeps DEF MarkCancelled
        <4> QED BY <4>2 DEF WithStatus
      <3> QED BY <1>4, <3>1, <3>2 DEF Cancels
    <2>2. \A w \in WorkerId : Live(w)' => Live(w)
      BY <1>4 DEF Cancels, Quiet, Live, Done
    <2> QED BY <1>1, <1>4, <2>1, <2>2, OtherDeps DEF Cancels, NoneReadied
  <1>5. ASSUME NEW w \in WorkerId, RunWorker(w) PROVE DepsInv'
    BY <1>5, WorkerDeps DEF RunWorker
  <1>6. CASE EnvStep \/ Ended \/ UNCHANGED vars
    <2>1. UNCHANGED <<graph, pass, worker>>
      BY <1>6 DEF EnvStep, HealthChanges, Ended, vars, schedVars
    <2> QED BY <2>1 DEF DepsInv, DepsDone, Live
  <1> QED BY <1>2, <1>3, <1>4, <1>5, <1>6, DriverPasses, ControlCalm DEF Next

----------------------------------------------------------------------------
(* One worker at a time                                                     *)

\* run_until_complete is through with the loop.
Over == drv.pc \in {"drain", "unwind", "ended"}

\* Where the driver goes from where it is.
LEMMA DriverTurns ==
    ASSUME WorkersInv, DriverStep
    PROVE  \/ RunPass \/ FinishPass \/ Wake \/ DriverSwallows
           \/ BeginPass /\ PassBegin /\ drv'.pc = "pass" /\ UNCHANGED active
           \/ \E w \in drv.batch : CollectResult(w) \/ RepairVerdict(w) \/ RepairRefused(w)
           \/ Over' /\ (active' = {} \/ UNCHANGED <<active, worker>>)
           \/ /\ drv.pc \notin {"pass", "wait"} /\ ~Over
              /\ drv'.pc \notin {"pass", "wait", "collect", "batch"}
              /\ UNCHANGED <<active, worker>>
  <1> DEFINE Turns == \/ Over' /\ (active' = {} \/ UNCHANGED <<active, worker>>)
                      \/ /\ drv.pc \notin {"pass", "wait"} /\ ~Over
                         /\ drv'.pc \notin {"pass", "wait", "collect", "batch"}
                         /\ UNCHANGED <<active, worker>>
  <1>1. drv \in Driver
    BY DEF WorkersInv, TypeOK
  <1> DEFINE Here == drv.pc \notin {"pass", "wait"} /\ ~Over
             To   == {"plan", "planned", "step", "refused", "planner", "returned", "exit", "again",
                      "check", "verify", "repair", "repaired"}
  <1>2. ASSUME Here, NEW s, NEW to \in To, DriverTo(s, to) PROVE Turns
    BY <1>1, <1>2 DEF DriverTo, EndRun, CancelActive, Driver, Over
  <1>23. ASSUME Here, NEW to \in To, Continue(to) PROVE Turns
    BY <1>1, <1>23 DEF Continue, Driver, Over
  <1>24. ASSUME Here, NEW why, Ask(why) PROVE Turns
    BY <1>1, <1>24 DEF Ask, Driver, Over
  <1>25. ASSUME Here, EndRun("drain") PROVE Turns
    BY <1>1, <1>25 DEF EndRun, CancelActive, Driver, Over
  <1>3. ASSUME NEW pc \in {"step", "plan", "planned", "request", "planner", "applied", "refused",
                           "returned", "again", "collect", "batch", "check", "verify", "repair",
                           "repaired", "exit"}, DriverAt(pc)
        PROVE  Here
    BY <1>3 DEF DriverAt, Over
  <1> HIDE DEF Here
  <1>4. CASE StartPlanning
    BY <1>2, <1>23, <1>24, <1>25, <1>3, <1>4 DEF StartPlanning
  <1>5. CASE InitialPlan
    BY <1>2, <1>23, <1>24, <1>25, <1>3, <1>5 DEF InitialPlan
  <1>6. CASE FinishPlanning
    BY <1>2, <1>23, <1>24, <1>25, <1>3, <1>6 DEF FinishPlanning
  <1>7. CASE RequestReplan
    BY <1>2, <1>23, <1>24, <1>25, <1>3, <1>7 DEF RequestReplan
  <1>8. CASE Plan
    BY <1>1, <1>3, <1>8 DEF Plan, Driver, Here
  <1>9. CASE ConcludeReplan
    BY <1>2, <1>23, <1>24, <1>25, <1>3, <1>9 DEF ConcludeReplan
  <1>10. CASE AfterReplan
    BY <1>2, <1>23, <1>24, <1>25, <1>3, <1>10 DEF AfterReplan
  <1>11. CASE BeginPass
    <2>1. CASE DriverTo("VERIFYING", "step")
      BY <1>2, <1>23, <1>24, <1>25, <1>3, <1>11, <2>1 DEF BeginPass, StepAt
    <2>2. CASE PassBegin /\ drv' = [drv EXCEPT !.pc = "pass"] /\ UNCHANGED active
      BY <1>1, <1>11, <2>2 DEF Driver
    <2> QED BY <1>11, <2>1, <2>2 DEF BeginPass
  <1>12. CASE CapacityRestored
    BY <1>2, <1>23, <1>24, <1>25, <1>3, <1>12 DEF CapacityRestored, StepAt
  <1>13. CASE FinishBatch
    BY <1>2, <1>23, <1>24, <1>25, <1>3, <1>13 DEF FinishBatch
  <1>14. CASE CheckBatch
    BY <1>2, <1>23, <1>24, <1>25, <1>3, <1>14 DEF CheckBatch
  <1>15. ASSUME NEW w \in drv.batch, RepairRaises(w) PROVE Turns
    BY <1>2, <1>23, <1>24, <1>25, <1>3, <1>15 DEF RepairRaises
  <1>16. CASE Verify
    BY <1>2, <1>23, <1>24, <1>25, <1>3, <1>16 DEF Verify, StepAt
  <1>17. CASE AfterRepair
    BY <1>2, <1>23, <1>24, <1>25, <1>3, <1>17 DEF AfterRepair
  <1>18. ASSUME NEW v \in Verdicts, Verdict(v) PROVE Turns
    BY <1>2, <1>23, <1>24, <1>25, <1>3, <1>18 DEF Verdict
  <1>19. ASSUME NEW rec \in Recommends, Repair(rec) PROVE Turns
    BY <1>2, <1>23, <1>24, <1>25, <1>3, <1>19 DEF Repair
  <1>20. CASE LeaveLoop
    BY <1>2, <1>23, <1>24, <1>25, <1>3, <1>20 DEF LeaveLoop
  <1>21. CASE RunEnds \/ DrainInterrupted
    BY <1>1, <1>21 DEF RunEnds, DrainInterrupted, schedVars, Driver, Over
  <1>22. CASE DriverInterrupted
    BY <1>1, <1>22 DEF DriverInterrupted, EndRun, CancelActive, Driver, Over
  <1> QED BY <1>4, <1>5, <1>6, <1>7, <1>8, <1>9, <1>10, <1>11, <1>12, <1>13, <1>14, <1>15, <1>16,
             <1>17, <1>18, <1>19, <1>20, <1>21, <1>22 DEF DriverStep

\* Only a worker that failed ends with a verdict.
VerdictsFail ==
    \A w \in WorkerId : worker[w].pc \in {"okEmit", "record", "routeEmit", "backEmit"} =>
                           worker[w].result # "verdict"

\* The check that gave the verdict is neither done nor replaced.
Open(w) == Done(w) /\ worker[w].result = "verdict" =>
              graph[w[1]].status \notin {"SUCCEEDED", "SUPERSEDED"}

\* With a concurrency limit of one, there is one worker at most, and while the
\* loop goes on the driver waits for it.
LoneInv ==
    /\ drv.pc # "pass" => pass = IdlePass
    /\ VerdictsFail
    /\ ~Over =>
          /\ drv.pc # "wait" => active = {}
          /\ \A w \in WorkerId : Live(w) =>
                \/ drv.pc = "pass" /\ pass.launched = {w}
                \/ drv.pc = "wait" /\ drv.waiting = {w}
          /\ drv.pc = "pass" /\ pass.launched # {} =>
                pass.pc = "pick" /\ \E w \in WorkerId : pass.launched = {w} /\ worker[w].pc = "new"
          /\ drv.pc = "wait" => \E w \in WorkerId : drv.waiting = {w} /\ Open(w)
          /\ drv.pc \in {"collect", "batch"} =>
                drv.batch = {} \/ \E w \in WorkerId : drv.batch = {w} /\ Open(w)

LEMMA QuietVerdicts == ASSUME VerdictsFail, Quiet PROVE VerdictsFail'
  BY DEF VerdictsFail, Quiet

\* The driver is done with the worker, or with everything.
LEMMA LeavesAlone ==
    ASSUME WorkersInv, LoneInv, Quiet, UNCHANGED pass \/ pass' = IdlePass,
           \/ Over' /\ (drv.pc = "pass" => pass' = IdlePass)
           \/ /\ drv.pc \notin {"pass", "wait"} /\ ~Over
              /\ drv'.pc \notin {"pass", "wait", "collect", "batch"}
              /\ UNCHANGED active
    PROVE  LoneInv'
  <1>1. VerdictsFail'
    BY QuietVerdicts DEF LoneInv
  <1>2. pass' = IdlePass
    BY DEF LoneInv
  <1>3. CASE Over'
    BY <1>1, <1>2, <1>3 DEF LoneInv
  <1>4. CASE /\ drv.pc \notin {"pass", "wait"} /\ ~Over
             /\ drv'.pc \notin {"pass", "wait", "collect", "batch"}
             /\ UNCHANGED active
    <2>1. \A w \in WorkerId : ~Live(w)
      BY <1>4 DEF LoneInv
    <2>2. \A w \in WorkerId : ~Live(w)'
      BY <2>1 DEF Quiet, Live, Done
    <2> QED BY <1>1, <1>2, <1>4, <2>2 DEF LoneInv
  <1> QED BY <1>3, <1>4

LEMMA PassLone ==
    ASSUME WorkersInv, LimitInv, LoneInv, ConcurrencyLimit = 1, RunPass
    PROVE  LoneInv'
  <1>1. /\ pass \in PassRecord /\ WorkersOK /\ IsGraph(graph)
        /\ drv.pc = "pass" /\ UNCHANGED engineVars /\ UNCHANGED <<drv, active>> /\ ~Over
    BY DEF WorkersInv, TypeOK, SchedTypeOK, WorkersOK, RunPass, DriverAt, engineVars, Over
  <1>2. ASSUME pass.launched = {}, pass'.launched = {}, UNCHANGED worker
        PROVE  LoneInv'
    BY <1>1, <1>2 DEF LoneInv, VerdictsFail, Live, Over
  <1>3. ASSUME pass.pc \in {"reroute", "start"} PROVE pass.launched = {}
    BY <1>1, <1>3 DEF LoneInv
  <1>4. ASSUME CanDispatchMore PROVE pass.launched = {}
    <2>1. SUFFICES ASSUME NEW w \in WorkerId, worker[w].pc = "new" PROVE FALSE
      BY <1>1 DEF LoneInv
    <2>2. w[1] \in running
      BY <2>1 DEF WorkersInv, WorkInv, Live
    <2>3. IsFiniteSet(running) /\ Cardinality(running) \in Nat
      BY FS_CardinalityType DEF LimitInv
    <2>4. Cardinality(running) # 0
      BY <2>2, <2>3, FS_EmptySet
    <2> QED BY <1>4, <2>3, <2>4 DEF CanDispatchMore
  <1>5. CASE PassResume
    BY <1>1, <1>2, <1>3, <1>5 DEF PassResume, Acquire, PassRecord
  <1>6. ASSUME NEW t, NEW S, PassAssign(t, S) PROVE LoneInv'
    BY <1>1, <1>2, <1>4, <1>6 DEF PassAssign, Picks, Acquire, PassRecord
  <1>7. ASSUME NEW t, NEW S, PassReroute(t, S) PROVE LoneInv'
    BY <1>1, <1>2, <1>4, <1>7 DEF PassReroute, Picks, PassRecord
  <1>8. ASSUME NEW w \in WorkerId, PassLaunch(w) PROVE LoneInv'
    <2>1. /\ pass.launched = {} /\ pass'.launched = {w} /\ pass'.pc = "pick"
          /\ worker'[w].pc = "new" /\ \A v \in WorkerId : v # w => worker'[v] = worker[v]
      BY <1>1, <1>3, <1>8 DEF PassLaunch, PassRecord, WorkersOK, NoWorker
    <2>2. \A v \in WorkerId : ~Live(v)
      BY <1>1, <2>1 DEF LoneInv
    <2>3. \A v \in WorkerId : Live(v)' => v = w
      BY <2>1, <2>2 DEF Live
    <2>4. VerdictsFail'
      BY <2>1 DEF LoneInv, VerdictsFail
    <2> QED BY <1>1, <2>1, <2>3, <2>4 DEF LoneInv, Over
  <1> QED BY <1>5, <1>6, <1>7, <1>8 DEF RunPass, PassStep

LEMMA WaitLone ==
    ASSUME WorkersInv, LoneInv, FinishPass \/ Wake
    PROVE  LoneInv'
  <1>1. drv \in Driver /\ pass \in PassRecord
    BY DEF WorkersInv, TypeOK, SchedTypeOK
  <1>2. CASE FinishPass
    <2>1. /\ drv.pc = "pass" /\ UNCHANGED worker /\ pass' = IdlePass /\ active = {} /\ ~Over
          /\ VerdictsFail' /\ active' \subseteq pass.launched
      BY <1>2 DEF FinishPass, PassEnd, DriverAt, LoneInv, VerdictsFail, Over
    <2>2. CASE pass.launched = {}
      <3>1. drv'.pc \in {"check", "step", "drain"}
        BY <1>1, <1>2, <2>1, <2>2 DEF FinishPass, Driver
      <3>2. \A w \in WorkerId : ~Live(w)'
        BY <2>1, <2>2 DEF LoneInv, Live
      <3> QED BY <2>1, <2>2, <3>1, <3>2 DEF LoneInv, Over
    <2>3. CASE pass.launched # {}
      <3>1. PICK w \in WorkerId : pass.launched = {w} /\ worker[w].pc = "new"
        BY <2>1, <2>3 DEF LoneInv
      <3>5. active \cup pass.launched = {w}
        BY <2>1, <3>1
      <3>6. drv' = [drv EXCEPT !.pc = "wait", !.waiting = {w}]
        BY <1>2, <3>5 DEF FinishPass
      <3>2. drv'.pc = "wait" /\ drv'.waiting = {w}
        BY <1>1, <3>6 DEF Driver
      <3>3. Open(w)'
        BY <2>1, <3>1 DEF Open, Done
      <3>4. \A v \in WorkerId : Live(v)' => v = w
        BY <2>1, <3>1 DEF LoneInv, Live
      <3> QED BY <2>1, <3>2, <3>3, <3>4 DEF LoneInv, Over
    <2> QED BY <2>2, <2>3
  <1>3. CASE Wake
    <2>1. /\ drv.pc = "wait" /\ UNCHANGED <<graph, worker, pass>> /\ ~Over
          /\ pass = IdlePass /\ VerdictsFail'
      BY <1>3 DEF Wake, DriverAt, schedVars, LoneInv, VerdictsFail, Over
    <2>2. PICK w \in WorkerId : drv.waiting = {w} /\ Open(w)
      BY <2>1 DEF LoneInv
    <2> DEFINE done == {v \in drv.waiting : Done(v)}
    <2>3. done # {} /\ active' = drv.waiting \ done /\ drv'.pc = "collect" /\ drv'.batch = done
      BY <1>1, <1>3 DEF Wake, Driver
    <2>4. done = {w} /\ Done(w)
      BY <2>2, <2>3
    <2>5. \A v \in WorkerId : ~Live(v)'
      BY <2>1, <2>2, <2>4 DEF LoneInv, Live, Done
    <2>6. Open(w)'
      BY <2>1, <2>2 DEF Open, Done
    <2> HIDE DEF done
    <2> QED BY <2>1, <2>2, <2>3, <2>4, <2>5, <2>6 DEF LoneInv, Over
  <1> QED BY <1>2, <1>3

LEMMA CollectLone ==
    ASSUME WorkersInv, LoneInv, NEW w \in drv.batch,
           CollectResult(w) \/ RepairVerdict(w) \/ RepairRefused(w)
    PROVE  LoneInv'
  <1>1. drv \in Driver /\ WorkersOK /\ Done(w)
    BY DEF WorkersInv, TypeOK, SchedTypeOK, WorkersOK, KnownTasks
  <1>2. /\ drv.pc \in {"collect", "batch"} /\ worker' = [worker EXCEPT ![w] = NoWorker]
        /\ UNCHANGED <<active, pass>>
    BY DEF CollectResult, RepairVerdict, RepairRefused, TakeResult, DriverAt
  <1>3. drv'.pc \in {"collect", "batch"} /\ drv'.batch = drv.batch \ {w}
    BY <1>1 DEF CollectResult, RepairVerdict, RepairRefused, Driver
  <1>4. active = {} /\ pass = IdlePass /\ drv.batch = {w} /\ \A v \in WorkerId : ~Live(v)
    BY <1>2 DEF LoneInv, Over
  <1>5. Quiet
    BY <1>1, <1>2, TakeQuiet
  <1>6. \A v \in WorkerId : ~Live(v)'
    BY <1>4, <1>5 DEF Quiet, Live, Done
  <1> QED BY <1>2, <1>3, <1>4, <1>5, <1>6, QuietVerdicts DEF LoneInv

LEMMA SwallowLone ==
    ASSUME WorkersInv, LoneInv, DriverSwallows
    PROVE  LoneInv'
  <1>1. drv \in Driver /\ WorkersOK /\ \A w \in drv.batch : Done(w)
    BY DEF WorkersInv, TypeOK, SchedTypeOK, WorkersOK, KnownTasks
  <1>2. UNCHANGED <<graph, active, pass>> /\ drv.pc \in {"collect", "batch"} /\ drv'.pc = drv.pc
    BY <1>1 DEF DriverSwallows, Driver
  <1>3. active = {} /\ pass = IdlePass /\ \A v \in WorkerId : ~Live(v)
    BY <1>2 DEF LoneInv, Over
  <1>4. CASE UNCHANGED worker /\ drv' = [drv EXCEPT !.cancel = FALSE]
    <2>1. drv'.batch = drv.batch
      BY <1>1, <1>4 DEF Driver
    <2> QED BY <1>2, <1>3, <1>4, <2>1 DEF LoneInv, VerdictsFail, Open, Live, Done, Over
  <1>5. ASSUME NEW w \in drv.batch, worker' = [worker EXCEPT ![w] = NoWorker],
               drv' = [drv EXCEPT !.cancel = FALSE, !.batch = @ \ {w}]
        PROVE  LoneInv'
    <2>1. drv'.batch = drv.batch \ {w} /\ Quiet
      BY <1>1, <1>5, TakeQuiet DEF Driver
    <2>2. drv'.batch = {}
      BY <1>2, <1>5, <2>1 DEF LoneInv, Over
    <2>3. \A v \in WorkerId : ~Live(v)'
      BY <1>3, <2>1 DEF Quiet, Live, Done
    <2> QED BY <1>2, <1>3, <2>1, <2>2, <2>3, QuietVerdicts DEF LoneInv
  <1> QED BY <1>4, <1>5 DEF DriverSwallows

\* What a driver that is being cancelled does.
LEMMA DriverStopped ==
    ASSUME DriverStep, drv.cancel
    PROVE  DriverInterrupted \/ DriverSwallows \/ DrainInterrupted
  BY DEF DriverStep, DriverAt, StartPlanning, InitialPlan, FinishPlanning, RequestReplan, Plan,
         ConcludeReplan, AfterReplan, BeginPass, StepAt, RunPass, FinishPass, CapacityRestored,
         Wake, FinishBatch, CheckBatch, CollectResult, RepairVerdict, RepairRefused, TakeResult,
         RepairRaises, Verify, AfterRepair, Verdict, Repair, LeaveLoop, RunEnds

LEMMA DriverLone ==
    ASSUME WorkersInv, LimitInv, LoneInv, ConcurrencyLimit = 1, DriverStep
    PROVE  LoneInv'
  <1>1. CASE RunPass
    BY <1>1, PassLone
  <1>2. CASE FinishPass \/ Wake
    BY <1>2, WaitLone
  <1>3. CASE DriverSwallows
    BY <1>3, SwallowLone
  <1>4. CASE BeginPass /\ PassBegin /\ drv'.pc = "pass" /\ UNCHANGED active
    <2>1. drv.pc \in {"step", "again"} /\ UNCHANGED worker /\ pass'.launched = {}
      BY <1>4 DEF BeginPass, StepAt, DriverAt, PassBegin, IdlePass
    <2>2. active = {} /\ \A w \in WorkerId : ~Live(w)
      BY <2>1 DEF LoneInv, Over
    <2> QED BY <1>4, <2>1, <2>2 DEF LoneInv, VerdictsFail, Live
  <1>5. ASSUME NEW w \in drv.batch, CollectResult(w) \/ RepairVerdict(w) \/ RepairRefused(w)
        PROVE  LoneInv'
    BY <1>5, CollectLone
  <1> DEFINE Leaves == \/ Over' /\ (drv.pc = "pass" => pass' = IdlePass)
                       \/ /\ drv.pc \notin {"pass", "wait"} /\ ~Over
                          /\ drv'.pc \notin {"pass", "wait", "collect", "batch"}
                          /\ UNCHANGED active
  <1>6. CASE Calm /\ Leaves
    BY <1>6, LeavesAlone DEF Calm
  <1>7. CASE drv.pc = "pass" /\ ~RunPass /\ ~FinishPass
    <2>1. drv.cancel
      BY <1>7, DriverUnstopped DEF Wake, DriverAt
    <2>2. DriverInterrupted
      BY <1>7, <2>1, DriverStopped DEF DriverSwallows, DrainInterrupted
    <2>3. Calm /\ drv \in Driver
      BY <1>7, <2>2, DriverCalm DEF DriverInterrupted, BeginPass, StepAt, DriverAt, WorkersInv, TypeOK
    <2>4. Over' /\ pass' = IdlePass
      BY <2>2, <2>3 DEF DriverInterrupted, EndRun, Over, Driver
    <2> QED BY <1>6, <2>3, <2>4
  <1>8. ~(BeginPass /\ PassBegin) \/ drv.pc # "pass"
    BY DEF BeginPass, StepAt, DriverAt
  <1>9. CASE ~(BeginPass /\ PassBegin) /\ ~RunPass /\ ~FinishPass /\ drv.pc # "pass"
    <2>1. Calm
      BY <1>9, DriverCalm
    <2> QED BY <1>2, <1>3, <1>5, <1>6, <1>9, <2>1, DriverTurns
  <1>10. CASE BeginPass /\ PassBegin
    <2>1. drv \in Driver
      BY DEF WorkersInv, TypeOK
    <2>2. drv'.pc = "pass" /\ UNCHANGED active
      <3>1. UNCHANGED active /\ drv' = [drv EXCEPT !.pc = "pass"]
        <4>1. pass'.pc # pass.pc
          BY <1>10 DEF PassBegin, IdlePass
        <4> QED BY <1>10, <4>1 DEF BeginPass
      <3> QED BY <2>1, <3>1 DEF Driver
    <2> QED BY <1>4, <1>10, <2>2
  <1> QED BY <1>1, <1>2, <1>7, <1>8, <1>9, <1>10

\* A worker steps alone.
LEMMA WorkerAlone ==
    ASSUME WorkersOK, NEW w \in WorkerId, WorkerStep(w)
    PROVE  /\ UNCHANGED pass /\ Live(w)
           /\ \A v \in WorkerId : v # w => worker'[v] = worker[v]
  <1>1. UNCHANGED pass /\ Live(w)
    BY DEF WorkerStep, WorkerBegin, WorkerNeverRan, WorkerSucceeds, WorkerFails,
           WorkerProviderFails, WorkerReroutes, WorkerSettles, WorkerInterrupted,
           WorkerUnwinds, WorkerAt, Live
  <1>2. \E n : worker' = [worker EXCEPT ![w] = n]
    <2>1. ASSUME NEW pc, NEW r,
                 Move(w, pc) \/ worker' = [worker EXCEPT ![w].pc = pc, ![w].result = r]
          PROVE  \E n : worker' = [worker EXCEPT ![w] = n]
      BY <2>1 DEF Move, WorkersOK
    <2>2. CASE WorkerBegin(w) \/ WorkerNeverRan(w) \/ WorkerInterrupted(w)
      BY <2>1, <2>2 DEF WorkerBegin, WorkerNeverRan, WorkerInterrupted
    <2>3. ASSUME NEW r \in Outcome,
                 WorkerSucceeds(w, r) \/ WorkerFails(w, r) \/ WorkerProviderFails(w, r)
          PROVE  \E n : worker' = [worker EXCEPT ![w] = n]
      BY <2>1, <2>3 DEF WorkerSucceeds, WorkerFails, WorkerProviderFails
    <2>4. CASE WorkerReroutes(w)
      BY <2>1, <2>4, Zenon DEF WorkerReroutes
    <2>5. CASE WorkerSettles(w) \/ WorkerUnwinds(w)
      BY <2>1, <2>5 DEF WorkerSettles, WorkerUnwinds, Finish
    <2> QED BY <2>2, <2>3, <2>4, <2>5 DEF WorkerStep
  <1> QED BY <1>1, <1>2 DEF WorkersOK

\* Only the verdict of a check ends a worker with "verdict", and its task has
\* another attempt, or failed.
LEMMA WorkerResults ==
    ASSUME WorkersInv, VerdictsFail, NEW w \in WorkerId, WorkerStep(w)
    PROVE  VerdictsFail' /\ Open(w)'
  <1>1. WorkersOK /\ worker[w] \in WorkerRecord /\ IsGraph(graph)
    BY DEF WorkersInv, TypeOK, SchedTypeOK, WorkersOK
  <1> DEFINE Emits == {"okEmit", "record", "routeEmit", "backEmit"}
             Goal  == VerdictsFail' /\ Open(w)'
  <1>2. \A v \in WorkerId : v # w => worker'[v] = worker[v]
    BY <1>1, WorkerAlone
  <1>3. ASSUME worker'[w].pc \in Emits => worker'[w].result # "verdict", ~Done(w)'
        PROVE  Goal
    BY <1>2, <1>3 DEF VerdictsFail, Open
  <1>4. ASSUME worker'[w].result # "verdict" PROVE Goal
    BY <1>2, <1>4 DEF VerdictsFail, Open
  <1>5. ASSUME NEW pc, Move(w, pc) PROVE worker'[w].pc = pc /\ worker'[w].result = worker[w].result
    BY <1>1, <1>5 DEF Move, WorkersOK, WorkerRecord
  <1>6. ASSUME NEW pc, NEW r, worker' = [worker EXCEPT ![w].pc = pc, ![w].result = r]
        PROVE  worker'[w].pc = pc /\ worker'[w].result = r
    BY <1>1, <1>6 DEF WorkersOK, WorkerRecord
  <1>7. CASE WorkerBegin(w) \/ WorkerInterrupted(w)
    BY <1>3, <1>5, <1>7 DEF WorkerBegin, WorkerInterrupted, Done
  <1>8. CASE WorkerNeverRan(w) \/ WorkerUnwinds(w)
    BY <1>4, <1>6, <1>8 DEF WorkerNeverRan, WorkerUnwinds, Finish
  <1>9. ASSUME NEW r \in Outcome, WorkerSucceeds(w, r) \/ WorkerProviderFails(w, r) PROVE Goal
    BY <1>3, <1>6, <1>9 DEF WorkerSucceeds, WorkerProviderFails, Done
  <1>10. ASSUME NEW r \in Outcome, WorkerFails(w, r) PROVE Goal
    BY <1>3, <1>6, <1>10 DEF WorkerFails, Done
  <1>11. CASE WorkerReroutes(w)
    <2>1. worker[w].result # "verdict"
      BY <1>11 DEF WorkerReroutes, WorkerAt, VerdictsFail
    <2>2. \E pc \in {"routeEmit", "backEmit", "failEmit"} : Move(w, pc)
      BY <1>11, Zenon DEF WorkerReroutes
    <2> QED BY <1>4, <1>5, <2>1, <2>2
  <1>12. CASE WorkerSettles(w)
    <2>1. worker'[w].pc = "done" /\ worker'[w].result = worker[w].result
      BY <1>6, <1>12 DEF WorkerSettles, Finish
    <2>2. CASE worker[w].pc \in Emits
      BY <1>4, <2>1, <2>2 DEF VerdictsFail
    <2>3. CASE WorkerAt(w, "failEmit") /\ graph' = MarkFailure(graph, w[1])
      <3>1. w[1] \in DOMAIN graph
        BY <2>3 DEF WorkerAt, WorkersInv, KnownTasks
      <3>2. graph'[w[1]].status \in {"READY", "FAILED"}
        BY <1>1, <2>3, <3>1, MarkKeeps DEF MarkFailure
      <3> QED BY <1>2, <2>1, <3>2 DEF VerdictsFail, Open
    <2> QED BY <1>12, <2>2, <2>3 DEF WorkerSettles, WorkerAt
  <1> QED BY <1>7, <1>8, <1>9, <1>10, <1>11, <1>12 DEF WorkerStep

LEMMA WorkerLone ==
    ASSUME WorkersInv, LoneInv, NEW w \in WorkerId, RunWorker(w)
    PROVE  LoneInv'
  <1>1. /\ UNCHANGED <<pass, drv, active>> /\ Live(w) /\ AtAwait
        /\ \A v \in WorkerId : v # w => worker'[v] = worker[v]
    BY WorkerAlone DEF RunWorker, engineVars, WorkersInv, TypeOK, SchedTypeOK, WorkersOK
  <1>2. VerdictsFail' /\ Open(w)'
    BY WorkerResults DEF RunWorker, LoneInv
  <1>3. ASSUME ~Over PROVE drv.pc = "wait" /\ drv.waiting = {w}
    BY <1>1, <1>3 DEF LoneInv, AtAwait
  <1>4. \A v \in WorkerId : v # w => Live(v)' = Live(v)
    BY <1>1 DEF Live
  <1> QED BY <1>1, <1>2, <1>3, <1>4 DEF LoneInv, Over

LEMMA ControlLone ==
    ASSUME WorkersInv, LoneInv, ControlStep
    PROVE  LoneInv'
  <1>1. Cancels /\ AtAwait /\ drv \in Driver /\ IsGraph(graph)
    BY ControlCalm DEF ControlStep, WorkersInv, TypeOK, SchedTypeOK
  <1>2. /\ drv'.pc = drv.pc /\ drv'.waiting = drv.waiting /\ drv'.batch = drv.batch
        /\ active' \in {active, {}}
    BY <1>1 DEF ControlStep, CancelJob, CancelWorkers, CancelAcknowledged, CancelTask,
                FenceEngine, FenceSettles, StopDriver, CancelActive, Driver
  <1>3. Quiet /\ UNCHANGED pass /\ VerdictsFail'
    BY <1>1, QuietVerdicts DEF Cancels, LoneInv
  <1>4. \A w \in WorkerId : Live(w)' => Live(w)
    BY <1>3 DEF Quiet, Live, Done
  <1>5. ASSUME NEW w \in WorkerId, Open(w) PROVE Open(w)'
    <2>1. ASSUME Done(w)', worker'[w].result = "verdict"
          PROVE  graph[w[1]].status \notin {"SUCCEEDED", "SUPERSEDED"} /\ w[1] \in DOMAIN graph
      BY <1>3, <1>5, <2>1 DEF Quiet, Done, Open, WorkersInv, KnownTasks
    <2>2. ASSUME NEW t \in WithStatus(graph, {"RUNNING", "READY", "PENDING", "CANCELLED"}),
                 graph' = MarkCancelled(graph, t)
          PROVE  Open(w)'
      <3>1. t \in DOMAIN graph
        BY DEF WithStatus
      <3>2. graph'[t].status = "CANCELLED" /\ \A u \in DOMAIN graph \ {t} : graph'[u] = graph[u]
        BY <1>1, <2>2, <3>1, MarkKeeps DEF MarkCancelled
      <3> QED BY <2>1, <3>2 DEF Open
    <2>3. CASE UNCHANGED graph
      BY <2>1, <2>3 DEF Open
    <2> QED BY <1>1, <2>2, <2>3 DEF Cancels
  <1>6. ~Over => ~(drv.pc = "pass" /\ pass.launched # {})
    BY <1>1 DEF LoneInv, AtAwait
  <1> QED BY <1>2, <1>3, <1>4, <1>5, <1>6 DEF LoneInv, Over

LEMMA NextLone ==
    ASSUME WorkersInv, LimitInv, LoneInv, ConcurrencyLimit = 1, [Next]_vars
    PROVE  LoneInv'
  <1>1. CASE EnvStep \/ Ended \/ UNCHANGED vars
    <2>1. UNCHANGED <<graph, pass, worker, drv, active>>
      BY <1>1 DEF EnvStep, HealthChanges, Ended, vars, schedVars, engineVars
    <2> QED BY <2>1 DEF LoneInv, VerdictsFail, Open, Live, Done, Over
  <1> QED BY <1>1, DriverLone, WorkerLone, ControlLone DEF Next

LEMMA InitLone == Init => LoneInv
  BY DEF Init, SchedInit, LoneInv, VerdictsFail, NoWorker, Live, Over

----------------------------------------------------------------------------
(* What is superseded stays so                                              *)

\* A verdict may ask for repairs only where no other worker runs.  A check that
\* failed with attempts left may be dispatched again before its verdict is read,
\* which then supersedes a task with a worker at work (EngineStaleVerdict): the
\* end of that worker undoes the supersession, and meanwhile the job may be
\* verified.  None of the theorems below holds of such engines; they are about
\* those that run one worker at a time, have no planner, or repair no verdicts.
CarefulRepairs == VerdictRepairs /\ HasPlanner => ConcurrencyLimit = 1

\* The driver replaces no task that somebody has in hand.
LEMMA NoHarm ==
    ASSUME CarefulRepairs, WorkersInv, StatusInv, ConcurrencyLimit = 1 => LoneInv,
           DriverStep, Calm
    PROVE  Harmless
  <1>1. CASE OnlyFailed
    BY <1>1, FailedIsFree
  <1>2. ASSUME NEW w \in drv.batch, RepairVerdict(w) PROVE Harmless
    <2>1. /\ drv.pc \in {"collect", "batch"} /\ LoneInv /\ Done(w)
          /\ worker[w].result = "verdict"
      BY <1>2 DEF RepairVerdict, TakeResult, DriverAt, ForRepair, CarefulRepairs, WorkersInv, KnownTasks
    <2>2. /\ Open(w) /\ pass = IdlePass /\ \A v \in WorkerId : ~Live(v)
      BY <1>2, <2>1 DEF LoneInv, Over
    <2>3. \A t \in DOMAIN graph : graph'[t] = graph[t] \/ t = w[1]
      BY <1>2, VerdictEdits
    <2> QED BY <2>1, <2>2, <2>3 DEF Harmless, Open, IdlePass
  <1> QED BY <1>1, <1>2 DEF Calm

SettledInv == StatusInv /\ (ConcurrencyLimit = 1 => LoneInv)

LEMMA NextSettled ==
    CarefulRepairs /\ WorkersInv /\ LimitInv /\ SettledInv /\ [Next]_vars =>
       SettledInv' /\ Persists /\ (DepsInv => DepsInv')
  <1> SUFFICES ASSUME CarefulRepairs, WorkersInv, LimitInv, SettledInv, [Next]_vars
               PROVE  SettledInv' /\ Persists /\ (DepsInv => DepsInv')
    OBVIOUS
  <1>1. DriverStep /\ Calm => Harmless
    BY NoHarm DEF SettledInv
  <1>2. StatusInv' /\ Persists
    BY <1>1, NextStatus DEF SettledInv
  <1>3. DepsInv => DepsInv'
    BY <1>1, NextDeps DEF SettledInv
  <1>4. ConcurrencyLimit = 1 => LoneInv'
    BY NextLone DEF SettledInv
  <1> QED BY <1>2, <1>3, <1>4 DEF SettledInv

LEMMA InitSettled == Init => SettledInv
  BY InitStatus, InitLone DEF SettledInv

\* No task superseded by its repair or its copy (supersede_task,
\* task_graph.py:249) comes back: what waits for the replacement goes on
\* waiting for it.
THEOREM EngineSupersededStays ==
    ASSUME CarefulRepairs
    PROVE  Spec => SupersededStays
  <1> DEFINE Stays == \A t \in DOMAIN graph :
                         graph[t].status = "SUPERSEDED" => graph'[t].status = "SUPERSEDED"
  <1>1. Persists => Stays
    BY DEF Persists
  <1>2. WorkersInv /\ LimitInv /\ SettledInv /\ [Next]_vars => SettledInv' /\ [Stays]_vars
    BY <1>1, NextSettled
  <1> HIDE DEF Stays
  <1>3. Spec => [][Stays]_vars
    BY <1>2, InitSettled, InitLimit, NextLimit, InitInv, NextInv, PTL DEF Spec
  <1> QED BY <1>3 DEF SupersededStays, Stays

\* A worker has a task whose dependencies are done (find_ready_tasks, asked before
\* the pass suspends), and they stay done while it is at work.
THEOREM EngineDependencies ==
    ASSUME CarefulRepairs
    PROVE  Spec => []RunsAfterDependencies
  <1>1. Init => DepsInv
    BY DEF Init, SchedInit, DepsInv, IdlePass, NoWorker, Live, WithStatus
  <1>2. WorkersInv /\ LimitInv /\ SettledInv /\ DepsInv /\ [Next]_vars => SettledInv' /\ DepsInv'
    BY NextSettled
  <1>3. DepsInv => RunsAfterDependencies
    BY DEF DepsInv, DepsDone, RunsAfterDependencies
  <1> QED BY <1>1, <1>2, <1>3, InitSettled, InitLimit, NextLimit, InitInv, NextInv, PTL DEF Spec

----------------------------------------------------------------------------
(* What verification is given to judge                                      *)

NoneLive == \A w \in WorkerId : ~Live(w)
AllDone  == \A t \in DOMAIN graph : graph[t].status \in {"SUCCEEDED", "SUPERSEDED"}

\* No task and no worker is cancelled unless the job is being stopped.
Stopped == fenced \/ job \in Terminal \/ Over
Uncancelled ==
    \/ Stopped
    \/ /\ WithStatus(graph, {"CANCELLED"}) = {}
       /\ \A w \in WorkerId : Live(w) => ~worker[w].cancel

\* What the driver tracks are workers whose results it has not taken yet.
Tracked ==
    /\ \A w \in active : worker[w].pc # "none"
    /\ drv.pc = "pass" => \A w \in pass.launched : worker[w].pc # "none"
    /\ drv.pc = "wait" => \A w \in drv.waiting : worker[w].pc # "none"
    /\ drv.pc \in {"collect", "batch"} => drv.batch \cap active = {}

\* The job is verified, and completed, when its tasks are done and its workers
\* are gone; a fenced engine does not get as far as the verification.
Verified ==
    /\ job = "VERIFYING" =>
          /\ Over \/ drv.pc \in {"step", "verify"}
          /\ \/ fenced /\ drv.pc # "verify"
             \/ ~fenced /\ AllDone /\ NoneLive
    /\ job = "COMPLETED" => (Over \/ drv.pc = "exit") /\ AllDone /\ NoneLive
    /\ ctl.pc \in {"persist", "mark"} => job = "CANCELLED"

VerifyInv == Uncancelled /\ Tracked /\ Verified

\* The driver leaves the fence and the controller's place alone.
LEMMA DriverAlone == ASSUME DriverStep PROVE UNCHANGED <<fenced, ctl>>
  BY DEF DriverStep, StartPlanning, InitialPlan, FinishPlanning, RequestReplan, Plan,
         ConcludeReplan, AfterReplan, BeginPass, RunPass, engineVars, FinishPass,
         CapacityRestored, Wake, FinishBatch, CheckBatch, CollectResult, RepairVerdict,
         RepairRefused, RepairRaises, Verify, AfterRepair, Verdict, Repair, LeaveLoop,
         RunEnds, DriverInterrupted, DriverSwallows, DrainInterrupted

\* The run does not begin again.
LEMMA OverStays == ASSUME WorkersInv, DriverStep, Over PROVE Over'
  BY DriverTurns DEF Over, RunPass, FinishPass, Wake, DriverSwallows, BeginPass, StepAt,
                     DriverAt, CollectResult, RepairVerdict, RepairRefused, TakeResult

\* What the driver does to workers while it goes on: it launches some, and
\* forgets those whose result it took.
LEMMA DriverTracked == ASSUME WorkersInv, Tracked, DriverStep PROVE Tracked'
  <1>1. drv \in Driver /\ pass \in PassRecord /\ WorkersOK /\ active \subseteq WorkerId
    BY DEF WorkersInv, TypeOK, SchedTypeOK, WorkersOK
  <1>2. CASE RunPass
    <2>1. UNCHANGED <<drv, active>> /\ drv.pc = "pass"
      BY <1>2 DEF RunPass, engineVars, DriverAt
    <2>2. CASE UNCHANGED worker /\ UNCHANGED pass.launched
      BY <2>1, <2>2 DEF Tracked
    <2>3. ASSUME NEW w \in WorkerId, PassLaunch(w) PROVE Tracked'
      <3>1. /\ worker'[w].pc = "new" /\ \A v \in WorkerId : v # w => worker'[v] = worker[v]
            /\ pass'.launched = pass.launched \cup {w}
        BY <1>1, <2>3 DEF PassLaunch, WorkersOK, NoWorker, PassRecord
      <3>2. pass.launched \subseteq WorkerId
        BY <1>1 DEF PassRecord
      <3> QED BY <1>1, <2>1, <3>1, <3>2 DEF Tracked
    <2>4. ASSUME PassResume \/ \E t, S : PassAssign(t, S) \/ PassReroute(t, S)
          PROVE  UNCHANGED worker /\ UNCHANGED pass.launched
      BY <1>1, <2>4 DEF PassResume, PassAssign, PassReroute, Acquire, PassRecord
    <2> QED BY <1>2, <2>2, <2>3, <2>4 DEF RunPass, PassStep
  <1>3. CASE FinishPass
    <2>1. UNCHANGED worker /\ drv.pc = "pass"
      BY <1>3 DEF FinishPass, PassEnd, DriverAt
    <2>2. CASE active \cup pass.launched # {}
      <3>1. active' = active \cup pass.launched /\ drv'.pc = "wait" /\ drv'.waiting = active'
        BY <1>1, <1>3, <2>2 DEF FinishPass, Driver
      <3> QED BY <2>1, <3>1 DEF Tracked
    <2>3. CASE active \cup pass.launched = {}
      <3>1. UNCHANGED active /\ drv'.pc \in {"check", "step", "drain"}
        BY <1>1, <1>3, <2>3 DEF FinishPass, Driver
      <3> QED BY <2>1, <3>1 DEF Tracked
    <2> QED BY <2>2, <2>3
  <1>4. CASE Wake
    <2> DEFINE done == {v \in drv.waiting : Done(v)}
    <2>1. UNCHANGED worker /\ drv.pc = "wait" /\ active' = drv.waiting \ done
      BY <1>4 DEF Wake, DriverAt, schedVars
    <2>2. drv'.pc = "collect" /\ drv'.batch = done
      BY <1>1, <1>4 DEF Wake, Driver
    <2> HIDE DEF done
    <2> QED BY <2>1, <2>2 DEF Tracked
  <1>5. ASSUME NEW w \in drv.batch, drv.pc \in {"collect", "batch"}, UNCHANGED active,
               worker' = [worker EXCEPT ![w] = NoWorker],
               drv'.pc \in {"collect", "batch"}, drv'.batch \subseteq drv.batch
        PROVE  Tracked'
    <2>1. \A v \in WorkerId : v # w => worker'[v] = worker[v]
      BY <1>1, <1>5 DEF WorkersOK
    <2>2. w \notin active
      BY <1>5 DEF Tracked
    <2> QED BY <1>1, <1>5, <2>1, <2>2 DEF Tracked
  <1>6. ASSUME NEW w \in drv.batch, CollectResult(w) \/ RepairVerdict(w) \/ RepairRefused(w)
        PROVE  Tracked'
    <2>1. /\ drv.pc \in {"collect", "batch"} /\ UNCHANGED active
          /\ worker' = [worker EXCEPT ![w] = NoWorker]
      BY <1>6 DEF CollectResult, RepairVerdict, RepairRefused, TakeResult, DriverAt
    <2>2. drv'.pc \in {"collect", "batch"} /\ drv'.batch \subseteq drv.batch
      BY <1>1, <1>6 DEF CollectResult, RepairVerdict, RepairRefused, Driver
    <2> QED BY <1>5, <2>1, <2>2
  <1>7. CASE DriverSwallows
    <2>1. drv.pc \in {"collect", "batch"} /\ UNCHANGED active /\ drv'.pc = drv.pc
      BY <1>1, <1>7 DEF DriverSwallows, Driver
    <2>2. CASE UNCHANGED worker /\ drv' = [drv EXCEPT !.cancel = FALSE]
      <3>1. drv'.batch = drv.batch
        BY <1>1, <2>2 DEF Driver
      <3> QED BY <2>1, <2>2, <3>1 DEF Tracked
    <2>3. ASSUME NEW w \in drv.batch, worker' = [worker EXCEPT ![w] = NoWorker],
                 drv' = [drv EXCEPT !.cancel = FALSE, !.batch = @ \ {w}]
          PROVE  Tracked'
      <3>1. drv'.batch \subseteq drv.batch
        BY <1>1, <2>3 DEF Driver
      <3> QED BY <1>5, <2>1, <2>3, <3>1
    <2> QED BY <1>7, <2>2, <2>3 DEF DriverSwallows
  <1>8. CASE BeginPass /\ PassBegin /\ drv'.pc = "pass" /\ UNCHANGED active
    <2>1. UNCHANGED worker /\ pass'.launched = {}
      BY <1>8 DEF PassBegin, IdlePass
    <2> QED BY <1>8, <2>1 DEF Tracked
  <1>9. CASE Over' /\ (active' = {} \/ UNCHANGED <<active, worker>>)
    BY <1>9 DEF Tracked, Over
  <1>10. CASE drv'.pc \notin {"pass", "wait", "collect", "batch"} /\ UNCHANGED <<active, worker>>
    BY <1>10 DEF Tracked
  <1> QED BY <1>2, <1>3, <1>4, <1>6, <1>7, <1>8, <1>9, <1>10, DriverTurns

LEMMA DriverUncancelled ==
    ASSUME WorkersInv, StatusInv, Uncancelled, DriverStep PROVE Uncancelled'
  <1> SUFFICES ASSUME ~Stopped' PROVE Uncancelled'
    BY DEF Uncancelled
  <1>1. ~Stopped
    <2>1. job \in Terminal => job' = job
      BY DriverFinal DEF Final
    <2> QED BY <2>1, DriverAlone, OverStays DEF Stopped
  <1>2. NoneCancelled
    <2>1. CASE PassBegin \/ PassStep \/ PassEnd
      BY <2>1, PassStatus DEF NoneMarked
    <2>2. CASE Calm
      <3>1. Edited(graph, graph') /\ \A t \in DOMAIN graph : graph[t] \in TaskNode
        BY <2>2 DEF Calm, WorkersInv, TypeOK, SchedTypeOK, IsGraph
      <3>2. ASSUME NEW t \in WithStatus(graph', {"CANCELLED"})
            PROVE  t \in WithStatus(graph, {"CANCELLED"})
        <4>1. t \in DOMAIN graph
          BY <3>1, <3>2 DEF Edited, WithStatus
        <4>2. graph'[t] = graph[t]
          BY <3>1, <3>2, <4>1, EditedNode DEF WithStatus
        <4> QED BY <3>2, <4>1, <4>2 DEF WithStatus
      <3> QED BY <3>2 DEF NoneCancelled
    <2> QED BY <2>1, <2>2, DriverPasses
  <1>3. WithStatus(graph', {"CANCELLED"}) = {}
    BY <1>1, <1>2 DEF NoneCancelled, Uncancelled
  <1>4. WorkersOK
    BY DEF WorkersInv, TypeOK, SchedTypeOK, WorkersOK
  <1>5. ASSUME NEW w \in WorkerId, Live(w)' PROVE ~worker'[w].cancel
    <2>1. ASSUME worker'[w] = worker[w] PROVE ~worker'[w].cancel
      BY <1>1, <1>5, <2>1 DEF Uncancelled, Live
    <2>2. ASSUME NEW v, worker' = [worker EXCEPT ![v] = NoWorker] PROVE ~worker'[w].cancel
      BY <1>4, <2>1, <2>2 DEF WorkersOK, NoWorker
    <2>3. CASE RunPass
      <3>1. ASSUME NEW v \in WorkerId, PassLaunch(v) PROVE ~worker'[w].cancel
        BY <1>4, <2>1, <3>1 DEF PassLaunch, WorkersOK, NoWorker
      <3>2. ASSUME PassResume \/ \E t, S : PassAssign(t, S) \/ PassReroute(t, S)
            PROVE  ~worker'[w].cancel
        BY <2>1, <3>2 DEF PassResume, PassAssign, PassReroute
      <3> QED BY <2>3, <3>1, <3>2 DEF RunPass, PassStep
    <2>4. CASE FinishPass \/ Wake \/ (BeginPass /\ PassBegin)
      BY <2>1, <2>4 DEF FinishPass, PassEnd, Wake, schedVars, PassBegin
    <2>5. CASE DriverSwallows
      BY <2>1, <2>2, <2>5 DEF DriverSwallows
    <2>6. CASE \E v \in drv.batch : CollectResult(v) \/ RepairVerdict(v) \/ RepairRefused(v)
      BY <2>2, <2>6 DEF CollectResult, RepairVerdict, RepairRefused, TakeResult
    <2>7. ~Over'
      BY DEF Stopped
    <2>8. CASE UNCHANGED worker
      BY <2>1, <2>8
    <2>9. \/ RunPass \/ FinishPass \/ Wake \/ (BeginPass /\ PassBegin) \/ DriverSwallows
          \/ \E v \in drv.batch : CollectResult(v) \/ RepairVerdict(v) \/ RepairRefused(v)
          \/ UNCHANGED worker
      BY <2>7, DriverTurns
    <2> QED BY <2>3, <2>4, <2>5, <2>6, <2>8, <2>9
  <1> QED BY <1>3, <1>5 DEF Uncancelled

\* Only a verification completes a job.
LEMMA LegalCompleted == \A s \in JobState : "COMPLETED" \in Legal[s] => s = "VERIFYING"
  BY DEF JobState, Legal

\* What the driver can do once the job is VERIFYING or COMPLETED.
LEMMA DriverVerifies ==
    ASSUME DriverStep, job \in {"VERIFYING", "COMPLETED"},
           Over \/ drv.pc \in {"step", "verify", "exit"}
    PROVE  \/ Verify \/ LeaveLoop \/ RunEnds \/ DriverInterrupted \/ DrainInterrupted
           \/ \E v \in Verdicts : Verdict(v)
  BY DEF DriverStep, DriverAt, StartPlanning, InitialPlan, FinishPlanning, RequestReplan, Plan,
         ConcludeReplan, AfterReplan, BeginPass, StepAt, RunPass, FinishPass, CapacityRestored,
         Wake, FinishBatch, CheckBatch, CollectResult, RepairVerdict, RepairRefused, TakeResult,
         RepairRaises, AfterRepair, Repair, DriverSwallows, Over

\* How it gets there.
LEMMA DriverEnters ==
    ASSUME WorkersInv, DriverStep, job \notin {"VERIFYING", "COMPLETED"}
    PROVE  \/ job' \notin {"VERIFYING", "COMPLETED"}
           \/ /\ job' = "VERIFYING" /\ drv'.pc = "step" /\ UNCHANGED <<graph, worker>>
              /\ AllCompleted(graph) /\ job \notin Terminal /\ ~Over
  <1>1. drv \in Driver /\ job \in JobState
    BY DEF WorkersInv, TypeOK
  <1> DEFINE Goal == \/ job' \notin {"VERIFYING", "COMPLETED"}
                     \/ /\ job' = "VERIFYING" /\ drv'.pc = "step" /\ UNCHANGED <<graph, worker>>
                        /\ AllCompleted(graph) /\ job \notin Terminal /\ ~Over
  <1>2. ASSUME NEW s \in {"PLANNING", "EXECUTING", "BLOCKED", "WAITING_FOR_CAPACITY", "REPAIRING",
                          "CANCELLED", "FAILED"}, Enter(s)
        PROVE  Goal
    BY <1>2 DEF Enter
  <1>3. ASSUME job' = job PROVE Goal
    BY <1>3
  <1>4. ASSUME NEW s \in {"PLANNING", "EXECUTING", "BLOCKED", "WAITING_FOR_CAPACITY", "REPAIRING",
                          "CANCELLED", "FAILED"}, NEW to, DriverTo(s, to)
        PROVE  Goal
    BY <1>2, <1>3, <1>4 DEF DriverTo, KeepJob
  <1>5. ASSUME NEW to, DriverTo("COMPLETED", to) PROVE Goal
    <2>1. ~CanEnter("COMPLETED")
      BY <1>1, LegalCompleted DEF CanEnter
    <2> QED BY <1>3, <1>5, <2>1 DEF DriverTo, KeepJob
  <1>6. ASSUME DriverTo("VERIFYING", "step"), UNCHANGED graph, AllCompleted(graph),
               job \notin Terminal, drv.pc \in {"step", "again", "check"}
        PROVE  Goal
    BY <1>1, <1>3, <1>6 DEF DriverTo, Enter, KeepJob, Driver, Over
  <1>7. ASSUME NEW to, Continue(to) \/ Ask(to) PROVE Goal
    BY <1>3, <1>7 DEF Continue, Ask, KeepJob
  <1>8. CASE StartPlanning \/ InitialPlan \/ FinishPlanning \/ ConcludeReplan \/ AfterReplan
    BY <1>4, <1>7, <1>8 DEF StartPlanning, InitialPlan, FinishPlanning, ConcludeReplan, AfterReplan
  <1>9. CASE RequestReplan \/ CapacityRestored \/ FinishBatch \/ Verify \/ AfterRepair
    BY <1>4, <1>7, <1>9 DEF RequestReplan, CapacityRestored, FinishBatch, Verify, AfterRepair
  <1>10. CASE BeginPass
    <2>1. CASE DriverTo("VERIFYING", "step") /\ AllCompleted(graph) /\ UNCHANGED graph
      BY <1>6, <1>10, <2>1 DEF BeginPass, StepAt, DriverAt, Terminal
    <2>2. CASE UNCHANGED job
      BY <1>3, <2>2
    <2> QED BY <1>10, <2>1, <2>2 DEF BeginPass
  <1>11. CASE CheckBatch
    BY <1>6, <1>7, <1>11 DEF CheckBatch, DriverAt
  <1>12. CASE FinishPass
    BY <1>2, <1>3, <1>12 DEF FinishPass, KeepJob
  <1>13. CASE Plan \/ RunPass \/ Wake \/ DriverInterrupted \/ DriverSwallows \/ DrainInterrupted
    BY <1>3, <1>13 DEF Plan, RunPass, engineVars, Wake, DriverInterrupted, DriverSwallows,
                       DrainInterrupted, KeepJob
  <1>14. ASSUME NEW w \in drv.batch,
                CollectResult(w) \/ RepairVerdict(w) \/ RepairRefused(w) \/ RepairRaises(w)
         PROVE  Goal
    BY <1>2, <1>3, <1>14 DEF CollectResult, RepairVerdict, RepairRefused, RepairRaises, KeepJob
  <1>15. ASSUME NEW v \in Verdicts, Verdict(v) PROVE Goal
    BY <1>4, <1>5, <1>15 DEF Verdict
  <1>16. ASSUME NEW rec \in Recommends, Repair(rec) PROVE Goal
    BY <1>7, <1>16 DEF Repair
  <1>17. CASE LeaveLoop \/ RunEnds
    BY <1>2, <1>3, <1>4, <1>17 DEF LeaveLoop, RunEnds, KeepJob
  <1> QED BY <1>8, <1>9, <1>10, <1>11, <1>12, <1>13, <1>14, <1>15, <1>16, <1>17 DEF DriverStep

\* Where every task counted has succeeded and none is cancelled, none has a worker.
LEMMA AllDoneNoneLive ==
    ASSUME WorkersInv, StatusInv, Uncancelled, ~Stopped, AllCompleted(graph)
    PROVE  AllDone /\ NoneLive
  <1>1. WithStatus(graph, {"CANCELLED"}) = {}
    BY DEF Uncancelled
  <1>2. AllDone
    BY <1>1 DEF AllDone, AllCompleted, WithStatus
  <1>3. NoneLive
    BY <1>2 DEF NoneLive, AllDone, StatusInv, WorkersInv, KnownTasks, Live
  <1> QED BY <1>2, <1>3

LEMMA DriverVerified ==
    ASSUME WorkersInv, StatusInv, VerifyInv, DriverStep PROVE Verified'
  <1>1. UNCHANGED <<fenced, ctl>> /\ drv \in Driver
    BY DriverAlone DEF WorkersInv, TypeOK
  <1>2. (job \in Terminal => job' = job) /\ (Over => Over')
    BY DriverFinal, OverStays DEF Final
  <1>3. (ctl.pc \in {"persist", "mark"} => job = "CANCELLED")'
    BY <1>1, <1>2 DEF VerifyInv, Verified, Terminal
  <1>4. CASE job \notin {"VERIFYING", "COMPLETED"}
    <2>1. CASE job' \notin {"VERIFYING", "COMPLETED"}
      BY <1>3, <2>1 DEF Verified
    <2>2. CASE /\ job' = "VERIFYING" /\ drv'.pc = "step" /\ UNCHANGED <<graph, worker>>
               /\ AllCompleted(graph) /\ job \notin Terminal /\ ~Over
      <3>1. CASE fenced
        BY <1>1, <1>3, <2>2, <3>1 DEF Verified
      <3>2. CASE ~fenced
        <4>1. AllDone /\ NoneLive
          BY <2>2, <3>2, AllDoneNoneLive DEF VerifyInv, Stopped
        <4>2. (AllDone /\ NoneLive)'
          BY <2>2, <4>1 DEF AllDone, NoneLive, Live
        <4>3. fenced \in BOOLEAN
          BY DEF WorkersInv, TypeOK
        <4> QED BY <1>1, <1>3, <2>2, <3>2, <4>2, <4>3 DEF Verified
      <3> QED BY <3>1, <3>2
    <2> QED BY <1>4, <2>1, <2>2, DriverEnters
  <1>5. CASE job \in {"VERIFYING", "COMPLETED"}
    <2> DEFINE Judged == AllDone /\ NoneLive
    <2>1. \/ Verify \/ LeaveLoop \/ RunEnds \/ DriverInterrupted \/ DrainInterrupted
          \/ \E v \in Verdicts : Verdict(v)
      BY <1>5, DriverVerifies DEF VerifyInv, Verified
    <2>2. UNCHANGED graph /\ Quiet
      <3>1. UNCHANGED graph /\ ~RunPass /\ ~FinishPass /\ ~(BeginPass /\ PassBegin)
        BY <1>5, <2>1 DEF Verify, LeaveLoop, RunEnds, DriverInterrupted, DrainInterrupted, Verdict,
                          schedVars, RunPass, FinishPass, BeginPass, StepAt, DriverAt, VerifyInv,
                          Verified, Over
      <3> QED BY <3>1, DriverCalm DEF Calm
    <2>3. Judged => Judged'
      BY <2>2 DEF AllDone, NoneLive, Quiet, Live, Done
    <2>4. ASSUME Over', job' \in {job, "CANCELLED", "BLOCKED", "FAILED", "REPAIRING"} PROVE Verified'
      <3>1. drv'.pc # "verify" /\ fenced' = fenced
        BY <1>1, <2>4 DEF Over
      <3> QED BY <1>3, <1>5, <2>3, <2>4, <3>1 DEF VerifyInv, Verified
    <2>5. ASSUME job' \notin {"VERIFYING", "COMPLETED"} PROVE Verified'
      BY <1>3, <2>5 DEF Verified
    <2>6. ASSUME EndRun("drain"), KeepJob PROVE Verified'
      <3>1. Over' /\ job' = job
        BY <1>1, <2>6 DEF EndRun, KeepJob, Over, Driver
      <3> QED BY <2>4, <3>1
    <2>7. CASE Verify
      <3>1. drv.pc = "step" /\ job = "VERIFYING" /\ ~fenced /\ job' = job /\ drv'.pc = "verify"
        BY <1>1, <2>7 DEF Verify, StepAt, DriverAt, Continue, KeepJob, Driver, VerifyInv, Verified, Over
      <3> QED BY <1>1, <1>3, <2>3, <3>1 DEF VerifyInv, Verified
    <2>8. ASSUME NEW v \in Verdicts, Verdict(v) PROVE Verified'
      <3>1. drv.pc = "verify" /\ job = "VERIFYING" /\ Judged
        BY <1>5, <2>8 DEF Verdict, DriverAt, VerifyInv, Verified, Over
      <3>2. ASSUME NEW s \in {"BLOCKED", "FAILED", "REPAIRING"}, NEW to, DriverTo(s, to) PROVE Verified'
        BY <2>5, <2>6, <3>2 DEF DriverTo, Enter
      <3>3. ASSUME DriverTo("COMPLETED", "exit") PROVE Verified'
        <4>1. CASE CanEnter("COMPLETED")
          <5>1. job' = "COMPLETED" /\ drv'.pc = "exit"
            BY <1>1, <3>3, <4>1 DEF DriverTo, Enter, Driver
          <5> QED BY <1>3, <2>3, <3>1, <5>1 DEF Verified
        <4> QED BY <2>6, <3>3, <4>1 DEF DriverTo
      <3> QED BY <2>8, <3>2, <3>3 DEF Verdict
    <2>9. CASE LeaveLoop
      BY <2>5, <2>6, <2>9 DEF LeaveLoop, DriverTo, Enter
    <2>10. CASE RunEnds
      <3>1. drv'.pc = "ended" /\ job' \in {job, "CANCELLED"}
        BY <1>1, <2>10 DEF RunEnds, Enter, KeepJob, Driver
      <3> QED BY <2>4, <3>1 DEF Over
    <2>11. CASE DriverInterrupted \/ DrainInterrupted
      <3>1. drv'.pc \in {"unwind", "ended"} /\ job' = job
        BY <1>1, <2>11 DEF DriverInterrupted, DrainInterrupted, EndRun, KeepJob, Driver
      <3> QED BY <2>4, <3>1 DEF Over
    <2> QED BY <2>1, <2>7, <2>8, <2>9, <2>10, <2>11
  <1> QED BY <1>4, <1>5

\* A worker nobody cancelled marks its task anything but CANCELLED.
LEMMA WorkerUncancelled ==
    ASSUME WorkersInv, StatusInv, NEW w \in WorkerId, WorkerStep(w), ~worker[w].cancel,
           graph[w[1]].status # "CANCELLED"
    PROVE  graph'[w[1]].status # "CANCELLED" /\ ~worker'[w].cancel
  <1> DEFINE t == w[1]
             Goal == graph'[w[1]].status # "CANCELLED" /\ ~worker'[w].cancel
  <1>1. WorkersOK /\ worker[w] \in WorkerRecord /\ IsGraph(graph)
    BY DEF WorkersInv, TypeOK, SchedTypeOK, WorkersOK
  <1>2. t \in DOMAIN graph /\ graph[t] \in TaskNode
    BY <1>1, WorkerMarks DEF IsGraph
  <1>3. ASSUME NEW pc, NEW r,
               Move(w, pc) \/ worker' = [worker EXCEPT ![w].pc = pc, ![w].result = r]
        PROVE  ~worker'[w].cancel
    BY <1>1, <1>3 DEF Move, WorkersOK, WorkerRecord
  <1>4. ASSUME NEW s, s # "CANCELLED", graph' = [graph EXCEPT ![t].status = s]
        PROVE  graph'[t].status # "CANCELLED"
    <2> HIDE DEF t
    <2> QED BY <1>1, <1>2, <1>4, MarkKeeps
  <1>5. CASE WorkerBegin(w) \/ WorkerNeverRan(w) \/ WorkerInterrupted(w) \/ WorkerUnwinds(w)
    BY <1>3, <1>5 DEF WorkerBegin, WorkerNeverRan, WorkerInterrupted, WorkerUnwinds, Finish
  <1>6. ASSUME NEW r \in Outcome,
               WorkerSucceeds(w, r) \/ WorkerFails(w, r) \/ WorkerProviderFails(w, r)
        PROVE  Goal
    BY <1>3, <1>6 DEF WorkerSucceeds, WorkerFails, WorkerProviderFails
  <1>7. CASE WorkerReroutes(w)
    <2>1. ASSUME NEW a, graph' = [graph EXCEPT ![t].actor = a, ![t].status = "READY"]
          PROVE  graph'[t].status # "CANCELLED"
      <3>1. graph' = [graph EXCEPT ![t] = [graph[t] EXCEPT !.actor = a, !.status = "READY"]]
        BY <2>1
      <3> HIDE DEF t
      <3> QED BY <1>2, <3>1 DEF TaskNode
    <2>2. ASSUME graph' = [graph EXCEPT ![t].attempt = IF @ = 0 THEN 0 ELSE @ - 1]
          PROVE  graph'[t].status # "CANCELLED"
      <3> DEFINE n == IF graph[t].attempt = 0 THEN 0 ELSE graph[t].attempt - 1
      <3>1. graph' = [graph EXCEPT ![t] = [graph[t] EXCEPT !.attempt = n]]
        BY <2>2
      <3>2. graph[t].status # "CANCELLED"
        OBVIOUS
      <3> HIDE DEF t, n
      <3> QED BY <1>2, <3>1, <3>2 DEF TaskNode
    <2>3. ~worker'[w].cancel
      <3>1. \E pc \in {"routeEmit", "backEmit", "failEmit"} : Move(w, pc)
        BY <1>7, Zenon DEF WorkerReroutes
      <3> QED BY <1>3, <3>1
    <2> QED BY <1>7, <2>1, <2>2, <2>3 DEF WorkerReroutes
  <1>8. CASE WorkerSettles(w)
    BY <1>3, <1>4, <1>8 DEF WorkerSettles, MarkSuccess, MarkFailure, Finish
  <1> QED BY <1>5, <1>6, <1>7, <1>8 DEF WorkerStep

LEMMA WorkerVerify ==
    ASSUME WorkersInv, StatusInv, VerifyInv, NEW w \in WorkerId, RunWorker(w)
    PROVE  VerifyInv'
  <1>1. /\ UNCHANGED <<pass, job, drv, active, fenced, ctl>> /\ Live(w) /\ w[1] \in DOMAIN graph
        /\ \A v \in WorkerId : v # w => worker'[v] = worker[v]
        /\ DOMAIN graph' = DOMAIN graph
        /\ \A t \in DOMAIN graph \ {w[1]} : graph'[t] = graph[t]
    BY WorkerMarks DEF RunWorker, engineVars
  <1>2. Uncancelled'
    <2>1. CASE Stopped
      BY <1>1, <2>1 DEF Uncancelled, Stopped, Over
    <2>2. CASE ~Stopped
      <3>1. graph[w[1]].status # "CANCELLED" /\ ~worker[w].cancel
        BY <1>1, <2>2 DEF VerifyInv, Uncancelled, WithStatus
      <3>2. graph'[w[1]].status # "CANCELLED" /\ ~worker'[w].cancel
        BY <3>1, WorkerUncancelled DEF RunWorker
      <3>3. WithStatus(graph', {"CANCELLED"}) = {}
        BY <1>1, <2>2, <3>2 DEF VerifyInv, Uncancelled, WithStatus
      <3>4. \A v \in WorkerId : Live(v)' => ~worker'[v].cancel
        BY <1>1, <2>2, <3>2 DEF VerifyInv, Uncancelled, Live
      <3> QED BY <3>3, <3>4 DEF Uncancelled
    <2> QED BY <2>1, <2>2
  <1>3. worker'[w].pc # "none"
    BY DEF RunWorker, WorkersInv, TypeOK, SchedTypeOK, WorkerRecord, WorkerStep, WorkerBegin,
           WorkerNeverRan, WorkerSucceeds, WorkerFails, WorkerProviderFails, WorkerReroutes,
           WorkerSettles, WorkerInterrupted, WorkerUnwinds, Move, Finish
  <1>4. Tracked'
    <2>1. /\ active \subseteq WorkerId /\ drv.waiting \subseteq WorkerId
          /\ pass.launched \subseteq WorkerId
      BY DEF WorkersInv, TypeOK, SchedTypeOK, Driver, PassRecord
    <2>2. \A v \in WorkerId : worker[v].pc # "none" => worker'[v].pc # "none"
      BY <1>1, <1>3
    <2> QED BY <1>1, <2>1, <2>2 DEF VerifyInv, Tracked
  <1>5. Verified'
    BY <1>1 DEF VerifyInv, Verified, NoneLive, Over
  <1> QED BY <1>2, <1>4, <1>5 DEF VerifyInv

LEMMA FenceVerified ==
    ASSUME WorkersInv, VerifyInv, FenceEngine, Quiet
    PROVE  Verified'
  <1>1. UNCHANGED <<graph, drv>> /\ fenced' = TRUE /\ ctl'.pc \in {"acked", "drain"}
    BY DEF FenceEngine, WorkersInv, TypeOK, Controller
  <1>2. Over' = Over /\ drv'.pc = drv.pc
    BY <1>1 DEF Over
  <1>3. AllDone /\ NoneLive => (AllDone /\ NoneLive)'
    BY <1>1 DEF AllDone, NoneLive, Quiet, Live, Done
  <1>4. job' \in {job, "BLOCKED"} /\ (job \in Terminal => job' = job)
    BY DEF FenceEngine, Blocked, Enter, KeepJob
  <1>5. ASSUME job = "VERIFYING", ~fenced PROVE job' = "BLOCKED"
    <2>1. Unfinished(active) = {}
      BY <1>5 DEF VerifyInv, Verified, Tracked, Unfinished, NoneLive, Live, Done, WorkersInv, TypeOK
    <2>2. job \notin Terminal /\ CanEnter("BLOCKED")
      BY <1>5 DEF Terminal, CanEnter, Legal
    <2> QED BY <2>1, <2>2 DEF FenceEngine, Blocked, Enter
  <1>6. CASE job' = "VERIFYING"
    <2>1. fenced /\ job = "VERIFYING"
      BY <1>4, <1>5, <1>6
    <2> QED BY <1>1, <1>2, <1>6, <2>1 DEF VerifyInv, Verified
  <1>7. CASE job' = "COMPLETED"
    BY <1>1, <1>2, <1>3, <1>4, <1>7 DEF VerifyInv, Verified
  <1>8. CASE job' \notin {"VERIFYING", "COMPLETED"}
    BY <1>1, <1>8 DEF Verified
  <1> QED BY <1>6, <1>7, <1>8

LEMMA ControlVerify ==
    ASSUME WorkersInv, VerifyInv, ControlStep
    PROVE  VerifyInv'
  <1>1. Quiet /\ UNCHANGED pass /\ drv \in Driver /\ ctl \in Controller
    BY ControlCalm DEF Cancels, WorkersInv, TypeOK
  <1>2. /\ drv'.pc = drv.pc /\ drv'.waiting = drv.waiting /\ drv'.batch = drv.batch
        /\ \/ CancelActive
           \/ UNCHANGED <<worker, active>>
    BY <1>1 DEF ControlStep, CancelJob, CancelWorkers, CancelAcknowledged, CancelTask,
                FenceEngine, FenceSettles, StopDriver, schedVars, Driver
  <1>3. Tracked'
    <2>1. SamePcs
      BY <1>2, CancelActiveKeeps DEF SamePcs, WorkersInv, TypeOK, SchedTypeOK, WorkersOK
    <2>2. active' \in {active, {}}
      BY <1>2 DEF CancelActive
    <2>3. /\ active \subseteq WorkerId /\ drv.waiting \subseteq WorkerId
          /\ pass.launched \subseteq WorkerId
      BY DEF WorkersInv, TypeOK, SchedTypeOK, Driver, PassRecord
    <2> QED BY <1>1, <1>2, <2>1, <2>2, <2>3 DEF VerifyInv, Tracked, SamePcs
  <1>4. Over' = Over
    BY <1>2 DEF Over
  <1>5. CASE CancelJob
    <2>1. job' = "CANCELLED" /\ UNCHANGED schedVars
      BY <1>5 DEF CancelJob, Enter
    <2> QED BY <1>3, <2>1 DEF VerifyInv, Verified, Uncancelled, Stopped, Terminal
  <1>6. ASSUME CancelWorkers \/ \E t \in DOMAIN graph : CancelTask(t) PROVE VerifyInv'
    <2>1. job = "CANCELLED" /\ job' = job
      BY <1>6 DEF CancelWorkers, CancelTask, KeepJob, VerifyInv, Verified
    <2> QED BY <1>3, <2>1 DEF VerifyInv, Verified, Uncancelled, Stopped, Terminal
  <1>7. CASE CancelAcknowledged \/ FenceSettles \/ StopDriver
    <2>1. UNCHANGED <<graph, worker, fenced>> /\ ctl'.pc = "acked"
      BY <1>1, <1>7 DEF CancelAcknowledged, FenceSettles, StopDriver, schedVars, Controller
    <2>2. job' \in {job, "BLOCKED"} /\ (job \in Terminal => job' = job)
      BY <1>7 DEF CancelAcknowledged, FenceSettles, StopDriver, Blocked, Enter, KeepJob
    <2>3. Uncancelled'
      <3>1. Stopped => Stopped'
        BY <1>4, <2>1, <2>2 DEF Stopped
      <3> QED BY <2>1, <3>1 DEF VerifyInv, Uncancelled, Live
    <2>4. (AllDone /\ NoneLive)' = (AllDone /\ NoneLive)
      BY <2>1 DEF AllDone, NoneLive, Live
    <2>5. Verified'
      BY <1>2, <1>4, <2>1, <2>2, <2>4 DEF VerifyInv, Verified
    <2> QED BY <1>3, <2>3, <2>5 DEF VerifyInv
  <1>8. CASE FenceEngine
    <2>1. Uncancelled'
      BY <1>8 DEF FenceEngine, Uncancelled, Stopped
    <2> QED BY <1>1, <1>3, <1>8, <2>1, FenceVerified DEF VerifyInv
  <1> QED BY <1>5, <1>6, <1>7, <1>8 DEF ControlStep

LEMMA NextVerify ==
    ASSUME WorkersInv, StatusInv, VerifyInv, [Next]_vars
    PROVE  VerifyInv'
  <1>1. CASE DriverStep
    BY <1>1, DriverVerified, DriverTracked, DriverUncancelled DEF VerifyInv
  <1>2. CASE EnvStep \/ Ended \/ UNCHANGED vars
    <2>1. UNCHANGED <<graph, pass, worker, engineVars>>
      BY <1>2 DEF EnvStep, HealthChanges, Ended, vars, schedVars
    <2> QED BY <2>1 DEF VerifyInv, Verified, Uncancelled, Tracked, Stopped, Over, AllDone,
                        NoneLive, Live, engineVars
  <1> QED BY <1>1, <1>2, WorkerVerify, ControlVerify DEF Next

LEMMA InitVerify == Init => VerifyInv
  BY DEF Init, SchedInit, VerifyInv, Verified, Uncancelled, Tracked, WithStatus, NoWorker, IdlePass, Live

\* A fenced job is not completed (fence, engine.py:516): a verification begins
\* only with no worker left, and then the fence blocks the job in one stretch;
\* where it waits for workers, the driver is not verifying and will not be.
THEOREM EngineFencedNeverCompletes ==
    ASSUME CarefulRepairs
    PROVE  Spec => FencedNeverCompletes
  <1> DEFINE Never == fenced /\ job # "COMPLETED" => job' # "COMPLETED"
  <1>1. ASSUME WorkersInv, VerifyInv, Next PROVE Never
    <2> SUFFICES ASSUME fenced, job # "COMPLETED" PROVE job' # "COMPLETED"
      OBVIOUS
    <2>1. CASE DriverStep
      <3>1. CASE job # "VERIFYING"
        BY <1>1, <2>1, <3>1, DriverEnters
      <3>2. CASE job = "VERIFYING"
        <4>1. drv.pc # "verify" /\ (Over \/ drv.pc = "step") /\ drv \in Driver
          BY <1>1, <3>2 DEF VerifyInv, Verified, WorkersInv, TypeOK
        <4>2. \/ Verify \/ LeaveLoop \/ RunEnds \/ DriverInterrupted \/ DrainInterrupted
              \/ \E v \in Verdicts : Verdict(v)
          BY <2>1, <3>2, <4>1, DriverVerifies
        <4> QED BY <3>2, <4>1, <4>2 DEF Verify, StepAt, LeaveLoop, DriverTo, RunEnds,
                                        DriverInterrupted, DrainInterrupted, Verdict, DriverAt, Enter, KeepJob
      <3> QED BY <3>1, <3>2
    <2>2. CASE ControlStep
      BY <2>2 DEF ControlStep, CancelJob, CancelWorkers, CancelAcknowledged, CancelTask,
                  FenceEngine, FenceSettles, StopDriver, Blocked, Enter, KeepJob
    <2>3. CASE UNCHANGED job
      BY <2>3
    <2>4. ASSUME EnvStep \/ Ended \/ \E w \in WorkerId : RunWorker(w) PROVE UNCHANGED job
      BY <2>4 DEF EnvStep, Ended, RunWorker, vars, engineVars
    <2> QED BY <1>1, <2>1, <2>2, <2>3, <2>4 DEF Next
  <1>2. WorkersInv /\ LimitInv /\ SettledInv /\ VerifyInv /\ [Next]_vars =>
           SettledInv' /\ VerifyInv' /\ [Never]_vars
    BY <1>1, NextSettled, NextVerify DEF SettledInv
  <1> HIDE DEF Never
  <1>3. Spec => [][Never]_vars
    BY <1>2, InitSettled, InitVerify, InitLimit, NextLimit, InitInv, NextInv, PTL DEF Spec
  <1> QED BY <1>3 DEF FencedNeverCompletes, Never

\* Unless the lease can be lost, no worker is alive while the work is judged
\* (engine.py:799): the driver went to verify with nothing running, and neither
\* a repair nor a late control starts anything meanwhile.
THEOREM EngineVerifiedAlone ==
    ASSUME CarefulRepairs, "fence" \notin Controls
    PROVE  Spec => []VerifiedAlone
  <1>1. Init => ~fenced
    BY DEF Init
  <1>2. ASSUME ~fenced, [Next]_vars PROVE ~fenced'
    <2>1. CASE DriverStep
      BY <1>2, <2>1, DriverAlone
    <2>2. CASE ControlStep
      BY <1>2, <2>2 DEF ControlStep, CancelJob, CancelWorkers, CancelAcknowledged, CancelTask,
                        FenceEngine, FenceSettles, StopDriver
    <2> QED BY <1>2, <2>1, <2>2 DEF Next, RunWorker, EnvStep, Ended, vars, engineVars
  <1>3. WorkersInv /\ LimitInv /\ SettledInv /\ VerifyInv /\ [Next]_vars => SettledInv' /\ VerifyInv'
    BY NextSettled, NextVerify DEF SettledInv
  <1>4. VerifyInv /\ ~fenced => VerifiedAlone
    BY DEF VerifyInv, Verified, VerifiedAlone, NoneLive
  <1> QED BY <1>1, <1>2, <1>3, <1>4, InitSettled, InitVerify, InitLimit, NextLimit, InitInv,
             NextInv, PTL DEF Spec

----------------------------------------------------------------------------
(* What a completed job has done                                            *)

Superseded == WithStatus(graph, {"SUPERSEDED"})

\* What replaces a task is in the graph, and replacements do not go round in
\* circles: a task is superseded by one that was not there before.
ReplInv ==
    /\ \A t \in Superseded : graph[t].by \in DOMAIN graph
    /\ \A S \in SUBSET Superseded : S # {} => \E t \in S : graph[t].by \notin S

\* Nothing new is superseded.
LEMMA SameReplacements ==
    ASSUME ReplInv, Persists, NoneSuperseded
    PROVE  ReplInv'
  <1>1. Superseded' = Superseded
    BY DEF Superseded, NoneSuperseded, Persists, WithStatus
  <1>2. \A t \in Superseded : graph'[t].by = graph[t].by /\ graph'[t].by \in DOMAIN graph'
    BY DEF ReplInv, Superseded, Persists, WithStatus
  <1> QED BY <1>1, <1>2 DEF ReplInv

LEMMA CalmReplacements ==
    ASSUME RoomForAll, WorkersInv, ReplInv, Persists, Calm
    PROVE  ReplInv'
  <1>1. Edited(graph, graph') /\ \A t \in DOMAIN graph : graph[t] \in TaskNode
    BY DEF Calm, WorkersInv, TypeOK, SchedTypeOK, IsGraph
  <1>2. ASSUME NEW t \in Superseded' \ Superseded
        PROVE  /\ t \in DOMAIN graph /\ graph'[t].by \in DOMAIN graph'
               /\ graph'[t].by \notin Superseded'
    <2>1. t \in DOMAIN graph
      BY <1>1, <1>2 DEF Edited, Superseded, WithStatus
    <2>2. graph'[t] # graph[t]
      BY <1>2, <2>1 DEF Superseded, WithStatus
    <2>3. graph'[t].by \in Task \ DOMAIN graph /\ graph'[t].by \in DOMAIN graph'
      BY <1>1, <2>1, <2>2, EditedNode
    <2>4. graph'[graph'[t].by].status = "PENDING"
      BY <1>1, <2>3 DEF Edited
    <2> QED BY <2>1, <2>3, <2>4 DEF Superseded, WithStatus
  <1>3. \A t \in Superseded : /\ t \in Superseded' /\ graph'[t].by = graph[t].by
                              /\ graph'[t].by \in DOMAIN graph'
    BY DEF ReplInv, Superseded, Persists, WithStatus
  <1>4. \A t \in Superseded' : graph'[t].by \in DOMAIN graph'
    BY <1>2, <1>3
  <1>5. ASSUME NEW S \in SUBSET (Superseded'), S # {}
        PROVE  \E t \in S : graph'[t].by \notin S
    <2>1. CASE S \subseteq Superseded
      <3>1. \E t \in S : graph[t].by \notin S
        BY <1>5, <2>1 DEF ReplInv
      <3> QED BY <1>3, <2>1, <3>1
    <2>2. ASSUME NEW t \in S \ Superseded PROVE \E u \in S : graph'[u].by \notin S
      BY <1>2, <1>5, <2>2
    <2> QED BY <2>1, <2>2
  <1> QED BY <1>4, <1>5 DEF ReplInv

LEMMA NextReplacements ==
    ASSUME RoomForAll, WorkersInv, StatusInv, Persists, ReplInv, [Next]_vars
    PROVE  ReplInv'
  <1>1. CASE DriverStep
    <2>1. CASE PassBegin \/ PassStep \/ PassEnd
      BY <2>1, PassStatus, SameReplacements DEF NoneMarked
    <2> QED BY <1>1, <2>1, CalmReplacements, DriverPasses
  <1>2. CASE ControlStep
    <2>1. Cancels /\ IsGraph(graph)
      BY <1>2, ControlCalm DEF WorkersInv, TypeOK, SchedTypeOK
    <2>2. ASSUME NEW t \in WithStatus(graph, {"RUNNING", "READY", "PENDING", "CANCELLED"}),
                 graph' = MarkCancelled(graph, t)
          PROVE  NoneSuperseded
      <3>1. t \in DOMAIN graph
        BY DEF WithStatus
      <3>2. /\ DOMAIN graph' = DOMAIN graph /\ graph'[t].status = "CANCELLED"
            /\ \A u \in DOMAIN graph \ {t} : graph'[u] = graph[u]
        BY <2>1, <2>2, <3>1, MarkKeeps DEF MarkCancelled
      <3> QED BY <3>2 DEF NoneSuperseded, WithStatus
    <2>3. NoneSuperseded
      BY <2>1, <2>2 DEF Cancels, NoneSuperseded
    <2> QED BY <2>3, SameReplacements
  <1>3. ASSUME NEW w \in WorkerId, RunWorker(w) PROVE ReplInv'
    <2>1. NoneSuperseded
      BY <1>3, WorkerMarks DEF RunWorker, NoneSuperseded, WithStatus
    <2> QED BY <2>1, SameReplacements
  <1>4. CASE EnvStep \/ Ended \/ UNCHANGED vars
    <2>1. UNCHANGED graph
      BY <1>4 DEF EnvStep, HealthChanges, Ended, vars, schedVars
    <2> QED BY <2>1 DEF ReplInv, Superseded
  <1> QED BY <1>1, <1>2, <1>3, <1>4 DEF Next

\* The walk along superseded_by ends, at a task that succeeded.
LEMMA WalkEnds ==
    ASSUME IsGraph(graph), ReplInv, AllDone, NEW t \in DOMAIN graph
    PROVE  DependencyDone(graph, t)
  <1> DEFINE Reached == {u \in Task : \A S \in SUBSET Task :
                            t \in S /\ ClosedUnderReplacement(graph, S) => u \in S}
             Stops == Reached \cap Superseded
  <1>1. t \in Reached /\ DOMAIN graph \subseteq Task
    BY DEF IsGraph
  <1>2. ASSUME NEW u \in Stops PROVE graph[u].by \in Reached \cap DOMAIN graph
    <2>1. graph[u].by \in DOMAIN graph /\ graph[u].by # NoTask
      BY <1>1, <1>2, GraphAssumption DEF ReplInv
    <2>2. ASSUME NEW S \in SUBSET Task, t \in S, ClosedUnderReplacement(graph, S)
          PROVE  graph[u].by \in S
      BY <1>2, <2>1, <2>2 DEF ClosedUnderReplacement, Superseded
    <2> QED BY <1>1, <2>1, <2>2
  <1>3. \E u \in Reached \cap DOMAIN graph : graph[u].status = "SUCCEEDED"
    <2>1. CASE Stops = {}
      BY <1>1, <2>1 DEF AllDone, Superseded, WithStatus
    <2>2. CASE Stops # {}
      <3>1. PICK u \in Stops : graph[u].by \notin Stops
        BY <2>2 DEF ReplInv
      <3>2. graph[u].by \in Reached \cap DOMAIN graph
        BY <1>2
      <3> HIDE DEF Reached
      <3> QED BY <3>1, <3>2 DEF AllDone, Superseded, WithStatus
    <2> QED BY <2>1, <2>2
  <1> QED BY <1>3 DEF DependencyDone, Settled

\* A completed job has every task succeeded, or replaced by work that is done,
\* provided that there was room for every task asked for.
THEOREM EngineCompletedMeansDone ==
    ASSUME CarefulRepairs, RoomForAll
    PROVE  Spec => []CompletedMeansDone
  <1>1. Init => ReplInv
    BY DEF Init, SchedInit, ReplInv, Superseded, WithStatus
  <1>2. WorkersInv /\ LimitInv /\ SettledInv /\ VerifyInv /\ ReplInv /\ [Next]_vars =>
           SettledInv' /\ VerifyInv' /\ ReplInv'
    BY NextSettled, NextVerify, NextReplacements DEF SettledInv
  <1>3. WorkersInv /\ VerifyInv /\ ReplInv => CompletedMeansDone
    BY WalkEnds DEF VerifyInv, Verified, CompletedMeansDone, WorkersInv, TypeOK, SchedTypeOK
  <1> QED BY <1>1, <1>2, <1>3, InitSettled, InitVerify, InitLimit, NextLimit, InitInv, NextInv,
             PTL DEF Spec
==================================================================================
