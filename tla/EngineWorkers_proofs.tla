-------------------------- MODULE EngineWorkers_proofs --------------------------
(***************************************************************************)
(* Every variable of the engine keeps its type, and no task ever has two   *)
(* workers.  The two go together: that a recheck gets the actor of the     *)
(* check it replaces is well typed only because the workers of a batch are *)
(* workers of tasks the graph holds, and that a dispatch is exclusive only *)
(* because the pass remembers a task it found not running.                 *)
(***************************************************************************)
EXTENDS ReactiveEngine, TaskGraph_proofs

(* The scheduler and its workers, which the engine composes with the driver  *)
(* and the controller.                                                       *)
USE GraphAssumption, SchedulerAssumption

----------------------------------------------------------------------------
(* Actor selection *)

\* A decision that dispatches names an actor.
GoodDecision(d) == d.kind = "go" => d.actor \in Actor

\* match_actor_for_task dispatches to an actor.
LEMMA MatchNamesActor ==
    ASSUME NEW t \in Task, NEW X, NEW d \in Match(t, X)
    PROVE  GoodDecision(d)
  <1>1. CanDo[t] \subseteq Actor
    BY DEF SchedulerAssumption
  <1>2. Alternatives(t, {graph[t].actor}) \subseteq Actor
    BY <1>1 DEF Alternatives
  <1>3. ASSUME graph[t].actor \in CanDo[t], d \in AssignedDecisions(t) PROVE GoodDecision(d)
    <2> DEFINE a == graph[t].actor
               alts == Alternatives(t, {a})
    <2>1. AssignedDecisions(t) \subseteq {Defer, Go(a)} \cup {Go(b) : b \in alts}
                                                      \cup {GoPre(b) : b \in alts}
      BY DEF AssignedDecisions
    <2>2. \/ d = Defer
          \/ \E b \in Actor : d = Go(b) \/ d = GoPre(b)
      <3> HIDE DEF alts
      <3> QED BY <2>1, <1>1, <1>2, <1>3 DEF alts
    <2> QED BY <2>2 DEF GoodDecision, Go, GoPre, Defer
  <1>4. ASSUME d \in RankedDecisions(t, X) PROVE GoodDecision(d)
    BY <1>1, <1>4 DEF RankedDecisions, GoodDecision, Go, Defer, Incapable
  <1> QED BY <1>3, <1>4 DEF Match

\* So do the scheduler's amendments of its choice.
LEMMA DecisionNamesActor ==
    ASSUME NEW t \in Task, NEW d \in Decisions(t)
    PROVE  GoodDecision(d)
  <1>1. PICK m \in Match(t, {}) : \E e \in Independent(t, m) : d \in Avoiding(t, e)
    BY DEF Decisions
  <1>2. PICK e \in Independent(t, m) : d \in Avoiding(t, e)
    BY <1>1
  <1>3. GoodDecision(e)
    BY MatchNamesActor DEF Independent
  <1>4. Alternatives(t, AvoidActors[t]) \subseteq Actor
    BY DEF Alternatives, SchedulerAssumption
  <1> QED BY <1>2, <1>3, <1>4 DEF Avoiding, GoodDecision, GoPre
----------------------------------------------------------------------------
(* Types *)

WorkersOK == worker \in [WorkerId -> WorkerRecord]

\* One worker's record replaced.
LEMMA WorkerPatch ==
    ASSUME WorkersOK, NEW w \in WorkerId, NEW rec \in WorkerRecord
    PROVE  [worker EXCEPT ![w] = rec] \in [WorkerId -> WorkerRecord]
  BY DEF WorkersOK

\* A worker that moves on, that ends, or whose attempt got its outcome.
LEMMA WorkerMoves ==
    ASSUME WorkersOK, NEW w \in WorkerId,
           NEW pc \in {"exec", "okEmit", "record", "routeEmit", "backEmit", "failEmit",
                       "unwind", "done"},
           NEW r \in Outcome \cup {"none", "cancelled"}
    PROVE  /\ [worker EXCEPT ![w].pc = pc] \in [WorkerId -> WorkerRecord]
           /\ [worker EXCEPT ![w].pc = pc, ![w].result = r] \in [WorkerId -> WorkerRecord]
  <1>1. worker[w] \in WorkerRecord
    BY DEF WorkersOK
  <1>2. /\ [worker[w] EXCEPT !.pc = pc] \in WorkerRecord
        /\ [worker[w] EXCEPT !.pc = pc, !.result = r] \in WorkerRecord
    BY <1>1 DEF WorkerRecord
  <1>3. [worker EXCEPT ![w].pc = pc] = [worker EXCEPT ![w] = [worker[w] EXCEPT !.pc = pc]]
    BY DEF WorkersOK
  <1>4. [worker EXCEPT ![w].pc = pc, ![w].result = r]
           = [worker EXCEPT ![w] = [worker[w] EXCEPT !.pc = pc, !.result = r]]
    BY <1>1 DEF WorkersOK, WorkerRecord
  <1> QED BY <1>2, <1>3, <1>4, WorkerPatch

\* What a worker's finally clause leaves.
LEMMA FinishType ==
    ASSUME SchedTypeOK, NEW w \in WorkerId, NEW r \in Outcome \cup {"none", "cancelled"}, Finish(w, r)
    PROVE  /\ running' \subseteq Task
           /\ busy' \in [Actor -> Nat]
           /\ worker' \in [WorkerId -> WorkerRecord]
  <1>1. WorkersOK
    BY DEF SchedTypeOK, WorkersOK
  <1>2. worker' \in [WorkerId -> WorkerRecord]
    BY <1>1, WorkerMoves DEF Finish
  <1>3. \A n \in Nat : (IF n = 0 THEN 0 ELSE n - 1) \in Nat
    OBVIOUS
  <1>4. busy' \in [Actor -> Nat]
    BY <1>3 DEF Finish, SchedTypeOK
  <1> QED BY <1>2, <1>4 DEF Finish, SchedTypeOK

\* Once it took a decision, the pass remembers the task and the actor.
PassNamed == pass.pc \in {"reroute", "start"} => pass.task \in Task /\ pass.actor \in Actor

\* What mark_running, _running_tasks.add and acquire_actor leave.
LEMMA AcquireType ==
    ASSUME SchedTypeOK, NEW g, IsGraph(g), NEW t \in Task, NEW a \in Actor, NEW S,
           Acquire(g, t, a, S), UNCHANGED <<health, worker>>
    PROVE  SchedTypeOK' /\ PassNamed'
  <1>1. IsGraph(graph')
    BY RunningType DEF Acquire
  <1>2. busy' \in [Actor -> Nat]
    BY DEF Acquire, SchedTypeOK
  <1>3. pass' \in PassRecord
    BY DEF Acquire, SchedTypeOK, PassRecord
  <1>4. PassNamed'
    BY DEF Acquire, SchedTypeOK, PassRecord, PassNamed
  <1> QED BY <1>1, <1>2, <1>3, <1>4 DEF Acquire, SchedTypeOK

\* The same, of the steps that do so.
LEMMA MoveType ==
    ASSUME WorkersOK, NEW w \in WorkerId,
           NEW pc \in {"exec", "okEmit", "record", "routeEmit", "backEmit", "failEmit",
                       "unwind", "done"},
           NEW r \in Outcome \cup {"none", "cancelled"},
           \/ Move(w, pc)
           \/ worker' = [worker EXCEPT ![w].pc = pc, ![w].result = r]
    PROVE  WorkersOK'
  <1>1. CASE Move(w, pc)
    BY <1>1, WorkerMoves DEF Move, WorkersOK
  <1>2. CASE worker' = [worker EXCEPT ![w].pc = pc, ![w].result = r]
    BY <1>2, WorkerMoves DEF WorkersOK
  <1> QED BY <1>1, <1>2

\* The task an attempt of which is rerouted, given back or marked.
LEMMA RerouteStepType ==
    ASSUME SchedTypeOK, NEW w \in WorkerId, WorkerReroutes(w)
    PROVE  IsGraph(graph') /\ WorkersOK'
  <1> DEFINE t == w[1]
             alts == Alternatives(t, {worker[w].actor})
             n == IF graph[t].attempt = 0 THEN 0 ELSE graph[t].attempt - 1
  <1>1. IsGraph(graph) /\ WorkersOK
    BY DEF SchedTypeOK, WorkersOK
  <1>2. alts \subseteq Actor
    BY DEF Alternatives, SchedulerAssumption, WorkerId
  <1>3. ASSUME NEW a \in alts PROVE IsGraph([graph EXCEPT ![t].actor = a, ![t].status = "READY"])
    <2> HIDE DEF t, alts
    <2> QED BY <1>1, <1>2, <1>3, RerouteType
  <1>4. IsGraph([graph EXCEPT ![t].attempt = n])
    <2>1. t \in DOMAIN graph => n \in Nat
      BY <1>1 DEF IsGraph, TaskNode
    <2> HIDE DEF n, t
    <2> QED BY <1>1, <2>1, GiveBackType
  <1>5. IsGraph(graph')
    <2>1. \/ \E a \in alts : graph' = [graph EXCEPT ![t].actor = a, ![t].status = "READY"]
          \/ graph' = [graph EXCEPT ![t].attempt = n]
          \/ UNCHANGED graph
      BY Zenon DEF WorkerReroutes
    <2> HIDE DEF t, alts, n
    <2> QED BY <1>1, <1>3, <1>4, <2>1
  <1>6. WorkersOK'
    <2>1. \E pc \in {"routeEmit", "backEmit", "failEmit"} : Move(w, pc)
      BY Zenon DEF WorkerReroutes
    <2> QED BY <1>1, <2>1, MoveType
  <1> QED BY <1>5, <1>6

\* Every step of a worker.
LEMMA WorkerStepType ==
    ASSUME SchedTypeOK, NEW w \in WorkerId, WorkerStep(w)
    PROVE  SchedTypeOK'
  <1>1. WorkersOK /\ worker[w] \in WorkerRecord /\ IsGraph(graph)
    BY DEF SchedTypeOK, WorkersOK
  <1>2. ASSUME IsGraph(graph'), WorkersOK', health' \in [Actor -> Health],
               UNCHANGED <<running, busy, pass>>
        PROVE  SchedTypeOK'
    BY <1>2 DEF SchedTypeOK, WorkersOK
  <1>3. ASSUME IsGraph(graph'), NEW r \in Outcome \cup {"none", "cancelled"}, Finish(w, r),
               UNCHANGED <<health, pass>>
        PROVE  SchedTypeOK'
    BY <1>3, FinishType DEF SchedTypeOK
  <1>4. CASE WorkerBegin(w)
    BY <1>1, <1>2, <1>4, MoveType DEF WorkerBegin, SchedTypeOK
  <1>5. CASE WorkerNeverRan(w)
    BY <1>1, <1>2, <1>5, MoveType DEF WorkerNeverRan, SchedTypeOK
  <1>6. ASSUME NEW r \in Outcome, WorkerSucceeds(w, r) \/ WorkerFails(w, r) PROVE SchedTypeOK'
    <2>1. WorkersOK'
      BY <1>1, <1>6, MoveType DEF WorkerSucceeds, WorkerFails
    <2> QED BY <1>1, <1>2, <1>6, <2>1 DEF WorkerSucceeds, WorkerFails, SchedTypeOK
  <1>7. ASSUME NEW r \in Outcome, WorkerProviderFails(w, r) PROVE SchedTypeOK'
    <2>1. PICK h \in {health[worker[w].actor], "down", "spent"} :
             health' = [health EXCEPT ![worker[w].actor] = h]
      BY <1>7 DEF WorkerProviderFails
    <2>2. health' \in [Actor -> Health]
      BY <2>1 DEF SchedTypeOK, Health
    <2>3. WorkersOK'
      BY <1>1, <1>7, MoveType DEF WorkerProviderFails
    <2> QED BY <1>1, <1>2, <1>7, <2>2, <2>3 DEF WorkerProviderFails
  <1>8. CASE WorkerReroutes(w)
    BY <1>2, <1>8, RerouteStepType DEF WorkerReroutes, SchedTypeOK
  <1>9. CASE WorkerSettles(w)
    <2>1. \A s \in TaskStatus : IsGraph([graph EXCEPT ![w[1]].status = s])
      BY <1>1, StatusType
    <2>2. \/ \E s \in TaskStatus : graph' = [graph EXCEPT ![w[1]].status = s]
          \/ UNCHANGED graph
      BY <1>9 DEF WorkerSettles, MarkSuccess, MarkFailure, TaskStatus
    <2>3. IsGraph(graph')
      BY <1>1, <2>1, <2>2
    <2>4. worker[w].result \in Outcome \cup {"none", "cancelled"}
      BY <1>1 DEF WorkerRecord
    <2> QED BY <1>3, <1>9, <2>3, <2>4 DEF WorkerSettles
  <1>10. CASE WorkerInterrupted(w)
    <2>1. IsGraph(graph')
      BY <1>1, <1>10, StatusType DEF WorkerInterrupted, MarkCancelled, TaskStatus
    <2>2. WorkersOK'
      BY <1>1, <1>10, MoveType DEF WorkerInterrupted
    <2> QED BY <1>2, <1>10, <2>1, <2>2 DEF WorkerInterrupted, SchedTypeOK
  <1>11. CASE WorkerUnwinds(w)
    BY <1>1, <1>3, <1>11 DEF WorkerUnwinds
  <1> QED BY <1>4, <1>5, <1>6, <1>7, <1>8, <1>9, <1>10, <1>11 DEF WorkerStep

\* Every step of a dispatch pass.
LEMMA PassType ==
    ASSUME SchedTypeOK, PassNamed, PassBegin \/ PassStep \/ PassEnd
    PROVE  SchedTypeOK' /\ PassNamed'
  <1>1. WorkersOK /\ IsGraph(graph) /\ pass \in PassRecord /\ IdlePass \in PassRecord
    BY DEF SchedTypeOK, WorkersOK, IdlePass, PassRecord
  <1>2. ASSUME IsGraph(graph'), WorkersOK', pass' \in PassRecord,
               UNCHANGED <<running, busy, health>>, PassNamed'
        PROVE  SchedTypeOK' /\ PassNamed'
    BY <1>2 DEF SchedTypeOK, WorkersOK
  <1>3. ASSUME NEW S PROVE IsGraph(PassOver(S))
    BY <1>1, BlockType DEF PassOver
  <1>4. CASE PassBegin
    <2>1. ReadyTasks(graph) \subseteq Task
      BY <1>1 DEF ReadyTasks, IsGraph
    <2>2. pass' \in PassRecord /\ PassNamed'
      BY <1>1, <1>4, <2>1 DEF PassBegin, PassRecord, PassNamed
    <2> QED BY <1>1, <1>2, <1>4, <2>2 DEF PassBegin, IsGraph, WorkersOK
  <1>5. CASE PassResume
    <2>1. pass.task \in Task /\ pass.actor \in Actor
      BY <1>5 DEF PassResume, PassNamed
    <2> QED BY <1>1, <1>5, <2>1, AcquireType DEF PassResume
  <1>6. ASSUME NEW t \in pass.todo, NEW S, PassAssign(t, S)
        PROVE  SchedTypeOK' /\ PassNamed'
    <2>1. t \in Task
      BY <1>1 DEF PassRecord
    <2>2. PICK d \in Decisions(t) : d.kind = "go" /\ Acquire(PassOver(S), t, d.actor, S)
      BY <1>6 DEF PassAssign
    <2>3. d.actor \in Actor
      BY <2>1, <2>2, DecisionNamesActor DEF GoodDecision
    <2> QED BY <1>3, <1>6, <2>1, <2>2, <2>3, AcquireType DEF PassAssign
  <1>7. ASSUME NEW t \in pass.todo, NEW S, PassReroute(t, S)
        PROVE  SchedTypeOK' /\ PassNamed'
    <2>1. t \in Task
      BY <1>1 DEF PassRecord
    <2>2. PICK d \in Decisions(t) :
             /\ d.kind = "go"
             /\ graph' = [PassOver(S) EXCEPT ![t].actor = d.actor]
             /\ pass' = [pass EXCEPT !.pc = "reroute", !.task = t, !.actor = d.actor,
                                     !.todo = @ \ (S \cup {t})]
      BY <1>7 DEF PassReroute
    <2>3. d.actor \in Actor
      BY <2>1, <2>2, DecisionNamesActor DEF GoodDecision
    <2>4. IsGraph(graph')
      BY <1>3, <2>2, <2>3, RerouteType
    <2>5. pass' \in PassRecord /\ PassNamed'
      BY <1>1, <2>1, <2>2, <2>3 DEF PassRecord, PassNamed
    <2> QED BY <1>1, <1>2, <1>7, <2>4, <2>5 DEF PassReroute, WorkersOK
  <1>8. ASSUME NEW w \in WorkerId, PassLaunch(w)
        PROVE  SchedTypeOK' /\ PassNamed'
    <2>1. [NoWorker EXCEPT !.pc = "new", !.actor = pass.actor] \in WorkerRecord
      BY <1>1 DEF NoWorker, WorkerRecord, PassRecord
    <2>2. WorkersOK'
      BY <1>1, <1>8, <2>1, WorkerPatch DEF PassLaunch, WorkersOK
    <2>3. pass' \in PassRecord /\ PassNamed'
      BY <1>1, <1>8 DEF PassLaunch, PassRecord, PassNamed
    <2> QED BY <1>1, <1>2, <1>8, <2>2, <2>3 DEF PassLaunch, IsGraph
  <1>9. CASE PassEnd
    <2>1. IsGraph(graph')
      BY <1>1, <1>3, <1>9 DEF PassEnd
    <2>2. PassNamed'
      BY <1>9 DEF PassEnd, IdlePass, PassNamed
    <2> QED BY <1>1, <1>2, <1>9, <2>1, <2>2 DEF PassEnd, WorkersOK
  <1> QED BY <1>4, <1>5, <1>6, <1>7, <1>8, <1>9 DEF PassStep

----------------------------------------------------------------------------
(* One worker per task *)

\* What _running_tasks guarantees: it knows the task of every worker alive and
\* of the worker about to be started, and no task is dispatched while it does.
OneWorker == \A v, w \in WorkerId : Live(v) /\ Live(w) /\ v[1] = w[1] => v = w

WorkInv ==
    /\ OneWorker
    /\ \A w \in WorkerId : Live(w) => w[1] \in running
    /\ pass.pc = "start" =>
          /\ pass.task \in running
          /\ \A w \in WorkerId : Live(w) => w[1] # pass.task
    /\ pass.pc = "reroute" => pass.task \notin running

\* The pass goes on as it was, or has no task in hand.
NothingNew == UNCHANGED pass \/ pass'.pc \in {"idle", "pick"}

\* No worker comes alive that was not.
LEMMA WorkersEnd ==
    ASSUME WorkInv, NothingNew, UNCHANGED running, \A w \in WorkerId : Live(w)' => Live(w)
    PROVE  WorkInv'
  BY DEF WorkInv, OneWorker, NothingNew

\* A worker's own task leaves _running_tasks, and it ends in the same step.
LEMMA FinishWork ==
    ASSUME WorkersOK, WorkInv, NEW w \in WorkerId, Live(w), NEW r, Finish(w, r), UNCHANGED pass
    PROVE  WorkInv'
  <1>1. \A v \in WorkerId : Live(v)' => Live(v) /\ v # w
    BY DEF WorkersOK, WorkerRecord, Finish, Live
  <1>2. running' = running \ {w[1]}
    BY DEF Finish
  <1> QED BY <1>1, <1>2 DEF WorkInv, OneWorker

\* A worker that goes on is alive already.
LEMMA WorkerStepWork ==
    ASSUME WorkersOK, WorkInv, NEW w \in WorkerId, WorkerStep(w)
    PROVE  WorkInv'
  <1>1. ASSUME NEW pc, NEW r, Live(w), UNCHANGED <<running, pass>>,
               Move(w, pc) \/ worker' = [worker EXCEPT ![w].pc = pc, ![w].result = r]
        PROVE  WorkInv'
    <2>1. \A v \in WorkerId : v # w => worker'[v] = worker[v]
      BY <1>1 DEF WorkersOK, Move
    <2>2. \A v \in WorkerId : Live(v)' => Live(v)
      BY <1>1, <2>1 DEF Live
    <2> QED BY <1>1, <2>2, WorkersEnd DEF NothingNew
  <1>2. Live(w)
    BY DEF WorkerStep, WorkerBegin, WorkerNeverRan, WorkerSucceeds, WorkerFails,
           WorkerProviderFails, WorkerReroutes, WorkerSettles, WorkerInterrupted,
           WorkerUnwinds, WorkerAt, Live
  <1>3. CASE WorkerBegin(w) \/ WorkerNeverRan(w)
    BY <1>1, <1>2, <1>3 DEF WorkerBegin, WorkerNeverRan
  <1>4. ASSUME NEW r \in Outcome, WorkerSucceeds(w, r) \/ WorkerFails(w, r) PROVE WorkInv'
    BY <1>1, <1>2, <1>4 DEF WorkerSucceeds, WorkerFails
  <1>5. ASSUME NEW r \in Outcome, WorkerProviderFails(w, r) PROVE WorkInv'
    BY <1>1, <1>2, <1>5 DEF WorkerProviderFails
  <1>6. CASE WorkerReroutes(w)
    <2>1. \E pc \in {"routeEmit", "backEmit", "failEmit"} : Move(w, pc)
      BY <1>6, Zenon DEF WorkerReroutes
    <2>2. UNCHANGED <<running, pass>>
      BY <1>6, Zenon DEF WorkerReroutes
    <2> QED BY <1>1, <1>2, <2>1, <2>2
  <1>7. CASE WorkerInterrupted(w)
    BY <1>1, <1>2, <1>7 DEF WorkerInterrupted
  <1>8. CASE WorkerSettles(w) \/ WorkerUnwinds(w)
    BY <1>2, <1>8, FinishWork DEF WorkerSettles, WorkerUnwinds
  <1> QED BY <1>3, <1>4, <1>5, <1>6, <1>7, <1>8 DEF WorkerStep

\* mark_running and _running_tasks.add, of a task that is not running.
LEMMA AcquireWork ==
    ASSUME WorkInv, pass \in PassRecord, NEW t \in Task \ running, NEW g, NEW a, NEW S,
           Acquire(g, t, a, S), UNCHANGED worker
    PROVE  WorkInv'
  <1>1. pass'.pc = "start" /\ pass'.task = t /\ running' = running \cup {t}
    BY DEF Acquire, PassRecord
  <1>2. \A w \in WorkerId : Live(w)' <=> Live(w)
    BY DEF Live
  <1> QED BY <1>1, <1>2 DEF WorkInv, OneWorker

\* A dispatch pass starts workers only for tasks it found not running.
LEMMA PassWork ==
    ASSUME WorkersOK, WorkInv, PassNamed, pass \in PassRecord,
           PassBegin \/ PassStep \/ PassEnd
    PROVE  WorkInv'
  <1>1. ASSUME UNCHANGED <<running, worker>>, NothingNew PROVE WorkInv'
    BY <1>1, WorkersEnd DEF Live
  <1>2. CASE PassBegin \/ PassEnd
    <2>1. pass'.pc \in {"idle", "pick"}
      <3>1. CASE PassBegin
        BY <3>1 DEF PassBegin, IdlePass
      <3>2. CASE PassEnd
        BY <3>2, Zenon DEF PassEnd, IdlePass
      <3> QED BY <1>2, <3>1, <3>2
    <2>2. UNCHANGED <<running, worker>>
      BY <1>2 DEF PassBegin, PassEnd
    <2> QED BY <1>1, <2>1, <2>2 DEF NothingNew
  <1>3. CASE PassResume
    <2>1. pass.task \in Task \ running
      BY <1>3 DEF PassResume, WorkInv, PassNamed
    <2> QED BY <1>3, <2>1, AcquireWork DEF PassResume
  <1>4. ASSUME NEW t \in pass.todo, NEW S, PassAssign(t, S) PROVE WorkInv'
    <2>1. t \in Task \ running
      BY <1>4 DEF PassAssign, Picks, PassRecord
    <2>2. PICK d \in Decisions(t) : Acquire(PassOver(S), t, d.actor, S)
      BY <1>4 DEF PassAssign
    <2> QED BY <1>4, <2>1, <2>2, AcquireWork DEF PassAssign
  <1>5. ASSUME NEW t \in pass.todo, NEW S, PassReroute(t, S) PROVE WorkInv'
    <2>1. t \notin running
      BY <1>5 DEF PassReroute, Picks
    <2>2. pass'.pc = "reroute" /\ pass'.task = t
      BY <1>5 DEF PassReroute, PassRecord
    <2>3. UNCHANGED <<running, worker>>
      BY <1>5 DEF PassReroute
    <2> QED BY <2>1, <2>2, <2>3 DEF WorkInv, OneWorker, Live
  <1>6. ASSUME NEW w \in WorkerId, PassLaunch(w) PROVE WorkInv'
    <2>1. pass.pc = "start" /\ w[1] = pass.task /\ pass'.pc = "pick" /\ UNCHANGED running
      BY <1>6 DEF PassLaunch, PassRecord
    <2>2. \A v \in WorkerId : Live(v)' => Live(v) \/ v = w
      BY <1>6 DEF PassLaunch, Live, WorkersOK
    <2> QED BY <2>1, <2>2 DEF WorkInv, OneWorker
  <1> QED BY <1>2, <1>3, <1>4, <1>5, <1>6 DEF PassStep

----------------------------------------------------------------------------
(* The engine *)

USE EngineAssumption

----------------------------------------------------------------------------
(* The invariant *)

JobOK == job \in JobState /\ replans \in Nat /\ repairs \in Nat
DriverOK == drv \in Driver /\ active \subseteq WorkerId

\* Every worker, and whatever a dispatch pass has in hand, is of a task in the
\* graph, which only grows; a batch holds finished workers.
KnownTasks ==
    /\ \A w \in WorkerId : worker[w].pc # "none" => w[1] \in DOMAIN graph
    /\ pass.todo \subseteq DOMAIN graph
    /\ pass.pc \in {"reroute", "start"} => pass.task \in DOMAIN graph
    /\ \A w \in drv.batch : Done(w)

\* The initial plan is made for an empty graph.
PlansOnce ==
    /\ job = "CREATED" => drv.pc \in {"step", "drain", "unwind", "ended"}
    /\ drv.pc = "plan" \/ (job = "CREATED" /\ drv.pc = "step") => DOMAIN graph = {}

WorkersInv == TypeOK /\ PassNamed /\ WorkInv /\ KnownTasks /\ PlansOnce

LEMMA JobStates == JobState = {"CREATED", "PLANNING", "EXECUTING", "WAITING_FOR_CAPACITY",
                               "VERIFYING", "REPAIRING"} \cup Terminal
  BY DEF JobState, Legal, Terminal

----------------------------------------------------------------------------
(* What the engine's helpers do *)

\* No worker begins, ends or goes on.
SamePcs == \A w \in WorkerId : worker'[w].pc = worker[w].pc

\* _cancel_active_tasks only requests cancellations.
LEMMA CancelActiveKeeps ==
    ASSUME WorkersOK, CancelActive
    PROVE  WorkersOK' /\ SamePcs /\ active' \subseteq WorkerId
  <1>1. \A w \in WorkerId : worker[w] \in WorkerRecord
    BY DEF WorkersOK
  <1>2. \A w \in WorkerId : /\ [worker[w] EXCEPT !.cancel = TRUE] \in WorkerRecord
                            /\ [worker[w] EXCEPT !.cancel = TRUE].pc = worker[w].pc
    BY <1>1 DEF WorkerRecord
  <1>3. \A w \in WorkerId : worker'[w] \in {worker[w], [worker[w] EXCEPT !.cancel = TRUE]}
    BY DEF CancelActive
  <1>4. worker' = [w \in WorkerId |-> worker'[w]]
    BY DEF CancelActive
  <1>5. active' = {}
    BY DEF CancelActive
  <1>6. \A w \in WorkerId : worker'[w] \in WorkerRecord /\ worker'[w].pc = worker[w].pc
    BY <1>1, <1>2, <1>3
  <1>7. worker' \in [WorkerId -> WorkerRecord]
    BY <1>4, <1>6
  <1> QED BY <1>5, <1>6, <1>7 DEF WorkersOK, SamePcs

\* The run is over.
LEMMA EndRunKeeps ==
    ASSUME WorkersOK, DriverOK, NEW pc \in {"drain", "unwind"}, EndRun(pc)
    PROVE  WorkersOK' /\ SamePcs /\ DriverOK' /\ drv'.pc = pc /\ drv'.batch = drv.batch
  <1>1. Unfinished(active) \subseteq WorkerId
    BY DEF Unfinished, DriverOK
  <1>2. drv' \in Driver /\ drv'.pc = pc /\ drv'.batch = drv.batch
    BY <1>1 DEF EndRun, DriverOK, Driver
  <1> QED BY <1>2, CancelActiveKeeps DEF EndRun, DriverOK

\* JobRecord.transition_to.
LEMMA EnterKeeps == ASSUME JobOK, NEW s \in JobState, Enter(s) PROVE JobOK' /\ job' = s
  BY DEF JobOK, Enter

\* What the driver does at the end of most of its actions: a transition, legal
\* or not, or another point to go on from.
GoesOn ==
    \/ \E s \in JobState \ {"CREATED"}, pc \in (SyncPc \cup AwaitPc) \ {"plan"} : DriverTo(s, pc)
    \/ \E pc \in (SyncPc \cup AwaitPc) \ {"plan"} : Continue(pc)
    \/ \E why \in {"discovery", "failure", "stalled", "repair"} : Ask(why)

LEMMA GoesOnKeeps ==
    ASSUME WorkersOK, DriverOK, JobOK, GoesOn
    PROVE  /\ WorkersOK' /\ SamePcs /\ DriverOK' /\ JobOK'
           /\ drv'.batch = drv.batch /\ drv'.pc # "plan" /\ job' \in {job} \cup (JobState \ {"CREATED"})
  <1>1. ASSUME NEW pc \in (SyncPc \cup AwaitPc) \ {"plan"}, drv' = [drv EXCEPT !.pc = pc]
        PROVE  drv' \in Driver /\ drv'.batch = drv.batch /\ drv'.pc # "plan"
    BY <1>1 DEF DriverOK, Driver
  <1>2. ASSUME UNCHANGED <<worker, active>>
        PROVE  WorkersOK' /\ SamePcs /\ active' \subseteq WorkerId
    BY <1>2 DEF WorkersOK, SamePcs, DriverOK
  <1>3. ASSUME KeepJob PROVE JobOK' /\ job' = job
    BY <1>3 DEF KeepJob, JobOK
  <1>4. ASSUME NEW s \in JobState \ {"CREATED"},
               NEW pc \in (SyncPc \cup AwaitPc) \ {"plan"}, DriverTo(s, pc)
        PROVE  /\ WorkersOK' /\ SamePcs /\ DriverOK' /\ JobOK'
               /\ drv'.batch = drv.batch /\ drv'.pc # "plan" /\ job' \in {job, s}
    <2>1. CASE CanEnter(s)
      BY <1>1, <1>2, <1>4, <2>1, EnterKeeps DEF DriverTo, DriverOK
    <2>2. CASE ~CanEnter(s)
      BY <1>3, <1>4, <2>2, EndRunKeeps DEF DriverTo
    <2> QED BY <2>1, <2>2
  <1>5. ASSUME NEW pc \in (SyncPc \cup AwaitPc) \ {"plan"}, Continue(pc)
        PROVE  /\ WorkersOK' /\ SamePcs /\ DriverOK' /\ JobOK'
               /\ drv'.batch = drv.batch /\ drv'.pc # "plan" /\ job' = job
    BY <1>1, <1>2, <1>3, <1>5 DEF Continue, DriverOK
  <1>6. ASSUME NEW why \in {"discovery", "failure", "stalled", "repair"}, Ask(why)
        PROVE  /\ WorkersOK' /\ SamePcs /\ DriverOK' /\ JobOK'
               /\ drv'.batch = drv.batch /\ drv'.pc # "plan" /\ job' = job
    <2>1. drv' \in Driver /\ drv'.batch = drv.batch /\ drv'.pc # "plan"
      BY <1>6 DEF Ask, DriverOK, Driver, SyncPc
    <2> QED BY <1>2, <1>3, <1>6, <2>1 DEF Ask, DriverOK
  <1> QED BY <1>4, <1>5, <1>6 DEF GoesOn

----------------------------------------------------------------------------
(* Steps that dispatch nothing *)

\* A step after which no worker is alive that was not, and no task is gone.
LEMMA CalmKeeps ==
    ASSUME WorkersInv, TypeOK', PlansOnce', UNCHANGED <<running, pass>>,
           DOMAIN graph \subseteq DOMAIN graph',
           \A w \in WorkerId : worker'[w].pc \in {worker[w].pc, "none"},
           \A w \in drv'.batch : Done(w)'
    PROVE  WorkersInv'
  <1>1. PassNamed'
    BY DEF WorkersInv, PassNamed
  <1>2. WorkInv'
    BY WorkersEnd DEF WorkersInv, NothingNew, Live
  <1>3. KnownTasks'
    BY DEF WorkersInv, KnownTasks
  <1> QED BY <1>1, <1>2, <1>3 DEF WorkersInv

\* Most steps of the driver, which leave the graph and the workers alone.
LEMMA GoesOnInv ==
    ASSUME WorkersInv, GoesOn, job # "CREATED",
           UNCHANGED <<graph, running, busy, health, pass, unproven, fenced, ctl>>
    PROVE  WorkersInv'
  <1>1. WorkersOK /\ DriverOK /\ JobOK
    BY DEF WorkersInv, TypeOK, SchedTypeOK, WorkersOK, DriverOK, JobOK
  <1>2. /\ WorkersOK' /\ SamePcs /\ DriverOK' /\ JobOK'
        /\ drv'.batch = drv.batch /\ drv'.pc # "plan" /\ job' # "CREATED"
    BY <1>1, GoesOnKeeps
  <1>3. TypeOK'
    BY <1>2 DEF WorkersInv, TypeOK, SchedTypeOK, WorkersOK, DriverOK, JobOK
  <1>4. \A w \in drv'.batch : Done(w)'
    BY <1>1, <1>2 DEF WorkersInv, KnownTasks, Done, SamePcs, DriverOK, Driver
  <1> QED BY <1>2, <1>3, <1>4, CalmKeeps DEF PlansOnce, SamePcs

\* The driver's steps of that kind.
Decides == \/ FinishPlanning \/ RequestReplan \/ ConcludeReplan \/ AfterReplan
           \/ CapacityRestored \/ FinishBatch \/ CheckBatch \/ Verify \/ AfterRepair
           \/ \E v \in Verdicts : Verdict(v)

\* JobState has the states the driver asks for, and SyncPc and AwaitPc the points.
LEMMA Targets ==
    /\ {"PLANNING", "EXECUTING", "VERIFYING", "REPAIRING"} \cup Terminal
          \subseteq JobState \ {"CREATED"}
    /\ {"planned", "step", "refused", "planner", "returned", "exit", "again", "check",
        "verify", "repair", "repaired", "request"} \subseteq (SyncPc \cup AwaitPc) \ {"plan"}
  BY JobStates DEF Terminal, SyncPc, AwaitPc

\* They keep the invariant.
LEMMA DecidesInv == ASSUME WorkersInv, Decides PROVE WorkersInv'
  <1>1. ASSUME NEW pc \in {"planned", "request", "applied", "refused", "returned", "collect",
                           "batch", "check", "verify", "repaired"}, DriverAt(pc)
        PROVE  job # "CREATED"
    BY <1>1 DEF DriverAt, WorkersInv, PlansOnce
  <1> USE Targets DEF Terminal
  <1>2. CASE FinishPlanning
    BY <1>1, <1>2, GoesOnInv DEF FinishPlanning, GoesOn
  <1>3. CASE RequestReplan
    BY <1>1, <1>3, GoesOnInv DEF RequestReplan, GoesOn
  <1>4. CASE ConcludeReplan
    BY <1>1, <1>4, GoesOnInv DEF ConcludeReplan, GoesOn
  <1>5. CASE AfterReplan
    BY <1>1, <1>5, GoesOnInv DEF AfterReplan, GoesOn
  <1>6. CASE CapacityRestored
    BY <1>6, GoesOnInv DEF CapacityRestored, StepAt, GoesOn
  <1>7. CASE FinishBatch
    BY <1>1, <1>7, GoesOnInv DEF FinishBatch, GoesOn
  <1>8. CASE CheckBatch
    BY <1>1, <1>8, GoesOnInv DEF CheckBatch, GoesOn
  <1>9. CASE Verify
    BY <1>9, GoesOnInv DEF Verify, StepAt, GoesOn
  <1>10. CASE AfterRepair
    BY <1>1, <1>10, GoesOnInv DEF AfterRepair, GoesOn
  <1>11. ASSUME NEW v \in Verdicts, Verdict(v) PROVE WorkersInv'
    BY <1>1, <1>11, GoesOnInv DEF Verdict, GoesOn
  <1> QED BY <1>2, <1>3, <1>4, <1>5, <1>6, <1>7, <1>8, <1>9, <1>10, <1>11 DEF Decides

----------------------------------------------------------------------------
(* Steps that edit the graph *)

\* Fresh tasks, and what they are added as.
LEMMA AddAllKeeps ==
    ASSUME IsGraph(graph), NEW nodes, DOMAIN nodes \subseteq Task,
           \A t \in DOMAIN nodes : nodes[t] \in TaskNode, AddAll(nodes)
    PROVE  IsGraph(graph') /\ DOMAIN graph \subseteq DOMAIN graph'
  BY DEF AddAll, IsGraph

\* A step of the driver that edits the graph, or leaves it alone, and goes on.
LEMMA EditInv ==
    ASSUME WorkersInv, job # "CREATED", drv.pc # "plan" \/ drv'.pc # "plan",
           drv' \in Driver, drv'.pc # "plan", drv'.batch = drv.batch,
           IsGraph(graph'), DOMAIN graph \subseteq DOMAIN graph',
           UNCHANGED <<job, replans, repairs, active, worker, running, busy, health, pass,
                       unproven, fenced, ctl>>
    PROVE  WorkersInv'
  <1>1. TypeOK'
    BY DEF WorkersInv, TypeOK, SchedTypeOK
  <1>2. \A w \in drv'.batch : Done(w)'
    BY DEF WorkersInv, KnownTasks, Done
  <1> QED BY <1>1, <1>2, CalmKeeps DEF PlansOnce

\* The initial plan is all the graph holds.
LEMMA InitialPlanInv == ASSUME WorkersInv, InitialPlan PROVE WorkersInv'
  <1>1. job # "CREATED" /\ DOMAIN graph = {} /\ drv \in Driver /\ IsGraph(graph)
    BY DEF WorkersInv, PlansOnce, InitialPlan, DriverAt, TypeOK, SchedTypeOK
  <1>2. drv' \in Driver /\ drv'.pc = "planned" /\ drv'.batch = drv.batch
    BY <1>1 DEF InitialPlan, Continue, Driver, AwaitPc
  <1>3. IsGraph(graph')
    <2>1. CASE graph' = [t \in DOMAIN InitialDeps |-> NewNode(InitialDeps[t])]
      BY <2>1, NewNodeType DEF EngineAssumption, IsGraph
    <2> QED BY <1>1, <2>1 DEF InitialPlan
  <1> QED BY <1>1, <1>2, <1>3, EditInv DEF InitialPlan, Continue, KeepJob

\* An exhausted task is superseded; its copy is a new node.
LEMMA PlanFailureKeeps ==
    ASSUME IsGraph(graph), PlanFailure
    PROVE  IsGraph(graph') /\ DOMAIN graph \subseteq DOMAIN graph'
  <1>1. PICK fix \in [Exhausted -> Task \ DOMAIN graph], kept \in SUBSET Exhausted :
           graph' = WithCopies(fix, kept)
    BY DEF PlanFailure
  <1>3. Exhausted \subseteq DOMAIN graph
    BY DEF Exhausted, WithStatus
  <1>4. ASSUME NEW t \in Exhausted PROVE SupersedeTask(graph, t, fix[t])[t] \in TaskNode
    <2>1. t \in DOMAIN graph /\ fix[t] \in Task
      BY <1>3
    <2>2. IsGraph(SupersedeTask(graph, t, fix[t]))
      BY <2>1, StatusEdits
    <2>3. DOMAIN SupersedeTask(graph, t, fix[t]) = DOMAIN graph
      BY DEF SupersedeTask
    <2> QED BY <2>1, <2>2, <2>3 DEF IsGraph
  <1>5. ASSUME NEW u \in DOMAIN graph
        PROVE  [NewNode(graph[u].deps) EXCEPT !.actor = graph[u].actor] \in TaskNode
    <2>1. graph[u].deps \in SUBSET Task /\ graph[u].actor \in Actor \cup {NoActor}
      BY DEF IsGraph, TaskNode
    <2>2. NewNode(graph[u].deps) \in TaskNode
      BY <2>1, NewNodeType
    <2> QED BY <2>1, <2>2 DEF TaskNode
  <1>6. ASSUME NEW t \in {fix[u] : u \in kept} \ DOMAIN graph
        PROVE  (CHOOSE u \in kept : fix[u] = t) \in DOMAIN graph
    <2>1. \E u \in kept : fix[u] = t
      OBVIOUS
    <2> QED BY <1>3, <2>1
  <1>7. ASSUME NEW t \in DOMAIN graph' PROVE graph'[t] \in TaskNode
    <2>1. CASE t \in Exhausted
      BY <1>1, <1>3, <1>4, <2>1 DEF WithCopies
    <2>2. CASE t \in DOMAIN graph \ Exhausted
      BY <1>1, <2>2 DEF WithCopies, IsGraph
    <2>3. CASE t \notin DOMAIN graph
      BY <1>1, <1>3, <1>5, <1>6, <2>3 DEF WithCopies
    <2> QED BY <2>1, <2>2, <2>3
  <1>8. DOMAIN graph' = DOMAIN graph \cup {fix[u] : u \in kept}
    BY <1>1 DEF WithCopies
  <1>9. DOMAIN graph' \subseteq Task
    BY <1>3, <1>8 DEF IsGraph
  <1>10. graph' = [t \in DOMAIN graph' |-> graph'[t]]
    BY <1>1 DEF WithCopies
  <1> QED BY <1>7, <1>8, <1>9, <1>10 DEF IsGraph

\* The planner's answer to an observation, or to a verification.
LEMMA PlanAddsKeeps ==
    ASSUME IsGraph(graph), NEW asked \in SUBSET Task, PlanDiscovery(asked) \/ PlanRepair
    PROVE  IsGraph(graph') /\ DOMAIN graph \subseteq DOMAIN graph'
  <1>1. CASE PlanDiscovery(asked)
    <2>1. PICK new \in [asked -> Fresh(FALSE)] :
             AddAll([n \in {new[t] : t \in asked} |-> NewNode({t \in asked : new[t] = n})])
      BY <1>1 DEF PlanDiscovery
    <2> DEFINE nodes == [n \in {new[t] : t \in asked} |-> NewNode({t \in asked : new[t] = n})]
    <2>2. DOMAIN nodes \subseteq Task
      BY DEF Fresh
    <2>3. \A n \in DOMAIN nodes : nodes[n] \in TaskNode
      <3>1. \A n \in DOMAIN nodes : {t \in asked : new[t] = n} \in SUBSET Task
        OBVIOUS
      <3> QED BY <3>1, NewNodeType
    <2> HIDE DEF nodes
    <2> QED BY <2>1, <2>2, <2>3, AddAllKeeps DEF nodes
  <1>2. CASE PlanRepair
    <2>1. PICK n \in Fresh(FALSE) : AddAll([t \in {n} |-> NewNode({})])
      BY <1>2 DEF PlanRepair
    <2> DEFINE nodes == [t \in {n} |-> NewNode({})]
    <2>2. DOMAIN nodes \subseteq Task /\ \A t \in DOMAIN nodes : nodes[t] \in TaskNode
      BY NewNodeType DEF Fresh
    <2> HIDE DEF nodes
    <2> QED BY <2>1, <2>2, AddAllKeeps DEF nodes
  <1> QED BY <1>1, <1>2

\* request_replan's planner, and the edits it comes back with.
LEMMA PlanInv == ASSUME WorkersInv, Plan PROVE WorkersInv'
  <1>1. IsGraph(graph) /\ drv \in Driver /\ drv.discover \subseteq Task
    BY DEF WorkersInv, TypeOK, SchedTypeOK, Driver
  <1>2. job # "CREATED" /\ drv.pc = "planner"
    BY DEF WorkersInv, PlansOnce, Plan, DriverAt
  <1>3. PICK asked \in SUBSET drv.discover, mutates \in BOOLEAN :
           /\ UNCHANGED graph \/ PlanFailure \/ PlanDiscovery(asked) \/ PlanRepair
           /\ drv' = [drv EXCEPT !.pc = "applied", !.continue = mutates, !.discover = {}]
    BY DEF Plan
  <1>4. IsGraph(graph') /\ DOMAIN graph \subseteq DOMAIN graph'
    BY <1>1, <1>3, PlanFailureKeeps, PlanAddsKeeps
  <1>5. drv' \in Driver /\ drv'.pc = "applied" /\ drv'.batch = drv.batch
    BY <1>1, <1>3 DEF Driver, AwaitPc
  <1> QED BY <1>2, <1>4, <1>5, EditInv DEF Plan

\* A new task without dependencies.
LEMMA AddFreshKeeps ==
    ASSUME IsGraph(graph), NEW checks, NEW n \in Fresh(checks)
    PROVE  /\ IsGraph(AddTask(graph, n, NewNode({})))
           /\ DOMAIN AddTask(graph, n, NewNode({})) = DOMAIN graph \cup {n}
  <1>1. n \in Task /\ NewNode({}) \in TaskNode
    BY NewNodeType DEF Fresh
  <1>2. IsGraph(AddTask(graph, n, NewNode({})))
    BY <1>1, AddTaskType
  <1> QED BY <1>2 DEF AddTask

\* The repair that follows a verification.
LEMMA RepairInv == ASSUME WorkersInv, NEW rec \in Recommends, Repair(rec) PROVE WorkersInv'
  <1>1. IsGraph(graph) /\ drv \in Driver
    BY DEF WorkersInv, TypeOK, SchedTypeOK
  <1>2. job # "CREATED" /\ drv.pc = "repair"
    BY DEF WorkersInv, PlansOnce, Repair, DriverAt
  <1>3. IsGraph(graph') /\ DOMAIN graph \subseteq DOMAIN graph'
    BY <1>1, AddFreshKeeps DEF Repair
  <1>4. drv' \in Driver /\ drv'.pc # "plan" /\ drv'.batch = drv.batch
    <2>1. CASE Ask("repair")
      BY <1>1, <2>1 DEF Ask, Driver, SyncPc
    <2>2. CASE Continue("repaired")
      BY <1>1, <2>2 DEF Continue, Driver, AwaitPc
    <2> QED BY <2>1, <2>2 DEF Repair
  <1> QED BY <1>2, <1>3, <1>4, EditInv DEF Repair, Ask, Continue, KeepJob

----------------------------------------------------------------------------
(* Steps that take a result *)

LEMMA ResultInv ==
    ASSUME WorkersInv, NEW w \in drv.batch, job # "CREATED",
           worker' = [worker EXCEPT ![w] = NoWorker],
           drv' \in Driver, drv'.batch = drv.batch \ {w}, drv'.pc \in {"collect", "batch"},
           JobOK', job' # "CREATED", IsGraph(graph'), DOMAIN graph \subseteq DOMAIN graph',
           unproven' \subseteq Task, active' \subseteq WorkerId, fenced' \in BOOLEAN,
           UNCHANGED <<running, busy, health, pass, ctl>>
    PROVE  WorkersInv'
  <1>1. w \in WorkerId /\ WorkersOK /\ NoWorker \in WorkerRecord /\ NoWorker.pc = "none"
    BY DEF WorkersInv, TypeOK, SchedTypeOK, WorkersOK, Driver, NoWorker, WorkerRecord
  <1>2. WorkersOK' /\ \A v \in WorkerId \ {w} : worker'[v] = worker[v]
    BY <1>1, WorkerPatch DEF WorkersOK
  <1>3. \A v \in WorkerId : worker'[v].pc \in {worker[v].pc, "none"}
    BY <1>1, <1>2 DEF WorkersOK
  <1>4. \A v \in drv'.batch : Done(v)'
    BY <1>2 DEF WorkersInv, KnownTasks, Done, TypeOK, Driver
  <1>5. TypeOK'
    BY <1>2 DEF WorkersInv, TypeOK, SchedTypeOK, WorkersOK, JobOK
  <1> QED BY <1>3, <1>4, <1>5, CalmKeeps DEF PlansOnce

\* The repair task, the fresh check, and the failed check superseded by it.
LEMMA RepairVerdictKeeps ==
    ASSUME WorkersInv, NEW w \in drv.batch, RepairVerdict(w)
    PROVE  IsGraph(graph') /\ DOMAIN graph \subseteq DOMAIN graph'
  <1> DEFINE t == w[1]
             CheckNode(repair) == [NewNode({repair}) EXCEPT !.actor = graph[t].actor]
             Both(repair, recheck) == AddTask(AddTask(graph, repair, NewNode({})), recheck,
                                              CheckNode(repair))
  <1>1. IsGraph(graph) /\ w \in WorkerId
    BY DEF WorkersInv, TypeOK, SchedTypeOK, Driver
  <1>2. t \in DOMAIN graph
    BY <1>1 DEF WorkersInv, KnownTasks, Done
  <1>3. PICK repair \in Fresh(FALSE), recheck \in Fresh(TRUE) :
           graph' = SupersedeTask(Both(repair, recheck), t, recheck)
    BY Zenon DEF RepairVerdict
  <1>4. repair \in Task /\ recheck \in Task
    BY DEF Fresh
  <1>5. CheckNode(repair) \in TaskNode
    <2>1. NewNode({repair}) \in TaskNode
      BY <1>4, NewNodeType
    <2>2. graph[t].actor \in Actor \cup {NoActor}
      BY <1>1, <1>2 DEF IsGraph, TaskNode
    <2> QED BY <2>1, <2>2 DEF TaskNode
  <1> DEFINE both == Both(repair, recheck)
  <1>6. IsGraph(both) /\ DOMAIN both = DOMAIN graph \cup {repair, recheck}
    <2>1. /\ IsGraph(AddTask(graph, repair, NewNode({})))
          /\ DOMAIN AddTask(graph, repair, NewNode({})) = DOMAIN graph \cup {repair}
      BY <1>1, AddFreshKeeps
    <2>2. IsGraph(both)
      <3> HIDE DEF CheckNode
      <3> QED BY <1>4, <1>5, <2>1, AddTaskType
    <2> QED BY <2>1, <2>2 DEF AddTask
  <1>7. graph' = SupersedeTask(both, t, recheck)
    BY <1>3
  <1> HIDE DEF both, t
  <1>8. IsGraph(graph') /\ SameShape(both, graph')
    BY <1>2, <1>4, <1>6, <1>7, StatusEdits
  <1> QED BY <1>6, <1>8 DEF SameShape

\* The run ends, which the graph and the pass do not notice.
LEMMA EndRunInv ==
    ASSUME WorkersInv, NEW pc \in {"drain", "unwind"}, EndRun(pc), KeepJob,
           UNCHANGED <<graph, running, busy, health, unproven, fenced, ctl>>,
           UNCHANGED pass \/ pass' = IdlePass
    PROVE  WorkersInv'
  <1>1. WorkersOK /\ DriverOK /\ IdlePass \in PassRecord /\ IdlePass.pc = "idle"
    BY DEF WorkersInv, TypeOK, SchedTypeOK, WorkersOK, DriverOK, IdlePass, PassRecord
  <1>2. WorkersOK' /\ SamePcs /\ DriverOK' /\ drv'.pc = pc /\ drv'.batch = drv.batch
    BY <1>1, EndRunKeeps
  <1>3. TypeOK'
    BY <1>1, <1>2 DEF WorkersInv, TypeOK, SchedTypeOK, WorkersOK, DriverOK, KeepJob
  <1>4. PassNamed' /\ WorkInv'
    <2>1. NothingNew /\ \A w \in WorkerId : Live(w)' => Live(w)
      BY <1>1, <1>2 DEF NothingNew, SamePcs, Live
    <2>2. PassNamed'
      BY <1>1 DEF WorkersInv, PassNamed
    <2> QED BY <2>1, <2>2, WorkersEnd DEF WorkersInv
  <1>5. KnownTasks'
    <2>1. \A w \in drv'.batch : Done(w)'
      BY <1>1, <1>2 DEF WorkersInv, KnownTasks, Done, SamePcs, DriverOK, Driver
    <2>2. /\ pass'.todo \subseteq DOMAIN graph
          /\ \/ pass'.pc = pass.pc /\ pass'.task = pass.task
             \/ pass'.pc = "idle"
      BY DEF WorkersInv, KnownTasks, IdlePass
    <2> QED BY <1>2, <2>1, <2>2 DEF WorkersInv, KnownTasks, SamePcs
  <1>6. PlansOnce'
    BY <1>2 DEF PlansOnce
  <1> QED BY <1>3, <1>4, <1>5, <1>6 DEF WorkersInv

\* A result is handled by default, or handed to the repair loop.
LEMMA BatchInv ==
    ASSUME WorkersInv, NEW w \in drv.batch,
           CollectResult(w) \/ RepairVerdict(w) \/ RepairRefused(w) \/ RepairRaises(w)
    PROVE  WorkersInv'
  <1>1. /\ IsGraph(graph) /\ drv \in Driver /\ JobOK /\ WorkersOK /\ DriverOK
        /\ w \in WorkerId /\ w[1] \in Task /\ unproven \subseteq Task /\ fenced \in BOOLEAN
        /\ active \subseteq WorkerId
    BY DEF WorkersInv, TypeOK, SchedTypeOK, JobOK, WorkersOK, DriverOK, Driver, WorkerId
  <1>2. job # "CREATED" /\ drv.pc \in {"collect", "batch"}
    BY DEF WorkersInv, PlansOnce, CollectResult, RepairVerdict, RepairRefused, RepairRaises,
           TakeResult, DriverAt
  <1>3. CASE CollectResult(w)
    <2>1. drv' \in Driver /\ drv'.batch = drv.batch \ {w} /\ drv'.pc = "collect"
      <3> DEFINE block == drv.block \/ worker[w].result = "env"
                            \/ (worker[w].result = "unproven" /\ w[1] \in unproven)
                 discover == IF worker[w].result \in {"discover", "redo"}
                             THEN drv.discover \cup {w[1]} ELSE drv.discover
      <3>1. drv' = [drv EXCEPT !.pc = "collect", !.batch = drv.batch \ {w},
                               !.block = block, !.discover = discover]
        BY <1>3 DEF CollectResult
      <3>2. block \in BOOLEAN /\ discover \subseteq Task /\ drv.batch \ {w} \subseteq WorkerId
        BY <1>1 DEF Driver
      <3> HIDE DEF block, discover
      <3> QED BY <1>1, <3>1, <3>2 DEF Driver, AwaitPc
    <2> QED BY <1>1, <1>2, <1>3, <2>1, ResultInv DEF CollectResult, TakeResult, KeepJob, JobOK
  <1>4. CASE RepairRefused(w)
    <2>1. drv' \in Driver /\ drv'.batch = drv.batch \ {w} /\ drv'.pc = "batch"
      BY <1>1, <1>4 DEF RepairRefused, Driver, AwaitPc
    <2>2. JobOK' /\ job' # "CREATED"
      BY <1>1, <1>4, EnterKeeps, Targets DEF RepairRefused, Terminal
    <2> QED BY <1>1, <1>2, <1>4, <2>1, <2>2, ResultInv DEF RepairRefused, TakeResult
  <1>5. CASE RepairVerdict(w)
    <2>1. drv' \in Driver /\ drv'.batch = drv.batch \ {w} /\ drv'.pc = "batch"
      BY <1>1, <1>5 DEF RepairVerdict, Driver, AwaitPc
    <2>2. JobOK' /\ job' # "CREATED"
      BY <1>1, <1>2, <1>5 DEF RepairVerdict, JobOK
    <2>3. IsGraph(graph') /\ DOMAIN graph \subseteq DOMAIN graph'
      BY <1>1, <1>5, RepairVerdictKeeps
    <2> QED BY <1>1, <1>2, <1>5, <2>1, <2>2, <2>3, ResultInv DEF RepairVerdict, TakeResult
  <1>6. CASE RepairRaises(w)
    BY <1>6, EndRunInv DEF RepairRaises
  <1> QED BY <1>3, <1>4, <1>5, <1>6

----------------------------------------------------------------------------
(* Steps of the dispatch pass and of the workers, under the engine *)

\* Whether a worker or the pass steps, no task leaves the graph, and a worker
\* begins only for the task the pass has in hand.
LEMMA WorkerKeepsKnown ==
    ASSUME WorkersInv, NEW w \in WorkerId, WorkerStep(w), UNCHANGED engineVars
    PROVE  WorkersInv'
  <1>1. WorkersOK /\ SchedTypeOK
    BY DEF WorkersInv, TypeOK, SchedTypeOK, WorkersOK
  <1>2. WorkInv' /\ SchedTypeOK'
    BY <1>1, WorkerStepWork, WorkerStepType DEF WorkersInv
  <1>3. Live(w)
    BY DEF WorkerStep, WorkerBegin, WorkerNeverRan, WorkerSucceeds, WorkerFails,
           WorkerProviderFails, WorkerReroutes, WorkerSettles, WorkerInterrupted,
           WorkerUnwinds, WorkerAt, Live
  <1>4. DOMAIN graph' = DOMAIN graph
    BY DEF WorkerStep, WorkerBegin, WorkerNeverRan, WorkerSucceeds, WorkerFails,
           WorkerProviderFails, WorkerReroutes, WorkerSettles, WorkerInterrupted,
           WorkerUnwinds, MarkSuccess, MarkFailure, MarkCancelled
  <1>5. UNCHANGED pass /\ \A v \in WorkerId : v # w => worker'[v] = worker[v]
    BY <1>1 DEF WorkerStep, WorkerBegin, WorkerNeverRan, WorkerSucceeds, WorkerFails,
           WorkerProviderFails, WorkerReroutes, WorkerSettles, WorkerInterrupted,
           WorkerUnwinds, Move, Finish, WorkersOK
  <1>6. TypeOK'
    BY <1>2 DEF WorkersInv, TypeOK, engineVars
  <1>7. KnownTasks'
    <2>1. \A v \in drv.batch : v # w /\ v \in WorkerId
      BY <1>3 DEF WorkersInv, KnownTasks, Done, Live, TypeOK, Driver
    <2>2. w[1] \in DOMAIN graph
      BY <1>3 DEF WorkersInv, KnownTasks, Live
    <2> QED BY <1>4, <1>5, <2>1, <2>2 DEF WorkersInv, KnownTasks, Done, engineVars
  <1>8. PassNamed' /\ PlansOnce'
    BY <1>4, <1>5 DEF WorkersInv, PassNamed, PlansOnce, engineVars
  <1> QED BY <1>2, <1>6, <1>7, <1>8 DEF WorkersInv

\* The tasks and workers of a pass, after it begins, goes on, or ends.
LEMMA PassKnown ==
    ASSUME WorkersInv, PassBegin \/ PassStep \/ PassEnd
    PROVE  /\ SchedTypeOK' /\ PassNamed' /\ WorkInv'
           /\ DOMAIN graph' = DOMAIN graph
           /\ \A w \in WorkerId : Done(w) => Done(w)'
           /\ \A w \in WorkerId : worker'[w].pc # "none" => w[1] \in DOMAIN graph
           /\ pass'.todo \subseteq DOMAIN graph
           /\ pass'.pc \in {"reroute", "start"} => pass'.task \in DOMAIN graph
  <1>1. WorkersOK /\ SchedTypeOK /\ PassNamed /\ pass \in PassRecord /\ WorkInv
    BY DEF WorkersInv, TypeOK, SchedTypeOK, WorkersOK
  <1>2. SchedTypeOK' /\ PassNamed' /\ WorkInv'
    BY <1>1, PassType, PassWork
  <1>3. \A S : DOMAIN PassOver(S) = DOMAIN graph
    BY DEF PassOver, MarkBlocked
  <1>4. ASSUME NEW g, NEW t \in DOMAIN graph, NEW a, NEW S, Acquire(g, t, a, S),
               DOMAIN g = DOMAIN graph, UNCHANGED worker
        PROVE  /\ DOMAIN graph' = DOMAIN graph
               /\ \A w \in WorkerId : Done(w) => Done(w)'
               /\ \A w \in WorkerId : worker'[w].pc # "none" => w[1] \in DOMAIN graph
               /\ pass'.todo \subseteq DOMAIN graph
               /\ pass'.pc \in {"reroute", "start"} => pass'.task \in DOMAIN graph
    <2>1. pass'.todo \subseteq pass.todo /\ pass'.task = t
      BY <1>1, <1>4 DEF Acquire, PassRecord
    <2> QED BY <1>4, <2>1 DEF Acquire, MarkRunning, WorkersInv, KnownTasks, Done
  <1> DEFINE Known == /\ DOMAIN graph' = DOMAIN graph
                      /\ \A w \in WorkerId : Done(w) => Done(w)'
                      /\ \A w \in WorkerId : worker'[w].pc # "none" => w[1] \in DOMAIN graph
                      /\ pass'.todo \subseteq DOMAIN graph
                      /\ pass'.pc \in {"reroute", "start"} => pass'.task \in DOMAIN graph
  <1>5. CASE PassBegin
    <2>1. pass'.todo = ReadyTasks(graph) /\ pass'.pc = "pick"
      BY <1>5 DEF PassBegin, IdlePass
    <2> QED BY <1>2, <1>5, <2>1 DEF PassBegin, ReadyTasks, WorkersInv, KnownTasks, Done
  <1>6. CASE PassEnd
    <2>1. pass'.todo = {} /\ pass'.pc = "idle"
      BY <1>6, Zenon DEF PassEnd, IdlePass
    <2> QED BY <1>2, <1>3, <1>6, <2>1 DEF PassEnd, WorkersInv, KnownTasks, Done
  <1>7. CASE PassResume
    <2>1. pass.task \in DOMAIN graph
      BY <1>7 DEF PassResume, WorkersInv, KnownTasks
    <2> QED BY <1>2, <1>4, <1>7, <2>1 DEF PassResume
  <1>8. ASSUME NEW t \in pass.todo, NEW S, PassAssign(t, S) PROVE Known
    <2>1. t \in DOMAIN graph
      BY DEF WorkersInv, KnownTasks
    <2>2. PICK d \in Decisions(t) : Acquire(PassOver(S), t, d.actor, S)
      BY <1>8 DEF PassAssign
    <2> QED BY <1>3, <1>4, <1>8, <2>1, <2>2 DEF PassAssign
  <1>9. ASSUME NEW t \in pass.todo, NEW S, PassReroute(t, S) PROVE Known
    <2>1. t \in DOMAIN graph
      BY DEF WorkersInv, KnownTasks
    <2>2. pass'.todo \subseteq pass.todo /\ pass'.task = t
      BY <1>1, <1>9 DEF PassReroute, PassRecord
    <2>3. DOMAIN graph' = DOMAIN graph /\ UNCHANGED worker
      BY <1>3, <1>9 DEF PassReroute
    <2> QED BY <2>1, <2>2, <2>3 DEF WorkersInv, KnownTasks, Done
  <1>10. ASSUME NEW w \in WorkerId, PassLaunch(w) PROVE Known
    <2>1. /\ pass'.todo = pass.todo /\ pass'.pc = "pick" /\ pass.pc = "start"
          /\ w[1] = pass.task /\ UNCHANGED graph
      BY <1>1, <1>10 DEF PassLaunch, PassRecord
    <2>2. \A v \in WorkerId : v # w => worker'[v] = worker[v]
      BY <1>1, <1>10 DEF PassLaunch, WorkersOK
    <2>3. ~Done(w)
      BY <1>10 DEF PassLaunch, Done
    <2> QED BY <2>1, <2>2, <2>3 DEF WorkersInv, KnownTasks, Done
  <1> QED BY <1>2, <1>5, <1>6, <1>7, <1>8, <1>9, <1>10 DEF PassStep

\* A pass of the driver that begins, goes on, or ends with a decision.
LEMMA PassInv ==
    ASSUME WorkersInv, PassBegin \/ PassStep \/ PassEnd, job # "CREATED",
           drv' \in Driver, drv'.pc # "plan", drv'.batch = drv.batch, active' \subseteq WorkerId,
           JobOK', job' # "CREATED", UNCHANGED <<unproven, fenced, ctl>>
    PROVE  WorkersInv'
  <1>1. TypeOK'
    BY PassKnown DEF WorkersInv, TypeOK, JobOK
  <1>2. KnownTasks'
    <2>1. \A w \in drv'.batch : w \in WorkerId /\ Done(w)
      BY DEF WorkersInv, KnownTasks, TypeOK, Driver
    <2> QED BY <2>1, PassKnown DEF KnownTasks
  <1> QED BY <1>1, <1>2, PassKnown DEF WorkersInv, PlansOnce

\* Once the last ready task is looked at, the engine waits or decides.
LEMMA FinishPassInv == ASSUME WorkersInv, FinishPass PROVE WorkersInv'
  <1> DEFINE tracked == active \cup pass.launched
  <1>1. drv \in Driver /\ tracked \subseteq WorkerId /\ JobOK /\ active \subseteq WorkerId
    BY DEF WorkersInv, TypeOK, SchedTypeOK, PassRecord, JobOK
  <1>2. job # "CREATED"
    BY DEF WorkersInv, PlansOnce, FinishPass, DriverAt
  <1>3. \/ drv' = [drv EXCEPT !.pc = "wait", !.waiting = tracked]
        \/ drv' = [drv EXCEPT !.pc = "check"]
        \/ drv' = [drv EXCEPT !.pc = "step"]
        \/ drv' = [drv EXCEPT !.pc = "drain", !.drain = {}]
    BY Zenon DEF FinishPass
  <1>4. drv' \in Driver /\ drv'.pc # "plan" /\ drv'.batch = drv.batch
    <2> HIDE DEF tracked
    <2>1. CASE drv' = [drv EXCEPT !.pc = "wait", !.waiting = tracked]
      BY <1>1, <2>1 DEF Driver, AwaitPc
    <2>2. CASE drv' = [drv EXCEPT !.pc = "check"]
      BY <1>1, <2>2 DEF Driver, SyncPc
    <2>3. CASE drv' = [drv EXCEPT !.pc = "step"]
      BY <1>1, <2>3 DEF Driver, AwaitPc
    <2>4. CASE drv' = [drv EXCEPT !.pc = "drain", !.drain = {}]
      BY <1>1, <2>4 DEF Driver
    <2> QED BY <1>3, <2>1, <2>2, <2>3, <2>4
  <1>5. JobOK' /\ job' # "CREATED"
    <2>1. KeepJob \/ Enter("WAITING_FOR_CAPACITY")
      BY Zenon DEF FinishPass
    <2> QED BY <1>1, <1>2, <2>1, EnterKeeps, JobStates DEF KeepJob, JobOK
  <1>6. active' \subseteq WorkerId /\ PassEnd /\ UNCHANGED <<unproven, fenced, ctl>>
    BY <1>1 DEF FinishPass
  <1> QED BY <1>2, <1>4, <1>5, <1>6, PassInv

\* The pass is begun, or the work is done.
LEMMA BeginPassInv == ASSUME WorkersInv, BeginPass PROVE WorkersInv'
  <1>1. job # "CREATED" /\ drv \in Driver /\ JobOK /\ active \subseteq WorkerId
    BY DEF WorkersInv, TypeOK, BeginPass, StepAt, JobOK
  <1>2. CASE DriverTo("VERIFYING", "step") /\ UNCHANGED <<graph, running, busy, health, pass>>
    <2>1. GoesOn
      BY <1>2, Targets DEF GoesOn
    <2> QED BY <1>1, <1>2, <2>1, GoesOnInv DEF BeginPass
  <1>3. CASE /\ PassBegin /\ drv' = [drv EXCEPT !.pc = "pass"]
             /\ UNCHANGED <<job, replans, repairs, active>>
    <2>1. drv' \in Driver /\ drv'.pc # "plan" /\ drv'.batch = drv.batch
      BY <1>1, <1>3 DEF Driver, AwaitPc
    <2> QED BY <1>1, <1>3, <2>1, PassInv DEF BeginPass, JobOK
  <1> QED BY <1>2, <1>3 DEF BeginPass

\* The dispatch loop.
LEMMA RunPassInv == ASSUME WorkersInv, RunPass PROVE WorkersInv'
  <1>1. job # "CREATED" /\ drv \in Driver /\ drv.pc = "pass" /\ JobOK /\ active \subseteq WorkerId
    BY DEF WorkersInv, TypeOK, RunPass, PlansOnce, DriverAt, JobOK
  <1> QED BY <1>1, PassInv DEF RunPass, engineVars, JobOK

----------------------------------------------------------------------------
(* The remaining steps of the driver *)

\* A step that touches neither the graph, the workers nor the pass.
LEMMA DriverOnlyInv ==
    ASSUME WorkersInv, UNCHANGED schedVars, JobOK', drv' \in Driver, active' \subseteq WorkerId,
           unproven' \subseteq Task, fenced' \in BOOLEAN, ctl' \in Controller, PlansOnce',
           \A w \in drv'.batch : Done(w)
    PROVE  WorkersInv'
  <1>1. TypeOK'
    BY DEF WorkersInv, TypeOK, SchedTypeOK, JobOK, schedVars
  <1> QED BY <1>1, CalmKeeps DEF schedVars, Done

\* initialize_and_plan is entered once.
LEMMA StartPlanningInv == ASSUME WorkersInv, StartPlanning PROVE WorkersInv'
  <1>1. /\ drv \in Driver /\ JobOK /\ active \subseteq WorkerId /\ DOMAIN graph = {}
        /\ \A w \in drv.batch : Done(w)
    BY DEF WorkersInv, TypeOK, JobOK, PlansOnce, KnownTasks, StartPlanning, DriverAt
  <1>2. CanEnter("PLANNING")
    BY DEF StartPlanning, CanEnter, Legal
  <1>3. drv' = [drv EXCEPT !.pc = "plan"] /\ UNCHANGED schedVars /\ UNCHANGED active
    BY <1>2 DEF StartPlanning, DriverTo, schedVars
  <1>4. drv' \in Driver /\ drv'.pc = "plan" /\ drv'.batch = drv.batch
    BY <1>1, <1>3 DEF Driver, AwaitPc
  <1>5. JobOK' /\ job' # "CREATED"
    BY <1>1, <1>2, EnterKeeps, Targets DEF StartPlanning, DriverTo
  <1>6. PlansOnce'
    BY <1>1, <1>3, <1>4, <1>5 DEF PlansOnce, schedVars
  <1> QED BY <1>1, <1>3, <1>4, <1>5, <1>6, DriverOnlyInv
          DEF StartPlanning, WorkersInv, TypeOK

\* asyncio.wait returns the workers that are done.
LEMMA WakeInv == ASSUME WorkersInv, Wake PROVE WorkersInv'
  <1> DEFINE done == {w \in drv.waiting : Done(w)}
  <1>1. /\ drv \in Driver /\ JobOK /\ drv.waiting \subseteq WorkerId /\ drv.pc = "wait"
        /\ job # "CREATED"
    BY DEF WorkersInv, TypeOK, JobOK, Driver, Wake, DriverAt, PlansOnce
  <1>2. drv' = [drv EXCEPT !.pc = "collect", !.waiting = {}, !.batch = done,
                           !.block = FALSE, !.discover = {}]
    BY DEF Wake
  <1>3. drv' \in Driver /\ drv'.pc = "collect" /\ drv'.batch = done
    <2>1. done \subseteq WorkerId
      BY <1>1
    <2> HIDE DEF done
    <2> QED BY <1>1, <1>2, <2>1 DEF Driver, AwaitPc
  <1>4. active' \subseteq WorkerId /\ JobOK' /\ job' # "CREATED"
    BY <1>1 DEF Wake, KeepJob, JobOK
  <1> QED BY <1>3, <1>4, DriverOnlyInv DEF Wake, PlansOnce, WorkersInv, TypeOK, KeepJob

\* The loop sees a terminal state, or that the engine was fenced.
LEMMA LeaveLoopInv == ASSUME WorkersInv, LeaveLoop PROVE WorkersInv'
  <1>1. CASE EndRun("drain") /\ KeepJob
    BY <1>1, EndRunInv DEF LeaveLoop
  <1>2. CASE DriverTo("BLOCKED", "exit")
    <2>1. CASE job = "CREATED"
      <3>1. ~CanEnter("BLOCKED")
        BY <2>1 DEF CanEnter, Legal
      <3> QED BY <1>1, <1>2, <3>1 DEF DriverTo
    <2>2. CASE job # "CREATED"
      <3>1. GoesOn
        BY <1>2, Targets DEF GoesOn, Terminal
      <3> QED BY <2>2, <3>1, GoesOnInv DEF LeaveLoop
    <2> QED BY <2>1, <2>2
  <1> QED BY <1>1, <1>2 DEF LeaveLoop

\* The run's end, whether or not it waited for its workers.
LEMMA RunEndsInv ==
    ASSUME WorkersInv, RunEnds \/ DrainInterrupted
    PROVE  WorkersInv'
  <1>1. drv \in Driver /\ JobOK /\ active \subseteq WorkerId /\ \A w \in drv.batch : Done(w)
    BY DEF WorkersInv, TypeOK, JobOK, KnownTasks
  <1>2. drv' \in Driver /\ drv'.pc = "ended" /\ drv'.batch = drv.batch
    <2>1. CASE drv' = [drv EXCEPT !.pc = "ended", !.drain = {}]
      BY <1>1, <2>1 DEF Driver
    <2>2. CASE drv' = [drv EXCEPT !.pc = "ended", !.cancel = FALSE, !.drain = {}]
      BY <1>1, <2>2 DEF Driver
    <2> QED BY <2>1, <2>2, Zenon DEF RunEnds, DrainInterrupted
  <1>3. JobOK'
    BY <1>1, EnterKeeps, Targets DEF RunEnds, DrainInterrupted, KeepJob, JobOK, Terminal
  <1>4. PlansOnce'
    BY <1>2 DEF PlansOnce
  <1> QED BY <1>1, <1>2, <1>3, <1>4, DriverOnlyInv
          DEF RunEnds, DrainInterrupted, WorkersInv, TypeOK

\* A cancellation that a result swallows.
LEMMA SwallowInv == ASSUME WorkersInv, DriverSwallows PROVE WorkersInv'
  <1>1. /\ drv \in Driver /\ JobOK /\ IsGraph(graph) /\ active \subseteq WorkerId
        /\ \A w \in drv.batch : Done(w)
    BY DEF WorkersInv, TypeOK, SchedTypeOK, JobOK, KnownTasks
  <1>2. job # "CREATED" /\ drv.pc \in {"collect", "batch"}
    BY DEF WorkersInv, PlansOnce, DriverSwallows
  <1>3. CASE UNCHANGED worker /\ drv' = [drv EXCEPT !.cancel = FALSE]
    <2>1. drv' \in Driver /\ drv'.pc = drv.pc /\ drv'.batch = drv.batch
      BY <1>1, <1>3 DEF Driver
    <2> QED BY <1>1, <1>2, <1>3, <2>1, DriverOnlyInv
            DEF DriverSwallows, KeepJob, JobOK, PlansOnce, WorkersInv, TypeOK, schedVars
  <1>4. ASSUME NEW w \in drv.batch, worker' = [worker EXCEPT ![w] = NoWorker],
               drv' = [drv EXCEPT !.cancel = FALSE, !.batch = drv.batch \ {w}]
        PROVE  WorkersInv'
    <2>1. drv' \in Driver /\ drv'.pc = drv.pc /\ drv'.batch = drv.batch \ {w}
      BY <1>1, <1>4 DEF Driver
    <2> QED BY <1>1, <1>2, <1>4, <2>1, ResultInv
            DEF DriverSwallows, KeepJob, JobOK, WorkersInv, TypeOK
  <1> QED BY <1>3, <1>4 DEF DriverSwallows

\* Every step of the driver.
LEMMA DriverInv == ASSUME WorkersInv, DriverStep PROVE WorkersInv'
  <1>1. CASE DriverInterrupted
    BY <1>1, EndRunInv DEF DriverInterrupted
  <1> QED BY <1>1, DecidesInv, InitialPlanInv, PlanInv, RepairInv, BatchInv, FinishPassInv,
             BeginPassInv, RunPassInv, StartPlanningInv, WakeInv, LeaveLoopInv, RunEndsInv,
             SwallowInv, Zenon DEF DriverStep, Decides

----------------------------------------------------------------------------
(* The controller *)

\* fence and cancel: a job state, requests to cancel workers, marks on tasks.
LEMMA ControlInv == ASSUME WorkersInv, ControlStep PROVE WorkersInv'
  <1>1. /\ drv \in Driver /\ JobOK /\ active \subseteq WorkerId /\ WorkersOK /\ ctl \in Controller
        /\ IsGraph(graph) /\ PlansOnce /\ KnownTasks
        /\ drv.batch \subseteq WorkerId
    BY DEF WorkersInv, TypeOK, SchedTypeOK, JobOK, WorkersOK, Driver
  <1>2. ASSUME NEW s \in Terminal, Enter(s), UNCHANGED <<drv, graph>>
        PROVE  JobOK' /\ PlansOnce'
    BY <1>1, <1>2, EnterKeeps, Targets DEF PlansOnce
  <1>3. ASSUME KeepJob, UNCHANGED <<drv, graph>> PROVE JobOK' /\ PlansOnce'
    BY <1>1, <1>3 DEF KeepJob, JobOK, PlansOnce
  <1>4. Unfinished(active) \subseteq WorkerId
    BY <1>1 DEF Unfinished
  <1>5. CASE CancelJob
    <2>1. ctl' \in Controller
      BY <1>1, <1>5 DEF CancelJob, Controller
    <2> QED BY <1>1, <1>2, <1>5, <2>1, DriverOnlyInv
            DEF CancelJob, schedVars, Terminal, KnownTasks, WorkersInv, TypeOK
  <1>6. ASSUME NEW t \in DOMAIN graph, CancelTask(t) PROVE WorkersInv'
    <2>1. IsGraph(graph') /\ DOMAIN graph' = DOMAIN graph
      BY <1>1, <1>6, StatusType DEF CancelTask, MarkCancelled, TaskStatus
    <2>2. ctl' \in Controller
      <3>1. CancelTodo \ {t} \subseteq Task
        BY <1>1 DEF CancelTodo, IsGraph, Controller
      <3> QED BY <1>1, <1>6, <3>1 DEF CancelTask, Controller
    <2>3. TypeOK'
      BY <1>6, <2>1, <2>2 DEF CancelTask, KeepJob, WorkersInv, TypeOK, SchedTypeOK
    <2>4. PlansOnce'
      BY <1>1, <1>6, <2>1 DEF CancelTask, KeepJob, PlansOnce
    <2> QED BY <1>1, <1>6, <2>1, <2>3, <2>4, CalmKeeps DEF CancelTask, KnownTasks, Done
  <1>7. ASSUME CancelActive, ctl' \in Controller, JobOK', PlansOnce', fenced' \in BOOLEAN,
               UNCHANGED <<graph, running, busy, health, pass, unproven, drv>>
        PROVE  WorkersInv'
    <2>1. WorkersOK' /\ SamePcs /\ active' \subseteq WorkerId
      BY <1>1, <1>7, CancelActiveKeeps
    <2>2. TypeOK'
      BY <1>7, <2>1 DEF WorkersInv, TypeOK, SchedTypeOK, WorkersOK, JobOK
    <2>3. \A w \in drv'.batch : Done(w)'
      BY <1>1, <1>7, <2>1 DEF KnownTasks, Done, SamePcs
    <2> QED BY <1>7, <2>1, <2>2, <2>3, CalmKeeps DEF SamePcs
  <1>8. CASE CancelWorkers
    <2>1. ctl' \in Controller
      BY <1>1, <1>4, <1>8 DEF CancelWorkers, Controller
    <2> QED BY <1>3, <1>7, <1>8, <2>1 DEF CancelWorkers, WorkersInv, TypeOK
  <1>9. CASE CancelAcknowledged \/ StopDriver
    <2>1. ctl' \in Controller
      BY <1>1, <1>9 DEF CancelAcknowledged, StopDriver, Controller
    <2>2. drv' \in Driver /\ drv'.pc = drv.pc /\ drv'.batch = drv.batch
      <3>1. \E c \in BOOLEAN : drv' = [drv EXCEPT !.cancel = c]
        BY <1>9 DEF CancelAcknowledged, StopDriver
      <3> QED BY <1>1, <3>1 DEF Driver
    <2>3. PlansOnce' /\ JobOK'
      BY <1>1, <1>9, <2>2
         DEF CancelAcknowledged, StopDriver, KeepJob, PlansOnce, schedVars, JobOK
    <2> QED BY <1>1, <1>9, <2>1, <2>2, <2>3, DriverOnlyInv
            DEF CancelAcknowledged, StopDriver, KnownTasks, WorkersInv, TypeOK
  <1>10. ASSUME Blocked, UNCHANGED <<drv, graph>> PROVE JobOK' /\ PlansOnce'
    BY <1>2, <1>3, <1>10 DEF Blocked, Terminal
  <1>11. CASE FenceEngine
    <2>1. ctl' \in Controller
      BY <1>1, <1>4, <1>11 DEF FenceEngine, Controller
    <2>2. JobOK' /\ PlansOnce'
      BY <1>3, <1>10, <1>11 DEF FenceEngine
    <2> QED BY <1>7, <1>11, <2>1, <2>2 DEF FenceEngine
  <1>12. CASE FenceSettles
    <2>1. ctl' \in Controller
      BY <1>1, <1>12 DEF FenceSettles, Controller
    <2>2. JobOK' /\ PlansOnce'
      BY <1>10, <1>12 DEF FenceSettles, schedVars
    <2> QED BY <1>1, <1>12, <2>1, <2>2, DriverOnlyInv
            DEF FenceSettles, KnownTasks, WorkersInv, TypeOK
  <1> QED BY <1>5, <1>6, <1>8, <1>9, <1>11, <1>12 DEF ControlStep

----------------------------------------------------------------------------
(* The theorems *)

LEMMA InitInv == Init => WorkersInv
  <1> SUFFICES ASSUME Init PROVE WorkersInv
    OBVIOUS
  <1>1. IsGraph(graph) /\ DOMAIN graph = {}
    BY DEF Init, SchedInit, IsGraph
  <1>2. SchedTypeOK
    BY <1>1 DEF Init, SchedInit, SchedTypeOK, Health, IdlePass, PassRecord, NoWorker, WorkerRecord
  <1>3. drv \in Driver /\ ctl \in Controller
    BY DEF Init, Driver, AwaitPc, Controller
  <1>4. TypeOK
    BY <1>2, <1>3, JobStates DEF Init, TypeOK
  <1>5. pass.pc = "idle" /\ pass.todo = {} /\ \A w \in WorkerId : worker[w].pc = "none"
    BY DEF Init, SchedInit, IdlePass, NoWorker
  <1>6. drv.batch = {} /\ drv.pc = "step"
    BY DEF Init
  <1> QED BY <1>1, <1>4, <1>5, <1>6
          DEF WorkersInv, PassNamed, WorkInv, OneWorker, Live, KnownTasks, PlansOnce

\* The invariant, step by step.
LEMMA NextInv == WorkersInv /\ [Next]_vars => WorkersInv'
  <1> SUFFICES ASSUME WorkersInv, [Next]_vars PROVE WorkersInv'
    OBVIOUS
  <1>1. ASSUME UNCHANGED vars PROVE WorkersInv'
    <2>1. UNCHANGED schedVars /\ UNCHANGED engineVars
      BY <1>1 DEF vars
    <2> QED BY <2>1, DriverOnlyInv
            DEF engineVars, schedVars, WorkersInv, TypeOK, JobOK, KnownTasks, PlansOnce
  <1>2. ASSUME NEW w \in WorkerId, RunWorker(w) PROVE WorkersInv'
    BY <1>2, WorkerKeepsKnown DEF RunWorker
  <1>3. CASE EnvStep
    <2>1. PICK a \in Actor, h \in HealthEvents : HealthChanges(a, h)
      BY <1>3 DEF EnvStep
    <2>2. health' \in [Actor -> Health]
      BY <2>1 DEF HealthChanges, WorkersInv, TypeOK, SchedTypeOK, EngineAssumption
    <2>3. TypeOK'
      BY <1>3, <2>1, <2>2 DEF EnvStep, HealthChanges, engineVars, WorkersInv, TypeOK, SchedTypeOK
    <2> QED BY <1>3, <2>1, <2>3, CalmKeeps
            DEF EnvStep, HealthChanges, engineVars, WorkersInv, KnownTasks, PlansOnce, Done
  <1>4. CASE Ended
    BY <1>1, <1>4 DEF Ended
  <1> QED BY <1>1, <1>2, <1>3, <1>4, DriverInv, ControlInv DEF Next

\* Whatever is planned, rerouted, repaired or cancelled, and whichever coroutine
\* does it, every variable of the engine, the scheduler and the workers holds a
\* value of its type.
THEOREM EngineTyped == Spec => []TypeOK
  <1>1. WorkersInv => TypeOK
    BY DEF WorkersInv
  <1> QED BY <1>1, InitInv, NextInv, PTL DEF Spec

\* No task has two workers alive: _running_tasks, added to before the first
\* await of a dispatch and removed from in the worker's finally clause, is
\* enough, over reroutes, retries, late results and interrupted passes.
THEOREM EngineOneWorker == Spec => []OneWorkerPerTask
  <1>1. WorkersInv => OneWorkerPerTask
    BY DEF WorkersInv, WorkInv, OneWorker, OneWorkerPerTask
  <1> QED BY <1>1, InitInv, NextInv, PTL DEF Spec
=============================================================================
