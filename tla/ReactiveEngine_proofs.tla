------------------------- MODULE ReactiveEngine_proofs -------------------------
(***************************************************************************)
(* The engine for every plan, set of actors, limit and planner, whatever   *)
(* order its coroutines run in: a terminal state is final; the replan and  *)
(* repair budgets, the concurrency limit, the slots and the attempts hold; *)
(* and what is completed is done.                                          *)
(***************************************************************************)
EXTENDS EngineWorkers_proofs, FiniteSetTheorems

----------------------------------------------------------------------------
(* Job transitions *)

Final == job \in Terminal => job' = job

\* LEGAL_JOB_TRANSITIONS leaves no way out of a terminal state.
LEMMA TerminalLegal == job \in Terminal => Legal[job] = {}
  BY DEF Terminal, Legal

\* transition_to, when it is legal.
LEMMA EnterFinal == ASSUME NEW s, CanEnter(s), Enter(s) PROVE Final
  BY TerminalLegal DEF CanEnter, Enter, Final

\* _transition_job in the driver.
LEMMA DriverToFinal == ASSUME NEW s, NEW pc, DriverTo(s, pc) PROVE Final
  BY EnterFinal DEF DriverTo, KeepJob, Final

\* fence and cancel, which are no coroutines of the driver.
LEMMA ControlFinal == ASSUME ControlStep PROVE Final
  <1> USE DEF Final, KeepJob
  <1>1. CASE CancelJob
    BY <1>1 DEF CancelJob
  <1>2. ASSUME NEW t \in DOMAIN graph, CancelTask(t) PROVE Final
    BY <1>2 DEF CancelTask
  <1>3. CASE CancelWorkers
    BY <1>3 DEF CancelWorkers
  <1>7. CASE CancelAcknowledged \/ StopDriver
    BY <1>7 DEF CancelAcknowledged, StopDriver
  <1>4. ASSUME Blocked PROVE Final
    BY <1>4 DEF Blocked
  <1>5. CASE FenceEngine
    BY <1>5, <1>4 DEF FenceEngine
  <1>6. CASE FenceSettles
    BY <1>6, <1>4 DEF FenceSettles
  <1> QED BY <1>1, <1>2, <1>3, <1>5, <1>6, <1>7 DEF ControlStep

\* Whatever the driver does.
LEMMA DriverFinal == ASSUME DriverStep PROVE Final
  <1> USE DEF Final, KeepJob, Continue, Ask
  <1>1. CASE StartPlanning \/ InitialPlan \/ FinishPlanning \/ RequestReplan
    BY <1>1, DriverToFinal DEF StartPlanning, InitialPlan, FinishPlanning, RequestReplan
  <1>2. CASE Plan
    BY <1>2 DEF Plan
  <1>16. CASE ConcludeReplan \/ AfterReplan
    BY <1>16, DriverToFinal DEF ConcludeReplan, AfterReplan
  <1>3. CASE BeginPass \/ CapacityRestored
    BY <1>3, DriverToFinal DEF BeginPass, CapacityRestored
  <1>14. CASE RunPass
    BY <1>14 DEF RunPass, engineVars
  <1>15. CASE Wake
    BY <1>15 DEF Wake
  <1>4. CASE FinishPass
    BY <1>4, EnterFinal DEF FinishPass
  <1>5. CASE FinishBatch \/ CheckBatch
    BY <1>5, DriverToFinal DEF FinishBatch, CheckBatch
  <1>6. ASSUME NEW w \in drv.batch, CollectResult(w) \/ RepairVerdict(w) \/ RepairRaises(w)
        PROVE  Final
    BY <1>6 DEF CollectResult, RepairVerdict, RepairRaises
  <1>7. ASSUME NEW w \in drv.batch, RepairRefused(w) PROVE Final
    BY <1>7, EnterFinal DEF RepairRefused
  <1>8. CASE Verify \/ AfterRepair
    BY <1>8, DriverToFinal DEF Verify, AfterRepair
  <1>9. ASSUME NEW v \in Verdicts, Verdict(v) PROVE Final
    BY <1>9, DriverToFinal DEF Verdict
  <1>10. ASSUME NEW rec \in Recommends, Repair(rec) PROVE Final
    BY <1>10 DEF Repair
  <1>11. CASE LeaveLoop
    BY <1>11, DriverToFinal DEF LeaveLoop
  <1>12. CASE RunEnds
    BY <1>12 DEF RunEnds
  <1>13. CASE DriverInterrupted \/ DriverSwallows \/ DrainInterrupted
    BY <1>13 DEF DriverInterrupted, DriverSwallows, DrainInterrupted
  <1> QED BY <1>1, <1>2, <1>3, <1>4, <1>5, <1>6, <1>7, <1>8, <1>9, <1>10, <1>11, <1>12,
             <1>13, <1>14, <1>15, <1>16 DEF DriverStep

\* A job that is COMPLETED, BLOCKED, FAILED or CANCELLED stays that, whichever
\* coroutine runs late: JobRecord.transition_to is the only place that sets the
\* state, and only cancel and fence look at it beforehand.
THEOREM EngineTerminalFinal == Spec => TerminalFinal
  <1>1. [Next]_vars => [(job \in Terminal) => job' = job]_vars
    BY ControlFinal, DriverFinal DEF Next, RunWorker, EnvStep, Ended, vars, engineVars, Final
  <1> QED BY <1>1, PTL DEF Spec, TerminalFinal

----------------------------------------------------------------------------
(* Budgets *)

SameBudgets == replans' = replans /\ repairs' = repairs

\* transition_to counts replans and repairs on the way into two states only.
LEMMA EnterCounts == ASSUME NEW s, s \notin {"PLANNING", "REPAIRING"}, Enter(s)
                     PROVE  SameBudgets
  BY DEF Enter, SameBudgets

\* _transition_job to any other state.
LEMMA DriverToCounts ==
    ASSUME NEW s, NEW pc, s \notin {"PLANNING", "REPAIRING"}, DriverTo(s, pc)
    PROVE  SameBudgets
  BY EnterCounts DEF DriverTo, KeepJob, SameBudgets

\* Cancelling, fencing and stopping spend no budget.
LEMMA ControlCounts == ASSUME ControlStep PROVE SameBudgets
  <1> USE DEF SameBudgets, KeepJob
  <1>1. CASE CancelJob
    BY <1>1, EnterCounts DEF CancelJob
  <1>2. ASSUME NEW t \in DOMAIN graph, CancelTask(t) PROVE SameBudgets
    BY <1>2 DEF CancelTask
  <1>3. CASE CancelWorkers
    BY <1>3 DEF CancelWorkers
  <1>4. CASE CancelAcknowledged \/ StopDriver
    BY <1>4 DEF CancelAcknowledged, StopDriver
  <1>5. ASSUME Blocked PROVE SameBudgets
    BY <1>5, EnterCounts DEF Blocked
  <1>6. CASE FenceEngine
    BY <1>6, <1>5 DEF FenceEngine
  <1>7. CASE FenceSettles
    BY <1>7, <1>5 DEF FenceSettles
  <1> QED BY <1>1, <1>2, <1>3, <1>4, <1>6, <1>7 DEF ControlStep

BudgetInv == replans \in Nat /\ repairs \in Nat /\ BudgetsRespected

\* The driver spends a replan behind request_replan's check, and a repair
\* behind the check of one of the two repair loops.
LEMMA DriverCounts == ASSUME EngineAssumption, BudgetInv, DriverStep PROVE BudgetInv'
  <1> USE DEF BudgetInv, BudgetsRespected, SameBudgets, EngineAssumption
  <1>1. ASSUME SameBudgets PROVE BudgetInv'
    BY <1>1
  <1>2. CASE StartPlanning
    BY <1>2 DEF StartPlanning, DriverTo, KeepJob, Enter
  <1>3. CASE RequestReplan
    <2>1. CASE replans >= MaxReplans /\ DriverTo("BLOCKED", "refused")
      BY <2>1, <1>1, DriverToCounts
    <2>2. CASE replans < MaxReplans /\ ~HasPlanner /\ Continue("refused")
      BY <2>2, <1>1 DEF Continue, KeepJob
    <2>3. CASE replans < MaxReplans /\ DriverTo("PLANNING", "planner")
      BY <2>3 DEF DriverTo, KeepJob, Enter
    <2>4. CASE replans < MaxReplans /\ Continue("planner")
      BY <2>4, <1>1 DEF Continue, KeepJob
    <2> QED BY <1>3, <2>1, <2>2, <2>3, <2>4 DEF RequestReplan
  <1>4. ASSUME NEW v \in Verdicts, Verdict(v) PROVE BudgetInv'
    <2>1. CASE repairs < MaxRepairs /\ DriverTo("REPAIRING", "repair")
      BY <2>1 DEF DriverTo, KeepJob, Enter
    <2>2. ASSUME NEW s \in {"COMPLETED", "BLOCKED", "FAILED"}, DriverTo(s, "exit")
          PROVE  BudgetInv'
      BY <2>2, <1>1, DriverToCounts
    <2> QED BY <1>4, <2>1, <2>2 DEF Verdict
  <1>5. ASSUME NEW w \in drv.batch, RepairVerdict(w) PROVE BudgetInv'
    BY <1>5 DEF RepairVerdict
  <1>6. CASE InitialPlan
    BY <1>6, <1>1 DEF InitialPlan, Continue, KeepJob
  <1>7. CASE FinishPlanning
    BY <1>7, <1>1, DriverToCounts DEF FinishPlanning
  <1>8. CASE Plan
    BY <1>8, <1>1 DEF Plan
  <1>9. CASE ConcludeReplan
    BY <1>9, <1>1, DriverToCounts DEF ConcludeReplan, Continue, KeepJob
  <1>10. CASE AfterReplan
    BY <1>10, <1>1, DriverToCounts DEF AfterReplan, Continue, KeepJob
  <1>11. CASE BeginPass
    BY <1>11, <1>1, DriverToCounts DEF BeginPass
  <1>12. CASE RunPass
    BY <1>12, <1>1 DEF RunPass, engineVars
  <1>13. CASE FinishPass
    BY <1>13, <1>1, EnterCounts DEF FinishPass, KeepJob
  <1>14. CASE CapacityRestored
    BY <1>14, <1>1, DriverToCounts DEF CapacityRestored
  <1>15. CASE Wake
    BY <1>15, <1>1 DEF Wake, KeepJob
  <1>16. CASE FinishBatch
    BY <1>16, <1>1, DriverToCounts DEF FinishBatch, Continue, Ask, KeepJob
  <1>17. CASE CheckBatch
    BY <1>17, <1>1, DriverToCounts DEF CheckBatch, Continue, Ask, KeepJob
  <1>18. ASSUME NEW w \in drv.batch, CollectResult(w) \/ RepairRaises(w) PROVE BudgetInv'
    BY <1>18, <1>1 DEF CollectResult, RepairRaises, KeepJob
  <1>19. ASSUME NEW w \in drv.batch, RepairRefused(w) PROVE BudgetInv'
    BY <1>19, <1>1, EnterCounts DEF RepairRefused
  <1>20. CASE Verify
    BY <1>20, <1>1 DEF Verify, Continue, KeepJob
  <1>21. CASE AfterRepair
    BY <1>21, <1>1, DriverToCounts DEF AfterRepair, Continue, KeepJob
  <1>22. ASSUME NEW rec \in Recommends, Repair(rec) PROVE BudgetInv'
    BY <1>22, <1>1 DEF Repair, Continue, Ask, KeepJob
  <1>23. CASE LeaveLoop
    BY <1>23, <1>1, DriverToCounts DEF LeaveLoop, KeepJob
  <1>24. CASE RunEnds
    BY <1>24, <1>1, EnterCounts DEF RunEnds, KeepJob
  <1>25. CASE DriverInterrupted \/ DriverSwallows \/ DrainInterrupted
    BY <1>25, <1>1 DEF DriverInterrupted, DriverSwallows, DrainInterrupted, KeepJob
  <1> QED BY <1>2, <1>3, <1>4, <1>5, <1>6, <1>7, <1>8, <1>9, <1>10, <1>11, <1>12, <1>13,
             <1>14, <1>15, <1>16, <1>17, <1>18, <1>19, <1>20, <1>21, <1>22, <1>23, <1>24,
             <1>25 DEF DriverStep

\* A job never replans or repairs more often than its limits say, whichever of
\* the planner, the checks and the final verification asks for it.
THEOREM EngineBudgets == Spec => []BudgetsRespected
  <1>1. Init => BudgetInv
    BY EngineAssumption DEF Init, BudgetInv, BudgetsRespected, EngineAssumption
  <1>2. BudgetInv /\ [Next]_vars => BudgetInv'
    <2>1. ASSUME BudgetInv, SameBudgets PROVE BudgetInv'
      BY <2>1 DEF BudgetInv, SameBudgets, BudgetsRespected
    <2> QED BY <2>1, DriverCounts, ControlCounts, EngineAssumption
            DEF Next, RunWorker, EnvStep, Ended, vars, engineVars, SameBudgets
  <1>3. BudgetInv => BudgetsRespected
    BY DEF BudgetInv
  <1> QED BY <1>1, <1>2, <1>3, PTL DEF Spec

----------------------------------------------------------------------------
(* limits.concurrency_limit bounds the workers alive, which the code never   *)
(* counts: it counts _running_tasks, and only before it takes a decision it  *)
(* may carry out one await later.                                            *)

USE SchedulerAssumption

LimitInv == /\ IsFiniteSet(running)
            /\ Cardinality(running) <= ConcurrencyLimit
            /\ pass.pc = "reroute" => Cardinality(running) < ConcurrencyLimit

\* Where no task is marked as running, and no decision taken, nothing is lost.
LEMMA RunningShrinks ==
    ASSUME LimitInv, running' \subseteq running, UNCHANGED pass \/ pass'.pc # "reroute"
    PROVE  LimitInv'
  <1>1. IsFiniteSet(running') /\ Cardinality(running') <= Cardinality(running)
    BY FS_Subset DEF LimitInv
  <1>2. Cardinality(running) \in Nat /\ Cardinality(running') \in Nat
    BY <1>1, FS_CardinalityType DEF LimitInv
  <1> QED BY <1>1, <1>2 DEF LimitInv, SchedulerAssumption

\* Workers mark nothing as running.
LEMMA WorkerLimit == ASSUME LimitInv, NEW w \in WorkerId, WorkerStep(w) PROVE LimitInv'
  <1>1. running' \subseteq running /\ UNCHANGED pass
    BY DEF WorkerStep, WorkerBegin, WorkerNeverRan, WorkerSucceeds, WorkerFails,
           WorkerProviderFails, WorkerReroutes, WorkerSettles, WorkerInterrupted,
           WorkerUnwinds, Finish
  <1> QED BY <1>1, RunningShrinks

\* One task more, where the loop found room for it.
LEMMA AcquireLimit ==
    ASSUME LimitInv, Cardinality(running) < ConcurrencyLimit, pass \in PassRecord,
           NEW g, NEW t, NEW a, NEW S, Acquire(g, t, a, S)
    PROVE  LimitInv'
  <1>1. /\ IsFiniteSet(running \cup {t})
        /\ Cardinality(running \cup {t}) <= Cardinality(running) + 1
        /\ Cardinality(running) \in Nat /\ Cardinality(running \cup {t}) \in Nat
    <2>1. /\ IsFiniteSet(running \cup {t})
          /\ Cardinality(running \cup {t})
                = IF t \in running THEN Cardinality(running) ELSE Cardinality(running) + 1
      BY FS_AddElement DEF LimitInv
    <2>2. Cardinality(running) \in Nat
      BY FS_CardinalityType DEF LimitInv
    <2> QED BY <2>1, <2>2
  <1>2. running' = running \cup {t} /\ pass'.pc = "start"
    BY DEF Acquire, PassRecord
  <1> QED BY <1>1, <1>2 DEF LimitInv, SchedulerAssumption

\* The pass looks at the limit before each decision.
LEMMA PassLimit ==
    ASSUME LimitInv, pass \in PassRecord, PassBegin \/ PassStep \/ PassEnd
    PROVE  LimitInv'
  <1>1. CASE PassBegin
    <2>1. pass'.pc = "pick" /\ UNCHANGED running
      BY <1>1 DEF PassBegin, IdlePass
    <2> QED BY <2>1, RunningShrinks
  <1>2. CASE PassEnd
    <2>1. pass'.pc = "idle" /\ UNCHANGED running
      BY <1>2, Zenon DEF PassEnd, IdlePass
    <2> QED BY <2>1, RunningShrinks
  <1>3. CASE PassResume
    BY <1>3, AcquireLimit DEF PassResume, LimitInv
  <1>4. ASSUME NEW t, NEW S, PassAssign(t, S) PROVE LimitInv'
    <2>1. PICK d \in Decisions(t) : Acquire(PassOver(S), t, d.actor, S)
      BY <1>4 DEF PassAssign
    <2> QED BY <1>4, <2>1, AcquireLimit DEF PassAssign, Picks, CanDispatchMore
  <1>5. ASSUME NEW t, NEW S, PassReroute(t, S) PROVE LimitInv'
    BY <1>5 DEF PassReroute, Picks, CanDispatchMore, LimitInv
  <1>6. ASSUME NEW w \in WorkerId, PassLaunch(w) PROVE LimitInv'
    <2>1. pass'.pc = "pick" /\ UNCHANGED running
      BY <1>6 DEF PassLaunch, PassRecord
    <2> QED BY <2>1, RunningShrinks
  <1> QED BY <1>1, <1>2, <1>3, <1>4, <1>5, <1>6 DEF PassStep

\* Beyond its dispatch pass, the driver marks nothing as running.
LEMMA DriverDispatches ==
    ASSUME DriverStep
    PROVE  \/ PassBegin \/ PassStep \/ PassEnd
           \/ UNCHANGED running /\ (UNCHANGED pass \/ pass' = IdlePass)
  <1>1. CASE \/ StartPlanning \/ InitialPlan \/ FinishPlanning \/ RequestReplan \/ Plan
             \/ ConcludeReplan \/ AfterReplan \/ CapacityRestored
    BY <1>1 DEF StartPlanning, InitialPlan, FinishPlanning, RequestReplan, Plan,
                ConcludeReplan, AfterReplan, CapacityRestored
  <1>2. CASE BeginPass \/ RunPass \/ FinishPass
    BY <1>2 DEF BeginPass, RunPass, FinishPass
  <1>3. CASE Wake \/ FinishBatch \/ CheckBatch \/ Verify \/ AfterRepair \/ LeaveLoop \/ RunEnds
    BY <1>3 DEF Wake, FinishBatch, CheckBatch, Verify, AfterRepair, LeaveLoop, RunEnds, schedVars
  <1>4. ASSUME NEW w \in drv.batch,
               \/ CollectResult(w) \/ RepairVerdict(w) \/ RepairRefused(w) \/ RepairRaises(w)
        PROVE  UNCHANGED running /\ UNCHANGED pass
    BY <1>4 DEF CollectResult, RepairVerdict, RepairRefused, RepairRaises
  <1>5. ASSUME NEW v, Verdict(v) PROVE UNCHANGED running /\ UNCHANGED pass
    BY <1>5 DEF Verdict
  <1>6. ASSUME NEW rec, Repair(rec) PROVE UNCHANGED running /\ UNCHANGED pass
    BY <1>6 DEF Repair
  <1>7. CASE DriverInterrupted \/ DriverSwallows \/ DrainInterrupted
    BY <1>7 DEF DriverInterrupted, DriverSwallows, DrainInterrupted, schedVars
  <1> QED BY <1>1, <1>2, <1>3, <1>4, <1>5, <1>6, <1>7 DEF DriverStep

\* Neither does the controller.
LEMMA ControlDispatchesNothing ==
    ASSUME ControlStep PROVE UNCHANGED running /\ UNCHANGED pass
  <1>1. ASSUME NEW t, CancelTask(t) PROVE UNCHANGED running /\ UNCHANGED pass
    BY <1>1 DEF CancelTask
  <1> QED BY <1>1 DEF ControlStep, CancelJob, CancelWorkers, CancelAcknowledged, FenceEngine,
                      FenceSettles, StopDriver, schedVars

\* Each worker alive has a running task of its own.
LEMMA LiveAreRunning ==
    ASSUME WorkInv, LimitInv
    PROVE  LET alive == {w \in WorkerId : Live(w)}
           IN IsFiniteSet(alive) /\ Cardinality(alive) <= ConcurrencyLimit
  <1> DEFINE alive == {w \in WorkerId : Live(w)}
             task == [w \in alive |-> w[1]]
  <1>1. task \in Injection(alive, running)
    <2>1. task \in [alive -> running]
      BY DEF WorkInv
    <2>2. \A v, w \in alive : task[v] = task[w] => v = w
      BY DEF WorkInv, OneWorker
    <2> HIDE DEF task, alive
    <2> QED BY <2>1, <2>2 DEF Injection, IsInjective
  <1>2. IsFiniteSet(alive) /\ Cardinality(alive) <= Cardinality(running)
    BY <1>1, FS_Injection DEF LimitInv
  <1>3. Cardinality(alive) \in Nat /\ Cardinality(running) \in Nat
    BY <1>2, FS_CardinalityType DEF LimitInv
  <1> QED BY <1>2, <1>3 DEF LimitInv, SchedulerAssumption

LEMMA InitLimit == Init => LimitInv
  BY FS_EmptySet DEF Init, SchedInit, LimitInv, IdlePass, SchedulerAssumption

\* Every step keeps within the limit.
LEMMA NextLimit == WorkersInv /\ LimitInv /\ [Next]_vars => LimitInv'
  <1> SUFFICES ASSUME WorkersInv, LimitInv, [Next]_vars PROVE LimitInv'
    OBVIOUS
  <1>1. pass \in PassRecord
    BY DEF WorkersInv, TypeOK, SchedTypeOK
  <1>2. ASSUME UNCHANGED running, UNCHANGED pass \/ pass' = IdlePass PROVE LimitInv'
    BY <1>2, RunningShrinks DEF IdlePass
  <1>3. CASE DriverStep
    BY <1>1, <1>2, <1>3, PassLimit, DriverDispatches
  <1>4. CASE ControlStep
    BY <1>2, <1>4, ControlDispatchesNothing
  <1>5. ASSUME NEW w \in WorkerId, RunWorker(w) PROVE LimitInv'
    BY <1>5, WorkerLimit DEF RunWorker
  <1>6. CASE EnvStep \/ Ended \/ UNCHANGED vars
    BY <1>2, <1>6 DEF EnvStep, HealthChanges, Ended, vars, schedVars
  <1> QED BY <1>3, <1>4, <1>5, <1>6 DEF Next

\* Never more workers than limits.concurrency_limit, although a reroute is
\* announced between the look at the limit and the dispatch, while other
\* coroutines run.
THEOREM EngineConcurrency == Spec => []ConcurrencyRespected
  <1>1. WorkersInv /\ LimitInv => ConcurrencyRespected
    BY LiveAreRunning DEF WorkersInv, ConcurrencyRespected
  <1> QED BY <1>1, InitLimit, NextLimit, InitInv, NextInv, PTL DEF Spec

HIDE SchedulerAssumption

----------------------------------------------------------------------------
(* What a step leaves of the graph and of the workers                       *)

\* No worker begins, ends or changes hands; a finished one may be forgotten.
Quiet ==
    \A w \in WorkerId :
       \/ /\ worker'[w].pc = worker[w].pc /\ worker'[w].actor = worker[w].actor
          /\ worker'[w].result = worker[w].result
       \/ Done(w) /\ worker'[w].pc = "none"

\* max_tasks_per_job is never reached.
RoomForAll == IsFiniteSet(Task) /\ Cardinality(Task) <= MaxTasks

\* h is g with new tasks, and some tasks superseded by tasks g does not hold,
\* which h holds unless there was no room for them.
Edited(g, h) ==
    /\ DOMAIN g \subseteq DOMAIN h
    /\ \A t \in DOMAIN g :
          \/ h[t] = g[t]
          \/ \E r \in Task \ DOMAIN g : /\ h[t] = SupersedeTask(g, t, r)[t]
                                        /\ RoomForAll => r \in DOMAIN h
    /\ \A t \in DOMAIN h \ DOMAIN g :
          h[t].status = "PENDING" /\ h[t].attempt = 0 /\ h[t].by = NoTask

\* The tasks superseded had failed.
OnlyFailed == \A t \in DOMAIN graph : graph'[t] = graph[t] \/ graph[t].status = "FAILED"

\* A step that dispatches nothing and in which no worker steps.
Calm ==
    /\ UNCHANGED <<running, busy, health>>
    /\ UNCHANGED pass \/ pass' = IdlePass
    /\ Quiet
    /\ Edited(graph, graph')
    /\ OnlyFailed \/ \E w \in drv.batch : RepairVerdict(w)

\* What is superseded keeps its dependencies and its attempts.
LEMMA EditedNode ==
    ASSUME NEW g, NEW h, Edited(g, h), NEW t \in DOMAIN g, g[t] \in TaskNode, h[t] # g[t]
    PROVE  /\ h[t].status = "SUPERSEDED" /\ h[t].by \in Task \ DOMAIN g
           /\ h[t].deps = g[t].deps /\ h[t].attempt = g[t].attempt
           /\ RoomForAll => h[t].by \in DOMAIN h
  <1>1. PICK r \in Task \ DOMAIN g :
           h[t] = SupersedeTask(g, t, r)[t] /\ (RoomForAll => r \in DOMAIN h)
    BY Zenon DEF Edited
  <1>2. SupersedeTask(g, t, r)[t] = [g[t] EXCEPT !.status = "SUPERSEDED", !.by = r]
    BY DEF SupersedeTask, TaskNode
  <1> QED BY <1>1, <1>2 DEF TaskNode

\* Nothing superseded, nothing added.
LEMMA NoEdit == ASSUME NEW g PROVE Edited(g, g)
  BY DEF Edited

\* Whoever cancels workers leaves them where they are.
LEMMA CancelQuiet ==
    ASSUME WorkersOK, UNCHANGED worker \/ CancelActive
    PROVE  Quiet
  <1>1. CASE UNCHANGED worker
    BY <1>1 DEF Quiet
  <1>2. CASE CancelActive
    <2>1. ASSUME NEW w \in WorkerId
          PROVE  /\ worker'[w].pc = worker[w].pc /\ worker'[w].actor = worker[w].actor
                 /\ worker'[w].result = worker[w].result
      <3>1. worker[w] \in WorkerRecord
        BY DEF WorkersOK
      <3>2. worker'[w] \in {worker[w], [worker[w] EXCEPT !.cancel = TRUE]}
        BY <1>2 DEF CancelActive
      <3> QED BY <3>1, <3>2 DEF WorkerRecord
    <2> QED BY <2>1 DEF Quiet
  <1> QED BY <1>1, <1>2

\* So does whatever the driver's actions end with.
LEMMA GoesOnQuiet ==
    ASSUME WorkersOK,
           \/ \E s, pc : DriverTo(s, pc)
           \/ \E pc : Continue(pc)
           \/ \E why : Ask(why)
    PROVE  Quiet
  <1>1. UNCHANGED worker \/ CancelActive
    BY DEF DriverTo, EndRun, Continue, Ask
  <1> QED BY <1>1, CancelQuiet

\* A result taken is a worker forgotten.
LEMMA TakeQuiet ==
    ASSUME WorkersOK, NEW w, Done(w), worker' = [worker EXCEPT ![w] = NoWorker]
    PROVE  Quiet
  <1>1. \A v \in WorkerId : v # w => worker'[v] = worker[v]
    BY DEF WorkersOK
  <1>2. w \in WorkerId => worker'[w].pc = "none"
    BY DEF WorkersOK, NoWorker
  <1> QED BY <1>1, <1>2 DEF Quiet

\* Adding new tasks and nothing else.
LEMMA AddAllEdits ==
    ASSUME NEW nodes, AddAll(nodes), DOMAIN nodes \cap DOMAIN graph = {},
           \A t \in DOMAIN nodes : \E D : nodes[t] = NewNode(D)
    PROVE  Edited(graph, graph') /\ OnlyFailed
  <1>1. PICK kept \in SUBSET DOMAIN nodes :
           graph' = [t \in DOMAIN graph \cup kept |->
                       IF t \in kept THEN nodes[t] ELSE graph[t]]
    BY DEF AddAll
  <1> QED BY <1>1 DEF Edited, OnlyFailed, NewNode

LEMMA AddTaskEdits ==
    ASSUME NEW g, NEW n, n \notin DOMAIN g, NEW D
    PROVE  Edited(g, AddTask(g, n, NewNode(D)))
  BY DEF Edited, AddTask, NewNode

\* Where there is room for all, every copy is kept.
LEMMA CopiesKept ==
    ASSUME IsGraph(graph), RoomForAll, EngineAssumption,
           NEW fix \in [Exhausted -> Task \ DOMAIN graph], NEW kept \in SUBSET Exhausted,
           \A t, u \in Exhausted : fix[t] = fix[u] => t = u,
           kept # Exhausted => ~HasRoom(Cardinality(kept) + 1)
    PROVE  kept = Exhausted
  <1> SUFFICES ASSUME NEW u \in Exhausted \ kept PROVE FALSE
    OBVIOUS
  <1> DEFINE more == kept \cup {u}
             free == Task \ DOMAIN graph
             new  == [t \in more |-> fix[t]]
  <1>1. DOMAIN graph \subseteq Task /\ Exhausted \subseteq DOMAIN graph
    BY DEF IsGraph, Exhausted, WithStatus
  <1>2. /\ IsFiniteSet(DOMAIN graph) /\ IsFiniteSet(kept) /\ IsFiniteSet(Task)
        /\ Cardinality(DOMAIN graph) \in Nat /\ Cardinality(kept) \in Nat
        /\ Cardinality(Task) \in Nat
    BY <1>1, FS_Subset, FS_CardinalityType DEF RoomForAll
  <1>3. Cardinality(more) = Cardinality(kept) + 1
    BY <1>2, FS_AddElement
  <1>4. IsFiniteSet(free) /\ Cardinality(free) = Cardinality(Task) - Cardinality(DOMAIN graph)
    <2>1. Task \cap DOMAIN graph = DOMAIN graph
      BY <1>1
    <2> QED BY <1>2, <2>1, FS_Difference
  <1>5. new \in Injection(more, free)
    BY DEF Injection, IsInjective
  <1> HIDE DEF more, free, new
  <1>6. Cardinality(more) <= Cardinality(free)
    BY <1>4, <1>5, FS_Injection
  <1>7. HasRoom(Cardinality(kept) + 1)
    BY <1>2, <1>3, <1>4, <1>6 DEF HasRoom, RoomForAll, EngineAssumption
  <1> QED BY <1>7

\* What the planner comes back with: copies of the exhausted tasks, follow-ups
\* or a repair.
LEMMA PlanEdits ==
    ASSUME IsGraph(graph), NEW asked,
           PlanFailure \/ PlanDiscovery(asked) \/ PlanRepair
    PROVE  Edited(graph, graph') /\ OnlyFailed
  <1>1. CASE PlanFailure
    <2>1. PICK fix \in [Exhausted -> Task \ DOMAIN graph], kept \in SUBSET Exhausted :
             /\ graph' = WithCopies(fix, kept)
             /\ \A t, u \in Exhausted : fix[t] = fix[u] => t = u
             /\ kept # Exhausted => ~HasRoom(Cardinality(kept) + 1)
      BY <1>1 DEF PlanFailure
    <2>8. RoomForAll => kept = Exhausted
      BY <2>1, CopiesKept, EngineAssumption
    <2>2. Exhausted \subseteq DOMAIN graph
      BY DEF Exhausted, WithStatus
    <2>6. \A t \in Exhausted : graph[t].status = "FAILED"
      BY DEF Exhausted, WithStatus
    <2>3. DOMAIN graph' = DOMAIN graph \cup {fix[u] : u \in kept}
      BY <2>1 DEF WithCopies
    <2>4. ASSUME NEW t \in DOMAIN graph
          PROVE  \/ graph'[t] = graph[t]
                 \/ \E r \in Task \ DOMAIN graph :
                       /\ graph'[t] = SupersedeTask(graph, t, r)[t]
                       /\ RoomForAll => r \in DOMAIN graph'
      <3>1. CASE t \in Exhausted
        <4>1. graph'[t] = SupersedeTask(graph, t, fix[t])[t]
          BY <2>1, <2>3, <3>1 DEF WithCopies
        <4>2. RoomForAll => fix[t] \in DOMAIN graph'
          BY <2>3, <2>8, <3>1
        <4> QED BY <3>1, <4>1, <4>2
      <3>2. CASE t \notin Exhausted
        BY <2>1, <2>3, <2>4, <3>2 DEF WithCopies
      <3> QED BY <3>1, <3>2
    <2>5. ASSUME NEW t \in DOMAIN graph' \ DOMAIN graph
          PROVE  graph'[t].status = "PENDING" /\ graph'[t].attempt = 0 /\ graph'[t].by = NoTask
      <3>1. t \notin Exhausted
        BY <2>2, <2>5
      <3> DEFINE u == CHOOSE v \in kept : fix[v] = t
      <3>2. graph'[t] = [NewNode(graph[u].deps) EXCEPT !.actor = graph[u].actor]
        BY <2>1, <2>3, <2>5, <3>1 DEF WithCopies
      <3> HIDE DEF u
      <3> QED BY <3>2 DEF NewNode
    <2>7. OnlyFailed
      BY <2>1, <2>3, <2>6 DEF OnlyFailed, WithCopies
    <2> QED BY <2>3, <2>4, <2>5, <2>7 DEF Edited
  <1>2. CASE PlanDiscovery(asked)
    <2>1. PICK new \in [asked -> Fresh(FALSE)] :
             AddAll([n \in {new[t] : t \in asked} |-> NewNode({t \in asked : new[t] = n})])
      BY <1>2 DEF PlanDiscovery
    <2> DEFINE nodes == [n \in {new[t] : t \in asked} |-> NewNode({t \in asked : new[t] = n})]
    <2>2. DOMAIN nodes \cap DOMAIN graph = {}
      BY DEF Fresh
    <2>3. \A t \in DOMAIN nodes : \E D : nodes[t] = NewNode(D)
      OBVIOUS
    <2> HIDE DEF nodes
    <2> QED BY <2>1, <2>2, <2>3, AddAllEdits DEF nodes
  <1>3. CASE PlanRepair
    <2>1. PICK n \in Fresh(FALSE) : AddAll([t \in {n} |-> NewNode({})])
      BY <1>3 DEF PlanRepair
    <2> DEFINE nodes == [t \in {n} |-> NewNode({})]
    <2>2. DOMAIN nodes \cap DOMAIN graph = {} /\ \A t \in DOMAIN nodes : nodes[t] = NewNode({})
      BY DEF Fresh
    <2> HIDE DEF nodes
    <2> QED BY <2>1, <2>2, AddAllEdits DEF nodes
  <1> QED BY <1>1, <1>2, <1>3

\* The repair loop's edit of a failed check.
LEMMA VerdictEdits ==
    ASSUME WorkersInv, NEW w \in drv.batch, RepairVerdict(w)
    PROVE  /\ Edited(graph, graph')
           /\ \A t \in DOMAIN graph : graph'[t] = graph[t] \/ t = w[1]
           /\ graph'[w[1]].by \in DOMAIN graph'
  <1> DEFINE t == w[1]
             CheckNode(repair) == [NewNode({repair}) EXCEPT !.actor = graph[t].actor]
             Both(repair, recheck) == AddTask(AddTask(graph, repair, NewNode({})), recheck,
                                              CheckNode(repair))
  <1>1. IsGraph(graph) /\ w \in WorkerId
    BY DEF WorkersInv, TypeOK, SchedTypeOK, Driver
  <1>2. t \in DOMAIN graph
    BY <1>1 DEF WorkersInv, KnownTasks, Done
  <1>3. PICK repair \in Fresh(FALSE), recheck \in Fresh(TRUE) :
           graph' = SupersedeTask(Both(repair, recheck), t, recheck)
    BY Zenon DEF RepairVerdict
  <1>4. /\ repair \in Task \ DOMAIN graph /\ recheck \in Task \ DOMAIN graph
        /\ repair # recheck
    BY DEF Fresh
  <1>5. \A r : LET n == CheckNode(r) IN n.status = "PENDING" /\ n.attempt = 0 /\ n.by = NoTask
    BY DEF NewNode
  <1> DEFINE both == Both(repair, recheck)
  <1>6. /\ DOMAIN both = DOMAIN graph \cup {repair, recheck}
        /\ both[repair] = NewNode({})
        /\ both[recheck] = CheckNode(repair)
        /\ \A u \in DOMAIN graph : both[u] = graph[u]
    <2> HIDE DEF CheckNode
    <2> QED BY <1>4 DEF AddTask
  <1>7. graph' = [both EXCEPT ![t] = [@ EXCEPT !.status = "SUPERSEDED", !.by = recheck]]
    BY <1>3, Zenon DEF SupersedeTask
  <1> HIDE DEF both
  <1>8. /\ DOMAIN graph' = DOMAIN both
        /\ \A u \in DOMAIN both \ {t} : graph'[u] = both[u]
        /\ graph'[t] = [both[t] EXCEPT !.status = "SUPERSEDED", !.by = recheck]
    BY <1>2, <1>6, <1>7
  <1>9. graph'[t] = SupersedeTask(graph, t, recheck)[t]
    BY <1>2, <1>6, <1>8 DEF SupersedeTask
  <1>11. graph'[t].by = recheck
    BY <1>1, <1>2, <1>6, <1>8 DEF IsGraph, TaskNode
  <1>10. \A u \in DOMAIN graph' \ DOMAIN graph :
            graph'[u].status = "PENDING" /\ graph'[u].attempt = 0 /\ graph'[u].by = NoTask
    <2> HIDE DEF CheckNode
    <2> QED BY <1>2, <1>4, <1>5, <1>6, <1>8 DEF NewNode
  <1> QED BY <1>2, <1>4, <1>6, <1>8, <1>9, <1>10, <1>11 DEF Edited

\* The driver dispatches, or edits the graph, or neither.
LEMMA DriverCalm ==
    ASSUME WorkersInv, DriverStep
    PROVE  RunPass \/ FinishPass \/ (BeginPass /\ PassBegin) \/ Calm
  <1>1. WorkersOK /\ IsGraph(graph) /\ \A w \in drv.batch : Done(w)
    BY DEF WorkersInv, TypeOK, SchedTypeOK, WorkersOK, KnownTasks
  <1> DEFINE Rest == UNCHANGED <<graph, running, busy, health, pass>>
             Decided == \/ \E s, pc : DriverTo(s, pc)
                        \/ \E pc : Continue(pc)
                        \/ \E why : Ask(why)
  <1>2. ASSUME UNCHANGED <<running, busy, health>>, UNCHANGED pass \/ pass' = IdlePass, Quiet,
               Edited(graph, graph'), OnlyFailed
        PROVE  Calm
    BY <1>2, Zenon DEF Calm
  <1>3. ASSUME UNCHANGED graph PROVE Edited(graph, graph') /\ OnlyFailed
    BY <1>3, NoEdit DEF OnlyFailed
  <1>4. ASSUME Rest, Decided PROVE Calm
    BY <1>1, <1>2, <1>3, <1>4, GoesOnQuiet
  <1>5. ASSUME Rest, UNCHANGED worker \/ CancelActive PROVE Calm
    BY <1>1, <1>2, <1>3, <1>5, CancelQuiet
  <1>6. ASSUME Rest, NEW w \in drv.batch, worker' = [worker EXCEPT ![w] = NoWorker] PROVE Calm
    BY <1>1, <1>2, <1>3, <1>6, TakeQuiet
  <1>7. CASE StartPlanning \/ FinishPlanning \/ RequestReplan \/ ConcludeReplan \/ AfterReplan
    BY <1>4, <1>7 DEF StartPlanning, FinishPlanning, RequestReplan, ConcludeReplan, AfterReplan
  <1>8. CASE CapacityRestored \/ FinishBatch \/ CheckBatch \/ Verify \/ AfterRepair
    BY <1>4, <1>8 DEF CapacityRestored, FinishBatch, CheckBatch, Verify, AfterRepair
  <1>9. ASSUME NEW v \in Verdicts, Verdict(v) PROVE Calm
    BY <1>4, <1>9 DEF Verdict
  <1>10. CASE LeaveLoop
    BY <1>4, <1>5, <1>10 DEF LeaveLoop, EndRun
  <1>11. CASE InitialPlan
    <2>1. DOMAIN graph = {}
      BY <1>11 DEF InitialPlan, DriverAt, WorkersInv, PlansOnce
    <2>2. Edited(graph, graph') /\ OnlyFailed
      BY <1>11, <2>1, <1>3 DEF InitialPlan, Edited, OnlyFailed, NewNode
    <2> QED BY <1>1, <1>2, <1>11, <2>2, GoesOnQuiet DEF InitialPlan
  <1>12. CASE Plan
    <2>1. Edited(graph, graph') /\ OnlyFailed
      BY <1>1, <1>3, <1>12, PlanEdits DEF Plan
    <2> QED BY <1>1, <1>2, <1>12, <2>1, CancelQuiet DEF Plan
  <1>13. ASSUME NEW rec \in Recommends, Repair(rec) PROVE Calm
    <2>1. Edited(graph, graph') /\ OnlyFailed
      <3>1. CASE UNCHANGED graph
        BY <3>1, <1>3
      <3>2. ASSUME NEW n \in Fresh(FALSE), graph' = AddTask(graph, n, NewNode({}))
            PROVE  Edited(graph, graph') /\ OnlyFailed
        BY <3>2, AddTaskEdits DEF Fresh, OnlyFailed, AddTask
      <3> QED BY <1>13, <3>1, <3>2 DEF Repair
    <2>2. Quiet
      BY <1>1, <1>13, GoesOnQuiet DEF Repair
    <2> QED BY <1>2, <1>13, <2>1, <2>2 DEF Repair
  <1>14. CASE BeginPass
    BY <1>4, <1>14 DEF BeginPass
  <1>16. CASE Wake \/ RunEnds \/ DrainInterrupted
    BY <1>5, <1>16 DEF Wake, RunEnds, DrainInterrupted, schedVars
  <1>17. ASSUME NEW w \in drv.batch, CollectResult(w) \/ RepairRefused(w) PROVE Calm
    BY <1>6, <1>17 DEF CollectResult, RepairRefused, TakeResult
  <1>18. ASSUME NEW w \in drv.batch, RepairVerdict(w) PROVE Calm
    <2>1. Edited(graph, graph')
      BY <1>18, VerdictEdits
    <2>2. Quiet /\ UNCHANGED <<running, busy, health, pass>>
      BY <1>1, <1>18, TakeQuiet DEF RepairVerdict, TakeResult
    <2> QED BY <1>18, <2>1, <2>2 DEF Calm
  <1>19. ASSUME NEW w \in drv.batch, RepairRaises(w) PROVE Calm
    BY <1>5, <1>19 DEF RepairRaises, EndRun
  <1>20. CASE DriverInterrupted
    <2>1. Quiet
      BY <1>1, <1>20, CancelQuiet DEF DriverInterrupted, EndRun
    <2> QED BY <1>2, <1>3, <1>20, <2>1 DEF DriverInterrupted
  <1>21. CASE DriverSwallows
    BY <1>5, <1>6, <1>21 DEF DriverSwallows
  <1> QED BY <1>7, <1>8, <1>9, <1>10, <1>11, <1>12, <1>13, <1>14, <1>16, <1>17, <1>18,
             <1>19, <1>20, <1>21 DEF DriverStep

\* So the driver's steps are those of the pass, and calm ones.
LEMMA DriverPasses ==
    ASSUME WorkersInv, DriverStep
    PROVE  PassBegin \/ PassStep \/ PassEnd \/ Calm
  BY DriverCalm DEF RunPass, FinishPass

\* The controller at most marks one task CANCELLED.
Cancels ==
    /\ UNCHANGED <<running, busy, health, pass>>
    /\ Quiet
    /\ \/ UNCHANGED graph
       \/ \E t \in WithStatus(graph, {"RUNNING", "READY", "PENDING", "CANCELLED"}) :
             graph' = MarkCancelled(graph, t)

LEMMA ControlCalm == ASSUME WorkersInv, ControlStep PROVE Cancels
  <1>1. WorkersOK
    BY DEF WorkersInv, TypeOK, SchedTypeOK, WorkersOK
  <1>2. ASSUME UNCHANGED <<graph, running, busy, health, pass>>, UNCHANGED worker \/ CancelActive
        PROVE  Cancels
    BY <1>1, <1>2, CancelQuiet DEF Cancels
  <1>3. CASE CancelJob \/ CancelAcknowledged \/ StopDriver \/ FenceSettles
    BY <1>2, <1>3 DEF CancelJob, CancelAcknowledged, StopDriver, FenceSettles, schedVars
  <1>4. CASE CancelWorkers \/ FenceEngine
    BY <1>2, <1>4 DEF CancelWorkers, FenceEngine
  <1>5. ASSUME NEW t \in DOMAIN graph, CancelTask(t) PROVE Cancels
    <2>1. Quiet
      BY <1>1, <1>5, CancelQuiet DEF CancelTask
    <2> QED BY <1>5, <2>1 DEF CancelTask, Cancellable, Cancels
  <1> QED BY <1>3, <1>4, <1>5 DEF ControlStep

----------------------------------------------------------------------------
(* Busy slots                                                               *)

\* The slots of an actor in use.
Held(a) == Cardinality(Holders(a)) + Starting(a)

\* A step takes and frees slots along with their workers ...
Balanced == \A a \in Actor : busy'[a] + Held(a) = busy[a] + Held(a)'

\* ... or loses the worker and keeps its slot.
Lost == UNCHANGED busy /\ \A a \in Actor : Held(a)' <= Held(a)

Covered == \A a \in Actor : busy[a] >= Held(a)

HeldCounted == \A a \in Actor : Held(a) \in Nat

LEMMA HoldersFinite ==
    ASSUME WorkInv, LimitInv
    PROVE  /\ \A a : IsFiniteSet(Holders(a)) /\ Cardinality(Holders(a)) \in Nat
           /\ \A a : Held(a) \in Nat
  <1>1. IsFiniteSet({w \in WorkerId : Live(w)})
    BY LiveAreRunning
  <1>2. ASSUME NEW a PROVE IsFiniteSet(Holders(a)) /\ Cardinality(Holders(a)) \in Nat
    <2>1. Holders(a) \subseteq {w \in WorkerId : Live(w)}
      BY DEF Holders
    <2> QED BY <1>1, <2>1, FS_Subset, FS_CardinalityType
  <1>3. ASSUME NEW a PROVE Held(a) \in Nat
    BY <1>2 DEF Held, Starting
  <1> QED BY <1>2, <1>3

\* Where no worker begins, ends or changes hands, the slots in use are the same.
LEMMA QuietHolders == ASSUME Quiet, NEW a PROVE Holders(a)' = Holders(a)
  BY DEF Quiet, Holders, Live, Done

LEMMA SameHolders ==
    ASSUME WorkInv, LimitInv, TypeOK, UNCHANGED <<busy, pass>>, \A a \in Actor : Holders(a)' = Holders(a)
    PROVE  Balanced
  <1>1. \A a \in Actor : Held(a)' = Held(a)
    BY DEF Held, Starting
  <1>2. \A a \in Actor : busy[a] \in Nat /\ Held(a) \in Nat
    BY HoldersFinite DEF TypeOK, SchedTypeOK
  <1> QED BY <1>1, <1>2 DEF Balanced

\* A worker's finally clause frees the slot it was given.
LEMMA FinishBalanced ==
    ASSUME WorkInv, LimitInv, TypeOK, Covered, NEW w \in WorkerId, Live(w), NEW r, Finish(w, r),
           UNCHANGED pass
    PROVE  Balanced
  <1> SUFFICES ASSUME NEW a \in Actor PROVE busy'[a] + Held(a) = busy[a] + Held(a)'
    BY DEF Balanced
  <1>1. \A v \in WorkerId : /\ v # w => worker'[v] = worker[v]
                            /\ v = w => ~Live(w)'
    BY DEF Finish, TypeOK, SchedTypeOK, WorkerRecord, Live
  <1>2. Holders(a)' = Holders(a) \ {w}
    BY <1>1 DEF Holders, Live
  <1>3. /\ IsFiniteSet(Holders(a)) /\ Cardinality(Holders(a)) \in Nat /\ Starting(a) \in Nat
        /\ busy \in [Actor -> Nat] /\ Starting(a)' = Starting(a)
    BY HoldersFinite DEF TypeOK, SchedTypeOK, Starting
  <1>4. CASE worker[w].actor = a
    <2>1. w \in Holders(a)
      BY <1>4 DEF Holders
    <2>2. Cardinality(Holders(a)') = Cardinality(Holders(a)) - 1
      BY <1>2, <1>3, <2>1, FS_RemoveElement
    <2>3. Cardinality(Holders(a)) > 0
      BY <1>3, <2>1, FS_EmptySet
    <2>4. busy[a] # 0
      BY <1>3, <2>3 DEF Covered, Held
    <2>5. busy'[a] = busy[a] - 1
      BY <1>3, <1>4, <2>4 DEF Finish
    <2> QED BY <1>3, <2>2, <2>5 DEF Held
  <1>5. CASE worker[w].actor # a
    <2>1. Holders(a)' = Holders(a)
      BY <1>2, <1>5 DEF Holders
    <2>2. busy'[a] = busy[a]
      BY <1>3, <1>5 DEF Finish
    <2> QED BY <1>3, <2>1, <2>2 DEF Held
  <1> QED BY <1>4, <1>5

\* A worker that goes on keeps its slot; one cancelled before its first step
\* never frees it.
LEMMA WorkerSlots ==
    ASSUME WorkersInv, LimitInv, Covered, NEW w \in WorkerId, WorkerStep(w)
    PROVE  Balanced \/ (WorkerNeverRan(w) /\ Lost)
  <1>1. WorkersOK /\ WorkInv /\ TypeOK /\ worker[w] \in WorkerRecord
    BY DEF WorkersInv, TypeOK, SchedTypeOK, WorkersOK
  <1>2. ASSUME NEW pc \in {"exec", "okEmit", "record", "routeEmit", "backEmit", "failEmit", "unwind"},
               NEW r, Live(w), UNCHANGED <<busy, pass>>,
               Move(w, pc) \/ worker' = [worker EXCEPT ![w].pc = pc, ![w].result = r]
        PROVE  Balanced
    <2>1. \A v \in WorkerId : v # w => worker'[v] = worker[v]
      BY <1>1, <1>2 DEF WorkersOK, Move
    <2>2. worker'[w].pc = pc /\ worker'[w].actor = worker[w].actor
      BY <1>1, <1>2 DEF WorkersOK, Move, WorkerRecord
    <2>3. \A a \in Actor : Holders(a)' = Holders(a)
      BY <1>2, <2>1, <2>2 DEF Holders, Live
    <2> QED BY <1>1, <1>2, <2>3, SameHolders
  <1>3. Live(w)
    BY DEF WorkerStep, WorkerBegin, WorkerNeverRan, WorkerSucceeds, WorkerFails,
           WorkerProviderFails, WorkerReroutes, WorkerSettles, WorkerInterrupted,
           WorkerUnwinds, WorkerAt, Live
  <1>4. CASE WorkerBegin(w) \/ WorkerReroutes(w) \/ WorkerInterrupted(w)
    BY <1>2, <1>3, <1>4 DEF WorkerBegin, WorkerReroutes, WorkerInterrupted
  <1>5. ASSUME NEW r \in Outcome,
               WorkerSucceeds(w, r) \/ WorkerFails(w, r) \/ WorkerProviderFails(w, r)
        PROVE  Balanced
    BY <1>2, <1>3, <1>5 DEF WorkerSucceeds, WorkerFails, WorkerProviderFails
  <1>6. CASE WorkerSettles(w) \/ WorkerUnwinds(w)
    BY <1>1, <1>3, <1>6, FinishBalanced DEF WorkerSettles, WorkerUnwinds
  <1>7. CASE WorkerNeverRan(w)
    <2>1. \A a \in Actor : Holders(a)' \subseteq Holders(a) /\ Starting(a)' = Starting(a)
      <3>1. \A v \in WorkerId : v # w => worker'[v] = worker[v]
        BY <1>1, <1>7 DEF WorkersOK, WorkerNeverRan
      <3>2. ~Live(w)'
        BY <1>1, <1>7 DEF WorkersOK, WorkerNeverRan, WorkerRecord, Live
      <3> QED BY <1>7, <3>1, <3>2 DEF Holders, Starting, Live, WorkerNeverRan
    <2>2. \A a \in Actor : /\ Cardinality(Holders(a)') <= Cardinality(Holders(a))
                           /\ Cardinality(Holders(a)') \in Nat
      BY <1>1, <2>1, HoldersFinite, FS_Subset, FS_CardinalityType
    <2>3. \A a \in Actor : Held(a)' <= Held(a)
      BY <1>1, <2>1, <2>2, HoldersFinite DEF Held, Starting
    <2> QED BY <1>7, <2>3 DEF Lost, WorkerNeverRan
  <1> QED BY <1>4, <1>5, <1>6, <1>7 DEF WorkerStep

\* acquire_actor takes the slot the pass is about to start a worker in.
LEMMA AcquireBalanced ==
    ASSUME WorkersInv, LimitInv, pass.pc # "start", NEW g, NEW t, NEW b \in Actor, NEW S,
           Acquire(g, t, b, S), UNCHANGED worker
    PROVE  Balanced
  <1> SUFFICES ASSUME NEW a \in Actor PROVE busy'[a] + Held(a) = busy[a] + Held(a)'
    BY DEF Balanced
  <1>1. pass \in PassRecord /\ busy \in [Actor -> Nat] /\ WorkInv
    BY DEF WorkersInv, TypeOK, SchedTypeOK
  <1>2. Holders(a)' = Holders(a) /\ Cardinality(Holders(a)) \in Nat
    BY <1>1, HoldersFinite DEF Holders, Live
  <1>3. pass'.pc = "start" /\ pass'.actor = b /\ busy' = [busy EXCEPT ![b] = @ + 1]
    BY <1>1 DEF Acquire, PassRecord
  <1>4. Starting(a) = 0 /\ Starting(a)' = IF a = b THEN 1 ELSE 0
    BY <1>3 DEF Starting
  <1>5. busy'[a] = IF a = b THEN busy[a] + 1 ELSE busy[a]
    BY <1>1, <1>3
  <1> QED BY <1>1, <1>2, <1>4, <1>5 DEF Held

\* The slot taken for a start becomes its worker's.
LEMMA LaunchBalanced ==
    ASSUME WorkersInv, LimitInv, NEW w \in WorkerId, PassLaunch(w)
    PROVE  Balanced
  <1> SUFFICES ASSUME NEW a \in Actor PROVE busy'[a] + Held(a) = busy[a] + Held(a)'
    BY DEF Balanced
  <1>1. pass \in PassRecord /\ busy \in [Actor -> Nat] /\ WorkInv /\ WorkersOK
    BY DEF WorkersInv, TypeOK, SchedTypeOK, WorkersOK
  <1>2. IsFiniteSet(Holders(a)) /\ Cardinality(Holders(a)) \in Nat
    BY <1>1, HoldersFinite
  <1>3. /\ worker'[w].pc = "new" /\ worker'[w].actor = pass.actor
        /\ \A v \in WorkerId : v # w => worker'[v] = worker[v]
    BY <1>1 DEF PassLaunch, WorkersOK, NoWorker
  <1>4. pass.pc = "start" /\ pass'.pc = "pick" /\ worker[w].pc = "none" /\ UNCHANGED busy
    BY <1>1 DEF PassLaunch, PassRecord
  <1>5. Starting(a)' = 0 /\ Starting(a) = IF a = pass.actor THEN 1 ELSE 0
    BY <1>4 DEF Starting
  <1>6. CASE a = pass.actor
    <2>1. Holders(a)' = Holders(a) \cup {w} /\ w \notin Holders(a)
      BY <1>3, <1>4, <1>6 DEF Holders, Live
    <2>2. Cardinality(Holders(a)') = Cardinality(Holders(a)) + 1
      BY <1>2, <2>1, FS_AddElement
    <2> QED BY <1>1, <1>2, <1>4, <1>5, <1>6, <2>2 DEF Held
  <1>7. CASE a # pass.actor
    <2>1. Holders(a)' = Holders(a)
      BY <1>3, <1>4, <1>7 DEF Holders, Live
    <2> QED BY <1>1, <1>2, <1>4, <1>5, <1>7, <2>1 DEF Held
  <1> QED BY <1>6, <1>7

\* Every step of a dispatch pass.
LEMMA PassSlots ==
    ASSUME WorkersInv, LimitInv, PassBegin \/ PassStep \/ PassEnd
    PROVE  Balanced
  <1>1. pass \in PassRecord /\ WorkInv /\ TypeOK /\ PassNamed
    BY DEF WorkersInv, TypeOK, SchedTypeOK
  <1>2. ASSUME UNCHANGED <<busy, worker>>, pass.pc # "start", pass'.pc # "start" PROVE Balanced
    <2>1. \A a \in Actor : Held(a)' = Held(a)
      BY <1>2 DEF Held, Starting, Holders, Live
    <2>2. \A a \in Actor : busy[a] \in Nat /\ Held(a) \in Nat
      BY <1>1, HoldersFinite DEF TypeOK, SchedTypeOK
    <2> QED BY <1>2, <2>1, <2>2 DEF Balanced
  <1>3. CASE PassBegin
    <2>1. pass.pc = "idle" /\ pass'.pc = "pick"
      BY <1>3 DEF PassBegin, IdlePass
    <2> QED BY <1>2, <1>3, <2>1 DEF PassBegin
  <1>4. CASE PassEnd
    <2>1. pass.pc = "pick" /\ pass'.pc = "idle"
      BY <1>4, Zenon DEF PassEnd, IdlePass
    <2> QED BY <1>2, <1>4, <2>1 DEF PassEnd
  <1>5. CASE PassResume
    BY <1>1, <1>5, AcquireBalanced DEF PassResume, PassNamed
  <1>6. ASSUME NEW t \in pass.todo, NEW S, PassAssign(t, S) PROVE Balanced
    <2>1. t \in Task
      BY <1>1 DEF PassRecord
    <2>2. PICK d \in Decisions(t) : d.kind = "go" /\ Acquire(PassOver(S), t, d.actor, S)
      BY <1>6 DEF PassAssign
    <2>3. d.actor \in Actor
      BY <2>1, <2>2, DecisionNamesActor DEF GoodDecision
    <2> QED BY <1>6, <2>2, <2>3, AcquireBalanced DEF PassAssign, Picks
  <1>7. ASSUME NEW t \in pass.todo, NEW S, PassReroute(t, S) PROVE Balanced
    <2>1. pass.pc = "pick" /\ pass'.pc = "reroute"
      BY <1>1, <1>7 DEF PassReroute, Picks, PassRecord
    <2> QED BY <1>2, <1>7, <2>1 DEF PassReroute
  <1>8. ASSUME NEW w \in WorkerId, PassLaunch(w) PROVE Balanced
    BY <1>8, LaunchBalanced
  <1> QED BY <1>3, <1>4, <1>5, <1>6, <1>7, <1>8 DEF PassStep

\* The other steps change no slot, unless an interrupted pass forgets a start.
LEMMA CalmSlots ==
    ASSUME WorkersInv, LimitInv, Calm
    PROVE  Balanced \/ (pass.pc = "start" /\ pass' = IdlePass /\ Lost)
  <1>1. WorkInv /\ TypeOK /\ \A a \in Actor : Holders(a)' = Holders(a)
    BY QuietHolders DEF WorkersInv, Calm
  <1>2. CASE UNCHANGED pass
    BY <1>1, <1>2, SameHolders DEF Calm
  <1>3. CASE pass' = IdlePass /\ pass.pc = "start"
    <2>1. \A a \in Actor : Starting(a)' <= Starting(a)
      BY <1>3 DEF Starting, IdlePass
    <2>2. \A a \in Actor : Held(a)' <= Held(a)
      BY <1>1, <2>1, HoldersFinite DEF Held, Starting
    <2> QED BY <1>3, <2>2 DEF Lost, Calm
  <1>4. CASE pass' = IdlePass /\ pass.pc # "start"
    <2>1. \A a \in Actor : Starting(a)' = Starting(a)
      BY <1>4 DEF Starting, IdlePass
    <2>2. \A a \in Actor : Held(a)' = Held(a) /\ Held(a) \in Nat /\ busy[a] \in Nat
      BY <1>1, <2>1, HoldersFinite DEF Held, TypeOK, SchedTypeOK
    <2> QED BY <2>2 DEF Balanced, Calm
  <1> QED BY <1>2, <1>3, <1>4 DEF Calm

LEMMA CancelsSlots == ASSUME WorkersInv, LimitInv, Cancels PROVE Balanced
  BY QuietHolders, SameHolders DEF WorkersInv, Cancels

\* Every step: slots come and go with their workers, except for a worker
\* cancelled before it ran and a start interrupted before there was a worker.
LEMMA NextSlots ==
    ASSUME WorkersInv, LimitInv, Covered, [Next]_vars
    PROVE  \/ Balanced
           \/ Lost /\ \/ \E w \in WorkerId : WorkerNeverRan(w)
                      \/ pass.pc = "start" /\ pass' = IdlePass
  <1>1. CASE DriverStep
    BY <1>1, DriverPasses, PassSlots, CalmSlots
  <1>2. CASE ControlStep
    BY <1>2, ControlCalm, CancelsSlots
  <1>3. ASSUME NEW w \in WorkerId, RunWorker(w)
        PROVE  Balanced \/ (WorkerNeverRan(w) /\ Lost)
    BY <1>3, WorkerSlots DEF RunWorker
  <1>4. CASE EnvStep \/ Ended \/ UNCHANGED vars
    <2>1. UNCHANGED <<busy, pass, worker>>
      BY <1>4 DEF EnvStep, HealthChanges, Ended, vars, schedVars
    <2>2. \A a \in Actor : Holders(a)' = Holders(a)
      BY <2>1 DEF Holders, Live
    <2> QED BY <2>1, <2>2, SameHolders DEF WorkersInv
  <1> QED BY <1>1, <1>2, <1>3, <1>4 DEF Next

LEMMA HeldIsCounted == WorkInv /\ LimitInv => HeldCounted
  BY HoldersFinite DEF HeldCounted

LEMMA InitCovered == ASSUME Init PROVE Covered
  <1>1. \A a \in Actor : Holders(a) = {} /\ Starting(a) = 0 /\ busy[a] = 0
    BY DEF Init, SchedInit, Holders, Starting, Live, NoWorker, IdlePass
  <1> QED BY <1>1, FS_EmptySet DEF Covered, Held

\* The scheduler never counts fewer slots of an actor in use than there are
\* workers on it, and never forgets that a task with a worker runs: a worker
\* may be lost with its slot, a slot is never given away under a worker.
THEOREM EngineSlotsHeld == Spec => []SlotsHeld
  <1>1. Init => LimitInv
    BY InitLimit
  <1>2. WorkersInv /\ LimitInv /\ Covered /\ [Next]_vars => Covered'
    <2> SUFFICES ASSUME WorkersInv, LimitInv, LimitInv', WorkersInv', Covered, [Next]_vars PROVE Covered'
      BY NextLimit, NextInv
    <2>1. \A a \in Actor : Held(a) \in Nat /\ busy[a] \in Nat
      BY HoldersFinite DEF WorkersInv, TypeOK, SchedTypeOK
    <2>2. \A a \in Actor : Held(a)' \in Nat /\ busy'[a] \in Nat
      <3>1. HeldCounted'
        BY HeldIsCounted, PTL DEF WorkersInv
      <3> QED BY <3>1 DEF HeldCounted, WorkersInv, TypeOK, SchedTypeOK
    <2>3. CASE Balanced
      BY <2>1, <2>2, <2>3 DEF Covered, Balanced
    <2>4. CASE Lost
      BY <2>1, <2>2, <2>4 DEF Covered, Lost
    <2> QED BY <2>3, <2>4, NextSlots
  <1>3. WorkersInv /\ LimitInv /\ Covered => SlotsHeld
    BY DEF WorkersInv, WorkInv, Covered, Held, SlotsHeld
  <1> QED BY <1>1, <1>2, <1>3, InitCovered, InitInv, NextInv, NextLimit, PTL DEF Spec

----------------------------------------------------------------------------
(* Attempts                                                                 *)

\* What AttemptsBounded allows.
MostAttempts == IF MaxAttempts > FaultBound THEN MaxAttempts ELSE FaultBound

\* A task that can be dispatched has an attempt left: one that waits or is
\* retried, one the pass still goes through or has decided on, and one whose
\* worker is about to hand it back.
HasAttempts(t) == graph[t].attempt < MostAttempts

AttemptInv ==
    /\ \A t \in DOMAIN graph : /\ graph[t].attempt <= MostAttempts
                               /\ graph[t].status \in {"PENDING", "READY"} => HasAttempts(t)
    /\ \A t \in pass.todo : HasAttempts(t)
    /\ pass.pc = "reroute" => HasAttempts(pass.task)
    /\ \A w \in WorkerId : worker[w].pc \in {"record", "routeEmit", "backEmit"} => HasAttempts(w[1])

\* Nobody starts an attempt, and no task is put back that has none left.
NoAttempt(g, h) ==
    /\ DOMAIN g \subseteq DOMAIN h
    /\ \A t \in DOMAIN g : /\ h[t].attempt <= g[t].attempt
                           /\ \/ h[t].status = g[t].status
                              \/ h[t].status \notin {"PENDING", "READY"}
                              \/ h[t].attempt < MostAttempts
    /\ \A t \in DOMAIN h \ DOMAIN g : h[t].attempt < MostAttempts

LEMMA AttemptBounds ==
    /\ MostAttempts \in Nat \ {0}
    /\ MaxAttempts <= MostAttempts /\ FaultBound <= MostAttempts
    /\ MaxAttempts \in Nat /\ FaultBound \in Nat
  BY GraphAssumption, SchedulerAssumption
     DEF MostAttempts, GraphAssumption, SchedulerAssumption

LEMMA AttemptsKept ==
    ASSUME IsGraph(graph), IsGraph(graph'), KnownTasks, AttemptInv, NoAttempt(graph, graph'),
           \/ UNCHANGED pass
           \/ pass'.todo \subseteq pass.todo \cup ReadyTasks(graph) /\ pass'.pc # "reroute",
           \A w \in WorkerId :
              worker'[w].pc \in {"record", "routeEmit", "backEmit"} =>
                 worker[w].pc = worker'[w].pc \/ (w[1] \in DOMAIN graph /\ HasAttempts(w[1])')
    PROVE  AttemptInv'
  <1>1. MostAttempts \in Nat
    BY AttemptBounds
  <1>2. \A t \in DOMAIN graph : graph[t].attempt \in Nat /\ graph'[t].attempt \in Nat
    BY DEF IsGraph, TaskNode, NoAttempt
  <1>3. \A t \in DOMAIN graph : HasAttempts(t) => HasAttempts(t)'
    BY <1>1, <1>2 DEF HasAttempts, NoAttempt
  <1>4. ASSUME NEW t \in DOMAIN graph'
        PROVE  /\ graph'[t].attempt <= MostAttempts
               /\ graph'[t].status \in {"PENDING", "READY"} => HasAttempts(t)'
    <2>1. CASE t \in DOMAIN graph
      BY <1>1, <1>2, <1>3, <2>1 DEF NoAttempt, AttemptInv, HasAttempts
    <2>2. CASE t \notin DOMAIN graph
      <3>1. graph'[t].attempt \in Nat /\ graph'[t].attempt < MostAttempts
        BY <2>2 DEF NoAttempt, IsGraph, TaskNode
      <3> QED BY <1>1, <3>1 DEF HasAttempts
    <2> QED BY <2>1, <2>2
  <1>5. ASSUME NEW t \in pass'.todo PROVE HasAttempts(t)'
    <2>1. t \in DOMAIN graph /\ HasAttempts(t)
      BY <1>5 DEF AttemptInv, KnownTasks, ReadyTasks
    <2> QED BY <1>3, <2>1
  <1>6. ASSUME pass'.pc = "reroute" PROVE HasAttempts(pass.task)'
    <2>1. UNCHANGED pass /\ pass.task \in DOMAIN graph /\ HasAttempts(pass.task)
      BY <1>6 DEF AttemptInv, KnownTasks
    <2>2. HasAttempts(pass.task) => graph'[pass.task].attempt < MostAttempts
      BY <1>3, <2>1 DEF HasAttempts
    <2> QED BY <2>1, <2>2 DEF HasAttempts
  <1>7. ASSUME NEW w \in WorkerId, worker'[w].pc \in {"record", "routeEmit", "backEmit"}
        PROVE  HasAttempts(w[1])'
    <2>1. CASE worker[w].pc = worker'[w].pc
      <3>1. worker[w].pc \in {"record", "routeEmit", "backEmit"}
        BY <1>7, <2>1
      <3>2. HasAttempts(w[1]) /\ w[1] \in DOMAIN graph
        BY <3>1 DEF AttemptInv, KnownTasks
      <3> QED BY <1>3, <3>2
    <2> QED BY <1>7, <2>1
  <1> QED BY <1>4, <1>5, <1>6, <1>7 DEF AttemptInv

\* One node's status and attempt replaced.
LEMMA PatchAttempt ==
    ASSUME NEW g, IsGraph(g), NEW t \in DOMAIN g, NEW node, node.attempt <= g[t].attempt,
           \/ node.status = g[t].status
           \/ node.status \notin {"PENDING", "READY"}
           \/ node.attempt < MostAttempts
    PROVE  NoAttempt(g, [g EXCEPT ![t] = node])
  <1> DEFINE h == [g EXCEPT ![t] = node]
  <1>1. \A u \in DOMAIN g : g[u].attempt <= g[u].attempt
    BY DEF IsGraph, TaskNode
  <1>2. DOMAIN h = DOMAIN g /\ h[t] = node /\ \A u \in DOMAIN g \ {t} : h[u] = g[u]
    OBVIOUS
  <1> HIDE DEF h
  <1> QED BY <1>1, <1>2 DEF NoAttempt

LEMMA StatusAttempt ==
    ASSUME NEW g, IsGraph(g), NEW t \in DOMAIN g, NEW s,
           s \notin {"PENDING", "READY"} \/ g[t].attempt < MostAttempts
    PROVE  NoAttempt(g, [g EXCEPT ![t].status = s])
  <1>1. g[t] \in TaskNode /\ g[t].attempt <= g[t].attempt
    BY DEF IsGraph, TaskNode
  <1>2. [g EXCEPT ![t].status = s] = [g EXCEPT ![t] = [g[t] EXCEPT !.status = s]]
    OBVIOUS
  <1>3. [g[t] EXCEPT !.status = s].status = s /\ [g[t] EXCEPT !.status = s].attempt = g[t].attempt
    BY <1>1 DEF TaskNode
  <1> QED BY <1>1, <1>2, <1>3, PatchAttempt

\* A worker that settles its task puts it back only below max_attempts, or
\* where a provider failed an attempt numbered below the fault bound.
LEMMA WorkerAttempts ==
    ASSUME WorkersInv, AttemptInv, NEW w \in WorkerId, WorkerStep(w), IsGraph(graph')
    PROVE  AttemptInv'
  <1> DEFINE t == w[1]
  <1>1. /\ WorkersOK /\ IsGraph(graph) /\ KnownTasks /\ worker[w] \in WorkerRecord
        /\ Live(w) /\ t \in DOMAIN graph
    <2>1. Live(w)
      BY DEF WorkerStep, WorkerBegin, WorkerNeverRan, WorkerSucceeds, WorkerFails,
             WorkerProviderFails, WorkerReroutes, WorkerSettles, WorkerInterrupted,
             WorkerUnwinds, WorkerAt, Live
    <2> QED BY <2>1 DEF WorkersInv, TypeOK, SchedTypeOK, WorkersOK, KnownTasks, Live
  <1>2. graph[t] \in TaskNode /\ graph[t].attempt \in Nat
    BY <1>1 DEF IsGraph, TaskNode
  <1>3. NoAttempt(graph, graph)
    BY <1>1 DEF NoAttempt, IsGraph, TaskNode
  <1>4. UNCHANGED pass /\ \A v \in WorkerId : v # w => worker'[v] = worker[v]
    BY <1>1 DEF WorkerStep, WorkerBegin, WorkerNeverRan, WorkerSucceeds, WorkerFails,
           WorkerProviderFails, WorkerReroutes, WorkerSettles, WorkerInterrupted,
           WorkerUnwinds, Move, Finish, WorkersOK
  <1>5. ASSUME NoAttempt(graph, graph'),
               worker'[w].pc \in {"record", "routeEmit", "backEmit"} => HasAttempts(t)'
        PROVE  AttemptInv'
    BY <1>1, <1>4, <1>5, AttemptsKept
  <1>6. ASSUME NEW pc, NEW r, Move(w, pc) \/ worker' = [worker EXCEPT ![w].pc = pc, ![w].result = r]
        PROVE  worker'[w].pc = pc
    BY <1>1, <1>6 DEF Move, WorkersOK, WorkerRecord
  <1>7. CASE WorkerBegin(w)
    <2>1. worker'[w].pc = "exec"
      BY <1>6, <1>7 DEF WorkerBegin
    <2> QED BY <1>3, <1>5, <1>7, <2>1 DEF WorkerBegin
  <1>8. CASE WorkerNeverRan(w)
    <2>1. worker'[w].pc = "done"
      BY <1>6, <1>8 DEF WorkerNeverRan
    <2> QED BY <1>3, <1>5, <1>8, <2>1 DEF WorkerNeverRan
  <1>9. ASSUME NEW r \in Outcome, WorkerSucceeds(w, r) \/ WorkerFails(w, r) PROVE AttemptInv'
    <2>1. worker'[w].pc \in {"okEmit", "failEmit"}
      BY <1>6, <1>9 DEF WorkerSucceeds, WorkerFails
    <2> QED BY <1>3, <1>5, <1>9, <2>1 DEF WorkerSucceeds, WorkerFails
  <1>10. ASSUME NEW r \in Outcome, WorkerProviderFails(w, r) PROVE AttemptInv'
    <2>1. HasAttempts(t)'
      BY <1>2, <1>10, AttemptBounds DEF WorkerProviderFails, HasAttempts
    <2> QED BY <1>3, <1>5, <1>10, <2>1 DEF WorkerProviderFails
  <1>11. CASE WorkerReroutes(w)
    <2>1. HasAttempts(t) /\ worker[w].pc = "record"
      BY <1>11 DEF WorkerReroutes, WorkerAt, AttemptInv
    <2>2. ASSUME NEW a, graph' = [graph EXCEPT ![t].actor = a, ![t].status = "READY"]
          PROVE  NoAttempt(graph, graph') /\ HasAttempts(t)'
      <3> DEFINE node == [graph[t] EXCEPT !.actor = a, !.status = "READY"]
      <3>1. node.attempt = graph[t].attempt /\ graph' = [graph EXCEPT ![t] = node]
        BY <1>2, <2>2 DEF TaskNode
      <3> HIDE DEF node
      <3>2. node.attempt <= graph[t].attempt /\ node.attempt < MostAttempts
        BY <1>2, <2>1, <3>1 DEF HasAttempts
      <3>3. NoAttempt(graph, graph')
        BY <1>1, <3>1, <3>2, PatchAttempt
      <3> QED BY <1>1, <2>1, <3>1, <3>3 DEF HasAttempts
    <2>3. ASSUME graph' = [graph EXCEPT ![t].attempt = IF @ = 0 THEN 0 ELSE @ - 1]
          PROVE  NoAttempt(graph, graph') /\ HasAttempts(t)'
      <3> DEFINE n == IF graph[t].attempt = 0 THEN 0 ELSE graph[t].attempt - 1
                 node == [graph[t] EXCEPT !.attempt = n]
      <3>1. n \in Nat /\ n <= graph[t].attempt
        BY <1>2
      <3> HIDE DEF n
      <3>2. node.attempt = n /\ node.status = graph[t].status
        BY <1>2 DEF TaskNode
      <3>3. graph' = [graph EXCEPT ![t] = node]
        BY <2>3 DEF n
      <3> HIDE DEF node
      <3>4. NoAttempt(graph, graph') /\ graph'[t].attempt = n
        BY <1>1, <3>1, <3>2, <3>3, PatchAttempt
      <3> QED BY <1>2, <2>1, <3>1, <3>4, AttemptBounds DEF HasAttempts
    <2>4. CASE UNCHANGED graph /\ Move(w, "failEmit")
      <3>1. worker'[w].pc = "failEmit"
        BY <1>6, <2>4
      <3> QED BY <1>3, <1>5, <2>4, <3>1
    <2>5. \/ NoAttempt(graph, graph') /\ HasAttempts(t)'
          \/ UNCHANGED graph /\ Move(w, "failEmit")
      <3>1. \/ \E a : graph' = [graph EXCEPT ![t].actor = a, ![t].status = "READY"]
            \/ graph' = [graph EXCEPT ![t].attempt = IF @ = 0 THEN 0 ELSE @ - 1]
            \/ UNCHANGED graph /\ Move(w, "failEmit")
        BY <1>11, Zenon DEF WorkerReroutes
      <3> QED BY <2>2, <2>3, <3>1
    <2> QED BY <1>5, <2>4, <2>5
  <1>12. CASE WorkerSettles(w)
    <2>1. worker'[w].pc = "done"
      BY <1>6, <1>12 DEF WorkerSettles, Finish
    <2>2. NoAttempt(graph, graph')
      <3>1. CASE graph' = MarkSuccess(graph, t)
        BY <1>1, <3>1, StatusAttempt DEF MarkSuccess
      <3>2. CASE graph' = MarkFailure(graph, t)
        <4> DEFINE s == IF graph[t].attempt < MaxAttempts THEN "READY" ELSE "FAILED"
        <4>1. s \notin {"PENDING", "READY"} \/ graph[t].attempt < MostAttempts
          BY <1>2, AttemptBounds
        <4>2. graph' = [graph EXCEPT ![t].status = s]
          BY <3>2 DEF MarkFailure
        <4> HIDE DEF s
        <4> QED BY <1>1, <4>1, <4>2, StatusAttempt
      <3>3. CASE worker[w].pc = "backEmit" /\ graph' = [graph EXCEPT ![t].status = "READY"]
        BY <1>1, <3>3, StatusAttempt DEF AttemptInv, HasAttempts
      <3> QED BY <1>3, <1>12, <3>1, <3>2, <3>3 DEF WorkerSettles, WorkerAt
    <2> QED BY <1>5, <2>1, <2>2
  <1>13. CASE WorkerInterrupted(w)
    <2>1. worker'[w].pc = "unwind"
      BY <1>6, <1>13 DEF WorkerInterrupted
    <2>2. NoAttempt(graph, graph')
      BY <1>1, <1>3, <1>13, StatusAttempt DEF WorkerInterrupted, MarkCancelled
    <2> QED BY <1>5, <2>1, <2>2
  <1>14. CASE WorkerUnwinds(w)
    <2>1. worker'[w].pc = "done"
      BY <1>6, <1>14 DEF WorkerUnwinds, Finish
    <2> QED BY <1>3, <1>5, <1>14, <2>1 DEF WorkerUnwinds
  <1> QED BY <1>7, <1>8, <1>9, <1>10, <1>11, <1>12, <1>13, <1>14 DEF WorkerStep

\* The pass starts an attempt of a task that has one left.
LEMMA AcquireAttempts ==
    ASSUME WorkersInv, AttemptInv, NEW g, IsGraph(g), NoAttempt(graph, g), DOMAIN g = DOMAIN graph,
           NEW t \in DOMAIN graph, HasAttempts(t), NEW a \in Actor, NEW S, Acquire(g, t, a, S),
           t \notin running, UNCHANGED worker
    PROVE  AttemptInv'
  <1>1. /\ IsGraph(graph) /\ KnownTasks /\ pass \in PassRecord /\ WorkInv
        /\ MostAttempts \in Nat
    BY AttemptBounds DEF WorkersInv, TypeOK, SchedTypeOK
  <1>2. \A u \in DOMAIN graph : /\ graph[u].attempt \in Nat
                                /\ g[u].attempt \in Nat
                                /\ g[u] \in TaskNode
    BY <1>1 DEF IsGraph, TaskNode
  <1>3. /\ DOMAIN graph' = DOMAIN graph
        /\ \A u \in DOMAIN graph \ {t} : graph'[u] = g[u]
        /\ graph'[t].status = "RUNNING" /\ graph'[t].attempt = g[t].attempt + 1
    BY <1>2 DEF Acquire, MarkRunning, TaskNode
  <1>4. pass'.pc = "start" /\ pass'.todo \subseteq pass.todo \ {t}
    BY <1>1 DEF Acquire, PassRecord
  <1>5. \A u \in DOMAIN graph \ {t} : HasAttempts(u) => HasAttempts(u)'
    BY <1>1, <1>2, <1>3 DEF HasAttempts, NoAttempt
  <1>6. ASSUME NEW u \in DOMAIN graph'
        PROVE  /\ graph'[u].attempt <= MostAttempts
               /\ graph'[u].status \in {"PENDING", "READY"} => HasAttempts(u)'
    <2>1. CASE u = t
      BY <1>1, <1>2, <1>3, <2>1 DEF HasAttempts, NoAttempt
    <2>2. CASE u # t
      BY <1>1, <1>2, <1>3, <1>5, <2>2 DEF NoAttempt, AttemptInv, HasAttempts
    <2> QED BY <2>1, <2>2
  <1>7. \A u \in pass'.todo : HasAttempts(u)'
    BY <1>1, <1>4, <1>5 DEF AttemptInv, KnownTasks
  <1>8. ASSUME NEW w \in WorkerId, worker'[w].pc \in {"record", "routeEmit", "backEmit"}
        PROVE  HasAttempts(w[1])'
    <2>1. Live(w) /\ w[1] \in DOMAIN graph /\ HasAttempts(w[1])
      BY <1>1, <1>8 DEF Live, KnownTasks, AttemptInv
    <2>2. w[1] # t
      BY <1>1, <2>1 DEF WorkInv
    <2> QED BY <1>5, <2>1, <2>2
  <1> QED BY <1>4, <1>6, <1>7, <1>8 DEF AttemptInv

LEMMA PassOverAttempt ==
    ASSUME IsGraph(graph), NEW S
    PROVE  /\ IsGraph(PassOver(S)) /\ DOMAIN PassOver(S) = DOMAIN graph
           /\ NoAttempt(graph, PassOver(S))
  <1>1. IsGraph(PassOver(S)) /\ DOMAIN PassOver(S) = DOMAIN graph
    BY BlockType DEF PassOver, MarkBlocked
  <1>2. ASSUME NEW u \in DOMAIN graph
        PROVE  /\ PassOver(S)[u].attempt = graph[u].attempt
               /\ PassOver(S)[u].status \in {graph[u].status, "BLOCKED"}
    BY DEF PassOver, MarkBlocked, IsGraph, TaskNode
  <1>3. \A u \in DOMAIN graph : graph[u].attempt \in Nat
    BY DEF IsGraph, TaskNode
  <1> QED BY <1>1, <1>2, <1>3 DEF NoAttempt

\* Every step of a dispatch pass.
LEMMA PassAttempts ==
    ASSUME WorkersInv, AttemptInv, PassBegin \/ PassStep \/ PassEnd, IsGraph(graph')
    PROVE  AttemptInv'
  <1>1. /\ IsGraph(graph) /\ KnownTasks /\ pass \in PassRecord /\ WorkInv /\ WorkersOK
        /\ PassNamed
    BY DEF WorkersInv, TypeOK, SchedTypeOK, WorkersOK
  <1>2. NoAttempt(graph, graph)
    BY <1>1 DEF NoAttempt, IsGraph, TaskNode
  <1>3. CASE PassBegin
    <2>1. pass'.todo = ReadyTasks(graph) /\ pass'.pc = "pick"
      BY <1>3 DEF PassBegin, IdlePass
    <2> QED BY <1>1, <1>2, <1>3, <2>1, AttemptsKept DEF PassBegin
  <1>4. CASE PassEnd
    <2>1. pass'.todo = {} /\ pass'.pc = "idle"
      BY <1>4, Zenon DEF PassEnd, IdlePass
    <2>2. NoAttempt(graph, graph')
      BY <1>1, <1>2, <1>4, PassOverAttempt DEF PassEnd
    <2> QED BY <1>1, <1>4, <2>1, <2>2, AttemptsKept DEF PassEnd
  <1>5. CASE PassResume
    <2>1. /\ pass.task \in DOMAIN graph \ running /\ pass.actor \in Actor
          /\ HasAttempts(pass.task)
      BY <1>1, <1>5 DEF PassResume, KnownTasks, WorkInv, PassNamed, AttemptInv
    <2> QED BY <1>1, <1>2, <1>5, <2>1, AcquireAttempts DEF PassResume
  <1>6. ASSUME NEW t \in pass.todo, NEW S, PassAssign(t, S) PROVE AttemptInv'
    <2>1. t \in DOMAIN graph \ running /\ HasAttempts(t) /\ t \in Task
      BY <1>1, <1>6 DEF PassAssign, Picks, KnownTasks, AttemptInv, PassRecord
    <2>2. PICK d \in Decisions(t) : d.kind = "go" /\ Acquire(PassOver(S), t, d.actor, S)
      BY <1>6 DEF PassAssign
    <2>3. d.actor \in Actor
      BY <2>1, <2>2, DecisionNamesActor DEF GoodDecision
    <2> QED BY <1>1, <1>6, <2>1, <2>2, <2>3, PassOverAttempt, AcquireAttempts DEF PassAssign
  <1>7. ASSUME NEW t \in pass.todo, NEW S, PassReroute(t, S) PROVE AttemptInv'
    <2>1. t \in DOMAIN graph /\ HasAttempts(t)
      BY <1>1, <1>7 DEF KnownTasks, AttemptInv
    <2>2. PICK a : /\ graph' = [PassOver(S) EXCEPT ![t].actor = a]
                   /\ pass' = [pass EXCEPT !.pc = "reroute", !.task = t, !.actor = a,
                                           !.todo = @ \ (S \cup {t})]
      BY <1>7 DEF PassReroute
    <2> DEFINE g == PassOver(S)
    <2>3. IsGraph(g) /\ DOMAIN g = DOMAIN graph /\ NoAttempt(graph, g)
      BY <1>1, PassOverAttempt
    <2>4. \A u \in DOMAIN graph : /\ graph'[u].attempt = g[u].attempt
                                  /\ graph'[u].status = g[u].status
      <3> HIDE DEF g
      <3>1. \A u \in DOMAIN graph : g[u] \in TaskNode
        BY <2>3 DEF IsGraph
      <3> QED BY <2>2, <2>3, <3>1 DEF g, TaskNode
    <2>5. NoAttempt(graph, graph') /\ DOMAIN graph' = DOMAIN graph
      <3>1. DOMAIN graph' = DOMAIN graph
        BY <2>2, <2>3
      <3> HIDE DEF g
      <3> QED BY <2>3, <2>4, <3>1 DEF NoAttempt
    <2>6. pass'.pc = "reroute" /\ pass'.task = t /\ pass'.todo \subseteq pass.todo
      BY <1>1, <2>2 DEF PassRecord
    <2>7. MostAttempts \in Nat /\ \A u \in DOMAIN graph : graph[u].attempt \in Nat /\ graph'[u].attempt \in Nat
      BY <1>1, <2>5, AttemptBounds DEF IsGraph, TaskNode
    <2>8. \A u \in DOMAIN graph : HasAttempts(u) => HasAttempts(u)'
      BY <2>5, <2>7 DEF NoAttempt, HasAttempts
    <2>9. \A u \in DOMAIN graph' : /\ graph'[u].attempt <= MostAttempts
                                   /\ graph'[u].status \in {"PENDING", "READY"} => HasAttempts(u)'
      BY <2>5, <2>7, <2>8 DEF NoAttempt, AttemptInv, HasAttempts
    <2>10. \A w \in WorkerId :
              worker'[w].pc \in {"record", "routeEmit", "backEmit"} => HasAttempts(w[1])'
      BY <1>1, <1>7, <2>8 DEF PassReroute, KnownTasks, AttemptInv
    <2>11. \A u \in pass'.todo : HasAttempts(u)'
      BY <1>1, <2>6, <2>8 DEF KnownTasks, AttemptInv
    <2> QED BY <2>1, <2>6, <2>8, <2>9, <2>10, <2>11 DEF AttemptInv
  <1>8. ASSUME NEW w \in WorkerId, PassLaunch(w) PROVE AttemptInv'
    <2>1. pass'.todo = pass.todo /\ pass'.pc = "pick"
      BY <1>1, <1>8 DEF PassLaunch, PassRecord
    <2>2. \A v \in WorkerId : worker'[v].pc = worker[v].pc \/ worker'[v].pc = "new"
      BY <1>1, <1>8 DEF PassLaunch, WorkersOK, NoWorker
    <2> QED BY <1>1, <1>2, <1>8, <2>1, <2>2, AttemptsKept DEF PassLaunch
  <1> QED BY <1>3, <1>4, <1>5, <1>6, <1>7, <1>8 DEF PassStep

\* The other steps start no attempt.
LEMMA CalmAttempts ==
    ASSUME WorkersInv, AttemptInv, Calm \/ Cancels, IsGraph(graph')
    PROVE  AttemptInv'
  <1>1. IsGraph(graph) /\ KnownTasks
    BY DEF WorkersInv, TypeOK, SchedTypeOK
  <1>2. \A t \in DOMAIN graph : graph[t].attempt \in Nat /\ graph[t] \in TaskNode
    BY <1>1 DEF IsGraph, TaskNode
  <1>3. NoAttempt(graph, graph')
    <2>1. CASE Edited(graph, graph')
      <3>2. \A t \in DOMAIN graph : /\ graph'[t].attempt = graph[t].attempt
                                    /\ graph'[t].status \in {graph[t].status, "SUPERSEDED"}
        <4> SUFFICES ASSUME NEW t \in DOMAIN graph, graph'[t] # graph[t]
                     PROVE  /\ graph'[t].attempt = graph[t].attempt
                            /\ graph'[t].status \in {graph[t].status, "SUPERSEDED"}
          OBVIOUS
        <4> QED BY <1>2, <2>1, EditedNode
      <3> QED BY <1>2, <2>1, <3>2, AttemptBounds DEF Edited, NoAttempt
    <2>2. ASSUME NEW t \in DOMAIN graph, graph' = MarkCancelled(graph, t)
          PROVE  NoAttempt(graph, graph')
      BY <1>1, <2>2, StatusAttempt DEF MarkCancelled
    <2>3. CASE UNCHANGED graph
      BY <1>2, <2>3 DEF NoAttempt
    <2> QED BY <2>1, <2>2, <2>3 DEF Calm, Cancels, WithStatus
  <1>4. UNCHANGED pass \/ (pass'.todo = {} /\ pass'.pc = "idle")
    BY DEF Calm, Cancels, IdlePass
  <1>5. \A w \in WorkerId : worker'[w].pc = worker[w].pc \/ worker'[w].pc = "none"
    BY DEF Calm, Cancels, Quiet
  <1> QED BY <1>1, <1>3, <1>4, <1>5, AttemptsKept

LEMMA NextAttempts == WorkersInv /\ AttemptInv /\ WorkersInv' /\ [Next]_vars => AttemptInv'
  <1> SUFFICES ASSUME WorkersInv, AttemptInv, WorkersInv', [Next]_vars PROVE AttemptInv'
    OBVIOUS
  <1>1. IsGraph(graph')
    BY DEF WorkersInv, TypeOK, SchedTypeOK
  <1>2. CASE DriverStep
    BY <1>1, <1>2, DriverPasses, PassAttempts, CalmAttempts
  <1>3. CASE ControlStep
    BY <1>1, <1>3, ControlCalm, CalmAttempts
  <1>4. ASSUME NEW w \in WorkerId, RunWorker(w) PROVE AttemptInv'
    BY <1>1, <1>4, WorkerAttempts DEF RunWorker
  <1>5. CASE EnvStep \/ Ended \/ UNCHANGED vars
    BY <1>5 DEF EnvStep, HealthChanges, Ended, vars, schedVars, AttemptInv, HasAttempts
  <1> QED BY <1>2, <1>3, <1>4, <1>5 DEF Next

\* No task starts more attempts than max_attempts, those apart that providers
\* failed: every dispatch spends one, a retry asks for the budget first, and an
\* attempt is given back only to the task it was taken from.
THEOREM EngineAttempts == Spec => []AttemptsBounded
  <1>1. Init => AttemptInv
    BY DEF Init, SchedInit, AttemptInv, IdlePass, NoWorker
  <1>2. WorkersInv /\ AttemptInv => AttemptsBounded
    BY DEF AttemptInv, AttemptsBounded, MostAttempts
  <1> QED BY <1>1, <1>2, NextAttempts, InitInv, NextInv, PTL DEF Spec

----------------------------------------------------------------------------
(* Slots, where nobody cancels                                              *)

\* Whose running mark is still of use.
Owned(t) == \/ \E w \in WorkerId : Live(w) /\ w[1] = t
            \/ pass.pc = "start" /\ pass.task = t

\* The driver waits for the workers it launched before it looks at anything
\* else, so that none of them can be cancelled before its first step.
NewAreTracked ==
    \A w \in WorkerId :
       worker[w].pc = "new" =>
          /\ ~worker[w].cancel
          /\ \/ drv.pc = "pass" /\ w \in pass.launched
             \/ drv.pc = "wait" /\ w \in drv.waiting

FreedInv ==
    /\ ctl.pc = "idle" /\ ~drv.cancel
    /\ NewAreTracked
    /\ \A a \in Actor : busy[a] = Held(a)
    /\ \A t \in running : Owned(t)

\* A driver nobody cancelled: its pass goes on to its end, and where workers
\* may be new it only dispatches and waits.
LEMMA DriverUnstopped ==
    ASSUME WorkersInv, DriverStep, ~drv.cancel
    PROVE  /\ UNCHANGED ctl /\ ~drv'.cancel
           /\ PassBegin \/ PassStep \/ PassEnd \/ UNCHANGED pass
           /\ RunPass \/ FinishPass \/ Wake \/ drv.pc \notin {"pass", "wait"}
  <1> DEFINE Goal == /\ UNCHANGED ctl /\ ~drv'.cancel
                     /\ PassBegin \/ PassStep \/ PassEnd \/ UNCHANGED pass
                     /\ RunPass \/ FinishPass \/ Wake \/ drv.pc \notin {"pass", "wait"}
  <1>1. drv \in Driver
    BY DEF WorkersInv, TypeOK
  <1>2. ASSUME UNCHANGED <<pass, ctl>>, NEW pc, pc \notin {"pass", "wait"}, DriverAt(pc),
               \/ \E s, to : DriverTo(s, to)
               \/ \E to : Continue(to)
               \/ \E why : Ask(why)
               \/ EndRun("drain")
        PROVE  Goal
    BY <1>1, <1>2 DEF DriverTo, EndRun, Continue, Ask, DriverAt, Driver
  <1>3. CASE StartPlanning \/ InitialPlan \/ FinishPlanning \/ RequestReplan \/ ConcludeReplan
    BY <1>2, <1>3 DEF StartPlanning, InitialPlan, FinishPlanning, RequestReplan, ConcludeReplan
  <1>4. CASE AfterReplan \/ CapacityRestored \/ FinishBatch \/ CheckBatch
    BY <1>2, <1>4 DEF AfterReplan, CapacityRestored, StepAt, FinishBatch, CheckBatch
  <1>5. CASE Verify \/ AfterRepair \/ LeaveLoop \/ \E v \in Verdicts : Verdict(v)
    BY <1>2, <1>5 DEF Verify, StepAt, AfterRepair, LeaveLoop, Verdict
  <1>6. ASSUME NEW rec \in Recommends, Repair(rec) PROVE Goal
    BY <1>2, <1>6 DEF Repair
  <1>7. CASE Plan
    BY <1>1, <1>7 DEF Plan, DriverAt, Driver
  <1>8. CASE BeginPass
    BY <1>1, <1>2, <1>8 DEF BeginPass, StepAt, DriverAt, Driver
  <1>9. CASE RunPass
    BY <1>9 DEF RunPass, engineVars
  <1>10. CASE FinishPass
    <2>1. ~drv'.cancel
      BY <1>1, <1>10 DEF FinishPass, Driver
    <2> QED BY <1>10, <2>1 DEF FinishPass
  <1>11. CASE Wake
    <2>1. ~drv'.cancel
      BY <1>1, <1>11 DEF Wake, Driver
    <2> QED BY <1>11, <2>1 DEF Wake, schedVars
  <1>12. ASSUME NEW w \in drv.batch, CollectResult(w) \/ RepairVerdict(w) \/ RepairRefused(w)
         PROVE  Goal
    <2>1. drv.pc \notin {"pass", "wait"} /\ UNCHANGED <<pass, ctl>>
      BY <1>12 DEF CollectResult, RepairVerdict, RepairRefused, TakeResult, DriverAt
    <2>2. drv'.cancel = drv.cancel
      BY <1>1, <1>12 DEF CollectResult, RepairVerdict, RepairRefused, Driver
    <2> QED BY <2>1, <2>2
  <1>13. ASSUME NEW w \in drv.batch, RepairRaises(w) PROVE Goal
    BY <1>2, <1>13 DEF RepairRaises
  <1>14. CASE RunEnds
    BY <1>1, <1>14 DEF RunEnds, schedVars, Driver
  <1>15. ~(DriverInterrupted \/ DriverSwallows \/ DrainInterrupted)
    BY DEF DriverInterrupted, DriverSwallows, DrainInterrupted
  <1> QED BY <1>3, <1>4, <1>5, <1>6, <1>7, <1>8, <1>9, <1>10, <1>11, <1>12, <1>13, <1>14,
             <1>15 DEF DriverStep

\* Workers new before or after a step of the driver.
LEMMA DriverTracks ==
    ASSUME WorkersInv, FreedInv, DriverStep PROVE NewAreTracked'
  <1>1. WorkersOK /\ drv \in Driver /\ pass \in PassRecord
    BY DEF WorkersInv, TypeOK, SchedTypeOK, WorkersOK
  <1>2. CASE RunPass
    <2>1. UNCHANGED drv /\ drv.pc = "pass"
      BY <1>2 DEF RunPass, engineVars, DriverAt
    <2>2. CASE UNCHANGED worker /\ UNCHANGED pass.launched
      BY <2>1, <2>2 DEF FreedInv, NewAreTracked
    <2>3. ASSUME NEW w \in WorkerId, PassLaunch(w) PROVE NewAreTracked'
      <3>1. /\ worker'[w].pc = "new" /\ ~worker'[w].cancel
            /\ \A v \in WorkerId : v # w => worker'[v] = worker[v]
        BY <1>1, <2>3 DEF PassLaunch, WorkersOK, NoWorker
      <3>2. pass'.launched = pass.launched \cup {w}
        BY <1>1, <2>3 DEF PassLaunch, PassRecord
      <3> QED BY <2>1, <3>1, <3>2 DEF FreedInv, NewAreTracked
    <2>4. ASSUME PassResume \/ \E t, S : PassAssign(t, S) \/ PassReroute(t, S)
          PROVE  UNCHANGED worker /\ UNCHANGED pass.launched
      BY <1>1, <2>4 DEF PassResume, PassAssign, PassReroute, Acquire, PassRecord
    <2> QED BY <1>2, <2>2, <2>3, <2>4 DEF RunPass, PassStep
  <1>3. CASE FinishPass
    <2>1. UNCHANGED worker /\ drv.pc = "pass"
      BY <1>3 DEF FinishPass, PassEnd, DriverAt
    <2>2. pass.launched # {} => drv'.pc = "wait" /\ pass.launched \subseteq drv'.waiting
      BY <1>1, <1>3 DEF FinishPass, Driver
    <2> QED BY <2>1, <2>2 DEF FreedInv, NewAreTracked
  <1>4. CASE Wake
    <2>1. UNCHANGED worker /\ drv.pc = "wait" /\ \A w \in drv.waiting : worker[w].pc # "new"
      BY <1>4 DEF Wake, DriverAt, schedVars
    <2> QED BY <2>1 DEF FreedInv, NewAreTracked
  <1>5. CASE drv.pc \notin {"pass", "wait"}
    <2>1. /\ \A w \in WorkerId : worker[w].pc # "new"
          /\ ~RunPass /\ ~FinishPass
      BY <1>5 DEF RunPass, FinishPass, DriverAt, FreedInv, NewAreTracked
    <2>2. PassBegin \/ Calm
      BY <2>1, DriverCalm
    <2>3. \A w \in WorkerId : worker'[w].pc # "new"
      BY <2>1, <2>2 DEF PassBegin, Calm, Quiet
    <2> QED BY <2>3 DEF NewAreTracked
  <1> QED BY <1>2, <1>3, <1>4, <1>5, DriverUnstopped DEF FreedInv

\* A worker that steps is not new any more.
LEMMA WorkerTracks ==
    ASSUME WorkersInv, FreedInv, NEW w \in WorkerId, WorkerStep(w), UNCHANGED engineVars
    PROVE  NewAreTracked'
  <1>1. WorkersOK
    BY DEF WorkersInv, TypeOK, SchedTypeOK, WorkersOK
  <1>2. UNCHANGED <<pass, drv>> /\ \A v \in WorkerId : v # w => worker'[v] = worker[v]
    BY <1>1 DEF WorkerStep, WorkerBegin, WorkerNeverRan, WorkerSucceeds, WorkerFails,
           WorkerProviderFails, WorkerReroutes, WorkerSettles, WorkerInterrupted,
           WorkerUnwinds, Move, Finish, WorkersOK, engineVars
  <1>3. worker'[w].pc # "new"
    BY <1>1 DEF WorkerStep, WorkerBegin, WorkerNeverRan, WorkerSucceeds, WorkerFails,
           WorkerProviderFails, WorkerReroutes, WorkerSettles, WorkerInterrupted,
           WorkerUnwinds, Move, Finish, WorkersOK, WorkerRecord
  <1> QED BY <1>2, <1>3 DEF FreedInv, NewAreTracked

\* A mark goes with the worker or the start it is for.
LEMMA OwnersKept ==
    ASSUME FreedInv, running' \subseteq running,
           \A w \in WorkerId : Live(w) /\ w[1] \in running' => Live(w)',
           UNCHANGED pass \/ pass.pc # "start"
    PROVE  \A t \in running' : Owned(t)'
  BY DEF FreedInv, Owned

LEMMA WorkerOwners ==
    ASSUME WorkersInv, FreedInv, NEW w \in WorkerId, WorkerStep(w), ~WorkerNeverRan(w)
    PROVE  \A t \in running' : Owned(t)'
  <1>1. WorkersOK /\ WorkInv
    BY DEF WorkersInv, TypeOK, SchedTypeOK, WorkersOK
  <1>2. UNCHANGED pass /\ \A v \in WorkerId : v # w => worker'[v] = worker[v]
    BY <1>1 DEF WorkerStep, WorkerBegin, WorkerNeverRan, WorkerSucceeds, WorkerFails,
           WorkerProviderFails, WorkerReroutes, WorkerSettles, WorkerInterrupted,
           WorkerUnwinds, Move, Finish, WorkersOK
  <1>3. \/ running' = running \ {w[1]}
        \/ running' = running /\ Live(w)'
    BY <1>1 DEF WorkerStep, WorkerBegin, WorkerSucceeds, WorkerFails,
           WorkerProviderFails, WorkerReroutes, WorkerSettles, WorkerInterrupted,
           WorkerUnwinds, Move, Finish, WorkersOK, WorkerRecord, Live
  <1>4. \A v \in WorkerId : Live(v) /\ v[1] \in running' => Live(v)'
    BY <1>2, <1>3 DEF Live
  <1> QED BY <1>2, <1>3, <1>4, OwnersKept

LEMMA PassOwners ==
    ASSUME WorkersInv, FreedInv, PassBegin \/ PassStep \/ PassEnd
    PROVE  \A t \in running' : Owned(t)'
  <1>1. WorkersOK /\ pass \in PassRecord
    BY DEF WorkersInv, TypeOK, SchedTypeOK, WorkersOK
  <1>2. ASSUME UNCHANGED <<running, worker>>, pass.pc # "start"
        PROVE  \A t \in running' : Owned(t)'
    BY <1>2, OwnersKept DEF Live
  <1>3. CASE PassBegin \/ PassEnd
    BY <1>2, <1>3 DEF PassBegin, PassEnd
  <1>4. ASSUME NEW g, NEW t, NEW a, NEW S, Acquire(g, t, a, S), pass.pc # "start", UNCHANGED worker
        PROVE  \A u \in running' : Owned(u)'
    <2>1. running' = running \cup {t} /\ pass'.pc = "start" /\ pass'.task = t
      BY <1>1, <1>4 DEF Acquire, PassRecord
    <2> QED BY <1>4, <2>1 DEF FreedInv, Owned, Live
  <1>5. CASE PassResume
    BY <1>4, <1>5 DEF PassResume
  <1>6. ASSUME NEW t, NEW S, PassAssign(t, S) PROVE \A u \in running' : Owned(u)'
    BY <1>4, <1>6 DEF PassAssign, Picks
  <1>7. ASSUME NEW t, NEW S, PassReroute(t, S) PROVE \A u \in running' : Owned(u)'
    BY <1>2, <1>7 DEF PassReroute, Picks
  <1>8. ASSUME NEW w \in WorkerId, PassLaunch(w) PROVE \A u \in running' : Owned(u)'
    <2>1. /\ worker'[w].pc = "new" /\ w[1] = pass.task /\ ~Live(w) /\ UNCHANGED running
          /\ \A v \in WorkerId : v # w => worker'[v] = worker[v]
      BY <1>1, <1>8 DEF PassLaunch, WorkersOK, NoWorker, Live
    <2>2. \A v \in WorkerId : Live(v) \/ v = w => Live(v)'
      BY <2>1 DEF Live
    <2> QED BY <2>1, <2>2 DEF FreedInv, Owned
  <1> QED BY <1>3, <1>5, <1>6, <1>7, <1>8 DEF PassStep

\* Where no controller may act, none does.
LEMMA NobodyControls == ASSUME Controls = {}, ctl.pc = "idle" PROVE ~ControlStep
  BY DEF ControlStep, CancelJob, CancelTask, CancelWorkers, CancelAcknowledged, FenceEngine,
         FenceSettles, StopDriver

LEMMA NextFreed ==
    ASSUME Controls = {}
    PROVE  WorkersInv /\ LimitInv /\ FreedInv /\ [Next]_vars => FreedInv'
  <1> SUFFICES ASSUME WorkersInv, LimitInv, FreedInv, [Next]_vars,
                      WorkersInv', LimitInv'
               PROVE  FreedInv'
    BY NextInv, NextLimit
  <1>1. ctl.pc = "idle" /\ ~drv.cancel
    BY DEF FreedInv
  <1>2. Covered /\ \A a \in Actor : Held(a) \in Nat /\ busy[a] \in Nat
    BY HoldersFinite DEF Covered, FreedInv, WorkersInv, TypeOK, SchedTypeOK
  <1>3. \A a \in Actor : Held(a)' \in Nat /\ busy'[a] \in Nat
    <2>1. HeldCounted'
      BY HeldIsCounted, PTL DEF WorkersInv
    <2> QED BY <2>1 DEF HeldCounted, WorkersInv, TypeOK, SchedTypeOK
  <1>4. ASSUME Balanced, ctl'.pc = "idle" /\ ~drv'.cancel, NewAreTracked',
               \A t \in running' : Owned(t)'
        PROVE  FreedInv'
    <2>1. \A a \in Actor : busy'[a] = Held(a)'
      BY <1>2, <1>3, <1>4 DEF FreedInv, Balanced
    <2> QED BY <1>4, <2>1 DEF FreedInv
  <1>5. CASE DriverStep
    <2>1. ctl'.pc = "idle" /\ ~drv'.cancel
      BY <1>1, <1>5, DriverUnstopped
    <2>2. NewAreTracked'
      BY <1>5, DriverTracks
    <2>3. PassBegin \/ PassStep \/ PassEnd \/ (Calm /\ UNCHANGED pass)
      BY <1>1, <1>5, DriverPasses, DriverUnstopped
    <2>4. CASE PassBegin \/ PassStep \/ PassEnd
      BY <1>4, <2>1, <2>2, <2>4, PassSlots, PassOwners
    <2>5. CASE Calm /\ UNCHANGED pass
      <3>1. Balanced
        BY <2>5, QuietHolders, SameHolders DEF WorkersInv, Calm
      <3>2. \A t \in running' : Owned(t)'
        BY <2>5, OwnersKept DEF Calm, Quiet, Live, Done
      <3> QED BY <1>4, <2>1, <2>2, <3>1, <3>2
    <2> QED BY <2>3, <2>4, <2>5
  <1>6. ~ControlStep
    BY <1>1, NobodyControls
  <1>7. ASSUME NEW w \in WorkerId, RunWorker(w) PROVE FreedInv'
    <2>1. WorkerStep(w) /\ UNCHANGED engineVars
      BY <1>7 DEF RunWorker
    <2>2. ~WorkerNeverRan(w)
      BY DEF WorkerNeverRan, FreedInv, NewAreTracked
    <2>3. Balanced
      BY <1>2, <2>1, <2>2, WorkerSlots
    <2>4. ctl'.pc = "idle" /\ ~drv'.cancel
      BY <1>1, <2>1 DEF engineVars
    <2> QED BY <1>4, <2>1, <2>2, <2>3, <2>4, WorkerTracks, WorkerOwners
  <1>8. CASE EnvStep \/ Ended \/ UNCHANGED vars
    <2>1. UNCHANGED <<running, busy, pass, worker, drv, ctl>>
      BY <1>8 DEF EnvStep, HealthChanges, Ended, vars, schedVars, engineVars
    <2>2. \A a \in Actor : Held(a)' = Held(a)
      BY <2>1 DEF Held, Holders, Starting, Live
    <2>3. \A t \in running' : Owned(t)'
      BY <2>1 DEF Owned, FreedInv, Live
    <2> QED BY <2>1, <2>2, <2>3 DEF FreedInv, NewAreTracked
  <1> QED BY <1>5, <1>6, <1>7, <1>8 DEF Next

\* Where nobody cancels, fences or stops the job, every slot and every running
\* mark belongs to a worker alive or to the one being started: nothing is lost
\* on the way through reroutes, retries and failures.
THEOREM EngineSlotsFreed ==
    ASSUME Controls = {}
    PROVE  Spec => []SlotsFreed
  <1>1. Init => FreedInv
    <2> SUFFICES ASSUME Init PROVE FreedInv
      OBVIOUS
    <2>1. \A a \in Actor : Holders(a) = {} /\ Starting(a) = 0 /\ busy[a] = 0
      BY DEF Init, SchedInit, Holders, Starting, Live, NoWorker, IdlePass
    <2>2. \A a \in Actor : busy[a] = Held(a)
      BY <2>1, FS_EmptySet DEF Held
    <2> QED BY <2>2 DEF Init, SchedInit, FreedInv, NewAreTracked, NoWorker
  <1>2. FreedInv => SlotsFreed
    BY DEF FreedInv, SlotsFreed, Held, Owned
  <1> QED BY <1>1, <1>2, InitLimit, NextLimit, InitInv, NextInv, NextFreed, PTL DEF Spec
=============================================================================
