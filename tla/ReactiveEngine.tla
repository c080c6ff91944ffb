---------------------------- MODULE ReactiveEngine ----------------------------
(***************************************************************************)
(* ReactiveJobEngine (runtime/engine.py): the coroutine that drives one    *)
(* job (run_until_complete and step), with the coroutines that may act on  *)
(* the same engine while the driver is suspended: the workers and the      *)
(* dispatch pass of Scheduler, and one controller, which cancels the job,  *)
(* fences the engine after its lease was lost, or stops the driver.        *)
(***************************************************************************)
EXTENDS Scheduler

CONSTANTS InitialDeps,     \* the initial plan: tasks and their dependencies
          MaxReplans, MaxRepairs, MaxTasks,   \* RuntimeLimits
          HasPlanner,      \* a planner is configured
          VerdictRepairs,  \* planner.repairs_failed_verdicts
          Verdicts,        \* what the final verification may answer
          Recommends,      \* whether it may come with repair recommendations
          HealthEvents,    \* what actors may become on their own
          Controls         \* which controllers may act

ASSUME EngineAssumption ==
    /\ InitialDeps \in [DOMAIN InitialDeps -> SUBSET Task]
    /\ DOMAIN InitialDeps \subseteq Task
    /\ Cardinality(DOMAIN InitialDeps) <= MaxTasks
    /\ MaxReplans \in Nat /\ MaxRepairs \in Nat /\ MaxTasks \in Nat
    /\ HasPlanner \in BOOLEAN /\ VerdictRepairs \in BOOLEAN
    /\ Verdicts \subseteq {"pass", "env", "repairable", "hard"}
    /\ Recommends \subseteq BOOLEAN
    /\ HealthEvents \subseteq Health
    /\ Controls \subseteq {"cancel", "fence", "stop"}

VARIABLES job,       \* JobRecord.state
          replans,   \* replan_count
          repairs,   \* repair_count
          unproven,  \* tasks with metadata["had_unproven"]
          active,    \* _active_async_tasks
          fenced,    \* _fenced
          drv,       \* the driver coroutine
          ctl        \* the controller coroutine

engineVars == <<job, replans, repairs, unproven, active, fenced, drv, ctl>>
vars == <<schedVars, engineVars>>

Terminal == {"COMPLETED", "BLOCKED", "FAILED", "CANCELLED"}

\* LEGAL_JOB_TRANSITIONS
Legal ==
    [CREATED              |-> {"PLANNING", "CANCELLED", "FAILED"},
     PLANNING             |-> {"EXECUTING", "WAITING_FOR_CAPACITY", "BLOCKED", "FAILED",
                               "CANCELLED"},
     EXECUTING            |-> {"VERIFYING", "PLANNING", "WAITING_FOR_CAPACITY", "REPAIRING",
                               "BLOCKED", "FAILED", "CANCELLED"},
     WAITING_FOR_CAPACITY |-> {"EXECUTING", "PLANNING", "BLOCKED", "FAILED", "CANCELLED"},
     VERIFYING            |-> {"COMPLETED", "REPAIRING", "WAITING_FOR_CAPACITY", "BLOCKED",
                               "FAILED", "CANCELLED"},
     REPAIRING            |-> {"EXECUTING", "PLANNING", "WAITING_FOR_CAPACITY", "BLOCKED",
                               "FAILED", "CANCELLED"},
     COMPLETED |-> {}, BLOCKED |-> {}, FAILED |-> {}, CANCELLED |-> {}]

JobState == DOMAIN Legal

\* The driver is suspended at an await, except at the SyncPc points, which
\* split one synchronous stretch of code into readable actions: there, and
\* while the dispatch loop picks a task, no other coroutine runs.
SyncPc == {"again", "check", "request"}
AwaitPc == {"step", "plan", "planned", "pass", "wait", "collect", "batch", "planner", "applied",
            "refused", "returned", "verify", "repair", "repaired", "exit"}

Driver ==
    [pc       : SyncPc \cup AwaitPc \cup {"drain", "unwind", "ended"},
     why      : {"none", "discovery", "failure", "stalled", "repair"},  \* ReplanReason
     waiting  : SUBSET WorkerId,   \* the argument of asyncio.wait
     batch    : SUBSET WorkerId,   \* finished workers not yet looked at
     block    : BOOLEAN,           \* the batch holds a reason to block the job
     discover : SUBSET Task,       \* tasks whose observations want follow-up
     continue : BOOLEAN,           \* should_continue of the last plan
     drain    : SUBSET WorkerId,   \* the argument of asyncio.gather
     cancel   : BOOLEAN]           \* the driver's task.cancel() was called

Controller ==
    [pc    : {"idle", "persist", "mark", "drain", "acked"},
     kind  : {"none", "cancel", "fence", "stop"},
     todo  : SUBSET Task,
     drain : SUBSET WorkerId]

Init ==
    /\ SchedInit([t \in {} |-> NewNode({})])
    /\ job = "CREATED"
    /\ replans = 0 /\ repairs = 0
    /\ unproven = {}
    /\ active = {}
    /\ fenced = FALSE
    /\ drv = [pc |-> "step", why |-> "none", waiting |-> {}, batch |-> {}, block |-> FALSE,
              discover |-> {}, continue |-> FALSE, drain |-> {}, cancel |-> FALSE]
    /\ ctl = [pc |-> "idle", kind |-> "none", todo |-> {}, drain |-> {}]

\* A result is handled after its observations are persisted; the result of a
\* cancelled worker is passed over without an await.
AtAwait == /\ drv.pc \notin SyncPc
           /\ ~(drv.pc = "pass" /\ pass.pc = "pick")
           /\ drv.pc = "collect" => \E w \in drv.batch : worker[w].result # "cancelled"

\* The driver goes on from pc, unless it is resumed by a cancellation.
DriverAt(pc) == drv.pc = pc /\ ~drv.cancel

----------------------------------------------------------------------------
(* Job transitions *)

CanEnter(s) == s = job \/ s \in Legal[job]

\* JobRecord.transition_to with the counters it keeps.
Enter(s) ==
    /\ job' = s
    /\ replans' = IF s = "PLANNING" /\ job \in {"EXECUTING", "REPAIRING"}
                  THEN replans + 1 ELSE replans
    /\ repairs' = IF s = "REPAIRING" /\ job # s THEN repairs + 1 ELSE repairs

KeepJob == UNCHANGED <<job, replans, repairs>>

Unfinished(S) == {w \in S : ~Done(w)}

\* _cancel_active_tasks up to its await: who cancels waits for pending.
CancelActive ==
    /\ worker' = [w \in WorkerId |->
                    IF w \in Unfinished(active) THEN [worker[w] EXCEPT !.cancel = TRUE]
                                                ELSE worker[w]]
    /\ active' = {}

\* The run is over: run_until_complete drains what the engine still tracks.
EndRun(pc) ==
    /\ CancelActive
    /\ drv' = [drv EXCEPT !.pc = pc, !.drain = Unfinished(active), !.cancel = FALSE]

\* _transition_job in the driver: an illegal one raises and ends the run.
DriverTo(s, pc) ==
    IF CanEnter(s)
    THEN /\ Enter(s)
         /\ drv' = [drv EXCEPT !.pc = pc]
         /\ UNCHANGED <<worker, active>>
    ELSE KeepJob /\ EndRun("drain")

Continue(pc) ==
    /\ drv' = [drv EXCEPT !.pc = pc]
    /\ KeepJob
    /\ UNCHANGED <<worker, active>>

Ask(why) ==
    /\ drv' = [drv EXCEPT !.pc = "request", !.why = why]
    /\ KeepJob
    /\ UNCHANGED <<worker, active>>

----------------------------------------------------------------------------
(* Planning *)

\* Identifiers the planner and the repair loop have not used yet.
Fresh(checks) == {t \in Task \ DOMAIN graph : (t \in Verifier) = checks}

HasRoom(n) == Cardinality(DOMAIN graph) + n <= MaxTasks

\* apply_mutations of a plan that only adds: tasks beyond the limit are skipped.
AddAll(nodes) ==
    \E kept \in SUBSET DOMAIN nodes :
       /\ HasRoom(Cardinality(kept)) \/ kept = {}
       /\ kept # DOMAIN nodes => ~HasRoom(Cardinality(kept) + 1)
       /\ graph' = [t \in DOMAIN graph \cup kept |->
                       IF t \in kept THEN nodes[t] ELSE graph[t]]

StartPlanning ==
    /\ DriverAt("step") /\ job = "CREATED" /\ ~fenced
    /\ DriverTo("PLANNING", "plan")
    /\ UNCHANGED <<graph, running, busy, health, pass, unproven, fenced, ctl>>

\* initialize_and_plan: the planner may come back with nothing.
InitialPlan ==
    /\ DriverAt("plan")
    /\ \/ UNCHANGED graph
       \/ graph' = [t \in DOMAIN InitialDeps |-> NewNode(InitialDeps[t])]
    /\ Continue("planned")
    /\ UNCHANGED <<running, busy, health, pass, unproven, fenced, ctl>>

FinishPlanning ==
    /\ DriverAt("planned")
    /\ DriverTo(IF DOMAIN graph = {} THEN "BLOCKED" ELSE "EXECUTING", "step")
    /\ UNCHANGED <<graph, running, busy, health, pass, unproven, fenced, ctl>>

\* request_replan, its early returns first.
RequestReplan ==
    /\ DriverAt("request")
    /\ \/ replans >= MaxReplans /\ DriverTo("BLOCKED", "refused")
       \/ replans < MaxReplans /\ ~HasPlanner /\ Continue("refused")
       \/ /\ replans < MaxReplans /\ HasPlanner
          /\ IF "PLANNING" \in Legal[job] THEN DriverTo("PLANNING", "planner")
                                          ELSE Continue("planner")
    /\ UNCHANGED <<graph, running, busy, health, pass, unproven, fenced, ctl>>

Exhausted == {t \in WithStatus(graph, {"FAILED"}) : graph[t].attempt >= MaxAttempts}

\* The exhausted tasks superseded by fix, and the copies of those kept.
WithCopies(fix, kept) ==
    [t \in DOMAIN graph \cup {fix[u] : u \in kept} |->
        IF t \in Exhausted THEN SupersedeTask(graph, t, fix[t])[t]
        ELSE IF t \in DOMAIN graph THEN graph[t]
        ELSE LET u == CHOOSE u \in kept : fix[u] = t
             IN [NewNode(graph[u].deps) EXCEPT !.actor = graph[u].actor]]

\* Each exhausted task is superseded by a copy of it, also when the copy was
\* not added because the graph is full.
PlanFailure ==
    \E fix \in [Exhausted -> Task \ DOMAIN graph] :
       /\ \A t \in Exhausted : (fix[t] \in Verifier) = (t \in Verifier)
       /\ \A t, u \in Exhausted : fix[t] = fix[u] => t = u
       /\ \E kept \in SUBSET Exhausted :
            /\ HasRoom(Cardinality(kept)) \/ kept = {}
            /\ kept # Exhausted => ~HasRoom(Cardinality(kept) + 1)
            /\ graph' = WithCopies(fix, kept)

\* A follow-up task depends on the task whose observation asked for it.
PlanDiscovery(asked) ==
    \E new \in [asked -> Fresh(FALSE)] :
       /\ \A t, u \in asked : new[t] = new[u] => t = u
       /\ AddAll([n \in {new[t] : t \in asked} |-> NewNode({t \in asked : new[t] = n})])

PlanRepair == \E n \in Fresh(FALSE) : AddAll([t \in {n} |-> NewNode({})])

\* ProductionPlannerAdapter.plan, then apply_mutations.  Only some kinds of
\* observations are expanded, whatever their flag says.
Plan ==
    /\ DriverAt("planner")
    /\ \E asked \in SUBSET drv.discover :
         LET mutates == \/ drv.why = "failure" /\ Exhausted # {}
                        \/ drv.why = "discovery" /\ replans < MaxReplans /\ asked # {}
                        \/ drv.why = "repair"
         IN /\ \/ ~mutates /\ UNCHANGED graph
               \/ mutates /\ drv.why = "failure" /\ PlanFailure
               \/ mutates /\ drv.why = "discovery" /\ PlanDiscovery(asked)
               \/ mutates /\ drv.why = "repair" /\ PlanRepair
            /\ drv' = [drv EXCEPT !.pc = "applied", !.continue = mutates, !.discover = {}]
    /\ UNCHANGED <<job, replans, repairs, active, worker>>
    /\ UNCHANGED <<running, busy, health, pass, unproven, fenced, ctl>>

ConcludeReplan ==
    /\ DriverAt("applied")
    /\ LET noProgress == ~drv.continue \/ (~HasActiveTasks(graph) /\ ~AllCompleted(graph))
       IN IF noProgress /\ drv.why # "discovery" THEN DriverTo("BLOCKED", "refused")
          ELSE IF "EXECUTING" \in Legal[job] THEN DriverTo("EXECUTING", "returned")
          ELSE Continue("returned")
    /\ UNCHANGED <<graph, running, busy, health, pass, unproven, fenced, ctl>>

\* Back in the caller of request_replan.
AfterReplan ==
    /\ DriverAt("refused") \/ DriverAt("returned")
    /\ \/ drv.why = "discovery" /\ Continue(IF job \in Terminal THEN "exit" ELSE "check")
       \/ drv.why = "repair" /\ IF job \in Terminal THEN Continue("exit")
                                                     ELSE DriverTo("EXECUTING", "step")
       \/ /\ drv.why \in {"failure", "stalled"}
          /\ IF drv.pc = "refused" /\ job \notin Terminal THEN DriverTo("BLOCKED", "step")
                                                          ELSE Continue("again")
    /\ UNCHANGED <<graph, running, busy, health, pass, unproven, fenced, ctl>>

----------------------------------------------------------------------------
(* EXECUTING and WAITING_FOR_CAPACITY *)

\* Mutant of StepAt: step does not look at _fenced.
StepAtAnyway(state) == (DriverAt("step") \/ DriverAt("again")) /\ job = state

StepAt(state) ==
    /\ DriverAt("step") \/ DriverAt("again")
    /\ job = state
    /\ ~fenced

BeginPass ==
    /\ StepAt("EXECUTING")
    /\ \/ /\ AllCompleted(graph)
          /\ DriverTo("VERIFYING", "step")
          /\ UNCHANGED <<graph, running, busy, health, pass>>
       \/ /\ ~AllCompleted(graph)
          /\ PassBegin
          /\ drv' = [drv EXCEPT !.pc = "pass"]
          /\ UNCHANGED <<job, replans, repairs, active>>
    /\ UNCHANGED <<unproven, fenced, ctl>>

RunPass ==
    /\ DriverAt("pass")
    /\ PassStep
    /\ UNCHANGED engineVars

\* Some ready task only lacks a free or healthy actor.
DeferredForCapacity == \E t \in ReadyTasks(graph) : Incapable \notin Match(t, {})

FinishPass ==
    /\ DriverAt("pass")
    /\ PassEnd
    /\ LET tracked == active \cup pass.launched
       IN IF tracked # {}
          THEN /\ active' = tracked
               /\ drv' = [drv EXCEPT !.pc = "wait", !.waiting = tracked]
               /\ KeepJob
          ELSE /\ IF ~DeferredForCapacity
                  THEN KeepJob /\ drv' = [drv EXCEPT !.pc = "check"]
                  ELSE IF CanEnter("WAITING_FOR_CAPACITY")
                  THEN Enter("WAITING_FOR_CAPACITY") /\ drv' = [drv EXCEPT !.pc = "step"]
                  ELSE KeepJob /\ drv' = [drv EXCEPT !.pc = "drain", !.drain = {}]
               /\ UNCHANGED active
    /\ UNCHANGED <<unproven, fenced, ctl>>

\* The poll that finds an actor; the others sleep and change nothing.
CapacityRestored ==
    /\ StepAt("WAITING_FOR_CAPACITY")
    /\ \E t \in ReadyTasks(graph) : \E d \in Match(t, {}) : d.kind = "go"
    /\ DriverTo("EXECUTING", "step")
    /\ UNCHANGED <<graph, running, busy, health, pass, unproven, fenced, ctl>>

\* asyncio.wait(FIRST_COMPLETED) returns what is done by the time it resumes.
\* Workers take their first step before that: the loop's queue is FIFO.
Wake ==
    /\ DriverAt("wait")
    /\ \A w \in drv.waiting : worker[w].pc # "new"
    /\ LET done == {w \in drv.waiting : Done(w)}
       IN /\ done # {}
          /\ active' = drv.waiting \ done
          /\ drv' = [drv EXCEPT !.pc = "collect", !.waiting = {}, !.batch = done,
                                !.block = FALSE, !.discover = {}]
    /\ KeepJob
    /\ UNCHANGED <<schedVars, unproven, fenced, ctl>>

\* One result of the batch is handled, its observations having been persisted.
TakeResult(w) ==
    /\ DriverAt("collect") \/ DriverAt("batch")
    /\ w \in drv.batch
    /\ worker' = [worker EXCEPT ![w] = NoWorker]

\* The repair loop takes the result instead of the default handling.
ForRepair(w) == worker[w].result = "verdict" /\ VerdictRepairs /\ HasPlanner

CollectResult(w) ==
    LET t == w[1]
        r == worker[w].result
    IN /\ TakeResult(w)
       /\ ~ForRepair(w)
       /\ drv' = [drv EXCEPT
             !.pc       = "collect",
             !.batch    = @ \ {w},
             !.block    = @ \/ r = "env" \/ (r = "unproven" /\ t \in unproven),
             !.discover = IF r \in {"discover", "redo"} THEN @ \cup {t} ELSE @]
       /\ unproven' = IF r = "unproven" THEN unproven \cup {t} ELSE unproven
       /\ KeepJob
       /\ UNCHANGED <<graph, running, busy, health, pass, active, fenced, ctl>>

\* The check replaces an earlier one that failed.
IsRecheck(t) == \E u \in WithStatus(graph, {"SUPERSEDED"}) : graph[u].by = t

\* _repair_failed_verdict when the findings did not shrink, or the budget is
\* spent: the job is BLOCKED, or the transition raises and the run ends.
RepairRefused(w) ==
    /\ TakeResult(w)
    /\ ForRepair(w)
    /\ IsRecheck(w[1]) \/ repairs >= MaxRepairs
    /\ CanEnter("BLOCKED")
    /\ Enter("BLOCKED")
    /\ drv' = [drv EXCEPT !.pc = "batch", !.batch = @ \ {w}]
    /\ UNCHANGED <<graph, running, busy, health, pass, unproven, active, fenced, ctl>>

RepairRaises(w) ==
    /\ DriverAt("collect") \/ DriverAt("batch")
    /\ w \in drv.batch
    /\ ForRepair(w)
    /\ IsRecheck(w[1]) \/ repairs >= MaxRepairs
    /\ ~CanEnter("BLOCKED")
    /\ EndRun("drain")
    /\ KeepJob
    /\ UNCHANGED <<graph, running, busy, health, pass, unproven, fenced, ctl>>

\* Mutants of RepairVerdict: the repair budget is not consulted; the fresh
\* check is not added.
RepairBeyondBudget(w) ==
    LET t == w[1]
    IN /\ TakeResult(w)
       /\ ForRepair(w)
       /\ repairs' = repairs + 1
       /\ \E repair \in Fresh(FALSE), recheck \in Fresh(TRUE) :
             graph' = SupersedeTask(AddTask(AddTask(graph, repair, NewNode({})),
                                            recheck, NewNode({repair})), t, recheck)
       /\ drv' = [drv EXCEPT !.pc = "batch", !.batch = @ \ {w}]
       /\ UNCHANGED <<job, replans, running, busy, health, pass, unproven, active, fenced, ctl>>
RepairWithoutRecheck(w) ==
    LET t == w[1]
    IN /\ TakeResult(w)
       /\ ForRepair(w)
       /\ repairs < MaxRepairs
       /\ repairs' = repairs + 1
       /\ \E repair \in Fresh(FALSE), recheck \in Fresh(TRUE) :
             graph' = SupersedeTask(AddTask(graph, repair, NewNode({})), t, recheck)
       /\ drv' = [drv EXCEPT !.pc = "batch", !.batch = @ \ {w}]
       /\ UNCHANGED <<job, replans, running, busy, health, pass, unproven, active, fenced, ctl>>

\* A repair task, a fresh check behind it, and the failed check superseded by
\* the fresh one.  max_tasks_per_job is not consulted.
RepairVerdict(w) ==
    LET t == w[1]
    IN /\ TakeResult(w)
       /\ ForRepair(w)
       /\ repairs < MaxRepairs
       /\ repairs' = repairs + 1
       /\ \E repair \in Fresh(FALSE), recheck \in Fresh(TRUE) :
             LET checkNode == [NewNode({repair}) EXCEPT !.actor = graph[t].actor]
                 both == AddTask(AddTask(graph, repair, NewNode({})), recheck, checkNode)
             IN graph' = SupersedeTask(both, t, recheck)
       /\ drv' = [drv EXCEPT !.pc = "batch", !.batch = @ \ {w}]
       /\ UNCHANGED <<job, replans, running, busy, health, pass, unproven, active, fenced, ctl>>

FinishBatch ==
    /\ DriverAt("collect") \/ DriverAt("batch")
    /\ drv.batch = {}
    /\ IF drv.block THEN DriverTo("BLOCKED", "exit")
       ELSE IF drv.discover # {} THEN Ask("discovery")
       ELSE Continue("check")
    /\ UNCHANGED <<graph, running, busy, health, pass, unproven, fenced, ctl>>

\* What step decides once the batch is dealt with.
CheckBatch ==
    /\ DriverAt("check")
    /\ IF job \in Terminal THEN Continue("exit")
       ELSE IF AllCompleted(graph) THEN DriverTo("VERIFYING", "step")
       ELSE IF WithStatus(graph, {"FAILED"}) # {} /\ ~HasRunningTasks(graph) THEN Ask("failure")
       ELSE IF IsStalled(graph) THEN Ask("stalled")
       ELSE Continue("again")
    /\ UNCHANGED <<graph, running, busy, health, pass, unproven, fenced, ctl>>

----------------------------------------------------------------------------
(* VERIFYING and REPAIRING *)

Verify ==
    /\ StepAt("VERIFYING")
    /\ Continue("verify")
    /\ UNCHANGED <<graph, running, busy, health, pass, unproven, fenced, ctl>>

Verdict(v) ==
    /\ DriverAt("verify")
    /\ \/ v = "pass" /\ DriverTo("COMPLETED", "exit")
       \/ v = "env"  /\ DriverTo("BLOCKED", "exit")
       \/ v = "hard" /\ DriverTo("FAILED", "exit")
       \/ v = "repairable" /\ repairs >= MaxRepairs /\ DriverTo("BLOCKED", "exit")
       \/ v = "repairable" /\ repairs < MaxRepairs /\ DriverTo("REPAIRING", "repair")
    /\ UNCHANGED <<graph, running, busy, health, pass, unproven, fenced, ctl>>

\* Recommended repairs, then the planner's or a default one.
Repair(recommended) ==
    /\ DriverAt("repair")
    /\ IF recommended \/ ~HasPlanner
       THEN \E n \in Fresh(FALSE) : graph' = AddTask(graph, n, NewNode({}))
       ELSE UNCHANGED graph
    /\ IF HasPlanner THEN Ask("repair") ELSE Continue("repaired")
    /\ UNCHANGED <<running, busy, health, pass, unproven, fenced, ctl>>

AfterRepair ==
    /\ DriverAt("repaired")
    /\ IF job \in Terminal THEN Continue("exit") ELSE DriverTo("EXECUTING", "step")
    /\ UNCHANGED <<graph, running, busy, health, pass, unproven, fenced, ctl>>

----------------------------------------------------------------------------
(* The end of run_until_complete, and the cancellation of the driver *)

\* step returned False, or the loop sees a terminal state.
LeaveLoop ==
    /\ \/ DriverAt("exit")
       \/ (DriverAt("step") \/ DriverAt("again")) /\ (job \in Terminal \/ fenced)
    /\ IF job \in Terminal THEN KeepJob /\ EndRun("drain") ELSE DriverTo("BLOCKED", "exit")
    /\ UNCHANGED <<graph, running, busy, health, pass, unproven, fenced, ctl>>

Drained(S) == \A w \in S : ~Live(w)

RunEnds ==
    /\ drv.pc = "drain" \/ drv.pc = "unwind"
    /\ ~drv.cancel
    /\ Drained(drv.drain)
    /\ IF drv.pc = "unwind" /\ job \notin Terminal THEN Enter("CANCELLED") ELSE KeepJob
    /\ drv' = [drv EXCEPT !.pc = "ended", !.drain = {}]
    /\ UNCHANGED <<schedVars, unproven, active, fenced, ctl>>

\* CancelledError at an await of the run: the locals are gone, and with them
\* the workers a dispatch pass had launched but not returned.
DriverInterrupted ==
    /\ drv.cancel /\ drv.pc \in AwaitPc \ {"collect", "batch"} /\ AtAwait
    /\ EndRun("unwind")
    /\ pass' = IdlePass
    /\ KeepJob
    /\ UNCHANGED <<graph, running, busy, health, unproven, fenced, ctl>>

\* A CancelledError raised while a result is processed is taken for one of
\* the worker's ("except asyncio.CancelledError: continue"): the loop goes on
\* with the next result, and what was left to do for this one is not done.
DriverSwallows ==
    /\ drv.cancel
    /\ \/ drv.pc = "batch" /\ UNCHANGED worker /\ drv' = [drv EXCEPT !.cancel = FALSE]
       \/ /\ drv.pc = "collect"
          /\ \E w \in drv.batch :
                /\ worker[w].result # "cancelled"
                /\ worker' = [worker EXCEPT ![w] = NoWorker]
                /\ drv' = [drv EXCEPT !.cancel = FALSE, !.batch = @ \ {w}]
    /\ KeepJob
    /\ UNCHANGED <<graph, running, busy, health, pass, unproven, active, fenced, ctl>>

\* Cancelled while draining, the run ends without waiting any longer.
DrainInterrupted ==
    /\ drv.cancel /\ drv.pc \in {"drain", "unwind"}
    /\ drv' = [drv EXCEPT !.pc = "ended", !.cancel = FALSE, !.drain = {}]
    /\ KeepJob
    /\ UNCHANGED <<schedVars, unproven, active, fenced, ctl>>

DriverStep ==
    \/ StartPlanning \/ InitialPlan \/ FinishPlanning
    \/ RequestReplan \/ Plan \/ ConcludeReplan \/ AfterReplan
    \/ BeginPass \/ RunPass \/ FinishPass \/ CapacityRestored
    \/ Wake \/ FinishBatch \/ CheckBatch
    \/ \E w \in drv.batch : \/ CollectResult(w) \/ RepairVerdict(w)
                            \/ RepairRefused(w) \/ RepairRaises(w)
    \/ Verify \/ AfterRepair
    \/ \E v \in Verdicts : Verdict(v)
    \/ \E rec \in Recommends : Repair(rec)
    \/ LeaveLoop \/ RunEnds
    \/ DriverInterrupted \/ DriverSwallows \/ DrainInterrupted

----------------------------------------------------------------------------
(* The controller *)

\* engine.cancel, milestone 1: the job is CANCELLED and that is persisted.
CancelJob ==
    /\ "cancel" \in Controls /\ ctl.pc = "idle"
    /\ job \notin Terminal
    /\ Enter("CANCELLED")
    /\ ctl' = [ctl EXCEPT !.pc = "persist", !.kind = "cancel"]
    /\ UNCHANGED <<schedVars, unproven, active, fenced, drv>>

\* Milestone 2 walks the tasks the graph holds when it begins.
CancelTodo == IF ctl.pc = "persist" THEN DOMAIN graph ELSE ctl.todo
Cancellable == CancelTodo \cap WithStatus(graph, {"RUNNING", "READY", "PENDING", "CANCELLED"})

CancelTask(t) ==
    /\ ctl.pc \in {"persist", "mark"}
    /\ t \in Cancellable
    /\ graph' = MarkCancelled(graph, t)
    /\ ctl' = [ctl EXCEPT !.pc = "mark", !.todo = CancelTodo \ {t}]
    /\ KeepJob
    /\ UNCHANGED <<running, busy, health, pass, worker, unproven, active, fenced, drv>>

\* Milestone 3: the workers the engine tracks are cancelled and awaited.
CancelWorkers ==
    /\ ctl.pc \in {"persist", "mark"}
    /\ Cancellable = {}
    /\ CancelActive
    /\ ctl' = [ctl EXCEPT !.pc = "drain", !.todo = {}, !.drain = Unfinished(active)]
    /\ KeepJob
    /\ UNCHANGED <<graph, running, busy, health, pass, unproven, fenced, drv>>

\* cancel returns; JobLauncher.cancel_async then cancels the driver's task.
CancelAcknowledged ==
    /\ ctl.pc = "drain" /\ ctl.kind = "cancel"
    /\ Drained(ctl.drain)
    /\ ctl' = [ctl EXCEPT !.pc = "acked", !.drain = {}]
    /\ drv' = [drv EXCEPT !.cancel = drv.pc # "ended"]
    /\ KeepJob
    /\ UNCHANGED <<schedVars, unproven, active, fenced>>

\* Mutant of Blocked: the terminal states are not spared.
BlockedAnyway == Enter("BLOCKED")

Blocked == IF job \notin Terminal /\ CanEnter("BLOCKED") THEN Enter("BLOCKED") ELSE KeepJob

\* engine.fence, called by the lease's heartbeat.
FenceEngine ==
    /\ "fence" \in Controls /\ ctl.pc = "idle" /\ drv.pc # "ended"
    /\ fenced' = TRUE
    /\ CancelActive
    /\ IF Unfinished(active) = {}
       THEN Blocked /\ ctl' = [ctl EXCEPT !.pc = "acked", !.kind = "fence"]
       ELSE KeepJob /\ ctl' = [ctl EXCEPT !.pc = "drain", !.kind = "fence",
                                          !.drain = Unfinished(active)]
    /\ UNCHANGED <<graph, running, busy, health, pass, unproven, drv>>

FenceSettles ==
    /\ ctl.pc = "drain" /\ ctl.kind = "fence"
    /\ Drained(ctl.drain)
    /\ Blocked
    /\ ctl' = [ctl EXCEPT !.pc = "acked", !.drain = {}]
    /\ UNCHANGED <<schedVars, unproven, active, fenced, drv>>

\* The driver's task is cancelled from outside, by a stopping event loop.
StopDriver ==
    /\ "stop" \in Controls /\ ctl.pc = "idle" /\ drv.pc # "ended"
    /\ ctl' = [ctl EXCEPT !.pc = "acked", !.kind = "stop"]
    /\ drv' = [drv EXCEPT !.cancel = TRUE]
    /\ KeepJob
    /\ UNCHANGED <<schedVars, unproven, active, fenced>>

ControlStep ==
    /\ AtAwait
    /\ \/ CancelJob \/ CancelWorkers \/ CancelAcknowledged
       \/ \E t \in DOMAIN graph : CancelTask(t)
       \/ FenceEngine \/ FenceSettles \/ StopDriver

----------------------------------------------------------------------------
RunWorker(w) == AtAwait /\ WorkerStep(w) /\ UNCHANGED engineVars

EnvStep == /\ AtAwait /\ drv.pc # "ended"
           /\ \E a \in Actor, h \in HealthEvents : HealthChanges(a, h)
           /\ UNCHANGED engineVars

\* The process may idle once the run and every worker ended.
Ended == /\ drv.pc = "ended"
         /\ ctl.pc \in {"idle", "acked"}
         /\ \A w \in WorkerId : ~Live(w)
         /\ UNCHANGED vars

Next == \/ DriverStep
        \/ ControlStep
        \/ \E w \in WorkerId : RunWorker(w)
        \/ EnvStep
        \/ Ended

Spec == Init /\ [][Next]_vars
----------------------------------------------------------------------------
(* Fairness.  The event loop keeps resuming coroutines whose await is over: *)
(* the driver's, some worker's, and a controller's that has begun; attempts, *)
(* planners and the verification end (timeouts), and while some actor that   *)
(* can recover is not up, one does.  Nothing says which worker or actor is    *)
(* served first, and nobody is bound to cancel, fence or stop anything.      *)

ControlGoesOn == ctl.pc # "idle" /\ ControlStep

WorkersGoOn == \E w \in WorkerId : RunWorker(w)

SomeRecovers == /\ AtAwait /\ drv.pc # "ended" /\ "up" \in HealthEvents
                /\ \E a \in Actor : HealthChanges(a, "up")
                /\ UNCHANGED engineVars

Fairness == /\ WF_vars(DriverStep)
            /\ WF_vars(ControlGoesOn)
            /\ WF_vars(WorkersGoOn)
            /\ WF_vars(SomeRecovers)

FairSpec == Spec /\ Fairness

----------------------------------------------------------------------------
(* Properties *)

\* Every variable holds what the declarations above say.
TypeOK ==
    /\ SchedTypeOK
    /\ job \in JobState
    /\ replans \in Nat /\ repairs \in Nat
    /\ unproven \subseteq Task
    /\ active \subseteq WorkerId
    /\ fenced \in BOOLEAN
    /\ drv \in Driver
    /\ ctl \in Controller

\* A task never has two workers at once, whichever reroutes, retries and late
\* results happen between its dispatches (_running_tasks is the only guard).
OneWorkerPerTask ==
    \A v, w \in WorkerId : Live(v) /\ Live(w) /\ v[1] = w[1] => v = w

\* A busy slot is held for each worker alive and for the task being started,
\* and _running_tasks knows them all.
Holders(a) == {w \in WorkerId : Live(w) /\ worker[w].actor = a}
Starting(a) == IF pass.pc = "start" /\ pass.actor = a THEN 1 ELSE 0
SlotsHeld ==
    /\ \A a \in Actor : busy[a] >= Cardinality(Holders(a)) + Starting(a)
    /\ \A w \in WorkerId : Live(w) => w[1] \in running

\* Once the run and whoever stopped it are through, no worker is left behind
\* ("on any exit from run_until_complete").
RunIsOver == drv.pc = "ended" /\ ctl.pc \in {"idle", "acked"}
NoOrphans == RunIsOver => \A w \in WorkerId : ~Live(w)

\* A fenced engine, which may not own the job any more, never completes it.
FencedNeverCompletes == [][fenced /\ job # "COMPLETED" => job' # "COMPLETED"]_vars

\* No slot and no running mark outlives its worker, cancellations aside.
SlotsFreed ==
    /\ \A a \in Actor : busy[a] = Cardinality(Holders(a)) + Starting(a)
    /\ \A t \in running :
          \/ \E w \in WorkerId : Live(w) /\ w[1] = t
          \/ pass.pc = "start" /\ pass.task = t

\* limits.concurrency_limit bounds the workers alive.
ConcurrencyRespected == Cardinality({w \in WorkerId : Live(w)}) <= ConcurrencyLimit

\* A task starts more than max_attempts attempts only when providers failed it.
AttemptsBounded ==
    \A t \in DOMAIN graph :
        graph[t].attempt <= IF MaxAttempts > FaultBound THEN MaxAttempts ELSE FaultBound

\* The replan and repair budgets hold over every interleaving of the two
\* repair loops (verdicts of checks, final verification).
BudgetsRespected == replans <= MaxReplans /\ repairs <= MaxRepairs

\* A job is completed only when the work is: each task succeeded, was
\* cancelled, or was replaced by work that is done.
CompletedMeansDone ==
    job = "COMPLETED" =>
        \A t \in DOMAIN graph :
            DependencyDone(graph, t) \/ graph[t].status = "CANCELLED"

\* Verification judges work nobody is changing: no worker is alive.
VerifiedAlone == job \in {"VERIFYING", "COMPLETED"} => \A w \in WorkerId : ~Live(w)

\* A job completes only with the observations that want follow-up work heard:
\* no result carrying one is left uncollected.
FollowUpsHeard ==
    job = "COMPLETED" =>
        \A w \in WorkerId : Done(w) => worker[w].result \notin {"discover", "redo"}

\* Nothing runs whose dependencies are not done.
RunsAfterDependencies ==
    \A w \in WorkerId : Live(w) =>
        \A d \in graph[w[1]].deps : DependencyDone(graph, d)

\* A superseded task stays superseded, so that what depends on it waits for
\* the replacement.
SupersededStays ==
    [][\A t \in DOMAIN graph :
          graph[t].status = "SUPERSEDED" => graph'[t].status = "SUPERSEDED"]_vars

\* A terminal job state is final.
TerminalFinal == [][(job \in Terminal) => job' = job]_vars

\* Every run ends, provided that providers stop failing: a provider failure
\* hands the attempt back, so the attempt budget does not bound them.
ProvidersSettle == <>[](\A w \in WorkerId : worker[w].pc # "record")
RunTerminates == ProvidersSettle => <>(drv.pc = "ended")
=============================================================================
