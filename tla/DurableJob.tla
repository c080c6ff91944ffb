------------------------------ MODULE DurableJob ------------------------------
(* A job across the processes that drive it: the ledger and its projection   *)
(* (src/runtime/storage/projector.py), the execution lease and its heartbeat *)
(* (src/runtime/lease.py), recovery (src/runtime/recovery.py) and the ways   *)
(* the launcher starts, resumes and ends a driver (src/jobs/job_launcher.py).*)
(*                                                                           *)
(* A session is a process that drives the job once: one launches it, others  *)
(* resume it.  A session may die, or stall so long that its heartbeat is     *)
(* late.  Time is counted in ticks of 15 s, the heartbeat's interval.        *)
EXTENDS Integers, FiniteSets

CONSTANTS Launcher,     \* the session that launches the job
          Restarts,     \* sessions of a restarted Hermes: they wait for the lease
          Operators,    \* sessions in which an operator asks for a resume
          Tasks, MaxAttempts,
          Budgets,      \* for each mode, the faults a run may have: [crashes, stalls, errors]
          NoSession

ASSUME SessionsAreNamed == NoSession \notin {Launcher} \cup Restarts \cup Operators

Sessions == {Launcher} \cup Restarts \cup Operators
LeaseTicks == 4        \* duration_seconds = 60
BeatTicks == 1         \* heartbeat_interval_seconds = 15
\* Mutant of RestartWait: shorter than a lease.
ShortWait == 3

RestartWait == 6       \* lease_wait_seconds = 90
Off == 99              \* no heartbeat runs

VARIABLES mode,        \* "goal" or "sprint": how the job was launched
          ledger,      \* what the job's events project to
          lease,       \* [owner, left]
          pc, view,    \* where each session is; its engine's job and tasks
          hb, wait,    \* ticks to its next renewal; to its deadline for the lease
          stalled,     \* sessions whose event loop makes no progress
          merged,      \* <<task, attempt>> in the integration branch
          judged,      \* attempts recorded as failed
          faults,      \* what is left of its budget
          odd          \* what has happened that the lease does not cover

jobVars == <<mode, ledger, lease, pc, view, hb, wait, stalled, merged, judged, faults, odd>>

Terminal == {"completed", "blocked", "failed", "cancelled"}
JobStates == {"none", "created", "planning", "executing", "verifying"} \cup Terminal
TaskStates == {"absent", "pending", "ready", "running", "succeeded", "failed", "cancelled"}
Record == [job : JobStates, task : [Tasks -> [st : TaskStates, att : Nat]]]
NoRecord == [job |-> "none", task |-> [t \in Tasks |-> [st |-> "absent", att |-> 0]]]

JobTypeOK ==
    /\ mode \in {"goal", "sprint"} /\ ledger \in Record
    /\ lease.owner \in Sessions \cup {NoSession} /\ lease.left \in 0..LeaseTicks
    /\ pc \in [Sessions -> {"off", "look", "projected", "waiting", "recovering", "recovered",
                            "driving", "fenced", "unplanned", "closing", "stopped", "refused", "dead"}]
    /\ view \in [Sessions -> Record]
    /\ hb \in [Sessions -> 0..BeatTicks \cup {Off}] /\ wait \in [Sessions -> 0..RestartWait]
    /\ stalled \subseteq Sessions
    /\ merged \subseteq Tasks \X Nat /\ judged \subseteq Tasks \X Nat
    /\ odd \subseteq {"stall", "takeover"}

JobInit ==
    /\ mode \in {"goal", "sprint"} /\ ledger = NoRecord
    /\ lease = [owner |-> NoSession, left |-> 0]
    /\ pc = [s \in Sessions |-> "off"] /\ view = [s \in Sessions |-> NoRecord]
    /\ hb = [s \in Sessions |-> Off] /\ wait = [s \in Sessions |-> 0]
    /\ stalled = {} /\ merged = {} /\ judged = {}
    /\ faults \in Budgets[mode] /\ odd = {}

-----------------------------------------------------------------------------
\* The projector: what one more event makes of a record.

Set(R, t, st, n) == [R EXCEPT !.task[t] = [st |-> st, att |-> n]]

JobEvent(R, state) == [R EXCEPT !.job = state]

TaskEvent(R, kind, t, n, retry) ==
    LET old == R.task[t] IN
    CASE kind = "created" -> IF old.st = "absent" THEN Set(R, t, "pending", 0) ELSE R
      [] kind = "started" -> Set(R, t, "running", n)
      [] kind = "completed" -> Set(R, t, "succeeded", old.att)
      [] kind = "failed" -> Set(R, t, IF retry /\ n < MaxAttempts THEN "ready" ELSE "failed", n)
      [] kind = "cancelled" -> IF old.st \in {"succeeded", "failed"} THEN R
                               ELSE Set(R, t, "cancelled", old.att)

WithTasks(R) == [R EXCEPT !.task = [t \in Tasks |-> TaskEvent(R, "created", t, 0, TRUE).task[t]]]

RecoveryEvent(R, kind, t) ==
    IF R.task[t].st = "absent" THEN R
    ELSE Set(R, t, IF kind = "reconciled" THEN "succeeded" ELSE "ready", R.task[t].att)

\* At the end of the fold a cancelled job has no open task.
Projected(R) ==
    IF R.job # "cancelled" THEN R
    ELSE [R EXCEPT !.task = [t \in Tasks |-> IF @[t].st \in {"pending", "ready", "running"}
                                             THEN [@[t] EXCEPT !.st = "cancelled"] ELSE @[t]]]

\* Jobs a restart looks at: no terminal event so far.
Unfinished == ledger.job \notin Terminal \cup {"none"}

-----------------------------------------------------------------------------
\* The lease store.
\* Mutant of LeaseFree: a lease counts as expired when its first beat is due.
LeaseFreeOnceAged(s) == lease.left < LeaseTicks \/ lease.owner \in {s, NoSession}

LeaseFree(s) == lease.left = 0 \/ lease.owner \in {s, NoSession}
Acquired(s) == [owner |-> s, left |-> LeaseTicks]
CanRenew(s) == lease.owner = s
Released(s) == IF lease.owner = s THEN [owner |-> NoSession, left |-> 0] ELSE lease

Go(s, place) == pc' = [pc EXCEPT ![s] = place]
Up(s) == pc[s] \notin {"off", "stopped", "refused", "dead"} /\ s \notin stalled
Remember(s, R) == view' = [view EXCEPT ![s] = R]
Beat(s, n) == hb' = [hb EXCEPT ![s] = n]
Driving(s) == pc[s] = "driving"
Drives(s) == pc[s] \in {"recovering", "recovered", "driving"}
AtWork(s) == Drives(s) \/ pc[s] \in {"fenced", "unplanned", "closing"}

\* A goal job takes the lease first; a sprint is driven without one, and has
\* its tasks from the start.
Launched(R) ==
    /\ pc[Launcher] = "off" /\ ledger.job = "none"
    /\ Go(Launcher, "driving") /\ ledger' = JobEvent(R, "created") /\ Remember(Launcher, ledger')
    /\ UNCHANGED <<mode, wait, stalled, merged, judged, faults, odd>>

LaunchGoal == /\ mode = "goal" /\ Launched(ledger)
              /\ lease' = Acquired(Launcher) /\ Beat(Launcher, BeatTicks)

LaunchSprint == mode = "sprint" /\ Launched(WithTasks(ledger)) /\ UNCHANGED <<lease, hb>>

Asks(s, ticks) ==
    /\ pc[s] = "off" /\ ledger.job # "none"
    /\ Go(s, "look") /\ wait' = [wait EXCEPT ![s] = ticks]
    /\ UNCHANGED <<mode, ledger, lease, view, hb, stalled, merged, judged, faults, odd>>

\* An operator resumes the job, whatever state it is in.
Resume(s) == s \in Operators /\ Asks(s, 0)

\* A restarted Hermes resumes the goal jobs that have not ended.
ResumeOrphan(s) == /\ s \in Restarts /\ mode = "goal" /\ Unfinished
                   /\ \E r \in Sessions : pc[r] = "dead"
                   /\ Asks(s, RestartWait)

\* Mutant of Look: a job that has ended is not refused.
LookPastTheEnd(s) ==
    /\ pc[s] = "look" /\ Up(s)
    /\ Go(s, "projected") /\ Remember(s, Projected(ledger))
    /\ UNCHANGED <<mode, ledger, lease, hb, wait, stalled, merged, judged, faults, odd>>

\* recover_and_rehydrate projects the ledger first.
Look(s) ==
    /\ pc[s] = "look" /\ Up(s)
    /\ IF Projected(ledger).job \in Terminal THEN Go(s, "refused") /\ UNCHANGED view
       ELSE Go(s, "projected") /\ Remember(s, Projected(ledger))
    /\ UNCHANGED <<mode, ledger, lease, hb, wait, stalled, merged, judged, faults, odd>>

\* ... and then it takes the lease, if it can.
TakeOver(s) ==
    /\ pc[s] = "projected" /\ Up(s)
    /\ IF LeaseFree(s)
       THEN /\ lease' = Acquired(s) /\ Go(s, "recovering")
            /\ UNCHANGED view /\ wait' = [wait EXCEPT ![s] = 0]
            /\ odd' = IF view[s] = Projected(ledger) /\ ~\E r \in Sessions : AtWork(r) THEN odd
                      ELSE odd \cup {"takeover"}
       ELSE /\ Go(s, IF wait[s] > 0 THEN "waiting" ELSE "refused")
            /\ Remember(s, NoRecord) /\ UNCHANGED <<lease, wait, odd>>
    /\ UNCHANGED <<mode, ledger, hb, stalled, merged, judged, faults>>

\* InterruptedTaskReconciler: a commit of the task, of any attempt since the
\* first start, is in the branch.
Integrated(t) == \E m \in merged : m[1] = t

\* Mutants of Resumed: what was running is taken for done, or for undone,
\* without a look at the branch.
ResumedAsDone(t, task) == IF task.st = "running" THEN [task EXCEPT !.st = "succeeded"] ELSE task
ResumedAsUndone(t, task) == IF task.st = "running" THEN [task EXCEPT !.st = "ready"] ELSE task

Resumed(t, task) ==
    CASE task.st = "running" -> [task EXCEPT !.st = IF Integrated(t) THEN "succeeded" ELSE "ready"]
      [] task.st = "failed" /\ task.att < MaxAttempts -> [task EXCEPT !.st = "ready"]
      [] OTHER -> task

\* The tasks reconciled or requeued, each with its event, and the phase the
\* engine goes on in.  A plan without tasks is made again; one with some of
\* its tasks is taken for the whole plan.
Recover(s) ==
    /\ pc[s] = "recovering" /\ Up(s)
    /\ LET empty == \A t \in Tasks : view[s].task[t].st = "absent"
           onward == view[s].job = "planning" /\ ~empty
           told(t) == IF view[s].task[t].st = "running"
                      THEN RecoveryEvent(ledger, IF Integrated(t) THEN "reconciled" ELSE "requeued", t).task[t]
                      ELSE ledger.task[t]
       IN /\ ledger' = [job |-> IF onward THEN "executing" ELSE ledger.job,
                        task |-> [t \in Tasks |-> told(t)]]
          /\ Remember(s, [job |-> IF empty THEN "created" ELSE IF onward THEN "executing" ELSE view[s].job,
                          task |-> [t \in Tasks |-> Resumed(t, view[s].task[t])]])
    /\ Go(s, "recovered")
    /\ UNCHANGED <<mode, lease, hb, wait, stalled, merged, judged, faults, odd>>

\* _hold_lease starts the heartbeat, if the lease is still the session's; the
\* engine starts either way.
Hold(s) ==
    /\ pc[s] = "recovered" /\ Up(s)
    /\ IF LeaseFree(s) THEN lease' = Acquired(s) /\ Beat(s, BeatTicks) ELSE UNCHANGED <<lease, hb>>
    /\ Go(s, "driving")
    /\ UNCHANGED <<mode, ledger, view, wait, stalled, merged, judged, faults, odd>>

-----------------------------------------------------------------------------
\* The engine of a session: it changes its own record and appends the event.

Says(s, job) == /\ Remember(s, JobEvent(view[s], job)) /\ ledger' = JobEvent(ledger, job)
SaysOf(s, kind, t, n, retry) == /\ Remember(s, TaskEvent(view[s], kind, t, n, retry))
                                /\ ledger' = TaskEvent(ledger, kind, t, n, retry)
Works(s) == Driving(s) /\ Up(s)
Kept == UNCHANGED <<mode, lease, wait, stalled, faults, odd>>

Plan(s) == /\ Works(s) /\ view[s].job = "created"
           /\ Says(s, "planning")
           /\ UNCHANGED <<pc, hb, merged, judged>> /\ Kept

\* The plan enters the graph at once, the ledger task by task.
PlanMade(s) ==
    /\ Works(s) /\ view[s].job = "planning" /\ \E t \in Tasks : view[s].task[t].st = "absent"
    /\ Remember(s, WithTasks(view[s]))
    /\ UNCHANGED <<pc, hb, ledger, merged, judged>> /\ Kept

PlanTask(s, t) ==
    /\ Works(s) /\ view[s].job = "planning" /\ view[s].task[t].st # "absent"
    /\ ledger.task[t].st = "absent"
    /\ ledger' = TaskEvent(ledger, "created", t, 0, TRUE)
    /\ UNCHANGED <<pc, hb, view, merged, judged>> /\ Kept

PlanEnd(s) ==
    /\ Works(s) /\ view[s].job = "planning"
    /\ \A t \in Tasks : view[s].task[t].st # "absent" /\ ledger.task[t].st # "absent"
    /\ Says(s, "executing")
    /\ UNCHANGED <<pc, hb, merged, judged>> /\ Kept

Start(s, t) ==
    /\ Works(s) /\ view[s].job = "executing" /\ view[s].task[t].st \in {"pending", "ready"}
    /\ SaysOf(s, "started", t, view[s].task[t].att + 1, TRUE)
    /\ UNCHANGED <<pc, hb, merged, judged>> /\ Kept

\* The adapter commits the attempt and merges it.  A merge skipped because git
\* gave no answer is not in this module (TaskAttempts.SkipMerge).
Merge(s, t) ==
    /\ Works(s) /\ view[s].job \notin Terminal /\ view[s].task[t].st = "running"
    /\ merged' = merged \cup {<<t, view[s].task[t].att>>}
    /\ UNCHANGED <<pc, hb, ledger, view, judged>> /\ Kept

Complete(s, t) ==
    /\ Works(s) /\ view[s].task[t].st = "running" /\ <<t, view[s].task[t].att>> \in merged
    /\ SaysOf(s, "completed", t, 0, TRUE)
    /\ UNCHANGED <<pc, hb, merged, judged>> /\ Kept

Fail(s, t) ==
    /\ Works(s) /\ view[s].task[t].st = "running"
    /\ \E retry \in BOOLEAN : SaysOf(s, "failed", t, view[s].task[t].att, retry)
    /\ judged' = judged \cup {<<t, view[s].task[t].att>>}
    /\ UNCHANGED <<pc, hb, merged>> /\ Kept

Conclude(s) ==
    /\ Works(s)
    /\ \/ /\ view[s].job = "executing" /\ \A t \in Tasks : view[s].task[t].st \in {"succeeded", "absent"}
          /\ Says(s, "verifying")
       \/ view[s].job = "verifying" /\ Says(s, "completed")
       \/ /\ view[s].job = "executing" /\ \E t \in Tasks : view[s].task[t].st \in {"failed", "cancelled"}
          /\ \A t \in Tasks : view[s].task[t].st # "running"
          /\ \E job \in {"blocked", "failed"} : Says(s, job)
    /\ UNCHANGED <<pc, hb, merged, judged>> /\ Kept

\* cancel_async: the job's event, then one for each open task.
CancelJob(s) ==
    /\ Works(s) /\ view[s].job \notin Terminal
    /\ Says(s, "cancelled")
    /\ UNCHANGED <<pc, hb, merged, judged>> /\ Kept

Open(s) == {t \in Tasks : view[s].task[t].st \in {"pending", "ready", "running"}}
CancelTask(s, t) ==
    /\ Works(s) /\ view[s].job = "cancelled" /\ t \in Open(s)
    /\ SaysOf(s, "cancelled", t, 0, TRUE)
    /\ UNCHANGED <<pc, hb, merged, judged>> /\ Kept

\* The driver's finally: the heartbeat is cancelled, and then the lease released.
End(s) ==
    /\ Works(s) /\ view[s].job \in Terminal
    /\ view[s].job = "cancelled" => Open(s) = {}
    /\ Go(s, "closing") /\ Beat(s, Off)
    /\ UNCHANGED <<ledger, view, merged, judged>> /\ Kept

Close(s) ==
    /\ pc[s] = "closing" /\ Up(s)
    /\ lease' = Released(s) /\ Go(s, "stopped") /\ Remember(s, NoRecord)
    /\ UNCHANGED <<mode, ledger, hb, wait, stalled, merged, judged, faults, odd>>

\* Planning fails: the lease goes first, the event follows.
PlanFails(s) ==
    /\ s = Launcher /\ mode = "goal" /\ Works(s) /\ view[s].job = "planning"
    /\ \A t \in Tasks : view[s].task[t].st = "absent"
    /\ lease' = Released(s) /\ Beat(s, Off) /\ Go(s, "unplanned")
    /\ UNCHANGED <<mode, ledger, view, wait, stalled, merged, judged, faults, odd>>

PlanFailed(s) ==
    /\ pc[s] = "unplanned" /\ Up(s)
    /\ ledger' = JobEvent(ledger, "failed") /\ Go(s, "stopped") /\ Remember(s, NoRecord)
    /\ UNCHANGED <<hb, merged, judged>> /\ Kept

\* An event cannot be stored: the engine halts with its job unfinished.
StoreFails(s) ==
    /\ Works(s) /\ faults.errors > 0
    /\ faults' = [faults EXCEPT !.errors = @ - 1]
    /\ Go(s, "closing") /\ Beat(s, Off)
    /\ UNCHANGED <<mode, ledger, lease, view, wait, stalled, merged, judged, odd>>

-----------------------------------------------------------------------------
\* Mutant of Heartbeat: a renewal that fails is tried again later.
HeartbeatRegardless(s) ==
    /\ Works(s) /\ hb[s] = 0 /\ Beat(s, BeatTicks)
    /\ lease' = IF CanRenew(s) THEN Acquired(s) ELSE lease
    /\ UNCHANGED <<mode, ledger, pc, view, wait, stalled, merged, judged, faults, odd>>

\* _heartbeat_loop: a renewal that fails, or raises, fences the engine.
Heartbeat(s) ==
    /\ Works(s) /\ hb[s] = 0
    /\ \/ /\ CanRenew(s)
          /\ lease' = Acquired(s) /\ Beat(s, BeatTicks)
          /\ UNCHANGED <<pc, faults>>
       \/ /\ ~CanRenew(s)
          /\ Go(s, "fenced") /\ Beat(s, Off) /\ UNCHANGED <<lease, faults>>
       \/ /\ faults.errors > 0
          /\ faults' = [faults EXCEPT !.errors = @ - 1]
          /\ Go(s, "fenced") /\ Beat(s, Off) /\ UNCHANGED lease
    /\ UNCHANGED <<mode, ledger, view, wait, stalled, merged, judged, odd>>

\* The fenced engine cancels its workers, each of which says so, and then it,
\* or its driver, blocks the job: in the ledger that its successor writes too.
FenceTask(s, t) ==
    /\ pc[s] = "fenced" /\ Up(s) /\ view[s].task[t].st = "running"
    /\ SaysOf(s, "cancelled", t, 0, TRUE)
    /\ UNCHANGED <<pc, hb, merged, judged>> /\ Kept

FenceEnd(s) ==
    /\ pc[s] = "fenced" /\ Up(s) /\ \A t \in Tasks : view[s].task[t].st # "running"
    /\ IF view[s].job \in Terminal THEN UNCHANGED <<view, ledger>> ELSE Says(s, "blocked")
    /\ Go(s, "closing")
    /\ UNCHANGED <<hb, merged, judged>> /\ Kept

-----------------------------------------------------------------------------
\* Time and faults.  A tick passes once everything due at once has been done
\* by the sessions that make progress.
Prompt(s) == Up(s) => hb[s] # 0 /\ pc[s] \in {"driving", "waiting", "fenced"}

Tick ==
    /\ \A s \in Sessions : Prompt(s)
    /\ lease' = IF lease.left > 0 THEN [lease EXCEPT !.left = @ - 1] ELSE lease
    /\ hb' = [s \in Sessions |-> IF hb[s] \in {0, Off} THEN hb[s] ELSE hb[s] - 1]
    /\ wait' = [s \in Sessions |-> IF pc[s] = "waiting" /\ wait[s] > 0 THEN wait[s] - 1 ELSE wait[s]]
    /\ pc' = [s \in Sessions |-> IF pc[s] = "waiting" /\ s \notin stalled THEN "look" ELSE pc[s]]
    /\ UNCHANGED <<mode, ledger, view, stalled, merged, judged, faults, odd>>

Stall(s) ==
    /\ Up(s) /\ faults.stalls > 0
    /\ stalled' = stalled \cup {s} /\ faults' = [faults EXCEPT !.stalls = @ - 1]
    /\ odd' = odd \cup {"stall"}
    /\ UNCHANGED <<mode, ledger, lease, pc, view, hb, wait, merged, judged>>

Wake(s) ==
    /\ s \in stalled /\ stalled' = stalled \ {s}
    /\ pc' = IF pc[s] = "waiting" THEN [pc EXCEPT ![s] = "look"] ELSE pc
    /\ UNCHANGED <<mode, ledger, lease, view, hb, wait, merged, judged, faults, odd>>

Crash(s) ==
    /\ Up(s) /\ faults.crashes > 0
    /\ faults' = [faults EXCEPT !.crashes = @ - 1]
    /\ Go(s, "dead") /\ Beat(s, Off) /\ Remember(s, NoRecord) /\ wait' = [wait EXCEPT ![s] = 0]
    /\ UNCHANGED <<mode, ledger, lease, stalled, merged, judged, odd>>

JobStep ==
    \/ LaunchGoal \/ LaunchSprint \/ Tick
    \/ \E s \in Sessions :
         \/ Resume(s) \/ ResumeOrphan(s) \/ Look(s) \/ TakeOver(s) \/ Recover(s) \/ Hold(s)
         \/ Plan(s) \/ PlanMade(s) \/ PlanEnd(s) \/ Conclude(s) \/ CancelJob(s) \/ End(s) \/ Close(s)
         \/ PlanFails(s) \/ PlanFailed(s) \/ StoreFails(s)
         \/ Heartbeat(s) \/ FenceEnd(s) \/ Stall(s) \/ Wake(s) \/ Crash(s)
         \/ \E t \in Tasks : \/ PlanTask(s, t) \/ Start(s, t) \/ Merge(s, t) \/ Complete(s, t) \/ Fail(s, t)
                             \/ CancelTask(s, t) \/ FenceTask(s, t)

JobSpec == JobInit /\ [][JobStep]_jobVars

-----------------------------------------------------------------------------
\* While no session stalls, a job launched under the lease has one driver
\* (lease.py:43, "exclusive execution ownership"): a renewal is due long before
\* the lease of a live driver runs out, and only its owner gives it up.
OneDriver == mode = "goal" /\ "stall" \notin odd => Cardinality({s \in Sessions : Drives(s)}) <= 1

\* What the ledger has settled stays settled, over crashes and resumes: a
\* completed task is not run again and a terminal job does not come back
\* (recovery.py:207), while every session took the job over from a ledger
\* nobody else was writing to.
SettledIsFinal ==
    [][odd' = {} => /\ ledger.job \in Terminal => ledger'.job = ledger.job
                    /\ \A t \in Tasks : ledger.task[t].st = "succeeded" => ledger'.task[t].st = "succeeded"]_jobVars

\* Work that reached the integration branch is not done again (recovery.py:57,
\* "without repeating model work"): a new attempt is started only after one
\* that was judged a failure, or that left nothing in the branch.
MergedWorkIsNotRedone ==
    [][odd' = {} => \A t \in Tasks :
         LET n == ledger.task[t].att IN
         ledger'.task[t].att > n /\ <<t, n>> \in merged => <<t, n>> \in judged]_jobVars

\* A task counts as done only when a commit of it is in the branch, and a job
\* as completed only when the tasks of its ledger are, over crashes, resumes and
\* what the branch tells of the attempts they interrupted.
SuccessIsInTheBranch ==
    odd = {} =>
      /\ \A t \in Tasks : ledger.task[t].st = "succeeded" => Integrated(t)
      /\ ledger.job = "completed" => \A t \in Tasks : ledger.task[t].st \in {"succeeded", "absent"}

\* A restarted Hermes waits long enough: it gives a job up only to a session
\* that lives (job_launcher.py:1030).
OrphanIsWaitedFor ==
    [][\A s \in Restarts : pc[s] = "projected" /\ pc'[s] = "refused" => pc[lease.owner] # "dead"]_jobVars

\* A driver whose lease another session has taken stops, if it has a
\* heartbeat at all (lease.py:276).
Overtaken(s) == Driving(s) /\ lease.owner \in Sessions \ {s} /\ hb[s] # Off
OvertakenStops == []<>(\A s \in Sessions : ~Overtaken(s))
=============================================================================
