--------------------------- MODULE DurableJob_proofs ---------------------------
(* A job launched under a lease has one driver, however many sessions are     *)
(* started for it, crash, or are refused; what one of them has settled in the *)
(* ledger and in the integration branch, the next one leaves as it is; and a  *)
(* restarted Hermes waits for the lease of one that died.                     *)
EXTENDS DurableJob, FiniteSetTheorems, TLAPS

TaskRecord == [st : TaskStates, att : Nat]
Places == {"off", "look", "projected", "waiting", "recovering", "recovered", "driving", "fenced",
           "unplanned", "closing", "stopped", "refused", "dead"}

\* Folding an event into a record gives a record, and only a job's event
\* changes the job.
LEMMA TaskEvents ==
    ASSUME NEW R \in Record, NEW t \in Tasks, NEW n \in Nat, NEW retry \in BOOLEAN,
           NEW kind \in {"created", "started", "completed", "failed", "cancelled"}
    PROVE  TaskEvent(R, kind, t, n, retry) \in Record /\ TaskEvent(R, kind, t, n, retry).job = R.job
  <1>1. R.task \in [Tasks -> TaskRecord] /\ R.task[t] \in TaskRecord /\ R.task[t].att \in Nat
    BY DEF Record, TaskRecord
  <1>2. ASSUME NEW st \in TaskStates, NEW m \in Nat
        PROVE  Set(R, t, st, m) \in Record /\ Set(R, t, st, m).job = R.job
    BY DEF Set, Record
  <1>3. {"pending", "running", "succeeded", "ready", "failed", "cancelled"} \subseteq TaskStates
    BY DEF TaskStates
  <1>4. CASE kind = "created"
    BY <1>2, <1>3, <1>4 DEF TaskEvent
  <1>5. CASE kind = "started"
    BY <1>2, <1>3, <1>5 DEF TaskEvent
  <1>6. CASE kind = "completed"
    BY <1>1, <1>2, <1>3, <1>6 DEF TaskEvent
  <1>7. CASE kind = "failed"
    BY <1>2, <1>3, <1>7 DEF TaskEvent
  <1>8. CASE kind = "cancelled"
    BY <1>1, <1>2, <1>3, <1>8 DEF TaskEvent
  <1> QED BY <1>4, <1>5, <1>6, <1>7, <1>8

LEMMA JobEvents ==
    ASSUME NEW R \in Record, NEW job \in JobStates
    PROVE  JobEvent(R, job) \in Record /\ JobEvent(R, job).job = job
  BY DEF JobEvent, Record

LEMMA RecoveryEvents ==
    ASSUME NEW R \in Record, NEW t \in Tasks, NEW kind
    PROVE  RecoveryEvent(R, kind, t) \in Record
  <1>1. R.task[t].att \in Nat
    BY DEF Record
  <1> QED BY <1>1 DEF RecoveryEvent, Set, Record, TaskStates

LEMMA WithTasksType == ASSUME NEW R \in Record PROVE WithTasks(R) \in Record /\ WithTasks(R).job = R.job
  <1>1. \A t \in Tasks : TaskEvent(R, "created", t, 0, TRUE).task[t] \in TaskRecord
    <2> SUFFICES ASSUME NEW t \in Tasks PROVE TaskEvent(R, "created", t, 0, TRUE).task[t] \in TaskRecord
      OBVIOUS
    <2>1. TaskEvent(R, "created", t, 0, TRUE) \in Record
      BY TaskEvents
    <2> QED BY <2>1 DEF Record, TaskRecord
  <1> QED BY <1>1 DEF WithTasks, Record, TaskRecord

LEMMA ProjectedType == ASSUME NEW R \in Record PROVE Projected(R) \in Record /\ Projected(R).job = R.job
  BY DEF Projected, Record, TaskStates

LEMMA NoRecordType == NoRecord \in Record
  BY DEF NoRecord, Record, JobStates, TaskStates

LEMMA ResumedType == ASSUME NEW t \in Tasks, NEW task \in TaskRecord PROVE Resumed(t, task) \in TaskRecord
  BY DEF Resumed, TaskRecord, TaskStates

-----------------------------------------------------------------------------
(* Types. *)

\* A session goes somewhere, and perhaps changes its heartbeat.
LEMMA GoType ==
    ASSUME JobTypeOK, NEW s \in Sessions, NEW place \in Places, Go(s, place)
    PROVE  /\ pc' \in [Sessions -> Places] /\ pc'[s] = place
           /\ \A r \in Sessions \ {s} : pc'[r] = pc[r]
  BY DEF JobTypeOK, Go, Places

LEMMA BeatType ==
    ASSUME JobTypeOK, NEW s \in Sessions, NEW n \in {BeatTicks, Off}, Beat(s, n)
    PROVE  /\ hb' \in [Sessions -> 0..BeatTicks \cup {Off}] /\ hb'[s] = n
           /\ \A r \in Sessions \ {s} : hb'[r] = hb[r]
  BY DEF JobTypeOK, Beat, BeatTicks, Off

LEMMA RememberType ==
    ASSUME JobTypeOK, NEW s \in Sessions, NEW R \in Record, Remember(s, R)
    PROVE  view' \in [Sessions -> Record]
  BY DEF JobTypeOK, Remember

LEMMA LeaseType ==
    ASSUME JobTypeOK, NEW s \in Sessions
    PROVE  /\ Acquired(s).owner = s /\ Acquired(s).left = LeaseTicks /\ LeaseTicks \in 0..LeaseTicks
           /\ Released(s).owner \in Sessions \cup {NoSession} /\ Released(s).left \in 0..LeaseTicks
  BY DEF JobTypeOK, Acquired, Released, LeaseTicks

\* What a step of an engine leaves in its record and the ledger.
LEMMA SaysType ==
    ASSUME JobTypeOK, NEW s \in Sessions, NEW job \in JobStates, Says(s, job)
    PROVE  ledger' \in Record /\ ledger'.job = job /\ view' \in [Sessions -> Record]
  <1>1. view[s] \in Record /\ ledger \in Record
    BY DEF JobTypeOK
  <1> QED BY <1>1, JobEvents, RememberType DEF Says

LEMMA SaysOfType ==
    ASSUME JobTypeOK, NEW s \in Sessions, NEW t \in Tasks, NEW n \in Nat, NEW retry \in BOOLEAN,
           NEW kind \in {"created", "started", "completed", "failed", "cancelled"},
           SaysOf(s, kind, t, n, retry)
    PROVE  ledger' \in Record /\ ledger'.job = ledger.job /\ view' \in [Sessions -> Record]
  <1>1. view[s] \in Record /\ ledger \in Record
    BY DEF JobTypeOK
  <1> QED BY <1>1, TaskEvents, RememberType DEF SaysOf

LEMMA AttemptType ==
    ASSUME JobTypeOK, NEW s \in Sessions, NEW t \in Tasks
    PROVE  view[s].task[t].att \in Nat /\ view[s].task[t] \in TaskRecord /\ <<t, view[s].task[t].att>> \in Tasks \X Nat
  <1>1. view[s] \in Record
    BY DEF JobTypeOK
  <1>2. view[s].task[t] \in TaskRecord
    BY <1>1 DEF Record, TaskRecord
  <1>3. view[s].task[t].att \in Nat
    BY <1>2 DEF TaskRecord
  <1> QED BY <1>2, <1>3

-----------------------------------------------------------------------------
(* The invariant: a session that drives the job owns its lease, with the     *)
(* ticks left that it needs to renew it.                                     *)

Calm == "stall" \notin odd => stalled = {}
Never == ledger.job = "none" => \A s \in Sessions : pc[s] = "off"
Steady(s) ==
    /\ Drives(s) => lease.owner = s /\ lease.left >= 3
    /\ pc[s] = "driving" => hb[s] \in 0..BeatTicks /\ lease.left >= 3 + hb[s]
Held == mode = "goal" /\ "stall" \notin odd => \A s \in Sessions : Steady(s)

JobInv == JobTypeOK /\ Calm /\ Never /\ Held

LEMMA JobInitInv == JobInit => JobInv
  <1> SUFFICES ASSUME JobInit PROVE JobInv
    OBVIOUS
  <1>1. JobTypeOK
    BY NoRecordType DEF JobInit, JobTypeOK, LeaseTicks, RestartWait
  <1> QED BY <1>1 DEF JobInit, JobInv, Calm, Never, Held, Steady, Drives

\* A session that becomes no more of a driver, with the lease as it was.
LEMMA Quiet ==
    ASSUME JobInv, JobTypeOK', NEW s \in Sessions, UNCHANGED <<mode, lease, stalled, odd>>,
           ledger'.job # "none", \A r \in Sessions \ {s} : pc'[r] = pc[r] /\ hb'[r] = hb[r],
           \/ pc'[s] \notin {"recovering", "recovered", "driving"}
           \/ pc'[s] = pc[s] /\ hb'[s] = hb[s]
           \/ pc[s] = "recovering" /\ pc'[s] = "recovered"
    PROVE  JobInv'
  <1>1. Calm' /\ Never'
    BY DEF JobInv, Calm, Never
  <1>2. Held'
    <2> SUFFICES ASSUME mode = "goal", "stall" \notin odd, NEW r \in Sessions PROVE Steady(r)'
      BY DEF Held
    <2>1. Steady(r)
      BY DEF JobInv, Held
    <2> QED BY <2>1 DEF Steady, Drives
  <1> QED BY <1>1, <1>2 DEF JobInv

\* A step of an engine at work: its record, the ledger, the branch.
LEMMA EngineInv ==
    ASSUME JobInv, NEW s \in Sessions, Kept, UNCHANGED <<pc, hb>>,
           ledger' \in Record, ledger'.job # "none", view' \in [Sessions -> Record],
           merged' \subseteq Tasks \X Nat, judged' \subseteq Tasks \X Nat
    PROVE  JobInv'
  <1>1. JobTypeOK'
    BY DEF JobInv, JobTypeOK, Kept
  <1> QED BY <1>1, Quiet DEF Kept

LEMMA AtWorkFacts ==
    ASSUME JobInv, NEW s \in Sessions, Works(s) \/ pc[s] # "off"
    PROVE  /\ ledger.job # "none" /\ ledger \in Record /\ view[s] \in Record /\ view \in [Sessions -> Record]
           /\ merged \subseteq Tasks \X Nat /\ judged \subseteq Tasks \X Nat
  BY DEF JobInv, JobTypeOK, Never, Works, Driving

LEMMA PlanInv ==
    ASSUME JobInv, NEW s \in Sessions,
           \/ Plan(s) \/ PlanMade(s) \/ PlanEnd(s) \/ \E t \in Tasks : PlanTask(s, t)
    PROVE  JobInv'
  <1>1. Works(s)
    BY DEF Plan, PlanMade, PlanEnd, PlanTask
  <1>2. {"planning", "executing"} \subseteq JobStates /\ JobTypeOK
    BY DEF JobStates, JobInv
  <1>3. CASE Plan(s)
    BY <1>1, <1>2, <1>3, AtWorkFacts, SaysType, EngineInv DEF Plan
  <1>4. CASE PlanMade(s)
    BY <1>1, <1>2, <1>4, AtWorkFacts, WithTasksType, RememberType, EngineInv DEF PlanMade
  <1>5. CASE PlanEnd(s)
    BY <1>1, <1>2, <1>5, AtWorkFacts, SaysType, EngineInv DEF PlanEnd
  <1>6. CASE \E t \in Tasks : PlanTask(s, t)
    <2>1. PICK t \in Tasks : PlanTask(s, t)
      BY <1>6
    <2>2. TaskEvent(ledger, "created", t, 0, TRUE) \in Record
          /\ TaskEvent(ledger, "created", t, 0, TRUE).job = ledger.job
      <3>1. ledger \in Record
        BY <1>1, AtWorkFacts
      <3>2. 0 \in Nat /\ TRUE \in BOOLEAN /\ "created" \in {"created", "started", "completed", "failed", "cancelled"}
        OBVIOUS
      <3> QED BY <3>1, <3>2, TaskEvents, ZenonT(30)
    <2>3. ledger' \in Record /\ ledger'.job # "none"
      BY <1>1, <2>1, <2>2, AtWorkFacts DEF PlanTask
    <2> QED BY <1>1, <2>1, <2>3, AtWorkFacts, EngineInv DEF PlanTask
  <1> QED BY <1>3, <1>4, <1>5, <1>6

LEMMA WorkInv ==
    ASSUME JobInv, NEW s \in Sessions, NEW t \in Tasks,
           Start(s, t) \/ Merge(s, t) \/ Complete(s, t) \/ Fail(s, t) \/ CancelTask(s, t)
    PROVE  JobInv'
  <1>1. Works(s) /\ JobTypeOK
    BY DEF Start, Merge, Complete, Fail, CancelTask, JobInv
  <1>2. view[s].task[t].att \in Nat /\ <<t, view[s].task[t].att>> \in Tasks \X Nat
    BY <1>1, AttemptType
  <1>3. CASE Start(s, t)
    <2>1. PICK n \in Nat : SaysOf(s, "started", t, n, TRUE)
      <3>1. view[s].task[t].att + 1 \in Nat
        BY <1>2
      <3>2. SaysOf(s, "started", t, view[s].task[t].att + 1, TRUE)
        BY <1>3 DEF Start
      <3> QED BY <3>1, <3>2, Zenon
    <2>2. ledger' \in Record /\ ledger'.job = ledger.job /\ view' \in [Sessions -> Record]
      <3>1. TRUE \in BOOLEAN /\ "started" \in {"created", "started", "completed", "failed", "cancelled"}
        OBVIOUS
      <3> QED BY <1>1, <2>1, <3>1, SaysOfType, ZenonT(30)
    <2> QED BY <1>1, <1>3, <2>2, AtWorkFacts, EngineInv DEF Start
  <1>4. CASE Merge(s, t)
    BY <1>1, <1>2, <1>4, AtWorkFacts, EngineInv DEF Merge
  <1>5. CASE Complete(s, t)
    BY <1>1, <1>5, AtWorkFacts, SaysOfType, EngineInv DEF Complete
  <1>6. CASE Fail(s, t)
    <2>1. judged' \subseteq Tasks \X Nat
      BY <1>1, <1>2, <1>6, AtWorkFacts DEF Fail
    <2> QED BY <1>1, <1>2, <1>6, <2>1, AtWorkFacts, SaysOfType, EngineInv DEF Fail
  <1>7. CASE CancelTask(s, t)
    BY <1>1, <1>7, AtWorkFacts, SaysOfType, EngineInv DEF CancelTask
  <1> QED BY <1>3, <1>4, <1>5, <1>6, <1>7

LEMMA OutcomeInv ==
    ASSUME JobInv, NEW s \in Sessions, Conclude(s) \/ CancelJob(s)
    PROVE  JobInv'
  <1>1. Works(s) /\ JobTypeOK
    BY DEF Conclude, CancelJob, JobInv
  <1>2. PICK job \in {"verifying", "completed", "blocked", "failed", "cancelled"} : Says(s, job)
    BY DEF Conclude, CancelJob
  <1>3. ledger' \in Record /\ ledger'.job # "none" /\ view' \in [Sessions -> Record]
    BY <1>1, <1>2, SaysType DEF JobStates, Terminal
  <1> QED BY <1>1, <1>3, AtWorkFacts, EngineInv DEF Conclude, CancelJob

\* A job is launched: no other session has done anything yet.
LEMMA LaunchInv == ASSUME JobInv, LaunchGoal \/ LaunchSprint PROVE JobInv'
  <1>1. pc[Launcher] = "off" /\ \A s \in Sessions : pc[s] = "off"
    BY DEF JobInv, Never, LaunchGoal, LaunchSprint, Launched
  <1>2. Launcher \in Sessions /\ "created" \in JobStates /\ "driving" \in Places /\ JobTypeOK /\ ledger \in Record
    BY DEF Sessions, JobStates, Places, JobInv, JobTypeOK
  <1>3. WithTasks(ledger) \in Record
    BY <1>2, WithTasksType
  <1>4. ledger' \in Record /\ ledger'.job = "created"
    BY <1>2, <1>3, JobEvents DEF LaunchGoal, LaunchSprint, Launched
  <1>5. view' \in [Sessions -> Record]
    BY <1>2, <1>4, RememberType DEF LaunchGoal, LaunchSprint, Launched
  <1>6. /\ pc' \in [Sessions -> Places] /\ pc'[Launcher] = "driving"
        /\ \A r \in Sessions \ {Launcher} : pc'[r] = "off"
    BY <1>1, <1>2, GoType DEF LaunchGoal, LaunchSprint, Launched
  <1>7. CASE LaunchGoal
    <2>1. /\ hb' \in [Sessions -> 0..BeatTicks \cup {Off}] /\ hb'[Launcher] = BeatTicks
      BY <1>2, <1>7, BeatType DEF LaunchGoal
    <2>2. lease'.owner = Launcher /\ lease'.left = 4
      BY <1>2, <1>7, LeaseType DEF LaunchGoal, LeaseTicks
    <2>3. JobTypeOK'
      BY <1>2, <1>4, <1>5, <1>6, <1>7, <2>1, <2>2 DEF JobTypeOK, LaunchGoal, Launched, Places, LeaseTicks
    <2>4. Calm' /\ Never'
      BY <1>4, <1>7 DEF JobInv, Calm, Never, LaunchGoal, Launched
    <2>5. Held'
      BY <1>6, <2>1, <2>2 DEF Held, Steady, Drives, BeatTicks
    <2> QED BY <2>3, <2>4, <2>5 DEF JobInv
  <1>8. CASE LaunchSprint
    <2>1. JobTypeOK'
      BY <1>2, <1>4, <1>5, <1>6, <1>8 DEF JobTypeOK, LaunchSprint, Launched, Places
    <2>2. Calm' /\ Never' /\ Held'
      BY <1>4, <1>8 DEF JobInv, Calm, Never, Held, LaunchSprint, Launched
    <2> QED BY <2>1, <2>2 DEF JobInv
  <1> QED BY <1>7, <1>8

\* A session that looks at the job, or gives it up, is no driver.
LEMMA LookInv ==
    ASSUME JobInv, NEW s \in Sessions, Resume(s) \/ ResumeOrphan(s) \/ Look(s)
    PROVE  JobInv'
  <1>1. JobTypeOK /\ ledger \in Record /\ {"look", "refused", "projected"} \subseteq Places
    BY DEF JobInv, JobTypeOK, Places
  <1>2. CASE Resume(s) \/ ResumeOrphan(s)
    <2>1. PICK ticks \in {0, RestartWait} : Asks(s, ticks)
      BY <1>2 DEF Resume, ResumeOrphan
    <2>2. pc' \in [Sessions -> Places] /\ pc'[s] = "look" /\ \A r \in Sessions \ {s} : pc'[r] = pc[r]
      BY <1>1, <2>1, GoType DEF Asks
    <2>3. wait' \in [Sessions -> 0..RestartWait]
      BY <1>1, <2>1 DEF Asks, JobTypeOK, RestartWait
    <2>4. JobTypeOK'
      BY <1>1, <2>1, <2>2, <2>3 DEF JobTypeOK, Asks, Places
    <2> QED BY <2>1, <2>2, <2>4, Quiet DEF Asks
  <1>3. CASE Look(s)
    <2>1. ledger.job # "none"
      BY <1>3, AtWorkFacts DEF Look
    <2>2. Projected(ledger) \in Record
      BY <1>1, ProjectedType
    <2>3. /\ pc' \in [Sessions -> Places] /\ pc'[s] \in {"refused", "projected"}
          /\ \A r \in Sessions \ {s} : pc'[r] = pc[r]
      BY <1>1, <1>3, GoType DEF Look
    <2>4. view' \in [Sessions -> Record]
      BY <1>1, <1>3, <2>2, RememberType DEF Look, JobTypeOK
    <2>5. JobTypeOK'
      BY <1>1, <1>3, <2>3, <2>4 DEF JobTypeOK, Look, Places
    <2> QED BY <1>3, <2>1, <2>3, <2>5, Quiet DEF Look
  <1> QED BY <1>2, <1>3

\* A session takes the lease when no driver holds it.
LEMMA TakeOverInv == ASSUME JobInv, NEW s \in Sessions, TakeOver(s) PROVE JobInv'
  <1>1. JobTypeOK /\ {"recovering", "waiting", "refused"} \subseteq Places /\ pc[s] = "projected" /\ NoRecord \in Record
    BY NoRecordType DEF JobInv, Places, TakeOver
  <1>2. ledger.job # "none"
    BY <1>1, AtWorkFacts
  <1>3. CASE LeaseFree(s)
    <2>1. /\ pc' \in [Sessions -> Places] /\ pc'[s] = "recovering"
          /\ \A r \in Sessions \ {s} : pc'[r] = pc[r]
      BY <1>1, <1>3, GoType DEF TakeOver
    <2>2. lease'.owner = s /\ lease'.left = 4
      BY <1>1, <1>3, LeaseType DEF TakeOver, LeaseTicks
    <2>3. wait' \in [Sessions -> 0..RestartWait] /\ odd' \subseteq {"stall", "takeover"}
      <3>1. odd' \in {odd, odd \cup {"takeover"}}
        BY <1>3 DEF TakeOver
      <3>2. wait' = [wait EXCEPT ![s] = 0] /\ 0 \in 0..RestartWait
        BY <1>3 DEF TakeOver, RestartWait
      <3> QED BY <1>1, <3>1, <3>2 DEF JobTypeOK
    <2>4. JobTypeOK'
      BY <1>1, <1>3, <2>1, <2>2, <2>3 DEF JobTypeOK, TakeOver, Places, LeaseTicks
    <2>5. "stall" \in odd' <=> "stall" \in odd
      BY <1>3 DEF TakeOver
    <2>6. Calm' /\ Never'
      BY <1>2, <2>5 DEF JobInv, Calm, Never, TakeOver
    <2>7. Held'
      <3> SUFFICES ASSUME mode = "goal", "stall" \notin odd, NEW r \in Sessions PROVE Steady(r)'
        BY <2>5 DEF Held, TakeOver
      <3>1. Steady(r)
        BY DEF JobInv, Held
      <3>2. CASE r = s
        BY <2>1, <2>2, <3>2 DEF Steady, Drives
      <3>3. CASE r # s
        <4>1. r # NoSession
          BY SessionsAreNamed DEF Sessions
        <4>2. ~Drives(r)
          BY <1>3, <3>1, <3>3, <4>1 DEF LeaseFree, Steady
        <4> QED BY <2>1, <3>3, <4>2 DEF Steady, Drives
      <3> QED BY <3>2, <3>3
    <2> QED BY <2>4, <2>6, <2>7 DEF JobInv
  <1>4. CASE ~LeaseFree(s)
    <2>1. /\ pc' \in [Sessions -> Places] /\ pc'[s] \in {"waiting", "refused"}
          /\ \A r \in Sessions \ {s} : pc'[r] = pc[r]
      BY <1>1, <1>4, GoType DEF TakeOver
    <2>2. view' \in [Sessions -> Record]
      BY <1>1, <1>4, RememberType DEF TakeOver
    <2>3. JobTypeOK'
      BY <1>1, <1>4, <2>1, <2>2 DEF JobTypeOK, TakeOver, Places
    <2> QED BY <1>2, <1>4, <2>1, <2>3, Quiet DEF TakeOver
  <1> QED BY <1>3, <1>4

\* Recovery makes records of what it read.
LEMMA RecoverInv == ASSUME JobInv, NEW s \in Sessions, Recover(s) PROVE JobInv'
  <1>1. JobTypeOK /\ "recovered" \in Places /\ pc[s] = "recovering"
    BY DEF JobInv, Places, Recover
  <1>2. ledger.job # "none" /\ ledger \in Record /\ view[s] \in Record
    BY <1>1, AtWorkFacts
  <1>3. /\ pc' \in [Sessions -> Places] /\ pc'[s] = "recovered"
        /\ \A r \in Sessions \ {s} : pc'[r] = pc[r]
    BY <1>1, GoType DEF Recover
  <1>4. ledger' \in Record /\ ledger'.job # "none"
    <2>1. \A t \in Tasks : /\ RecoveryEvent(ledger, "reconciled", t).task[t] \in TaskRecord
                           /\ RecoveryEvent(ledger, "requeued", t).task[t] \in TaskRecord
      <3> SUFFICES ASSUME NEW t \in Tasks
                   PROVE  /\ RecoveryEvent(ledger, "reconciled", t).task[t] \in TaskRecord
                          /\ RecoveryEvent(ledger, "requeued", t).task[t] \in TaskRecord
        OBVIOUS
      <3>1. RecoveryEvent(ledger, "reconciled", t) \in Record /\ RecoveryEvent(ledger, "requeued", t) \in Record
        BY <1>2, RecoveryEvents
      <3> QED BY <3>1 DEF Record, TaskRecord
    <2>2. PICK told \in [Tasks -> TaskRecord], job \in {ledger.job, "executing"} :
             ledger' = [job |-> job, task |-> told]
      <3> DEFINE told == [t \in Tasks |-> IF view[s].task[t].st = "running"
                              THEN RecoveryEvent(ledger, IF Integrated(t) THEN "reconciled" ELSE "requeued", t).task[t]
                              ELSE ledger.task[t]]
      <3>1. told \in [Tasks -> TaskRecord]
        BY <1>2, <2>1 DEF Record, TaskRecord
      <3>2. ledger' = [job |-> ledger'.job, task |-> told] /\ ledger'.job \in {ledger.job, "executing"}
        BY DEF Recover
      <3> QED BY <3>1, <3>2
    <2> QED BY <1>2, <2>2 DEF Record, TaskRecord, JobStates
  <1>5. view' \in [Sessions -> Record]
    <2>1. PICK task \in [Tasks -> TaskRecord], job \in {"created", "executing", view[s].job} :
             Remember(s, [job |-> job, task |-> task])
      <3> DEFINE task == [t \in Tasks |-> Resumed(t, view[s].task[t])]
      <3>1. task \in [Tasks -> TaskRecord]
        BY <1>2, ResumedType DEF Record, TaskRecord
      <3>2. PICK job \in {"created", "executing", view[s].job} : Remember(s, [job |-> job, task |-> task])
        BY DEF Recover
      <3> QED BY <3>1, <3>2
    <2>2. [job |-> job, task |-> task] \in Record
      BY <1>2, <2>1 DEF Record, TaskRecord, JobStates
    <2> QED BY <1>1, <2>1, <2>2, RememberType
  <1>6. JobTypeOK'
    BY <1>1, <1>3, <1>4, <1>5 DEF JobTypeOK, Recover, Places
  <1> QED BY <1>1, <1>3, <1>4, <1>6, Quiet DEF Recover

\* The heartbeat starts, and is on time: an engine that drives the job holds
\* the lease it renews.
LEMMA BeatInv ==
    ASSUME JobInv, JobTypeOK', NEW s \in Sessions, UNCHANGED <<mode, stalled, odd>>,
           lease'.owner = s, lease'.left = 4, pc'[s] = "driving", hb'[s] = BeatTicks,
           \A r \in Sessions \ {s} : pc'[r] = pc[r],
           LeaseFree(s) \/ CanRenew(s), ledger'.job # "none"
    PROVE  JobInv'
  <1>1. Calm' /\ Never'
    BY DEF JobInv, Calm, Never
  <1>2. Held'
    <2> SUFFICES ASSUME mode = "goal", "stall" \notin odd, NEW r \in Sessions PROVE Steady(r)'
      BY DEF Held
    <2>1. Steady(r) /\ r # NoSession
      BY SessionsAreNamed DEF JobInv, Held, Sessions
    <2>2. CASE r = s
      BY <2>2 DEF Steady, Drives, BeatTicks
    <2>3. CASE r # s
      <3>1. ~Drives(r)
        BY <2>1, <2>3 DEF LeaseFree, CanRenew, Steady
      <3> QED BY <2>3, <3>1 DEF Steady, Drives
    <2> QED BY <2>2, <2>3
  <1> QED BY <1>1, <1>2 DEF JobInv

LEMMA HoldInv == ASSUME JobInv, NEW s \in Sessions, Hold(s) PROVE JobInv'
  <1>1. JobTypeOK /\ "driving" \in Places /\ pc[s] = "recovered"
    BY DEF JobInv, Places, Hold
  <1>2. ledger.job # "none"
    BY <1>1, AtWorkFacts
  <1>3. /\ pc' \in [Sessions -> Places] /\ pc'[s] = "driving"
        /\ \A r \in Sessions \ {s} : pc'[r] = pc[r]
    BY <1>1, GoType DEF Hold
  <1>4. CASE LeaseFree(s)
    <2>1. hb' \in [Sessions -> 0..BeatTicks \cup {Off}] /\ hb'[s] = BeatTicks
      BY <1>1, <1>4, BeatType DEF Hold
    <2>2. lease'.owner = s /\ lease'.left = 4
      BY <1>1, <1>4, LeaseType DEF Hold, LeaseTicks
    <2>3. JobTypeOK'
      BY <1>1, <1>3, <2>1, <2>2 DEF JobTypeOK, Hold, Places, LeaseTicks
    <2> QED BY <1>2, <1>3, <1>4, <2>1, <2>2, <2>3, BeatInv DEF Hold
  <1>5. CASE ~LeaseFree(s)
    <2>1. JobTypeOK'
      BY <1>1, <1>3, <1>5 DEF JobTypeOK, Hold, Places
    <2>2. "stall" \in odd \/ mode # "goal"
      <3>1. Drives(s) /\ (mode = "goal" /\ "stall" \notin odd => lease.owner = s)
        BY <1>1 DEF JobInv, Held, Steady, Drives
      <3> QED BY <1>5, <3>1 DEF LeaseFree
    <2>3. Calm' /\ Never' /\ Held'
      BY <1>2, <2>2 DEF JobInv, Calm, Never, Held, Hold
    <2> QED BY <2>1, <2>3 DEF JobInv
  <1> QED BY <1>4, <1>5

LEMMA HeartbeatInv == ASSUME JobInv, NEW s \in Sessions, Heartbeat(s) PROVE JobInv'
  <1>1. JobTypeOK /\ "fenced" \in Places /\ pc[s] = "driving"
    BY DEF JobInv, Places, Heartbeat, Works, Driving
  <1>2. ledger.job # "none"
    BY <1>1, AtWorkFacts
  <1>3. hb' \in [Sessions -> 0..BeatTicks \cup {Off}] /\ (\A r \in Sessions \ {s} : hb'[r] = hb[r])
    BY <1>1, BeatType DEF Heartbeat
  <1>4. CASE CanRenew(s) /\ lease' = Acquired(s) /\ Beat(s, BeatTicks) /\ UNCHANGED <<pc, faults>>
    <2>1. lease'.owner = s /\ lease'.left = 4 /\ hb'[s] = BeatTicks
      BY <1>1, <1>4, LeaseType, BeatType DEF LeaseTicks
    <2>2. JobTypeOK'
      BY <1>1, <1>3, <1>4, <2>1 DEF JobTypeOK, Heartbeat, LeaseTicks
    <2> QED BY <1>1, <1>2, <1>4, <2>1, <2>2, BeatInv DEF Heartbeat
  <1>5. CASE Go(s, "fenced") /\ UNCHANGED lease
    <2>1. /\ pc' \in [Sessions -> Places] /\ pc'[s] = "fenced"
          /\ \A r \in Sessions \ {s} : pc'[r] = pc[r]
      BY <1>1, <1>5, GoType
    <2>2. JobTypeOK'
      BY <1>1, <1>3, <1>5, <2>1 DEF JobTypeOK, Heartbeat, Places
    <2> QED BY <1>2, <1>3, <1>5, <2>1, <2>2, Quiet DEF Heartbeat
  <1> QED BY <1>4, <1>5 DEF Heartbeat

\* A driver goes, with its lease or without it.
LEMMA LeaveInv ==
    ASSUME JobInv, NEW s \in Sessions,
           Close(s) \/ PlanFails(s) \/ PlanFailed(s) \/ End(s) \/ StoreFails(s)
    PROVE  JobInv'
  <1>1. /\ JobTypeOK /\ {"stopped", "unplanned", "closing"} \subseteq Places /\ NoRecord \in Record
        /\ "failed" \in JobStates /\ pc[s] # "off"
    BY NoRecordType DEF JobInv, Places, JobStates, Terminal, Close, PlanFails, PlanFailed, End,
       StoreFails, Works, Driving
  <1>2. ledger \in Record /\ ledger.job # "none"
    BY <1>1, AtWorkFacts
  <1>3. /\ pc' \in [Sessions -> Places] /\ pc'[s] \in {"stopped", "unplanned", "closing"}
        /\ \A r \in Sessions \ {s} : pc'[r] = pc[r]
    BY <1>1, GoType DEF Close, PlanFails, PlanFailed, End, StoreFails
  <1>4. hb' \in [Sessions -> 0..BeatTicks \cup {Off}] /\ \A r \in Sessions \ {s} : hb'[r] = hb[r]
    BY <1>1, BeatType DEF JobTypeOK, Close, PlanFails, PlanFailed, End, StoreFails
  <1>5. view' \in [Sessions -> Record]
    BY <1>1, RememberType DEF JobTypeOK, Close, PlanFails, PlanFailed, End, StoreFails
  <1>6. CASE Close(s) \/ PlanFails(s)
    <2>1. /\ lease' = Released(s) /\ lease'.owner \in Sessions \cup {NoSession} /\ lease'.left \in 0..LeaseTicks
      BY <1>1, <1>6, LeaseType DEF Close, PlanFails
    <2>2. JobTypeOK'
      BY <1>1, <1>3, <1>4, <1>5, <1>6, <2>1 DEF JobTypeOK, Close, PlanFails, Places
    <2>3. Calm' /\ Never'
      BY <1>2, <1>6 DEF JobInv, Calm, Never, Close, PlanFails
    <2>4. Held'
      <3> SUFFICES ASSUME mode = "goal", "stall" \notin odd, NEW r \in Sessions PROVE Steady(r)'
        BY <1>6 DEF Held, Close, PlanFails
      <3>1. Steady(r)
        BY DEF JobInv, Held
      <3>2. CASE r = s
        BY <1>3, <3>2 DEF Steady, Drives
      <3>3. CASE r # s
        BY <1>3, <1>4, <2>1, <3>1, <3>3 DEF Released, Steady, Drives
      <3> QED BY <3>2, <3>3
    <2> QED BY <2>2, <2>3, <2>4 DEF JobInv
  <1>7. CASE PlanFailed(s) \/ End(s) \/ StoreFails(s)
    <2>1. ledger' \in Record /\ ledger'.job # "none"
      BY <1>1, <1>2, <1>7, JobEvents DEF PlanFailed, End, StoreFails
    <2>2. JobTypeOK'
      BY <1>1, <1>3, <1>4, <1>5, <1>7, <2>1 DEF JobTypeOK, PlanFailed, End, StoreFails, Kept, Places
    <2> QED BY <1>3, <1>4, <1>7, <2>1, <2>2, Quiet DEF PlanFailed, End, StoreFails, Kept
  <1> QED BY <1>6, <1>7

\* A fenced engine writes, but drives no more.
LEMMA FencedInv ==
    ASSUME JobInv, NEW s \in Sessions, FenceEnd(s) \/ \E t \in Tasks : FenceTask(s, t)
    PROVE  JobInv'
  <1>1. JobTypeOK /\ pc[s] = "fenced" /\ "closing" \in Places /\ "blocked" \in JobStates
    BY DEF JobInv, Places, JobStates, Terminal, FenceEnd, FenceTask
  <1>2. ledger \in Record /\ ledger.job # "none" /\ view \in [Sessions -> Record]
    BY <1>1, AtWorkFacts
  <1>3. CASE FenceEnd(s)
    <2>1. ledger' \in Record /\ ledger'.job # "none" /\ view' \in [Sessions -> Record]
      BY <1>1, <1>2, <1>3, SaysType DEF FenceEnd
    <2>2. /\ pc' \in [Sessions -> Places] /\ pc'[s] = "closing"
          /\ \A r \in Sessions \ {s} : pc'[r] = pc[r]
      BY <1>1, <1>3, GoType DEF FenceEnd
    <2>3. JobTypeOK'
      BY <1>1, <1>3, <2>1, <2>2 DEF JobTypeOK, FenceEnd, Kept, Places
    <2> QED BY <1>3, <2>1, <2>2, <2>3, Quiet DEF FenceEnd, Kept
  <1>4. ASSUME NEW t \in Tasks, FenceTask(s, t) PROVE JobInv'
    <2>1. SaysOf(s, "cancelled", t, 0, TRUE)
      BY <1>4 DEF FenceTask
    <2>2. ledger' \in Record /\ ledger'.job = ledger.job /\ view' \in [Sessions -> Record]
      BY <1>1, <2>1, SaysOfType
    <2> QED BY <1>1, <1>2, <1>4, <2>2, AtWorkFacts, EngineInv DEF FenceTask
  <1> QED BY <1>3, <1>4

\* Time takes no tick from a driver that it needs for its renewal: it waits
\* for the renewals that are due and for sessions on the way to drive.
LEMMA TickInv == ASSUME JobInv, Tick PROVE JobInv'
  <1>1. JobTypeOK
    BY DEF JobInv
  <1>2. lease'.owner = lease.owner /\ lease'.left \in 0..LeaseTicks /\ lease'.left >= lease.left - 1
    BY <1>1 DEF JobTypeOK, Tick, LeaseTicks
  <1>3. hb' \in [Sessions -> 0..BeatTicks \cup {Off}]
    BY <1>1 DEF JobTypeOK, Tick, BeatTicks, Off
  <1>4. wait' \in [Sessions -> 0..RestartWait]
    BY <1>1 DEF JobTypeOK, Tick, RestartWait
  <1>5. pc' \in [Sessions -> Places] /\ \A s \in Sessions : pc'[s] = pc[s] \/ (pc[s] = "waiting" /\ pc'[s] = "look")
    BY <1>1 DEF JobTypeOK, Tick, Places
  <1>6. JobTypeOK'
    BY <1>1, <1>2, <1>3, <1>4, <1>5 DEF JobTypeOK, Tick, Places
  <1>7. Calm'
    BY DEF JobInv, Calm, Tick
  <1>8. Never'
    BY <1>5 DEF JobInv, Never, Tick
  <1>9. Held'
    <2> SUFFICES ASSUME mode = "goal", "stall" \notin odd, NEW s \in Sessions PROVE Steady(s)'
      BY DEF Held, Tick
    <2>1. Steady(s) /\ Prompt(s) /\ stalled = {}
      BY DEF JobInv, Held, Calm, Tick
    <2>2. CASE pc'[s] = "driving"
      <3>1. pc[s] = "driving" /\ lease.owner = s /\ hb[s] = 1 /\ lease.left >= 4
        BY <1>5, <2>1, <2>2 DEF Steady, Drives, Prompt, Up, BeatTicks
      <3>2. hb'[s] = 0
        BY <3>1 DEF Tick, Off
      <3>3. lease'.owner = s /\ lease'.left >= 3
        BY <1>1, <1>2, <3>1 DEF JobTypeOK, LeaseTicks
      <3> QED BY <2>2, <3>2, <3>3 DEF Steady, Drives, BeatTicks
    <2>3. CASE pc'[s] # "driving"
      BY <1>5, <2>1, <2>3 DEF Steady, Drives, Prompt, Up
    <2> QED BY <2>2, <2>3
  <1> QED BY <1>6, <1>7, <1>8, <1>9 DEF JobInv

LEMMA FaultInv ==
    ASSUME JobInv, NEW s \in Sessions, Stall(s) \/ Wake(s) \/ Crash(s)
    PROVE  JobInv'
  <1>1. JobTypeOK /\ {"dead", "look"} \subseteq Places /\ NoRecord \in Record
    BY NoRecordType DEF JobInv, Places
  <1>2. CASE Stall(s)
    <2>1. JobTypeOK'
      BY <1>1, <1>2 DEF JobTypeOK, Stall
    <2> QED BY <1>2, <2>1 DEF JobInv, Calm, Never, Held, Stall
  <1>3. CASE Wake(s)
    <2>1. "stall" \in odd
      BY <1>3 DEF JobInv, Calm, Wake
    <2>2. pc' \in [Sessions -> Places] /\ (pc[s] = "off" => pc' = pc)
      BY <1>1, <1>3 DEF JobTypeOK, Wake, Places
    <2>3. JobTypeOK'
      BY <1>1, <1>3, <2>2 DEF JobTypeOK, Wake, Places
    <2>4. Never'
      BY <1>3 DEF JobInv, Never, Wake
    <2> QED BY <1>3, <2>1, <2>3, <2>4 DEF JobInv, Calm, Held, Wake
  <1>4. CASE Crash(s)
    <2>1. /\ pc' \in [Sessions -> Places] /\ pc'[s] = "dead"
          /\ \A r \in Sessions \ {s} : pc'[r] = pc[r]
      BY <1>1, <1>4, GoType DEF Crash
    <2>2. hb' \in [Sessions -> 0..BeatTicks \cup {Off}] /\ \A r \in Sessions \ {s} : hb'[r] = hb[r]
      BY <1>1, <1>4, BeatType DEF Crash
    <2>3. view' \in [Sessions -> Record] /\ wait' \in [Sessions -> 0..RestartWait]
      BY <1>1, <1>4, RememberType DEF Crash, JobTypeOK, RestartWait
    <2>4. JobTypeOK'
      BY <1>1, <1>4, <2>1, <2>2, <2>3 DEF JobTypeOK, Crash, Places
    <2>5. ledger.job # "none"
      BY <1>4, AtWorkFacts DEF Crash, Up
    <2> QED BY <1>4, <2>1, <2>2, <2>4, <2>5, Quiet DEF Crash
  <1> QED BY <1>2, <1>3, <1>4

LEMMA JobStepInv == ASSUME JobInv, JobStep PROVE JobInv'
  <1>1. CASE LaunchGoal \/ LaunchSprint \/ Tick
    BY <1>1, LaunchInv, TickInv
  <1>2. ASSUME NEW s \in Sessions,
               \/ Resume(s) \/ ResumeOrphan(s) \/ Look(s) \/ TakeOver(s) \/ Recover(s) \/ Hold(s)
               \/ Plan(s) \/ PlanMade(s) \/ PlanEnd(s) \/ Conclude(s) \/ CancelJob(s) \/ End(s) \/ Close(s)
               \/ PlanFails(s) \/ PlanFailed(s) \/ StoreFails(s)
               \/ Heartbeat(s) \/ FenceEnd(s) \/ Stall(s) \/ Wake(s) \/ Crash(s)
        PROVE  JobInv'
    BY <1>2, LookInv, TakeOverInv, RecoverInv, HoldInv, PlanInv, OutcomeInv, LeaveInv, HeartbeatInv,
       FencedInv, FaultInv
  <1>3. ASSUME NEW s \in Sessions, NEW t \in Tasks,
               \/ PlanTask(s, t) \/ Start(s, t) \/ Merge(s, t) \/ Complete(s, t) \/ Fail(s, t)
               \/ CancelTask(s, t) \/ FenceTask(s, t)
        PROVE  JobInv'
    BY <1>3, PlanInv, WorkInv, FencedInv
  <1> QED BY <1>1, <1>2, <1>3 DEF JobStep

LEMMA JobNextInv == JobInv /\ [JobStep]_jobVars => JobInv'
  <1>1. JobInv /\ UNCHANGED jobVars => JobInv'
    BY DEF jobVars, JobInv, JobTypeOK, Calm, Never, Held, Steady, Drives
  <1> QED BY <1>1, JobStepInv

LEMMA JobInvariant == JobSpec => []JobInv
  BY JobInitInv, JobNextInv, PTL DEF JobSpec

-----------------------------------------------------------------------------
\* The records, the lease and the places of the sessions keep their types.
THEOREM DurableJobTypes == JobSpec => []JobTypeOK
  <1>1. JobInv => JobTypeOK
    BY DEF JobInv
  <1> QED BY JobInvariant, <1>1, PTL

\* While no session stalls, a goal job has one driver (the lease and heartbeat
\* of src/runtime/lease.py), whatever the number of sessions that are started,
\* crash, and take the job over.
THEOREM OneDriverAtATime == JobSpec => []OneDriver
  <1>1. ASSUME JobInv PROVE OneDriver
    <2> SUFFICES ASSUME mode = "goal", "stall" \notin odd
                 PROVE  Cardinality({s \in Sessions : Drives(s)}) <= 1
      BY DEF OneDriver
    <2> DEFINE D == {s \in Sessions : Drives(s)}
    <2>1. D \subseteq {lease.owner}
      BY <1>1 DEF JobInv, Held, Steady
    <2>2. IsFiniteSet({lease.owner}) /\ Cardinality({lease.owner}) = 1
      BY FS_Singleton
    <2>3. Cardinality(D) <= Cardinality({lease.owner})
      BY <2>1, <2>2, FS_Subset
    <2> QED BY <2>2, <2>3
  <1> QED BY JobInvariant, <1>1, PTL
-----------------------------------------------------------------------------
(* What the ledger tells and what sessions believe.  While every session that *)
(* took the job over found nobody at work and nothing added to the ledger     *)
(* since it looked (odd is empty), one session is at work at a time, and its   *)
(* record is the ledger's but for what it has not written yet.                *)

Engaged == {"recovered", "driving", "fenced", "unplanned", "closing"}
Unjudged(t, n) == <<t, n>> \in merged /\ <<t, n>> \notin judged

SoundTask(t, k) ==
    /\ k.st = "absent" => k.att = 0
    /\ k.st = "running" => k.att >= 1
    /\ Unjudged(t, k.att) => k.st \in {"running", "succeeded", "cancelled"}
    /\ k.st = "succeeded" => Integrated(t)
SoundJob(R) == R.job \in {"verifying", "completed"} => \A t \in Tasks : R.task[t].st \in {"succeeded", "absent"}
Sound(R) == SoundJob(R) /\ \A t \in Tasks : SoundTask(t, R.task[t])

AgreeTask(k, l) ==
    /\ k.att = l.att
    /\ k.st = "succeeded" <=> l.st = "succeeded"
    /\ k.st = "absent" => l.st = "absent"
    /\ k.st = "running" => l.st = "running"
AgreeJob(R, L) == \/ R.job = L.job
                  \/ /\ R.job = "created" /\ L.job \notin Terminal
                     /\ \A t \in Tasks : R.task[t].st = "absent"
Agree(R, L) == AgreeJob(R, L) /\ \A t \in Tasks : AgreeTask(R.task[t], L.task[t])

OwnFacts(s) ==
    /\ pc[s] = "projected" => view[s].job \notin Terminal
    /\ pc[s] = "recovering" => view[s] = ledger /\ ledger.job \notin Terminal
    /\ pc[s] \in Engaged => Sound(view[s]) /\ Agree(view[s], ledger)
    /\ pc[s] = "unplanned" => view[s].job = "planning"

Attempted == \A t \in Tasks, n \in Nat : <<t, n>> \in merged => 1 <= n /\ n <= ledger.task[t].att
Sole == \A r, s \in Sessions : AtWork(r) /\ AtWork(s) => r = s
Accord == Sole /\ Sound(ledger) /\ Attempted /\ \A s \in Sessions : OwnFacts(s)
Accorded == odd = {} => Accord

\* What the log of one step may do to what the ledger has settled.
Settles ==
    /\ ledger.job \in Terminal => ledger'.job = ledger.job
    /\ \A t \in Tasks : ledger.task[t].st = "succeeded" => ledger'.task[t].st = "succeeded"
NotRedone ==
    \A t \in Tasks : LET n == ledger.task[t].att IN
        ledger'.task[t].att > n /\ <<t, n>> \in merged => <<t, n>> \in judged
Good == Accord' /\ Settles /\ NotRedone

LEMMA InitAccord == JobInit => Accord
  BY DEF JobInit, Accord, Sole, AtWork, Drives, Sound, SoundJob, SoundTask, Unjudged, Attempted, OwnFacts,
         Engaged, NoRecord

\* A step of one session leaves the others where they are.  Either it was at
\* work, and they were not, or nobody was, or it only looks.
LEMMA Frame ==
    ASSUME Accord, NEW s \in Sessions,
           \A r \in Sessions \ {s} : pc'[r] = pc[r] /\ view'[r] = view[r],
           \/ AtWork(s)
           \/ \A r \in Sessions : ~AtWork(r)
           \/ UNCHANGED <<ledger, merged, judged>> /\ ~AtWork(s)',
           OwnFacts(s)', Sound(ledger)', Attempted'
    PROVE  Accord'
  <1>1. \A r \in Sessions \ {s} : AtWork(r)' <=> AtWork(r)
    BY DEF AtWork, Drives
  <1>2. Sole'
    BY <1>1 DEF Accord, Sole
  <1>3. ASSUME NEW r \in Sessions \ {s} PROVE OwnFacts(r)'
    <2>1. OwnFacts(r)
      BY DEF Accord
    <2>2. CASE ~AtWork(r)
      BY <2>1, <2>2 DEF OwnFacts, AtWork, Drives, Engaged
    <2>3. CASE AtWork(r)
      <3>1. UNCHANGED <<ledger, merged, judged>>
        BY <2>3 DEF Accord, Sole
      <3> QED BY <2>1, <3>1 DEF OwnFacts, Sound, SoundJob, SoundTask, Unjudged, Integrated, Agree, AgreeJob, AgreeTask
    <2> QED BY <2>2, <2>3
  <1> QED BY <1>2, <1>3 DEF Accord

\* What an event makes of the task it is about, and of the others.
Became(R, Q, kind, t, n) ==
    /\ Q.job = R.job
    /\ \A u \in Tasks \ {t} : Q.task[u] = R.task[u]
    /\ kind = "created" =>
         Q.task[t] = IF R.task[t].st = "absent" THEN [st |-> "pending", att |-> 0] ELSE R.task[t]
    /\ kind = "started" => Q.task[t] = [st |-> "running", att |-> n]
    /\ kind = "completed" => Q.task[t] = [st |-> "succeeded", att |-> R.task[t].att]
    /\ kind = "failed" => \E st \in {"ready", "failed"} : Q.task[t] = [st |-> st, att |-> n]
    /\ kind = "cancelled" =>
         Q.task[t] = IF R.task[t].st \in {"succeeded", "failed"} THEN R.task[t]
                     ELSE [st |-> "cancelled", att |-> R.task[t].att]

LEMMA Effect ==
    ASSUME NEW R \in Record, NEW t \in Tasks, NEW n \in Nat, NEW retry \in BOOLEAN,
           NEW kind \in {"created", "started", "completed", "failed", "cancelled"}
    PROVE  Became(R, TaskEvent(R, kind, t, n, retry), kind, t, n)
  <1>0. TaskEvent(R, kind, t, n, retry).job = R.job
    BY TaskEvents
  <1>1. ASSUME NEW st, NEW m
        PROVE  /\ Set(R, t, st, m).task[t] = [st |-> st, att |-> m]
               /\ \A u \in Tasks \ {t} : Set(R, t, st, m).task[u] = R.task[u]
    BY DEF Set, Record
  <1>2. CASE kind = "created"
    BY <1>1, <1>2, <1>0 DEF TaskEvent, Became
  <1>3. CASE kind = "started"
    BY <1>1, <1>3, <1>0 DEF TaskEvent, Became
  <1>4. CASE kind = "completed"
    BY <1>1, <1>4, <1>0 DEF TaskEvent, Became
  <1>5. CASE kind = "failed"
    BY <1>1, <1>5, <1>0 DEF TaskEvent, Became
  <1>6. CASE kind = "cancelled"
    BY <1>1, <1>6, <1>0 DEF TaskEvent, Became
  <1> QED BY <1>2, <1>3, <1>4, <1>5, <1>6

\* A session at work that says something of one task, which is open to it.
LEMMA OfOneTask ==
    ASSUME JobInv, Accord, NEW s \in Sessions, NEW t \in Tasks,
           pc[s] \in {"driving", "fenced"}, pc' = pc,
           \A r \in Sessions \ {s} : view'[r] = view[r],
           view'[s].job = view[s].job, ledger'.job = ledger.job,
           view[s].task[t].st \notin {"succeeded", "absent"},
           \A u \in Tasks \ {t} : view'[s].task[u] = view[s].task[u] /\ ledger'.task[u] = ledger.task[u],
           \A u \in Tasks \ {t}, n \in Nat : /\ <<u, n>> \in merged' <=> <<u, n>> \in merged
                                             /\ <<u, n>> \in judged' <=> <<u, n>> \in judged,
           \A n \in Nat : <<t, n>> \in merged => <<t, n>> \in merged',
           \A n \in Nat : <<t, n>> \in merged' => 1 <= n /\ n <= ledger'.task[t].att,
           SoundTask(t, view[s].task[t])', SoundTask(t, ledger.task[t])',
           AgreeTask(view[s].task[t], ledger.task[t])',
           merged' \subseteq Tasks \X Nat
    PROVE  Accord'
  <1>1. Sound(view[s]) /\ Agree(view[s], ledger) /\ Sound(ledger) /\ Attempted
    BY DEF Accord, OwnFacts, Engaged
  <1>2. view[s].job \notin {"verifying", "completed"} /\ ledger.job = view[s].job
    BY <1>1 DEF Sound, SoundJob, Agree, AgreeJob
  <1>3. \A u \in Tasks : view[s].task[u].att \in Nat /\ ledger.task[u].att \in Nat
    BY DEF JobInv, JobTypeOK, Record
  <1>4. ASSUME NEW u \in Tasks
        PROVE  /\ SoundTask(u, view[s].task[u])' /\ SoundTask(u, ledger.task[u])'
               /\ AgreeTask(view[s].task[u], ledger.task[u])'
    <2>1. CASE u = t
      BY <2>1
    <2>2. CASE u # t
      <3>1. SoundTask(u, view[s].task[u]) /\ SoundTask(u, ledger.task[u])
            /\ AgreeTask(view[s].task[u], ledger.task[u])
        BY <1>1 DEF Sound, Agree
      <3>2. Integrated(u) => Integrated(u)'
        <4>1. ASSUME NEW m \in merged, m[1] = u PROVE m \in merged'
          <5>1. m = <<u, m[2]>> /\ m[2] \in Nat
            BY <4>1 DEF JobInv, JobTypeOK
          <5> QED BY <2>2, <4>1, <5>1
        <4> QED BY <4>1 DEF Integrated
      <3> QED BY <1>3, <2>2, <3>1, <3>2 DEF SoundTask, Unjudged, AgreeTask
    <2> QED BY <2>1, <2>2
  <1>5. Sound(view[s])' /\ Sound(ledger)' /\ Agree(view[s], ledger)'
    BY <1>2, <1>4 DEF Sound, SoundJob, Agree, AgreeJob
  <1>6. Attempted'
    BY <1>1 DEF Attempted
  <1>7. OwnFacts(s)'
    BY <1>5 DEF OwnFacts, Engaged
  <1> QED BY <1>5, <1>6, <1>7, Frame DEF AtWork, Drives

\* What a session at work knows.
LEMMA KnownAtWork ==
    ASSUME JobInv, Accord, NEW s \in Sessions, pc[s] \in {"driving", "fenced"}, NEW t \in Tasks
    PROVE  /\ view[s] \in Record /\ view \in [Sessions -> Record] /\ ledger \in Record
           /\ view[s].task[t].att \in Nat /\ ledger.task[t].att \in Nat
           /\ merged \subseteq Tasks \X Nat /\ judged \subseteq Tasks \X Nat
           /\ Sound(view[s]) /\ Agree(view[s], ledger) /\ Sound(ledger)
           /\ SoundTask(t, view[s].task[t]) /\ SoundTask(t, ledger.task[t])
           /\ AgreeTask(view[s].task[t], ledger.task[t])
           /\ \A n \in Nat : <<t, n>> \in merged => 1 <= n /\ n <= ledger.task[t].att
  BY DEF JobInv, JobTypeOK, Record, Accord, OwnFacts, Engaged, Sound, Agree, Attempted

\* An event of one task, appended by a session for which it is open, that does
\* not take an attempt back from the branch.
LEMMA SaidOfOneTask ==
    ASSUME JobInv, Accord, NEW s \in Sessions, NEW t \in Tasks,
           pc[s] \in {"driving", "fenced"}, pc' = pc, merged' = merged,
           view[s].task[t].st \in {"pending", "ready", "running"},
           NEW n \in Nat, NEW retry \in BOOLEAN,
           NEW kind \in {"created", "started", "completed", "failed", "cancelled"},
           SaysOf(s, kind, t, n, retry),
           \/ kind = "started" /\ n = view[s].task[t].att + 1 /\ judged' = judged
              /\ view[s].task[t].st \in {"pending", "ready"}
           \/ kind = "completed" /\ <<t, view[s].task[t].att>> \in merged /\ judged' = judged
              /\ view[s].task[t].st = "running"
           \/ kind = "failed" /\ n = view[s].task[t].att /\ judged' = judged \cup {<<t, n>>}
              /\ view[s].task[t].st = "running"
           \/ kind = "cancelled" /\ judged' = judged
    PROVE  Good
  <1> DEFINE k == view[s].task[t]
             l == ledger.task[t]
             R == TaskEvent(view[s], kind, t, n, retry)
             L == TaskEvent(ledger, kind, t, n, retry)
  <1>1. /\ view[s] \in Record /\ view \in [Sessions -> Record] /\ ledger \in Record
        /\ k.att \in Nat /\ l.att \in Nat /\ merged \subseteq Tasks \X Nat /\ judged \subseteq Tasks \X Nat
        /\ SoundTask(t, k) /\ SoundTask(t, l) /\ AgreeTask(k, l)
        /\ \A m \in Nat : <<t, m>> \in merged => 1 <= m /\ m <= l.att
    BY KnownAtWork
  <1>a. Became(view[s], R, kind, t, n)
    <2>1. view[s] \in Record
      BY <1>1
    <2> QED BY <2>1, Effect, ZenonT(30)
  <1>c. Became(ledger, L, kind, t, n)
    <2>1. ledger \in Record
      BY <1>1
    <2> QED BY <2>1, Effect, ZenonT(30)
  <1>b. view' = [view EXCEPT ![s] = R] /\ ledger' = L
    BY DEF SaysOf, Remember
  <1> HIDE DEF R, L
  <1>2. /\ view'[s] = R /\ ledger' = L /\ \A r \in Sessions \ {s} : view'[r] = view[r]
        /\ R.job = view[s].job /\ L.job = ledger.job
    BY <1>1, <1>a, <1>b, <1>c DEF Became
  <1>3. \A u \in Tasks \ {t} : R.task[u] = view[s].task[u] /\ L.task[u] = ledger.task[u]
    BY <1>a, <1>c DEF Became
  <1>4. k.att = l.att /\ l.st # "succeeded" /\ (k.st = "running" => l.st = "running")
    BY <1>1 DEF AgreeTask
  <1>5. /\ SoundTask(t, view[s].task[t])' /\ SoundTask(t, ledger.task[t])'
        /\ AgreeTask(view[s].task[t], ledger.task[t])'
        /\ L.task[t].att \in Nat /\ l.att <= L.task[t].att
        /\ L.task[t].att > l.att => <<t, l.att>> \notin merged \/ <<t, l.att>> \in judged
    <2>1. CASE kind = "started"
      <3>1. R.task[t] = [st |-> "running", att |-> n] /\ L.task[t] = [st |-> "running", att |-> n] /\ n = l.att + 1
        BY <1>1, <1>4, <2>1, <1>a, <1>c DEF Became
      <3> QED BY <1>1, <1>2, <1>4, <2>1, <3>1 DEF SoundTask, Unjudged, AgreeTask
    <2>2. CASE kind = "completed"
      <3>1. /\ R.task[t] = [st |-> "succeeded", att |-> k.att]
            /\ L.task[t] = [st |-> "succeeded", att |-> l.att]
        BY <1>1, <2>2, <1>a, <1>c DEF Became
      <3>2. Integrated(t)'
        BY <2>2 DEF Integrated
      <3> QED BY <1>1, <1>2, <1>4, <2>2, <3>1, <3>2 DEF SoundTask, AgreeTask
    <2>3. CASE kind = "failed"
      <3>1. \E a, b \in {"ready", "failed"} : R.task[t] = [st |-> a, att |-> n] /\ L.task[t] = [st |-> b, att |-> n]
        BY <1>1, <2>3, <1>a, <1>c DEF Became
      <3>2. n = l.att /\ <<t, n>> \in judged'
        BY <1>4, <2>3
      <3> QED BY <1>1, <1>2, <1>4, <2>3, <3>1, <3>2 DEF SoundTask, Unjudged, AgreeTask
    <2>4. CASE kind = "cancelled"
      <3>1. R.task[t] = [st |-> "cancelled", att |-> k.att]
        BY <1>1, <2>4, <1>a, <1>c DEF Became
      <3>2. L.task[t] = IF l.st = "failed" THEN l ELSE [st |-> "cancelled", att |-> l.att]
        BY <1>1, <1>4, <2>4, <1>a, <1>c DEF Became
      <3>3. judged' = judged /\ merged' = merged
        BY <2>4
      <3> QED BY <1>1, <1>2, <1>4, <3>1, <3>2, <3>3 DEF SoundTask, Unjudged, Integrated, AgreeTask
    <2> QED BY <2>1, <2>2, <2>3, <2>4
  <1>6. Accord'
    <2>1. \A u \in Tasks \ {t}, m \in Nat : <<u, m>> \in judged' <=> <<u, m>> \in judged
      OBVIOUS
    <2>2. \A m \in Nat : <<t, m>> \in merged' => 1 <= m /\ m <= L.task[t].att
      BY <1>1, <1>5
    <2> QED BY <1>1, <1>2, <1>3, <1>5, <2>1, <2>2, OfOneTask
  <1>7. Settles
    BY <1>2, <1>3, <1>4 DEF Settles
  <1>8. NotRedone
    <2> SUFFICES ASSUME NEW u \in Tasks, ledger'.task[u].att > ledger.task[u].att,
                        <<u, ledger.task[u].att>> \in merged
                 PROVE  <<u, ledger.task[u].att>> \in judged
      BY DEF NotRedone
    <2>1. ledger.task[u].att \in Nat
      BY <1>1 DEF Record
    <2> QED BY <1>2, <1>3, <1>5, <2>1
  <1> QED BY <1>6, <1>7, <1>8 DEF Good

LEMMA Still == ASSUME JobInv, UNCHANGED ledger PROVE Settles /\ NotRedone
  <1>1. \A t \in Tasks : ledger.task[t].att \in Nat
    BY DEF JobInv, JobTypeOK, Record
  <1> QED BY <1>1 DEF Settles, NotRedone

LEMMA WorkGood ==
    ASSUME JobInv, Accord, NEW s \in Sessions, NEW t \in Tasks,
           Start(s, t) \/ Complete(s, t) \/ Fail(s, t) \/ CancelTask(s, t) \/ FenceTask(s, t)
    PROVE  Good
  <1>1. pc[s] \in {"driving", "fenced"} /\ pc' = pc
    BY DEF Start, Complete, Fail, CancelTask, FenceTask, Works, Driving
  <1>2. view[s].task[t].att \in Nat
    BY <1>1, KnownAtWork
  <1>3. CASE Start(s, t)
    <2>1. view[s].task[t].st \in {"pending", "ready"} /\ merged' = merged /\ judged' = judged
      BY <1>3 DEF Start
    <2>2. SaysOf(s, "started", t, view[s].task[t].att + 1, TRUE)
      BY <1>3 DEF Start
    <2>3. PICK n \in Nat : n = view[s].task[t].att + 1
      BY <1>2
    <2>4. TRUE \in BOOLEAN /\ "started" \in {"created", "started", "completed", "failed", "cancelled"}
      OBVIOUS
    <2>5. view[s].task[t].st \in {"pending", "ready", "running"}
      BY <2>1
    <2>6. SaysOf(s, "started", t, n, TRUE)
      BY <2>2, <2>3, Zenon
    <2> QED BY <1>1, <2>1, <2>3, <2>4, <2>5, <2>6, SaidOfOneTask, ZenonT(60)
  <1>4. CASE Complete(s, t)
    <2>1. /\ view[s].task[t].st = "running" /\ merged' = merged /\ judged' = judged
          /\ <<t, view[s].task[t].att>> \in merged
          /\ SaysOf(s, "completed", t, 0, TRUE)
      BY <1>4 DEF Complete
    <2>2. TRUE \in BOOLEAN /\ "completed" \in {"created", "started", "completed", "failed", "cancelled"} /\ 0 \in Nat
          /\ view[s].task[t].st \in {"pending", "ready", "running"}
      BY <2>1
    <2> QED BY <1>1, <2>1, <2>2, SaidOfOneTask, ZenonT(60)
  <1>5. CASE Fail(s, t)
    <2>1. PICK retry \in BOOLEAN : SaysOf(s, "failed", t, view[s].task[t].att, retry)
      BY <1>5 DEF Fail
    <2>2. PICK n \in Nat : n = view[s].task[t].att /\ SaysOf(s, "failed", t, n, retry)
      BY <1>2, <2>1, Zenon
    <2>3. /\ view[s].task[t].st = "running" /\ merged' = merged /\ judged' = judged \cup {<<t, n>>}
          /\ view[s].task[t].st \in {"pending", "ready", "running"}
          /\ "failed" \in {"created", "started", "completed", "failed", "cancelled"}
      BY <1>5, <2>2 DEF Fail
    <2> QED BY <1>1, <2>2, <2>3, SaidOfOneTask, ZenonT(60)
  <1>6. CASE CancelTask(s, t) \/ FenceTask(s, t)
    <2>1. /\ view[s].task[t].st \in {"pending", "ready", "running"} /\ merged' = merged /\ judged' = judged
          /\ SaysOf(s, "cancelled", t, 0, TRUE)
      BY <1>6 DEF CancelTask, FenceTask, Open
    <2>2. TRUE \in BOOLEAN /\ "cancelled" \in {"created", "started", "completed", "failed", "cancelled"} /\ 0 \in Nat
      OBVIOUS
    <2> QED BY <1>1, <2>1, <2>2, SaidOfOneTask, ZenonT(60)
  <1> QED BY <1>3, <1>4, <1>5, <1>6

LEMMA MergeGood == ASSUME JobInv, Accord, NEW s \in Sessions, NEW t \in Tasks, Merge(s, t) PROVE Good
  <1>1. /\ pc[s] = "driving" /\ pc' = pc /\ view' = view /\ ledger' = ledger /\ judged' = judged
        /\ view[s].task[t].st = "running" /\ merged' = merged \cup {<<t, view[s].task[t].att>>}
    BY DEF Merge, Works, Driving
  <1>2. Settles /\ NotRedone
    BY <1>1, Still
  <1>3. /\ view[s].task[t].att \in Nat /\ ledger.task[t].att \in Nat /\ merged \subseteq Tasks \X Nat
        /\ SoundTask(t, view[s].task[t]) /\ SoundTask(t, ledger.task[t])
        /\ AgreeTask(view[s].task[t], ledger.task[t])
        /\ \A n \in Nat : <<t, n>> \in merged => 1 <= n /\ n <= ledger.task[t].att
    BY <1>1, KnownAtWork
  <1>4. /\ SoundTask(t, view[s].task[t])' /\ SoundTask(t, ledger.task[t])'
        /\ AgreeTask(view[s].task[t], ledger.task[t])'
    BY <1>1, <1>3 DEF SoundTask, AgreeTask, Integrated
  <1>5. \A n \in Nat : <<t, n>> \in merged' => 1 <= n /\ n <= ledger'.task[t].att
    BY <1>1, <1>3 DEF SoundTask, AgreeTask
  <1>6. Accord'
    BY <1>1, <1>3, <1>4, <1>5, OfOneTask
  <1> QED BY <1>2, <1>6 DEF Good

\* An event of the job, appended by a session for which it has not ended.
LEMMA SaidOfTheJob ==
    ASSUME JobInv, Accord, NEW s \in Sessions, NEW job \in JobStates, Says(s, job),
           pc[s] \in {"driving", "fenced"}, pc'[s] \in {"driving", "closing"},
           \A r \in Sessions \ {s} : pc'[r] = pc[r], UNCHANGED <<merged, judged>>,
           view[s].job \notin Terminal,
           job \in {"verifying", "completed"} => \A t \in Tasks : view[s].task[t].st \in {"succeeded", "absent"}
    PROVE  Good
  <1>1. /\ view[s] \in Record /\ view \in [Sessions -> Record] /\ ledger \in Record
        /\ Sound(view[s]) /\ Agree(view[s], ledger) /\ Sound(ledger) /\ Attempted
    BY DEF JobInv, JobTypeOK, Accord, OwnFacts, Engaged
  <1>2. /\ view'[s].job = job /\ view'[s].task = view[s].task /\ ledger'.job = job /\ ledger'.task = ledger.task
        /\ \A r \in Sessions \ {s} : view'[r] = view[r]
    BY <1>1 DEF Says, Remember, JobEvent, Record
  <1>3. \A t \in Tasks : view[s].task[t].st \in {"succeeded", "absent"} => ledger.task[t].st \in {"succeeded", "absent"}
    BY <1>1 DEF Agree, AgreeTask
  <1>4. Sound(view[s])' /\ Sound(ledger)'
    BY <1>1, <1>2, <1>3 DEF Sound, SoundJob, SoundTask, Unjudged, Integrated
  <1>5. Agree(view[s], ledger)' /\ Attempted'
    BY <1>1, <1>2 DEF Agree, AgreeJob, AgreeTask, Attempted
  <1>6. OwnFacts(s)'
    BY <1>4, <1>5 DEF OwnFacts, Engaged
  <1>7. Accord'
    BY <1>2, <1>4, <1>5, <1>6, Frame DEF AtWork, Drives
  <1>8. Settles
    BY <1>1, <1>2 DEF Settles, Agree, AgreeJob
  <1>9. NotRedone
    <2>1. \A t \in Tasks : ledger.task[t].att \in Nat
      BY <1>1 DEF Record
    <2> QED BY <1>2, <2>1 DEF NotRedone
  <1> QED BY <1>7, <1>8, <1>9 DEF Good

LEMMA PhaseGood ==
    ASSUME JobInv, Accord, NEW s \in Sessions,
           Plan(s) \/ PlanEnd(s) \/ Conclude(s) \/ CancelJob(s) \/ FenceEnd(s)
    PROVE  Good
  <1>1. /\ JobTypeOK
        /\ {"planning", "executing", "cancelled", "blocked", "verifying", "completed", "failed"} \subseteq JobStates
    BY DEF JobInv, JobStates, Terminal
  <1>2. CASE Plan(s) \/ PlanEnd(s)
    <2>1. PICK job \in {"planning", "executing"} : Says(s, job)
      BY <1>2 DEF Plan, PlanEnd
    <2>2. /\ pc[s] = "driving" /\ pc' = pc /\ UNCHANGED <<merged, judged>> /\ view[s].job \notin Terminal
      BY <1>2 DEF Plan, PlanEnd, Works, Driving, Terminal
    <2> QED BY <1>1, <2>1, <2>2, SaidOfTheJob
  <1>3. CASE Conclude(s) \/ CancelJob(s)
    <2>1. PICK job \in {"verifying", "completed", "blocked", "failed", "cancelled"} :
            Says(s, job) /\ (job = "completed" => view[s].job = "verifying")
            /\ (job = "verifying" => \A t \in Tasks : view[s].task[t].st \in {"succeeded", "absent"})
      BY <1>3 DEF Conclude, CancelJob
    <2>2. /\ pc[s] = "driving" /\ pc' = pc /\ UNCHANGED <<merged, judged>> /\ view[s].job \notin Terminal
      BY <1>3 DEF Conclude, CancelJob, Works, Driving, Terminal
    <2>3. view[s].job = "verifying" => \A t \in Tasks : view[s].task[t].st \in {"succeeded", "absent"}
      BY <2>2 DEF Accord, OwnFacts, Engaged, Sound, SoundJob
    <2> QED BY <1>1, <2>1, <2>2, <2>3, SaidOfTheJob
  <1>4. CASE FenceEnd(s) /\ view[s].job \notin Terminal
    <2>1. /\ Says(s, "blocked") /\ pc[s] = "fenced" /\ UNCHANGED <<merged, judged>> /\ Go(s, "closing")
      BY <1>4 DEF FenceEnd
    <2>2. pc'[s] = "closing" /\ \A r \in Sessions \ {s} : pc'[r] = pc[r]
      BY <1>1, <2>1, GoType DEF Places
    <2> QED BY <1>1, <1>4, <2>1, <2>2, SaidOfTheJob
  <1>5. CASE FenceEnd(s) /\ view[s].job \in Terminal
    <2>1. /\ UNCHANGED <<view, ledger, merged, judged>> /\ pc[s] = "fenced" /\ Go(s, "closing")
      BY <1>5 DEF FenceEnd
    <2>2. pc'[s] = "closing" /\ \A r \in Sessions \ {s} : pc'[r] = pc[r]
      BY <1>1, <2>1, GoType DEF Places
    <2>3. Sound(view[s])' /\ Agree(view[s], ledger)' /\ Sound(ledger)' /\ Attempted'
      BY <2>1 DEF Accord, OwnFacts, Engaged, Sound, SoundJob, SoundTask, Unjudged, Integrated, Agree, AgreeJob,
                  AgreeTask, Attempted
    <2>4. OwnFacts(s)'
      BY <2>2, <2>3 DEF OwnFacts, Engaged
    <2>5. Accord'
      BY <2>1, <2>2, <2>3, <2>4, Frame DEF AtWork, Drives
    <2> QED BY <2>1, <2>5, Still DEF Good
  <1> QED BY <1>2, <1>3, <1>4, <1>5

\* The plan: tasks enter the record at once and the ledger one by one.
LEMMA PlanMadeGood == ASSUME JobInv, Accord, NEW s \in Sessions, PlanMade(s) PROVE Good
  <1>1. /\ pc[s] = "driving" /\ pc' = pc /\ UNCHANGED <<ledger, merged, judged>>
        /\ view' = [view EXCEPT ![s] = WithTasks(view[s])] /\ view[s].job = "planning"
    BY DEF PlanMade, Works, Driving, Remember
  <1>2. /\ view[s] \in Record /\ view \in [Sessions -> Record]
        /\ Sound(view[s]) /\ Agree(view[s], ledger) /\ Sound(ledger) /\ Attempted
    BY <1>1 DEF JobInv, JobTypeOK, Accord, OwnFacts, Engaged
  <1>3. /\ view'[s] = WithTasks(view[s]) /\ \A r \in Sessions \ {s} : view'[r] = view[r]
        /\ view'[s].job = "planning"
    BY <1>1, <1>2, WithTasksType
  <1>4. \A t \in Tasks : view'[s].task[t] = IF view[s].task[t].st = "absent" THEN [st |-> "pending", att |-> 0]
                                            ELSE view[s].task[t]
    <2> SUFFICES ASSUME NEW t \in Tasks
                 PROVE  WithTasks(view[s]).task[t] = IF view[s].task[t].st = "absent"
                                                     THEN [st |-> "pending", att |-> 0] ELSE view[s].task[t]
      BY <1>3
    <2>1. WithTasks(view[s]).task[t] = TaskEvent(view[s], "created", t, 0, TRUE).task[t]
      BY <1>2 DEF WithTasks, Record
    <2>2. "created" \in {"created", "started", "completed", "failed", "cancelled"} /\ TRUE \in BOOLEAN /\ 0 \in Nat
      OBVIOUS
    <2>3. view[s] \in Record
      BY <1>2
    <2>4. Became(view[s], TaskEvent(view[s], "created", t, 0, TRUE), "created", t, 0)
      BY <2>2, <2>3, Effect, ZenonT(30)
    <2> QED BY <2>1, <2>4 DEF Became
  <1>5. \A t \in Tasks : <<t, 0>> \notin merged
    BY <1>2 DEF Attempted
  <1>6. Sound(view[s])'
    BY <1>1, <1>2, <1>3, <1>4, <1>5 DEF Sound, SoundJob, SoundTask, Unjudged, Integrated
  <1>7. Agree(view[s], ledger)'
    BY <1>1, <1>2, <1>3, <1>4 DEF Agree, AgreeJob, AgreeTask, Sound, SoundTask
  <1>8. Sound(ledger)' /\ Attempted'
    BY <1>1, <1>2 DEF Sound, SoundJob, SoundTask, Unjudged, Integrated, Attempted
  <1>9. OwnFacts(s)'
    BY <1>1, <1>6, <1>7 DEF OwnFacts, Engaged
  <1>10. Accord'
    BY <1>1, <1>3, <1>8, <1>9, Frame DEF AtWork, Drives
  <1> QED BY <1>1, <1>10, Still DEF Good

LEMMA PlanTaskGood == ASSUME JobInv, Accord, NEW s \in Sessions, NEW t \in Tasks, PlanTask(s, t) PROVE Good
  <1> DEFINE L == TaskEvent(ledger, "created", t, 0, TRUE)
  <1>1. /\ pc[s] = "driving" /\ pc' = pc /\ UNCHANGED <<view, merged, judged>> /\ ledger' = L
        /\ view[s].task[t].st # "absent" /\ ledger.task[t].st = "absent"
    BY DEF PlanTask, Works, Driving
  <1>2. /\ ledger \in Record /\ view[s].task[t].att \in Nat
        /\ SoundTask(t, view[s].task[t]) /\ SoundTask(t, ledger.task[t])
        /\ AgreeTask(view[s].task[t], ledger.task[t])
        /\ merged \subseteq Tasks \X Nat
        /\ \A n \in Nat : <<t, n>> \in merged => 1 <= n /\ n <= ledger.task[t].att
    BY <1>1, KnownAtWork
  <1>3. Became(ledger, L, "created", t, 0)
    <2>1. "created" \in {"created", "started", "completed", "failed", "cancelled"} /\ TRUE \in BOOLEAN /\ 0 \in Nat
      OBVIOUS
    <2>2. ledger \in Record
      BY <1>2
    <2> QED BY <2>1, <2>2, Effect, ZenonT(30)
  <1> HIDE DEF L
  <1>4. /\ ledger'.job = ledger.job /\ ledger'.task[t] = [st |-> "pending", att |-> 0]
        /\ \A u \in Tasks \ {t} : ledger'.task[u] = ledger.task[u]
    BY <1>1, <1>3 DEF Became
  <1>5. ledger.task[t].att = 0 /\ view[s].task[t].att = 0 /\ \A n \in Nat : <<t, n>> \notin merged
    BY <1>1, <1>2 DEF SoundTask, AgreeTask
  <1>6. /\ SoundTask(t, view[s].task[t])' /\ SoundTask(t, ledger.task[t])'
        /\ AgreeTask(view[s].task[t], ledger.task[t])'
    BY <1>1, <1>2, <1>4, <1>5 DEF SoundTask, Unjudged, AgreeTask, Integrated
  <1>7. view[s].task[t].st \notin {"succeeded", "absent"}
    BY <1>1, <1>2 DEF AgreeTask
  <1>8. Accord'
    BY <1>1, <1>2, <1>4, <1>5, <1>6, <1>7, OfOneTask
  <1>9. Settles
    BY <1>1, <1>4 DEF Settles
  <1>10. NotRedone
    <2> SUFFICES ASSUME NEW u \in Tasks, ledger'.task[u].att > ledger.task[u].att PROVE FALSE
      BY DEF NotRedone
    <2>1. ledger.task[u].att \in Nat
      BY <1>2 DEF Record
    <2> QED BY <1>4, <1>5, <2>1
  <1> QED BY <1>8, <1>9, <1>10 DEF Good

\* A step that writes nothing: the session only moves.
LEMMA Unwritten ==
    ASSUME JobInv, Accord, NEW s \in Sessions, UNCHANGED <<ledger, merged, judged>>,
           \A r \in Sessions \ {s} : pc'[r] = pc[r] /\ view'[r] = view[r],
           AtWork(s) \/ ~AtWork(s)' \/ \A r \in Sessions : ~AtWork(r),
           OwnFacts(s)'
    PROVE  Good
  <1>1. Sound(ledger)' /\ Attempted'
    BY DEF Accord, Sound, SoundJob, SoundTask, Unjudged, Integrated, Attempted
  <1>2. Accord'
    BY <1>1, Frame
  <1> QED BY <1>2, Still DEF Good

\* The launch: nobody was there before.
LEMMA LaunchGood == ASSUME JobInv, Accord, LaunchGoal \/ LaunchSprint PROVE Good
  <1>1. /\ ledger \in Record /\ view \in [Sessions -> Record] /\ pc \in [Sessions -> Places]
        /\ merged \subseteq Tasks \X Nat /\ Launcher \in Sessions
    BY DEF JobInv, JobTypeOK, Places, Sessions
  <1>2. /\ ledger.job = "none" /\ pc' = [pc EXCEPT ![Launcher] = "driving"]
        /\ view' = [view EXCEPT ![Launcher] = ledger'] /\ UNCHANGED <<merged, judged>>
        /\ ledger' = JobEvent(ledger, "created") \/ ledger' = JobEvent(WithTasks(ledger), "created")
    BY DEF LaunchGoal, LaunchSprint, Launched, Go, Remember
  <1>3. \A r \in Sessions : ~AtWork(r)
    BY <1>2 DEF JobInv, Never, AtWork, Drives
  <1>4. /\ pc'[Launcher] = "driving" /\ view'[Launcher] = ledger'
        /\ \A r \in Sessions \ {Launcher} : pc'[r] = pc[r] /\ view'[r] = view[r]
    BY <1>1, <1>2
  <1>5. WithTasks(ledger) \in Record
    BY <1>1, WithTasksType
  <1>6. /\ ledger'.job = "created"
        /\ ledger'.task = ledger.task \/ ledger'.task = WithTasks(ledger).task
    BY <1>1, <1>2, <1>5 DEF JobEvent, Record
  <1>7. \A t \in Tasks : \/ ledger'.task[t] = ledger.task[t]
                         \/ ledger.task[t].st = "absent" /\ ledger'.task[t] = [st |-> "pending", att |-> 0]
    <2> SUFFICES ASSUME NEW t \in Tasks
                 PROVE  WithTasks(ledger).task[t] = IF ledger.task[t].st = "absent"
                                                    THEN [st |-> "pending", att |-> 0] ELSE ledger.task[t]
      BY <1>6
    <2>1. WithTasks(ledger).task[t] = TaskEvent(ledger, "created", t, 0, TRUE).task[t]
      BY <1>1 DEF WithTasks, Record
    <2>2. "created" \in {"created", "started", "completed", "failed", "cancelled"} /\ TRUE \in BOOLEAN /\ 0 \in Nat
      OBVIOUS
    <2>3. Became(ledger, TaskEvent(ledger, "created", t, 0, TRUE), "created", t, 0)
      BY <1>1, <2>2, Effect, ZenonT(30)
    <2> QED BY <2>1, <2>3 DEF Became
  <1>8. /\ \A t \in Tasks : SoundTask(t, ledger.task[t]) /\ ledger.task[t].att \in Nat
        /\ \A t \in Tasks, n \in Nat : <<t, n>> \in merged => 1 <= n /\ n <= ledger.task[t].att
    BY <1>1 DEF Accord, Sound, Attempted, Record
  <1>9. ASSUME NEW t \in Tasks PROVE SoundTask(t, ledger.task[t])' /\ ledger'.task[t].att = ledger.task[t].att
    <2>1. CASE ledger'.task[t] = ledger.task[t]
      BY <1>2, <1>8, <2>1 DEF SoundTask, Unjudged, Integrated
    <2>2. CASE ledger.task[t].st = "absent" /\ ledger'.task[t] = [st |-> "pending", att |-> 0]
      <3>1. ledger.task[t].att = 0 /\ <<t, 0>> \notin merged'
        BY <1>2, <1>8, <2>2 DEF SoundTask
      <3> QED BY <2>2, <3>1 DEF SoundTask, Unjudged
    <2> QED BY <1>7, <2>1, <2>2
  <1>10. Sound(ledger)' /\ Attempted'
    BY <1>2, <1>6, <1>8, <1>9 DEF Sound, SoundJob, Attempted
  <1>11. OwnFacts(Launcher)'
    BY <1>4, <1>10 DEF OwnFacts, Engaged, Agree, AgreeJob, AgreeTask, Sound, SoundJob, SoundTask, Unjudged, Integrated
  <1>12. Accord'
    BY <1>1, <1>3, <1>4, <1>10, <1>11, Frame
  <1>13. Settles
    BY <1>2, <1>7 DEF Settles, Terminal
  <1>14. NotRedone
    BY <1>8, <1>9 DEF NotRedone
  <1> QED BY <1>12, <1>13, <1>14 DEF Good

\* A session that has not begun to drive.
LEMMA LookGood == ASSUME JobInv, Accord, NEW s \in Sessions, Resume(s) \/ ResumeOrphan(s) \/ Look(s) PROVE Good
  <1>1. /\ ledger \in Record /\ view \in [Sessions -> Record] /\ pc \in [Sessions -> Places]
    BY DEF JobInv, JobTypeOK, Places
  <1>2. UNCHANGED <<ledger, merged, judged>>
    BY DEF Resume, ResumeOrphan, Asks, Look
  <1>3. CASE Resume(s) \/ ResumeOrphan(s)
    <2>1. pc' = [pc EXCEPT ![s] = "look"] /\ view' = view
      BY <1>3 DEF Resume, ResumeOrphan, Asks, Go
    <2>2. pc'[s] = "look" /\ \A r \in Sessions \ {s} : pc'[r] = pc[r] /\ view'[r] = view[r]
      BY <1>1, <2>1
    <2>3. ~AtWork(s)' /\ OwnFacts(s)'
      BY <2>2 DEF AtWork, Drives, OwnFacts, Engaged
    <2> QED BY <1>2, <2>2, <2>3, Unwritten
  <1>4. CASE Look(s)
    <2>1. \/ pc' = [pc EXCEPT ![s] = "refused"] /\ view' = view
          \/ /\ pc' = [pc EXCEPT ![s] = "projected"] /\ view' = [view EXCEPT ![s] = Projected(ledger)]
             /\ Projected(ledger).job \notin Terminal
      BY <1>4 DEF Look, Go, Remember
    <2>2. /\ pc'[s] \in {"refused", "projected"}
          /\ pc'[s] = "projected" => view'[s].job \notin Terminal
          /\ \A r \in Sessions \ {s} : pc'[r] = pc[r] /\ view'[r] = view[r]
      BY <1>1, <2>1
    <2>3. ~AtWork(s)' /\ OwnFacts(s)'
      BY <2>2 DEF AtWork, Drives, OwnFacts, Engaged
    <2> QED BY <1>2, <2>2, <2>3, Unwritten
  <1> QED BY <1>3, <1>4

\* The lease is taken by a session that looked at the ledger as it is, when
\* nobody is at work.
LEMMA TakeOverGood == ASSUME JobInv, Accord, NEW s \in Sessions, TakeOver(s), odd' = {} PROVE Good
  <1>1. /\ ledger \in Record /\ view \in [Sessions -> Record] /\ pc \in [Sessions -> Places]
    BY DEF JobInv, JobTypeOK, Places
  <1>2. UNCHANGED <<ledger, merged, judged>> /\ pc[s] = "projected"
    BY DEF TakeOver
  <1>3. CASE LeaseFree(s)
    <2>1. /\ pc' = [pc EXCEPT ![s] = "recovering"] /\ view' = view
          /\ view[s] = Projected(ledger) /\ ~\E r \in Sessions : AtWork(r)
      BY <1>3 DEF TakeOver, Go
    <2>2. ledger.job \notin Terminal
      BY <1>1, <1>2, <2>1, ProjectedType DEF Accord, OwnFacts
    <2>3. view[s] = ledger
      BY <2>1, <2>2 DEF Projected, Terminal
    <2>4. pc'[s] = "recovering" /\ \A r \in Sessions \ {s} : pc'[r] = pc[r] /\ view'[r] = view[r]
      BY <1>1, <2>1
    <2>5. OwnFacts(s)'
      BY <1>2, <2>1, <2>2, <2>3, <2>4 DEF OwnFacts, Engaged
    <2> QED BY <1>2, <2>1, <2>4, <2>5, Unwritten
  <1>4. CASE ~LeaseFree(s)
    <2>1. /\ \E place \in {"waiting", "refused"} : pc' = [pc EXCEPT ![s] = place]
          /\ view' = [view EXCEPT ![s] = NoRecord]
      BY <1>4 DEF TakeOver, Go, Remember
    <2>2. pc'[s] \in {"waiting", "refused"} /\ \A r \in Sessions \ {s} : pc'[r] = pc[r] /\ view'[r] = view[r]
      BY <1>1, <2>1
    <2>3. ~AtWork(s)' /\ OwnFacts(s)'
      BY <2>2 DEF AtWork, Drives, OwnFacts, Engaged
    <2> QED BY <1>2, <2>2, <2>3, Unwritten
  <1> QED BY <1>3, <1>4

\* Recovery: a task found running is done if a commit of it is in the branch,
\* and is otherwise to be run again, in the record as in the ledger.
LEMMA RecoverGood == ASSUME JobInv, Accord, NEW s \in Sessions, Recover(s) PROVE Good
  <1> DEFINE empty == \A t \in Tasks : view[s].task[t].st = "absent"
             onward == view[s].job = "planning" /\ ~empty
  <1>1. /\ ledger \in Record /\ view \in [Sessions -> Record] /\ pc \in [Sessions -> Places]
        /\ merged \subseteq Tasks \X Nat
    BY DEF JobInv, JobTypeOK, Places
  <1>2. /\ pc[s] = "recovering" /\ pc' = [pc EXCEPT ![s] = "recovered"] /\ UNCHANGED <<merged, judged>>
    BY DEF Recover, Go
  <1>3. view[s] = ledger /\ ledger.job \notin Terminal /\ Sound(ledger) /\ Attempted
    BY <1>2 DEF Accord, OwnFacts
  <1>4. /\ ledger' = [job |-> IF onward THEN "executing" ELSE ledger.job,
                      task |-> [t \in Tasks |->
                        IF view[s].task[t].st = "running"
                        THEN RecoveryEvent(ledger, IF Integrated(t) THEN "reconciled" ELSE "requeued", t).task[t]
                        ELSE ledger.task[t]]]
        /\ view' = [view EXCEPT ![s] =
                     [job |-> IF empty THEN "created" ELSE IF onward THEN "executing" ELSE view[s].job,
                      task |-> [t \in Tasks |-> Resumed(t, view[s].task[t])]]]
    BY DEF Recover, Remember
  <1>5. /\ view'[s].job = (IF empty THEN "created" ELSE IF onward THEN "executing" ELSE view[s].job)
        /\ \A t \in Tasks : view'[s].task[t] = Resumed(t, ledger.task[t])
        /\ pc'[s] = "recovered"
        /\ \A r \in Sessions \ {s} : pc'[r] = pc[r] /\ view'[r] = view[r]
    BY <1>1, <1>2, <1>3, <1>4
  <1>6. ledger'.job = IF onward THEN "executing" ELSE ledger.job
    BY <1>4
  <1>7. \A t \in Tasks : ledger.task[t].att \in Nat /\ SoundTask(t, ledger.task[t])
    BY <1>1, <1>3 DEF Record, Sound
  <1>8. \A t \in Tasks : ledger.task[t] = [st |-> ledger.task[t].st, att |-> ledger.task[t].att]
    BY <1>1 DEF Record
  <1>9. ASSUME NEW t \in Tasks
        PROVE  ledger'.task[t] = IF ledger.task[t].st = "running"
                                 THEN [st |-> IF Integrated(t) THEN "succeeded" ELSE "ready", att |-> ledger.task[t].att]
                                 ELSE ledger.task[t]
    <2>1. ledger'.task[t] = IF ledger.task[t].st = "running"
                            THEN RecoveryEvent(ledger, IF Integrated(t) THEN "reconciled" ELSE "requeued", t).task[t]
                            ELSE ledger.task[t]
      BY <1>3, <1>4
    <2>2. ASSUME NEW kind, ledger.task[t].st = "running"
          PROVE  RecoveryEvent(ledger, kind, t).task[t]
                   = [st |-> IF kind = "reconciled" THEN "succeeded" ELSE "ready", att |-> ledger.task[t].att]
      BY <1>1, <2>2 DEF RecoveryEvent, Set, Record
    <2> QED BY <2>1, <2>2
  <1>10. ASSUME NEW t \in Tasks
         PROVE  view'[s].task[t] = IF ledger.task[t].st = "running" THEN ledger'.task[t]
                                   ELSE IF ledger.task[t].st = "failed" /\ ledger.task[t].att < MaxAttempts
                                   THEN [st |-> "ready", att |-> ledger.task[t].att]
                                   ELSE ledger.task[t]
    BY <1>5, <1>8, <1>9 DEF Resumed
  <1> HIDE DEF empty, onward
  <1>11. ASSUME NEW t \in Tasks
         PROVE  /\ SoundTask(t, ledger.task[t])' /\ SoundTask(t, view[s].task[t])'
                /\ AgreeTask(view[s].task[t], ledger.task[t])'
                /\ ledger'.task[t].att = ledger.task[t].att
    <2> DEFINE old == ledger.task[t]
               new == ledger'.task[t]
               own == view'[s].task[t]
    <2>1. old.att \in Nat /\ SoundTask(t, old) /\ (Integrated(t)' <=> Integrated(t))
          /\ \A n : Unjudged(t, n)' <=> Unjudged(t, n)
      BY <1>2, <1>7 DEF Integrated, Unjudged
    <2>2. Unjudged(t, old.att) => Integrated(t)
      BY DEF Unjudged, Integrated
    <2>3. CASE old.st = "running" /\ Integrated(t)
      <3>1. new = [st |-> "succeeded", att |-> old.att]
        BY <1>9, <2>3
      <3>2. own = new
        BY <1>10, <2>3
      <3> QED BY <2>1, <2>3, <3>1, <3>2 DEF SoundTask, AgreeTask
    <2>4. CASE old.st = "running" /\ ~Integrated(t)
      <3>1. new = [st |-> "ready", att |-> old.att]
        BY <1>9, <2>4
      <3>2. own = new
        BY <1>10, <2>4
      <3> QED BY <2>1, <2>2, <2>4, <3>1, <3>2 DEF SoundTask, AgreeTask
    <2>5. CASE old.st = "failed"
      <3>1. new = old /\ (own = old \/ own = [st |-> "ready", att |-> old.att])
        BY <1>9, <1>10, <2>5
      <3> QED BY <2>1, <2>5, <3>1 DEF SoundTask, AgreeTask
    <2>6. CASE old.st \notin {"running", "failed"}
      <3>1. new = old /\ own = old
        BY <1>9, <1>10, <2>6
      <3> QED BY <2>1, <2>6, <3>1 DEF SoundTask, AgreeTask
    <2> QED BY <2>3, <2>4, <2>5, <2>6
  <1>12. /\ ledger'.job \in {"verifying", "completed"} => ledger.job = ledger'.job
         /\ view'[s].job \in {"verifying", "completed"} => ledger.job = view'[s].job
    BY <1>3, <1>5, <1>6
  <1>13. SoundJob(ledger)' /\ SoundJob(view[s])'
    BY <1>3, <1>9, <1>10, <1>12 DEF Sound, SoundJob
  <1>14. Sound(ledger)' /\ Sound(view[s])'
    BY <1>11, <1>13 DEF Sound
  <1>15. Attempted'
    BY <1>2, <1>3, <1>11 DEF Attempted
  <1>16. AgreeJob(view[s], ledger)'
    <2>1. CASE empty
      <3>1. \A t \in Tasks : view'[s].task[t].st = "absent"
        BY <1>3, <1>10, <2>1 DEF empty
      <3>2. ~onward
        BY <2>1 DEF onward
      <3> QED BY <1>3, <1>5, <1>6, <2>1, <3>1, <3>2 DEF AgreeJob
    <2>2. CASE ~empty
      BY <1>3, <1>5, <1>6, <2>2 DEF AgreeJob
    <2> QED BY <2>1, <2>2
  <1>17. OwnFacts(s)'
    BY <1>5, <1>11, <1>14, <1>16 DEF OwnFacts, Engaged, Agree
  <1>18. Accord'
    BY <1>2, <1>5, <1>14, <1>15, <1>17, Frame DEF AtWork, Drives
  <1>19. Settles
    BY <1>3, <1>9 DEF Settles
  <1>20. NotRedone
    BY <1>7, <1>11 DEF NotRedone
  <1> QED BY <1>18, <1>19, <1>20 DEF Good

\* The lease and the heartbeat as such: the driver goes on, or is fenced.
LEMMA HoldGood == ASSUME JobInv, Accord, NEW s \in Sessions, Hold(s) \/ Heartbeat(s) PROVE Good
  <1>1. pc \in [Sessions -> Places]
    BY DEF JobInv, JobTypeOK, Places
  <1>2. /\ pc[s] \in {"recovered", "driving"} /\ UNCHANGED <<view, ledger, merged, judged>>
        /\ pc' = pc \/ \E place \in {"driving", "fenced"} : pc' = [pc EXCEPT ![s] = place]
    BY DEF Hold, Heartbeat, Works, Driving, Go
  <1>3. pc'[s] \in {"recovered", "driving", "fenced"} /\ \A r \in Sessions \ {s} : pc'[r] = pc[r] /\ view'[r] = view[r]
    BY <1>1, <1>2
  <1>4. Sound(view[s]) /\ Agree(view[s], ledger)
    BY <1>2 DEF Accord, OwnFacts, Engaged
  <1>5. Sound(view[s])' /\ Agree(view[s], ledger)'
    BY <1>2, <1>4 DEF Sound, SoundJob, SoundTask, Unjudged, Integrated, Agree, AgreeJob, AgreeTask
  <1>6. OwnFacts(s)' /\ AtWork(s)
    BY <1>2, <1>3, <1>5 DEF OwnFacts, Engaged, AtWork, Drives
  <1> QED BY <1>2, <1>3, <1>6, Unwritten

\* A driver that ends, and one that fails to plan.
LEMMA LeaveGood ==
    ASSUME JobInv, Accord, NEW s \in Sessions, End(s) \/ StoreFails(s) \/ PlanFails(s) \/ Close(s)
    PROVE  Good
  <1>1. pc \in [Sessions -> Places] /\ view \in [Sessions -> Record]
    BY DEF JobInv, JobTypeOK, Places
  <1>2. CASE End(s) \/ StoreFails(s) \/ PlanFails(s)
    <2>1. /\ pc[s] = "driving" /\ UNCHANGED <<view, ledger, merged, judged>>
          /\ \/ pc' = [pc EXCEPT ![s] = "closing"]
             \/ pc' = [pc EXCEPT ![s] = "unplanned"] /\ view[s].job = "planning"
      BY <1>2 DEF End, StoreFails, PlanFails, Works, Driving, Go, Kept
    <2>2. /\ pc'[s] \in {"closing", "unplanned"} /\ (pc'[s] = "unplanned" => view'[s].job = "planning")
          /\ \A r \in Sessions \ {s} : pc'[r] = pc[r] /\ view'[r] = view[r]
      BY <1>1, <2>1
    <2>3. Sound(view[s]) /\ Agree(view[s], ledger)
      BY <2>1 DEF Accord, OwnFacts, Engaged
    <2>4. Sound(view[s])' /\ Agree(view[s], ledger)'
      BY <2>1, <2>3 DEF Sound, SoundJob, SoundTask, Unjudged, Integrated, Agree, AgreeJob, AgreeTask
    <2>5. OwnFacts(s)' /\ AtWork(s)
      BY <2>1, <2>2, <2>4 DEF OwnFacts, Engaged, AtWork, Drives
    <2> QED BY <2>1, <2>2, <2>5, Unwritten
  <1>3. CASE Close(s)
    <2>1. /\ UNCHANGED <<ledger, merged, judged>>
          /\ pc' = [pc EXCEPT ![s] = "stopped"] /\ view' = [view EXCEPT ![s] = NoRecord]
      BY <1>3 DEF Close, Go, Remember
    <2>2. pc'[s] = "stopped" /\ \A r \in Sessions \ {s} : pc'[r] = pc[r] /\ view'[r] = view[r]
      BY <1>1, <2>1
    <2>3. OwnFacts(s)' /\ ~AtWork(s)'
      BY <2>2 DEF OwnFacts, Engaged, AtWork, Drives
    <2> QED BY <2>1, <2>2, <2>3, Unwritten
  <1> QED BY <1>2, <1>3

LEMMA PlanFailedGood == ASSUME JobInv, Accord, NEW s \in Sessions, PlanFailed(s) PROVE Good
  <1>1. pc \in [Sessions -> Places] /\ view \in [Sessions -> Record] /\ ledger \in Record
    BY DEF JobInv, JobTypeOK, Places
  <1>2. /\ pc[s] = "unplanned" /\ UNCHANGED <<merged, judged>> /\ ledger' = JobEvent(ledger, "failed")
        /\ pc' = [pc EXCEPT ![s] = "stopped"] /\ view' = [view EXCEPT ![s] = NoRecord]
    BY DEF PlanFailed, Go, Remember
  <1>3. pc'[s] = "stopped" /\ \A r \in Sessions \ {s} : pc'[r] = pc[r] /\ view'[r] = view[r]
    BY <1>1, <1>2
  <1>4. ledger'.job = "failed" /\ ledger'.task = ledger.task
    BY <1>1, <1>2 DEF JobEvent, Record
  <1>5. ledger.job = "planning" /\ Sound(ledger) /\ Attempted
    BY <1>2 DEF Accord, OwnFacts, Engaged, Agree, AgreeJob
  <1>6. Sound(ledger)' /\ Attempted'
    BY <1>2, <1>4, <1>5 DEF Sound, SoundJob, SoundTask, Unjudged, Integrated, Attempted
  <1>7. OwnFacts(s)' /\ AtWork(s)
    BY <1>2, <1>3 DEF OwnFacts, Engaged, AtWork, Drives
  <1>8. Accord'
    BY <1>3, <1>6, <1>7, Frame
  <1>9. Settles
    BY <1>4, <1>5 DEF Settles, Terminal
  <1>10. NotRedone
    <2>1. \A t \in Tasks : ledger.task[t].att \in Nat
      BY <1>1 DEF Record
    <2> QED BY <1>4, <2>1 DEF NotRedone
  <1> QED BY <1>8, <1>9, <1>10 DEF Good

\* Time only makes waiting sessions look again.
LEMMA TickGood == ASSUME JobInv, Accord, Tick PROVE Good
  <1>1. UNCHANGED <<view, ledger, merged, judged>>
    BY DEF Tick
  <1>2. \A s \in Sessions : pc'[s] = pc[s] \/ (pc[s] = "waiting" /\ pc'[s] = "look")
    BY DEF Tick
  <1>3. \A s \in Sessions : AtWork(s)' <=> AtWork(s)
    BY <1>2 DEF AtWork, Drives
  <1>4. Sound(ledger)' /\ Attempted'
    BY <1>1 DEF Accord, Sound, SoundJob, SoundTask, Unjudged, Integrated, Attempted
  <1>5. ASSUME NEW s \in Sessions PROVE OwnFacts(s)'
    <2>1. OwnFacts(s)
      BY DEF Accord
    <2>2. CASE pc'[s] = "look"
      BY <2>2 DEF OwnFacts, Engaged
    <2>3. CASE pc'[s] = pc[s]
      BY <1>1, <2>1, <2>3 DEF OwnFacts, Sound, SoundJob, SoundTask, Unjudged, Integrated, Agree, AgreeJob, AgreeTask
    <2> QED BY <1>2, <2>2, <2>3
  <1>6. Accord'
    BY <1>3, <1>4, <1>5 DEF Accord, Sole
  <1> QED BY <1>1, <1>6, Still DEF Good

\* A crash takes the session's record with it; nobody has stalled.
LEMMA FaultGood ==
    ASSUME JobInv, Accord, odd' = {}, NEW s \in Sessions, Stall(s) \/ Wake(s) \/ Crash(s)
    PROVE  Good
  <1>1. pc \in [Sessions -> Places] /\ view \in [Sessions -> Record]
    BY DEF JobInv, JobTypeOK, Places
  <1>2. Crash(s)
    BY DEF Stall, Wake, JobInv, Calm
  <1>3. /\ UNCHANGED <<ledger, merged, judged>>
        /\ pc' = [pc EXCEPT ![s] = "dead"] /\ view' = [view EXCEPT ![s] = NoRecord]
    BY <1>2 DEF Crash, Go, Remember
  <1>4. pc'[s] = "dead" /\ \A r \in Sessions \ {s} : pc'[r] = pc[r] /\ view'[r] = view[r]
    BY <1>1, <1>3
  <1>5. OwnFacts(s)' /\ ~AtWork(s)'
    BY <1>4 DEF OwnFacts, Engaged, AtWork, Drives
  <1> QED BY <1>3, <1>4, <1>5, Unwritten

LEMMA StepGood == ASSUME JobInv, Accorded, JobStep, odd' = {} PROVE Accord /\ Good
  <1>1. odd \subseteq odd'
    <2>1. CASE LaunchGoal \/ LaunchSprint \/ Tick
      BY <2>1 DEF LaunchGoal, LaunchSprint, Launched, Tick
    <2>2. ASSUME NEW s \in Sessions,
                 Resume(s) \/ ResumeOrphan(s) \/ Look(s) \/ TakeOver(s) \/ Recover(s) \/ Hold(s)
          PROVE  odd \subseteq odd'
      BY <2>2 DEF Resume, ResumeOrphan, Asks, Look, TakeOver, Recover, Hold
    <2>3. ASSUME NEW s \in Sessions,
                 \/ Plan(s) \/ PlanMade(s) \/ PlanEnd(s) \/ Conclude(s) \/ CancelJob(s) \/ End(s) \/ Close(s)
                 \/ PlanFails(s) \/ PlanFailed(s) \/ StoreFails(s)
          PROVE  odd \subseteq odd'
      BY <2>3 DEF Plan, PlanMade, PlanEnd, Conclude, CancelJob, End, Close, PlanFails, PlanFailed, StoreFails, Kept
    <2>4. ASSUME NEW s \in Sessions, Heartbeat(s) \/ FenceEnd(s) \/ Stall(s) \/ Wake(s) \/ Crash(s)
          PROVE  odd \subseteq odd'
      BY <2>4 DEF Heartbeat, FenceEnd, Stall, Wake, Crash, Kept
    <2>5. ASSUME NEW s \in Sessions, NEW t \in Tasks,
                 \/ PlanTask(s, t) \/ Start(s, t) \/ Merge(s, t) \/ Complete(s, t) \/ Fail(s, t)
                 \/ CancelTask(s, t) \/ FenceTask(s, t)
          PROVE  odd \subseteq odd'
      BY <2>5 DEF PlanTask, Start, Merge, Complete, Fail, CancelTask, FenceTask, Kept
    <2> QED BY <2>1, <2>2, <2>3, <2>4, <2>5 DEF JobStep
  <1>2. Accord
    BY <1>1 DEF Accorded
  <1>3. CASE LaunchGoal \/ LaunchSprint
    BY <1>2, <1>3, LaunchGood
  <1>4. CASE Tick
    BY <1>2, <1>4, TickGood
  <1>5. ASSUME NEW s \in Sessions, Resume(s) \/ ResumeOrphan(s) \/ Look(s) PROVE Good
    BY <1>2, <1>5, LookGood
  <1>6. ASSUME NEW s \in Sessions, TakeOver(s) PROVE Good
    BY <1>2, <1>6, TakeOverGood
  <1>7. ASSUME NEW s \in Sessions, Recover(s) PROVE Good
    BY <1>2, <1>7, RecoverGood
  <1>8. ASSUME NEW s \in Sessions, Hold(s) \/ Heartbeat(s) PROVE Good
    BY <1>2, <1>8, HoldGood
  <1>9. ASSUME NEW s \in Sessions, Plan(s) \/ PlanEnd(s) \/ Conclude(s) \/ CancelJob(s) \/ FenceEnd(s) PROVE Good
    BY <1>2, <1>9, PhaseGood
  <1>10. ASSUME NEW s \in Sessions, PlanMade(s) PROVE Good
    BY <1>2, <1>10, PlanMadeGood
  <1>11. ASSUME NEW s \in Sessions, End(s) \/ StoreFails(s) \/ PlanFails(s) \/ Close(s) PROVE Good
    BY <1>2, <1>11, LeaveGood
  <1>12. ASSUME NEW s \in Sessions, PlanFailed(s) PROVE Good
    BY <1>2, <1>12, PlanFailedGood
  <1>13. ASSUME NEW s \in Sessions, Stall(s) \/ Wake(s) \/ Crash(s) PROVE Good
    BY <1>2, <1>13, FaultGood
  <1>14. ASSUME NEW s \in Sessions, NEW t \in Tasks, PlanTask(s, t) PROVE Good
    BY <1>2, <1>14, PlanTaskGood
  <1>15. ASSUME NEW s \in Sessions, NEW t \in Tasks, Merge(s, t) PROVE Good
    BY <1>2, <1>15, MergeGood
  <1>16. ASSUME NEW s \in Sessions, NEW t \in Tasks,
                Start(s, t) \/ Complete(s, t) \/ Fail(s, t) \/ CancelTask(s, t) \/ FenceTask(s, t)
         PROVE  Good
    BY <1>2, <1>16, WorkGood
  <1> QED BY <1>2, <1>3, <1>4, <1>5, <1>6, <1>7, <1>8, <1>9, <1>10, <1>11, <1>12, <1>13, <1>14, <1>15, <1>16
          DEF JobStep

LEMMA AccordedStep == ASSUME JobInv, Accorded, [JobStep]_jobVars PROVE Accorded'
  <1>1. CASE JobStep
    BY <1>1, StepGood DEF Accorded, Good
  <1>2. CASE UNCHANGED jobVars
    BY <1>2 DEF jobVars, Accorded, Accord, Sole, AtWork, Drives, Sound, SoundJob, SoundTask, Unjudged, Integrated,
                Attempted, OwnFacts, Engaged, Agree, AgreeJob, AgreeTask
  <1> QED BY <1>1, <1>2

LEMMA InAccord == JobSpec => []Accorded
  <1>1. JobInit => Accorded
    BY InitAccord DEF Accorded
  <1>2. JobInv /\ Accorded /\ [JobStep]_jobVars => Accorded'
    BY AccordedStep
  <1> QED BY <1>1, <1>2, JobInvariant, PTL DEF JobSpec

\* What the ledger has settled stays settled (recovery.py:207): for any number
\* of sessions, tasks and attempts, no crash, resume or fence undoes a success
\* or brings an ended job back, while every session took over a quiet ledger.
THEOREM SettledOnceAndForAll == JobSpec => SettledIsFinal
  <1>1. ASSUME JobInv, Accorded, [JobStep]_jobVars
        PROVE  [odd' = {} => Settles]_jobVars
    BY <1>1, StepGood DEF Good
  <1>2. [odd' = {} => Settles]_jobVars <=>
        [odd' = {} => /\ ledger.job \in Terminal => ledger'.job = ledger.job
                      /\ \A t \in Tasks : ledger.task[t].st = "succeeded" => ledger'.task[t].st = "succeeded"]_jobVars
    BY DEF Settles
  <1> QED BY <1>1, <1>2, JobInvariant, InAccord, PTL DEF JobSpec, SettledIsFinal

\* Merged work is not done again (recovery.py:57, the reconciler of
\* interrupted tasks): a further attempt follows one that was judged a failure.
THEOREM MergedOnce == JobSpec => MergedWorkIsNotRedone
  <1>1. ASSUME JobInv, Accorded, [JobStep]_jobVars
        PROVE  [odd' = {} => NotRedone]_jobVars
    BY <1>1, StepGood DEF Good
  <1>2. [odd' = {} => NotRedone]_jobVars <=>
        [odd' = {} => \A t \in Tasks :
           LET n == ledger.task[t].att IN
           ledger'.task[t].att > n /\ <<t, n>> \in merged => <<t, n>> \in judged]_jobVars
    BY DEF NotRedone
  <1> QED BY <1>1, <1>2, JobInvariant, InAccord, PTL DEF JobSpec, MergedWorkIsNotRedone

\* A success of the ledger has a commit in the branch, and a completed job has
\* no task without one.
THEOREM SuccessHasACommit == JobSpec => []SuccessIsInTheBranch
  <1>1. Accorded => SuccessIsInTheBranch
    BY DEF Accorded, Accord, Sound, SoundJob, SoundTask, SuccessIsInTheBranch
  <1> QED BY <1>1, InAccord, PTL

----------------------------------------------------------------------------
(* How long a restarted Hermes waits.  A session that has died leaves a lease *)
(* nobody renews, and it runs out before the deadline of who waits for it.    *)

\* One crash at most: in a second one the heir of the lease may die while a
\* session waits, with more of its lease left than the session will wait.
OneCrash == \A m \in {"goal", "sprint"} : Budgets[m] \subseteq [crashes : {0, 1}, stalls : Nat, errors : Nat]

Awaits(s) == pc[s] \in {"look", "projected", "waiting"}
Dead == {r \in Sessions : pc[r] = "dead"}
OrphanInv ==
    /\ faults \in [crashes : {0, 1}, stalls : Nat, errors : Nat]
    /\ Dead # {} => faults.crashes = 0
    /\ \A s \in Restarts : Awaits(s) =>
          /\ Dead # {}
          /\ lease.owner \in Dead => lease.left <= wait[s]

\* A step that crashes nobody, lets nobody begin to wait, and gives the lease
\* to no dead session.
LEMMA NoOrphanStep ==
    ASSUME OrphanInv,
           faults' = faults \/ \E f \in {"stalls", "errors"} : faults[f] > 0 /\ faults' = [faults EXCEPT ![f] = @ - 1],
           Dead' = Dead, lease' = lease \/ lease'.owner \notin Dead,
           \A s \in Restarts : Awaits(s)' => Awaits(s) /\ wait'[s] = wait[s]
    PROVE  OrphanInv'
  <1>1. faults' \in [crashes : {0, 1}, stalls : Nat, errors : Nat] /\ faults'.crashes = faults.crashes
    BY DEF OrphanInv
  <1> QED BY <1>1 DEF OrphanInv

\* Who goes somewhere is up, and goes neither to die nor to wait.
LEMMA OrphanGo ==
    ASSUME JobTypeOK, OrphanInv, NEW s \in Sessions, NEW place \in Places \ {"dead", "look"}, Go(s, place),
           pc[s] # "dead", place \in {"projected", "waiting"} => Awaits(s), wait'[s] = wait[s] \/ ~Awaits(s)',
           \A r \in Sessions \ {s} : wait'[r] = wait[r],
           faults' = faults \/ \E f \in {"stalls", "errors"} : faults[f] > 0 /\ faults' = [faults EXCEPT ![f] = @ - 1],
           lease' = lease \/ lease'.owner \in {s, NoSession}
    PROVE  OrphanInv'
  <1>1. /\ pc'[s] = place /\ \A r \in Sessions \ {s} : pc'[r] = pc[r]
    BY GoType
  <1>2. Dead' = Dead
    BY <1>1 DEF Dead
  <1>3. s \notin Dead /\ NoSession \notin Dead
    BY SessionsAreNamed DEF Dead, Sessions
  <1>4. ASSUME NEW r \in Restarts, Awaits(r)' PROVE Awaits(r) /\ wait'[r] = wait[r]
    BY <1>1, <1>4 DEF Awaits, Sessions
  <1> QED BY <1>2, <1>3, <1>4, NoOrphanStep

\* Steps of sessions that stay where they are.
LEMMA OrphanStay ==
    ASSUME JobTypeOK, OrphanInv, NEW s \in Sessions, UNCHANGED <<pc, wait>>, pc[s] # "dead",
           faults' = faults \/ \E f \in {"stalls", "errors"} : faults[f] > 0 /\ faults' = [faults EXCEPT ![f] = @ - 1],
           lease' = lease \/ lease'.owner \in {s, NoSession}
    PROVE  OrphanInv'
  <1>1. Dead' = Dead /\ s \notin Dead /\ NoSession \notin Dead
    BY SessionsAreNamed DEF Dead, Sessions
  <1>2. \A r \in Restarts : Awaits(r)' => Awaits(r) /\ wait'[r] = wait[r]
    BY DEF Awaits
  <1> QED BY <1>1, <1>2, NoOrphanStep

LEMMA OrphanTick == ASSUME JobTypeOK, OrphanInv, Tick PROVE OrphanInv'
  <1>1. \A s \in Sessions : pc'[s] = pc[s] \/ (pc[s] = "waiting" /\ pc'[s] = "look")
    BY DEF JobTypeOK, Tick
  <1>2. Dead' = Dead
    BY <1>1 DEF Dead
  <1>3. /\ lease'.owner = lease.owner
        /\ lease.left > 0 => lease'.left = lease.left - 1
        /\ lease.left = 0 => lease'.left = 0
    BY <1>2 DEF JobTypeOK, Tick
  <1>4. ASSUME NEW s \in Restarts, Awaits(s)'
        PROVE  Awaits(s) /\ wait[s] \in Nat /\ wait'[s] \in Nat /\ wait'[s] >= wait[s] - 1
    <2>1. s \in Sessions
      BY DEF Sessions
    <2>2. wait'[s] = IF pc[s] = "waiting" /\ wait[s] > 0 THEN wait[s] - 1 ELSE wait[s]
      BY <2>1 DEF Tick
    <2> QED BY <1>1, <1>4, <2>1, <2>2 DEF JobTypeOK, Awaits
  <1>5. lease.left \in Nat
    BY DEF JobTypeOK
  <1> QED BY <1>2, <1>3, <1>4, <1>5 DEF OrphanInv, Tick

LEMMA OrphanStep == ASSUME Restarts \cap Operators = {}, JobInv, OrphanInv, JobStep PROVE OrphanInv'
  <1> USE DEF Kept
  <1>0. JobTypeOK
    BY DEF JobInv
  <1>1. CASE LaunchGoal \/ LaunchSprint
    <2>1. Launcher \in Sessions /\ Go(Launcher, "driving") /\ pc[Launcher] = "off" /\ UNCHANGED <<wait, faults>>
      BY <1>1 DEF LaunchGoal, LaunchSprint, Launched, Sessions
    <2>2. lease' = lease \/ lease'.owner = Launcher
      BY <1>1 DEF LaunchGoal, LaunchSprint, Acquired
    <2> QED BY <1>0, <2>1, <2>2, OrphanGo DEF Places, Awaits
  <1>2. CASE Tick
    BY <1>0, <1>2, OrphanTick
  <1>3. ASSUME NEW s \in Sessions, Resume(s) PROVE OrphanInv'
    <2>1. s \notin Restarts /\ pc[s] = "off" /\ UNCHANGED <<lease, faults>> /\ Go(s, "look")
          /\ \A r \in Sessions \ {s} : wait'[r] = wait[r]
      BY <1>3, <1>0 DEF Resume, Asks, JobTypeOK
    <2>2. pc'[s] = "look" /\ \A r \in Sessions \ {s} : pc'[r] = pc[r]
      BY <1>0, <2>1, GoType DEF Places
    <2>3. Dead' = Dead
      BY <2>1, <2>2 DEF Dead
    <2>4. \A r \in Restarts : Awaits(r)' => Awaits(r) /\ wait'[r] = wait[r]
      BY <2>1, <2>2 DEF Awaits, Sessions
    <2> QED BY <2>1, <2>3, <2>4, NoOrphanStep
  <1>4. ASSUME NEW s \in Sessions, ResumeOrphan(s) PROVE OrphanInv'
    <2>1. pc[s] = "off" /\ UNCHANGED <<lease, faults>> /\ Go(s, "look") /\ Dead # {}
          /\ wait'[s] = RestartWait /\ \A r \in Sessions \ {s} : wait'[r] = wait[r]
      BY <1>4, <1>0 DEF ResumeOrphan, Asks, JobTypeOK, Dead
    <2>2. pc'[s] = "look" /\ \A r \in Sessions \ {s} : pc'[r] = pc[r]
      BY <1>0, <2>1, GoType DEF Places
    <2>3. Dead' = Dead
      BY <2>1, <2>2 DEF Dead
    <2>4. ASSUME NEW r \in Restarts, Awaits(r)'
          PROVE  lease'.owner \in Dead' => lease'.left <= wait'[r]
      <3>1. CASE r = s
        BY <1>0, <2>1, <3>1 DEF JobTypeOK, LeaseTicks, RestartWait
      <3>2. CASE r # s
        BY <2>1, <2>2, <2>3, <2>4, <3>2 DEF OrphanInv, Awaits, Sessions
      <3> QED BY <3>1, <3>2
    <2> QED BY <2>1, <2>3, <2>4 DEF OrphanInv
  <1>5. ASSUME NEW s \in Sessions, Look(s) PROVE OrphanInv'
    <2>1. UNCHANGED <<lease, faults, wait>> /\ pc[s] = "look" /\ (Go(s, "refused") \/ Go(s, "projected"))
      BY <1>5 DEF Look
    <2> QED BY <1>0, <2>1, OrphanGo DEF Places, Awaits
  <1>6. ASSUME NEW s \in Sessions, TakeOver(s) PROVE OrphanInv'
    <2>1. CASE LeaseFree(s)
      <3>1. lease'.owner = s /\ Go(s, "recovering") /\ wait' = [wait EXCEPT ![s] = 0] /\ faults' = faults
            /\ pc[s] = "projected"
        BY <1>6, <2>1 DEF TakeOver, Acquired
      <3>2. ~Awaits(s)' /\ \A r \in Sessions \ {s} : wait'[r] = wait[r]
        BY <1>0, <3>1, GoType DEF Awaits, Places, JobTypeOK
      <3> QED BY <1>0, <3>1, <3>2, OrphanGo DEF Places, Awaits
    <2>2. CASE ~LeaseFree(s)
      <3>1. UNCHANGED <<lease, wait, faults>> /\ pc[s] = "projected" /\ (Go(s, "waiting") \/ Go(s, "refused"))
        BY <1>6, <2>2 DEF TakeOver
      <3> QED BY <1>0, <3>1, OrphanGo DEF Places, Awaits
    <2> QED BY <2>1, <2>2
  <1>7. ASSUME NEW s \in Sessions, Recover(s) \/ Hold(s) PROVE OrphanInv'
    <2>1. /\ UNCHANGED <<wait, faults>> /\ pc[s] # "dead" /\ (Go(s, "recovered") \/ Go(s, "driving"))
          /\ lease' = lease \/ lease'.owner = s
      BY <1>7 DEF Recover, Hold, Acquired
    <2> QED BY <1>0, <2>1, OrphanGo DEF Places
  <1>8. ASSUME NEW s \in Sessions,
               Plan(s) \/ PlanMade(s) \/ PlanEnd(s) \/ Conclude(s) \/ CancelJob(s)
        PROVE  OrphanInv'
    <2>1. UNCHANGED <<pc, wait, faults, lease>> /\ pc[s] # "dead"
      BY <1>8 DEF Plan, PlanMade, PlanEnd, Conclude, CancelJob, Works, Driving
    <2> QED BY <1>0, <2>1, OrphanStay
  <1>9. ASSUME NEW s \in Sessions, NEW t \in Tasks,
               \/ PlanTask(s, t) \/ Start(s, t) \/ Merge(s, t) \/ Complete(s, t) \/ Fail(s, t)
               \/ CancelTask(s, t) \/ FenceTask(s, t)
        PROVE  OrphanInv'
    <2>1. UNCHANGED <<pc, wait, faults, lease>> /\ pc[s] # "dead"
      BY <1>9 DEF PlanTask, Start, Merge, Complete, Fail, CancelTask, FenceTask, Works, Driving
    <2> QED BY <1>0, <2>1, OrphanStay
  <1>10. ASSUME NEW s \in Sessions,
                End(s) \/ Close(s) \/ PlanFails(s) \/ PlanFailed(s) \/ StoreFails(s) \/ FenceEnd(s)
         PROVE  OrphanInv'
    <2>1. /\ UNCHANGED wait /\ pc[s] # "dead"
          /\ lease' = lease \/ lease'.owner = NoSession
          /\ faults' = faults \/ (faults.errors > 0 /\ faults' = [faults EXCEPT !.errors = @ - 1])
          /\ \E place \in {"closing", "stopped", "unplanned"} : Go(s, place)
      <3>1. CASE End(s) \/ StoreFails(s)
        BY <3>1 DEF End, StoreFails, Works, Driving
      <3>2. CASE Close(s) \/ PlanFails(s)
        BY <3>2 DEF Close, PlanFails, Works, Driving, Released
      <3>3. CASE PlanFailed(s) \/ FenceEnd(s)
        BY <3>3 DEF PlanFailed, FenceEnd
      <3> QED BY <1>10, <3>1, <3>2, <3>3
    <2> QED BY <1>0, <2>1, OrphanGo DEF Places
  <1>11. ASSUME NEW s \in Sessions, Heartbeat(s) PROVE OrphanInv'
    <2>1. /\ UNCHANGED wait /\ pc[s] # "dead"
          /\ \/ UNCHANGED <<pc, faults>> /\ lease'.owner = s
             \/ UNCHANGED <<lease, faults>> /\ Go(s, "fenced")
             \/ /\ UNCHANGED lease /\ Go(s, "fenced")
                /\ faults.errors > 0 /\ faults' = [faults EXCEPT !.errors = @ - 1]
      BY <1>11 DEF Heartbeat, Works, Driving, Acquired
    <2>2. CASE UNCHANGED <<pc, faults>> /\ lease'.owner = s
      BY <1>0, <2>1, <2>2, OrphanStay
    <2>3. CASE UNCHANGED lease /\ Go(s, "fenced")
      BY <1>0, <2>1, <2>3, OrphanGo DEF Places
    <2> QED BY <2>1, <2>2, <2>3
  <1>12. ASSUME NEW s \in Sessions, Stall(s) PROVE OrphanInv'
    <2>1. /\ UNCHANGED <<pc, wait, lease>> /\ pc[s] # "dead"
          /\ faults.stalls > 0 /\ faults' = [faults EXCEPT !.stalls = @ - 1]
      BY <1>12 DEF Stall, Up
    <2> QED BY <1>0, <2>1, OrphanStay
  <1>13. ASSUME NEW s \in Sessions, Wake(s) PROVE OrphanInv'
    <2>1. /\ UNCHANGED <<faults, wait, lease>>
          /\ \A r \in Sessions : pc'[r] = pc[r] \/ (pc[r] = "waiting" /\ pc'[r] = "look")
      BY <1>0, <1>13 DEF Wake, JobTypeOK
    <2>2. Dead' = Dead /\ \A r \in Restarts : Awaits(r)' => Awaits(r) /\ wait'[r] = wait[r]
      BY <2>1 DEF Dead, Awaits, Sessions
    <2> QED BY <2>1, <2>2, NoOrphanStep
  <1>14. ASSUME NEW s \in Sessions, Crash(s) PROVE OrphanInv'
    <2>1. /\ faults.crashes > 0 /\ faults' = [faults EXCEPT !.crashes = @ - 1] /\ Go(s, "dead")
      BY <1>14 DEF Crash
    <2>2. /\ faults.crashes = 1 /\ Dead = {} /\ faults'.crashes = 0
          /\ faults' \in [crashes : {0, 1}, stalls : Nat, errors : Nat]
      BY <2>1 DEF OrphanInv
    <2>3. pc'[s] = "dead" /\ \A r \in Sessions \ {s} : pc'[r] = pc[r]
      BY <1>0, <2>1, GoType DEF Places
    <2>4. ~\E r \in Restarts : Awaits(r)'
      BY <2>2, <2>3 DEF OrphanInv, Awaits, Sessions
    <2> QED BY <2>2, <2>4 DEF OrphanInv
  <1> QED
    BY <1>1, <1>2, <1>3, <1>4, <1>5, <1>6, <1>7, <1>8, <1>9, <1>10, <1>11, <1>12, <1>13, <1>14 DEF JobStep

\* It is in TakeOver that a session gives up.
LEMMA GivesUp ==
    ASSUME JobInv, JobStep, NEW s \in Sessions, pc[s] = "projected", pc'[s] = "refused"
    PROVE  TakeOver(s)
  <1> USE DEF Kept
  <1>0. JobTypeOK
    BY DEF JobInv
  <1>1. ASSUME NEW r \in Sessions, NEW place, Go(r, place), place # "refused" \/ r # s PROVE FALSE
    BY <1>0, <1>1 DEF Go, JobTypeOK
  <1>2. ASSUME UNCHANGED pc PROVE FALSE
    BY <1>2
  <1>3. Launcher \in Sessions
    BY DEF Sessions
  <1>4. ~LaunchGoal /\ ~LaunchSprint
    BY <1>1, <1>3 DEF LaunchGoal, LaunchSprint, Launched
  <1>5. ~Tick
    BY DEF Tick
  <1>6. ASSUME NEW r \in Sessions
        PROVE  ~Resume(r) /\ ~ResumeOrphan(r) /\ ~Look(r) /\ (TakeOver(r) => r = s)
    BY <1>1 DEF Resume, ResumeOrphan, Asks, Look, TakeOver
  <1>7. ASSUME NEW r \in Sessions
        PROVE  /\ ~Recover(r) /\ ~Hold(r) /\ ~End(r) /\ ~Close(r) /\ ~PlanFails(r) /\ ~PlanFailed(r)
               /\ ~StoreFails(r) /\ ~FenceEnd(r) /\ ~Crash(r)
    BY <1>1 DEF Recover, Hold, End, Close, PlanFails, PlanFailed, StoreFails, FenceEnd, Crash
  <1>8. ASSUME NEW r \in Sessions PROVE ~Heartbeat(r) /\ ~Stall(r) /\ ~Wake(r)
    BY <1>0, <1>1 DEF Heartbeat, Stall, Wake, JobTypeOK
  <1>9. ASSUME NEW r \in Sessions
        PROVE  ~Plan(r) /\ ~PlanMade(r) /\ ~PlanEnd(r) /\ ~Conclude(r) /\ ~CancelJob(r)
    BY <1>2 DEF Plan, PlanMade, PlanEnd, Conclude, CancelJob
  <1>10. ASSUME NEW r \in Sessions, NEW t \in Tasks
         PROVE  /\ ~PlanTask(r, t) /\ ~Start(r, t) /\ ~Merge(r, t) /\ ~Complete(r, t) /\ ~Fail(r, t)
                /\ ~CancelTask(r, t) /\ ~FenceTask(r, t)
    BY <1>2 DEF PlanTask, Start, Merge, Complete, Fail, CancelTask, FenceTask
  <1> QED BY <1>4, <1>5, <1>6, <1>7, <1>8, <1>9, <1>10 DEF JobStep

\* A restarted Hermes gives an orphaned job up only to a session that lives:
\* its deadline (src/jobs/job_launcher.py, lease_wait_seconds) is longer than
\* what a dead session can have left of its lease.
THEOREM OrphansAreWaitedFor ==
    ASSUME OneCrash, Restarts \cap Operators = {}
    PROVE  JobSpec => OrphanIsWaitedFor
  <1> DEFINE Waited == \A s \in Restarts : pc[s] = "projected" /\ pc'[s] = "refused" => pc[lease.owner] # "dead"
  <1>1. JobInit => OrphanInv
    <2> SUFFICES ASSUME JobInit PROVE OrphanInv
      OBVIOUS
    <2>1. faults \in [crashes : {0, 1}, stalls : Nat, errors : Nat]
      BY DEF OneCrash, JobInit
    <2> QED BY <2>1 DEF JobInit, OrphanInv, Dead, Awaits, Sessions
  <1>2. ASSUME JobInv, OrphanInv, [JobStep]_jobVars PROVE OrphanInv'
    <2>1. CASE JobStep
      BY <1>2, <2>1, OrphanStep
    <2>2. CASE UNCHANGED jobVars
      BY <1>2, <2>2 DEF jobVars, OrphanInv, Dead, Awaits
    <2> QED BY <1>2, <2>1, <2>2
  <1>3. ASSUME JobInv, OrphanInv, [JobStep]_jobVars PROVE [Waited]_jobVars
    <2> SUFFICES ASSUME JobStep, NEW s \in Restarts, pc[s] = "projected", pc'[s] = "refused",
                        pc[lease.owner] = "dead"
                 PROVE  FALSE
      BY <1>3 DEF jobVars
    <2>1. TakeOver(s) /\ s \in Sessions /\ JobTypeOK
      BY <1>3, GivesUp DEF JobInv, Sessions
    <2>2. ~LeaseFree(s) /\ ~(wait[s] > 0) /\ wait[s] \in Nat /\ lease.left \in Nat
      BY <2>1, GoType DEF TakeOver, Places, JobTypeOK
    <2>3. lease.owner \in Dead
      BY <2>1, <2>2 DEF LeaseFree, JobTypeOK, Dead
    <2> QED BY <1>3, <2>2, <2>3 DEF OrphanInv, Awaits, LeaseFree
  <1> QED BY <1>1, <1>2, <1>3, JobInvariant, PTL DEF JobSpec, OrphanIsWaitedFor
=============================================================================
