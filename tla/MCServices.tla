----------------------------- MODULE MCServices -----------------------------
(* The services around the engine, each in small.  They share no state in    *)
(* the models, so a behaviour exercises one of them, chosen at the start,    *)
(* and the others rest.                                                      *)
EXTENDS EventStore, DurableJob, TaskAttempts, OpenRigSeats, JobRecords, SprintRun, Conversation, TLC

VARIABLE part

\* The attempts of tasks are looked at twice: three of them, though no more than
\* two at work at once, while git answers, and any two while it may be silent
\* whenever it is asked.
Parts == {"store", "job", "task", "git", "rig", "record", "sprint", "talk"}

\* Four calls of append from two hosts: a repetition, a conflicting body, and
\* one call with an explicit sequence.
MCId == [c1 |-> "e1", c2 |-> "e1", c3 |-> "e2", c4 |-> "e2"]
MCBody == [c1 |-> "x", c2 |-> "x", c3 |-> "x", c4 |-> "y"]
MCExplicit == [c1 |-> 0, c2 |-> 0, c3 |-> 0, c4 |-> 2]
MCHost == [c1 |-> "h1", c2 |-> "h2", c3 |-> "h1", c4 |-> "h2"]

\* One fault of each kind for a goal, none for a sprint, which takes no lease.
Faults(c, s, e) == [crashes |-> c, stalls |-> s, errors |-> e]
MCBudgets == [goal |-> {Faults(1, 0, 0), Faults(0, 1, 0), Faults(0, 0, 1)},
              sprint |-> {Faults(0, 0, 0)}]

\* Two attempts of a task and one of a verifier.
MCTaskOf == [a1 |-> "t1", a2 |-> "t1", b1 |-> "t2"]
MCNth == [a1 |-> 1, a2 |-> 2, b1 |-> 1]

\* Two rigs of a job in one process, or in the two that drive it in turn.
MCPlacements == {[a |-> "p1", b |-> "p1"], [a |-> "p1", b |-> "p2"]}

\* A phase, a parallel group of two, a verifier; "a" has a phase in each.
MCGroup == <<"none", "g", "g", "none">>
MCAgent == <<"a", "b", "a", "c">>
MCRole == <<"builder", "builder", "hardener", "verifier">>

MCPhaseAgents == <<"a", "b">>

Init ==
    /\ part \in Parts
    /\ StoreInit /\ (part = "store" \/ dialect = "memory")
    /\ JobInit /\ (part = "job" \/ mode = "sprint")
    /\ TaskInit
    /\ RigInit /\ (part = "rig" \/ ProcessOf["b"] = "p1")
    /\ RecordInit /\ (part = "record" \/ origin = "engine")
    /\ SprintInit
    /\ TalkInit

Next ==
    \/ /\ part = "store" /\ StoreStep
       /\ UNCHANGED <<part, jobVars, taskVars, rigVars, recordVars, sprintVars, talkVars>>
    \/ /\ part = "job" /\ JobStep
       /\ UNCHANGED <<part, storeVars, taskVars, rigVars, recordVars, sprintVars, talkVars>>
    \/ /\ part = "task" /\ TaskStep /\ unread' = {} /\ Cardinality({a \in Attempts : thread'[a] \notin Idle}) <= 2
       /\ UNCHANGED <<part, storeVars, jobVars, rigVars, recordVars, sprintVars, talkVars>>
    \/ /\ part = "git" /\ TaskStep /\ \E a \in Attempts : thread'[a] = "none"
       /\ UNCHANGED <<part, storeVars, jobVars, rigVars, recordVars, sprintVars, talkVars>>
    \/ /\ part = "rig" /\ RigStep
       /\ UNCHANGED <<part, storeVars, jobVars, taskVars, recordVars, sprintVars, talkVars>>
    \/ /\ part = "record" /\ RecordStep
       /\ UNCHANGED <<part, storeVars, jobVars, taskVars, rigVars, sprintVars, talkVars>>
    \/ /\ part = "sprint" /\ SprintStep
       /\ UNCHANGED <<part, storeVars, jobVars, taskVars, rigVars, recordVars, talkVars>>
    \/ /\ part = "talk" /\ TalkStep
       /\ UNCHANGED <<part, storeVars, jobVars, taskVars, rigVars, recordVars, sprintVars>>

allVars == <<part, storeVars, jobVars, taskVars, rigVars, recordVars, sprintVars, talkVars>>

\* The event loop of a session that has neither stalled nor died runs what is
\* due, and while nothing is, time passes; a stalled session wakes in the end.
\* The operators, the faults and the work itself owe nothing, and no session
\* more than that some one goes on.
Due(s) == \/ Heartbeat(s) \/ Look(s) \/ TakeOver(s) \/ Recover(s) \/ Hold(s)
          \/ Close(s) \/ PlanFailed(s) \/ FenceEnd(s)
JobFairness == /\ WF_jobVars(part = "job" /\ (Tick \/ \E s \in Sessions : Due(s)))
               /\ WF_jobVars(part = "job" /\ \E s \in Sessions : Wake(s))

\* Some thread runs on, or the engine awaits a worker it cancelled; an agent's
\* process need not end.
TaskFairness == WF_taskVars(part \in {"task", "git"} /\ \E a \in Attempts : ThreadStep(a) \/ CancelWorker(a))

Spec == Init /\ [][Next]_allVars /\ JobFairness /\ TaskFairness

\* Every service keeps its variables in their types (those that rest are in
\* their initial state).
ServicesTypeOK ==
    /\ part = "store" => StoreTypeOK
    /\ part = "job" => JobTypeOK
    /\ part \in {"task", "git"} => TaskTypeOK
    /\ part = "rig" => RigTypeOK
    /\ part = "record" => RecordTypeOK
    /\ part = "sprint" => SprintTypeOK
    /\ part = "talk" => TalkTypeOK
=============================================================================
