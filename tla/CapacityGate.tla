----------------------------- MODULE CapacityGate -----------------------------
(***************************************************************************)
(* Jobs that share the process-wide registries that gate them: a circuit   *)
(* breaker per actor and a status per provider (runtime/capacity.py).      *)
(* Each provider has one actor, and each job needs the actor of one of     *)
(* them.  A job is an engine with a scheduler of its own, reduced to when  *)
(* it asks the registries: the poll of WAITING_FOR_CAPACITY, the dispatch  *)
(* pass, the end of an attempt.  A step is the code between two awaits.    *)
(***************************************************************************)
EXTENDS CircuitBreaker, FiniteSets

CONSTANTS Job,
          Provider,
          TasksPerJob,   \* tasks a job runs, one after the other
          FailBound      \* bound of the model: attempts the providers fail

ASSUME GateAssumption == TasksPerJob \in Nat \ {0} /\ FailBound \in Nat

VARIABLES need,      \* the provider each job needs, which does not change
          breaker,   \* the breaker of each provider's actor
          status,    \* a provider is available, throttled by a rate limit, or in an outage
          reset,     \* its entry of _provider_reset_at, and whether that lies in the past
          job,       \* where each engine is
          left,      \* tasks each job has left
          failed,    \* attempts the providers failed
          trials,    \* history: jobs dispatched since the breaker half-opened
          dropped    \* history: providers refused for good since a wait dropped their entry

vars == <<need, breaker, status, reset, job, left, failed, trials, dropped>>

Init == /\ need \in [Job -> Provider]
        /\ breaker = [p \in Provider |-> Closed]
        /\ status = [p \in Provider |-> "available"]
        /\ reset = [p \in Provider |-> "none"]
        /\ job = [j \in Job |-> "executing"]
        /\ left = [j \in Job |-> TasksPerJob]
        /\ failed = 0
        /\ trials = [p \in Provider |-> {}]
        /\ dropped = {}

----------------------------------------------------------------------------
(* The history of a step that changes breakers, statuses and resets. *)

\* p's breaker half-opens with this step.
Entered(p) == breaker'[p].state = "half" /\ breaker[p].state # "half"

\* started: the job this step dispatches to p, if any.
Trials(p, started) ==
    trials' = [trials EXCEPT ![p] =
                  (IF Entered(p) THEN {} ELSE @)
                  \cup (IF breaker'[p].state = "half" THEN started ELSE {})]

\* D: the providers whose entry a wait drops.
Dropped(D) ==
    dropped' = {p \in dropped \cup D : status'[p] # "available" /\ reset'[p] = "none"}

----------------------------------------------------------------------------

\* get_provider_status: an entry that is due restores the provider.
StatusRead(p) == IF reset[p] = "due" THEN "available" ELSE status[p]
ResetRead(p)  == IF reset[p] = "due" THEN "none" ELSE reset[p]

\* match_actor_for_task asks for the actor, and when it was refused asks again
\* for the reason.  The provider is looked at only behind an allowing breaker.
Granted(p) == Allows(breaker[p]) /\ StatusRead(p) = "available"
AskedOnce(p) == AfterRequest(breaker[p])
AskedTwice(p) == AfterRequest(AskedOnce(p))
Asked(p) == IF Granted(p) THEN AskedOnce(p) ELSE AskedTwice(p)
Looked(p) == Allows(breaker[p]) \/ (~Granted(p) /\ Allows(AskedOnce(p)))

\* A provider that was looked at has lost an entry that was due.
StatusAfter(p, looked) == IF looked THEN [status EXCEPT ![p] = StatusRead(p)] ELSE status
ResetAfter(p, looked)  == IF looked THEN [reset EXCEPT ![p] = ResetRead(p)] ELSE reset

Match(p) == /\ breaker' = [breaker EXCEPT ![p] = Asked(p)]
            /\ status' = StatusAfter(p, Looked(p))
            /\ reset' = ResetAfter(p, Looked(p))

\* A poll in vain: match_actor_for_task, then _capacity_wait_seconds, which
\* drops the expired entries of every provider and restores none of them.  It
\* reads the clock anew: an entry the match found pending may have expired.
Wait(p) ==
    LET kept == ResetAfter(p, Looked(p))
        due  == {q \in Provider : kept[q] = "due"}
    IN \E expired \in SUBSET {q \in Provider : kept[q] = "pending"} :
          /\ breaker' = [breaker EXCEPT ![p] = Asked(p)]
          /\ status' = StatusAfter(p, Looked(p))
          /\ reset' = [q \in Provider |-> IF q \in due \cup expired THEN "none" ELSE kept[q]]
          /\ Dropped(due \cup expired)

Poll(j) ==
    /\ job[j] = "waiting"
    /\ IF Granted(need[j])
       THEN Match(need[j]) /\ Dropped({}) /\ job' = [job EXCEPT ![j] = "executing"]
       ELSE Wait(need[j]) /\ UNCHANGED job
    /\ Trials(need[j], {})
    /\ UNCHANGED <<need, left, failed>>

\* schedule_ready_tasks in EXECUTING: dispatched, the actor runs the task.
Dispatch(j) ==
    /\ job[j] = "executing"
    /\ Granted(need[j])
    /\ Match(need[j])
    /\ job' = [job EXCEPT ![j] = "running"]
    /\ Trials(need[j], {j})
    /\ Dropped({})
    /\ UNCHANGED <<need, left, failed>>

\* Deferred; step matches the task once more for the reason it logs.
Defer(j) ==
    LET p == need[j]
        looked == Allows(breaker[p]) \/ Allows(AskedOnce(p)) \/ Allows(Asked(p))
    IN /\ job[j] = "executing"
       /\ ~Granted(p)
       /\ breaker' = [breaker EXCEPT ![p] = AfterRequest(AfterRequest(Asked(p)))]
       /\ status' = StatusAfter(p, looked)
       /\ reset' = ResetAfter(p, looked)
       /\ job' = [job EXCEPT ![j] = "waiting"]
       /\ Trials(p, {})
       /\ Dropped({})
       /\ UNCHANGED <<need, left, failed>>

\* An attempt that succeeds ends the throttling of its provider, though not
\* an outage another job reported.
Succeed(j) ==
    LET p == need[j]
        ended == StatusRead(p) = "throttled"
    IN /\ job[j] = "running"
       /\ breaker' = [breaker EXCEPT ![p] = AfterSuccess(@)]
       /\ status' = [status EXCEPT ![p] = IF ended THEN "available" ELSE StatusRead(p)]
       /\ reset' = [reset EXCEPT ![p] = IF ended THEN "none" ELSE ResetRead(p)]
       /\ left' = [left EXCEPT ![j] = @ - 1]
       /\ job' = [job EXCEPT ![j] = IF left[j] = 1 THEN "done" ELSE "executing"]
       /\ Trials(p, {})
       /\ Dropped({})
       /\ UNCHANGED <<need, failed>>

\* The attempt is given back.  A rate limit or an outage throttles the
\* provider until a reset; other failures of it leave its status alone.
Fail(j) ==
    LET p == need[j]
    IN /\ job[j] = "running"
       /\ failed < FailBound
       /\ failed' = failed + 1
       /\ breaker' = [breaker EXCEPT ![p] = AfterFailure(@)]
       /\ \/ \E s \in {"throttled", "unavailable"} :
                /\ status' = [status EXCEPT ![p] = s]
                /\ reset' = [reset EXCEPT ![p] = "pending"]
          \/ UNCHANGED <<status, reset>>
       /\ job' = [job EXCEPT ![j] = "executing"]
       /\ Trials(p, {})
       /\ Dropped({})
       /\ UNCHANGED <<need, left>>

CooldownOver(p) ==
    /\ breaker[p].state = "open" /\ ~breaker[p].cooled
    /\ breaker' = [breaker EXCEPT ![p].cooled = TRUE]
    /\ UNCHANGED <<need, status, reset, job, left, failed, trials, dropped>>

ResetDue(p) ==
    /\ reset[p] = "pending"
    /\ reset' = [reset EXCEPT ![p] = "due"]
    /\ UNCHANGED <<need, breaker, status, job, left, failed, trials, dropped>>

Time(p) == CooldownOver(p) \/ ResetDue(p)

Step(j) == Poll(j) \/ Dispatch(j) \/ Defer(j) \/ Succeed(j) \/ Fail(j)

Done == (\A j \in Job : job[j] = "done") /\ UNCHANGED vars

Next == Done \/ (\E p \in Provider : Time(p)) \/ (\E j \in Job : Step(j))

\* Time passes, and each engine's loop goes round.
Fairness == /\ \A p \in Provider : WF_vars(Time(p))
            /\ \A j \in Job : WF_vars(Step(j))

Spec == Init /\ [][Next]_vars /\ Fairness
----------------------------------------------------------------------------
(* Properties *)

\* Every variable has its type; for the breakers that their counters stay
\* within their thresholds, the transitions being what resets them.
TypeOK ==
    /\ need \in [Job -> Provider]
    /\ breaker \in [Provider -> Breaker]
    /\ status \in [Provider -> {"available", "throttled", "unavailable"}]
    /\ reset \in [Provider -> {"none", "pending", "due"}]
    /\ job \in [Job -> {"executing", "waiting", "running", "done"}]
    /\ left \in [Job -> 0 .. TasksPerJob]
    /\ failed \in 0 .. FailBound
    /\ trials \in [Provider -> SUBSET Job]
    /\ dropped \subseteq Provider

\* However many engines share a breaker, a half-open one lets no more
\* attempts reach a provider on trial than the threshold.
TrialsBounded ==
    \A p \in Provider : breaker[p].state = "half" => Cardinality(trials[p]) <= ProbeLimit


\* Once the providers stop failing every job is served, if no wait drops a
\* reset that was not read: a half-open breaker permits trial traffic, which
\* tells that the provider recovered.
JobsFinish == [](dropped = {}) => <>(\A j \in Job : job[j] = "done")
=============================================================================
