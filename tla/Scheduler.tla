------------------------------ MODULE Scheduler ------------------------------
(***************************************************************************)
(* ReactiveScheduler (runtime/scheduler.py) with the asyncio workers it    *)
(* starts (_execute_task_wrapper around ExecutionManager.execute).         *)
(*                                                                         *)
(* The runtime is cooperative: code between two awaits is atomic, and an   *)
(* await is where other coroutines, a cancellation included, can run.  So  *)
(* each action here is the code from one await to the next, and "pc"       *)
(* fields name the await a coroutine is suspended at.                      *)
(***************************************************************************)
EXTENDS TaskGraph

CONSTANTS Slot,              \* positions for the asyncio tasks of one graph task
          CanDo,             \* CanDo[t]: actors with the capabilities t requires
          Verifier,          \* tasks whose role is "verifier"
          AvoidActors,       \* AvoidActors[t]: metadata["avoid_actors"] of t
          Outcomes,          \* Outcomes[t]: how an attempt of t may end
          ConcurrencyLimit,  \* limits.concurrency_limit
          ActorLimit,        \* default_actor_concurrency
          FaultBound         \* bound of the model: providers fail only attempts
                             \* numbered below it (each reroute costs an attempt)

\* "ok"        succeeded
\* "discover"  succeeded with an observation that requires follow-up work
\* "fail"      failed for reasons of the task itself
\* "redo"      the same, with an observation that requires follow-up work
\* "verdict"   a check failed with fixable findings
\* "unproven"  a check that could not decide
\* "env"       failed, blocked_by the environment
\* "provider"  failed in the provider: rate limit, quota, outage, network
\* "fatal"     failed in the provider and not worth waiting for: billing, auth
Outcome == {"ok", "discover", "fail", "redo", "verdict", "unproven", "env", "provider",
            "fatal"}

ASSUME SchedulerAssumption ==
    /\ Slot \subseteq Nat
    /\ CanDo \in [Task -> SUBSET Actor]
    /\ Verifier \subseteq Task
    /\ AvoidActors \in [Task -> SUBSET Actor]
    /\ Outcomes \in [Task -> SUBSET Outcome]
    /\ ConcurrencyLimit \in Nat \ {0}
    /\ ActorLimit \in Nat \ {0}
    /\ FaultBound \in Nat

VARIABLES graph,    \* the TaskGraph
          running,  \* _running_tasks
          busy,     \* _busy_actors
          health,   \* what the circuit, capacity and soft-capacity checks say
          pass,     \* the locals of schedule_ready_tasks
          worker    \* the asyncio tasks started

schedVars == <<graph, running, busy, health, pass, worker>>

\* "low": only the soft capacity check fails.  "down": circuit open, provider
\* throttled, out of quota or unavailable.  "spent": context exhausted, which
\* match_actor_for_task's list of reasons to reroute does not name.
Health == {"up", "low", "down", "spent"}

WorkerId == Task \X Slot

WorkerRecord ==
    [pc     : {"none", "new", "exec", "okEmit", "record", "routeEmit", "backEmit",
               "failEmit", "unwind", "done"},
     actor  : Actor \cup {NoActor},
     cancel : BOOLEAN,                          \* task.cancel() was called
     result : Outcome \cup {"none", "cancelled"}]

NoWorker == [pc |-> "none", actor |-> NoActor, cancel |-> FALSE, result |-> "none"]

PassRecord ==
    [pc       : {"idle", "pick", "reroute", "start"},
     todo     : SUBSET Task,                    \* the rest of ready_tasks
     task     : Task \cup {NoTask},
     actor    : Actor \cup {NoActor},
     launched : SUBSET WorkerId]

IdlePass == [pc |-> "idle", todo |-> {}, task |-> NoTask, actor |-> NoActor,
             launched |-> {}]

Done(w) == worker[w].pc = "done"
Live(w) == worker[w].pc \notin {"none", "done"}

----------------------------------------------------------------------------
(* Actor selection: match_actor_for_task as the set of its possible        *)
(* decisions, the ranking among equally acceptable actors left open.       *)

Decision == [kind  : {"go", "defer", "incapable"},
             actor : Actor \cup {NoActor},
             pre   : BOOLEAN]        \* reason starts with "Pre-dispatch rerouted"

Go(a)     == [kind |-> "go", actor |-> a, pre |-> FALSE]
GoPre(a)  == [kind |-> "go", actor |-> a, pre |-> TRUE]
Defer     == [kind |-> "defer", actor |-> NoActor, pre |-> FALSE]
Incapable == [kind |-> "incapable", actor |-> NoActor, pre |-> FALSE]

Available(a) == busy[a] < ActorLimit /\ health[a] \in {"up", "low"}

\* find_alternative_actor looks at health and never at _busy_actors.
Alternatives(t, excluded) == {a \in CanDo[t] \ excluded : health[a] = "up"}

\* The task names an actor that has the capabilities.
AssignedDecisions(t) ==
    LET a    == graph[t].actor
        alts == Alternatives(t, {a})
    IN CASE busy[a] >= ActorLimit \/ health[a] = "spent" -> {Defer}
         [] busy[a] < ActorLimit /\ health[a] = "down" ->
               IF alts = {} THEN {Defer} ELSE {GoPre(b) : b \in alts}
         [] busy[a] < ActorLimit /\ health[a] = "low" ->
               IF alts = {} THEN {Go(a)} ELSE {Go(b) : b \in alts}
         [] OTHER -> {Go(a)}

RankedDecisions(t, excluded) ==
    LET ranked    == CanDo[t] \ excluded
        available == {a \in ranked : Available(a)}
        healthy   == {a \in available : health[a] = "up"}
    IN CASE ranked = {}                      -> {Incapable}
         [] ranked # {} /\ available = {}    -> {Defer}
         [] available # {} /\ healthy = {}   -> {Go(a) : a \in available}
         [] OTHER                            -> {Go(a) : a \in healthy}

Match(t, excluded) ==
    IF graph[t].actor \in CanDo[t] THEN AssignedDecisions(t)
                                   ELSE RankedDecisions(t, excluded)

Authors == {graph[u].actor : u \in DOMAIN graph \ Verifier} \ {NoActor}

\* A verifier prefers an actor that wrote nothing in this job.
Independent(t, d) ==
    IF t \in Verifier /\ d.actor \in Authors
    THEN LET others == {e \in Match(t, Authors) : e.kind = "go"}
         IN IF others = {} THEN {d} ELSE others
    ELSE {d}

\* A fallback skips the actors that made no changes, when another is free.
Avoiding(t, d) ==
    IF d.actor \in AvoidActors[t]
    THEN LET alts == Alternatives(t, AvoidActors[t])
         IN {IF Available(a) THEN GoPre(a) ELSE d : a \in alts}
               \cup (IF alts = {} THEN {d} ELSE {})
    ELSE {d}

Decisions(t) ==
    UNION {Avoiding(t, e) : e \in UNION {Independent(t, d) : d \in Match(t, {})}}

----------------------------------------------------------------------------
(* schedule_ready_tasks.  The order of ready_tasks is left open.           *)

SchedInit(initial) ==
    /\ graph = initial
    /\ running = {}
    /\ busy = [a \in Actor |-> 0]
    /\ health = [a \in Actor |-> "up"]
    /\ pass = IdlePass
    /\ worker = [w \in WorkerId |-> NoWorker]

PassBegin ==
    /\ pass.pc = "idle"
    /\ pass' = [IdlePass EXCEPT !.pc = "pick", !.todo = ReadyTasks(graph)]
    /\ UNCHANGED <<graph, running, busy, health, worker>>

\* Mutant of CanDispatchMore: off by one.
CanDispatchOneMore == Cardinality(running) <= ConcurrencyLimit

CanDispatchMore == Cardinality(running) < ConcurrencyLimit

\* The tasks the loop passes over if it looks at them now ...
PassedOver == {t \in pass.todo : t \in running \/ \E d \in Decisions(t) : d.kind # "go"}

\* ... those among them BLOCKED that no actor is capable of.
PassOver(S) == MarkBlocked(graph, {t \in S \ running : Incapable \in Decisions(t)})

\* mark_running, _running_tasks.add and acquire_actor, without an await.
Acquire(g, t, a, S) ==
    /\ graph' = MarkRunning(g, t, a)
    /\ running' = running \cup {t}
    /\ busy' = [busy EXCEPT ![a] = @ + 1]
    /\ pass' = [pass EXCEPT !.pc = "start", !.task = t, !.actor = a,
                            !.todo = @ \ (S \cup {t})]

\* Mutant of Picks: _running_tasks is not consulted.
PicksAgain(t) ==
    /\ pass.pc = "pick"
    /\ CanDispatchMore
    /\ t \in pass.todo

Picks(t) ==
    /\ pass.pc = "pick"
    /\ CanDispatchMore
    /\ t \in pass.todo \ running

\* The loop passes over the tasks S and dispatches t.
PassAssign(t, S) ==
    /\ Picks(t)
    /\ S \subseteq PassedOver \ {t}
    /\ \E d \in Decisions(t) :
          /\ d.kind = "go"
          /\ ~(d.pre /\ graph[t].actor # d.actor)
          /\ Acquire(PassOver(S), t, d.actor, S)
    /\ UNCHANGED <<health, worker>>

\* A reroute is announced before the task is marked: the pass suspends with
\* the decision already taken.
PassReroute(t, S) ==
    /\ Picks(t)
    /\ S \subseteq PassedOver \ {t}
    /\ \E d \in Decisions(t) :
          /\ d.kind = "go"
          /\ d.pre /\ graph[t].actor # d.actor
          /\ graph' = [PassOver(S) EXCEPT ![t].actor = d.actor]
          /\ pass' = [pass EXCEPT !.pc = "reroute", !.task = t, !.actor = d.actor,
                                  !.todo = @ \ (S \cup {t})]
    /\ UNCHANGED <<running, busy, health, worker>>

PassResume ==
    /\ pass.pc = "reroute"
    /\ Acquire(graph, pass.task, pass.actor, {})
    /\ UNCHANGED <<health, worker>>

\* After task.assigned and task.started: asyncio.create_task.
PassLaunch(w) ==
    /\ pass.pc = "start"
    /\ w[1] = pass.task
    /\ worker[w].pc = "none"
    /\ \A s \in Slot : worker[<<w[1], s>>].pc = "none" => w[2] <= s
    /\ worker' = [worker EXCEPT ![w] = [NoWorker EXCEPT !.pc = "new", !.actor = pass.actor]]
    /\ pass' = [pass EXCEPT !.pc = "pick", !.task = NoTask, !.actor = NoActor,
                            !.launched = @ \cup {w}]
    /\ UNCHANGED <<graph, running, busy, health>>

\* The loop ends: the limit is reached, or every task left is passed over.
PassEnd ==
    /\ pass.pc = "pick"
    /\ \/ ~CanDispatchMore /\ UNCHANGED graph
       \/ /\ CanDispatchMore
          /\ pass.todo \subseteq PassedOver
          /\ graph' = PassOver(pass.todo)
    /\ pass' = IdlePass
    /\ UNCHANGED <<running, busy, health, worker>>

----------------------------------------------------------------------------
(* Workers *)

WorkerAt(w, pc) == worker[w].pc = pc /\ ~worker[w].cancel

Move(w, pc) == worker' = [worker EXCEPT ![w].pc = pc]

\* Mutant of Finish: the slot of the actor the task was rerouted to is freed.
FinishReassigned(w, result) ==
    /\ running' = running \ {w[1]}
    /\ busy' = [busy EXCEPT ![graph[w[1]].actor] = @ - 1]
    /\ worker' = [worker EXCEPT ![w].pc = "done", ![w].result = result]

\* The finally clause: release_actor and the end of the asyncio task.
Finish(w, result) ==
    /\ running' = running \ {w[1]}
    /\ busy' = [busy EXCEPT ![worker[w].actor] = IF @ = 0 THEN 0 ELSE @ - 1]
    /\ worker' = [worker EXCEPT ![w].pc = "done", ![w].result = result]

WorkerBegin(w) ==
    /\ WorkerAt(w, "new")
    /\ Move(w, "exec")
    /\ UNCHANGED <<graph, running, busy, health, pass>>

\* asyncio never enters a coroutine cancelled before its first step, so its
\* finally clause does not run: the slot and the running mark stay.
WorkerNeverRan(w) ==
    /\ worker[w].pc = "new" /\ worker[w].cancel
    /\ worker' = [worker EXCEPT ![w].pc = "done", ![w].result = "cancelled"]
    /\ UNCHANGED <<graph, running, busy, health, pass>>

\* Mutant of WorkerSucceeds: marked before the event is persisted.
WorkerSucceedsEarly(w, r) ==
    /\ WorkerAt(w, "exec")
    /\ r \in Outcomes[w[1]] \cap {"ok", "discover"}
    /\ graph' = MarkSuccess(graph, w[1])
    /\ worker' = [worker EXCEPT ![w].pc = "okEmit", ![w].result = r]
    /\ UNCHANGED <<running, busy, health, pass>>

WorkerSucceeds(w, r) ==
    /\ WorkerAt(w, "exec")
    /\ r \in Outcomes[w[1]] \cap {"ok", "discover"}
    /\ worker' = [worker EXCEPT ![w].pc = "okEmit", ![w].result = r]
    /\ UNCHANGED <<graph, running, busy, health, pass>>

WorkerFails(w, r) ==
    /\ WorkerAt(w, "exec")
    /\ r \in Outcomes[w[1]] \cap {"fail", "redo", "verdict", "unproven", "env"}
    /\ worker' = [worker EXCEPT ![w].pc = "failEmit", ![w].result = r]
    /\ UNCHANGED <<graph, running, busy, health, pass>>

\* A provider failure is recorded against the actor, and announced.
WorkerProviderFails(w, r) ==
    /\ WorkerAt(w, "exec")
    /\ r \in Outcomes[w[1]] \cap {"provider", "fatal"}
    /\ graph[w[1]].attempt < FaultBound
    /\ \E h \in {health[worker[w].actor], "down", "spent"} :
          health' = [health EXCEPT ![worker[w].actor] = h]
    /\ worker' = [worker EXCEPT ![w].pc = "record", ![w].result = r]
    /\ UNCHANGED <<graph, running, busy, pass>>

\* Then the task is rerouted, its attempt is given back, or it has failed.
WorkerReroutes(w) ==
    LET t    == w[1]
        alts == Alternatives(t, {worker[w].actor})
    IN /\ WorkerAt(w, "record")
       /\ \/ /\ \E a \in alts :
                   graph' = [graph EXCEPT ![t].actor = a, ![t].status = "READY"]
             /\ Move(w, "routeEmit")
          \/ /\ alts = {} /\ worker[w].result = "provider"
             /\ graph' = [graph EXCEPT ![t].attempt = IF @ = 0 THEN 0 ELSE @ - 1]
             /\ Move(w, "backEmit")
          \/ /\ alts = {} /\ worker[w].result = "fatal"
             /\ UNCHANGED graph
             /\ Move(w, "failEmit")
       /\ UNCHANGED <<running, busy, health, pass>>

\* The event is persisted, the graph is marked, and the worker ends.
WorkerSettles(w) ==
    /\ \/ WorkerAt(w, "okEmit")    /\ graph' = MarkSuccess(graph, w[1])
       \/ WorkerAt(w, "failEmit")  /\ graph' = MarkFailure(graph, w[1])
       \/ WorkerAt(w, "backEmit")  /\ graph' = [graph EXCEPT ![w[1]].status = "READY"]
       \/ WorkerAt(w, "routeEmit") /\ UNCHANGED graph
    /\ Finish(w, worker[w].result)
    /\ UNCHANGED <<health, pass>>

\* Mutant of WorkerInterrupted: the slot is freed before the handler is through.
WorkerInterruptedEarly(w) ==
    /\ worker[w].cancel
    /\ worker[w].pc \in {"exec", "okEmit", "record", "routeEmit", "backEmit", "failEmit"}
    /\ graph' = MarkCancelled(graph, w[1])
    /\ running' = running \ {w[1]}
    /\ busy' = [busy EXCEPT ![worker[w].actor] = IF @ = 0 THEN 0 ELSE @ - 1]
    /\ Move(w, "unwind")
    /\ UNCHANGED <<health, pass>>

\* CancelledError at whichever await the worker is suspended at.
WorkerInterrupted(w) ==
    /\ worker[w].cancel
    /\ worker[w].pc \in {"exec", "okEmit", "record", "routeEmit", "backEmit", "failEmit"}
    /\ graph' = IF graph[w[1]].status \in {"RUNNING", "READY"}
                THEN MarkCancelled(graph, w[1]) ELSE graph
    /\ Move(w, "unwind")
    /\ UNCHANGED <<running, busy, health, pass>>

\* task.cancelled is persisted; the finally clause runs.
WorkerUnwinds(w) ==
    /\ worker[w].pc = "unwind"
    /\ Finish(w, "cancelled")
    /\ UNCHANGED <<graph, health, pass>>

WorkerStep(w) ==
    \/ WorkerBegin(w) \/ WorkerNeverRan(w)
    \/ \E r \in Outcome : \/ WorkerSucceeds(w, r) \/ WorkerFails(w, r)
                          \/ WorkerProviderFails(w, r)
    \/ WorkerReroutes(w) \/ WorkerSettles(w) \/ WorkerInterrupted(w) \/ WorkerUnwinds(w)

PassStep ==
    \/ PassResume
    \/ \E t \in pass.todo, S \in SUBSET PassedOver : PassAssign(t, S) \/ PassReroute(t, S)
    \/ \E w \in WorkerId : PassLaunch(w)

\* Health changes by other jobs, by time, and by telemetry.
HealthChanges(a, h) ==
    /\ health[a] # h
    /\ health' = [health EXCEPT ![a] = h]
    /\ UNCHANGED <<graph, running, busy, pass, worker>>

----------------------------------------------------------------------------
SchedTypeOK ==
    /\ IsGraph(graph)
    /\ running \subseteq Task
    /\ busy \in [Actor -> Nat]
    /\ health \in [Actor -> Health]
    /\ pass \in PassRecord
    /\ worker \in [WorkerId -> WorkerRecord]
=============================================================================
