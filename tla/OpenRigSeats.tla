---------------------------- MODULE OpenRigSeats ----------------------------
(* Rigs that Hermes launches for its tasks (src/runner/backends/             *)
(* openrig_backend.py): the pool of idle seats that a process keeps for a    *)
(* job, and what survives a crash, the ledger of owned rigs and of launches  *)
(* under way (openrig_ledger.py).  The daemon is external: it creates and    *)
(* removes rigs, and its answers can be lost.                                *)
(*                                                                           *)
(* The tasks are those of one job, run by the processes that drive it.  A    *)
(* task launches at most one rig, which is named here after the task.        *)
EXTENDS FiniteSets

CONSTANTS RigTasks, NoSeat,
          Processes, Placements,   \* Hermes processes, and the tasks each may be given
          Mortal                   \* bound: the processes that may die

ASSUME RigsArePlaced == Placements \subseteq [RigTasks -> Processes] /\ NoSeat \notin RigTasks

VARIABLES ProcessOf,     \* the process of each task, chosen once
          up, coming,    \* rigs the daemon has, and is still creating
          owned,         \* rigs recorded as owned, each under the process of its task
          pending,       \* the record of each launch under way
          aged,          \* records past PENDING_LAUNCH_MAX_AGE
          alive,         \* Hermes processes that run
          closed,        \* processes where release_job has ended the job
          at, seat,      \* where each task is, and the rig it holds
          pool           \* where the process's pool has each rig

rigVars == <<ProcessOf, up, coming, owned, pending, aged, alive, closed, at, seat, pool>>

Ended == {"new", "done"}
Working == {"work", "put"}

RigTypeOK ==
    /\ ProcessOf \in Placements
    /\ up \cup coming \cup owned \cup aged \subseteq RigTasks
    /\ alive \subseteq Processes /\ closed \subseteq Processes
    /\ pending \in [RigTasks -> {"none", "launching", "abandoned"}]
    /\ at \in [RigTasks -> Ended \cup Working
                             \cup {"preflight", "launch", "up", "release", "cleanup"}]
    /\ seat \in [RigTasks -> RigTasks \cup {NoSeat}]
    /\ pool \in [RigTasks -> {"out", "idle", "inflight", "failed"}]

RigInit ==
    /\ ProcessOf \in Placements
    /\ up = {} /\ coming = {} /\ owned = {} /\ aged = {} /\ closed = {} /\ alive = Processes
    /\ pending = [r \in RigTasks |-> "none"] /\ pool = [r \in RigTasks |-> "out"]
    /\ at = [t \in RigTasks |-> "new"] /\ seat = [t \in RigTasks |-> NoSeat]

-----------------------------------------------------------------------------
Live(t) == ProcessOf[t] \in alive
Goes(t, place) == at' = [at EXCEPT ![t] = place]
At(t, place) == Live(t) /\ at[t] = place
Holds(t, r) == seat' = [seat EXCEPT ![t] = r]
Pooled(rigs, where) == pool' = [r \in RigTasks |-> IF r \in rigs THEN where ELSE pool[r]]
InPool(p, places) == {r \in RigTasks : ProcessOf[r] = p /\ pool[r] \in places}
Marked(r, what) == pending' = [pending EXCEPT ![r] = what]

\* _teardown: by exact id; a rig that is gone counts as released.  The ledger
\* drops it last, if it can.  A failure may hide a success of the daemon.
Teardown(r, ok) ==
    /\ up' \in IF ok THEN {up \ {r}} ELSE {up, up \ {r}}
    /\ owned' \in IF ok THEN {owned, owned \ {r}} ELSE {owned}

UnchangedRigs == UNCHANGED <<up, coming, owned>>
UnchangedLaunch == UNCHANGED <<coming, pending, aged, alive, closed>>

\* preflight: before it leases a seat a task releases what dead processes and
\* abandoned launches left, as far as its budget goes.
Preflight(t) ==
    /\ At(t, "new") /\ Goes(t, "preflight")
    /\ UnchangedRigs /\ UNCHANGED <<pending, aged, alive, closed, seat, pool>>

\* Mutant of StaleOwner: whether the owner lives is not asked.
AnyOwner(r) == r \in owned

StaleOwner(r) == r \in owned /\ ~Live(r)

ReconcileLedger(t, r) ==
    /\ At(t, "preflight") /\ StaleOwner(r)
    /\ \E ok \in BOOLEAN : Teardown(r, ok)
    /\ UnchangedLaunch /\ UNCHANGED <<at, seat, pool>>

Unwaited(r) == pending[r] = "abandoned" \/ (pending[r] = "launching" /\ ~Live(r))

\* Matched by name in the daemon's listing; cleared only when released.
ReconcilePending(t, r) ==
    /\ At(t, "preflight") /\ Unwaited(r) /\ r \notin aged /\ r \in up
    /\ \E ok \in BOOLEAN :
         Teardown(r, ok) /\ IF ok THEN Marked(r, "none") ELSE UNCHANGED pending
    /\ UNCHANGED <<coming, aged, alive, closed, at, seat, pool>>

\* An old record is dropped whether or not its rig has appeared.
GiveUpPending(t, r) ==
    /\ At(t, "preflight") /\ pending[r] # "none" /\ r \in aged /\ Marked(r, "none")
    /\ UnchangedRigs /\ UNCHANGED <<aged, alive, closed, at, seat, pool>>

\* pool.acquire, with a fresh occupant: one that fails has its rig torn down.
LeaseSeat(t, r) ==
    /\ At(t, "preflight") /\ r \in InPool(ProcessOf[t], {"idle"})
    /\ Pooled({r}, "out") /\ Holds(t, r)
    /\ \E place \in {"work", "release"} : Goes(t, place)
    /\ UnchangedRigs /\ UNCHANGED <<pending, aged, alive, closed>>

\* Mutant of RecordPending: a launch whose record fails is made all the same.
LaunchUnrecorded(t) ==
    /\ At(t, "preflight") /\ InPool(ProcessOf[t], {"idle"}) = {}
    /\ Goes(t, "launch") /\ pending' \in {pending, [pending EXCEPT ![t] = "launching"]}
    /\ UnchangedRigs /\ UNCHANGED <<aged, alive, closed, seat, pool>>

\* _launch: the record comes first, and a launch without one is not made.
RecordPending(t) ==
    /\ At(t, "preflight") /\ InPool(ProcessOf[t], {"idle"}) = {}
    /\ \/ Goes(t, "launch") /\ Marked(t, "launching")
       \/ Goes(t, "done") /\ UNCHANGED pending
    /\ UnchangedRigs /\ UNCHANGED <<aged, alive, closed, seat, pool>>

\* rig up: the daemon goes on with the rig though the caller stops waiting.
RigUp(t) ==
    /\ At(t, "launch") /\ Goes(t, "up") /\ coming' = coming \cup {t}
    /\ UNCHANGED <<up, owned, pending, aged, alive, closed, seat, pool>>
DaemonCreates(t) ==
    /\ t \in coming /\ coming' = coming \ {t} /\ up' \in {up, up \cup {t}}
    /\ UNCHANGED <<owned, pending, aged, alive, closed, at, seat, pool>>

\* _track: the ledger entry replaces the pending record; without it the record
\* stays, and a rig that could not be recorded is torn down.
Track(t) ==
    /\ t \in up /\ Holds(t, t)
    /\ \/ owned' = owned \cup {t} /\ pending' \in {pending, [pending EXCEPT ![t] = "none"]}
       \/ /\ pending' \in {pending, [pending EXCEPT ![t] = "abandoned"]}
          /\ UNCHANGED owned /\ Goes(t, "release")

\* An answer with a rigId: a launch that did not complete is torn down.
RigAnswers(t) ==
    /\ At(t, "up") /\ Track(t) /\ \E place \in {"work", "release"} : Goes(t, place)
    /\ UNCHANGED <<up, coming, aged, alive, closed, pool>>

\* No answer (lost, malformed, cancelled, too late): _adopt_orphan searches the
\* listing for a rig of that name, tracks it and has it released; else the
\* launch is abandoned to a later preflight.
AnswerLost(t) ==
    /\ At(t, "up")
    /\ \/ Track(t) /\ Goes(t, "release")
       \/ Marked(t, "abandoned") /\ Goes(t, "done") /\ UNCHANGED <<owned, seat>>
    /\ UNCHANGED <<up, coming, aged, alive, closed, pool>>

-----------------------------------------------------------------------------
\* The prompt is sent and a completion proven, or not.
Finish(t) ==
    /\ At(t, "work") /\ \E place \in {"put", "release"} : Goes(t, place)
    /\ UnchangedRigs /\ UNCHANGED <<pending, aged, alive, closed, seat, pool>>

\* pool.put: a seat of a job that has ended since goes to teardown.  Its timer
\* is started before it is published; one that cannot start fails the task.
Put(t) ==
    /\ At(t, "put")
    /\ \/ /\ Goes(t, "done") /\ Holds(t, NoSeat)
          /\ Pooled({seat[t]}, IF ProcessOf[t] \in closed THEN "inflight" ELSE "idle")
       \/ Goes(t, "release") /\ ProcessOf[t] \notin closed /\ UNCHANGED <<seat, pool>>
    /\ UnchangedRigs /\ UNCHANGED <<pending, aged, alive, closed>>

\* _release_quietly, then cleanup() once more; after that only the ledger knows.
Release(t) ==
    /\ \/ At(t, "release")
       \/ At(t, "cleanup")
    /\ \E ok \in BOOLEAN :
         /\ Teardown(seat[t], ok)
         /\ IF ok \/ at[t] = "cleanup" THEN Goes(t, "done") /\ Holds(t, NoSeat)
            ELSE Goes(t, "cleanup") /\ UNCHANGED seat
    /\ UnchangedLaunch /\ UNCHANGED pool

\* The pool's own teardowns: the idle timer, the end of the job, the exit.
Expire(r) ==
    /\ Live(r) /\ pool[r] = "idle" /\ Pooled({r}, "inflight")
    /\ UnchangedRigs /\ UNCHANGED <<pending, aged, alive, closed, at, seat>>

ReleaseJob(p) ==
    /\ p \in alive /\ (\E t \in RigTasks : ProcessOf[t] = p) /\ closed' = closed \cup {p}
    /\ Pooled(InPool(p, {"idle", "failed"}), "inflight")
    /\ UnchangedRigs /\ UNCHANGED <<pending, aged, alive, at, seat>>

Drain(p) ==
    /\ p \in alive /\ \A t \in RigTasks : ProcessOf[t] = p => at[t] \in Ended
    /\ InPool(p, {"idle", "failed"}) # {} /\ Pooled(InPool(p, {"idle", "failed"}), "inflight")
    /\ UnchangedRigs /\ UNCHANGED <<pending, aged, alive, closed, at, seat>>

PoolRelease(r) ==
    /\ Live(r) /\ pool[r] = "inflight"
    /\ \E ok \in BOOLEAN : Teardown(r, ok) /\ Pooled({r}, IF ok THEN "out" ELSE "failed")
    /\ UnchangedLaunch /\ UNCHANGED <<at, seat>>

\* A process exits or crashes, with its pool and its tasks.
Dies(p) ==
    /\ p \in alive \cap Mortal /\ (\E t \in RigTasks : ProcessOf[t] = p)
    /\ alive' = alive \ {p}
    /\ at' = [t \in RigTasks |-> IF ProcessOf[t] = p THEN "done" ELSE at[t]]
    /\ seat' = [t \in RigTasks |-> IF ProcessOf[t] = p THEN NoSeat ELSE seat[t]]
    /\ Pooled(InPool(p, {"idle", "inflight", "failed"}), "out")
    /\ UnchangedRigs /\ UNCHANGED <<pending, aged, closed>>

\* An hour passes since a launch was recorded.  One under way does not take so
\* long: it ends by its task's timeout, here less than an hour (a bound).
HourPasses(r) ==
    /\ pending[r] # "none" /\ at[r] \notin {"launch", "up"} /\ aged' = aged \cup {r}
    /\ UnchangedRigs /\ UNCHANGED <<pending, alive, closed, at, seat, pool>>

RigStep ==
    /\ UNCHANGED ProcessOf
    /\ \/ \E t \in RigTasks :
            \/ Preflight(t) \/ RecordPending(t) \/ RigUp(t) \/ DaemonCreates(t) \/ RigAnswers(t)
            \/ AnswerLost(t) \/ Finish(t) \/ Put(t) \/ Release(t)
            \/ Expire(t) \/ PoolRelease(t) \/ HourPasses(t)
            \/ \E r \in RigTasks : \/ ReconcileLedger(t, r) \/ ReconcilePending(t, r)
                                   \/ GiveUpPending(t, r) \/ LeaseSeat(t, r)
       \/ \E p \in Processes : Drain(p) \/ Dies(p) \/ ReleaseJob(p)

RigSpec == RigInit /\ [][RigStep]_rigVars

-----------------------------------------------------------------------------
\* The seat a task works in is its own and up: no other task has it, it is not
\* in the pool, and neither an ended job, the idle timer nor the preflight of
\* another process tears it down (openrig_backend.py:70, 539, 563).
SeatIsItsHolders ==
    \A t \in RigTasks : Live(t) /\ at[t] \in Working =>
        /\ seat[t] \in up /\ pool[seat[t]] = "out"
        /\ \A u \in RigTasks \ {t} : Live(u) => seat[u] # seat[t]

\* A rig that runs, or may yet, is known on disk, so that some later preflight
\* can release it: whatever crashes or is lost, "a rig is never launched
\* unrecorded" (openrig_backend.py:593), up to the age at which records drop.
NoRigIsForgotten == \A r \in (up \cup coming) \ aged : r \in owned \/ pending[r] # "none"
=============================================================================
