----------------------------- MODULE TaskAttempts -----------------------------
(* Attempts of tasks as they reach the repository: the coroutine that awaits *)
(* an attempt (ExecutionManager.execute, src/runtime/execution.py), the      *)
(* worker thread that runs it (HermesActorAdapter, src/runtime/              *)
(* hermes_adapter.py) and the agent's process                                *)
(* (src/runner/backends/subprocess_backend.py).                              *)
(*                                                                           *)
(* The coroutine can be cancelled or time out; the thread cannot.  It goes   *)
(* on, in the worktree that the next attempt of its task uses too, until it  *)
(* notices its cancel event or finishes.  Edits are named by their attempt.  *)
EXTENDS Integers, FiniteSets

CONSTANTS Attempts, TaskOf,
          Nth,          \* the number of each attempt of its task
          Verifiers     \* tasks whose role, verifier, forbids changes

ASSUME AttemptsAreNumbered ==
    /\ Nth \in [Attempts -> Nat]
    /\ \A a, b \in Attempts : TaskOf[a] = TaskOf[b] /\ Nth[a] = Nth[b] => a = b

VARIABLES run,          \* the AgentRun of each attempt
          thread,       \* where its worker thread is; at the end, what it returned
          cancelled,    \* attempts whose cancel event is set
          wrote,        \* attempts whose agent has changed files
          tree,         \* the uncommitted edits in each task's worktree
          staged,       \* the edits an attempt has committed and not merged
          merges,       \* merges into the integration branch: [by, edits, late]
          stopped,      \* the engine is fenced or cancelled
          overlap,      \* history: tasks with two threads at work at once
          unread        \* history: attempts for which a question put to git was not answered

taskVars == <<run, thread, cancelled, wrote, tree, staged, merges, stopped, overlap, unread>>

WorkTasks == {TaskOf[a] : a \in Attempts}
Idle == {"none", "succeeded", "failed"}
Critical == {"commit", "merge"}      \* under the repository's git lock

TaskTypeOK ==
    /\ run \in [Attempts -> Idle \cup {"running", "timed_out", "cancelled"}]
    /\ thread \in [Attempts -> Idle \cup Critical
                                 \cup {"prepare", "sync", "agent", "integrate", "settle"}]
    /\ cancelled \cup wrote \cup unread \subseteq Attempts
    /\ tree \in [WorkTasks -> SUBSET Attempts] /\ staged \in [Attempts -> SUBSET Attempts]
    /\ stopped \in BOOLEAN /\ overlap \subseteq WorkTasks

TaskInit ==
    /\ run = [a \in Attempts |-> "none"] /\ thread = [a \in Attempts |-> "none"]
    /\ cancelled = {} /\ wrote = {} /\ merges = {} /\ unread = {}
    /\ tree = [t \in WorkTasks |-> {}] /\ staged = [a \in Attempts |-> {}]
    /\ stopped = FALSE /\ overlap = {}

-----------------------------------------------------------------------------
Landed(a) == \E m \in merges : a \in m.edits
Edits(a) == tree[TaskOf[a]]
\* Mutant of LockFree: every attempt has a lock of its own.
NoLock == TRUE

LockFree == \A b \in Attempts : thread[b] \notin Critical
To(a, place) == thread' = [thread EXCEPT ![a] = place]
Returns(a, what) == To(a, what) /\ cancelled' = cancelled \ {a}
Earlier(a) == {b \in Attempts : TaskOf[b] = TaskOf[a] /\ Nth[b] < Nth[a]}
RepositoryVars == <<wrote, tree, staged, merges, unread>>

\* ExecutionManager.execute: a first attempt, or one after a failed one, is
\* recorded and its thread started.
Execute(a) ==
    /\ run[a] = "none" /\ ~stopped
    /\ \A b \in Earlier(a) : run[b] \in {"failed", "timed_out"}
    /\ run' = [run EXCEPT ![a] = "running"] /\ To(a, "prepare")
    /\ overlap' = IF \E b \in Earlier(a) : thread[b] \notin Idle THEN overlap \cup {TaskOf[a]} ELSE overlap
    /\ UNCHANGED <<cancelled, stopped>> /\ UNCHANGED RepositoryVars

\* The thread has returned to a coroutine still waiting for it.
Return(a) ==
    /\ run[a] = "running" /\ thread[a] \in Idle
    /\ run' = [run EXCEPT ![a] = thread[a]]
    /\ UNCHANGED <<thread, cancelled, stopped, overlap>> /\ UNCHANGED RepositoryVars

\* Mutant of Abandon: the cancel event is not set.
AbandonSilently(a, status) ==
    /\ run[a] = "running" /\ thread[a] \notin Idle
    /\ run' = [run EXCEPT ![a] = status]
    /\ UNCHANGED <<thread, cancelled, stopped, overlap>> /\ UNCHANGED RepositoryVars

\* wait_for, or the engine, cancels the coroutine: that sets the cancel event
\* and leaves the thread alone.
Abandon(a, status) ==
    /\ run[a] = "running" /\ thread[a] \notin Idle
    /\ run' = [run EXCEPT ![a] = status] /\ cancelled' = cancelled \cup {a}
    /\ UNCHANGED <<thread, stopped, overlap>> /\ UNCHANGED RepositoryVars
TimeOut(a) == Abandon(a, "timed_out")
CancelWorker(a) == stopped /\ Abandon(a, "cancelled")

\* The engine loses its lease or is cancelled; the adapter is fenced.  A
\* cancellation reaches the executions in the registry directly.
Stop ==
    /\ ~stopped /\ stopped' = TRUE
    /\ \/ UNCHANGED cancelled
       \/ cancelled' = cancelled \cup {a \in Attempts : thread[a] = "agent"}
    /\ UNCHANGED <<run, thread, overlap>> /\ UNCHANGED RepositoryVars

-----------------------------------------------------------------------------
\* The worker thread.  A worktree that cannot be prepared fails the attempt.
OutsideThread == UNCHANGED <<run, stopped, overlap>>

\* Mutant of EnsureWorktree: an existing worktree is used as it is.
ReuseWorktree(a) ==
    /\ thread[a] = "prepare" /\ LockFree /\ To(a, "sync")
    /\ UNCHANGED cancelled /\ UNCHANGED RepositoryVars /\ OutsideThread

\* A git status, or rev-parse, that fails is taken for an answer: nothing has
\* changed, or here is no worktree.  The attempt goes on all the same.
GitAnswers == UNCHANGED unread
GitIsSilent(a) == unread' = unread \cup {a}

\* inspect_changed_files: the files that were changed or, unanswered, none.
Inspected(a, found) == \/ found = Edits(a) /\ GitAnswers
                       \/ found = {} /\ GitIsSilent(a)

\* _ensure_worktree: what an interrupted attempt left is reset and cleaned, if
\* the target is seen to be a repository and the worktree to be dirty.
EnsureWorktree(a) ==
    /\ thread[a] = "prepare" /\ To(a, "sync")
    /\ \/ LockFree /\ tree' = [tree EXCEPT ![TaskOf[a]] = {}] /\ GitAnswers
       \/ UNCHANGED tree /\ GitIsSilent(a)
    /\ UNCHANGED <<cancelled, wrote, staged, merges>> /\ OutsideThread

\* reset --hard to the integration branch: changed files go, new files stay.
\* The event is looked at once more before the agent's process starts.
SyncWorktree(a) ==
    /\ thread[a] = "sync" /\ LockFree
    /\ \E left \in {{}, Edits(a)} : tree' = [tree EXCEPT ![TaskOf[a]] = left]
    /\ IF a \in cancelled THEN Returns(a, "failed") ELSE To(a, "agent") /\ UNCHANGED cancelled
    /\ UNCHANGED <<wrote, staged, merges, unread>> /\ OutsideThread

WorktreeFails(a) ==
    /\ thread[a] \in {"prepare", "sync"} /\ LockFree /\ Returns(a, "failed")
    /\ UNCHANGED RepositoryVars /\ OutsideThread

AgentWrites(a) ==
    /\ thread[a] = "agent"
    /\ tree' = [tree EXCEPT ![TaskOf[a]] = @ \cup {a}] /\ wrote' = wrote \cup {a}
    /\ UNCHANGED <<thread, cancelled, staged, merges, unread>> /\ OutsideThread

\* A process that ends returns, event or no; one past its deadline is killed.
\* Then syntax and role: a verifier that is seen to have changed something
\* fails, and so does a builder by explicit role that is seen to have changed
\* nothing.
AgentExits(a) ==
    /\ thread[a] = "agent" /\ UNCHANGED <<wrote, tree, staged, merges>> /\ OutsideThread
    /\ \/ Returns(a, "failed") /\ UNCHANGED unread
       \/ \E found \in {{}, Edits(a)} :
             /\ Inspected(a, found) /\ (TaskOf[a] \in Verifiers => found = {})
             /\ To(a, "integrate") /\ UNCHANGED cancelled

\* _run_owned polls the event ten times a second and stops the process:
\* SIGTERM and, after the grace period, SIGKILL.
NoticeCancel(a) ==
    /\ thread[a] = "agent" /\ a \in cancelled /\ Returns(a, "failed")
    /\ UNCHANGED RepositoryVars /\ OutsideThread

\* _commit_and_integrate_changes is one critical section, and looks at the
\* fence before it stages and commits and again before it merges.
Fenced == stopped

LeaveFenced(a) ==
    /\ Fenced
    /\ \/ thread[a] = "integrate" /\ LockFree
       \/ thread[a] = "commit"
    /\ Returns(a, "failed") /\ staged' = [staged EXCEPT ![a] = {}]
    /\ UNCHANGED <<wrote, tree, merges, unread>> /\ OutsideThread

\* The worktree is not seen to be one: no lock, no fence, and no commit.
SkipCommit(a) ==
    /\ thread[a] = "integrate" /\ To(a, "settle") /\ GitIsSilent(a)
    /\ UNCHANGED <<cancelled, wrote, tree, staged, merges>> /\ OutsideThread

CommitWork(a) ==
    /\ thread[a] = "integrate" /\ LockFree /\ ~Fenced
    /\ \E found \in {{}, Edits(a)} :
          /\ Inspected(a, found)
          /\ IF found = {} \/ TaskOf[a] \in Verifiers
             THEN To(a, "settle") /\ UNCHANGED <<staged, tree>>
             ELSE /\ To(a, "commit") /\ staged' = [staged EXCEPT ![a] = found]
                  /\ tree' = [tree EXCEPT ![TaskOf[a]] = {}]
    /\ UNCHANGED <<cancelled, wrote, merges>> /\ OutsideThread

\* The last look at the fence: from here the merge is done, fence or no.
BeginMerge(a) ==
    /\ thread[a] = "commit" /\ ~Fenced /\ To(a, "merge")
    /\ UNCHANGED cancelled /\ UNCHANGED RepositoryVars /\ OutsideThread

\* The integration worktree is not seen to be one: the commit is returned as
\* if it were merged, and the fence is not looked at again.
SkipMerge(a) ==
    /\ thread[a] = "commit" /\ To(a, "settle") /\ GitIsSilent(a)
    /\ UNCHANGED <<cancelled, wrote, tree, staged, merges>> /\ OutsideThread

MergeIn(a) ==
    /\ thread[a] = "merge" /\ To(a, "settle")
    /\ merges' = merges \cup {[by |-> a, edits |-> staged[a], late |-> stopped]}
    /\ staged' = [staged EXCEPT ![a] = {}]
    /\ UNCHANGED <<cancelled, wrote, tree, unread>> /\ OutsideThread

\* Mutant of Conflict: the aborted merge does not fail the attempt.
ConflictIgnored(a) ==
    /\ thread[a] = "merge" /\ To(a, "settle")
    /\ staged' = [staged EXCEPT ![a] = {}]
    /\ UNCHANGED <<cancelled, wrote, tree, merges, unread>> /\ OutsideThread

\* Another task changed the same lines, or git failed: the merge is aborted.
Conflict(a) ==
    /\ thread[a] = "merge" /\ Returns(a, "failed")
    /\ staged' = [staged EXCEPT ![a] = {}]
    /\ UNCHANGED <<wrote, tree, merges, unread>> /\ OutsideThread

\* Exit code and verdict are judged last, with the work already merged.
Settle(a) ==
    /\ thread[a] = "settle" /\ \E what \in {"succeeded", "failed"} : Returns(a, what)
    /\ UNCHANGED RepositoryVars /\ OutsideThread

ThreadStep(a) ==
    \/ EnsureWorktree(a) \/ SyncWorktree(a) \/ WorktreeFails(a)
    \/ NoticeCancel(a) \/ LeaveFenced(a)
    \/ SkipCommit(a) \/ CommitWork(a) \/ SkipMerge(a)
    \/ BeginMerge(a) \/ MergeIn(a) \/ Conflict(a) \/ Settle(a)

TaskStep ==
    \/ Stop
    \/ \E a \in Attempts : \/ Execute(a) \/ Return(a) \/ TimeOut(a) \/ CancelWorker(a)
                           \/ ThreadStep(a) \/ AgentWrites(a) \/ AgentExits(a)

TaskSpec == TaskInit /\ [][TaskStep]_taskVars

-----------------------------------------------------------------------------
\* After the fence at most the merge that was under way reaches the branch
\* (hermes_adapter.py:305, "Authoritative Git mutation aborted"): the checks
\* and the merge are one critical section of the repository's lock.
OneMergeAfterFence == Cardinality({m \in merges : m.late}) <= 1

\* The work of an attempt is where it can be found: in its commit or, not
\* committed, in the worktree of its task.
StillThere(a) == a \in staged[a] \cup Edits(a)

\* A run that succeeded has its work in the integration branch, whatever other
\* attempts did.  When git gave no answer for it, which skips the commit
\* (hermes_adapter.py:625 and :633) or the merge (:652) and fails nothing, the
\* work is at least kept.  A thread abandoned by an earlier attempt of its task
\* and still at work in its worktree can take that work from it.
SuccessIsMerged ==
    \A a \in wrote : run[a] = "succeeded" /\ TaskOf[a] \notin overlap =>
        Landed(a) \/ (a \in unread /\ StillThere(a))

\* What an attempt merges is its own: a retry begins without what an earlier
\* attempt left in the worktree (hermes_adapter.py:516), if git answered for it
\* and no earlier attempt's thread is still at work there.
WorkIsItsOwn ==
    \A m \in merges : TaskOf[m.by] \notin overlap /\ m.by \notin unread => m.edits = {m.by}

\* Once the engine is stopped every thread winds down and every agent's process
\* ends, though a thread cannot be cancelled and an agent never stops on its own
\* (stopped is never taken back).
StopWindsDown == []<>(stopped => \A a \in Attempts : thread[a] \in Idle)
=============================================================================
