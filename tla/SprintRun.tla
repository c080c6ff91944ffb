------------------------------ MODULE SprintRun ------------------------------
(* A sprint of the runner (src/runner/run-hermes-sprint.py): the phases of   *)
(* its specification, alone or in parallel groups, each an agent in a        *)
(* worktree of its own; what the controller validates, commits and merges    *)
(* into the integration branch; the conversation turns after each merge; the *)
(* final verification and READY_FOR_REVIEW.                                  *)
EXTENDS Naturals, Sequences

CONSTANTS Group, NoGroup,     \* parallel_group of each phase, in the order of the plan
          Agent, Role,        \* its agent, and its role: "builder", "hardener", "verifier"
          MaxJobTurns         \* limits.a2a.max_turns_per_job

ASSUME PlanIsASequence == /\ Group \in Seq({Group[i] : i \in DOMAIN Group}) /\ Len(Group) > 0
                          /\ MaxJobTurns \in Nat

VARIABLES point,              \* where execute has got
          first, place,       \* the first phase of the batch; the phase being integrated
          worker,             \* the agent of each phase
          files,              \* its worktree: "clean", tracked files "edited", files "added"
          vetted,             \* _validate_phase_changes has seen what is in the worktree
          changed,            \* whether it found changes
          commits,            \* the commit of each phase: "none", "vetted", "unvetted"
          branch, verified,   \* phases merged; those in the tree verified last
          summary,            \* run_summary["phases"]
          saved,              \* branch and summary when the integration of a group starts
          stuck,              \* the rollback of a group failed
          turns,              \* job_a2a_turns
          verdict,            \* what each verifier reported
          sigterm,            \* SIGTERM has come
          outcome             \* run_summary["status"]

sprintVars == <<point, first, place, worker, files, vetted, changed, commits, branch, verified,
                summary, saved, stuck, turns, verdict, sigterm, outcome>>

Phases == DOMAIN Group

SprintTypeOK ==
    /\ point \in {"prepare", "sync", "agents", "vet", "commit", "merge", "talk", "verify",
                  "finalize", "end"}
    /\ first \in 1..(Len(Group) + 1) /\ place \in Phases
    /\ worker \in [Phases -> {"idle", "running", "done", "failed"}]
    /\ files \in [Phases -> {"clean", "edited", "added"}]
    /\ vetted \in [Phases -> BOOLEAN] /\ changed \in [Phases -> BOOLEAN]
    /\ commits \in [Phases -> {"none", "vetted", "unvetted"}]
    /\ branch \cup verified \cup summary \subseteq Phases
    /\ saved \in [branch : SUBSET Phases, summary : SUBSET Phases]
    /\ turns \in 0..MaxJobTurns /\ verdict \in [Phases -> {"none", "passed", "failed"}]
    /\ stuck \in BOOLEAN /\ sigterm \in BOOLEAN
    /\ outcome \in {"INITIALIZING", "READY_FOR_REVIEW", "FAILED"}

SprintInit ==
    /\ point = "prepare" /\ first = 1 /\ place = 1
    /\ worker = [p \in Phases |-> "idle"] /\ files = [p \in Phases |-> "clean"]
    /\ vetted = [p \in Phases |-> FALSE] /\ changed = [p \in Phases |-> FALSE]
    /\ commits = [p \in Phases |-> "none"] /\ branch = {} /\ verified = {} /\ summary = {}
    /\ saved = [branch |-> {}, summary |-> {}] /\ turns = 0 /\ stuck = FALSE
    /\ verdict = [p \in Phases |-> "none"] /\ sigterm = FALSE /\ outcome = "INITIALIZING"

-----------------------------------------------------------------------------
\* _phase_batches: consecutive phases of one group are a batch, every other
\* phase is a batch of its own.
Batches == [i \in Phases |->
               {j \in Phases : j = i \/ (j > i /\ Group[i] # NoGroup
                                         /\ \A k \in i..j : Group[k] = Group[i])}]
Batch(i) == Batches[i]
Here == Batch(first)
Grouped == Here # {first}

\* A turn of agent a runs in the worktree of its last phase (phases_by_agent).
TurnTree(a) == CHOOSE p \in Phases : Agent[p] = a /\ \A q \in Phases : Agent[q] = a => q <= p

KeepTrees == UNCHANGED <<worker, files, vetted, changed, verdict>>
KeepBranch == UNCHANGED <<commits, branch, verified, summary, saved, stuck>>
KeepPlace == UNCHANGED <<first, place, turns, sigterm>>

\* execute's handler; an exception that is not a SprintRunnerError passes it,
\* and the status stays as it was.
Raise == point' = "end" /\ outcome' \in {"FAILED", "INITIALIZING"}
Proceed(to) == point' = to /\ UNCHANGED outcome

\* prepare_environment: a dirty worktree is refused, the others are reset.
Prepare ==
    /\ point = "prepare" /\ (Proceed("sync") \/ Raise)
    /\ KeepTrees /\ KeepBranch /\ KeepPlace

\* Backend and sync_phase_worktree: git reset --hard once there is a recorded
\* phase, which leaves untracked files.  Then the agents start.
Reset(p) == IF p \in Here /\ summary # {} /\ files[p] = "edited" THEN "clean" ELSE files[p]
SyncTrees ==
    /\ point = "sync" /\ Proceed("agents")
    /\ files' = [p \in Phases |-> Reset(p)]
    /\ worker' = [p \in Phases |-> IF p \in Here THEN "running" ELSE worker[p]]
    /\ UNCHANGED <<vetted, changed, verdict>> /\ KeepBranch /\ KeepPlace

SyncFails == point = "sync" /\ Raise /\ KeepTrees /\ KeepBranch /\ KeepPlace

\* The agent has left its handoff; a verifier reports a verdict.
AgentDone(p) ==
    /\ point = "agents" /\ worker[p] = "running" /\ ~sigterm
    /\ worker' = [worker EXCEPT ![p] = "done"]
    /\ \E t \in {files[p], "edited", "added"} : files' = [files EXCEPT ![p] = t]
    /\ \E v \in IF Role[p] = "verifier" THEN {"passed", "failed"} ELSE {"none"} :
         verdict' = [verdict EXCEPT ![p] = v]
    /\ UNCHANGED <<point, vetted, changed, outcome>> /\ KeepBranch /\ KeepPlace

\* No prompt, no handoff, a failed or timed-out execution, or SIGTERM.
AgentFailed(p) ==
    /\ point = "agents" /\ worker[p] = "running"
    /\ worker' = [worker EXCEPT ![p] = "failed"]
    /\ UNCHANGED <<point, files, vetted, changed, verdict, outcome>> /\ KeepBranch /\ KeepPlace

\* Every agent of the batch has ended; one failure stops it before a commit.
Joined ==
    /\ point = "agents" /\ \A p \in Here : worker[p] # "running"
    /\ IF \E p \in Here : worker[p] = "failed" THEN Raise ELSE Proceed("vet")
    /\ KeepTrees /\ KeepBranch /\ KeepPlace

\* _validate_phase_changes of the whole batch, before any of it is committed.
Acceptable(p) == CASE Role[p] = "verifier" -> files[p] = "clean"
                   [] Role[p] = "builder"  -> files[p] # "clean"
                   [] OTHER                -> TRUE

Vet ==
    /\ point = "vet" /\ (\A p \in Here : Acceptable(p)) /\ Proceed("commit")
    /\ vetted' = [p \in Phases |-> p \in Here \/ vetted[p]]
    /\ changed' = [p \in Phases |-> IF p \in Here THEN files[p] # "clean" ELSE changed[p]]
    /\ saved' = IF Grouped THEN [branch |-> branch, summary |-> summary] ELSE saved
    /\ place' = first
    /\ UNCHANGED <<first, worker, files, verdict, commits, branch, verified, summary, stuck,
                   turns, sigterm>>

\* Also for too many files, files outside owned_paths, or a syntax error.
VetFails == point = "vet" /\ Raise /\ KeepTrees /\ KeepBranch /\ KeepPlace

\* _integrate_phase: git add, git commit of what is in the worktree now.
CommitPhase ==
    /\ point = "commit"
    /\ IF changed[place]
       THEN /\ commits' = [commits EXCEPT ![place] = IF vetted[place] THEN "vetted" ELSE "unvetted"]
            /\ files' = [files EXCEPT ![place] = "clean"]
            /\ Proceed("merge") /\ UNCHANGED summary
       ELSE /\ Proceed("talk") /\ summary' = summary \cup {place}
            /\ UNCHANGED <<commits, files>>
    /\ UNCHANGED <<worker, vetted, changed, verdict, branch, verified, saved, stuck>> /\ KeepPlace

MergePhase ==
    /\ point = "merge" /\ Proceed("talk")
    /\ branch' = branch \cup {place} /\ summary' = summary \cup {place}
    /\ UNCHANGED <<commits, verified, saved, stuck>> /\ KeepTrees /\ KeepPlace

\* A turn of schedule_a2a_turns: an agent of any phase may write files.
TurnWrites(a) ==
    /\ point = "talk" /\ turns < MaxJobTurns /\ ~sigterm
    /\ turns' = turns + 1
    /\ \E t \in {"edited", "added"} : files' = [files EXCEPT ![TurnTree(a)] = t]
    /\ vetted' = [vetted EXCEPT ![TurnTree(a)] = FALSE]
    /\ UNCHANGED <<point, outcome, first, place, sigterm, worker, changed, verdict>> /\ KeepBranch

PhaseCompleted ==
    /\ point = "talk"
    /\ IF place + 1 \in Here
       THEN Proceed("commit") /\ place' = place + 1 /\ UNCHANGED first
       ELSE /\ first' = place + 1 /\ UNCHANGED place
            /\ IF first' \in Phases THEN Proceed("sync") ELSE Proceed("verify")
    /\ UNCHANGED <<turns, sigterm>> /\ KeepTrees /\ KeepBranch

\* Mutant of IntegrateFails: the records of a group are rolled back, the
\* branch is not.
IntegrateFailsHalfway ==
    /\ point \in {"commit", "merge", "talk"} /\ Raise
    /\ summary' = IF Grouped THEN saved.summary ELSE summary
    /\ UNCHANGED <<branch, commits, verified, saved, stuck>> /\ KeepTrees /\ KeepPlace

\* A commit, a merge (a conflict), or a record failed.  A group goes back to
\* its start, if git reset --hard does not fail in its turn.
IntegrateFails ==
    /\ point \in {"commit", "merge", "talk"} /\ Raise
    /\ \/ /\ branch' = IF Grouped THEN saved.branch ELSE branch
          /\ summary' = IF Grouped THEN saved.summary ELSE summary
          /\ UNCHANGED stuck
       \/ Grouped /\ stuck' = TRUE /\ UNCHANGED <<branch, summary>>
    /\ UNCHANGED <<commits, verified, saved>> /\ KeepTrees /\ KeepPlace

\* run_verification or run_tests_in_venv, in the integration worktree.
Verify ==
    /\ point = "verify"
    /\ \/ Proceed("finalize") /\ verified' = branch
       \/ Raise /\ UNCHANGED verified
    /\ UNCHANGED <<commits, branch, summary, saved, stuck>> /\ KeepTrees /\ KeepPlace

Rejected(p) == Role[p] = "verifier" /\ verdict[p] = "failed"
Finalize ==
    /\ point = "finalize"
    /\ IF \E p \in summary : Rejected(p) THEN Raise
       ELSE point' = "end" /\ outcome' = "READY_FOR_REVIEW"
    /\ KeepTrees /\ KeepBranch /\ KeepPlace

\* main: the handler of SIGTERM only sets the cancel event.
Sigterm ==
    /\ point # "end" /\ ~sigterm /\ sigterm' = TRUE
    /\ UNCHANGED <<point, outcome, first, place, turns>> /\ KeepTrees /\ KeepBranch

SprintStep ==
    \/ Prepare \/ SyncTrees \/ SyncFails \/ Joined \/ Vet \/ VetFails \/ CommitPhase \/ MergePhase
    \/ PhaseCompleted \/ IntegrateFails \/ Verify \/ Finalize \/ Sigterm
    \/ \E p \in Phases : AgentDone(p) \/ AgentFailed(p)
    \/ \E p \in Phases : TurnWrites(Agent[p])

SprintSpec == SprintInit /\ [][SprintStep]_sprintVars

-----------------------------------------------------------------------------
Integrating == point \in {"commit", "merge", "talk"}

\* A group is in the integration branch whole or not at all, whatever failed
\* ("A batch merges all of its phases or none", run-hermes-sprint.py:1691),
\* unless the reset itself failed.
BatchIsWhole ==
    \A i \in Phases :
      (\A j \in 1..(i - 1) : i \notin Batch(j)) /\ ~(Integrating /\ i = first) /\ ~stuck =>
        branch \cap Batch(i) \in {{}, {p \in Batch(i) : changed[p]}}

\* READY_FOR_REVIEW means that the branch has the work of every phase, that
\* it is the tree that passed the verification, and that no verifier said no.
ReadyIsWhole ==
    outcome = "READY_FOR_REVIEW" =>
      /\ summary = Phases /\ branch = {p \in Phases : changed[p]} /\ verified = branch /\ ~stuck
      /\ \A p \in Phases : ~Rejected(p)

\* Only in a group can a commit hold what no validation saw: what a turn of
\* an earlier phase's conversation wrote after the group was validated
\* (run-hermes-sprint.py:1682).
UnvettedOnlyInAGroup ==
    \A p \in Phases : commits[p] = "unvetted" => \E i \in 1..(p - 1) : p \in Batch(i)

\* The integration branch can be trusted.
SprintIsWhole == BatchIsWhole /\ ReadyIsWhole /\ UnvettedOnlyInAGroup
=============================================================================
