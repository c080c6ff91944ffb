----------------------------- MODULE JobRecords -----------------------------
(* What the API shows of a job, and keeps across restarts: the record of     *)
(* JobService (src/jobs/job_service.py), written by a live engine's events,  *)
(* by a sprint runner's telemetry through JobStateReducer                    *)
(* (src/jobs/job_state_reducer.py, runner/control_plane/event_publisher.py)  *)
(* and by JobLauncher, and saved to job.json by whichever thread touches it. *)
EXTENDS Naturals, FiniteSets

CONSTANTS Savers,          \* threads that persist: the API's and an engine's
          MaxRestarts      \* bound on restarts of the API process

ASSUME RestartsAreBounded == MaxRestarts \in Nat

VARIABLES origin,            \* a job of an engine, or of a legacy runner process
          record,          \* status in memory; "none" when not known
          disk, cached,    \* job.json, and the payload JobService believes is there
          saver,           \* each thread's persist_job under way
          stale,           \* the last save failed, or two saves overlapped
          engine, driver,  \* state of the engine; whether it, or the runner, runs here
          runner,          \* how far the runner has got
          inbox,           \* its posts not yet handled, in no order
          restarts

recordVars == <<origin, record, disk, cached, saver, stale, engine, driver, runner, inbox, restarts>>

Ends == {"COMPLETED", "FAILED", "CANCELLED"}
Statuses == Ends \cup {"PREPARING", "RUNNING"}
NotSaving == [step |-> "idle", payload |-> "none", alone |-> FALSE]
Posts == {"phase.started", "phase.failed", "job.completed", "job.failed"}

RecordTypeOK ==
    /\ origin \in {"engine", "legacy"} /\ {record, disk, cached} \subseteq Statuses \cup {"none"}
    /\ saver \in [Savers -> [step : {"idle", "write", "note"}, payload : Statuses \cup {"none"},
                            alone : BOOLEAN]]
    /\ stale \in BOOLEAN /\ engine \in Statuses /\ driver \in BOOLEAN
    /\ runner \in {"phases", "ended", "killed"} /\ inbox \subseteq Posts /\ restarts \in 0..MaxRestarts

RecordInit ==
    /\ origin \in {"engine", "legacy"} /\ record = "PREPARING" /\ disk = "none" /\ cached = "none"
    /\ saver = [s \in Savers |-> NotSaving] /\ stale = TRUE /\ engine = "RUNNING" /\ driver = TRUE
    /\ runner = "phases" /\ inbox = {} /\ restarts = 0

-----------------------------------------------------------------------------
Saving == {s \in Savers : saver[s].step # "idle"}
UnchangedWork == UNCHANGED <<origin, engine, driver, runner, inbox, restarts>>

\* Mutant of Persist: a terminal record is written once and for all.
PersistOnce(s, status) ==
    /\ record' = status /\ s \notin Saving
    /\ LET others == [o \in Savers |-> [saver[o] EXCEPT !.alone = FALSE]]
       IN  saver' = IF status = cached \/ cached \in Ends THEN others ELSE
             [others EXCEPT ![s] = [step |-> "write", payload |-> status, alone |-> Saving = {}]]
    /\ stale' = (stale \/ Saving # {})
    /\ UNCHANGED <<disk, cached>>

\* persist_job, from its payload on: nothing is written when the payload is the
\* one believed to be on disk; otherwise a temporary file replaces job.json,
\* and then the payload is noted.  No lock is held.
Persist(s, status) ==
    /\ record' = status /\ s \notin Saving
    /\ LET others == [o \in Savers |-> [saver[o] EXCEPT !.alone = FALSE]]
       IN  saver' = IF status = cached THEN others ELSE
             [others EXCEPT ![s] = [step |-> "write", payload |-> status, alone |-> Saving = {}]]
    /\ stale' = (stale \/ Saving # {})
    /\ UNCHANGED <<disk, cached>>

Replace(s) ==
    /\ saver[s].step = "write" /\ disk' = saver[s].payload
    /\ saver' = [saver EXCEPT ![s].step = "note"]
    /\ UNCHANGED <<record, cached, stale>> /\ UnchangedWork

\* A save that no other overlapped settles what earlier ones left open.
Note(s) ==
    /\ saver[s].step = "note" /\ cached' = saver[s].payload
    /\ saver' = [saver EXCEPT ![s] = NotSaving] /\ stale' = (stale /\ ~saver[s].alone)
    /\ UNCHANGED <<record, disk>> /\ UnchangedWork

SaveFails(s) ==
    /\ saver[s].step = "write" /\ saver' = [saver EXCEPT ![s] = NotSaving] /\ stale' = TRUE
    /\ UNCHANGED <<record, disk, cached>> /\ UnchangedWork

-----------------------------------------------------------------------------
\* get_job: the record takes the state of a registered engine.
Synced == IF origin = "engine" /\ driver THEN engine ELSE record

GetJob(s) ==
    /\ record # "none" /\ Persist(s, Synced) /\ UnchangedWork

\* The engine's bridge tells its listener of each event it has persisted.
EngineMoves(s) ==
    /\ origin = "engine" /\ driver /\ engine \notin Ends /\ record # "none"
    /\ engine' \in Ends /\ Persist(s, engine')
    /\ UNCHANGED <<origin, driver, runner, inbox, restarts>>

\* get_job_async: a job with no record is projected from the event store.
Reconstruct(s) ==
    /\ record = "none" /\ origin = "engine" /\ Persist(s, engine) /\ UnchangedWork

\* The launcher resumes a job of an earlier process: register_engine.
Reattach(s) ==
    /\ origin = "engine" /\ ~driver /\ engine \notin Ends /\ driver' = TRUE
    /\ Persist(s, engine)
    /\ UNCHANGED <<origin, engine, runner, inbox, restarts>>

-----------------------------------------------------------------------------
\* The runner posts and goes on after a second, answered or not.  It ends with
\* its verdict, or is killed, or dies without a word.
RunnerPosts ==
    /\ origin = "legacy" /\ runner = "phases"
    /\ \/ \E post \in {"phase.started", "phase.failed"} : inbox' = inbox \cup {post} /\ UNCHANGED runner
       \/ \E post \in {"job.completed", "job.failed"} : inbox' = inbox \cup {post} /\ runner' = "ended"
       \/ runner' = "ended" /\ UNCHANGED inbox
    /\ UNCHANGED <<origin, record, disk, cached, saver, stale, engine, driver, restarts>>

PostLost(post) ==
    /\ post \in inbox /\ inbox' = inbox \ {post}
    /\ UNCHANGED <<origin, record, disk, cached, saver, stale, engine, driver, runner, restarts>>

\* JobStateReducer.apply.  A phase that starts makes any job RUNNING, and
\* creates one that is not known; other posts need a record.
Applied(post) ==
    CASE post = "phase.started" -> "RUNNING"
      [] post = "job.completed" /\ record # "none" -> "COMPLETED"
      [] post = "job.failed" /\ record # "none" -> "FAILED"
      [] post = "job.cancelled" /\ record # "none" -> "CANCELLED"
      [] OTHER -> record

Ingest(s, post) ==
    /\ post \in inbox /\ inbox' = inbox \ {post}
    /\ IF Applied(post) = "none" THEN UNCHANGED <<record, disk, cached, saver, stale>>
       ELSE Persist(s, Applied(post))
    /\ UNCHANGED <<origin, engine, driver, runner, restarts>>

\* _cancel_legacy_proc: the process group is killed, then the record says so.
\* An engine is cancelled through itself first.
CancelLegacy(s) ==
    /\ origin = "legacy" /\ driver /\ runner = "phases" /\ runner' = "killed"
    /\ Persist(s, Applied("job.cancelled"))
    /\ UNCHANGED <<origin, engine, driver, inbox, restarts>>

CancelEngine(s) ==
    /\ origin = "engine" /\ driver /\ engine \notin Ends /\ engine' = "CANCELLED"
    /\ record # "none" /\ Persist(s, "CANCELLED")
    /\ UNCHANGED <<origin, driver, runner, inbox, restarts>>

-----------------------------------------------------------------------------
\* The process restarts: saves under way are lost with it, and a record that
\* had not ended is failed, and saved as that if it can be.  A record that
\* cannot be read is not known.
\* Mutant of Recovered: only a completed job counts as ended.
RecoveredUnlessCompleted == IF disk \in {"COMPLETED", "none"} THEN disk ELSE "FAILED"

Recovered == IF disk \in Ends \cup {"none"} THEN disk ELSE "FAILED"

Restart ==
    /\ restarts < MaxRestarts /\ restarts' = restarts + 1 /\ driver' = FALSE
    /\ record' \in {Recovered, "none"}
    /\ disk' \in IF record' = "none" THEN {disk} ELSE {disk, record'}
    /\ cached' = IF record' = "none" THEN "none" ELSE disk'
    /\ stale' = (record' # disk')
    /\ saver' = [s \in Savers |-> NotSaving]
    /\ UNCHANGED <<origin, engine, runner, inbox>>

RecordStep ==
    \/ RunnerPosts \/ Restart
    \/ \E post \in Posts : PostLost(post) \/ \E s \in Savers : Ingest(s, post)
    \/ \E s \in Savers : \/ Replace(s) \/ Note(s) \/ SaveFails(s) \/ GetJob(s) \/ EngineMoves(s)
                         \/ Reconstruct(s) \/ Reattach(s) \/ CancelLegacy(s) \/ CancelEngine(s)

RecordSpec == RecordInit /\ [][RecordStep]_recordVars

-----------------------------------------------------------------------------
\* job.json is the record unless a save failed, overlapped another or is under
\* way: "unchanged snapshots require no disk write" (job_service.py:129) never
\* leaves an older one there.
RecordIsSaved == ~stale /\ Saving = {} => disk = record /\ cached = disk

\* A restart does not change what a job had come to, if that was saved: its
\* record comes back as it was, or cannot be read (job_service.py:199).
RestartKeepsVerdicts ==
    [][restarts' # restarts /\ record \in Ends /\ ~stale /\ Saving = {}
         => record' \in {record, "none"}]_recordVars
=============================================================================
