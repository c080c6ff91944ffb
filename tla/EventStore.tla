----------------------------- MODULE EventStore -----------------------------
(* One job's event log as the stores keep it, and the bridge that appends   *)
(* to it: src/runtime/storage/postgres_store.py (on PostgreSQL, where an    *)
(* advisory transaction lock serialises the appends of a job, and on        *)
(* SQLite, where only the unique constraints do), in_memory_store.py, and   *)
(* persist_and_publish of src/runtime/events.py.                            *)
(*                                                                          *)
(* A caller is one call of append.  Callers of one host share its per-job   *)
(* asyncio lock.  The store may be unreachable at any step of a call, the   *)
(* reply to a commit may be lost, and a host may die.                       *)
EXTENDS Integers, FiniteSets

CONSTANTS Callers, Id, Body, Explicit,
          Host,         \* the process of each caller
          Dialects,     \* subset of {"memory", "postgres", "sqlite"}
          MaxRetries    \* attempts of an append with an allocated sequence

\* A call asks for a sequence (above 0) or has one allocated; it is tried once
\* at least.
ASSUME StoreConstants == /\ IsFiniteSet(Callers) /\ Explicit \in [Callers -> Nat]
                         /\ MaxRetries \in Nat \ {0}

VARIABLES dialect,      \* the store in use
          rows,         \* committed rows: [id, body, seq]
          call,         \* where each call is
          seq,          \* the sequence it has computed
          tries,        \* the attempts it has made
          answer        \* what its caller was told

storeVars == <<dialect, rows, call, seq, tries, answer>>

Hosts == {Host[c] : c \in Callers}
MaxSeq(R) == IF R = {} THEN 0 ELSE CHOOSE n \in {r.seq : r \in R} : \A r \in R : r.seq <= n

StoreTypeOK ==
    /\ dialect \in Dialects
    /\ \A r \in rows : r.seq \in 1..Cardinality(Callers)
    /\ call \in [Callers -> {"idle", "open", "insert", "done"}]
    /\ seq \in [Callers -> 0..Cardinality(Callers)]
    /\ tries \in [Callers -> 0..MaxRetries]
    /\ answer \in [Callers -> {"none", "stored", "unavailable", "lost",
                               "idempotency_conflict", "sequence_conflict"}]

StoreInit ==
    /\ dialect \in Dialects
    /\ rows = {}
    /\ call = [c \in Callers |-> "idle"] /\ seq = [c \in Callers |-> 0]
    /\ tries = [c \in Callers |-> 0] /\ answer = [c \in Callers |-> "none"]

-----------------------------------------------------------------------------
Row(c, n) == [id |-> Id[c], body |-> Body[c], seq |-> n]
Stored(c) == \E r \in rows : r.id = Id[c]
SameStored(c) == \E r \in rows : r.id = Id[c] /\ r.body = Body[c]
\* Mutant of Duplicate: the body is not compared.
DuplicateById(c) == "stored"

Duplicate(c) == IF SameStored(c) THEN "stored" ELSE "idempotency_conflict"
NextSeq == MaxSeq(rows) + 1
Retries(c) == IF Explicit[c] = 0 THEN MaxRetries ELSE 1

Answered(c, a) ==
    /\ answer' = [answer EXCEPT ![c] = a]
    /\ call' = [call EXCEPT ![c] = "done"]

\* InMemoryRuntimeEventStore.append: all of it under the job's lock.
MemoryAppend(c) ==
    /\ dialect = "memory" /\ call[c] = "idle"
    /\ IF Stored(c) THEN Answered(c, Duplicate(c)) /\ UNCHANGED rows
       ELSE IF Explicit[c] \in {0, NextSeq}
            THEN Answered(c, "stored") /\ rows' = rows \cup {Row(c, NextSeq)}
            ELSE Answered(c, "sequence_conflict") /\ UNCHANGED rows
    /\ UNCHANGED <<dialect, seq, tries>>

\* An attempt: the host's lock for the job, a session, a transaction.
Begin(c) ==
    /\ dialect # "memory" /\ call[c] = "idle"
    /\ \A d \in Callers : Host[d] = Host[c] => call[d] \notin {"open", "insert"}
    /\ call' = [call EXCEPT ![c] = "open"]
    /\ tries' = [tries EXCEPT ![c] = @ + 1]
    /\ UNCHANGED <<dialect, rows, seq, answer>>

\* pg_advisory_xact_lock: held from here until the transaction ends.
AdvisoryFree == dialect = "postgres" => \A d \in Callers : call[d] # "insert"

Check(c) ==
    /\ call[c] = "open" /\ AdvisoryFree
    /\ IF Stored(c) THEN Answered(c, Duplicate(c)) /\ UNCHANGED seq
       ELSE IF Explicit[c] \in {0, NextSeq}
            THEN /\ call' = [call EXCEPT ![c] = "insert"]
                 /\ seq' = [seq EXCEPT ![c] = NextSeq]
                 /\ UNCHANGED answer
            ELSE Answered(c, "sequence_conflict") /\ UNCHANGED seq
    /\ UNCHANGED <<dialect, rows, tries>>

\* The primary key and uq_runtime_events_job_sequence.
Violates(c) == \E r \in rows : r.id = Id[c] \/ r.seq = seq[c]

\* flush and commit.  The reply may not come back: StorageUnavailableError.
Commit(c) ==
    /\ call[c] = "insert" /\ ~Violates(c)
    /\ rows' = rows \cup {Row(c, seq[c])}
    /\ \E a \in {"stored", "unavailable"} : Answered(c, a)
    /\ UNCHANGED <<dialect, seq, tries>>

\* IntegrityError: is the event already there?  If not, or if that query
\* fails too, try again with the next sequence.
Integrity(c) ==
    /\ call[c] = "insert" /\ Violates(c)
    /\ \/ Stored(c) /\ Answered(c, Duplicate(c))
       \/ IF tries[c] < Retries(c)
          THEN call' = [call EXCEPT ![c] = "idle"] /\ UNCHANGED answer
          ELSE Answered(c, "sequence_conflict")
    /\ UNCHANGED <<dialect, rows, seq, tries>>

\* OperationalError, or any other error before the commit: rolled back.
Unavailable(c) ==
    /\ call[c] \in {"open", "insert"}
    /\ Answered(c, "unavailable")
    /\ UNCHANGED <<dialect, rows, seq, tries>>

\* A process dies: its open transactions roll back.  (A store in memory
\* would die with it.)
Die(h) ==
    /\ dialect # "memory" /\ \E c \in Callers : Host[c] = h /\ call[c] # "done"
    /\ answer' = [c \in Callers |-> IF Host[c] = h /\ answer[c] = "none" THEN "lost" ELSE answer[c]]
    /\ call' = [c \in Callers |-> IF Host[c] = h THEN "done" ELSE call[c]]
    /\ UNCHANGED <<dialect, rows, seq, tries>>

StoreStep == \/ \E c \in Callers : \/ MemoryAppend(c) \/ Begin(c) \/ Check(c) \/ Commit(c)
                                   \/ Integrity(c) \/ Unavailable(c)
             \/ \E h \in Hosts : Die(h)

StoreSpec == StoreInit /\ [][StoreStep]_storeVars

-----------------------------------------------------------------------------
\* The sequence numbers of a job have no gap and no repetition, and an event
\* id is stored once, whichever calls race (postgres_store.py:111,
\* in_memory_store.py:48).
DenseSequence ==
    /\ {r.seq : r \in rows} = 1..Cardinality(rows)
    /\ \A r, s \in rows : r.id = s.id => r = s

\* A client that reads on from the last sequence it saw misses no event: a
\* row never appears behind one already there (events_after,
\* postgres_store.py:277, in_memory_store.py:112).
NothingBehindAReader == [][\A r \in rows' \ rows : r.seq > MaxSeq(rows)]_storeVars

\* The log that the rows are.
EventAt(n) == CHOOSE r \in rows : r.seq = n
Events == [n \in 1..Cardinality(rows) |-> [id |-> EventAt(n).id, body |-> EventAt(n).body]]
Log == INSTANCE JobLog WITH log <- Events

\* The stores implement the append-only log of event_store.py.  So what the
\* bridge captures and puts on the live bus, which is what append returned to
\* it, is in the ledger (persist_and_publish: "If persistence fails,
\* fail-closed without publishing live event", events.py:124).
StoreImplementsLog == Log!JobLogSpec
=============================================================================
