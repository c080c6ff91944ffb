---------------------------- MODULE Services_proofs ----------------------------
(***************************************************************************)
(* The services around the engine that MCServices checks in small, for     *)
(* every value of their constants: the stores of events (EventStore),      *)
(* attempts and the repository's lock (TaskAttempts), the seats of rigs    *)
(* (OpenRigSeats), the record of a job (JobRecords), sprints (SprintRun),  *)
(* the conversations of their agents (Conversation), and at the end all of *)
(* them with the durable job, as MCServices puts them together.  Each has  *)
(* an inductive invariant of its own.                                      *)
(***************************************************************************)
EXTENDS MCServices, DurableJob_proofs, Sequences, WellFoundedInduction

----------------------------------------------------------------------------
(* The stores.  The numbers of a job's log are dense whichever calls race,  *)
(* no row appears behind another, and the stores implement the log of       *)
(* JobLog, for every number of callers and hosts, on every dialect.         *)

Done == {c \in Callers : call[c] = "done"}
N == Cardinality(rows)

\* Rows are what some calls would store, and only a call that is done has one.
RowsBound == /\ IsFiniteSet(rows) /\ rows \subseteq {Row(c, n) : c \in Callers, n \in Nat}
             /\ N <= Cardinality(Done)
             /\ \A r, s \in rows : r.seq = s.seq => r = s

\* What the sequence that a call has computed is still worth, and how the
\* attempts are paid for by rows of others.
Computed(c) ==
    /\ seq[c] \in 1..(N + 1) /\ tries[c] <= seq[c]
    /\ seq[c] = N + 1 => ~Stored(c)
    /\ Explicit[c] # 0 => seq[c] = Explicit[c]
Paid(c) ==
    /\ call[c] = "idle" => tries[c] <= N /\ tries[c] < MaxRetries
    /\ call[c] = "open" => tries[c] <= N + 1 /\ tries[c] >= 1
    /\ call[c] = "insert" => Computed(c) /\ tries[c] >= 1
    /\ call[c] # "done" => answer[c] = "none"

StoreTypes ==
    /\ dialect \in Dialects
    /\ call \in [Callers -> {"idle", "open", "insert", "done"}]
    /\ seq \in [Callers -> Nat] /\ tries \in [Callers -> 0..MaxRetries]
    /\ answer \in [Callers -> {"none", "stored", "unavailable", "lost",
                               "idempotency_conflict", "sequence_conflict"}]

StoreInv == StoreTypes /\ RowsBound /\ DenseSequence /\ \A c \in Callers : Paid(c)

-----------------------------------------------------------------------------
LEMMA Counts == ASSUME StoreInv PROVE N \in Nat /\ IsFiniteSet(Done) /\ Cardinality(Done) \in Nat
                                  /\ Cardinality(Callers) \in Nat /\ Cardinality(Done) <= Cardinality(Callers)
  <1>1. Done \subseteq Callers
    BY DEF Done
  <1>2. IsFiniteSet(rows) /\ IsFiniteSet(Callers)
    BY StoreConstants DEF StoreInv, RowsBound
  <1> QED BY <1>1, <1>2, FS_CardinalityType, FS_Subset DEF N

\* The highest number of a dense log is the number of its rows.
LEMMA Highest == ASSUME StoreInv PROVE MaxSeq(rows) = N
  <1>1. N \in Nat /\ {r.seq : r \in rows} = 1..N /\ IsFiniteSet(rows)
    BY Counts DEF StoreInv, DenseSequence, N, RowsBound
  <1>2. CASE rows = {}
    BY <1>2, FS_EmptySet DEF MaxSeq, N
  <1>3. CASE rows # {}
    <2>1. N # 0
      BY <1>1, <1>3, FS_EmptySet DEF N
    <2>2. \A n \in {r.seq : r \in rows} : (\A r \in rows : r.seq <= n) <=> n = N
      <3> SUFFICES ASSUME NEW n \in 1..N PROVE (\A r \in rows : r.seq <= n) <=> n = N
        BY <1>1
      <3>1. PICK top \in rows : top.seq = N
        BY <1>1, <2>1
      <3>2. \A r \in rows : r.seq \in 1..N
        BY <1>1
      <3> QED BY <3>1, <3>2, <1>1
    <2>3. N \in {r.seq : r \in rows}
      BY <1>1, <2>1
    <2> QED BY <2>2, <2>3, <1>3 DEF MaxSeq
  <1> QED BY <1>2, <1>3

\* A commit of a call that is not done adds the next number.
LEMMA OneMore ==
    ASSUME StoreInv, NEW c \in Callers, call[c] # "done", ~Stored(c),
           rows' = rows \cup {Row(c, N + 1)}, call' = [call EXCEPT ![c] = "done"]
    PROVE  /\ RowsBound' /\ DenseSequence' /\ N' = N + 1
  <1>1. N \in Nat /\ {r.seq : r \in rows} = 1..N /\ IsFiniteSet(rows) /\ IsFiniteSet(Done)
    BY Counts DEF StoreInv, DenseSequence, N, RowsBound
  <1>2. Row(c, N + 1) \notin rows /\ Row(c, N + 1).seq = N + 1 /\ Row(c, N + 1).id = Id[c]
    BY DEF Stored, Row
  <1>3. N' = N + 1 /\ IsFiniteSet(rows')
    BY <1>1, <1>2, FS_AddElement DEF N
  <1>4. Cardinality(Done)' = Cardinality(Done) + 1
    <2>1. Done' = Done \cup {c} /\ c \notin Done
      BY DEF Done, StoreInv, StoreTypes
    <2> QED BY <2>1, <1>1, FS_AddElement
  <1>5. RowsBound'
    <2>1. rows' \subseteq {Row(d, n) : d \in Callers, n \in Nat}
      BY <1>1 DEF StoreInv, RowsBound, Row
    <2>2. N' <= Cardinality(Done)'
      BY <1>3, <1>4, Counts DEF StoreInv, RowsBound
    <2>3. \A r \in rows : r.seq # N + 1
      <3> SUFFICES ASSUME NEW r \in rows PROVE r.seq # N + 1
        OBVIOUS
      <3>1. r.seq \in 1..N
        BY <1>1
      <3> QED BY <3>1, <1>1
    <2>4. \A r, s \in rows' : r.seq = s.seq => r = s
      <3>1. \A r, s \in rows : r.seq = s.seq => r = s
        BY DEF StoreInv, RowsBound
      <3> QED BY <3>1, <2>3, <1>2
    <2> QED BY <1>3, <2>1, <2>2, <2>4 DEF RowsBound, Row
  <1>6. {r.seq : r \in rows'} = 1..(N + 1)
    <2>1. {r.seq : r \in rows'} = {r.seq : r \in rows} \cup {N + 1}
      BY <1>2
    <2>2. 1..(N + 1) = (1..N) \cup {N + 1}
      BY <1>1
    <2>3. {r.seq : r \in rows} = 1..N
      BY <1>1
    <2> QED BY <2>1, <2>2, <2>3, Zenon
  <1>7. \A r, s \in rows' : r.id = s.id => r = s
    <2>1. \A r \in rows : r.id # Id[c]
      BY DEF Stored
    <2>2. \A r, s \in rows : r.id = s.id => r = s
      BY DEF StoreInv, DenseSequence
    <2> QED BY <1>2, <2>1, <2>2
  <1> QED BY <1>3, <1>5, <1>6, <1>7 DEF DenseSequence, N

-----------------------------------------------------------------------------
LEMMA StoreInitInv == StoreInit => StoreInv
  <1> SUFFICES ASSUME StoreInit PROVE StoreInv
    OBVIOUS
  <1>1. rows = {} /\ N = 0 /\ IsFiniteSet(rows)
    BY FS_EmptySet DEF StoreInit, N
  <1>2. IsFiniteSet(Done) /\ Cardinality(Done) \in Nat
    BY StoreConstants, FS_Subset, FS_CardinalityType DEF Done
  <1>3. RowsBound
    BY <1>1, <1>2 DEF RowsBound
  <1>4. DenseSequence
    BY <1>1 DEF DenseSequence, N
  <1>5. StoreTypes /\ \A c \in Callers : Paid(c)
    BY <1>1, StoreConstants DEF StoreInit, StoreTypes, Paid
  <1> QED BY <1>3, <1>4, <1>5 DEF StoreInv

\* A step that leaves the rows, and at most moves calls to done, keeps the count.
LEMMA SameRows ==
    ASSUME StoreInv, rows' = rows, StoreTypes', \A c \in Callers : call[c] = "done" => call'[c] = "done"
    PROVE  RowsBound' /\ DenseSequence' /\ N' = N
  <1>1. Done \subseteq Done' /\ IsFiniteSet(Done') /\ Cardinality(Done) <= Cardinality(Done')
        /\ Cardinality(Done') \in Nat
    <2>1. Done \subseteq Done' /\ Done' \subseteq Callers
      BY DEF Done
    <2>2. IsFiniteSet(Done')
      BY <2>1, StoreConstants, FS_Subset
    <2> QED BY <2>1, <2>2, FS_Subset, FS_CardinalityType
  <1>2. N' = N
    BY DEF N
  <1>3. RowsBound'
    <2>1. N' <= Cardinality(Done')
      BY <1>1, <1>2, Counts DEF StoreInv, RowsBound
    <2>2. /\ IsFiniteSet(rows') /\ rows' \subseteq {Row(c, n) : c \in Callers, n \in Nat}
          /\ \A r, s \in rows' : r.seq = s.seq => r = s
      BY DEF StoreInv, RowsBound
    <2> QED BY <2>1, <2>2 DEF RowsBound, Row, Done
  <1> QED BY <1>2, <1>3 DEF StoreInv, DenseSequence

\* What the other calls have computed is still worth something after a row
\* is added, and all of it when none is.
LEMMA OthersPaid ==
    ASSUME StoreInv, NEW c \in Callers, call'[c] = call[c], seq'[c] = seq[c], tries'[c] = tries[c],
           answer'[c] = answer[c], N' \in Nat, rows' = rows \/ N' = N + 1
    PROVE  Paid(c)'
  <1>1. Paid(c) /\ N \in Nat /\ tries[c] \in Nat
    BY Counts DEF StoreInv, StoreTypes
  <1>2. N <= N' /\ (rows' = rows => N' = N)
    BY <1>1 DEF N
  <1>3. call'[c] = "insert" => Computed(c)'
    <2> SUFFICES ASSUME call[c] = "insert" PROVE Computed(c)'
      OBVIOUS
    <2>1. Computed(c)
      BY <1>1 DEF Paid
    <2>2. CASE rows' = rows
      BY <2>1, <2>2, <1>2 DEF Computed, Stored
    <2>3. CASE N' = N + 1
      BY <2>1, <2>3, <1>1 DEF Computed
    <2> QED BY <2>2, <2>3
  <1> QED BY <1>1, <1>2, <1>3 DEF Paid

-----------------------------------------------------------------------------
\* A step of one call that adds no row.
LEMMA OneCallSteps ==
    ASSUME StoreInv, NEW c \in Callers, call[c] # "done", rows' = rows, StoreTypes', Paid(c)',
           \A d \in Callers \ {c} : /\ call'[d] = call[d] /\ seq'[d] = seq[d]
                                     /\ tries'[d] = tries[d] /\ answer'[d] = answer[d]
    PROVE  StoreInv' /\ N' = N
  <1>1. RowsBound' /\ DenseSequence' /\ N' = N
    BY SameRows
  <1>2. ASSUME NEW d \in Callers \ {c} PROVE Paid(d)'
    BY <1>1, OthersPaid, Counts
  <1> QED BY <1>1, <1>2 DEF StoreInv

\* A step of one call that adds the row of its event.
LEMMA Adds ==
    ASSUME StoreInv, NEW c \in Callers, call[c] # "done", ~Stored(c),
           rows' = rows \cup {Row(c, N + 1)}, NEW a, Answered(c, a),
           a \in {"stored", "unavailable"}, UNCHANGED <<dialect, seq, tries>>
    PROVE  StoreInv' /\ N' = N + 1
  <1>1. call' = [call EXCEPT ![c] = "done"] /\ answer' = [answer EXCEPT ![c] = a]
    BY DEF Answered
  <1>2. RowsBound' /\ DenseSequence' /\ N' = N + 1
    BY <1>1, OneMore
  <1>3. StoreTypes'
    BY <1>1 DEF StoreInv, StoreTypes
  <1>4. ASSUME NEW d \in Callers PROVE Paid(d)'
    <2>1. CASE d = c
      BY <2>1, <1>1 DEF Paid, StoreInv, StoreTypes
    <2>2. CASE d # c
      <3>1. call'[d] = call[d] /\ answer'[d] = answer[d]
        BY <2>2, <1>1 DEF StoreInv, StoreTypes
      <3>2. N' \in Nat
        BY <1>2, Counts
      <3> QED BY <3>1, <3>2, <1>2, OthersPaid
    <2> QED BY <2>1, <2>2
  <1> QED BY <1>2, <1>3, <1>4 DEF StoreInv

\* The number a commit takes is the next one.
LEMMA Next1 ==
    ASSUME StoreInv, NEW c \in Callers, call[c] = "insert", ~Violates(c)
    PROVE  seq[c] = N + 1 /\ ~Stored(c)
  <1>1. Computed(c) /\ N \in Nat
    BY Counts DEF StoreInv, Paid
  <1>2. {r.seq : r \in rows} = 1..N
    BY DEF StoreInv, DenseSequence, N
  <1>3. \A r \in rows : r.id # Id[c] /\ r.seq # seq[c]
    BY DEF Violates
  <1>4. seq[c] \notin 1..N
    BY <1>2, <1>3
  <1> QED BY <1>1, <1>3, <1>4 DEF Computed, Stored

\* A violated constraint is a row of another call since the check.
LEMMA Beaten ==
    ASSUME StoreInv, NEW c \in Callers, call[c] = "insert", Violates(c)
    PROVE  seq[c] <= N /\ seq[c] \in 1..N
  <1>1. Computed(c) /\ N \in Nat
    BY Counts DEF StoreInv, Paid
  <1>2. \A r \in rows : r.seq \in 1..N
    BY DEF StoreInv, DenseSequence, N
  <1>3. seq[c] # N + 1
    <2> SUFFICES ASSUME seq[c] = N + 1 PROVE FALSE
      OBVIOUS
    <2>1. ~Stored(c)
      BY <1>1 DEF Computed
    <2>2. PICK r \in rows : r.seq = seq[c]
      BY <2>1 DEF Violates, Stored
    <2> QED BY <2>2, <1>2, <1>1
  <1> QED BY <1>1, <1>3 DEF Computed

LEMMA MemoryAppendInv == ASSUME StoreInv, NEW c \in Callers, MemoryAppend(c) PROVE StoreInv'
  <1>1. call[c] = "idle" /\ MaxSeq(rows) = N /\ NextSeq = N + 1 /\ N \in Nat
    BY Highest, Counts DEF MemoryAppend, NextSeq
  <1>2. ASSUME UNCHANGED rows, NEW a, Answered(c, a),
               a \in {"stored", "idempotency_conflict", "sequence_conflict"}
        PROVE  StoreInv'
    <2>1. call' = [call EXCEPT ![c] = "done"] /\ answer' = [answer EXCEPT ![c] = a]
          /\ UNCHANGED <<dialect, seq, tries>>
      BY <1>2 DEF Answered, MemoryAppend
    <2>2. StoreTypes' /\ Paid(c)'
      BY <2>1, <1>2 DEF StoreInv, StoreTypes, Paid
    <2>3. \A d \in Callers \ {c} : call'[d] = call[d] /\ answer'[d] = answer[d]
      BY <2>1 DEF StoreInv, StoreTypes
    <2> QED BY <1>1, <1>2, <2>1, <2>2, <2>3, OneCallSteps
  <1>3. CASE Stored(c)
    BY <1>2, <1>3 DEF MemoryAppend, Duplicate
  <1>4. CASE ~Stored(c) /\ Explicit[c] \in {0, NextSeq}
    <2>1. Answered(c, "stored") /\ rows' = rows \cup {Row(c, N + 1)} /\ UNCHANGED <<dialect, seq, tries>>
      BY <1>1, <1>4 DEF MemoryAppend
    <2> QED BY <2>1, <1>1, <1>4, Adds
  <1>5. CASE ~Stored(c) /\ Explicit[c] \notin {0, NextSeq}
    BY <1>2, <1>5 DEF MemoryAppend
  <1> QED BY <1>3, <1>4, <1>5

LEMMA BeginInv == ASSUME StoreInv, NEW c \in Callers, Begin(c) PROVE StoreInv'
  <1>1. /\ call[c] = "idle" /\ call' = [call EXCEPT ![c] = "open"]
        /\ tries' = [tries EXCEPT ![c] = @ + 1] /\ UNCHANGED <<dialect, rows, seq, answer>>
    BY DEF Begin
  <1>2. tries[c] < MaxRetries /\ tries[c] <= N /\ tries[c] \in Nat /\ N \in Nat /\ answer[c] = "none"
    BY <1>1, Counts DEF StoreInv, Paid, StoreTypes
  <1>3. StoreTypes'
    BY <1>1, <1>2, StoreConstants DEF StoreInv, StoreTypes
  <1>4. N' = N
    BY <1>1 DEF N
  <1>5. Paid(c)'
    BY <1>1, <1>2, <1>4 DEF Paid, StoreInv, StoreTypes
  <1>6. \A d \in Callers \ {c} : call'[d] = call[d] /\ tries'[d] = tries[d]
    BY <1>1 DEF StoreInv, StoreTypes
  <1> QED BY <1>1, <1>3, <1>5, <1>6, OneCallSteps

\* A call that is told something while no row is added.
LEMMA ToldInv ==
    ASSUME StoreInv, NEW c \in Callers, call[c] # "done", UNCHANGED <<dialect, rows, seq, tries>>,
           NEW a \in {"stored", "unavailable", "idempotency_conflict", "sequence_conflict"},
           Answered(c, a)
    PROVE  StoreInv' /\ N' = N
  <1>1. call' = [call EXCEPT ![c] = "done"] /\ answer' = [answer EXCEPT ![c] = a]
    BY DEF Answered
  <1>2. StoreTypes' /\ Paid(c)'
    BY <1>1 DEF StoreInv, StoreTypes, Paid
  <1>3. \A d \in Callers \ {c} : call'[d] = call[d] /\ answer'[d] = answer[d]
    BY <1>1 DEF StoreInv, StoreTypes
  <1> QED BY <1>2, <1>3, OneCallSteps

LEMMA CheckInv == ASSUME StoreInv, NEW c \in Callers, Check(c) PROVE StoreInv'
  <1>1. call[c] = "open" /\ MaxSeq(rows) = N /\ NextSeq = N + 1 /\ N \in Nat
    BY Highest, Counts DEF Check, NextSeq
  <1>2. UNCHANGED <<dialect, rows, tries>>
    BY DEF Check
  <1>3. CASE Stored(c)
    BY <1>1, <1>2, <1>3, ToldInv DEF Check, Duplicate
  <1>4. CASE ~Stored(c) /\ Explicit[c] \in {0, NextSeq}
    <2>1. /\ call' = [call EXCEPT ![c] = "insert"] /\ seq' = [seq EXCEPT ![c] = N + 1]
          /\ UNCHANGED answer
      BY <1>1, <1>4 DEF Check
    <2>2. StoreTypes'
      BY <1>1, <1>2, <2>1 DEF StoreInv, StoreTypes
    <2>3. N' = N
      BY <1>2 DEF N
    <2>4. tries[c] <= N + 1 /\ tries[c] >= 1 /\ answer[c] = "none"
      BY <1>1 DEF StoreInv, Paid
    <2>5. call'[c] = "insert" /\ seq'[c] = N + 1 /\ tries'[c] = tries[c] /\ answer'[c] = "none"
      BY <2>1, <2>4, <1>2 DEF StoreInv, StoreTypes
    <2>6. Computed(c)'
      BY <1>1, <1>2, <1>4, <2>3, <2>4, <2>5 DEF Computed, Stored
    <2>7. Paid(c)'
      BY <2>4, <2>5, <2>6 DEF Paid
    <2>8. \A d \in Callers \ {c} : call'[d] = call[d] /\ seq'[d] = seq[d]
      BY <2>1 DEF StoreInv, StoreTypes
    <2> QED BY <1>1, <1>2, <2>1, <2>2, <2>7, <2>8, OneCallSteps
  <1>5. CASE ~Stored(c) /\ Explicit[c] \notin {0, NextSeq}
    BY <1>1, <1>2, <1>5, ToldInv DEF Check
  <1> QED BY <1>3, <1>4, <1>5

LEMMA CommitInv == ASSUME StoreInv, NEW c \in Callers, Commit(c) PROVE StoreInv'
  <1>1. call[c] = "insert" /\ ~Violates(c) /\ rows' = rows \cup {Row(c, seq[c])}
    BY DEF Commit
  <1>2. seq[c] = N + 1 /\ ~Stored(c)
    BY <1>1, Next1
  <1>3. PICK a \in {"stored", "unavailable"} : Answered(c, a)
    BY DEF Commit
  <1> QED BY <1>1, <1>2, <1>3, Adds DEF Commit

LEMMA IntegrityInv == ASSUME StoreInv, NEW c \in Callers, Integrity(c) PROVE StoreInv'
  <1>1. call[c] = "insert" /\ Violates(c) /\ UNCHANGED <<dialect, rows, seq, tries>>
    BY DEF Integrity
  <1>2. CASE Answered(c, Duplicate(c)) \/ Answered(c, "sequence_conflict")
    BY <1>1, <1>2, ToldInv DEF Duplicate
  <1>3. CASE tries[c] < Retries(c) /\ call' = [call EXCEPT ![c] = "idle"] /\ UNCHANGED answer
    <2>1. StoreTypes'
      BY <1>1, <1>3 DEF StoreInv, StoreTypes
    <2>2. tries[c] <= N /\ answer[c] = "none" /\ tries[c] \in Nat
      BY <1>1, Beaten, Counts DEF StoreInv, Paid, Computed, StoreTypes
    <2>3. tries[c] < MaxRetries
      BY <1>3, <2>2, StoreConstants DEF Retries
    <2>4. call'[c] = "idle" /\ N' = N
      BY <1>1, <1>3 DEF StoreInv, StoreTypes, N
    <2>5. Paid(c)'
      BY <1>1, <1>3, <2>2, <2>3, <2>4 DEF Paid
    <2>6. \A d \in Callers \ {c} : call'[d] = call[d]
      BY <1>3 DEF StoreInv, StoreTypes
    <2> QED BY <1>1, <1>3, <2>1, <2>5, <2>6, OneCallSteps
  <1> QED BY <1>2, <1>3 DEF Integrity

LEMMA UnavailableInv == ASSUME StoreInv, NEW c \in Callers, Unavailable(c) PROVE StoreInv'
  BY ToldInv DEF Unavailable

LEMMA DieInv == ASSUME StoreInv, NEW h \in Hosts, Die(h) PROVE StoreInv'
  <1>1. /\ answer' = [c \in Callers |-> IF Host[c] = h /\ answer[c] = "none" THEN "lost" ELSE answer[c]]
        /\ call' = [c \in Callers |-> IF Host[c] = h THEN "done" ELSE call[c]]
        /\ UNCHANGED <<dialect, rows, seq, tries>>
    BY DEF Die
  <1>2. StoreTypes'
    BY <1>1 DEF StoreInv, StoreTypes
  <1>3. RowsBound' /\ DenseSequence' /\ N' = N
    BY <1>1, <1>2, SameRows
  <1>4. ASSUME NEW c \in Callers PROVE Paid(c)'
    <2>1. CASE Host[c] = h
      BY <1>1, <2>1 DEF Paid
    <2>2. CASE Host[c] # h
      <3>1. call'[c] = call[c] /\ answer'[c] = answer[c]
        BY <1>1, <2>2
      <3> QED BY <1>1, <1>3, <3>1, OthersPaid, Counts
    <2> QED BY <2>1, <2>2
  <1> QED BY <1>2, <1>3, <1>4 DEF StoreInv

LEMMA StoreStepInv == StoreInv /\ [StoreStep]_storeVars => StoreInv'
  <1> SUFFICES ASSUME StoreInv, [StoreStep]_storeVars PROVE StoreInv'
    OBVIOUS
  <1>1. CASE UNCHANGED storeVars
    BY <1>1 DEF storeVars, StoreInv, StoreTypes, RowsBound, DenseSequence, Paid, Computed, Stored, N, Done
  <1>2. CASE \E c \in Callers : \/ MemoryAppend(c) \/ Begin(c) \/ Check(c) \/ Commit(c)
                              \/ Integrity(c) \/ Unavailable(c)
    BY <1>2, MemoryAppendInv, BeginInv, CheckInv, CommitInv, IntegrityInv, UnavailableInv
  <1>3. CASE \E h \in Hosts : Die(h)
    BY <1>3, DieInv
  <1> QED BY <1>1, <1>2, <1>3 DEF StoreStep

LEMMA StoreInvariant == StoreSpec => []StoreInv
  BY StoreInitInv, StoreStepInv, PTL DEF StoreSpec

-----------------------------------------------------------------------------
(* The refinement. *)

LEMMA RowsReadBack ==
    StoreInv => \A r \in rows : r.seq \in 1..N /\ Events[r.seq] = [id |-> r.id, body |-> r.body]
  <1> SUFFICES ASSUME StoreInv, NEW r \in rows
               PROVE  r.seq \in 1..N /\ Events[r.seq] = [id |-> r.id, body |-> r.body]
    OBVIOUS
  <1>1. r.seq \in 1..N
    BY DEF StoreInv, DenseSequence, N
  <1>2. EventAt(r.seq) = r
    <2>1. \A x \in rows : x.seq = r.seq => x = r
      BY DEF StoreInv, RowsBound
    <2> QED BY <2>1 DEF EventAt
  <1> QED BY <1>1, <1>2 DEF Events, N

\* What the log holds is what the rows hold.
LEMMA LogHolds ==
    ASSUME StoreInv, NEW c \in Callers
    PROVE  /\ Log!Holds(Id[c]) <=> Stored(c)
           /\ SameStored(c) => \E i \in DOMAIN Events : Events[i] = [id |-> Id[c], body |-> Body[c]]
           /\ Len(Events) = N /\ DOMAIN Events = 1..N
  <1>1. N \in Nat /\ {r.seq : r \in rows} = 1..N
    BY Counts DEF StoreInv, DenseSequence, N
  <1>2. DOMAIN Events = 1..N
    BY DEF Events, N
  <1>3. Len(Events) = N
    BY <1>1, <1>2
  <1>4. \A r \in rows : r.seq \in 1..N /\ Events[r.seq] = [id |-> r.id, body |-> r.body]
    BY RowsReadBack
  <1>5. \A r \in rows : Events[r.seq].id = r.id
    <2> SUFFICES ASSUME NEW r \in rows PROVE Events[r.seq].id = r.id
      OBVIOUS
    <2>1. Events[r.seq] = [id |-> r.id, body |-> r.body]
      BY <1>4
    <2> QED BY <2>1
  <1>6. Log!Holds(Id[c]) <=> Stored(c)
    <2>1. ASSUME NEW i \in 1..N PROVE \E r \in rows : Events[i].id = r.id
      <3>1. PICK r \in rows : r.seq = i
        BY <1>1, <2>1
      <3> QED BY <3>1, <1>5
    <2>2. Log!Holds(Id[c]) <=> \E i \in 1..N : Events[i].id = Id[c]
      BY <1>2 DEF Log!Holds
    <2>3. ASSUME NEW r \in rows, r.id = Id[c] PROVE \E i \in 1..N : Events[i].id = Id[c]
      <3>1. r.seq \in 1..N /\ Events[r.seq].id = Id[c]
        BY <1>4, <1>5, <2>3
      <3> QED BY <3>1
    <2>4. Stored(c) <=> \E r \in rows : r.id = Id[c]
      BY DEF Stored
    <2> QED BY <2>1, <2>2, <2>3, <2>4
  <1>7. SameStored(c) => \E i \in DOMAIN Events : Events[i] = [id |-> Id[c], body |-> Body[c]]
    BY <1>2, <1>4 DEF SameStored
  <1> QED BY <1>2, <1>3, <1>6, <1>7

\* A row more is an event more at the end.
LEMMA LogGrows ==
    ASSUME StoreInv, StoreInv', NEW c \in Callers, rows' = rows \cup {Row(c, N + 1)}, N' = N + 1
    PROVE  Events' = Append(Events, [id |-> Id[c], body |-> Body[c]])
  <1>0. (StoreInv => \A r \in rows : r.seq \in 1..N /\ Events[r.seq] = [id |-> r.id, body |-> r.body])'
    BY RowsReadBack, PTL
  <1>1. N \in Nat /\ Len(Events) = N /\ DOMAIN Events = 1..N
    BY LogHolds, Counts
  <1>2. DOMAIN Events' = 1..(N + 1)
    BY DEF Events, N
  <1>3. Events'[N + 1] = [id |-> Id[c], body |-> Body[c]]
    <2>1. Row(c, N + 1) \in rows'
      OBVIOUS
    <2>2. \A r \in rows' : Events'[r.seq] = [id |-> r.id, body |-> r.body]
      BY <1>0
    <2> QED BY <2>1, <2>2 DEF Row
  <1>4. ASSUME NEW i \in 1..N PROVE Events'[i] = Events[i]
    <2>1. PICK r \in rows : r.seq = i
      BY DEF StoreInv, DenseSequence, N
    <2>2. Events[i] = [id |-> r.id, body |-> r.body]
      BY <2>1, RowsReadBack
    <2>3. \A x \in rows' : Events'[x.seq] = [id |-> x.id, body |-> x.body]
      BY <1>0
    <2> QED BY <2>1, <2>2, <2>3
  <1>5. Events' = [i \in 1..(N + 1) |-> Events'[i]]
    BY <1>2 DEF Events
  <1>6. Append(Events, [id |-> Id[c], body |-> Body[c]])
          = [i \in 1..(N + 1) |-> IF i = N + 1 THEN [id |-> Id[c], body |-> Body[c]] ELSE Events[i]]
    BY <1>1
  <1>7. \A i \in 1..(N + 1) : Events'[i] = IF i = N + 1 THEN [id |-> Id[c], body |-> Body[c]] ELSE Events[i]
    BY <1>1, <1>3, <1>4
  <1> QED BY <1>5, <1>6, <1>7

LEMMA LogSame == ASSUME rows' = rows PROVE Events' = Events
  BY DEF Events, EventAt

\* A step of the store is a step of the log or leaves it and every answer.
\* An allocated call loses at most as many races as other calls have rows.
LEMMA InitLog == StoreInit => Log!JobLogInit
  <1> SUFFICES ASSUME StoreInit PROVE Log!JobLogInit
    OBVIOUS
  <1>1. rows = {} /\ Cardinality(rows) = 0
    BY FS_EmptySet DEF StoreInit
  <1>2. Events = << >>
    BY <1>1 DEF Events
  <1> QED BY <1>2 DEF Log!JobLogInit, StoreInit

LEMMA Tells ==
    ASSUME StoreInv, NEW c \in Callers, call[c] # "done", NEW a, Answered(c, a)
    PROVE  Log!Tell(c, a)
  BY DEF StoreInv, Paid, Answered, Log!Tell

\* What a duplicate is told agrees with the log.
LEMMA DuplicateTold ==
    ASSUME StoreInv, NEW c \in Callers, call[c] # "done", Stored(c), Answered(c, Duplicate(c)),
           UNCHANGED rows
    PROVE  Log!Repeat(c) \/ Log!Refuse(c)
  <1>1. Events' = Events
    BY LogSame
  <1>2. CASE SameStored(c)
    <2>1. Log!Tell(c, "stored")
      BY <1>2, Tells DEF Duplicate
    <2> QED BY <1>1, <1>2, <2>1, LogHolds DEF Log!Repeat
  <1>3. CASE ~SameStored(c)
    <2>1. Log!Tell(c, "idempotency_conflict")
      BY <1>3, Tells DEF Duplicate
    <2> QED BY <1>1, <2>1, LogHolds DEF Log!Refuse
  <1> QED BY <1>2, <1>3

\* A new row is an event stored.
LEMMA RowStored ==
    ASSUME StoreInv, StoreInv', NEW c \in Callers, call[c] # "done", ~Stored(c),
           Explicit[c] \in {0, N + 1}, rows' = rows \cup {Row(c, N + 1)}, N' = N + 1,
           NEW a \in {"stored", "unavailable"}, Answered(c, a)
    PROVE  Log!Store(c)
  <1>1. Events' = Append(Events, [id |-> Id[c], body |-> Body[c]])
    BY LogGrows
  <1>2. Log!Tell(c, a)
    BY Tells
  <1>3. ~Log!Holds(Id[c]) /\ Len(Events) = N
    BY LogHolds
  <1> QED BY <1>1, <1>2, <1>3 DEF Log!Store

\* A refused sequence is not the next one.
LEMMA SequenceRefused ==
    ASSUME StoreInv, NEW c \in Callers, call[c] # "done", Explicit[c] \notin {0, N + 1},
           Answered(c, "sequence_conflict"), UNCHANGED rows
    PROVE  Log!Refuse(c)
  <1>1. Events' = Events /\ Len(Events) = N /\ Log!Tell(c, "sequence_conflict")
    BY LogSame, LogHolds, Tells
  <1> QED BY <1>1 DEF Log!Refuse

\* An allocated call runs out of attempts only against more callers than it
\* has attempts.
LEMMA AttemptsSuffice ==
    ASSUME StoreInv, NEW c \in Callers, Integrity(c), ~(tries[c] < Retries(c)),
           Cardinality(Callers) <= MaxRetries
    PROVE  Explicit[c] \notin {0, N + 1}
  <1>1. call[c] = "insert" /\ seq[c] \in 1..N /\ N \in Nat
    BY Beaten, Counts DEF Integrity
  <1>2. Computed(c) /\ tries[c] \in Nat
    BY <1>1 DEF StoreInv, Paid, StoreTypes
  <1>3. N < Cardinality(Callers)
    <2>1. Done \subseteq Callers \ {c} /\ IsFiniteSet(Callers \ {c}) /\ IsFiniteSet(Callers)
      BY <1>1, StoreConstants, FS_RemoveElement DEF Done
    <2>2. Cardinality(Callers \ {c}) = Cardinality(Callers) - 1 /\ Cardinality(Callers) \in Nat
      BY StoreConstants, FS_RemoveElement, FS_CardinalityType
    <2>3. Cardinality(Done) <= Cardinality(Callers \ {c})
      BY <2>1, FS_Subset
    <2> QED BY <2>2, <2>3, Counts DEF StoreInv, RowsBound
  <1>4. CASE Explicit[c] = 0
    <2>1. tries[c] <= N
      BY <1>1, <1>2 DEF Computed
    <2>2. ~(tries[c] < MaxRetries)
      BY <1>4 DEF Retries
    <2> QED BY <1>2, <1>3, <2>1, <2>2, Counts, StoreConstants
  <1>5. CASE Explicit[c] # 0
    BY <1>1, <1>2, <1>5 DEF Computed
  <1> QED BY <1>4, <1>5

LEMMA StepLog ==
    ASSUME StoreInv, StoreInv', StoreStep, Cardinality(Callers) <= MaxRetries
    PROVE  Log!JobLogNext \/ UNCHANGED <<Events, answer>>
  <1>1. MaxSeq(rows) = N /\ NextSeq = N + 1 /\ N \in Nat
    BY Highest, Counts DEF NextSeq
  <1>2. ASSUME NEW c \in Callers, MemoryAppend(c) PROVE Log!JobLogNext
    <2>1. call[c] # "done"
      BY <1>2 DEF MemoryAppend
    <2>2. CASE Stored(c)
      BY <1>2, <2>1, <2>2, DuplicateTold DEF MemoryAppend, Log!JobLogNext
    <2>3. CASE ~Stored(c) /\ Explicit[c] \in {0, NextSeq}
      <3>1. Answered(c, "stored") /\ rows' = rows \cup {Row(c, N + 1)} /\ UNCHANGED <<dialect, seq, tries>>
        BY <1>1, <1>2, <2>3 DEF MemoryAppend
      <3>2. N' = N + 1
        BY <2>1, <2>3, <3>1, Adds
      <3> QED BY <1>1, <2>1, <2>3, <3>1, <3>2, RowStored DEF Log!JobLogNext
    <2>4. CASE ~Stored(c) /\ Explicit[c] \notin {0, NextSeq}
      BY <1>1, <1>2, <2>1, <2>4, SequenceRefused DEF MemoryAppend, Log!JobLogNext
    <2> QED BY <2>2, <2>3, <2>4
  <1>3. ASSUME NEW c \in Callers, Begin(c) PROVE UNCHANGED <<Events, answer>>
    BY <1>3, LogSame DEF Begin
  <1>4. ASSUME NEW c \in Callers, Check(c) PROVE Log!JobLogNext \/ UNCHANGED <<Events, answer>>
    <2>1. call[c] # "done" /\ UNCHANGED rows
      BY <1>4 DEF Check
    <2>2. CASE Stored(c)
      BY <1>4, <2>1, <2>2, DuplicateTold DEF Check, Log!JobLogNext
    <2>3. CASE ~Stored(c) /\ Explicit[c] \in {0, NextSeq}
      BY <1>4, <2>1, <2>3, LogSame DEF Check
    <2>4. CASE ~Stored(c) /\ Explicit[c] \notin {0, NextSeq}
      BY <1>1, <1>4, <2>1, <2>4, SequenceRefused DEF Check, Log!JobLogNext
    <2> QED BY <2>2, <2>3, <2>4
  <1>5. ASSUME NEW c \in Callers, Commit(c) PROVE Log!JobLogNext
    <2>1. call[c] = "insert" /\ ~Violates(c) /\ UNCHANGED <<dialect, seq, tries>>
      BY <1>5 DEF Commit
    <2>2. seq[c] = N + 1 /\ ~Stored(c)
      BY <2>1, Next1
    <2>3. PICK a \in {"stored", "unavailable"} : Answered(c, a)
      BY <1>5 DEF Commit
    <2>4. rows' = rows \cup {Row(c, N + 1)}
      BY <1>5, <2>2 DEF Commit
    <2>5. N' = N + 1
      BY <2>1, <2>2, <2>3, <2>4, Adds
    <2>6. Explicit[c] \in {0, N + 1}
      BY <2>1, <2>2 DEF StoreInv, Paid, Computed
    <2> QED BY <2>1, <2>2, <2>3, <2>4, <2>5, <2>6, RowStored DEF Log!JobLogNext
  <1>6. ASSUME NEW c \in Callers, Integrity(c) PROVE Log!JobLogNext \/ UNCHANGED <<Events, answer>>
    <2>1. call[c] # "done" /\ UNCHANGED rows
      BY <1>6 DEF Integrity
    <2>2. CASE Stored(c) /\ Answered(c, Duplicate(c))
      BY <2>1, <2>2, DuplicateTold DEF Log!JobLogNext
    <2>3. CASE UNCHANGED answer
      BY <2>1, <2>3, LogSame
    <2>4. CASE ~(tries[c] < Retries(c)) /\ Answered(c, "sequence_conflict")
      BY <1>6, <2>1, <2>4, AttemptsSuffice, SequenceRefused DEF Log!JobLogNext
    <2> QED BY <1>6, <2>2, <2>3, <2>4 DEF Integrity
  <1>7. ASSUME NEW c \in Callers, Unavailable(c) PROVE Log!JobLogNext
    <2>1. call[c] # "done" /\ UNCHANGED rows /\ Answered(c, "unavailable")
      BY <1>7 DEF Unavailable
    <2>2. Log!Tell(c, "unavailable") /\ Events' = Events
      BY <2>1, Tells, LogSame
    <2> QED BY <2>2 DEF Log!Refuse, Log!JobLogNext
  <1>8. ASSUME NEW h \in Hosts, Die(h) PROVE Log!JobLogNext
    <2> DEFINE S == {c \in Callers : Host[c] = h /\ answer[c] = "none"}
    <2>1. S \in SUBSET {c \in Callers : answer[c] = "none"}
      OBVIOUS
    <2>2. answer' = [c \in Callers |-> IF c \in S THEN "lost" ELSE answer[c]]
      BY <1>8 DEF Die
    <2>3. Events' = Events
      BY <1>8, LogSame DEF Die
    <2> QED BY <2>1, <2>2, <2>3 DEF Log!Lose, Log!JobLogNext
  <1> QED BY <1>2, <1>3, <1>4, <1>5, <1>6, <1>7, <1>8 DEF StoreStep

-----------------------------------------------------------------------------
\* The numbers of a job's events have no gap and no repetition, whichever
\* calls race on whichever store (postgres_store.py:165, in_memory_store.py:82).
THEOREM SequencesAreDense == StoreSpec => []DenseSequence
  <1>1. StoreInv => DenseSequence
    BY DEF StoreInv
  <1> QED BY <1>1, StoreInvariant, PTL

\* A reader that goes on from the last number it saw misses nothing
\* (events_after, postgres_store.py:277).
THEOREM ReadersMissNothing == StoreSpec => NothingBehindAReader
  <1>1. StoreInv /\ StoreInv' /\ [StoreStep]_storeVars =>
          [\A r \in rows' \ rows : r.seq > MaxSeq(rows)]_storeVars
    <2> SUFFICES ASSUME StoreInv, StoreInv', StoreStep, NEW r \in rows' \ rows PROVE r.seq > MaxSeq(rows)
      OBVIOUS
    <2>1. MaxSeq(rows) = N /\ NextSeq = N + 1 /\ N \in Nat
      BY Highest, Counts DEF NextSeq
    <2>2. r.seq = N + 1
      <3>1. CASE \E c \in Callers : MemoryAppend(c)
        BY <2>1, <3>1 DEF MemoryAppend, Row
      <3>2. CASE \E c \in Callers : Commit(c)
        <4>1. PICK c \in Callers : Commit(c)
          BY <3>2
        <4>2. seq[c] = N + 1
          BY <4>1, Next1 DEF Commit
        <4> QED BY <4>1, <4>2 DEF Commit, Row
      <3> QED BY <3>1, <3>2 DEF StoreStep, Begin, Check, Integrity, Unavailable, Die
    <2> QED BY <2>1, <2>2
  <1> QED BY <1>1, StoreInvariant, PTL DEF StoreSpec, NothingBehindAReader

\* The stores keep the promise of RuntimeEventStore (event_store.py:41), as
\* long as no more calls race for a job than an append is tried.
THEOREM StoresKeepTheLog ==
    ASSUME Cardinality(Callers) <= MaxRetries
    PROVE  StoreSpec => StoreImplementsLog
  <1>1. StoreInv /\ StoreInv' /\ [StoreStep]_storeVars => [Log!JobLogNext]_<<Events, answer>>
    <2>1. CASE UNCHANGED storeVars
      BY <2>1, LogSame DEF storeVars
    <2> QED BY <2>1, StepLog
  <1> QED BY <1>1, InitLog, StoreInvariant, PTL DEF StoreSpec, StoreImplementsLog, Log!JobLogSpec

----------------------------------------------------------------------------
(* Attempts.  The repository's lock, the fence, and whose edits are where. *)

Busy(a) == thread[a] \notin Idle
Alone(a) == TaskOf[a] \notin overlap
LateMerges == {m \in merges : m.late}

\* One attempt is in the critical section; what is merged late began before
\* the fence, so one merge at most follows it.
LockInv == \A a, b \in Attempts : thread[a] \in Critical /\ thread[b] \in Critical => a = b
FenceInv ==
    /\ ~stopped => LateMerges = {}
    /\ LateMerges # {} => /\ \E m : LateMerges = {m}
                          /\ \A a \in Attempts : thread[a] # "merge"

\* Attempts of a task are started in turn, and no thread starts twice: none
\* after one that goes on or has succeeded, and while an earlier one is at work
\* only where overlap says so.
TurnInv ==
    /\ \A a \in Attempts : run[a] = "none" <=> thread[a] = "none"
    /\ \A a \in Attempts : \A b \in Earlier(a) :
         /\ run[a] # "none" => run[b] \notin {"none", "running", "succeeded"}
         /\ run[a] # "none" /\ Alone(a) => ~Busy(b)

\* Where the edits of an attempt are while its thread is in each place; of one
\* that ended well, while its run still counts.
Traced(a) ==
    /\ thread[a] \in {"sync", "agent", "integrate"} /\ a \notin unread => Edits(a) \subseteq {a}
    /\ thread[a] \in {"agent", "integrate"} /\ a \in wrote => a \in Edits(a)
    /\ thread[a] = "integrate" /\ TaskOf[a] \in Verifiers /\ a \notin unread => Edits(a) = {}
    /\ thread[a] \in Critical /\ a \in wrote => a \in staged[a]
    /\ thread[a] \in Critical /\ a \notin unread => staged[a] = {a}
    /\ thread[a] \in {"settle", "succeeded"} /\ a \in wrote /\ run[a] \in {"running", "succeeded"} =>
         Landed(a) \/ (a \in unread /\ StillThere(a))
TraceInv ==
    /\ \A a \in Attempts : thread[a] \in {"none", "prepare", "sync"} => a \notin wrote
    /\ \A a \in Attempts : run[a] = "succeeded" => thread[a] = "succeeded"
    /\ \A a \in Attempts : Alone(a) => Traced(a)
    /\ \A m \in merges : m.by \in Attempts /\ (Alone(m.by) /\ m.by \notin unread => m.edits = {m.by})

TaskInv == TaskTypeOK /\ LockInv /\ FenceInv /\ TurnInv /\ TraceInv

LEMMA TaskPlaces == Idle \cap Critical = {} /\ Idle \cap {"prepare", "sync", "agent", "integrate", "settle"} = {}
  BY DEF Idle, Critical

LEMMA TaskInitInv == TaskInit => TaskInv
  <1>1. TaskInit => TaskTypeOK
    BY DEF TaskInit, TaskTypeOK, Idle, WorkTasks
  <1>2. TaskInit => LockInv /\ FenceInv /\ TurnInv
    BY DEF TaskInit, LockInv, FenceInv, LateMerges, TurnInv, Idle, Critical, Busy, Earlier
  <1>3. TaskInit => TraceInv
    BY DEF TaskInit, TraceInv, Traced, Critical
  <1> QED BY <1>1, <1>2, <1>3 DEF TaskInv

LEMMA TaskTyped == ASSUME TaskTypeOK, TaskStep PROVE TaskTypeOK'
  <1> USE DEF TaskTypeOK, RepositoryVars, OutsideThread, To, Returns, Edits
  <1>1. CASE Stop
    BY <1>1 DEF Stop
  <1>2. ASSUME NEW a \in Attempts, Execute(a) \/ Return(a)
        PROVE  TaskTypeOK'
    BY <1>2 DEF Execute, Return, WorkTasks, Idle
  <1>3. ASSUME NEW a \in Attempts, NEW status \in {"timed_out", "cancelled"}, Abandon(a, status)
        PROVE  TaskTypeOK'
    BY <1>3 DEF Abandon
  <1>4. ASSUME NEW a \in Attempts, EnsureWorktree(a) \/ SyncWorktree(a) \/ WorktreeFails(a)
        PROVE  TaskTypeOK'
    BY <1>4 DEF EnsureWorktree, SyncWorktree, WorktreeFails, GitAnswers, GitIsSilent, WorkTasks, Idle
  <1>5. ASSUME NEW a \in Attempts, AgentWrites(a) \/ AgentExits(a) \/ NoticeCancel(a)
        PROVE  TaskTypeOK'
    BY <1>5 DEF AgentWrites, AgentExits, Inspected, GitAnswers, GitIsSilent, NoticeCancel, WorkTasks, Idle
  <1>6. ASSUME NEW a \in Attempts, LeaveFenced(a) \/ SkipCommit(a) \/ SkipMerge(a) \/ BeginMerge(a)
        PROVE  TaskTypeOK'
    BY <1>6 DEF LeaveFenced, SkipCommit, SkipMerge, BeginMerge, GitIsSilent, Idle, Critical
  <1>8. ASSUME NEW a \in Attempts, CommitWork(a)
        PROVE  TaskTypeOK'
    <2>1. UNCHANGED <<run, stopped, overlap, cancelled, wrote>> /\ (unread' = unread \/ unread' = unread \cup {a})
      BY <1>8 DEF CommitWork, Inspected, GitAnswers, GitIsSilent
    <2>2. thread' \in [Attempts -> Idle \cup Critical \cup {"prepare", "sync", "agent", "integrate", "settle"}]
      BY <1>8 DEF CommitWork, Critical
    <2>3. tree' \in [WorkTasks -> SUBSET Attempts] /\ staged' \in [Attempts -> SUBSET Attempts]
      BY <1>8 DEF CommitWork, WorkTasks
    <2> QED BY <2>1, <2>2, <2>3
  <1>7. ASSUME NEW a \in Attempts, MergeIn(a) \/ Conflict(a) \/ Settle(a)
        PROVE  TaskTypeOK'
    BY <1>7 DEF MergeIn, Conflict, Settle, Idle
  <1> QED
    BY <1>1, <1>2, <1>3, <1>4, <1>5, <1>6, <1>7, <1>8 DEF TaskStep, ThreadStep, TimeOut, CancelWorker

\* The critical section is entered only through the free lock.
LEMMA TaskLocked == ASSUME TaskTypeOK, LockInv, TaskStep PROVE LockInv'
  <1> USE DEF TaskTypeOK, LockInv, RepositoryVars, OutsideThread, To, Returns, LockFree, Idle, Critical
  <1>1. CASE Stop
    BY <1>1 DEF Stop
  <1>2. ASSUME NEW a \in Attempts, Execute(a) \/ Return(a)
        PROVE  LockInv'
    BY <1>2 DEF Execute, Return
  <1>3. ASSUME NEW a \in Attempts, NEW status, Abandon(a, status)
        PROVE  LockInv'
    BY <1>3 DEF Abandon
  <1>4. ASSUME NEW a \in Attempts, EnsureWorktree(a) \/ SyncWorktree(a) \/ WorktreeFails(a)
        PROVE  LockInv'
    BY <1>4 DEF EnsureWorktree, SyncWorktree, WorktreeFails
  <1>5. ASSUME NEW a \in Attempts, AgentWrites(a) \/ AgentExits(a) \/ NoticeCancel(a)
        PROVE  LockInv'
    BY <1>5 DEF AgentWrites, AgentExits, NoticeCancel
  <1>6. ASSUME NEW a \in Attempts,
               LeaveFenced(a) \/ SkipCommit(a) \/ CommitWork(a) \/ SkipMerge(a) \/ BeginMerge(a)
        PROVE  LockInv'
    BY <1>6 DEF LeaveFenced, SkipCommit, CommitWork, SkipMerge, BeginMerge
  <1>7. ASSUME NEW a \in Attempts, MergeIn(a) \/ Conflict(a) \/ Settle(a)
        PROVE  LockInv'
    BY <1>7 DEF MergeIn, Conflict, Settle
  <1> QED
    BY <1>1, <1>2, <1>3, <1>4, <1>5, <1>6, <1>7 DEF TaskStep, ThreadStep, TimeOut, CancelWorker

\* A late merge is one that was under way when the fence came, and of those
\* there is one at most.
LEMMA TaskFenced == ASSUME TaskTypeOK, LockInv, FenceInv, TaskStep PROVE FenceInv'
  <1> USE DEF TaskTypeOK, RepositoryVars, OutsideThread, To, Returns, Idle, Critical
  <1>1. ASSUME UNCHANGED merges, UNCHANGED stopped,
               \A a \in Attempts : thread'[a] = "merge" => thread[a] = "merge" \/ ~stopped
        PROVE  FenceInv'
    BY <1>1 DEF FenceInv, LateMerges
  <1>2. CASE Stop
    BY <1>2 DEF Stop, FenceInv, LateMerges
  <1>3. ASSUME NEW a \in Attempts, Execute(a) \/ Return(a)
        PROVE  FenceInv'
    BY <1>1, <1>3 DEF Execute, Return
  <1>4. ASSUME NEW a \in Attempts, NEW status, Abandon(a, status)
        PROVE  FenceInv'
    BY <1>1, <1>4 DEF Abandon
  <1>5. ASSUME NEW a \in Attempts, EnsureWorktree(a) \/ SyncWorktree(a) \/ WorktreeFails(a)
        PROVE  FenceInv'
    BY <1>1, <1>5 DEF EnsureWorktree, SyncWorktree, WorktreeFails
  <1>6. ASSUME NEW a \in Attempts, AgentWrites(a) \/ AgentExits(a) \/ NoticeCancel(a)
        PROVE  FenceInv'
    BY <1>1, <1>6 DEF AgentWrites, AgentExits, NoticeCancel
  <1>7. ASSUME NEW a \in Attempts,
               LeaveFenced(a) \/ SkipCommit(a) \/ CommitWork(a) \/ SkipMerge(a) \/ BeginMerge(a)
        PROVE  FenceInv'
    BY <1>1, <1>7 DEF LeaveFenced, SkipCommit, CommitWork, SkipMerge, BeginMerge, Fenced
  <1>8. ASSUME NEW a \in Attempts, MergeIn(a)
        PROVE  FenceInv'
    <2> DEFINE m == [by |-> a, edits |-> staged[a], late |-> stopped]
    <2>1. thread[a] = "merge" /\ merges' = merges \cup {m} /\ UNCHANGED stopped
      BY <1>8 DEF MergeIn
    <2>2. \A b \in Attempts : thread'[b] # "merge"
      BY <1>8 DEF MergeIn, LockInv
    <2>3. LateMerges = {}
      BY <2>1 DEF FenceInv
    <2>4. LateMerges' = IF stopped THEN {m} ELSE {}
      BY <2>1, <2>3 DEF LateMerges
    <2> QED BY <2>1, <2>2, <2>4 DEF FenceInv
  <1>9. ASSUME NEW a \in Attempts, Conflict(a) \/ Settle(a)
        PROVE  FenceInv'
    BY <1>1, <1>9 DEF Conflict, Settle
  <1> QED
    BY <1>2, <1>3, <1>4, <1>5, <1>6, <1>7, <1>8, <1>9
    DEF TaskStep, ThreadStep, TimeOut, CancelWorker

\* A thread starts with its attempt and only once.
LEMMA TaskTurns == ASSUME TaskTypeOK, TurnInv, TaskStep PROVE TurnInv'
  <1> USE DEF TaskTypeOK, RepositoryVars, OutsideThread, To, Returns, Idle, Critical
  <1>1. ASSUME NEW a \in Attempts, UNCHANGED overlap, Busy(a) \/ UNCHANGED thread,
               thread'[a] # "none", \A b \in Attempts \ {a} : thread'[b] = thread[b],
               run[a] # "none", run'[a] # "none", run'[a] = run[a] \/ run[a] = "running",
               \A b \in Attempts \ {a} : run'[b] = run[b]
        PROVE  TurnInv'
    BY <1>1 DEF TurnInv, Busy, Alone, Earlier
  <1>2. CASE Stop
    BY <1>2 DEF Stop, TurnInv, Busy, Alone, Earlier
  <1>3. ASSUME NEW a \in Attempts, Execute(a)
        PROVE  TurnInv'
    <2>1. /\ run[a] = "none" /\ \A b \in Earlier(a) : run[b] \in {"failed", "timed_out"}
          /\ run' = [run EXCEPT ![a] = "running"] /\ thread' = [thread EXCEPT ![a] = "prepare"]
          /\ overlap' = IF \E b \in Earlier(a) : Busy(b) THEN overlap \cup {TaskOf[a]} ELSE overlap
      BY <1>3 DEF Execute, Busy
    <2>2. \A b \in Attempts : run'[b] = "none" <=> thread'[b] = "none"
      BY <2>1 DEF TurnInv
    <2>3. ASSUME NEW c \in Attempts, NEW b \in Earlier(c), run'[c] # "none"
          PROVE  run'[b] \notin {"none", "running", "succeeded"} /\ (Alone(c)' => ~Busy(b)')
      <3>1. b \in Attempts /\ b # c /\ TaskOf[b] = TaskOf[c]
        BY AttemptsAreNumbered DEF Earlier
      <3>2. CASE c = a
        BY <2>1, <3>1, <3>2 DEF Busy, Alone
      <3>3. CASE c # a
        <4>1. run[c] # "none" /\ run[b] \notin {"none", "running", "succeeded"}
          BY <2>1, <2>3, <3>3 DEF TurnInv
        <4>2. b # a
          BY <2>1, <4>1
        <4>3. Alone(c)' => Alone(c)
          BY <2>1 DEF Alone
        <4> QED BY <2>1, <3>1, <4>1, <4>2, <4>3 DEF TurnInv, Busy
      <3> QED BY <3>2, <3>3
    <2> QED BY <2>2, <2>3 DEF TurnInv, Earlier
  <1>4. ASSUME NEW a \in Attempts, Return(a)
        PROVE  TurnInv'
    <2>1. run[a] = "running" /\ run' = [run EXCEPT ![a] = thread[a]] /\ UNCHANGED <<thread, overlap>>
      BY <1>4 DEF Return
    <2>2. thread[a] # "none"
      BY <2>1 DEF TurnInv
    <2> QED BY <1>1, <2>1, <2>2
  <1>5. ASSUME NEW a \in Attempts, NEW status \in {"timed_out", "cancelled"}, Abandon(a, status)
        PROVE  TurnInv'
    BY <1>1, <1>5 DEF Abandon, Busy
  <1>6. ASSUME NEW a \in Attempts, ThreadStep(a) \/ AgentWrites(a) \/ AgentExits(a)
        PROVE  TurnInv'
    <2>1. /\ Busy(a) /\ UNCHANGED <<run, overlap>> /\ thread'[a] # "none"
          /\ \A b \in Attempts \ {a} : thread'[b] = thread[b]
      BY <1>6 DEF ThreadStep, EnsureWorktree, SyncWorktree, WorktreeFails, AgentWrites, AgentExits,
                  NoticeCancel, LeaveFenced, SkipCommit, CommitWork, SkipMerge, BeginMerge, MergeIn,
                  Conflict, Settle, Busy
    <2>2. run[a] # "none"
      BY <2>1 DEF TurnInv, Busy
    <2> QED BY <1>1, <2>1, <2>2
  <1> QED
    BY <1>2, <1>3, <1>4, <1>5, <1>6 DEF TaskStep, TimeOut, CancelWorker

\* While one thread of a task is at work no other attempt of it is, nor has one
\* succeeded, unless overlap says so.
LEMMA AloneAtWork ==
    ASSUME TaskTypeOK, TurnInv, NEW a \in Attempts, Busy(a), Alone(a),
           NEW b \in Attempts \ {a}, TaskOf[b] = TaskOf[a]
    PROVE  ~Busy(b) /\ run[b] \notin {"running", "succeeded"}
  <1>1. run[a] # "none"
    BY DEF TurnInv, Busy, Idle
  <1>2. Alone(b)
    BY DEF Alone
  <1>3. CASE b \in Earlier(a)
    BY <1>1, <1>3 DEF TurnInv
  <1>4. CASE a \in Earlier(b)
    <2>1. run[b] = "none"
      BY <1>2, <1>4 DEF TurnInv
    <2>2. thread[b] = "none"
      BY <2>1 DEF TurnInv
    <2> QED BY <2>1, <2>2 DEF Busy, Idle
  <1>5. b \in Earlier(a) \/ a \in Earlier(b)
    BY AttemptsAreNumbered DEF Earlier
  <1> QED BY <1>3, <1>4, <1>5

\* The thread that moves changes no other attempt's place, commit or, unless
\* two of a task are at work, worktree; what has landed stays.
LEMMA OthersTraced ==
    ASSUME TaskTypeOK, TurnInv, NEW a \in Attempts, NEW b \in Attempts \ {a}, Busy(a),
           Alone(b) => Traced(b), Alone(b)', UNCHANGED <<overlap, run>>,
           thread'[b] = thread[b], staged'[b] = staged[b], b \in wrote' => b \in wrote,
           b \in unread' <=> b \in unread, merges \subseteq merges',
           \A t \in WorkTasks \ {TaskOf[a]} : tree'[t] = tree[t]
    PROVE  Traced(b)'
  <1>1. Alone(b) /\ Traced(b)
    BY DEF Alone
  <1>2. Landed(b) => Landed(b)'
    BY DEF Landed
  <1>3. TaskOf[b] \in WorkTasks
    BY DEF WorkTasks
  <1>4. CASE TaskOf[b] # TaskOf[a]
    BY <1>1, <1>2, <1>3, <1>4 DEF Traced, Edits, StillThere, Critical
  <1>5. CASE TaskOf[b] = TaskOf[a]
    <2>1. Alone(a)
      BY <1>1, <1>5 DEF Alone
    <2>2. ~Busy(b) /\ run[b] \notin {"running", "succeeded"}
      BY <1>5, <2>1, AloneAtWork
    <2> QED BY <2>2 DEF Traced, Busy, Idle, Critical
  <1> QED BY <1>4, <1>5

LEMMA TaskTraced == ASSUME TaskTypeOK, TurnInv, TraceInv, TaskStep PROVE TraceInv'
  <1> USE DEF RepositoryVars, OutsideThread
  <1> DEFINE NoEdits == \A a \in Attempts : thread[a] \in {"none", "prepare", "sync"} => a \notin wrote
             RunsEnded == \A a \in Attempts : run[a] = "succeeded" => thread[a] = "succeeded"
             Owned == \A m \in merges : m.by \in Attempts /\ (Alone(m.by) /\ m.by \notin unread => m.edits = {m.by})
  \* A step of one thread keeps it traced, and so all of them.
  <1>1. ASSUME NEW a \in Attempts, Busy(a), Alone(a) => Traced(a)',
               UNCHANGED <<run, overlap>>, \A b \in Attempts \ {a} : thread'[b] = thread[b] /\ staged'[b] = staged[b],
               wrote' = wrote \/ wrote' = wrote \cup {a}, merges \subseteq merges',
               unread' = unread \/ unread' = unread \cup {a},
               thread'[a] \in {"none", "prepare", "sync"} => a \notin wrote',
               \A t \in WorkTasks \ {TaskOf[a]} : tree'[t] = tree[t],
               \A m \in merges' \ merges : m.by = a /\ (Alone(a) /\ a \notin unread' => m.edits = {a})
        PROVE  TraceInv'
    <2>1. ASSUME NEW b \in Attempts \ {a}, Alone(b)' PROVE Traced(b)'
      BY <1>1, <2>1, OthersTraced DEF TraceInv, Alone
    <2>2. NoEdits'
      BY <1>1 DEF TraceInv
    <2>3. RunsEnded'
      BY <1>1 DEF TraceInv, Busy, Idle
    <2>4. Owned'
      BY <1>1 DEF TraceInv, Alone
    <2> QED BY <1>1, <2>1, <2>2, <2>3, <2>4 DEF TraceInv, Alone
  <1>2. ASSUME UNCHANGED thread, UNCHANGED <<overlap, wrote, tree, staged, merges, unread>>,
               \A a \in Attempts : /\ run'[a] = "succeeded" => run[a] = "succeeded" \/ thread[a] = "succeeded"
                                   /\ run'[a] \in {"running", "succeeded"} => run[a] \in {"running", "succeeded"}
        PROVE  TraceInv'
    BY <1>2 DEF TraceInv, Traced, Alone, Edits, Landed, StillThere
  <1>3. CASE Stop
    BY <1>2, <1>3 DEF Stop
  <1>4. ASSUME NEW a \in Attempts, Return(a)
        PROVE  TraceInv'
    BY <1>2, <1>4 DEF Return, TaskTypeOK
  <1>5. ASSUME NEW a \in Attempts, NEW status \in {"timed_out", "cancelled"}, Abandon(a, status)
        PROVE  TraceInv'
    BY <1>2, <1>5 DEF Abandon, TaskTypeOK
  <1>6. ASSUME NEW a \in Attempts, Execute(a)
        PROVE  TraceInv'
    <2>1. /\ run[a] = "none" /\ thread[a] = "none" /\ run' = [run EXCEPT ![a] = "running"]
          /\ thread' = [thread EXCEPT ![a] = "prepare"] /\ overlap \subseteq overlap'
          /\ UNCHANGED <<wrote, tree, staged, merges, unread>>
      BY <1>6 DEF Execute, To, TurnInv
    <2>2. ASSUME NEW b \in Attempts, Alone(b)' PROVE Traced(b)'
      <3>1. Alone(b) /\ Traced(b)
        BY <2>1, <2>2 DEF TraceInv, Alone
      <3> QED BY <2>1, <3>1 DEF Traced, Edits, Landed, StillThere, TaskTypeOK, Critical
    <2> QED BY <2>1, <2>2 DEF TraceInv, TaskTypeOK, Alone
  <1>7. ASSUME NEW a \in Attempts, ThreadStep(a) \/ AgentWrites(a) \/ AgentExits(a)
        PROVE  TraceInv'
    <2> USE DEF To, Returns, TaskTypeOK
    <2>1. TaskOf[a] \in WorkTasks
      BY DEF WorkTasks
    <2>2. Alone(a) => Traced(a)
      BY DEF TraceInv
    <2>3. CASE EnsureWorktree(a)
      BY <1>1, <2>1, <2>2, <2>3
         DEF EnsureWorktree, GitAnswers, GitIsSilent, Traced, Edits, Busy, Idle, Critical, TraceInv
    <2>4. CASE SyncWorktree(a)
      <3>1. /\ thread[a] = "sync" /\ thread'[a] \in {"agent", "failed"} /\ a \notin wrote
            /\ UNCHANGED <<run, overlap, wrote, staged, merges, unread>>
            /\ \A b \in Attempts \ {a} : thread'[b] = thread[b]
            /\ \A t \in WorkTasks \ {TaskOf[a]} : tree'[t] = tree[t]
        BY <2>4 DEF SyncWorktree, TraceInv
      <3>2. Edits(a)' \subseteq Edits(a)
        BY <2>1, <2>4 DEF SyncWorktree, Edits
      <3>3. Alone(a) => Traced(a)'
        BY <2>2, <3>1, <3>2 DEF Traced, Critical
      <3> QED BY <1>1, <3>1, <3>3 DEF Busy, Idle
    <2>5. CASE WorktreeFails(a) \/ NoticeCancel(a) \/ LeaveFenced(a) \/ Conflict(a)
      BY <1>1, <2>5 DEF WorktreeFails, NoticeCancel, LeaveFenced, Conflict, Traced, Busy, Idle, Critical
    <2>6. CASE AgentWrites(a)
      BY <1>1, <2>1, <2>2, <2>6 DEF AgentWrites, Traced, Edits, Busy, Idle, Critical
    <2>7. CASE AgentExits(a)
      <3>1. CASE Returns(a, "failed") /\ UNCHANGED unread
        BY <1>1, <2>7, <3>1 DEF AgentExits, Traced, Busy, Idle, Critical
      <3>2. ASSUME NEW found \in {{}, Edits(a)}, Inspected(a, found), To(a, "integrate"),
                   TaskOf[a] \in Verifiers => found = {}
            PROVE  TraceInv'
        BY <1>1, <2>1, <2>2, <2>7, <3>2
           DEF AgentExits, Inspected, GitAnswers, GitIsSilent, Traced, Edits, Busy, Idle, Critical
      <3> QED BY <2>7, <3>1, <3>2 DEF AgentExits
    <2>8. CASE CommitWork(a)
      <3>1. PICK found \in {{}, Edits(a)} :
              /\ Inspected(a, found)
              /\ IF found = {} \/ TaskOf[a] \in Verifiers
                 THEN To(a, "settle") /\ UNCHANGED <<staged, tree>>
                 ELSE /\ To(a, "commit") /\ staged' = [staged EXCEPT ![a] = found]
                      /\ tree' = [tree EXCEPT ![TaskOf[a]] = {}]
        BY <2>8 DEF CommitWork
      <3>2. /\ thread[a] = "integrate" /\ UNCHANGED <<cancelled, wrote, merges, run, overlap>>
            /\ unread' = unread \/ unread' = unread \cup {a}
        BY <2>8, <3>1 DEF CommitWork, Inspected, GitAnswers, GitIsSilent
      <3>3. CASE found = {} \/ TaskOf[a] \in Verifiers
        <4>1. thread' = [thread EXCEPT ![a] = "settle"] /\ UNCHANGED <<staged, tree>>
          BY <3>1, <3>3
        <4>2. a \in unread' \/ Edits(a) = {} \/ (TaskOf[a] \in Verifiers /\ unread' = unread)
          BY <3>1, <3>3 DEF Inspected, GitAnswers, GitIsSilent
        <4>3. Alone(a) => Traced(a)'
          BY <2>2, <3>2, <4>1, <4>2 DEF Traced, Edits, StillThere, Landed, Critical
        <4> QED BY <1>1, <3>2, <4>1, <4>3 DEF Busy, Idle
      <3>4. CASE ~(found = {} \/ TaskOf[a] \in Verifiers)
        <4>1. /\ thread' = [thread EXCEPT ![a] = "commit"] /\ staged' = [staged EXCEPT ![a] = Edits(a)]
              /\ tree' = [tree EXCEPT ![TaskOf[a]] = {}] /\ Edits(a) # {}
          BY <3>1, <3>4
        <4>2. Alone(a) => Traced(a)'
          BY <2>1, <2>2, <3>2, <4>1 DEF Traced, Edits, Critical
        <4> QED BY <1>1, <3>2, <4>1, <4>2 DEF Busy, Idle
      <3> QED BY <3>3, <3>4
    <2>9. CASE BeginMerge(a)
      BY <1>1, <2>1, <2>2, <2>9 DEF BeginMerge, Traced, Busy, Idle, Critical
    <2>10. CASE MergeIn(a)
      <3> DEFINE m == [by |-> a, edits |-> staged[a], late |-> stopped]
      <3>1. /\ thread[a] = "merge" /\ thread'[a] = "settle" /\ merges' = merges \cup {m}
            /\ UNCHANGED <<run, overlap, wrote, tree, unread>>
            /\ \A b \in Attempts \ {a} : thread'[b] = thread[b] /\ staged'[b] = staged[b]
        BY <2>10 DEF MergeIn
      <3>2. m.by = a /\ m.edits = staged[a] /\ m \in merges'
        BY <3>1
      <3>3. Alone(a) => (a \notin unread => m.edits = {a}) /\ (a \in wrote => a \in m.edits)
        BY <2>2, <3>1, <3>2 DEF Traced, Critical
      <3>4. Alone(a) /\ a \in wrote => Landed(a)'
        BY <3>2, <3>3 DEF Landed
      <3>5. Alone(a) => Traced(a)'
        BY <3>1, <3>4 DEF Traced, Critical
      <3>6. Busy(a)
        BY <3>1 DEF Busy, Idle
      <3> HIDE DEF m
      <3> QED BY <1>1, <3>1, <3>2, <3>3, <3>5, <3>6
    <2>11. CASE Settle(a)
      BY <1>1, <2>1, <2>2, <2>11 DEF Settle, Traced, Landed, Edits, StillThere, Busy, Idle, Critical
    <2>12. CASE SkipCommit(a)
      BY <1>1, <2>1, <2>2, <2>12 DEF SkipCommit, GitIsSilent, Traced, Edits, StillThere, Busy, Idle, Critical
    <2>13. CASE SkipMerge(a)
      BY <1>1, <2>1, <2>2, <2>13 DEF SkipMerge, GitIsSilent, Traced, Edits, StillThere, Busy, Idle, Critical
    <2> QED BY <1>7, <2>3, <2>4, <2>5, <2>6, <2>7, <2>8, <2>9, <2>10, <2>11, <2>12, <2>13 DEF ThreadStep
  <1> QED BY <1>3, <1>4, <1>5, <1>6, <1>7 DEF TaskStep, TimeOut, CancelWorker

LEMMA TaskStepInv == TaskInv /\ [TaskStep]_taskVars => TaskInv'
  <1>1. ASSUME TaskInv, TaskStep PROVE TaskInv'
    BY <1>1, TaskTyped, TaskLocked, TaskFenced, TaskTurns, TaskTraced DEF TaskInv
  <1>2. ASSUME TaskInv, UNCHANGED taskVars PROVE TaskInv'
    BY <1>2 DEF taskVars, TaskInv, TaskTypeOK, LockInv, FenceInv, LateMerges, TurnInv, Busy,
       Alone, Earlier, TraceInv, Traced, Edits, Landed, StillThere
  <1> QED BY <1>1, <1>2

LEMMA TaskInvariant == TaskSpec => []TaskInv
  BY TaskInitInv, TaskStepInv, PTL DEF TaskSpec

\* Whatever is abandoned, timed out or fenced, and however many attempts run,
\* at most one merge follows the fence (hermes_adapter.py:305).
THEOREM FenceHolds == TaskSpec => []OneMergeAfterFence
  <1>1. ASSUME TaskInv PROVE OneMergeAfterFence
    <2>1. CASE LateMerges = {}
      BY <2>1, FS_EmptySet DEF OneMergeAfterFence, LateMerges
    <2>2. ASSUME NEW m, LateMerges = {m} PROVE OneMergeAfterFence
      BY <2>2, FS_Singleton DEF OneMergeAfterFence, LateMerges
    <2> QED BY <1>1, <2>1, <2>2 DEF TaskInv, FenceInv
  <1> QED BY <1>1, TaskInvariant, PTL

\* A run that succeeded has its work in the branch or, where git gave no answer
\* for it and its commit or merge was skipped (hermes_adapter.py:625, :633 and
\* :652), kept in its commit or its worktree: for any number of attempts, any of
\* which git may fail, and however the worktree, the agent or the merge of
\* another one fails.
THEOREM SuccessIsNotLost == TaskSpec => []SuccessIsMerged
  <1>1. TaskInv => SuccessIsMerged
    BY DEF TaskInv, TaskTypeOK, TraceInv, Traced, SuccessIsMerged, Alone
  <1> QED BY <1>1, TaskInvariant, PTL

\* What an attempt for which git always answered merges is its own
\* (hermes_adapter.py:516).
THEOREM WorkIsNotMixed == TaskSpec => []WorkIsItsOwn
  <1>1. TaskInv => WorkIsItsOwn
    BY DEF TaskInv, TraceInv, WorkIsItsOwn, Alone
  <1> QED BY <1>1, TaskInvariant, PTL

-----------------------------------------------------------------------------
(* Rigs.  A rig is launched once, by the task it is named after; from then   *)
(* on it is held by one task of its process, is in that process's pool, or   *)
(* is known only to the ledger.                                              *)

Unlaunched == {"new", "preflight", "launch"}
Holding == Working \cup {"release", "cleanup"}

\* Before its task has an answer nobody has a rig, nobody tears it down and
\* its record is fresh.
BornOnce ==
    \A t \in RigTasks :
      /\ at[t] \in Unlaunched \cup {"up"} => /\ pool[t] = "out" /\ t \notin owned \cup aged
                                           /\ \A u \in RigTasks : seat[u] # t
      /\ at[t] \in Unlaunched => t \notin up \cup coming
      /\ at[t] \in {"new", "preflight"} => pending[t] = "none"
      /\ at[t] \in {"launch", "up"} => pending[t] = "launching"

\* A process that died has left the ledger and nothing else.
DeadAreGone ==
    \A t \in RigTasks : ~Live(t) => at[t] = "done" /\ seat[t] = NoSeat /\ pool[t] = "out"

\* A rig has one holder, or a place in the pool, in the process it belongs to.
\* The ones in use and the idle ones run, and no launch of them was given up.
HeldOnce ==
    /\ \A t \in RigTasks : at[t] \in Holding <=> seat[t] # NoSeat
    /\ \A t \in RigTasks : seat[t] # NoSeat => ProcessOf[seat[t]] = ProcessOf[t] /\ pool[seat[t]] = "out"
    /\ \A t, u \in RigTasks : seat[t] # NoSeat /\ seat[t] = seat[u] => t = u
    /\ \A t \in RigTasks : at[t] \in Working => seat[t] \in up /\ pending[seat[t]] # "abandoned"
    /\ \A r \in RigTasks : pool[r] = "idle" => r \in up /\ pending[r] # "abandoned"

\* A rig is created once and recorded as owned only when it is there.
CreatedOnce == up \cap coming = {} /\ owned \cap coming = {}

RigInv == RigTypeOK /\ BornOnce /\ DeadAreGone /\ HeldOnce /\ CreatedOnce /\ NoRigIsForgotten

LEMMA RigInitInv == RigInit => RigInv
  <1> SUFFICES ASSUME RigInit PROVE RigInv
    OBVIOUS
  <1>1. RigTypeOK
    BY DEF RigInit, RigTypeOK, Ended, Working
  <1>2. BornOnce /\ HeldOnce
    BY RigsArePlaced DEF RigInit, BornOnce, HeldOnce, Unlaunched, Holding, Working
  <1>3. DeadAreGone
    BY RigsArePlaced DEF RigInit, DeadAreGone, Live
  <1>4. CreatedOnce /\ NoRigIsForgotten
    BY DEF RigInit, CreatedOnce, NoRigIsForgotten
  <1> QED BY <1>1, <1>2, <1>3, <1>4 DEF RigInv

LEMMA RigKept == ASSUME RigInv, RigStep PROVE RigInv'
  <1> USE RigsArePlaced DEF RigInv, RigTypeOK, BornOnce, DeadAreGone, HeldOnce, CreatedOnce,
          NoRigIsForgotten, Live, Unlaunched, Holding, Working, Ended, UnchangedRigs, UnchangedLaunch
  <1>0. UNCHANGED ProcessOf
    BY DEF RigStep
  <1>1. ASSUME NEW t \in RigTasks, Preflight(t) PROVE RigInv'
    BY <1>0, <1>1 DEF Preflight, Goes, At
  <1>2. ASSUME NEW t \in RigTasks, RecordPending(t) PROVE RigInv'
    BY <1>0, <1>2 DEF RecordPending, Goes, At, Marked, InPool
  <1>3. ASSUME NEW t \in RigTasks, RigUp(t) PROVE RigInv'
    BY <1>0, <1>3 DEF RigUp, Goes, At
  <1>4. ASSUME NEW t \in RigTasks, DaemonCreates(t) PROVE RigInv'
    BY <1>0, <1>4 DEF DaemonCreates
  <1>5. ASSUME NEW t \in RigTasks, RigAnswers(t) PROVE RigInv'
    BY <1>0, <1>5 DEF RigAnswers, Goes, At, Track, Holds
  <1>6. ASSUME NEW t \in RigTasks, AnswerLost(t) PROVE RigInv'
    BY <1>0, <1>6 DEF AnswerLost, Goes, At, Track, Holds, Marked
  <1>7. ASSUME NEW t \in RigTasks, Finish(t) PROVE RigInv'
    BY <1>0, <1>7 DEF Finish, Goes, At
  <1>8. ASSUME NEW t \in RigTasks, Put(t) PROVE RigInv'
    BY <1>0, <1>8 DEF Put, Goes, At, Holds, Pooled
  <1>9. ASSUME NEW t \in RigTasks, Release(t) PROVE RigInv'
    BY <1>0, <1>9 DEF Release, Goes, At, Holds, Teardown
  <1>10. ASSUME NEW t \in RigTasks, Expire(t) PROVE RigInv'
    BY <1>0, <1>10 DEF Expire, Pooled
  <1>11. ASSUME NEW t \in RigTasks, PoolRelease(t) PROVE RigInv'
    BY <1>0, <1>11 DEF PoolRelease, Pooled, Teardown
  <1>12. ASSUME NEW t \in RigTasks, HourPasses(t) PROVE RigInv'
    BY <1>0, <1>12 DEF HourPasses
  <1>13. ASSUME NEW t \in RigTasks, NEW r \in RigTasks, ReconcileLedger(t, r) PROVE RigInv'
    BY <1>0, <1>13 DEF ReconcileLedger, At, StaleOwner, Teardown
  <1>14. ASSUME NEW t \in RigTasks, NEW r \in RigTasks, ReconcilePending(t, r) PROVE RigInv'
    BY <1>0, <1>14 DEF ReconcilePending, At, Unwaited, Teardown, Marked
  <1>15. ASSUME NEW t \in RigTasks, NEW r \in RigTasks, GiveUpPending(t, r) PROVE RigInv'
    BY <1>0, <1>15 DEF GiveUpPending, At, Marked
  <1>16. ASSUME NEW t \in RigTasks, NEW r \in RigTasks, LeaseSeat(t, r) PROVE RigInv'
    BY <1>0, <1>16 DEF LeaseSeat, At, Goes, Holds, Pooled, InPool
  <1>17. ASSUME NEW p \in Processes, Drain(p) PROVE RigInv'
    BY <1>0, <1>17 DEF Drain, Pooled, InPool
  <1>18. ASSUME NEW p \in Processes, Dies(p) PROVE RigInv'
    BY <1>0, <1>18 DEF Dies, Pooled, InPool
  <1>19. ASSUME NEW p \in Processes, ReleaseJob(p) PROVE RigInv'
    BY <1>0, <1>19 DEF ReleaseJob, Pooled, InPool
  <1> QED
    BY <1>1, <1>2, <1>3, <1>4, <1>5, <1>6, <1>7, <1>8, <1>9, <1>10, <1>11, <1>12, <1>13, <1>14,
       <1>15, <1>16, <1>17, <1>18, <1>19 DEF RigStep

LEMMA RigStepInv == RigInv /\ [RigStep]_rigVars => RigInv'
  <1>1. RigInv /\ UNCHANGED rigVars => RigInv'
    BY DEF rigVars, RigInv, RigTypeOK, BornOnce, DeadAreGone, HeldOnce, CreatedOnce,
           NoRigIsForgotten, Live
  <1> QED BY <1>1, RigKept

LEMMA RigInvariant == RigSpec => []RigInv
  BY RigInitInv, RigStepInv, PTL DEF RigSpec

\* For any number of tasks, processes and deaths, the rig a task works in is
\* up and no one else's (openrig_backend.py:70, 539, 563): no teardown of the
\* pool, of a preflight or of another task takes it away.
THEOREM SeatsAreExclusive == RigSpec => []SeatIsItsHolders
  <1>1. ASSUME RigInv PROVE SeatIsItsHolders
    <2> SUFFICES ASSUME NEW t \in RigTasks, at[t] \in Working
                 PROVE  /\ seat[t] \in up /\ pool[seat[t]] = "out"
                        /\ \A u \in RigTasks \ {t} : seat[u] # seat[t]
      BY DEF SeatIsItsHolders
    <2>1. seat[t] # NoSeat
      BY <1>1 DEF RigInv, HeldOnce, Holding
    <2> QED BY <1>1, <2>1 DEF RigInv, HeldOnce
  <1> QED BY <1>1, RigInvariant, PTL

\* A rig is never launched unrecorded (openrig_backend.py:593): wherever a
\* process dies or an answer is lost, what runs is in the ledger or has a
\* record that a later preflight finds.
THEOREM RigsAreRemembered == RigSpec => []NoRigIsForgotten
  <1>1. RigInv => NoRigIsForgotten
    BY DEF RigInv
  <1> QED BY <1>1, RigInvariant, PTL

-----------------------------------------------------------------------------
(* Records.  What a save under way can be trusted with. *)

\* A save that began when no other was under way, and that none has joined,
\* carries the record; when no save is under way and none failed or
\* overlapped, the record is what is on disk and what is believed to be there.
AloneInv ==
    /\ ~stale /\ Saving = {} => disk = record /\ cached = disk
    /\ \A s \in Saving : saver[s].alone =>
          /\ Saving = {s} /\ saver[s].payload = record
          /\ saver[s].step = "note" => disk = record
    /\ ~stale => \A s \in Saving : saver[s].alone

\* The record of a runner that this process started is known.
RunnerKnown == origin = "legacy" /\ driver => record # "none"
RecordInv == RecordTypeOK /\ AloneInv /\ RunnerKnown

LEMMA RecordInitInv == RecordInit => RecordInv
  <1>1. RecordInit => RecordTypeOK
    BY RestartsAreBounded DEF RecordInit, RecordTypeOK, NotSaving, Statuses, Ends
  <1>2. RecordInit => AloneInv
    BY DEF RecordInit, AloneInv, Saving, NotSaving
  <1> QED BY <1>1, <1>2 DEF RecordInv, RecordInit, RunnerKnown

\* persist_job, by any thread and with any status.
LEMMA PersistTyped ==
    ASSUME RecordTypeOK, NEW s \in Savers, NEW status \in Statuses, Persist(s, status)
    PROVE  /\ {record', disk', cached'} \subseteq Statuses \cup {"none"} /\ stale' \in BOOLEAN
           /\ saver' \in [Savers -> [step : {"idle", "write", "note"},
                                     payload : Statuses \cup {"none"}, alone : BOOLEAN]]
  <1> DEFINE others == [o \in Savers |-> [saver[o] EXCEPT !.alone = FALSE]]
             new == [step |-> "write", payload |-> status, alone |-> Saving = {}]
  <1>1. saver' \in {others, [others EXCEPT ![s] = new]}
    BY DEF Persist
  <1>2. \A o \in Savers : saver[o] \in [step : {"idle", "write", "note"},
                                       payload : Statuses \cup {"none"}, alone : BOOLEAN]
    BY DEF RecordTypeOK
  <1>3. others \in [Savers -> [step : {"idle", "write", "note"},
                              payload : Statuses \cup {"none"}, alone : BOOLEAN]]
    BY <1>2
  <1>4. new \in [step : {"idle", "write", "note"}, payload : Statuses \cup {"none"}, alone : BOOLEAN]
    BY DEF Statuses
  <1>5. record' = status /\ UNCHANGED <<disk, cached>> /\ stale' = (stale \/ Saving # {})
    BY DEF Persist
  <1> HIDE DEF others, new
  <1>6. [others EXCEPT ![s] = new] \in [Savers -> [step : {"idle", "write", "note"},
                              payload : Statuses \cup {"none"}, alone : BOOLEAN]]
    BY <1>3, <1>4
  <1> QED BY <1>1, <1>3, <1>5, <1>6 DEF RecordTypeOK

LEMMA PersistAlone ==
    ASSUME RecordTypeOK, AloneInv, NEW s \in Savers, NEW status, Persist(s, status)
    PROVE  AloneInv'
  <1> DEFINE others == [o \in Savers |-> [saver[o] EXCEPT !.alone = FALSE]]
             new == [step |-> "write", payload |-> status, alone |-> Saving = {}]
  <1>1. /\ record' = status /\ s \notin Saving /\ UNCHANGED <<disk, cached>>
        /\ saver' = IF status = cached THEN others ELSE [others EXCEPT ![s] = new]
        /\ stale' = (stale \/ Saving # {})
    BY DEF Persist
  <1>2. \A o \in Savers : saver[o] \in [step : {"idle", "write", "note"},
                                       payload : Statuses \cup {"none"}, alone : BOOLEAN]
    BY DEF RecordTypeOK
  <1>3. \A o \in Savers : others[o].step = saver[o].step /\ others[o].alone = FALSE
    BY <1>2
  <1>4. CASE status = cached
    <2>1. Saving' = Saving /\ \A o \in Savers : ~saver'[o].alone
      BY <1>1, <1>3, <1>4 DEF Saving
    <2> QED BY <1>1, <1>4, <2>1 DEF AloneInv, Saving
  <1>5. CASE status # cached
    <2>1. /\ saver'[s] = new /\ \A o \in Savers \ {s} : saver'[o] = others[o]
      BY <1>1, <1>5
    <2>2. /\ saver'[s].step = "write" /\ saver'[s].payload = status /\ (saver'[s].alone <=> Saving = {})
          /\ \A o \in Savers \ {s} : saver'[o].step = saver[o].step /\ ~saver'[o].alone
      <3>1. new.step = "write" /\ new.payload = status /\ (new.alone <=> Saving = {})
        OBVIOUS
      <3> HIDE DEF new, others
      <3> QED BY <1>3, <2>1, <3>1
    <2>3. Saving' = Saving \cup {s}
      BY <2>2 DEF Saving
    <2> HIDE DEF new, others
    <2> QED BY <1>1, <2>2, <2>3 DEF AloneInv, Saving
  <1> QED BY <1>4, <1>5

\* A status that an event or a poll brings is one of the record's.
LEMMA AppliedStatus ==
    ASSUME RecordTypeOK, NEW post
    PROVE  /\ Applied(post) \in Statuses \cup {"none"}
           /\ record # "none" => Applied(post) # "none"
  BY DEF Applied, RecordTypeOK, Statuses, Ends

\* Each step is a save that begins, a step of one under way, a restart, or
\* leaves record, disk and saves alone.
LEMMA RecordKept == ASSUME RecordInv, RecordStep PROVE RecordInv'
  <1> USE DEF RecordInv, RunnerKnown, UnchangedWork
  <1>1. ASSUME NEW s \in Savers, NEW status \in Statuses, Persist(s, status), origin' = origin,
               engine' \in Statuses, driver' \in BOOLEAN, runner' \in {"phases", "ended", "killed"},
               inbox' \subseteq Posts, restarts' = restarts
        PROVE  RecordInv'
    <2>1. record' # "none"
      BY <1>1 DEF Persist, Statuses, Ends
    <2> QED BY <1>1, <2>1, PersistTyped, PersistAlone DEF RecordTypeOK
  <1>2. CASE RunnerPosts \/ \E post \in Posts : PostLost(post)
    <2>1. UNCHANGED <<origin, record, disk, cached, saver, stale, engine, driver, restarts>>
      BY <1>2 DEF RunnerPosts, PostLost
    <2>2. runner' \in {"phases", "ended", "killed"} /\ inbox' \subseteq Posts
      BY <1>2 DEF RunnerPosts, PostLost, RecordTypeOK, Posts
    <2> QED BY <2>1, <2>2 DEF RecordTypeOK, AloneInv, Saving
  <1>3. ASSUME NEW post \in Posts, NEW s \in Savers, Ingest(s, post) PROVE RecordInv'
    <2>1. CASE Applied(post) = "none"
      BY <1>3, <2>1 DEF Ingest, RecordTypeOK, AloneInv, Saving
    <2>2. CASE Applied(post) # "none"
      BY <1>1, <1>3, <2>2, AppliedStatus DEF Ingest, RecordTypeOK
    <2> QED BY <2>1, <2>2
  <1>4. ASSUME NEW s \in Savers, GetJob(s) PROVE RecordInv'
    BY <1>1, <1>4 DEF GetJob, Synced, RecordTypeOK
  <1>5. ASSUME NEW s \in Savers, EngineMoves(s) PROVE RecordInv'
    BY <1>1, <1>5 DEF EngineMoves, RecordTypeOK, Statuses
  <1>6. ASSUME NEW s \in Savers, Reconstruct(s) \/ Reattach(s) PROVE RecordInv'
    BY <1>1, <1>6 DEF Reconstruct, Reattach, RecordTypeOK
  <1>7. ASSUME NEW s \in Savers, CancelLegacy(s) PROVE RecordInv'
    <2>1. Applied("job.cancelled") \in Statuses
      BY <1>7, AppliedStatus DEF CancelLegacy
    <2> QED BY <1>1, <1>7, <2>1 DEF CancelLegacy, RecordTypeOK
  <1>8. ASSUME NEW s \in Savers, CancelEngine(s) PROVE RecordInv'
    BY <1>1, <1>8 DEF CancelEngine, RecordTypeOK, Statuses, Ends
  <1>9. ASSUME NEW s \in Savers, Replace(s) PROVE RecordInv'
    BY <1>9 DEF Replace, RecordTypeOK, AloneInv, Saving
  <1>10. ASSUME NEW s \in Savers, Note(s) PROVE RecordInv'
    BY <1>10 DEF Note, RecordTypeOK, AloneInv, Saving, NotSaving
  <1>11. ASSUME NEW s \in Savers, SaveFails(s) PROVE RecordInv'
    BY <1>11 DEF SaveFails, RecordTypeOK, AloneInv, Saving, NotSaving
  <1>12. CASE Restart
    <2>1. /\ record' \in {Recovered, "none"} /\ driver' = FALSE /\ stale' = (record' # disk')
          /\ disk' \in IF record' = "none" THEN {disk} ELSE {disk, record'}
          /\ cached' = IF record' = "none" THEN "none" ELSE disk'
          /\ saver' = [s \in Savers |-> NotSaving]
          /\ restarts' = restarts + 1 /\ restarts < MaxRestarts
          /\ UNCHANGED <<origin, engine, runner, inbox>>
      BY <1>12 DEF Restart
    <2>2. Recovered \in Statuses \cup {"none"}
      BY DEF Recovered, RecordTypeOK, Statuses, Ends
    <2>3. {record', disk', cached'} \subseteq Statuses \cup {"none"}
      BY <2>1, <2>2 DEF RecordTypeOK
    <2>4. Saving' = {} /\ (~stale' => disk' = record' /\ cached' = disk')
      BY <2>1 DEF Saving, NotSaving
    <2>5. NotSaving \in [step : {"idle", "write", "note"}, payload : Statuses \cup {"none"}, alone : BOOLEAN]
      BY DEF NotSaving
    <2>6. RecordTypeOK'
      <3>1. stale' \in BOOLEAN
        BY <2>1, Zenon
      <3>2. restarts' \in 0..MaxRestarts
        BY <2>1, RestartsAreBounded DEF RecordTypeOK
      <3>3. saver' \in [Savers -> [step : {"idle", "write", "note"}, payload : Statuses \cup {"none"},
                                   alone : BOOLEAN]]
        BY <2>1, <2>5
      <3> QED BY <2>1, <2>3, <3>1, <3>2, <3>3 DEF RecordTypeOK
    <2>7. AloneInv'
      BY <2>4 DEF AloneInv
    <2> QED BY <2>1, <2>6, <2>7
  <1> QED
    BY <1>2, <1>3, <1>4, <1>5, <1>6, <1>7, <1>8, <1>9, <1>10, <1>11, <1>12 DEF RecordStep

LEMMA RecordStepInv == RecordInv /\ [RecordStep]_recordVars => RecordInv'
  <1>1. RecordInv /\ UNCHANGED recordVars => RecordInv'
    BY DEF recordVars, RecordInv, RunnerKnown, RecordTypeOK, AloneInv, Saving
  <1> QED BY <1>1, RecordKept

LEMMA RecordInvariant == RecordSpec => []RecordInv
  BY RecordInitInv, RecordStepInv, PTL DEF RecordSpec

\* job.json is the record, whichever threads save it and in whatever order
\* (job_service.py:129): the payload believed to be on disk never hides an
\* older one there, unless a save failed or overlapped another.
THEOREM RecordsReachTheDisk == RecordSpec => []RecordIsSaved
  <1>1. RecordInv => RecordIsSaved
    BY DEF RecordInv, AloneInv, RecordIsSaved
  <1> QED BY <1>1, RecordInvariant, PTL

\* A restart keeps the verdict that was saved (job_service.py:199).
THEOREM VerdictsSurviveRestarts == RecordSpec => RestartKeepsVerdicts
  <1> DEFINE Survives == restarts' # restarts /\ record \in Ends /\ ~stale /\ Saving = {}
                       => record' \in {record, "none"}
  <1>1. RecordInv /\ [RecordStep]_recordVars => [Survives]_recordVars
    <2> SUFFICES ASSUME RecordInv, RecordStep, restarts' # restarts, record \in Ends, ~stale, Saving = {}
                 PROVE  record' \in {record, "none"}
      OBVIOUS
    <2>1. Restart
      BY DEF RecordStep, RunnerPosts, PostLost, Ingest, Replace, Note, SaveFails, GetJob, EngineMoves,
             Reconstruct, Reattach, CancelLegacy, CancelEngine, UnchangedWork
    <2>2. disk = record
      BY DEF RecordInv, AloneInv
    <2> QED BY <2>1, <2>2 DEF Restart, Recovered
  <1> QED BY <1>1, RecordInvariant, PTL DEF RecordSpec, RestartKeepsVerdicts

-----------------------------------------------------------------------------
(* Sprints.  Batches are intervals, and the branch is at every point what the *)
(* phases before the one in hand have changed.                                *)

LEMMA PhasesAreNumbers == Phases = 1..Len(Group) /\ Len(Group) \in Nat \ {0} /\ MaxJobTurns \in Nat
  BY PlanIsASequence DEF Phases

LEMMA BatchIsAnInterval ==
    ASSUME NEW i \in Phases
    PROVE  /\ i \in Batch(i) /\ Batch(i) \subseteq Phases
           /\ \A k \in Batch(i) : i <= k /\ \A j \in i..k : j \in Batch(i)
  BY PhasesAreNumbers DEF Batch, Batches

Starts(i) == \A j \in 1..(i - 1) : i \notin Batch(j)

\* What follows a batch starts another one.
LEMMA BatchesFollow ==
    ASSUME NEW i \in Phases, Starts(i), NEW k \in Batch(i), k + 1 \in Phases, k + 1 \notin Batch(i)
    PROVE  Starts(k + 1)
  <1> SUFFICES ASSUME NEW j \in 1..k, k + 1 \in Batch(j) PROVE FALSE
    BY PhasesAreNumbers, BatchIsAnInterval DEF Starts
  <1>1. i \in Nat /\ j \in Nat /\ k \in Nat /\ i <= k /\ j \in Phases
    BY PhasesAreNumbers, BatchIsAnInterval
  <1>2. Group[j] # NoGroup /\ \A n \in j..(k + 1) : Group[n] = Group[j]
    BY <1>1 DEF Batch, Batches
  <1>3. CASE j < i
    <2>1. i \in Batch(j)
      BY <1>1, <1>2, <1>3 DEF Batch, Batches
    <2> QED BY <1>1, <1>3, <2>1 DEF Starts
  <1>4. CASE i <= j
    <2>1. \A n \in i..k : Group[n] = Group[i]
      BY <1>1 DEF Batch, Batches
    <2>2. Group[i] = Group[j] /\ Group[k + 1] = Group[i]
      BY <1>1, <1>2, <1>4, <2>1
    <2>3. \A n \in i..(k + 1) : Group[n] = Group[i]
      BY <1>1, <2>1, <2>2
    <2> QED BY <1>1, <1>2, <2>2, <2>3 DEF Batch, Batches
  <1> QED BY <1>1, <1>3, <1>4

-----------------------------------------------------------------------------
Before(n) == {p \in Phases : p < n}
Merged(c, n) == {p \in Phases : p < n /\ c[p]}

LEMMA MergedSteps ==
    /\ Before(1) = {} /\ \A c : Merged(c, 1) = {}
    /\ \A c : \A p \in Phases : Merged(c, p + 1) = IF c[p] THEN Merged(c, p) \cup {p} ELSE Merged(c, p)
    /\ \A p \in Phases : Before(p + 1) = Before(p) \cup {p}
  <1> USE PhasesAreNumbers
  <1>1. Before(1) = {} /\ \A c : Merged(c, 1) = {}
    BY DEF Merged, Before
  <1>2. ASSUME NEW c, NEW p \in Phases
        PROVE  Merged(c, p + 1) = IF c[p] THEN Merged(c, p) \cup {p} ELSE Merged(c, p)
    BY DEF Merged
  <1>3. ASSUME NEW p \in Phases PROVE Before(p + 1) = Before(p) \cup {p}
    BY DEF Before
  <1> QED BY <1>1, <1>2, <1>3

\* How far the branch and the record of phases are at each point.
Progress ==
    /\ point \in {"prepare", "sync", "agents", "vet"} =>
         first \in Phases /\ branch = Merged(changed, first) /\ summary = Before(first)
    /\ point \in {"verify", "finalize"} =>
         first \notin Phases /\ branch = Merged(changed, first) /\ summary = Before(first)
    /\ Integrating => first \in Phases /\ place \in Here
    /\ point \in {"commit", "merge"} => branch = Merged(changed, place) /\ summary = Before(place)
    /\ point = "merge" => changed[place]
    /\ point = "talk" => branch = Merged(changed, place + 1) /\ summary = Before(place + 1)
    /\ Integrating /\ Grouped => saved = [branch |-> Merged(changed, first), summary |-> Before(first)]
    /\ first \in Phases => Starts(first)

\* How a sprint ends: after a whole batch, after a phase of its own, or stuck.
EndsWhole ==
    /\ point # "end" => ~stuck /\ outcome = "INITIALIZING"
    /\ point = "end" /\ ~stuck => \/ branch = Merged(changed, first)
                                  \/ first \in Phases /\ Here = {first} /\ branch = Merged(changed, first + 1)
    /\ point = "finalize" => verified = branch

\* Only a turn takes a phase's validation back, and the first of a batch is
\* committed before there is one.
FirstIsVetted == point = "commit" /\ place = first => vetted[first]

SprintCourse == Progress /\ EndsWhole /\ ReadyIsWhole /\ FirstIsVetted /\ UnvettedOnlyInAGroup
SprintInv == SprintTypeOK /\ SprintCourse

TreesTyped ==
    /\ worker \in [Phases -> {"idle", "running", "done", "failed"}]
    /\ files \in [Phases -> {"clean", "edited", "added"}]
    /\ vetted \in [Phases -> BOOLEAN] /\ changed \in [Phases -> BOOLEAN]
    /\ verdict \in [Phases -> {"none", "passed", "failed"}]
BranchTyped ==
    /\ commits \in [Phases -> {"none", "vetted", "unvetted"}]
    /\ branch \cup verified \cup summary \subseteq Phases /\ stuck \in BOOLEAN
    /\ saved \in [branch : SUBSET Phases, summary : SUBSET Phases]
PlaceTyped ==
    /\ point \in {"prepare", "sync", "agents", "vet", "commit", "merge", "talk", "verify",
                  "finalize", "end"}
    /\ first \in 1..(Len(Group) + 1) /\ place \in Phases
    /\ turns \in 0..MaxJobTurns /\ sigterm \in BOOLEAN
    /\ outcome \in {"INITIALIZING", "READY_FOR_REVIEW", "FAILED"}

LEMMA TreesKept == TreesTyped /\ KeepTrees => TreesTyped'
  BY DEF TreesTyped, KeepTrees
LEMMA BranchKept == BranchTyped /\ KeepBranch => BranchTyped'
  BY DEF BranchTyped, KeepBranch

LEMMA SprintInitInv == SprintInit => SprintInv
  <1> SUFFICES ASSUME SprintInit PROVE SprintInv
    OBVIOUS
  <1>2. Merged(changed, 1) = {} /\ Before(1) = {}
    BY MergedSteps
  <1> USE PhasesAreNumbers DEF SprintInit
  <1>5. Starts(1) /\ 1 \in Phases
    BY DEF Starts
  <1>1. SprintTypeOK
    <2>1. TreesTyped
      <3>1. vetted \in [Phases -> BOOLEAN] /\ changed \in [Phases -> BOOLEAN]
        OBVIOUS
      <3>2. worker \in [Phases -> {"idle", "running", "done", "failed"}]
        OBVIOUS
      <3>3. files \in [Phases -> {"clean", "edited", "added"}]
        OBVIOUS
      <3>4. verdict \in [Phases -> {"none", "passed", "failed"}]
        OBVIOUS
      <3> HIDE DEF SprintInit
      <3> QED BY <3>1, <3>2, <3>3, <3>4 DEF TreesTyped
    <2>2. BranchTyped
      <3>1. saved \in [branch : SUBSET Phases, summary : SUBSET Phases]
        OBVIOUS
      <3> QED BY <3>1 DEF BranchTyped
    <2>3. PlaceTyped
      <3>1. /\ point = "prepare" /\ first = 1 /\ place = 1 /\ turns = 0
            /\ outcome = "INITIALIZING"
        OBVIOUS
      <3>2. sigterm \in BOOLEAN
        OBVIOUS
      <3> HIDE DEF SprintInit
      <3>3. first \in 1..(Len(Group) + 1) /\ turns \in 0..MaxJobTurns
        BY <3>1
      <3> QED BY <3>1, <3>2, <3>3, <1>5 DEF PlaceTyped
    <2> QED BY <2>1, <2>2, <2>3 DEF SprintTypeOK, TreesTyped, BranchTyped, PlaceTyped
  <1>3. Progress /\ EndsWhole
    BY <1>2, <1>5 DEF Progress, EndsWhole, Integrating
  <1>4. ReadyIsWhole /\ FirstIsVetted /\ UnvettedOnlyInAGroup
    BY DEF ReadyIsWhole, FirstIsVetted, UnvettedOnlyInAGroup
  <1> QED BY <1>1, <1>3, <1>4 DEF SprintInv, SprintCourse

LEMMA SprintTyped == ASSUME SprintTypeOK, Progress, SprintStep PROVE SprintTypeOK'
  <1> SUFFICES ASSUME TreesTyped, BranchTyped, PlaceTyped
               PROVE  TreesTyped' /\ BranchTyped' /\ PlaceTyped'
    BY DEF SprintTypeOK, TreesTyped, BranchTyped, PlaceTyped
  <1> USE TreesKept, BranchKept, PhasesAreNumbers
  <1>1. CASE Prepare \/ SyncFails \/ Joined \/ VetFails \/ Finalize \/ Sigterm
    <2>1. KeepTrees /\ KeepBranch
      BY <1>1 DEF Prepare, SyncFails, Joined, VetFails, Finalize, Sigterm
    <2>2. PlaceTyped'
      BY <1>1 DEF Prepare, SyncFails, Joined, VetFails, Finalize, Sigterm, PlaceTyped, KeepPlace, Raise, Proceed
    <2> QED BY <2>1, <2>2
  <1>2. CASE SyncTrees
    <2>1. TreesTyped'
      BY <1>2 DEF SyncTrees, TreesTyped, Reset
    <2>2. PlaceTyped'
      BY <1>2 DEF SyncTrees, PlaceTyped, KeepPlace, Proceed
    <2> QED BY <1>2, <2>1, <2>2 DEF SyncTrees
  <1>3. CASE Vet
    <2>1. vetted' \in [Phases -> BOOLEAN]
      <3>1. \A p \in Phases : (p \in Here \/ vetted[p]) \in BOOLEAN
        OBVIOUS
      <3> QED BY <1>3, <3>1 DEF Vet
    <2>2. changed' \in [Phases -> BOOLEAN]
      <3>1. \A p \in Phases : (IF p \in Here THEN files[p] # "clean" ELSE changed[p]) \in BOOLEAN
        BY DEF TreesTyped
      <3> QED BY <1>3, <3>1 DEF Vet
    <2>3. TreesTyped'
      BY <1>3, <2>1, <2>2 DEF Vet, TreesTyped
    <2>4. BranchTyped'
      BY <1>3 DEF Vet, BranchTyped
    <2>5. PlaceTyped'
      <3>1. first \in Phases
        BY <1>3 DEF Vet, Progress
      <3> QED BY <1>3, <3>1 DEF Vet, PlaceTyped, Proceed
    <2> QED BY <2>3, <2>4, <2>5
  <1>4. CASE CommitPhase
    <2>1. TreesTyped'
      BY <1>4 DEF CommitPhase, TreesTyped
    <2>2. BranchTyped'
      BY <1>4 DEF CommitPhase, BranchTyped, PlaceTyped
    <2>3. PlaceTyped'
      BY <1>4 DEF CommitPhase, PlaceTyped, KeepPlace, Proceed
    <2> QED BY <2>1, <2>2, <2>3
  <1>5. CASE MergePhase
    <2>1. BranchTyped'
      BY <1>5 DEF MergePhase, BranchTyped, PlaceTyped
    <2>2. PlaceTyped'
      BY <1>5 DEF MergePhase, PlaceTyped, KeepPlace, Proceed
    <2> QED BY <1>5, <2>1, <2>2 DEF MergePhase
  <1>6. CASE PhaseCompleted
    <2>1. place + 1 \in Here => place + 1 \in Phases
      BY <1>6, BatchIsAnInterval DEF PhaseCompleted, Progress, Integrating, Here
    <2>2. PlaceTyped'
      BY <1>6, <2>1 DEF PhaseCompleted, PlaceTyped, Proceed
    <2> QED BY <1>6, <2>2 DEF PhaseCompleted
  <1>7. CASE IntegrateFails
    <2>1. BranchTyped'
      BY <1>7 DEF IntegrateFails, BranchTyped
    <2>2. PlaceTyped'
      BY <1>7 DEF IntegrateFails, PlaceTyped, KeepPlace, Raise
    <2> QED BY <1>7, <2>1, <2>2 DEF IntegrateFails
  <1>8. CASE Verify
    <2>1. BranchTyped'
      BY <1>8 DEF Verify, BranchTyped
    <2>2. PlaceTyped'
      BY <1>8 DEF Verify, PlaceTyped, KeepPlace, Raise, Proceed
    <2> QED BY <1>8, <2>1, <2>2 DEF Verify
  <1>9. ASSUME NEW p \in Phases, AgentDone(p) PROVE TreesTyped' /\ BranchTyped' /\ PlaceTyped'
    <2>1. TreesTyped'
      <3>1. files' \in [Phases -> {"clean", "edited", "added"}]
        BY <1>9 DEF AgentDone, TreesTyped
      <3>2. verdict' \in [Phases -> {"none", "passed", "failed"}]
        BY <1>9 DEF AgentDone, TreesTyped
      <3> QED BY <1>9, <3>1, <3>2 DEF AgentDone, TreesTyped
    <2> QED BY <1>9, <2>1 DEF AgentDone, PlaceTyped, KeepPlace
  <1>10. ASSUME NEW p \in Phases, AgentFailed(p) PROVE TreesTyped' /\ BranchTyped' /\ PlaceTyped'
    <2>1. TreesTyped'
      BY <1>10 DEF AgentFailed, TreesTyped
    <2> QED BY <1>10, <2>1 DEF AgentFailed, PlaceTyped, KeepPlace
  <1>11. ASSUME NEW p \in Phases, TurnWrites(Agent[p]) PROVE TreesTyped' /\ BranchTyped' /\ PlaceTyped'
    <2>1. TreesTyped'
      <3>1. vetted' \in [Phases -> BOOLEAN]
        BY <1>11 DEF TurnWrites, TreesTyped
      <3>2. files' \in [Phases -> {"clean", "edited", "added"}]
        BY <1>11 DEF TurnWrites, TreesTyped
      <3> QED BY <1>11, <3>1, <3>2 DEF TurnWrites, TreesTyped
    <2> QED BY <1>11, <2>1 DEF TurnWrites, PlaceTyped
  <1> QED BY <1>1, <1>2, <1>3, <1>4, <1>5, <1>6, <1>7, <1>8, <1>9, <1>10, <1>11 DEF SprintStep

LEMMA PhasesInOrder ==
    ASSUME SprintTypeOK
    PROVE  /\ first \in Nat \ {0} /\ (first \notin Phases => first = Len(Group) + 1)
           /\ place \in Nat \ {0}
           /\ Before(Len(Group) + 1) = Phases
           /\ Merged(changed, Len(Group) + 1) = {p \in Phases : changed[p]}
  <1> USE PhasesAreNumbers
  <1>1. first \in 1..(Len(Group) + 1) /\ place \in Phases
    BY DEF SprintTypeOK
  <1>2. Before(Len(Group) + 1) = Phases
    BY DEF Before
  <1>3. Merged(changed, Len(Group) + 1) = {p \in Phases : changed[p]}
    BY DEF Merged
  <1> QED BY <1>1, <1>2, <1>3

\* Steps that leave the branch and the records alone.
LEMMA QuietSteps ==
    ASSUME SprintTypeOK, SprintCourse, Prepare \/ SyncTrees \/ SyncFails \/ Joined \/ VetFails \/ Sigterm
    PROVE  SprintCourse'
  <1>1. /\ KeepBranch /\ changed' = changed /\ vetted' = vetted /\ verdict' = verdict
        /\ first' = first /\ place' = place /\ point # "end"
    BY DEF Prepare, SyncTrees, SyncFails, Joined, VetFails, Sigterm, KeepTrees, KeepPlace
  <1>2. UnvettedOnlyInAGroup'
    BY <1>1 DEF SprintCourse, UnvettedOnlyInAGroup, KeepBranch
  <1>3. CASE Sigterm
    <2>1. point' = point /\ outcome' = outcome
      BY <1>3 DEF Sigterm
    <2>2. Progress'
      BY <1>1, <2>1 DEF SprintCourse, Progress, KeepBranch, Integrating, Here, Grouped
    <2>3. EndsWhole' /\ ReadyIsWhole' /\ FirstIsVetted'
      BY <1>1, <2>1 DEF SprintCourse, EndsWhole, ReadyIsWhole, FirstIsVetted, KeepBranch, Here
    <2> QED BY <1>2, <2>2, <2>3 DEF SprintCourse
  <1>4. CASE Prepare \/ SyncTrees \/ SyncFails \/ Joined \/ VetFails
    <2>1. /\ point \in {"prepare", "sync", "agents", "vet"}
          /\ \/ point' \in {"sync", "agents", "vet"} /\ outcome' = outcome
             \/ Raise
      BY <1>4 DEF Prepare, SyncTrees, SyncFails, Joined, VetFails, Proceed
    <2>2. Progress'
      BY <1>1, <2>1 DEF SprintCourse, Progress, KeepBranch, Integrating, Here, Grouped, Raise
    <2>3. EndsWhole'
      BY <1>1, <2>1 DEF SprintCourse, Progress, EndsWhole, KeepBranch, Here, Raise
    <2>4. ReadyIsWhole' /\ FirstIsVetted'
      BY <1>1, <2>1 DEF SprintCourse, EndsWhole, ReadyIsWhole, FirstIsVetted, Raise
    <2> QED BY <1>2, <2>2, <2>3, <2>4 DEF SprintCourse
  <1> QED BY <1>3, <1>4

LEMMA VetKept == ASSUME SprintTypeOK, SprintCourse, Vet PROVE SprintCourse'
  <1> USE PhasesAreNumbers, PhasesInOrder
  <1>1. /\ first \in Phases /\ branch = Merged(changed, first) /\ summary = Before(first)
        /\ ~stuck /\ outcome = "INITIALIZING" /\ Starts(first)
    BY DEF Vet, SprintCourse, Progress, EndsWhole
  <1>2. Merged(changed', first) = Merged(changed, first)
    <2>1. \A p \in Phases : p < first => changed'[p] = changed[p]
      BY <1>1, BatchIsAnInterval DEF Vet, Here
    <2> QED BY <2>1 DEF Merged
  <1>3. first \in Here /\ vetted'[first]
    BY <1>1, BatchIsAnInterval DEF Vet, Here
  <1>4. Progress'
    BY <1>1, <1>2, <1>3 DEF Vet, Progress, Integrating, Here, Grouped, Proceed
  <1>5. EndsWhole' /\ ReadyIsWhole'
    BY <1>1 DEF Vet, EndsWhole, ReadyIsWhole, Proceed
  <1>6. FirstIsVetted' /\ UnvettedOnlyInAGroup'
    BY <1>3 DEF Vet, SprintCourse, FirstIsVetted, UnvettedOnlyInAGroup
  <1> QED BY <1>4, <1>5, <1>6 DEF SprintCourse

LEMMA CommitKept == ASSUME SprintTypeOK, SprintCourse, CommitPhase PROVE SprintCourse'
  <1> USE PhasesAreNumbers, PhasesInOrder
  <1>1. /\ first \in Phases /\ place \in Here /\ place \in Phases /\ Starts(first)
        /\ branch = Merged(changed, place) /\ summary = Before(place)
        /\ ~stuck /\ outcome = "INITIALIZING"
        /\ Grouped => saved = [branch |-> Merged(changed, first), summary |-> Before(first)]
        /\ place = first => vetted[first]
    BY DEF CommitPhase, SprintCourse, Progress, EndsWhole, FirstIsVetted, Integrating, SprintTypeOK
  <1>2. /\ first' = first /\ place' = place /\ changed' = changed /\ branch' = branch /\ outcome' = outcome
        /\ saved' = saved /\ stuck' = stuck /\ point' # "commit"
    BY DEF CommitPhase, KeepPlace, Proceed
  <1>3. \/ changed[place] /\ point' = "merge" /\ summary' = summary
        \/ ~changed[place] /\ point' = "talk" /\ summary' = summary \cup {place}
    BY DEF CommitPhase, Proceed
  <1>7. ~changed[place] => branch = Merged(changed, place + 1)
    BY <1>1, MergedSteps
  <1>8. Before(place) \cup {place} = Before(place + 1)
    BY <1>1, MergedSteps
  <1>9. Here' = Here /\ Grouped' = Grouped
    BY <1>2 DEF Here, Grouped
  <1>4. Progress'
    BY <1>1, <1>2, <1>3, <1>7, <1>8, <1>9 DEF Progress, Integrating
  <1>5. EndsWhole' /\ ReadyIsWhole' /\ FirstIsVetted'
    BY <1>1, <1>2, <1>3 DEF EndsWhole, ReadyIsWhole, FirstIsVetted
  <1>6. UnvettedOnlyInAGroup'
    <2> SUFFICES ASSUME NEW p \in Phases, commits'[p] = "unvetted"
                 PROVE  \E i \in 1..(p - 1) : p \in Batch(i)
      BY DEF UnvettedOnlyInAGroup
    <2>1. CASE commits[p] = "unvetted"
      BY <2>1 DEF SprintCourse, UnvettedOnlyInAGroup
    <2>2. CASE commits[p] # "unvetted"
      <3>1. p = place /\ ~vetted[place]
        BY <2>2, <1>1 DEF CommitPhase, SprintTypeOK
      <3>2. place # first /\ first <= place
        BY <3>1, <1>1, BatchIsAnInterval DEF Here
      <3>3. first \in 1..(p - 1) /\ p \in Batch(first)
        BY <3>1, <3>2, <1>1 DEF Here
      <3> QED BY <3>3
    <2> QED BY <2>1, <2>2
  <1> QED BY <1>4, <1>5, <1>6 DEF SprintCourse

LEMMA MergeKept == ASSUME SprintTypeOK, SprintCourse, MergePhase PROVE SprintCourse'
  <1> USE PhasesAreNumbers, PhasesInOrder
  <1>1. /\ first \in Phases /\ place \in Here /\ place \in Phases /\ Starts(first) /\ changed[place]
        /\ branch = Merged(changed, place) /\ summary = Before(place)
        /\ ~stuck /\ outcome = "INITIALIZING"
        /\ Grouped => saved = [branch |-> Merged(changed, first), summary |-> Before(first)]
    BY DEF MergePhase, SprintCourse, Progress, EndsWhole, Integrating, SprintTypeOK
  <1>2. /\ first' = first /\ place' = place /\ changed' = changed /\ outcome' = outcome
        /\ saved' = saved /\ stuck' = stuck /\ point' = "talk" /\ commits' = commits
        /\ branch' = branch \cup {place} /\ summary' = summary \cup {place}
    BY DEF MergePhase, KeepPlace, KeepTrees, Proceed
  <1>5. branch \cup {place} = Merged(changed, place + 1)
    BY <1>1, MergedSteps
  <1>6. Before(place) \cup {place} = Before(place + 1)
    BY <1>1, MergedSteps
  <1>7. Here' = Here /\ Grouped' = Grouped
    BY <1>2 DEF Here, Grouped
  <1>3. Progress'
    BY <1>1, <1>2, <1>5, <1>6, <1>7 DEF Progress, Integrating
  <1>4. EndsWhole' /\ ReadyIsWhole' /\ FirstIsVetted' /\ UnvettedOnlyInAGroup'
    BY <1>1, <1>2 DEF SprintCourse, EndsWhole, ReadyIsWhole, FirstIsVetted, UnvettedOnlyInAGroup
  <1> QED BY <1>3, <1>4 DEF SprintCourse

LEMMA CompletedKept == ASSUME SprintTypeOK, SprintCourse, PhaseCompleted PROVE SprintCourse'
  <1> USE PhasesAreNumbers, PhasesInOrder
  <1>1. /\ first \in Phases /\ place \in Here /\ place \in Phases /\ Starts(first)
        /\ branch = Merged(changed, place + 1) /\ summary = Before(place + 1)
        /\ ~stuck /\ outcome = "INITIALIZING"
        /\ Grouped => saved = [branch |-> Merged(changed, first), summary |-> Before(first)]
    BY DEF PhaseCompleted, SprintCourse, Progress, EndsWhole, Integrating, SprintTypeOK
  <1>2. /\ changed' = changed /\ outcome' = outcome /\ saved' = saved /\ stuck' = stuck
        /\ commits' = commits /\ branch' = branch /\ summary' = summary /\ point' # "end"
    BY DEF PhaseCompleted, KeepTrees, KeepBranch, Proceed
  <1>3. CASE place + 1 \in Here
    <2>1. point' = "commit" /\ place' = place + 1 /\ first' = first
      BY <1>3 DEF PhaseCompleted, Proceed
    <2>2. first # place + 1
      BY <1>1, BatchIsAnInterval DEF Here
    <2>3. Progress'
      BY <1>1, <1>2, <1>3, <2>1 DEF Progress, Integrating, Here, Grouped
    <2>4. EndsWhole' /\ ReadyIsWhole' /\ FirstIsVetted' /\ UnvettedOnlyInAGroup'
      BY <1>1, <1>2, <2>1, <2>2 DEF SprintCourse, EndsWhole, ReadyIsWhole, FirstIsVetted, UnvettedOnlyInAGroup
    <2> QED BY <2>3, <2>4 DEF SprintCourse
  <1>4. CASE place + 1 \notin Here
    <2>1. /\ first' = place + 1 /\ place' = place
          /\ \/ first' \in Phases /\ point' = "sync"
             \/ first' \notin Phases /\ point' = "verify"
      BY <1>4 DEF PhaseCompleted, Proceed
    <2>2. place + 1 \in Phases => Starts(place + 1)
      BY <1>1, <1>4, BatchesFollow DEF Here
    <2>3. Progress'
      BY <1>1, <1>2, <2>1, <2>2 DEF Progress, Integrating, Here, Grouped
    <2>4. EndsWhole' /\ ReadyIsWhole' /\ FirstIsVetted' /\ UnvettedOnlyInAGroup'
      BY <1>1, <1>2, <2>1 DEF SprintCourse, EndsWhole, ReadyIsWhole, FirstIsVetted, UnvettedOnlyInAGroup
    <2> QED BY <2>3, <2>4 DEF SprintCourse
  <1> QED BY <1>3, <1>4

\* A failed integration goes back to the start of a group, or leaves what a
\* phase of its own had got to.
LEMMA FailureKept == ASSUME SprintTypeOK, SprintCourse, IntegrateFails PROVE SprintCourse'
  <1> USE PhasesAreNumbers, PhasesInOrder
  <1>1. /\ first \in Phases /\ place \in Here /\ Starts(first)
        /\ point \in {"commit", "merge"} => branch = Merged(changed, place)
        /\ point = "talk" => branch = Merged(changed, place + 1)
        /\ ~stuck /\ outcome = "INITIALIZING" /\ point \in {"commit", "merge", "talk"}
        /\ Grouped => saved = [branch |-> Merged(changed, first), summary |-> Before(first)]
    BY DEF IntegrateFails, SprintCourse, Progress, EndsWhole, Integrating
  <1>2. /\ first' = first /\ changed' = changed /\ outcome' # "READY_FOR_REVIEW" /\ point' = "end"
        /\ commits' = commits
    BY DEF IntegrateFails, KeepPlace, KeepTrees, Raise
  <1>3. Progress'
    BY <1>1, <1>2 DEF Progress, Integrating
  <1>4. ~stuck' => \/ branch' = Merged(changed, first)
                   \/ Here = {first} /\ branch' = Merged(changed, first + 1)
    <2>1. CASE Grouped
      BY <1>1, <2>1 DEF IntegrateFails
    <2>2. CASE ~Grouped
      <3>1. Here = {first} /\ place = first
        BY <1>1, <2>2 DEF Grouped
      <3>2. branch' = branch
        BY <2>2 DEF IntegrateFails
      <3> QED BY <1>1, <3>1, <3>2
    <2> QED BY <2>1, <2>2
  <1>5. EndsWhole'
    BY <1>1, <1>2, <1>4 DEF EndsWhole, Here
  <1>6. ReadyIsWhole' /\ FirstIsVetted' /\ UnvettedOnlyInAGroup'
    BY <1>2 DEF SprintCourse, ReadyIsWhole, FirstIsVetted, UnvettedOnlyInAGroup
  <1> QED BY <1>3, <1>5, <1>6 DEF SprintCourse

LEMMA VerifyKept == ASSUME SprintTypeOK, SprintCourse, Verify PROVE SprintCourse'
  <1>1. /\ first \notin Phases /\ branch = Merged(changed, first) /\ summary = Before(first)
        /\ ~stuck /\ outcome = "INITIALIZING"
    BY DEF Verify, SprintCourse, Progress, EndsWhole
  <1>2. /\ first' = first /\ changed' = changed /\ stuck' = stuck /\ commits' = commits
        /\ branch' = branch /\ summary' = summary
        /\ \/ point' = "finalize" /\ outcome' = outcome /\ verified' = branch
           \/ point' = "end" /\ outcome' \in {"FAILED", "INITIALIZING"}
    BY DEF Verify, KeepPlace, KeepTrees, Raise, Proceed
  <1>3. Progress' /\ EndsWhole'
    BY <1>1, <1>2 DEF Progress, EndsWhole, Integrating
  <1>4. ReadyIsWhole' /\ FirstIsVetted' /\ UnvettedOnlyInAGroup'
    BY <1>1, <1>2 DEF SprintCourse, ReadyIsWhole, FirstIsVetted, UnvettedOnlyInAGroup
  <1> QED BY <1>3, <1>4 DEF SprintCourse

LEMMA FinalizeKept == ASSUME SprintTypeOK, SprintCourse, Finalize PROVE SprintCourse'
  <1>1. /\ first = Len(Group) + 1 /\ first \notin Phases /\ branch = Merged(changed, first)
        /\ summary = Before(first) /\ ~stuck /\ outcome = "INITIALIZING" /\ verified = branch
    BY PhasesInOrder DEF Finalize, SprintCourse, Progress, EndsWhole
  <1>2. /\ first' = first /\ changed' = changed /\ verdict' = verdict /\ point' = "end" /\ KeepBranch
        /\ \/ (\A p \in summary : ~Rejected(p)) /\ outcome' = "READY_FOR_REVIEW"
           \/ outcome' \in {"FAILED", "INITIALIZING"}
    BY DEF Finalize, KeepPlace, KeepTrees, Raise
  <1>3. Progress' /\ EndsWhole'
    BY <1>1, <1>2 DEF Progress, EndsWhole, Integrating, KeepBranch
  <1>4. ReadyIsWhole'
    <2>1. branch = {p \in Phases : changed[p]} /\ summary = Phases
      BY <1>1, PhasesInOrder
    <2> QED BY <1>1, <1>2, <2>1 DEF ReadyIsWhole, Rejected, KeepBranch
  <1>5. FirstIsVetted' /\ UnvettedOnlyInAGroup'
    BY <1>2 DEF SprintCourse, FirstIsVetted, UnvettedOnlyInAGroup, KeepBranch
  <1> QED BY <1>3, <1>4, <1>5 DEF SprintCourse

LEMMA AgentsKept ==
    ASSUME SprintTypeOK, SprintCourse, NEW p \in Phases,
           AgentDone(p) \/ AgentFailed(p) \/ TurnWrites(Agent[p])
    PROVE  SprintCourse'
  <1>1. /\ point \in {"agents", "talk"} /\ point' = point /\ outcome' = outcome
        /\ first' = first /\ place' = place /\ changed' = changed /\ KeepBranch
    BY DEF AgentDone, AgentFailed, TurnWrites, KeepPlace
  <1>2. Progress'
    BY <1>1 DEF SprintCourse, Progress, KeepBranch, Integrating, Here, Grouped
  <1>3. EndsWhole' /\ ReadyIsWhole'
    BY <1>1 DEF SprintCourse, EndsWhole, ReadyIsWhole, KeepBranch
  <1>4. FirstIsVetted' /\ UnvettedOnlyInAGroup'
    BY <1>1 DEF SprintCourse, FirstIsVetted, UnvettedOnlyInAGroup, KeepBranch
  <1> QED BY <1>2, <1>3, <1>4 DEF SprintCourse

LEMMA SprintStepInv == SprintInv /\ [SprintStep]_sprintVars => SprintInv'
  <1> SUFFICES ASSUME SprintTypeOK, SprintCourse, [SprintStep]_sprintVars PROVE SprintTypeOK' /\ SprintCourse'
    BY DEF SprintInv
  <1>1. CASE SprintStep
    <2>1. SprintTypeOK'
      BY <1>1, SprintTyped DEF SprintCourse
    <2>2. SprintCourse'
      BY <1>1, QuietSteps, VetKept, CommitKept, MergeKept, CompletedKept, FailureKept, VerifyKept,
         FinalizeKept, AgentsKept DEF SprintStep
    <2> QED BY <2>1, <2>2
  <1>2. CASE UNCHANGED sprintVars
    <2>1. SprintTypeOK' /\ ReadyIsWhole' /\ FirstIsVetted' /\ UnvettedOnlyInAGroup'
      BY <1>2 DEF sprintVars, SprintCourse, SprintTypeOK, ReadyIsWhole, Rejected, FirstIsVetted, UnvettedOnlyInAGroup
    <2>2. Progress' /\ EndsWhole'
      BY <1>2 DEF sprintVars, SprintCourse, Progress, EndsWhole, Integrating, Here, Grouped
    <2> QED BY <2>1, <2>2 DEF SprintCourse
  <1> QED BY <1>1, <1>2

-----------------------------------------------------------------------------
\* What the invariant says of every other batch.
LEMMA MergedInBatches ==
    ASSUME SprintTypeOK, NEW n \in Phases \cup {Len(Group) + 1}, n \in Phases => Starts(n),
           NEW i \in Phases, Starts(i)
    PROVE  Merged(changed, n) \cap Batch(i) \in {{}, {p \in Batch(i) : changed[p]}}
  <1> USE PhasesAreNumbers, BatchIsAnInterval
  <1>1. CASE n <= i
    <2>1. Merged(changed, n) \cap Batch(i) = {}
      BY <1>1 DEF Merged
    <2> QED BY <2>1
  <1>2. CASE i < n
    <2>1. \A p \in Batch(i) : p < n
      <3> SUFFICES ASSUME NEW p \in Batch(i), n <= p PROVE FALSE
        OBVIOUS
      <3>1. n \in Batch(i) /\ n \in Phases
        BY <1>2
      <3>2. i \in 1..(n - 1)
        BY <1>2
      <3> QED BY <3>1, <3>2 DEF Starts
    <2>2. Merged(changed, n) \cap Batch(i) = {p \in Batch(i) : changed[p]}
      BY <2>1 DEF Merged
    <2> QED BY <2>2
  <1> QED BY <1>1, <1>2

LEMMA BatchesAreWhole == SprintInv => BatchIsWhole
  <1> SUFFICES ASSUME SprintInv, NEW i \in Phases, Starts(i), ~(Integrating /\ i = first), ~stuck
               PROVE  branch \cap Batch(i) \in {{}, {p \in Batch(i) : changed[p]}}
    BY DEF BatchIsWhole, Starts
  <1> USE PhasesAreNumbers, BatchIsAnInterval
  <1>1. SprintTypeOK /\ Progress /\ EndsWhole
    BY DEF SprintInv, SprintCourse
  <1>2. first \in Phases \cup {Len(Group) + 1} /\ (first \in Phases => Starts(first)) /\ place \in Phases
    <2>1. first \in Phases \cup {Len(Group) + 1} /\ place \in Phases
      BY <1>1, PhasesInOrder DEF SprintTypeOK
    <2>2. first \in Phases => Starts(first)
      BY <1>1 DEF Progress
    <2> QED BY <2>1, <2>2
  <1>3. CASE branch = Merged(changed, first)
    BY <1>1, <1>2, <1>3, MergedInBatches
  <1>4. CASE first \in Phases /\ Here = {first} /\ branch = Merged(changed, first + 1)
    <2>1. CASE i = first
      <3>1. Batch(i) = {first}
        BY <1>4, <2>1 DEF Here
      <3>2. branch \cap Batch(i) = {p \in Batch(i) : changed[p]}
        BY <1>4, <3>1 DEF Merged
      <3> QED BY <3>2
    <2>2. CASE i # first
      <3>1. first \notin Batch(i)
        BY <1>2, <1>4, <2>2 DEF Starts
      <3>2. Merged(changed, first + 1) \cap Batch(i) = Merged(changed, first) \cap Batch(i)
        <4>1. Merged(changed, first + 1) \in {Merged(changed, first), Merged(changed, first) \cup {first}}
          BY <1>4, MergedSteps
        <4> QED BY <3>1, <4>1
      <3>3. Merged(changed, first) \cap Batch(i) \in {{}, {p \in Batch(i) : changed[p]}}
        BY <1>1, <1>2, MergedInBatches
      <3> QED BY <1>4, <3>2, <3>3
    <2> QED BY <2>1, <2>2
  <1>5. CASE Integrating
    <2>1. first \in Phases /\ place \in Batch(first) /\ i # first
      BY <1>1, <1>5 DEF Progress, Here
    <2>2. \A p \in first..place : p \notin Batch(i)
      <3> SUFFICES ASSUME NEW p \in first..place, p \in Batch(i) PROVE FALSE
        OBVIOUS
      <3>1. p \in Batch(first) /\ i <= p /\ \A j \in i..p : j \in Batch(i)
        BY <2>1
      <3>2. CASE i < first
        <4>1. first \in Batch(i) /\ i \in 1..(first - 1)
          BY <2>1, <3>1, <3>2
        <4> QED BY <1>2, <2>1, <4>1 DEF Starts
      <3>3. CASE first < i
        <4>1. i \in Batch(first) /\ first \in 1..(i - 1)
          BY <2>1, <3>1, <3>3
        <4> QED BY <4>1 DEF Starts
      <3> QED BY <2>1, <3>2, <3>3
    <2>3. branch \in {Merged(changed, place), Merged(changed, place + 1)}
      BY <1>1, <1>5 DEF Progress, Integrating
    <2>4. branch \cap Batch(i) = Merged(changed, first) \cap Batch(i)
      <3>1. \A p \in Batch(i) : p \in Phases /\ (p < first \/ place + 1 <= p)
        BY <2>1, <2>2
      <3>2. first <= place
        BY <2>1
      <3> QED BY <2>1, <2>3, <3>1, <3>2 DEF Merged
    <2> QED BY <1>1, <1>2, <2>1, <2>4, MergedInBatches
  <1>6. \/ Integrating
        \/ branch = Merged(changed, first)
        \/ first \in Phases /\ Here = {first} /\ branch = Merged(changed, first + 1)
    <2>1. point \in {"prepare", "sync", "agents", "vet", "commit", "merge", "talk", "verify",
                    "finalize", "end"}
      BY <1>1 DEF SprintTypeOK
    <2>2. CASE point \in {"prepare", "sync", "agents", "vet", "verify", "finalize"}
      BY <1>1, <2>2 DEF Progress
    <2>3. CASE point = "end"
      BY <1>1, <2>3 DEF EndsWhole
    <2> QED BY <2>1, <2>2, <2>3 DEF Integrating
  <1> QED BY <1>3, <1>4, <1>5, <1>6

\* Whatever a phase, a turn, the vetting, a merge or a rollback does, a group
\* is in the branch whole or not at all, READY_FOR_REVIEW means all of it,
\* and only a group's later phases commit unvetted files
\* (run-hermes-sprint.py:1680), for every plan.
THEOREM SprintsAreWhole == SprintSpec => []SprintIsWhole
  <1>1. SprintInv => SprintIsWhole
    BY BatchesAreWhole DEF SprintInv, SprintCourse, SprintIsWhole
  <1> QED BY <1>1, SprintInitInv, SprintStepInv, PTL DEF SprintSpec

-----------------------------------------------------------------------------
(* Conversations.  A message is known under two ids; the lemmas on least     *)
(* elements say that a new message is new, and that a turn answers one of    *)
(* those it found.                                                           *)

LEMMA MinOf ==
    ASSUME NEW R, IsWellFoundedOn(R, Nat), NEW S, S \subseteq Nat, S # {}
    PROVE  \E m \in S : \A n \in S : ~(<<n, m>> \in R)
  BY WFMin, Zenon

LEMMA LeastExists ==
    ASSUME NEW S, S \subseteq Nat, S # {}
    PROVE  \E m \in S : \A n \in S : m <= n
  <1>1. PICK R : R = OpToRel(<, Nat)
    BY Zenon
  <1>2. \E m \in S : \A n \in S : ~(<<n, m>> \in R)
    BY <1>1, NatLessThanWellFounded, MinOf, Zenon
  <1>3. \A n \in Nat, m \in Nat : <<n, m>> \in R <=> n < m
    BY <1>1 DEF OpToRel
  <1>4. \A n \in S, m \in S : ~(<<n, m>> \in R) => m <= n
    BY <1>3
  <1> QED BY <1>2, <1>4

-----------------------------------------------------------------------------
\* What is known of a message stays, and a new one is nobody's answer.
TalkTypes ==
    /\ Known \subseteq Messages /\ delivered \subseteq posted /\ answered \in [Messages -> Nat]

\* A message answered once, and not unseen, is consumed under both its ids.
AnsweredOnce ==
    \A m \in Messages : answered[m] > 0 =>
      /\ m \in Known
      /\ m \notin unseen => <<m, "api">> \in consumed /\ (m \in kept => <<m, "kept">> \in consumed)

\* What a turn answers is new to the runner; answered under the API's id, its
\* kept copy is consumed with it.
TargetIsNew ==
    doing = "turn" =>
      /\ target \in shown \ consumed /\ target \in Known \X Sides
      /\ target[2] = "kept" => target[1] \in kept
      /\ target[2] = "api" /\ target[1] \in kept => <<target[1], "kept">> \in shown \cup consumed

TalkInv == TalkTypes /\ AnsweredOnce /\ TargetIsNew /\ TwiceOnlyUnseen

LEMMA FreshIsNew == ASSUME Room, Known \subseteq Messages PROVE Fresh \in Messages /\ Fresh \notin Known
  <1>1. Messages \ Known \subseteq Nat /\ Messages \ Known # {}
    <2>1. \E m \in Messages : m \notin Known
      BY DEF Room
    <2> QED BY <2>1, MessagesAreBounded DEF Messages
  <1>2. \E m \in Messages \ Known : \A n \in Messages \ Known : m <= n
    BY <1>1, LeastExists
  <1>3. \E m \in Messages : m \notin Known /\ \A n \in Messages : n \notin Known => m <= n
    BY <1>2
  <1> QED BY <1>3 DEF Fresh

LEMMA FirstIsOne ==
    ASSUME NEW ids, ids # {}, ids \subseteq Messages \X Sides
    PROVE  FirstOf(ids) \in ids
  <1> DEFINE S == {i[1] : i \in ids}
  <1>1. S \subseteq Nat /\ S # {}
    BY MessagesAreBounded DEF Messages
  <1>2. PICK m \in S : \A n \in S : m <= n
    BY <1>1, LeastExists
  <1>3. PICK i \in ids : i[1] = m
    OBVIOUS
  <1>4. \A j \in ids : i[1] <= j[1]
    BY <1>2, <1>3
  <1> QED BY <1>4 DEF FirstOf

\* Every message known stays known, and a new one was not known before.
Grows ==
    /\ Known' \subseteq Messages /\ Known \subseteq Known' /\ kept \subseteq kept'
    /\ (kept' \ kept) \cap Known = {} /\ delivered' \subseteq posted'
    /\ unseen \subseteq unseen' /\ consumed \subseteq consumed'

LEMMA PostGrows ==
    ASSUME Known \subseteq Messages, NEW a, NEW c, Post(a, c)
    PROVE  /\ Known' \subseteq Messages /\ Known \subseteq Known' /\ kept \subseteq kept'
           /\ (kept' \ kept) \cap Known = {} /\ posted \subseteq posted'
  BY FreshIsNew DEF Post, Known

LEMMA AcknowledgeGrows ==
    ASSUME NEW ids, Acknowledge(ids), posted \subseteq posted', delivered \subseteq posted
    PROVE  consumed' = consumed \cup ids /\ unseen \subseteq unseen' /\ delivered' \subseteq posted'
  BY DEF Acknowledge

LEMMA PendingIsNew ==
    ASSUME TalkTypes, NEW readable, readable \subseteq Present, NEW i \in Pending(readable)
    PROVE  /\ i \in Known \X Sides /\ i \notin consumed
           /\ i[2] = "kept" => i[1] \in kept
           /\ i[2] = "api" /\ i[1] \in kept => <<i[1], "kept">> \in Own(to[i[1]]) \cup consumed
  <1>1. \A a : /\ Inbox(a) \subseteq (delivered \X {"api"}) \ consumed
               /\ Own(a) \subseteq (kept \X {"kept"}) \ consumed
    BY DEF Inbox, Own
  <1>2. \A ids : Schedulable(ids) \subseteq ids
    BY DEF Schedulable
  <1>3. kept \cup delivered \subseteq Known /\ Known \subseteq Messages
    BY DEF TalkTypes, Known
  <1>4. \A a \in readable : Schedulable(Inbox(a)) # {} => FirstOf(Schedulable(Inbox(a))) \in Inbox(a)
    BY <1>1, <1>2, <1>3, FirstIsOne DEF Sides
  <1>5. LET own == Schedulable(UNION {Own(a) : a \in Present})
        IN  own # {} => FirstOf(own) \in UNION {Own(a) : a \in Present}
    <2> DEFINE own == Schedulable(UNION {Own(a) : a \in Present})
    <2>1. own \subseteq UNION {Own(a) : a \in Present}
      BY <1>2
    <2>2. UNION {Own(a) : a \in Present} \subseteq Messages \X Sides
      BY <1>1, <1>3 DEF Sides
    <2>3. own \subseteq Messages \X Sides
      BY <2>1, <2>2
    <2> HIDE DEF own
    <2>4. own # {} => FirstOf(own) \in own
      BY <2>3, FirstIsOne
    <2> QED BY <2>1, <2>4 DEF own
  <1>6. (\E a : i \in Inbox(a)) \/ (\E a : i \in Own(a))
    BY <1>4, <1>5 DEF Pending
  <1>7. CASE \E a : i \in Inbox(a)
    <2>1. i \in delivered \X {"api"} /\ i \notin consumed
      BY <1>1, <1>7
    <2>2. i[1] \in kept => <<i[1], "kept">> \in Own(to[i[1]]) \cup consumed
      BY DEF Own
    <2> QED BY <2>1, <2>2, <1>3 DEF Sides
  <1>8. CASE \E a : i \in Own(a)
    <2>1. i \in kept \X {"kept"} /\ i \notin consumed
      BY <1>1, <1>8
    <2> QED BY <2>1, <1>3 DEF Sides
  <1> QED BY <1>6, <1>7, <1>8

LEMMA TalkInitInv == TalkInit => TalkInv
  <1> SUFFICES ASSUME TalkInit PROVE TalkInv
    OBVIOUS
  <1>1. \A m \in Messages : answered[m] = 0
    BY DEF TalkInit
  <1>2. TalkTypes
    <2>1. answered \in [Messages -> Nat]
      BY DEF TalkInit
    <2> QED BY <2>1, MessagesAreBounded DEF TalkInit, TalkTypes, Known, Messages
  <1>3. TargetIsNew
    BY DEF TalkInit, TargetIsNew
  <1> QED BY <1>1, <1>2, <1>3 DEF TalkInv, AnsweredOnce, TwiceOnlyUnseen

\* What stays true as messages are recorded and consumed.
LEMMA StaysOnce ==
    ASSUME TalkInv, Grows, answered' = answered
    PROVE  AnsweredOnce' /\ TwiceOnlyUnseen' /\ TalkTypes'
  <1>1. AnsweredOnce'
    BY DEF TalkInv, TalkTypes, AnsweredOnce, Grows
  <1>2. TwiceOnlyUnseen' /\ TalkTypes'
    BY DEF TalkInv, TalkTypes, TwiceOnlyUnseen, Grows
  <1> QED BY <1>1, <1>2

LEMMA OutgoingGrows ==
    ASSUME TalkTypes, Outgoing
    PROVE  /\ Known' \subseteq Messages /\ Known \subseteq Known' /\ kept \subseteq kept'
           /\ (kept' \ kept) \cap Known = {} /\ posted \subseteq posted'
  <1>1. RecordNothing \/ (\E a, c : Post(a, c))
    <2>1. CASE Silence
      BY <2>1 DEF Silence
    <2>2. CASE Reply
      BY <2>2 DEF Reply
    <2>3. CASE ToolResult
      BY <2>3 DEF ToolResult
    <2>4. CASE Delegate
      <3>1. (\E able \in SUBSET Present : Select(able)) \/ Hire
        BY <2>4 DEF Delegate
      <3> QED BY <3>1 DEF Select, Hire
    <2> QED BY <2>1, <2>2, <2>3, <2>4 DEF Outgoing
  <1>2. CASE RecordNothing
    BY <1>2 DEF RecordNothing, TalkTypes, Known
  <1>3. CASE \E a, c : Post(a, c)
    BY <1>3, PostGrows DEF TalkTypes
  <1> QED BY <1>1, <1>2, <1>3

LEMMA TurnDoneKept == ASSUME TalkInv, TurnDone PROVE TalkInv'
  <1> USE DEF TalkInv
  <1>1. doing = "turn" /\ doing' = "look" /\ Outgoing /\ Acknowledge(shown)
    BY DEF TurnDone
  <1>2. /\ Known' \subseteq Messages /\ Known \subseteq Known' /\ kept \subseteq kept'
        /\ (kept' \ kept) \cap Known = {} /\ posted \subseteq posted'
    BY <1>1, OutgoingGrows
  <1>3. consumed' = consumed \cup shown /\ unseen \subseteq unseen' /\ delivered' \subseteq posted'
    BY <1>1, <1>2, AcknowledgeGrows DEF TalkTypes
  <1> DEFINE t == target[1]
  <1>4. /\ t \in Messages /\ t \in Known /\ target[2] \in Sides /\ target = <<t, target[2]>>
        /\ target \in shown /\ target \notin consumed
    BY <1>1 DEF TargetIsNew, TalkTypes
  <1>5. answered' = [answered EXCEPT ![t] = answered[t] + 1]
    BY DEF TurnDone
  <1> HIDE DEF t
  <1>6. TalkTypes'
    BY <1>2, <1>3, <1>4, <1>5 DEF TalkTypes
  <1>7. answered[t] > 0 => t \in unseen
    <2> SUFFICES ASSUME answered[t] > 0, t \notin unseen PROVE FALSE
      OBVIOUS
    <2>1. <<t, "api">> \in consumed /\ (t \in kept => <<t, "kept">> \in consumed)
      BY <1>4 DEF AnsweredOnce
    <2>2. target[2] = "kept" => t \in kept
      BY <1>1 DEF TargetIsNew, t
    <2> QED BY <1>4, <2>1, <2>2 DEF Sides
  <1>8. TwiceOnlyUnseen'
    BY <1>3, <1>4, <1>5, <1>7 DEF TwiceOnlyUnseen, TalkTypes
  <1>9. AnsweredOnce'
    <2> SUFFICES ASSUME NEW m \in Messages, answered'[m] > 0
                 PROVE  /\ m \in Known'
                        /\ m \notin unseen' => /\ <<m, "api">> \in consumed'
                                               /\ m \in kept' => <<m, "kept">> \in consumed'
      BY DEF AnsweredOnce
    <2>1. CASE m = t
      <3>1. t \in kept' => t \in kept
        BY <1>2, <1>4
      <3>2. CASE target[2] = "api"
        <4>1. t \in kept => <<t, "kept">> \in shown \cup consumed
          BY <1>1, <3>2 DEF TargetIsNew, t
        <4> QED BY <1>2, <1>3, <1>4, <2>1, <3>1, <3>2, <4>1
      <3>3. CASE target[2] = "kept"
        <4>1. t \in kept
          BY <1>1, <3>3 DEF TargetIsNew, t
        <4>2. <<t, "api">> \notin shown \cup consumed => t \in unseen'
          BY <1>1, <1>4, <3>3, <4>1 DEF Acknowledge
        <4> QED BY <1>2, <1>3, <1>4, <2>1, <3>3, <4>2
      <3> QED BY <1>4, <3>2, <3>3 DEF Sides
    <2>2. CASE m # t
      <3>1. answered[m] > 0
        BY <1>4, <1>5, <2>2 DEF TalkTypes
      <3>2. /\ m \in Known
            /\ m \notin unseen => <<m, "api">> \in consumed /\ (m \in kept => <<m, "kept">> \in consumed)
        BY <3>1 DEF AnsweredOnce
      <3>3. m \in kept' => m \in kept
        BY <1>2, <3>2
      <3>4. \A i : i \in consumed => i \in consumed'
        BY <1>3
      <3>5. m \in Known' /\ (m \notin unseen' => m \notin unseen)
        BY <1>2, <1>3, <3>2
      <3> QED BY <3>2, <3>3, <3>4, <3>5
    <2> QED BY <2>1, <2>2
  <1>10. TargetIsNew'
    BY <1>1 DEF TargetIsNew
  <1> QED BY <1>6, <1>8, <1>9, <1>10

LEMMA TalkStepInv == TalkInv /\ [TalkStep]_talkVars => TalkInv'
  <1> SUFFICES ASSUME TalkInv, [TalkStep]_talkVars PROVE TalkInv'
    OBVIOUS
  <1>1. CASE NextTurn
    <2>1. Grows /\ answered' = answered
      BY <1>1 DEF NextTurn, Grows, Known, TalkInv, TalkTypes
    <2>2. TargetIsNew'
      <3>1. CASE doing' = "quiet"
        BY <3>1 DEF TargetIsNew
      <3>2. CASE doing' # "quiet"
        <4>1. PICK readable \in SUBSET Present : \E i \in Pending(readable) :
                /\ target' = i /\ doing' = "turn" /\ {i} \cup Own(to[i[1]]) \subseteq shown'
          BY <1>1, <3>2 DEF NextTurn
        <4>3. PICK i \in Pending(readable) :
                /\ target' = i /\ doing' = "turn" /\ {i} \cup Own(to[i[1]]) \subseteq shown'
          BY <4>1
        <4>2. kept' = kept /\ Known' = Known /\ consumed' = consumed
          BY <1>1 DEF NextTurn, Known
        <4> QED BY <4>3, <4>2, PendingIsNew DEF TargetIsNew, TalkInv
      <3> QED BY <3>1, <3>2
    <2> QED BY <2>1, <2>2, StaysOnce DEF TalkInv
  <1>2. CASE LimitReached \/ TurnFails
    <2>1. Grows /\ answered' = answered
      BY <1>2 DEF LimitReached, TurnFails, Grows, Known, TalkInv, TalkTypes
    <2>2. TargetIsNew'
      BY <1>2 DEF LimitReached, TurnFails, TargetIsNew
    <2> QED BY <2>1, <2>2, StaysOnce DEF TalkInv
  <1>3. CASE TurnDone
    BY <1>3, TurnDoneKept
  <1>4. CASE NextPhase
    <2>1. /\ Known' \subseteq Messages /\ Known \subseteq Known' /\ kept \subseteq kept'
          /\ (kept' \ kept) \cap Known = {} /\ posted \subseteq posted'
      <3>1. RecordNothing \/ (\E a, c : Post(a, c))
        BY <1>4 DEF NextPhase
      <3>2. CASE RecordNothing
        BY <3>2 DEF RecordNothing, TalkInv, TalkTypes, Known
      <3>3. CASE \E a, c : Post(a, c)
        BY <3>3, PostGrows DEF TalkInv, TalkTypes
      <3> QED BY <3>1, <3>2, <3>3
    <2>2. \E ids : Acknowledge(ids)
      BY <1>4 DEF NextPhase
    <2>3. Grows /\ answered' = answered
      BY <1>4, <2>1, <2>2, AcknowledgeGrows DEF NextPhase, Grows, TalkInv, TalkTypes
    <2>4. TargetIsNew'
      BY <1>4 DEF NextPhase, TargetIsNew
    <2> QED BY <2>3, <2>4, StaysOnce DEF TalkInv
  <1>5. ASSUME NEW a \in Speakers, Ask(a) PROVE TalkInv'
    <2>1. Fresh \in Messages /\ Fresh \notin Known
      BY <1>5, FreshIsNew DEF Ask, TalkInv, TalkTypes
    <2>2. Grows /\ answered' = answered
      BY <1>5, <2>1 DEF Ask, Grows, Known, TalkInv, TalkTypes
    <2>3. TargetIsNew'
      BY <1>5 DEF Ask, TargetIsNew, TalkInv, Known
    <2> QED BY <2>2, <2>3, StaysOnce DEF TalkInv
  <1>6. ASSUME NEW m \in late, Arrives(m) PROVE TalkInv'
    <2>1. Known' = Known
      BY <1>6 DEF Arrives, Known
    <2>2. Grows /\ answered' = answered
      BY <1>6, <2>1 DEF Arrives, Grows, TalkInv, TalkTypes
    <2>3. TargetIsNew'
      BY <1>6, <2>1 DEF Arrives, TargetIsNew, TalkInv
    <2> QED BY <2>2, <2>3, StaysOnce DEF TalkInv
  <1>7. CASE UNCHANGED talkVars
    <2>1. Known' = Known
      BY <1>7 DEF talkVars, Known
    <2> QED BY <1>7, <2>1 DEF talkVars, TalkInv, TalkTypes, AnsweredOnce, TargetIsNew, TwiceOnlyUnseen
  <1> QED BY <1>1, <1>2, <1>3, <1>4, <1>5, <1>6, <1>7 DEF TalkStep

\* A message that the runner keeps and the API lists under another id is
\* answered by one turn, unless its API copy was not seen when its kept one
\* was consumed (run-hermes-sprint.py:1844, 2162), for any number of agents,
\* phases and messages.
THEOREM AnswersAreOnce == TalkSpec => []TwiceOnlyUnseen
  <1>1. TalkInv => TwiceOnlyUnseen
    BY DEF TalkInv
  <1> QED BY <1>1, TalkInitInv, TalkStepInv, PTL DEF TalkSpec

----------------------------------------------------------------------------
(* All of them together, as MCServices runs them.                           *)

LEMMA RowsAreCalls ==
    StoreInv => /\ N \in Nat /\ Cardinality(Done) \in Nat
                /\ N <= Cardinality(Done) /\ Cardinality(Done) <= Cardinality(Callers)
  BY Counts DEF StoreInv, RowsBound

\* The numbers that the stores hand out do not go beyond the calls there are.
LEMMA StoreTyped ==
    StoreInv /\ StoreTypeOK /\ [StoreStep]_storeVars => StoreTypeOK'
  <1> SUFFICES ASSUME StoreInv, StoreTypeOK, [StoreStep]_storeVars PROVE StoreTypeOK'
    OBVIOUS
  <1>1. StoreInv'
    BY StoreStepInv
  <1>2. /\ N \in Nat /\ Cardinality(Callers) \in Nat
        /\ \A c \in Callers : call[c] # "done" => N + 1 <= Cardinality(Callers)
    <2>1. N \in Nat /\ IsFiniteSet(Done) /\ N <= Cardinality(Done) /\ Cardinality(Done) \in Nat
          /\ Cardinality(Callers) \in Nat
      BY Counts DEF StoreInv, RowsBound
    <2>2. ASSUME NEW c \in Callers, call[c] # "done" PROVE N + 1 <= Cardinality(Callers)
      <3>1. c \notin Done /\ Done \cup {c} \subseteq Callers /\ IsFiniteSet(Callers)
        BY <2>2, StoreConstants DEF Done
      <3>2. Cardinality(Done \cup {c}) = Cardinality(Done) + 1
        BY <2>1, <3>1, FS_AddElement
      <3>3. Cardinality(Done \cup {c}) <= Cardinality(Callers)
        BY <3>1, FS_Subset
      <3> QED BY <2>1, <3>2, <3>3
    <2> QED BY <2>1, <2>2
  <1>3. \A r \in rows' : r.seq \in 1..Cardinality(Callers)
    <2>1. (/\ N \in Nat /\ Cardinality(Done) \in Nat
           /\ N <= Cardinality(Done) /\ Cardinality(Done) <= Cardinality(Callers))'
      BY <1>1, RowsAreCalls, PTL
    <2>2. \A r \in rows' : r.seq \in 1..N'
      BY <1>1 DEF StoreInv, DenseSequence, N
    <2> QED BY <1>2, <2>1, <2>2
  <1>4. seq' \in [Callers -> 0..Cardinality(Callers)]
    <2>1. CASE seq' = seq
      BY <2>1 DEF StoreTypeOK
    <2>2. ASSUME NEW c \in Callers, Check(c), seq' # seq
          PROVE  seq' \in [Callers -> 0..Cardinality(Callers)]
      <3>1. seq' = [seq EXCEPT ![c] = N + 1] /\ call[c] = "open"
        BY <2>2, Highest DEF Check, NextSeq
      <3> QED BY <3>1, <1>2 DEF StoreTypeOK
    <2> QED
      BY <2>1, <2>2 DEF StoreStep, MemoryAppend, Begin, Commit, Integrity, Unavailable, Die, storeVars
  <1> QED BY <1>1, <1>3, <1>4 DEF StoreTypeOK, StoreInv, StoreTypes

\* A message is answered by as many turns as have been paid for.
TurnsPaid == \A m \in Messages : answered[m] <= spent /\ (doing = "turn" => answered[m] < spent)
TalkFacts == TalkInv /\ TalkTypeOK /\ TurnsPaid

LEMMA MailType ==
    ASSUME TalkTypeOK, NEW a
    PROVE  Inbox(a) \subseteq Messages \X Sides /\ Own(a) \subseteq Messages \X Sides
  BY DEF TalkTypeOK, Inbox, Own, Sides

LEMMA PostType ==
    ASSUME TalkTypeOK, NEW a \in Actors \cup {Nobody}, NEW c \in DOMAIN PhaseAgents, Post(a, c)
    PROVE  /\ kept' \cup posted' \cup late' \subseteq Messages /\ posted \subseteq posted'
           /\ to' \in [Messages -> Actors \cup {Nobody}]
           /\ about' \in [Messages -> {0} \cup DOMAIN PhaseAgents]
  <1>1. Fresh \in Messages
    BY FreshIsNew DEF Post, TalkTypeOK, Known
  <1> QED BY <1>1 DEF TalkTypeOK, Post, Addressed

LEMMA OutgoingType ==
    ASSUME TalkTypeOK, target[1] \in Messages, Outgoing
    PROVE  /\ kept' \cup posted' \cup late' \subseteq Messages /\ posted \subseteq posted'
           /\ to' \in [Messages -> Actors \cup {Nobody}]
           /\ about' \in [Messages -> {0} \cup DOMAIN PhaseAgents]
           /\ delegations' \in 0..MaxDelegations /\ helpers' \subseteq hired' /\ hired' \subseteq Helpers
  <1>1. Present \subseteq Actors /\ Helpers \subseteq Actors /\ phase \in DOMAIN PhaseAgents
    BY DEF TalkTypeOK, Present, Actors
  <1>2. CASE Silence
    BY <1>2 DEF Silence, RecordNothing, TalkTypeOK
  <1>3. CASE Reply
    BY <1>1, <1>3, PostType DEF Reply, TalkTypeOK
  <1>4. CASE ToolResult
    <2>1. to[target[1]] \in Actors \cup {Nobody}
      BY DEF TalkTypeOK
    <2> QED BY <1>1, <1>4, <2>1, PostType DEF ToolResult, TalkTypeOK
  <1>5. CASE Delegate
    <2>1. delegations' \in 0..MaxDelegations
      BY <1>5, TurnsAreBounded DEF Delegate, TalkTypeOK
    <2>2. ASSUME NEW able \in SUBSET Present, Select(able)
          PROVE  UNCHANGED <<hired, helpers>> /\ \E a \in Actors : Post(a, phase)
      BY <1>1, <2>2 DEF Select
    <2>3. ASSUME Hire
          PROVE  \E h \in Helpers : hired' = hired \cup {h} /\ helpers' = helpers \cup {h} /\ Post(h, phase)
      <3>1. \E x \in Helpers : x \notin hired
        BY <2>3 DEF Hire, MayHire, TalkTypeOK
      <3> QED BY <2>3, <3>1 DEF Hire
    <2>4. CASE \E able \in SUBSET Present : Select(able)
      BY <1>1, <2>1, <2>2, <2>4, PostType DEF TalkTypeOK
    <2>5. CASE Hire
      BY <1>1, <2>1, <2>3, <2>5, PostType DEF TalkTypeOK
    <2> QED BY <1>5, <2>4, <2>5 DEF Delegate
  <1> QED BY <1>2, <1>3, <1>4, <1>5 DEF Outgoing

LEMMA AcknowledgeType ==
    ASSUME TalkTypeOK, NEW ids, ids \subseteq Messages \X Sides, Acknowledge(ids), posted \subseteq posted'
    PROVE  consumed' \subseteq Messages \X Sides /\ delivered' \subseteq posted' /\ unseen' \subseteq Messages
  BY DEF TalkTypeOK, Acknowledge

LEMMA TalkFactsStep == TalkFacts /\ [TalkStep]_talkVars => TalkFacts'
  <1> SUFFICES ASSUME TalkInv, TalkTypeOK, TurnsPaid, [TalkStep]_talkVars
               PROVE  TalkTypeOK' /\ TurnsPaid'
    BY TalkStepInv DEF TalkFacts
  <1>1. CASE NextTurn
    <2>1. PICK readable \in SUBSET Present :
            \/ Pending(readable) = {} /\ doing' = "quiet" /\ UNCHANGED <<target, shown, spent, spentHere>>
            \/ \E i \in Pending(readable), again \in BOOLEAN :
                 /\ target' = i /\ doing' = "turn"
                 /\ shown' = {i} \cup Own(to[i[1]]) \cup (IF again THEN Inbox(to[i[1]]) ELSE {})
                 /\ spent' = spent + 1 /\ spentHere' = spentHere + 1
      BY <1>1 DEF NextTurn
    <2>2. CASE doing' = "quiet" /\ UNCHANGED <<target, shown, spent, spentHere>>
      BY <1>1, <2>2 DEF NextTurn, TalkTypeOK, TurnsPaid
    <2>3. ASSUME NEW i \in Pending(readable), NEW again \in BOOLEAN, target' = i, doing' = "turn",
                 shown' = {i} \cup Own(to[i[1]]) \cup (IF again THEN Inbox(to[i[1]]) ELSE {}),
                 spent' = spent + 1 /\ spentHere' = spentHere + 1
          PROVE  TalkTypeOK' /\ TurnsPaid'
      <3>1. i \in Messages \X Sides
        BY PendingIsNew DEF TalkInv, TalkTypes
      <3>2. shown' \subseteq Messages \X Sides
        BY <2>3, <3>1, MailType
      <3>3. spent' \in 0..MaxTurns /\ spentHere' \in 0..MaxPhaseTurns
        BY <1>1, <2>3, TurnsAreBounded DEF NextTurn, MayTurn, TalkTypeOK
      <3>4. TurnsPaid'
        BY <1>1, <2>3, TurnsAreBounded DEF NextTurn, TurnsPaid, TalkTypeOK
      <3> QED BY <1>1, <2>3, <3>1, <3>2, <3>3, <3>4 DEF NextTurn, TalkTypeOK
    <2> QED BY <2>1, <2>2, <2>3
  <1>2. CASE LimitReached
    BY <1>2 DEF LimitReached, TalkTypeOK, TurnsPaid
  <1>3. CASE TurnFails
    BY <1>3 DEF TurnFails, TalkTypeOK, TurnsPaid
  <1>4. CASE TurnDone
    <2>1. target \in Messages \X Sides /\ doing = "turn" /\ shown \subseteq Messages \X Sides
      BY <1>4 DEF TurnDone, TalkInv, TargetIsNew, TalkTypes, TalkTypeOK
    <2>2. target[1] \in Messages
      BY <2>1
    <2>3. Outgoing /\ Acknowledge(shown)
      BY <1>4 DEF TurnDone
    <2>4. answered' \in [Messages -> 0..MaxTurns] /\ \A m \in Messages : answered'[m] <= spent
      BY <1>4, <2>1, <2>2, TurnsAreBounded DEF TurnDone, TalkTypeOK, TurnsPaid
    <2>5. TurnsPaid'
      BY <1>4, <2>4 DEF TurnDone, TurnsPaid
    <2> QED BY <1>4, <2>1, <2>2, <2>3, <2>4, <2>5, OutgoingType, AcknowledgeType DEF TurnDone, TalkTypeOK
  <1>5. CASE NextPhase
    <2>1. /\ kept' \cup posted' \cup late' \subseteq Messages /\ posted \subseteq posted'
          /\ to' \in [Messages -> Actors \cup {Nobody}]
          /\ about' \in [Messages -> {0} \cup DOMAIN PhaseAgents]
          /\ plain' \subseteq Messages
      <3>1. CASE phase + 2 \in DOMAIN PhaseAgents
        <4>1. PhaseAgents[phase + 2] \in Actors /\ phase + 1 \in DOMAIN PhaseAgents
              /\ Post(PhaseAgents[phase + 2], phase + 1) /\ plain' = plain \cup {Fresh}
          BY <1>5, <3>1, PhasesFollow DEF NextPhase, Actors
        <4>2. Fresh \in Messages
          BY <4>1, FreshIsNew DEF Post, TalkTypeOK, Known
        <4> QED BY <4>1, <4>2, PostType DEF TalkTypeOK
      <3>2. CASE phase + 2 \notin DOMAIN PhaseAgents
        BY <1>5, <3>2 DEF NextPhase, RecordNothing, TalkTypeOK
      <3> QED BY <3>1, <3>2
    <2>2. PICK ids : ids \subseteq Messages \X Sides /\ Acknowledge(ids)
      BY <1>5, MailType DEF NextPhase
    <2>3. consumed' \subseteq Messages \X Sides /\ delivered' \subseteq posted' /\ unseen' \subseteq Messages
      BY <2>1, <2>2, AcknowledgeType
    <2> QED BY <1>5, <2>1, <2>3, TurnsAreBounded DEF NextPhase, TalkTypeOK, TurnsPaid
  <1>6. ASSUME NEW a \in Speakers, Ask(a) PROVE TalkTypeOK' /\ TurnsPaid'
    <2>1. Fresh \in Messages /\ a \in Actors
      BY <1>6, FreshIsNew DEF Ask, TalkTypeOK, Known, Actors
    <2> QED BY <1>6, <2>1 DEF Ask, Addressed, TalkTypeOK, TurnsPaid
  <1>7. ASSUME NEW m \in late, Arrives(m) PROVE TalkTypeOK' /\ TurnsPaid'
    BY <1>7 DEF Arrives, TalkTypeOK, TurnsPaid
  <1>8. CASE UNCHANGED talkVars
    BY <1>8 DEF talkVars, TalkTypeOK, TurnsPaid
  <1> QED BY <1>1, <1>2, <1>3, <1>4, <1>5, <1>6, <1>7, <1>8 DEF TalkStep

\* The invariant of the service whose turn it is.
PartInv ==
    /\ part \in Parts
    /\ part = "store" => StoreInv /\ StoreTypeOK
    /\ part = "job" => JobInv
    /\ part \in {"task", "git"} => TaskInv
    /\ part = "rig" => RigInv
    /\ part = "record" => RecordInv
    /\ part = "sprint" => SprintInv
    /\ part = "talk" => TalkFacts

\* Whichever service runs, for any constants, its variables keep their types:
\* among them the numbers of the stores, which stay within the calls there
\* are, and the turns a message has cost, within the job's (the runner counts
\* them before it knows how they end, run-hermes-sprint.py).
THEOREM ServicesTypes == Spec => []ServicesTypeOK
  <1>1. Init => PartInv
    <2> SUFFICES ASSUME Init PROVE PartInv
      OBVIOUS
    <2>1. StoreInv /\ JobInv /\ TaskInv /\ RigInv /\ RecordInv /\ SprintInv /\ TalkInv
      BY StoreInitInv, JobInitInv, TaskInitInv, RigInitInv, RecordInitInv, SprintInitInv, TalkInitInv DEF Init
    <2>2. StoreTypeOK
      BY <2>1, Counts DEF Init, StoreInit, StoreTypeOK, StoreInv, StoreTypes
    <2>3. TalkTypeOK /\ TurnsPaid
      BY MessagesAreBounded, TurnsAreBounded, PhasesFollow
         DEF Init, TalkInit, TalkTypeOK, TurnsPaid, Messages, Actors, Sides, NoId
    <2> QED BY <2>1, <2>2, <2>3 DEF Init, PartInv, TalkFacts
  <1>2. PartInv /\ [Next]_allVars => PartInv'
    <2> SUFFICES ASSUME PartInv, [Next]_allVars PROVE PartInv'
      OBVIOUS
    <2>1. part' = part
      BY DEF Next, allVars
    <2>2. CASE part = "store"
      <3>1. [StoreStep]_storeVars
        BY <2>2 DEF Next, allVars
      <3> QED BY <2>1, <2>2, <3>1, StoreStepInv, StoreTyped DEF PartInv
    <2>3. CASE part = "job"
      <3>1. [JobStep]_jobVars
        BY <2>3 DEF Next, allVars
      <3> QED BY <2>1, <2>3, <3>1, JobNextInv DEF PartInv
    <2>4. CASE part \in {"task", "git"}
      <3>1. [TaskStep]_taskVars
        BY <2>4 DEF Next, allVars
      <3> QED BY <2>1, <2>4, <3>1, TaskStepInv DEF PartInv
    <2>5. CASE part = "rig"
      <3>1. [RigStep]_rigVars
        BY <2>5 DEF Next, allVars
      <3> QED BY <2>1, <2>5, <3>1, RigStepInv DEF PartInv
    <2>6. CASE part = "record"
      <3>1. [RecordStep]_recordVars
        BY <2>6 DEF Next, allVars
      <3> QED BY <2>1, <2>6, <3>1, RecordStepInv DEF PartInv
    <2>7. CASE part = "sprint"
      <3>1. [SprintStep]_sprintVars
        BY <2>7 DEF Next, allVars
      <3> QED BY <2>1, <2>7, <3>1, SprintStepInv DEF PartInv
    <2>8. CASE part = "talk"
      <3>1. [TalkStep]_talkVars
        BY <2>8 DEF Next, allVars
      <3> QED BY <2>1, <2>8, <3>1, TalkFactsStep DEF PartInv
    <2> QED BY <2>2, <2>3, <2>4, <2>5, <2>6, <2>7, <2>8 DEF PartInv, Parts
  <1>3. PartInv => ServicesTypeOK
    BY DEF PartInv, ServicesTypeOK, JobInv, TaskInv, RigInv, RecordInv, SprintInv, TalkFacts
  <1> QED BY <1>1, <1>2, <1>3, PTL DEF Spec
================================================================================
