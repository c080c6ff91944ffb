------------------------------- MODULE JobLog -------------------------------
(* What a RuntimeEventStore promises the callers of append                  *)
(* (src/runtime/storage/event_store.py): one job's events form a sequence   *)
(* that only grows, an event id enters it once, and a caller told that its  *)
(* event is stored finds it there.  EventStore shows that the stores of the *)
(* program keep this promise.                                               *)
EXTENDS Integers, Sequences

CONSTANTS Callers,   \* calls of append, each made once
          Id,        \* the event id of each call
          Body,      \* the rest of its event
          Explicit   \* the sequence it asks for, 0 to have one allocated

VARIABLES log,       \* the events, at their sequence numbers
          answer     \* what each caller has been told

Holds(id) == \E i \in DOMAIN log : log[i].id = id

JobLogInit == /\ log = <<>>
              /\ answer = [c \in Callers |-> "none"]

Tell(c, a) == /\ answer[c] = "none"
              /\ answer' = [answer EXCEPT ![c] = a]

\* The event takes the next number.  Its caller may not hear of it: the store
\* can be lost between the commit and the reply.
Store(c) ==
    /\ ~Holds(Id[c])
    /\ Explicit[c] \in {0, Len(log) + 1}
    /\ log' = Append(log, [id |-> Id[c], body |-> Body[c]])
    /\ \E a \in {"stored", "unavailable"} : Tell(c, a)

\* The same event again: nothing is added.
Repeat(c) ==
    /\ \E i \in DOMAIN log : log[i] = [id |-> Id[c], body |-> Body[c]]
    /\ Tell(c, "stored")
    /\ UNCHANGED log

Refuse(c) ==
    /\ \/ Tell(c, "unavailable")
       \/ Holds(Id[c]) /\ Tell(c, "idempotency_conflict")
       \/ Explicit[c] \notin {0, Len(log) + 1} /\ Tell(c, "sequence_conflict")
    /\ UNCHANGED log

\* Some callers die and are told nothing more.
Lose == /\ \E S \in SUBSET {c \in Callers : answer[c] = "none"} :
             answer' = [c \in Callers |-> IF c \in S THEN "lost" ELSE answer[c]]
        /\ UNCHANGED log

JobLogNext == Lose \/ \E c \in Callers : Store(c) \/ Repeat(c) \/ Refuse(c)

JobLogSpec == JobLogInit /\ [][JobLogNext]_<<log, answer>>
=============================================================================
