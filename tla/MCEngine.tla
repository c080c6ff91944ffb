------------------------------- MODULE MCEngine -------------------------------
(***************************************************************************)
(* Instances of ReactiveEngine for TLC: small plans, two actors, and what  *)
(* attempts of their tasks may end with.                                   *)
(***************************************************************************)
EXTENDS ReactiveEngine, TLC

CONSTANTS t1, t2, c1, f1, f2, f3, d1, d2,  \* c, d: checks; f, d: added while it runs
          a1, a2

\* Plans
Single == t1 :> {}
Chain  == t1 :> {} @@ t2 :> {t1}
Fork   == t1 :> {} @@ t2 :> {}
\* A builder, and a check of it.
BuildCheck == t1 :> {} @@ c1 :> {t1}
\* A builder beside an independent check.
Beside     == t1 :> {} @@ c1 :> {}

\* Who can do what, and who is avoided
AllCan   == [t \in Task |-> Actor]
\* One task has a single capable actor, one follow-up task has none.
Scarce   == [t \in Task |-> CASE t = t1 -> {a1} [] t = f2 -> {} [] OTHER -> Actor]
NoAvoids == [t \in Task |-> {}]

\* Outcomes of attempts
Plain     == [t \in Task |-> {"ok", "fail"}]
Providers == [t \in Task |-> IF t = t1 THEN {"ok", "fail", "provider"}
                                       ELSE {"ok", "provider", "fatal"}]
\* Follow-ups and provider outages, in different tasks.
Discover  == [t \in Task |-> CASE t = t1 -> {"ok", "discover", "provider"}
                              [] t = t2 -> {"ok", "redo"}
                              [] OTHER  -> {"ok"}]
\* Checks may answer anything, and what they had repaired is repaired.
Checked   == [t \in Task |-> IF t \in Verifier THEN {"ok", "verdict", "unproven", "fail"}
                             ELSE IF t \in DOMAIN InitialDeps THEN {"ok", "fail"}
                             ELSE {"ok"}]

\* Tasks added while the job runs are interchangeable until they are.
AddedTasks == Permutations({f1, f2}) \cup Permutations({d1, d2})
=============================================================================
