------------------------- MODULE CapacityGate_proofs -------------------------
(***************************************************************************)
(* CapacityGate: the gate's variables keep their types, among them the     *)
(* counters of the breaker within their thresholds, and a half-open        *)
(* breaker lets no more attempts through than it takes successes to close  *)
(* it, for any number of jobs, providers, tasks and failures, whichever    *)
(* jobs share a provider, and for any thresholds.                          *)
(***************************************************************************)
EXTENDS CapacityGate, FiniteSetTheorems, TLAPS

\* Between two calls a breaker's row of failures, and of successes, is short
\* of the threshold that would have changed its state.
BreakerOK(b) ==
    /\ b \in Breaker
    /\ b.state = "closed" => b.failures < FailureThreshold
    /\ b.state = "half" => b.successes < ProbeLimit

\* The transitions, one field after the other.
LEMMA Transitions ==
    ASSUME NEW b \in Breaker
    PROVE  /\ HalfOpen(b) \in Breaker /\ HalfOpen(b).state = "half"
           /\ HalfOpen(b).successes = 0 /\ HalfOpen(b).probes = 0
           /\ Open(b) \in Breaker /\ Open(b).state = "open"
  <1> DEFINE h1 == [b EXCEPT !.state = "half"]
             h2 == [h1 EXCEPT !.successes = 0]
             h3 == [h2 EXCEPT !.probes = 0]
             o1 == [b EXCEPT !.state = "open"]
             o2 == [o1 EXCEPT !.successes = 0]
             o3 == [o2 EXCEPT !.cooled = FALSE]
  <1>1. HalfOpen(b) = h3 /\ Open(b) = o3
    BY DEF HalfOpen, Open
  <1>2. h1 \in Breaker /\ h1.state = "half" /\ o1 \in Breaker /\ o1.state = "open"
    BY DEF Breaker
  <1> HIDE DEF h1, o1
  <1>3. h2 \in Breaker /\ h2.state = "half" /\ h2.successes = 0
    BY <1>2, BreakerAssumption DEF Breaker
  <1>4. o2 \in Breaker /\ o2.state = "open"
    BY <1>2, BreakerAssumption DEF Breaker
  <1> HIDE DEF h2, o2
  <1>5. h3 \in Breaker /\ h3.state = "half" /\ h3.successes = 0 /\ h3.probes = 0
    BY <1>3, BreakerAssumption DEF Breaker
  <1>6. o3 \in Breaker /\ o3.state = "open"
    BY <1>4 DEF Breaker
  <1> HIDE DEF h3, o3
  <1> QED BY <1>1, <1>5, <1>6

LEMMA CurrentOK ==
    ASSUME NEW b, BreakerOK(b)
    PROVE  /\ BreakerOK(Current(b))
           /\ b.state # "open" => Current(b) = b
           /\ b.state = "open" /\ Current(b).state = "half" => Current(b).probes = 0
           /\ b.state = "open" => Current(b).state \in {"open", "half"}
  <1>1. CASE b.state = "open" /\ b.cooled
    <2>1. Current(b) = HalfOpen(b)
      BY <1>1 DEF Current
    <2> QED BY <1>1, <2>1, Transitions, BreakerAssumption DEF BreakerOK
  <1>2. CASE ~(b.state = "open" /\ b.cooled)
    <2>1. Current(b) = b
      BY <1>2 DEF Current
    <2> QED BY <2>1 DEF BreakerOK, Breaker
  <1> QED BY <1>1, <1>2

\* What allow_request does to the count of probes.
LEMMA RequestOK ==
    ASSUME NEW b, BreakerOK(b)
    PROVE  /\ BreakerOK(AfterRequest(b))
           /\ b.state = "half" => /\ AfterRequest(b).state = "half"
                                  /\ AfterRequest(b).probes >= b.probes
           /\ Allows(b) /\ AfterRequest(b).state = "half" =>
                AfterRequest(b).probes = IF b.state = "half" THEN b.probes + 1 ELSE 1
           /\ b.state = "closed" => AfterRequest(b) = b
  <1> DEFINE c == Current(b)
  <1>1. /\ BreakerOK(c)
        /\ b.state # "open" => c = b
        /\ b.state = "open" /\ c.state = "half" => c.probes = 0
        /\ b.state = "open" => c.state \in {"open", "half"}
    BY CurrentOK
  <1>2. /\ AfterRequest(b) = IF c.state = "half" /\ Allows(b)
                             THEN [c EXCEPT !.probes = c.probes + 1] ELSE c
        /\ Allows(b) <=> c.state = "closed" \/ (c.state = "half" /\ c.probes < ProbeLimit)
    BY DEF AfterRequest, Allows
  <1> HIDE DEF c
  <1>3. b \in Breaker
    BY DEF BreakerOK
  <1>4. CASE c.state = "half" /\ Allows(b)
    <2>1. AfterRequest(b) = [c EXCEPT !.probes = c.probes + 1] /\ c.probes < ProbeLimit
      BY <1>2, <1>4
    <2>2. BreakerOK(AfterRequest(b)) /\ AfterRequest(b).state = "half"
          /\ AfterRequest(b).probes = c.probes + 1
      BY <1>1, <1>4, <2>1, BreakerAssumption DEF BreakerOK, Breaker
    <2> QED BY <1>1, <1>3, <1>4, <2>2 DEF Breaker
  <1>5. CASE ~(c.state = "half" /\ Allows(b))
    <2>1. AfterRequest(b) = c
      BY <1>2, <1>5
    <2> QED BY <1>1, <1>3, <1>5, <2>1 DEF Breaker
  <1> QED BY <1>4, <1>5

\* A success or a failure never half-opens a breaker that was not, nor does a
\* half-open one that stays so lose count of its probes.
LEMMA OutcomeOK ==
    ASSUME NEW b, BreakerOK(b), NEW d, d = AfterSuccess(b) \/ d = AfterFailure(b)
    PROVE  BreakerOK(d) /\ (b.state = "half" /\ d.state = "half" => d.probes = b.probes)
  <1> DEFINE c == Current(b)
  <1>1. BreakerOK(c) /\ (b.state # "open" => c = b)
    BY CurrentOK
  <1>2. c \in Breaker /\ ProbeLimit \in Nat \ {0} /\ FailureThreshold \in Nat \ {0}
    BY <1>1, BreakerAssumption DEF BreakerOK
  <1>3. \/ d = c /\ c.state = "open"
        \/ d = Closed
        \/ d = Open(c)
        \/ d = Open([c EXCEPT !.failures = c.failures + 1]) /\ c.failures < FailureThreshold
        \/ /\ d = [c EXCEPT !.successes = c.successes + 1]
           /\ c.state = "half" /\ c.successes + 1 < ProbeLimit
        \/ d = [c EXCEPT !.failures = 0] /\ c.state = "closed"
        \/ /\ d = [c EXCEPT !.failures = c.failures + 1]
           /\ c.state = "closed" /\ c.failures + 1 < FailureThreshold
    <2>1. c.state \in {"closed", "open", "half"} /\ c.successes \in Nat /\ c.failures \in Nat
      BY <1>2 DEF Breaker
    <2>2. c.state = "closed" => c.failures < FailureThreshold
      BY <1>1 DEF BreakerOK
    <2>3. CASE d = AfterSuccess(b)
      <3> HIDE DEF c
      <3> QED BY <1>2, <2>1, <2>3 DEF AfterSuccess, c
    <2>4. CASE d = AfterFailure(b)
      <3> HIDE DEF c
      <3> QED BY <1>2, <2>1, <2>2, <2>4 DEF AfterFailure, c
    <2> QED BY <2>3, <2>4
  <1> HIDE DEF c
  <1> SUFFICES BreakerOK(d) /\ (c.state = "half" /\ d.state = "half" => d.probes = c.probes)
    BY <1>1
  <1>4. CASE d = c
    BY <1>1, <1>4
  <1>5. CASE d = Closed
    BY <1>2, <1>5 DEF Closed, BreakerOK, Breaker
  <1>6. CASE d = Open(c)
    <2>1. d \in Breaker /\ d.state = "open"
      BY <1>2, <1>6, Transitions
    <2> QED BY <2>1 DEF BreakerOK
  <1>7. CASE d = Open([c EXCEPT !.failures = c.failures + 1]) /\ c.failures < FailureThreshold
    <2>1. [c EXCEPT !.failures = c.failures + 1] \in Breaker
      BY <1>2, <1>7 DEF Breaker
    <2>2. d \in Breaker /\ d.state = "open"
      BY <1>7, <2>1, Transitions
    <2> QED BY <2>2 DEF BreakerOK
  <1>8. CASE /\ d = [c EXCEPT !.successes = c.successes + 1]
             /\ c.state = "half" /\ c.successes + 1 < ProbeLimit
    <2>1. d \in Breaker
      BY <1>2, <1>8 DEF Breaker
    <2>2. d.state = "half" /\ d.successes < ProbeLimit /\ d.probes = c.probes
      BY <1>2, <1>8 DEF Breaker
    <2> QED BY <2>1, <2>2 DEF BreakerOK
  <1>9. CASE /\ c.state = "closed"
             /\ \/ d = [c EXCEPT !.failures = 0]
                \/ d = [c EXCEPT !.failures = c.failures + 1] /\ c.failures + 1 < FailureThreshold
    <2>1. d \in Breaker
      BY <1>2, <1>9 DEF Breaker
    <2>2. d.state = "closed" /\ d.failures < FailureThreshold
      BY <1>2, <1>9 DEF Breaker
    <2> QED BY <2>1, <2>2 DEF BreakerOK
  <1> QED BY <1>3, <1>4, <1>5, <1>6, <1>7, <1>8, <1>9

-----------------------------------------------------------------------------
\* A breaker b asked any number of times, which became d: probes were taken
\* and none given back.
Takes(b, d) ==
    /\ BreakerOK(d)
    /\ b.state = "half" => d.state = "half" /\ d.probes >= b.probes

\* A breaker that stays half-open from b to d has not lost count of its probes.
Counts(b, d) ==
    /\ BreakerOK(d)
    /\ b.state = "half" /\ d.state = "half" => d.probes >= b.probes

\* Every job of t, let through since b half-opened, took one of its probes.
Counted(b, t) == IsFiniteSet(t) /\ (b.state = "half" => Cardinality(t) <= b.probes)

\* The jobs let through after the step from b to d, which starts those of s.
NextTrials(b, d, t, s) ==
    (IF d.state = "half" /\ b.state # "half" THEN {} ELSE t)
    \cup (IF d.state = "half" THEN s ELSE {})

LEMMA RequestTakes ==
    ASSUME NEW b, NEW d, BreakerOK(b), Takes(b, d)
    PROVE  Takes(b, AfterRequest(d))
  <1>1. /\ BreakerOK(AfterRequest(d)) /\ BreakerOK(d)
        /\ d.state = "half" => AfterRequest(d).state = "half" /\ AfterRequest(d).probes >= d.probes
    BY RequestOK DEF Takes
  <1>2. d.probes \in Nat /\ b.probes \in Nat /\ AfterRequest(d).probes \in Nat
    BY <1>1, BreakerAssumption DEF BreakerOK, Breaker
  <1> QED BY <1>1, <1>2 DEF Takes

LEMMA TrialsKept ==
    ASSUME NEW b, NEW d, NEW t, BreakerOK(b), Counts(b, d), Counted(b, t)
    PROVE  Counted(d, NextTrials(b, d, t, {}))
  <1>1. d.probes \in Nat /\ b.probes \in Nat
    BY BreakerAssumption DEF Counts, BreakerOK, Breaker
  <1>2. CASE d.state = "half" /\ b.state # "half"
    <2>1. NextTrials(b, d, t, {}) = {}
      BY <1>2 DEF NextTrials
    <2> QED BY <1>1, <2>1, FS_EmptySet DEF Counted
  <1>3. CASE ~(d.state = "half" /\ b.state # "half")
    <2>1. NextTrials(b, d, t, {}) = t
      BY <1>3 DEF NextTrials
    <2>2. IsFiniteSet(t) /\ Cardinality(t) \in Nat
      BY FS_CardinalityType DEF Counted
    <2>3. d.state = "half" => Cardinality(t) <= d.probes
      BY <1>1, <1>3, <2>2 DEF Counts, Counted
    <2> QED BY <2>1, <2>2, <2>3 DEF Counted
  <1> QED BY <1>2, <1>3

\* A job let through on trial is a probe more, and at most a job more.
LEMMA TrialCounted ==
    ASSUME NEW b, NEW d, NEW t, NEW j, BreakerOK(b), BreakerOK(d), Counted(b, t),
           d.state = "half" => d.probes = IF b.state = "half" THEN b.probes + 1 ELSE 1
    PROVE  Counted(d, NextTrials(b, d, t, {j}))
  <1> DEFINE u == IF d.state = "half" /\ b.state # "half" THEN {} ELSE t
             n == NextTrials(b, d, t, {j})
  <1>1. IsFiniteSet(u) /\ Cardinality(u) \in Nat
    BY FS_EmptySet, FS_CardinalityType DEF Counted
  <1>2. d.probes \in Nat /\ b.probes \in Nat
    BY BreakerAssumption DEF BreakerOK, Breaker
  <1>3. CASE d.state = "half"
    <2>1. n = u \cup {j}
      BY <1>3 DEF NextTrials
    <2>2. Cardinality(u) + 1 <= d.probes
      <3>1. CASE b.state = "half"
        <4>1. u = t /\ Cardinality(t) <= b.probes
          BY <3>1 DEF Counted
        <4> HIDE DEF u
        <4> QED BY <1>1, <1>2, <1>3, <3>1, <4>1
      <3>2. CASE b.state # "half"
        <4>1. u = {} /\ Cardinality({}) = 0
          BY <1>3, <3>2, FS_EmptySet
        <4> HIDE DEF u
        <4> QED BY <1>3, <3>2, <4>1
      <3> QED BY <3>1, <3>2
    <2>3. /\ IsFiniteSet(u \cup {j})
          /\ Cardinality(u \cup {j}) = IF j \in u THEN Cardinality(u) ELSE Cardinality(u) + 1
      BY <1>1, FS_AddElement
    <2> HIDE DEF u, n
    <2>4. IsFiniteSet(n) /\ Cardinality(n) <= d.probes
      BY <1>1, <1>2, <2>1, <2>2, <2>3
    <2> QED BY <2>4 DEF Counted, n
  <1>4. CASE d.state # "half"
    <2>1. n = u
      BY <1>4 DEF NextTrials
    <2> QED BY <1>1, <1>4, <2>1 DEF Counted
  <1> QED BY <1>3, <1>4

-----------------------------------------------------------------------------
\* A job that is not done has a task left.
JobsLeft == \A j \in Job : job[j] # "done" => left[j] > 0

BreakersOK == \A p \in Provider : BreakerOK(breaker[p])

TrialsCounted == \A p \in Provider : Counted(breaker[p], trials[p])

GateInv == TypeOK /\ BreakersOK /\ JobsLeft /\ TrialsCounted

LEMMA GateInitInv == Init => GateInv
  <1> SUFFICES ASSUME Init PROVE GateInv
    OBVIOUS
  <1>1. BreakerOK(Closed) /\ Closed.state = "closed"
    BY BreakerAssumption DEF Closed, BreakerOK, Breaker
  <1>2. Closed \in Breaker
    BY <1>1 DEF BreakerOK
  <1>3. \A p \in Provider : breaker[p] = Closed /\ trials[p] = {}
    BY DEF Init
  <1>4. BreakersOK
    BY <1>1, <1>3 DEF BreakersOK
  <1>5. TrialsCounted
    BY <1>1, <1>3, FS_EmptySet DEF TrialsCounted, Counted
  <1>6. TypeOK /\ JobsLeft
    BY <1>2, GateAssumption DEF Init, TypeOK, JobsLeft
  <1> QED BY <1>4, <1>5, <1>6 DEF GateInv

\* Asking the actor of p, once or more, takes probes and gives none back.
LEMMA AskedOK ==
    ASSUME NEW p, BreakerOK(breaker[p])
    PROVE  /\ Counts(breaker[p], Asked(p)) /\ Counts(breaker[p], AfterRequest(AfterRequest(Asked(p))))
           /\ Granted(p) /\ Asked(p).state = "half" =>
                Asked(p).probes = IF breaker[p].state = "half" THEN breaker[p].probes + 1 ELSE 1
  <1> DEFINE b == breaker[p]
  <1>1. Takes(b, b)
    BY BreakerAssumption DEF BreakerOK, Breaker, Takes
  <1>2. Takes(b, AskedOnce(p)) /\ Takes(b, AskedTwice(p))
    BY <1>1, RequestTakes DEF AskedOnce, AskedTwice
  <1>3. Takes(b, Asked(p))
    BY <1>2 DEF Asked
  <1>4. Takes(b, AfterRequest(Asked(p)))
    BY <1>3, RequestTakes
  <1>5. Takes(b, AfterRequest(AfterRequest(Asked(p))))
    BY <1>4, RequestTakes
  <1>6. \A d : Takes(b, d) => Counts(b, d)
    BY DEF Takes, Counts
  <1>7. Granted(p) => Asked(p) = AfterRequest(b) /\ Allows(b)
    BY DEF Granted, Asked, AskedOnce
  <1> QED BY <1>3, <1>5, <1>6, <1>7, RequestOK

\* A step of an engine changes the breaker of the provider its job needs, and
\* keeps its probes ahead of the jobs they let through.
LEMMA BreakerKept ==
    ASSUME GateInv, NEW j \in Job, Step(j)
    PROVE  \E d, t : /\ breaker' = [breaker EXCEPT ![need[j]] = d] /\ BreakerOK(d)
                     /\ trials' = [trials EXCEPT ![need[j]] = t] /\ Counted(d, t)
  <1> DEFINE p == need[j]
             b == breaker[p]
  <1>1. p \in Provider
    BY DEF GateInv, TypeOK
  <1>2. /\ BreakerOK(b) /\ Counted(b, trials[p])
        /\ breaker = [breaker EXCEPT ![p] = b] /\ DOMAIN breaker = Provider
    BY <1>1 DEF GateInv, TypeOK, BreakersOK, TrialsCounted
  <1>3. ASSUME NEW d, NEW s, breaker' = [breaker EXCEPT ![p] = d], Trials(p, s)
        PROVE  trials' = [trials EXCEPT ![p] = NextTrials(b, d, trials[p], s)]
    <2>1. breaker'[p] = d
      BY <1>1, <1>2, <1>3
    <2> HIDE DEF p
    <2> QED BY <1>3, <2>1 DEF Trials, Entered, NextTrials
  <1>4. ASSUME NEW d, breaker' = [breaker EXCEPT ![p] = d], Trials(p, {}), Counts(b, d)
        PROVE  /\ BreakerOK(d)
               /\ \E t : trials' = [trials EXCEPT ![p] = t] /\ Counted(d, t)
    <2>1. trials' = [trials EXCEPT ![p] = NextTrials(b, d, trials[p], {})]
      BY <1>3, <1>4
    <2>2. Counted(d, NextTrials(b, d, trials[p], {}))
      BY <1>2, <1>4, TrialsKept
    <2> QED BY <1>4, <2>1, <2>2 DEF Counts
  <1>5. CASE Dispatch(j)
    <2>1. breaker' = [breaker EXCEPT ![p] = Asked(p)] /\ Granted(p) /\ Trials(p, {j})
      BY <1>5 DEF Dispatch, Match
    <2>2. /\ BreakerOK(Asked(p))
          /\ Asked(p).state = "half" =>
               Asked(p).probes = IF b.state = "half" THEN b.probes + 1 ELSE 1
      BY <1>2, <2>1, AskedOK DEF Counts
    <2>3. Counted(Asked(p), NextTrials(b, Asked(p), trials[p], {j}))
      BY <1>2, <2>2, TrialCounted
    <2>4. trials' = [trials EXCEPT ![p] = NextTrials(b, Asked(p), trials[p], {j})]
      BY <1>3, <2>1
    <2> QED BY <2>1, <2>2, <2>3, <2>4
  <1>6. CASE Poll(j)
    <2>1. breaker' = [breaker EXCEPT ![p] = Asked(p)] /\ Trials(p, {})
      BY <1>6 DEF Poll, Match, Wait
    <2>2. Counts(b, Asked(p))
      BY <1>2, AskedOK
    <2> QED BY <1>4, <2>1, <2>2
  <1>7. CASE Defer(j)
    <2>1. /\ breaker' = [breaker EXCEPT ![p] = AfterRequest(AfterRequest(Asked(p)))]
          /\ Trials(p, {})
      BY <1>7 DEF Defer
    <2>2. Counts(b, AfterRequest(AfterRequest(Asked(p))))
      BY <1>2, AskedOK
    <2> QED BY <1>4, <2>1, <2>2
  <1>8. CASE Succeed(j) \/ Fail(j)
    <2>1. PICK d : /\ d = AfterSuccess(b) \/ d = AfterFailure(b)
                   /\ breaker' = [breaker EXCEPT ![p] = d] /\ Trials(p, {})
      <3>1. CASE Succeed(j)
        BY <3>1 DEF Succeed
      <3>2. CASE Fail(j)
        BY <3>2 DEF Fail
      <3> QED BY <1>8, <3>1, <3>2
    <2>2. BreakerOK(d) /\ (b.state = "half" /\ d.state = "half" => d.probes = b.probes)
      BY <1>2, <2>1, OutcomeOK
    <2>3. b.probes \in Nat
      BY <1>2, BreakerAssumption DEF BreakerOK, Breaker
    <2>4. Counts(b, d)
      BY <2>2, <2>3 DEF Counts
    <2> QED BY <1>4, <2>1, <2>4
  <1> QED BY <1>5, <1>6, <1>7, <1>8 DEF Step

\* What a look at a provider leaves of its status and of its entry.
LEMMA RegistryKept ==
    ASSUME TypeOK, NEW p \in Provider, NEW looked \in BOOLEAN
    PROVE  /\ StatusRead(p) \in {"available", "throttled", "unavailable"}
           /\ ResetRead(p) \in {"none", "pending", "due"}
           /\ StatusAfter(p, looked) \in [Provider -> {"available", "throttled", "unavailable"}]
           /\ ResetAfter(p, looked) \in [Provider -> {"none", "pending", "due"}]
  <1>1. /\ StatusRead(p) \in {"available", "throttled", "unavailable"}
        /\ ResetRead(p) \in {"none", "pending", "due"}
    BY DEF TypeOK, StatusRead, ResetRead
  <1> QED BY <1>1 DEF TypeOK, StatusAfter, ResetAfter

\* A step of an engine keeps the types of the registries.
LEMMA StatusKept ==
    ASSUME GateInv, NEW j \in Job, Step(j)
    PROVE  /\ status' \in [Provider -> {"available", "throttled", "unavailable"}]
           /\ reset' \in [Provider -> {"none", "pending", "due"}]
           /\ dropped' \subseteq Provider
  <1> DEFINE p == need[j]
             S == {"available", "throttled", "unavailable"}
             R == {"none", "pending", "due"}
  <1>1. p \in Provider /\ TypeOK
    BY DEF GateInv, TypeOK
  <1>2. /\ StatusRead(p) \in S /\ ResetRead(p) \in R
        /\ \A looked \in BOOLEAN : /\ StatusAfter(p, looked) \in [Provider -> S]
                                   /\ ResetAfter(p, looked) \in [Provider -> R]
    BY <1>1, RegistryKept
  <1>3. ASSUME NEW D \in SUBSET Provider, Dropped(D) PROVE dropped' \subseteq Provider
    BY <1>1, <1>3 DEF Dropped, TypeOK
  <1>4. Looked(p) \in BOOLEAN
    BY DEF Looked, Granted, Allows
  <1>5. ASSUME Match(p), Dropped({}) PROVE status' \in [Provider -> S] /\ reset' \in [Provider -> R]
                                           /\ dropped' \subseteq Provider
    BY <1>2, <1>3, <1>4, <1>5 DEF Match
  <1>6. CASE Poll(j)
    <2>1. CASE Granted(p)
      BY <1>5, <1>6, <2>1 DEF Poll
    <2>2. CASE ~Granted(p)
      <3> DEFINE kept == ResetAfter(p, Looked(p))
                 due  == {q \in Provider : kept[q] = "due"}
      <3>1. PICK expired \in SUBSET {q \in Provider : kept[q] = "pending"} :
               /\ status' = StatusAfter(p, Looked(p))
               /\ reset' = [q \in Provider |-> IF q \in due \cup expired THEN "none" ELSE kept[q]]
               /\ Dropped(due \cup expired)
        BY <1>6, <2>2 DEF Poll, Wait
      <3>2. kept \in [Provider -> R] /\ status' \in [Provider -> S]
        BY <1>2, <1>4, <3>1
      <3>3. due \cup expired \in SUBSET Provider
        OBVIOUS
      <3>4. dropped' \subseteq Provider
        BY <1>3, <3>1, <3>3
      <3> HIDE DEF kept, due
      <3>5. reset' \in [Provider -> R]
        BY <3>1, <3>2
      <3> QED BY <3>2, <3>4, <3>5
    <2> QED BY <2>1, <2>2
  <1>7. CASE Dispatch(j)
    BY <1>5, <1>7 DEF Dispatch
  <1>8. CASE Defer(j)
    <2>1. PICK looked \in BOOLEAN : /\ status' = StatusAfter(p, looked)
                                    /\ reset' = ResetAfter(p, looked)
                                    /\ Dropped({})
      BY <1>8 DEF Defer, Allows
    <2> QED BY <1>2, <1>3, <2>1
  <1>9. CASE Succeed(j)
    <2>1. /\ status' = [status EXCEPT ![p] = IF StatusRead(p) = "throttled"
                                             THEN "available" ELSE StatusRead(p)]
          /\ reset' = [reset EXCEPT ![p] = IF StatusRead(p) = "throttled"
                                           THEN "none" ELSE ResetRead(p)]
          /\ Dropped({})
      BY <1>9 DEF Succeed
    <2>2. status \in [Provider -> S] /\ reset \in [Provider -> R]
      BY <1>1 DEF TypeOK
    <2> QED BY <1>2, <1>3, <2>1, <2>2
  <1>10. CASE Fail(j)
    <2>1. /\ \/ \E s \in {"throttled", "unavailable"} :
                  /\ status' = [status EXCEPT ![p] = s]
                  /\ reset' = [reset EXCEPT ![p] = "pending"]
             \/ UNCHANGED <<status, reset>>
          /\ Dropped({})
      BY <1>10 DEF Fail
    <2>2. status \in [Provider -> S] /\ reset \in [Provider -> R]
      BY <1>1 DEF TypeOK
    <2> QED BY <1>3, <2>1, <2>2
  <1> QED BY <1>6, <1>7, <1>8, <1>9, <1>10 DEF Step

\* Its other variables.
LEMMA JobsKept ==
    ASSUME GateInv, NEW j \in Job, Step(j)
    PROVE  /\ need' = need
           /\ job' \in [Job -> {"executing", "waiting", "running", "done"}]
           /\ left' \in [Job -> 0 .. TasksPerJob] /\ failed' \in 0 .. FailBound
           /\ trials' \in [Provider -> SUBSET Job] /\ JobsLeft'
  <1> USE GateAssumption DEF GateInv
  <1>1. need' = need
    BY DEF Step, Poll, Dispatch, Defer, Succeed, Fail
  <1>2. trials' \in [Provider -> SUBSET Job]
    <2>1. PICK s \in SUBSET Job : Trials(need[j], s)
      BY DEF Step, Poll, Dispatch, Defer, Succeed, Fail
    <2>2. need[j] \in Provider /\ trials \in [Provider -> SUBSET Job]
      BY DEF TypeOK
    <2> QED BY <2>1, <2>2 DEF Trials
  <1>3. failed' \in 0 .. FailBound
    BY DEF Step, Poll, Dispatch, Defer, Succeed, Fail, TypeOK
  <1>4. CASE Succeed(j)
    <2>1. left[j] > 0 /\ left[j] \in 0 .. TasksPerJob
      BY <1>4 DEF Succeed, JobsLeft, TypeOK
    <2>2. left' = [left EXCEPT ![j] = left[j] - 1]
          /\ job' = [job EXCEPT ![j] = IF left[j] = 1 THEN "done" ELSE "executing"]
      BY <1>4 DEF Succeed
    <2>3. left' \in [Job -> 0 .. TasksPerJob]
      BY <2>1, <2>2 DEF TypeOK
    <2>4. job' \in [Job -> {"executing", "waiting", "running", "done"}]
      BY <2>2 DEF TypeOK
    <2>5. JobsLeft'
      BY <2>1, <2>2 DEF TypeOK, JobsLeft
    <2> QED BY <1>1, <1>2, <1>3, <2>3, <2>4, <2>5
  <1>5. CASE Poll(j) \/ Dispatch(j) \/ Defer(j) \/ Fail(j)
    <2>1. /\ left' = left /\ job[j] # "done"
          /\ job' = job \/ \E s \in {"executing", "waiting", "running"} : job' = [job EXCEPT ![j] = s]
      BY <1>5 DEF Poll, Dispatch, Defer, Fail
    <2>2. job' \in [Job -> {"executing", "waiting", "running", "done"}]
      BY <2>1 DEF TypeOK
    <2>3. JobsLeft'
      BY <2>1 DEF TypeOK, JobsLeft
    <2> QED BY <1>1, <1>2, <1>3, <2>1, <2>2, <2>3 DEF TypeOK
  <1> QED BY <1>4, <1>5 DEF Step

LEMMA GateStepInv == GateInv /\ [Next]_vars => GateInv'
  <1> SUFFICES ASSUME GateInv, [Next]_vars PROVE GateInv'
    OBVIOUS
  <1>1. CASE Done \/ UNCHANGED vars
    BY <1>1 DEF Done, vars, GateInv, TypeOK, BreakersOK, JobsLeft, TrialsCounted
  <1>2. ASSUME NEW p \in Provider, CooldownOver(p) PROVE GateInv'
    <2> DEFINE b == breaker[p]
               d == [b EXCEPT !.cooled = TRUE]
    <2>1. /\ b.state = "open" /\ b \in Breaker /\ breaker \in [Provider -> Breaker]
          /\ breaker' = [breaker EXCEPT ![p] = d]
          /\ UNCHANGED <<need, status, reset, job, left, failed, trials, dropped>>
      BY <1>2 DEF CooldownOver, GateInv, TypeOK
    <2>2. d \in Breaker /\ d.state = "open"
      BY <2>1 DEF Breaker
    <2> HIDE DEF d
    <2>3. breaker'[p] = d /\ \A q \in Provider \ {p} : breaker'[q] = breaker[q]
      BY <2>1
    <2>4. BreakersOK'
      BY <2>2, <2>3 DEF GateInv, BreakersOK, BreakerOK
    <2>5. TrialsCounted'
      BY <2>1, <2>2, <2>3 DEF GateInv, TrialsCounted, Counted
    <2>6. TypeOK' /\ JobsLeft'
      BY <2>1, <2>2 DEF GateInv, TypeOK, JobsLeft
    <2> QED BY <2>4, <2>5, <2>6 DEF GateInv
  <1>3. ASSUME NEW p \in Provider, ResetDue(p) PROVE GateInv'
    BY <1>3 DEF ResetDue, GateInv, TypeOK, BreakersOK, JobsLeft, TrialsCounted
  <1>4. ASSUME NEW j \in Job, Step(j) PROVE GateInv'
    <2> DEFINE p == need[j]
    <2>1. PICK d, t : /\ breaker' = [breaker EXCEPT ![p] = d] /\ BreakerOK(d)
                      /\ trials' = [trials EXCEPT ![p] = t] /\ Counted(d, t)
      BY <1>4, BreakerKept
    <2>2. /\ breaker \in [Provider -> Breaker] /\ DOMAIN trials = Provider
          /\ BreakersOK /\ TrialsCounted /\ d \in Breaker
      BY <2>1 DEF GateInv, TypeOK, BreakerOK
    <2> HIDE DEF p
    <2>3. BreakersOK' /\ breaker' \in [Provider -> Breaker]
      BY <2>1, <2>2 DEF BreakersOK
    <2>4. TrialsCounted'
      BY <2>1, <2>2 DEF TrialsCounted
    <2>5. TypeOK' /\ JobsLeft'
      BY <1>4, <2>3, StatusKept, JobsKept DEF GateInv, TypeOK
    <2> QED BY <2>3, <2>4, <2>5 DEF GateInv
  <1> QED BY <1>1, <1>2, <1>3, <1>4 DEF Next, Time

\* The gate's variables, the counters of the shared breakers among them
\* (circuit_breaker.py), keep their types.
THEOREM GateTypes == Spec => []TypeOK
  <1>1. GateInv => TypeOK
    BY DEF GateInv
  <1> QED BY <1>1, GateInitInv, GateStepInv, PTL DEF Spec

\* However many jobs share a half-open breaker, those let through since it
\* half-opened are no more than the successes that close it
\* (CircuitBreaker.allow_request).
THEOREM TrialsAreBounded == Spec => []TrialsBounded
  <1>1. GateInv => TrialsBounded
    <2> SUFFICES ASSUME GateInv, NEW p \in Provider, breaker[p].state = "half"
                 PROVE  Cardinality(trials[p]) <= ProbeLimit
      BY DEF TrialsBounded
    <2>1. BreakerOK(breaker[p]) /\ Counted(breaker[p], trials[p])
      BY DEF GateInv, BreakersOK, TrialsCounted
    <2>2. /\ Cardinality(trials[p]) <= breaker[p].probes /\ breaker[p].probes \in 0 .. ProbeLimit
          /\ Cardinality(trials[p]) \in Nat
      BY <2>1, FS_CardinalityType DEF Counted, BreakerOK, Breaker
    <2> QED BY <2>2, BreakerAssumption
  <1> QED BY <1>1, GateInitInv, GateStepInv, PTL DEF Spec
=============================================================================
