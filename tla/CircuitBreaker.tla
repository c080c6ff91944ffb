---------------------------- MODULE CircuitBreaker ----------------------------
(***************************************************************************)
(* CircuitBreaker (runtime/circuit_breaker.py) as operators on the record  *)
(* of one breaker.  Time is reduced to what the breaker compares it with:  *)
(* "cooled" says that cooldown_seconds have passed since it opened.        *)
(***************************************************************************)
EXTENDS Naturals

CONSTANTS FailureThreshold,   \* failure_threshold
          ProbeLimit          \* half_open_success_threshold, which also bounds the probes

ASSUME BreakerAssumption == /\ FailureThreshold \in Nat \ {0}
                            /\ ProbeLimit \in Nat \ {0}

Breaker == [state     : {"closed", "open", "half"},
            failures  : 0 .. FailureThreshold,   \* _consecutive_failures
            successes : 0 .. ProbeLimit,         \* _consecutive_successes
            probes    : 0 .. ProbeLimit,         \* _probes_in_flight
            cooled    : BOOLEAN]

Closed == [state |-> "closed", failures |-> 0, successes |-> 0, probes |-> 0,
           cooled |-> FALSE]

\* _transition_to(OPEN) and _transition_to(HALF_OPEN)
Open(b) == [b EXCEPT !.state = "open", !.successes = 0, !.cooled = FALSE]
HalfOpen(b) == [b EXCEPT !.state = "half", !.successes = 0, !.probes = 0]

\* The state property: whoever reads it after the cooldown half-opens the breaker.
Current(b) == IF b.state = "open" /\ b.cooled THEN HalfOpen(b) ELSE b

\* allow_request: its answer ...
Allows(b) == \/ Current(b).state = "closed"
             \/ Current(b).state = "half" /\ Current(b).probes < ProbeLimit

\* Mutant of AfterRequest: a probe let through is not counted.
AfterRequestUncounted(b) == Current(b)

\* ... and its effect: a half-open breaker counts who it let through.  The
\* count is only ever reset by a transition.
AfterRequest(b) ==
    IF Current(b).state = "half" /\ Allows(b)
    THEN [Current(b) EXCEPT !.probes = @ + 1]
    ELSE Current(b)

\* A success closes a half-open breaker and ends a row of failures.
AfterSuccess(b) ==
    LET c == Current(b)
    IN CASE c.state = "half" /\ c.successes + 1 >= ProbeLimit -> Closed
         [] c.state = "half" /\ c.successes + 1 < ProbeLimit  -> [c EXCEPT !.successes = @ + 1]
         [] c.state = "closed"                                -> [c EXCEPT !.failures = 0]
         [] c.state = "open"                                  -> c

\* Mutant of AfterFailure: the threshold is to be exceeded, not reached.
AfterFailureLate(b) ==
    LET c == Current(b)
    IN CASE c.state = "half" -> Open(c)
         [] c.state = "closed" /\ c.failures + 1 > FailureThreshold ->
               Open([c EXCEPT !.failures = @ + 1])
         [] c.state = "closed" /\ c.failures + 1 <= FailureThreshold ->
               [c EXCEPT !.failures = @ + 1]
         [] c.state = "open" -> c

\* A failed trial reopens the breaker; so does one failure too many in a row.
AfterFailure(b) ==
    LET c == Current(b)
    IN CASE c.state = "half" -> Open(c)
         [] c.state = "closed" /\ c.failures + 1 >= FailureThreshold ->
               Open([c EXCEPT !.failures = @ + 1])
         [] c.state = "closed" /\ c.failures + 1 < FailureThreshold ->
               [c EXCEPT !.failures = @ + 1]
         [] c.state = "open" -> c
=============================================================================
