------------------------------- MODULE Breaker -------------------------------
(***************************************************************************)
(* The state of one CircuitBreaker (messaging/circuit-breaker.ts) and what *)
(* each of its methods does to it, as operators on a record.  The class    *)
(* keeps openedAt and compares now() - openedAt with cooldownMs; the       *)
(* record keeps that difference (age) while the breaker is open, counted   *)
(* up to CooldownMs, and counts failures up to FailureThreshold: the code  *)
(* only ever compares the two with those bounds.                           *)
(*                                                                         *)
(* CircuitBreaker runs concurrent execute() calls over one breaker, and    *)
(* RabbitConsumer puts one in front of a message handler.                  *)
(***************************************************************************)
EXTENDS Integers

CONSTANTS
    FailureThreshold,   \* failureThreshold: failures in a row that open it
    SuccessThreshold,   \* successThreshold: half-open successes that close it
    CooldownMs          \* cooldownMs: how long an open breaker refuses calls

ASSUME BreakerAssumption ==
    /\ FailureThreshold \in Nat \ {0}
    /\ SuccessThreshold \in Nat \ {0}
    /\ CooldownMs \in Nat \ {0}

AtMost(n, bound) == IF n < bound THEN n ELSE bound

CircuitState == {"closed", "open", "half-open"}

BreakerRecord ==
    [state : CircuitState,
     failures : 0..FailureThreshold,
     successes : 0..SuccessThreshold,
     age : 0..CooldownMs]

NewBreaker == [state |-> "closed", failures |-> 0, successes |-> 0, age |-> 0]

-----------------------------------------------------------------------------

\* Slip: the cooldown clock is not restarted, openedAt keeps its old value.
OpenedKeepingClock(b) == [b EXCEPT !.state = "open"]

Opened(b) == [b EXCEPT !.state = "open", !.age = 0]

Closed(b) == [b EXCEPT !.state = "closed", !.failures = 0, !.successes = 0]

\* The getter moves an open breaker to half-open once its cooldown is over.
Current(b) ==
    IF b.state = "open" /\ b.age >= CooldownMs
    THEN [b EXCEPT !.state = "half-open", !.successes = 0]
    ELSE b

\* Slip: a success in the closed state does not end the run of failures.
OnSuccessKeepingFailures(b) ==
    IF b.state # "half-open" THEN b
    ELSE LET counted == [b EXCEPT !.successes = @ + 1]
         IN  IF counted.successes >= SuccessThreshold
             THEN Closed(counted) ELSE counted

OnSuccess(b) ==
    IF b.state # "half-open" THEN [b EXCEPT !.failures = 0]
    ELSE LET counted == [b EXCEPT !.successes = @ + 1]
         IN  IF counted.successes >= SuccessThreshold
             THEN Closed(counted) ELSE counted

\* Slip: the comparison with the threshold is strict.
OnFailureOffByOne(b) ==
    IF b.state = "half-open" THEN Opened(b)
    ELSE IF b.failures >= FailureThreshold
         THEN Opened(b)
         ELSE [b EXCEPT !.failures = @ + 1]

\* A failure reported while already open (the call was admitted before) is
\* counted too and, at the threshold, restarts the cooldown.
OnFailure(b) ==
    IF b.state = "half-open" THEN Opened(b)
    ELSE LET counted == [b EXCEPT !.failures = AtMost(@ + 1, FailureThreshold)]
         IN  IF counted.failures >= FailureThreshold
             THEN Opened(counted) ELSE counted

\* One unit of time as the breaker sees it through now().
Elapse(b) ==
    IF b.state = "open" THEN [b EXCEPT !.age = AtMost(@ + 1, CooldownMs)] ELSE b
=============================================================================
