---------------------------- MODULE CircuitBreaker ----------------------------
(***************************************************************************)
(* Concurrent calls of CircuitBreaker.execute (messaging/circuit-breaker.ts)*)
(* over one breaker.  A call reads `current`, is refused or admitted, and  *)
(* then awaits fn(): everything before the await is one step and the       *)
(* settling of fn() is another, so any number of other calls, and of clock *)
(* ticks, come between the admission of a call and its outcome.            *)
(*                                                                         *)
(* failed, succeeded and waited are history variables: they observe the    *)
(* outcomes and the clock and are not read by any action.                  *)
(***************************************************************************)
EXTENDS Breaker

CONSTANT Calls          \* the callers, each with at most one call in flight

VARIABLES
    breaker,    \* the breaker's fields
    call,       \* per caller: "idle", or the state that admitted its call
    failed,     \* failures since the last success or since it last closed
    succeeded,  \* successes since the last failure or since it half-opened
    waited      \* clock ticks since it last went from another state to open

vars == <<breaker, call, failed, succeeded, waited>>

Idle(c) == call[c] = "idle"
Running(c) == call[c] # "idle"

TypeOK ==
    /\ breaker \in BreakerRecord
    /\ call \in [Calls -> {"idle", "closed", "half-open"}]
    /\ failed \in 0..FailureThreshold
    /\ succeeded \in 0..SuccessThreshold
    /\ waited \in 0..CooldownMs

Init ==
    /\ breaker = NewBreaker
    /\ call = [c \in Calls |-> "idle"]
    /\ failed = 0
    /\ succeeded = 0
    /\ waited = CooldownMs

\* What the history variables make of a step whose breaker becomes b and in
\* which f failures and s successes in a row have been seen.
Record(b, f, s) ==
    /\ breaker' = b
    /\ failed' = IF b.state = "closed" /\ breaker.state # "closed" THEN 0 ELSE f
    /\ succeeded' =
          IF b.state = "half-open" /\ breaker.state # "half-open" THEN 0 ELSE s
    /\ waited' = IF b.state = "open" /\ breaker.state # "open" THEN 0 ELSE waited

-----------------------------------------------------------------------------

\* Slip: an open breaker lets the call through.
RefusesNever(b) == FALSE

Refuses(b) == b.state = "open"

\* Slip: a refused call is reported as a failure of the protected function.
RefusedAsFailure(b) == OnFailure(b)

\* What refusing a call does to the breaker: it throws before the try block.
Refused(b) == b

\* execute() up to `await fn()`: `current` is not "open".
Admit(c) ==
    LET b == Current(breaker) IN
    /\ Idle(c)
    /\ ~Refuses(b)
    /\ call' = [call EXCEPT ![c] = b.state]
    /\ Record(b, failed, succeeded)

\* execute() throws CircuitOpenError.
Refuse(c) ==
    /\ Idle(c)
    /\ Refuses(Current(breaker))
    /\ Record(Refused(Current(breaker)), failed, succeeded)
    /\ UNCHANGED call

\* fn() resolves: onSuccess, whatever the breaker's state has become.
Succeed(c) ==
    /\ Running(c)
    /\ call' = [call EXCEPT ![c] = "idle"]
    /\ Record(OnSuccess(breaker), 0, AtMost(succeeded + 1, SuccessThreshold))

\* fn() rejects: onFailure, and the error goes on to the caller.
Fail(c) ==
    /\ Running(c)
    /\ call' = [call EXCEPT ![c] = "idle"]
    /\ Record(OnFailure(breaker), AtMost(failed + 1, FailureThreshold), 0)

\* Anyone may read the `current` getter, which moves the state.
Observe ==
    /\ Record(Current(breaker), failed, succeeded)
    /\ UNCHANGED call

Tick ==
    /\ breaker.state = "open"
    /\ breaker' = Elapse(breaker)
    /\ waited' = AtMost(waited + 1, CooldownMs)
    /\ UNCHANGED <<call, failed, succeeded>>

Next ==
    \/ \E c \in Calls : Admit(c) \/ Refuse(c) \/ Succeed(c) \/ Fail(c)
    \/ Observe
    \/ Tick

Spec == Init /\ [][Next]_vars

\* Time passes; nothing is assumed of the callers nor of fn().
FairSpec == Spec /\ WF_vars(Tick)

-----------------------------------------------------------------------------

\* The breaker is never late: while it is closed fewer than FailureThreshold
\* outcomes in a row were failures, and while it is half-open fewer than
\* SuccessThreshold in a row were successes, whichever calls they came from
\* and however they interleaved (onSuccess and onFailure).
NeverLate ==
    /\ breaker.state = "closed" => failed < FailureThreshold
    /\ breaker.state = "half-open" => succeeded < SuccessThreshold

\* A half-open breaker has been open for the whole cooldown first, even when
\* it was opened again by a failed probe or by a late failure (open(), current).
CoolsDownFirst == breaker.state = "half-open" => waited = CooldownMs

\* The breaker is never early: it leaves the closed state only to open after
\* FailureThreshold failures in a row, and closes only from half-open and
\* after SuccessThreshold successes in a row; the late success of a call that
\* was admitted before it opened never closes an open breaker.
NeverEarly ==
    [][/\ breaker.state = "closed" /\ breaker'.state # "closed" =>
             breaker'.state = "open" /\ failed' >= FailureThreshold
       /\ breaker.state # "closed" /\ breaker'.state = "closed" =>
             breaker.state = "half-open" /\ succeeded' >= SuccessThreshold]_vars

\* No call starts while the breaker is open: a step after which it is open
\* has started none (execute's first line).
NothingStartsWhileOpen ==
    [][breaker'.state = "open" =>
          \A c \in Calls : Running(c)' => Running(c)]_vars

\* An open breaker is at some time ready to be probed (or no longer open),
\* however often it is called meanwhile: refused calls do not count as
\* failures, and late failures can restart the cooldown only finitely often.
OpenIsNotForever ==
    breaker.state = "open" ~>
        (breaker.state # "open" \/ breaker.age >= CooldownMs)
=============================================================================
