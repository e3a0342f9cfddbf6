------------------------- MODULE CircuitBreakerProofs -------------------------
(***************************************************************************)
(* Theorems about CircuitBreaker, for any set of callers and any           *)
(* thresholds and cooldown.  The inductive invariant says that the counter *)
(* of the current state (failures when closed, successes when half-open)   *)
(* is the run of outcomes actually seen, and that the cooldown clock never *)
(* runs ahead of the time since the breaker was opened.                    *)
(***************************************************************************)
EXTENDS CircuitBreaker, TLAPS

IInv ==
    /\ TypeOK
    /\ breaker.state = "closed" =>
          breaker.failures = failed /\ failed < FailureThreshold
    /\ breaker.state = "half-open" =>
          breaker.successes = succeeded /\ succeeded < SuccessThreshold
    /\ breaker.state = "open" => breaker.age <= waited
    /\ CoolsDownFirst

-----------------------------------------------------------------------------

\* Counting up to a bound stays within it.
LEMMA AtMostBound ==
    ASSUME NEW bound \in Nat \ {0}, NEW n \in 0..bound
    PROVE  /\ AtMost(n + 1, bound) \in 0..bound
           /\ n + 1 < bound => AtMost(n + 1, bound) = n + 1
           /\ n + 1 >= bound => AtMost(n + 1, bound) = bound
BY DEF AtMost

\* open(): the fields it sets and those it keeps.
LEMMA OpenedFacts ==
    ASSUME NEW b \in BreakerRecord
    PROVE  /\ Opened(b) \in BreakerRecord
           /\ Opened(b).state = "open" /\ Opened(b).age = 0
<1> DEFINE moved == [b EXCEPT !.state = "open"]
<1>1. moved \in BreakerRecord /\ moved.state = "open"
  BY DEF BreakerRecord, CircuitState
<1>2. Opened(b) = [moved EXCEPT !.age = 0]
  BY DEF Opened, BreakerRecord
<1> HIDE DEF moved
<1> QED BY <1>1, <1>2, BreakerAssumption DEF BreakerRecord

\* close(): the fields it sets and those it keeps.
LEMMA ClosedFacts ==
    ASSUME NEW b \in BreakerRecord
    PROVE  /\ Closed(b) \in BreakerRecord
           /\ Closed(b).state = "closed" /\ Closed(b).failures = 0
<1> DEFINE moved == [b EXCEPT !.state = "closed"]
           reset == [moved EXCEPT !.failures = 0]
<1>1. moved \in BreakerRecord /\ moved.state = "closed"
  BY DEF BreakerRecord, CircuitState
<1>2. Closed(b) = [reset EXCEPT !.successes = 0]
  BY DEF Closed, BreakerRecord
<1> HIDE DEF moved
<1>3. reset \in BreakerRecord /\ reset.state = "closed" /\ reset.failures = 0
  BY <1>1, BreakerAssumption DEF BreakerRecord
<1> HIDE DEF reset
<1> QED BY <1>2, <1>3, BreakerAssumption DEF BreakerRecord

\* The current getter: a record of the type; it moves only a breaker that is
\* open and has cooled down, and then to half-open with no successes.
LEMMA CurrentFacts ==
    ASSUME NEW b \in BreakerRecord
    PROVE  /\ Current(b) \in BreakerRecord
           /\ \/ Current(b) = b /\ ~(b.state = "open" /\ b.age = CooldownMs)
              \/ /\ b.state = "open" /\ b.age = CooldownMs
                 /\ Current(b).state = "half-open"
                 /\ Current(b).successes = 0
<1>1. CASE b.state = "open" /\ b.age >= CooldownMs
  <2> DEFINE moved == [b EXCEPT !.state = "half-open"]
  <2>1. moved \in BreakerRecord /\ moved.state = "half-open"
    BY DEF BreakerRecord, CircuitState
  <2>2. Current(b) = [moved EXCEPT !.successes = 0]
    BY <1>1 DEF Current, BreakerRecord
  <2>3. b.age = CooldownMs
    BY <1>1, BreakerAssumption DEF BreakerRecord
  <2> HIDE DEF moved
  <2> QED BY <1>1, <2>1, <2>2, <2>3, BreakerAssumption DEF BreakerRecord
<1>2. CASE ~(b.state = "open" /\ b.age >= CooldownMs)
  <2>1. Current(b) = b
    BY <1>2 DEF Current
  <2> QED BY <1>2, <2>1, BreakerAssumption DEF BreakerRecord
<1> QED BY <1>1, <1>2

\* onSuccess: closes only a half-open breaker at the threshold, and opens none.
LEMMA OnSuccessFacts ==
    ASSUME NEW b \in BreakerRecord,
           b.state = "half-open" => b.successes < SuccessThreshold
    PROVE  /\ OnSuccess(b) \in BreakerRecord
           /\ b.state # "half-open" =>
                 OnSuccess(b).state = b.state /\ OnSuccess(b).failures = 0
                     /\ OnSuccess(b).age = b.age
           /\ b.state = "half-open" /\ b.successes + 1 < SuccessThreshold =>
                 OnSuccess(b).state = b.state
                     /\ OnSuccess(b).successes = b.successes + 1
           /\ b.state = "half-open" /\ b.successes + 1 >= SuccessThreshold =>
                 OnSuccess(b).state = "closed" /\ OnSuccess(b).failures = 0
<1>1. CASE b.state # "half-open"
  <2>1. OnSuccess(b) = [b EXCEPT !.failures = 0]
    BY <1>1 DEF OnSuccess
  <2> QED BY <1>1, <2>1, BreakerAssumption DEF BreakerRecord
<1>2. CASE b.state = "half-open"
  <2> DEFINE counted == [b EXCEPT !.successes = b.successes + 1]
  <2>1. counted \in BreakerRecord /\ counted.successes = b.successes + 1
           /\ counted.state = b.state
    BY <1>2, BreakerAssumption DEF BreakerRecord
  <2>2. OnSuccess(b) = IF counted.successes >= SuccessThreshold
                       THEN Closed(counted) ELSE counted
    BY <1>2 DEF OnSuccess
  <2> HIDE DEF counted
  <2> QED BY <1>2, <2>1, <2>2, ClosedFacts, BreakerAssumption DEF BreakerRecord
<1> QED BY <1>1, <1>2

\* onFailure: opens a half-open breaker, and any other one at the threshold.
LEMMA OnFailureFacts ==
    ASSUME NEW b \in BreakerRecord
    PROVE  /\ OnFailure(b) \in BreakerRecord
           /\ \/ OnFailure(b).state = "open" /\ OnFailure(b).age = 0
                 /\ (b.state = "half-open" \/ b.failures + 1 >= FailureThreshold)
              \/ /\ b.state # "half-open" /\ b.failures + 1 < FailureThreshold
                 /\ OnFailure(b).state = b.state /\ OnFailure(b).age = b.age
                 /\ OnFailure(b).failures = b.failures + 1
<1>1. CASE b.state = "half-open"
  BY <1>1, OpenedFacts DEF OnFailure
<1>2. CASE b.state # "half-open"
  <2> DEFINE n == AtMost(b.failures + 1, FailureThreshold)
             counted == [b EXCEPT !.failures = n]
  <2>1. /\ n \in 0..FailureThreshold
        /\ b.failures + 1 < FailureThreshold => n = b.failures + 1
        /\ b.failures + 1 >= FailureThreshold => n = FailureThreshold
    BY AtMostBound, BreakerAssumption DEF BreakerRecord
  <2>2. OnFailure(b) = IF counted.failures >= FailureThreshold
                       THEN Opened(counted) ELSE counted
    BY <1>2 DEF OnFailure
  <2> HIDE DEF n
  <2>3. counted \in BreakerRecord /\ counted.failures = n
           /\ counted.state = b.state /\ counted.age = b.age
    BY <2>1 DEF BreakerRecord
  <2> HIDE DEF counted
  <2> QED BY <1>2, <2>1, <2>2, <2>3, OpenedFacts, BreakerAssumption DEF BreakerRecord
<1> QED BY <1>1, <1>2

LEMMA ElapseFacts ==
    ASSUME NEW b \in BreakerRecord, b.state = "open"
    PROVE  /\ Elapse(b) \in BreakerRecord
           /\ Elapse(b).state = "open"
           /\ Elapse(b).age = AtMost(b.age + 1, CooldownMs)
BY BreakerAssumption DEF Elapse, AtMost, BreakerRecord, CircuitState

-----------------------------------------------------------------------------

LEMMA InitIInv == Init => IInv
BY BreakerAssumption
DEF Init, IInv, TypeOK, CoolsDownFirst, NewBreaker, BreakerRecord, CircuitState

\* A step that only reads the getter keeps the invariant.
LEMMA ReadIInv ==
    ASSUME IInv, Record(Current(breaker), failed, succeeded),
           call' \in [Calls -> {"idle", "closed", "half-open"}]
    PROVE  IInv'
BY BreakerAssumption, CurrentFacts DEF IInv, TypeOK, CoolsDownFirst, Record, BreakerRecord

LEMMA SucceedIInv == ASSUME IInv, NEW c \in Calls, Succeed(c) PROVE IInv'
<1> DEFINE ok == AtMost(succeeded + 1, SuccessThreshold)
<1>1. /\ ok \in 0..SuccessThreshold
      /\ succeeded + 1 < SuccessThreshold => ok = succeeded + 1
  BY BreakerAssumption, AtMostBound DEF IInv, TypeOK
<1>2. call' \in [Calls -> {"idle", "closed", "half-open"}]
  BY DEF IInv, TypeOK, Succeed
<1> HIDE DEF ok
<1>3. Record(OnSuccess(breaker), 0, ok)
  BY DEF Succeed, ok
<1> QED
  BY <1>1, <1>2, <1>3, BreakerAssumption, OnSuccessFacts
  DEF IInv, TypeOK, CoolsDownFirst, Record, BreakerRecord, CircuitState

LEMMA FailIInv == ASSUME IInv, NEW c \in Calls, Fail(c) PROVE IInv'
<1> DEFINE bad == AtMost(failed + 1, FailureThreshold)
<1>1. /\ bad \in 0..FailureThreshold
      /\ failed + 1 < FailureThreshold => bad = failed + 1
  BY BreakerAssumption, AtMostBound DEF IInv, TypeOK
<1>2. call' \in [Calls -> {"idle", "closed", "half-open"}]
  BY DEF IInv, TypeOK, Fail
<1> HIDE DEF bad
<1>3. Record(OnFailure(breaker), bad, 0)
  BY DEF Fail, bad
<1> QED
  BY <1>1, <1>2, <1>3, BreakerAssumption, OnFailureFacts
  DEF IInv, TypeOK, CoolsDownFirst, Record, BreakerRecord, CircuitState

LEMMA TickIInv == ASSUME IInv, Tick PROVE IInv'
BY BreakerAssumption, ElapseFacts
DEF IInv, TypeOK, CoolsDownFirst, Tick, AtMost, BreakerRecord

LEMMA NextIInv == IInv /\ [Next]_vars => IInv'
<1> SUFFICES ASSUME IInv, [Next]_vars PROVE IInv'
  OBVIOUS
<1>1. ASSUME NEW c \in Calls, Admit(c) PROVE IInv'
  <2>1. call' \in [Calls -> {"idle", "closed", "half-open"}]
    BY <1>1, CurrentFacts DEF IInv, TypeOK, Admit, Refuses, BreakerRecord, CircuitState
  <2> QED BY <1>1, <2>1, ReadIInv DEF Admit
<1>2. ASSUME NEW c \in Calls, Refuse(c) PROVE IInv'
  BY <1>2, ReadIInv DEF Refuse, Refused, IInv, TypeOK
<1>3. ASSUME NEW c \in Calls, Succeed(c) PROVE IInv'
  BY <1>3, SucceedIInv
<1>4. ASSUME NEW c \in Calls, Fail(c) PROVE IInv'
  BY <1>4, FailIInv
<1>5. CASE Observe
  BY <1>5, ReadIInv DEF Observe, IInv, TypeOK
<1>6. CASE Tick
  BY <1>6, TickIInv
<1>7. CASE UNCHANGED vars
  BY <1>7 DEF IInv, TypeOK, CoolsDownFirst, vars
<1> QED BY <1>1, <1>2, <1>3, <1>4, <1>5, <1>6, <1>7 DEF Next

\* The invariant holds in every reachable state.
THEOREM Invariant == Spec => []IInv
<1> QED BY InitIInv, NextIInv, PTL DEF Spec

\* The breaker's record keeps its type: both counters stay within their
\* thresholds whatever calls settle late.
THEOREM TypeCorrect == Spec => []TypeOK
<1>1. IInv => TypeOK
  BY DEF IInv
<1> QED BY <1>1, Invariant, PTL

\* The breaker opens at the latest at the FailureThreshold-th failure in a
\* row and closes at the latest at the SuccessThreshold-th half-open success.
THEOREM BreakerNeverLate == Spec => []NeverLate
<1>1. IInv => NeverLate
  BY DEF IInv, NeverLate
<1> QED BY <1>1, Invariant, PTL

\* A half-open breaker has been open for the whole cooldown.
THEOREM BreakerCoolsDownFirst == Spec => []CoolsDownFirst
<1>1. IInv => CoolsDownFirst
  BY DEF IInv
<1> QED BY <1>1, Invariant, PTL

-----------------------------------------------------------------------------

LEMMA NextNeverEarly ==
    ASSUME IInv, [Next]_vars
    PROVE  /\ breaker.state = "closed" /\ breaker'.state # "closed" =>
                 breaker'.state = "open" /\ failed' >= FailureThreshold
           /\ breaker.state # "closed" /\ breaker'.state = "closed" =>
                 breaker.state = "half-open" /\ succeeded' >= SuccessThreshold
<1> DEFINE Goal == /\ breaker.state = "closed" /\ breaker'.state # "closed" =>
                       breaker'.state = "open" /\ failed' >= FailureThreshold
                   /\ breaker.state # "closed" /\ breaker'.state = "closed" =>
                       breaker.state = "half-open" /\ succeeded' >= SuccessThreshold
<1>1. ASSUME Record(Current(breaker), failed, succeeded) PROVE Goal
  BY <1>1, CurrentFacts DEF IInv, TypeOK, Record
<1>2. ASSUME NEW c \in Calls, Succeed(c) PROVE Goal
  <2>1. succeeded + 1 >= SuccessThreshold =>
           AtMost(succeeded + 1, SuccessThreshold) = SuccessThreshold
    BY BreakerAssumption, AtMostBound DEF IInv, TypeOK
  <2> QED
    BY <1>2, <2>1, BreakerAssumption, OnSuccessFacts
    DEF IInv, TypeOK, Succeed, Record, BreakerRecord, CircuitState
<1>3. ASSUME NEW c \in Calls, Fail(c) PROVE Goal
  <2>1. failed + 1 >= FailureThreshold =>
           AtMost(failed + 1, FailureThreshold) = FailureThreshold
    BY BreakerAssumption, AtMostBound DEF IInv, TypeOK
  <2> QED
    BY <1>3, <2>1, BreakerAssumption, OnFailureFacts
    DEF IInv, TypeOK, Fail, Record, BreakerRecord, CircuitState
<1>4. CASE Tick
  BY <1>4, ElapseFacts DEF IInv, TypeOK, Tick
<1>5. CASE UNCHANGED vars
  BY <1>5 DEF vars
<1> QED
  BY <1>1, <1>2, <1>3, <1>4, <1>5 DEF Next, Admit, Refuse, Refused, Observe

\* The breaker leaves the closed state only after FailureThreshold failures
\* in a row, and returns to it only from half-open, after SuccessThreshold
\* successes in a row.
THEOREM BreakerNeverEarly == Spec => NeverEarly
<1>1. IInv /\ [Next]_vars =>
         [/\ breaker.state = "closed" /\ breaker'.state # "closed" =>
                 breaker'.state = "open" /\ failed' >= FailureThreshold
          /\ breaker.state # "closed" /\ breaker'.state = "closed" =>
                 breaker.state = "half-open" /\ succeeded' >= SuccessThreshold]_vars
  BY NextNeverEarly
<1> QED BY <1>1, Invariant, PTL DEF Spec, NeverEarly

\* A step that leaves the breaker open has started no call.
THEOREM BreakerNothingStartsWhileOpen == Spec => NothingStartsWhileOpen
<1> DEFINE Quiet == breaker'.state = "open" =>
                       \A c \in Calls : Running(c)' => Running(c)
<1>1. IInv /\ [Next]_vars => [Quiet]_vars
  <2> SUFFICES ASSUME IInv, Next PROVE Quiet
    BY DEF vars
  <2>1. ASSUME NEW c \in Calls, Admit(c) PROVE Quiet
    BY <2>1 DEF Admit, Refuses, Record
  <2>2. ASSUME NEW c \in Calls, Succeed(c) \/ Fail(c) PROVE Quiet
    BY <2>2 DEF Succeed, Fail, Running, IInv, TypeOK
  <2>3. CASE UNCHANGED call
    BY <2>3 DEF Running
  <2> QED BY <2>1, <2>2, <2>3 DEF Next, Refuse, Observe, Tick
<1> QED BY <1>1, Invariant, PTL DEF Spec, NothingStartsWhileOpen
=============================================================================
