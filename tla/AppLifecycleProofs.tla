-------------------------- MODULE AppLifecycleProofs --------------------------
(***************************************************************************)
(* Theorems about AppLifecycle, for any number of providers and jobs and   *)
(* any sets of requests, probes and callers of close().  The inductive     *)
(* invariant follows the one call of close() that does the work: no other  *)
(* is under way, and its phase tells which providers are destroyed.        *)
(***************************************************************************)
EXTENDS AppLifecycle, Integers, TLAPS

\* The calls of close() that have passed the test of `closed` and not settled.
Working(k) == closer[k].at \in {"grace", "stop", "destroy", "dispose"}
Stopped(k) == closer[k].at \in {"stop", "destroy", "dispose"}

\* create() walks over the providers, and its steps come before close().
BootInv ==
    /\ boot.at \in {"init", "bootstrap"} => boot.next \in 1..Instances
    /\ accepting \/ closed => boot.at = "done"
    /\ \A k \in Closers : closer[k].at # "none" => boot.at = "done"

\* The guard's flag is set exactly while the job's method runs.
JobInv == \A j \in JobIds : bodies[j] = (IF flag[j] THEN 1 ELSE 0)

\* After close() has begun the two flags stay set, and a probe that comes then
\* is refused at once.
ProbeInv ==
    /\ closed => draining
    /\ \A p \in Probes : probe[p].late => probe[p].at = "refused"

\* At most one call of close() works, and only after it set `closed`.
OneWorks ==
    /\ \A k \in Closers : Working(k) => closed
    /\ \A k, l \in Closers : Working(k) /\ Working(l) => k = l

\* Which providers are destroyed when a call of close() is in a phase.
DestroyInv ==
    /\ ~closed => \A i \in 1..Instances : destroyed[i] = 0
    /\ \A k \in Closers :
          /\ closer[k].at \in {"grace", "stop"} =>
                \A i \in 1..Instances : destroyed[i] = 0
          /\ closer[k].at = "destroy" =>
                /\ closer[k].next \in 1..Instances
                /\ \A i \in 1..Instances :
                      destroyed[i] = IF i > closer[k].next THEN 1 ELSE 0
          /\ closer[k].at = "dispose" => closer[k].next \in 1..2

\* The server is down once the grace period is over, and drained or forced
\* when the destroy hooks run.
DrainInv ==
    /\ \A k \in Closers :
          /\ Stopped(k) => ~accepting
          /\ closer[k].at \in {"destroy", "dispose"} => inflight = {} \/ forced
    /\ closed /\ accepting => \E k \in Closers : closer[k].at = "grace"

\* Timers that are set after close() has begun are still to be cleared.
ReleaseInv ==
    closed /\ ~threw /\ armed # {} => \E k \in Closers : Working(k)

IInv ==
    /\ TypeOK /\ BootInv /\ JobInv /\ ProbeInv /\ OneWorks
    /\ DestroyInv /\ DrainInv /\ ReleaseInv /\ OrderlyShutdown

USE AppLifecycleAssumption

\* A freshly created application satisfies the invariant.
LEMMA InitIInv == Init => IInv
<1> SUFFICES ASSUME Init PROVE IInv
  OBVIOUS
<1>1. TypeOK
  <2>1. boot \in [at : {"init", "bootstrap", "schedule", "done", "failed"},
                 next : 1..Instances + Jobs + 1]
    BY DEF Init, At
  <2>2. probe \in [Probes -> [at : {"none", "checking", "ready", "refused"}, late : BOOLEAN]]
    BY DEF Init
  <2>3. closer \in [Closers ->
          [at : {"none", "grace", "stop", "destroy", "dispose"} \cup Settled,
           next : 0..Instances + 2]]
    BY DEF Init, At, Settled
  <2>4. destroyed \in [1..Instances -> 0..1] /\ bodies \in [JobIds -> 0..1]
    BY DEF Init
  <2> QED
    BY <2>1, <2>2, <2>3, <2>4 DEF Init, TypeOK
<1> QED
  BY <1>1 DEF Init, IInv, BootInv, JobInv, ProbeInv, OneWorks, Working, Stopped, At,
     DestroyInv, DrainInv, ReleaseInv, OrderlyShutdown, DestroyedOnceInReverse,
     DestroyedAfterDrain, NoReadyAfterClose, JobIds

-----------------------------------------------------------------------------
(* create() and listen(): no call of close() has begun. *)

\* create() and listen() preserve the invariant: no call of close() has begun.
LEMMA BootStep ==
    ASSUME IInv, InitHook \/ BootstrapHook \/ StartScheduler \/ Listen
    PROVE  IInv'
<1> USE DEF JobIds, At
<1>1. ~closed /\ \A k \in Closers : ~Working(k)
  BY DEF IInv, BootInv, OneWorks, InitHook, BootstrapHook, StartScheduler, Listen
<1>2. UNCHANGED <<flag, bodies, inflight, probe, closeVars>>
  BY DEF InitHook, BootstrapHook, StartScheduler, Listen, httpVars, bootVars, jobVars
<1>3. TypeOK'
  <2> DEFINE Phases == {"init", "bootstrap", "schedule", "done", "failed"}
             Where == [at : Phases, next : 1..Instances + Jobs + 1]
  <2>1. \A phase \in Phases, n \in 1..Instances + Jobs + 1 : At(phase, n) \in Where
    OBVIOUS
  <2>2. boot \in Where /\ {consuming, accepting, listening} \subseteq BOOLEAN
        /\ armed \subseteq JobIds
    BY DEF IInv, TypeOK
  <2>3. boot.at \in {"init", "bootstrap"} => boot.next \in 1..Instances
    BY DEF IInv, BootInv
  <2>4. Instances + Jobs + 1 \in Nat /\ 1..Instances \subseteq 1..Instances + Jobs + 1
    OBVIOUS
  <2>5. boot' \in Where
    <3>1. CASE InitHook \/ BootstrapHook
      <4>1. boot.next \in 1..Instances
        BY <2>3, <3>1 DEF InitHook, BootstrapHook
      <4>2. \E phase \in Phases, n \in {1, boot.next + 1} :
               boot' = At(phase, n) /\ n <= Instances
        BY <3>1, <4>1 DEF InitHook, BootstrapHook, CreateFails
      <4>3. {1, boot.next + 1} \subseteq Int
        BY <4>1
      <4> QED BY <2>1, <2>4, <4>1, <4>2
    <3>2. CASE StartScheduler
      BY <2>1, <2>4, <3>2 DEF StartScheduler
    <3>3. CASE Listen
      BY <2>2, <3>3 DEF Listen, bootVars
    <3> QED BY <3>1, <3>2, <3>3
  <2>6. armed' \subseteq JobIds
    <3>1. armed' = armed \/ armed' = JobIds \/ \E j \in JobIds : armed' = 1..(j - 1)
      BY DEF InitHook, BootstrapHook, StartScheduler, Listen, CreateFails, jobVars
    <3>2. \A j \in JobIds : 1..(j - 1) \subseteq JobIds
      BY AppLifecycleAssumption
    <3>3. CASE \E j \in JobIds : armed' = 1..(j - 1)
      <4>1. PICK j \in JobIds : armed' = 1..(j - 1)
        BY <3>3
      <4> HIDE DEF JobIds
      <4> QED BY <4>1, <3>2
    <3> QED BY <2>2, <3>1, <3>3
  <2>7. {consuming', accepting', listening'} \subseteq BOOLEAN
    BY <2>2 DEF InitHook, BootstrapHook, StartScheduler, Listen, CreateFails, httpVars,
       bootVars
  <2> HIDE DEF At
  <2> QED BY <2>5, <2>6, <2>7, <1>2 DEF IInv, TypeOK, closeVars
<1>4. BootInv'
  BY <1>1 DEF IInv, TypeOK, BootInv, InitHook, BootstrapHook, StartScheduler, Listen,
     CreateFails, httpVars, closeVars, bootVars, jobVars
<1>5. JobInv' /\ ProbeInv' /\ OneWorks'
  BY <1>2 DEF IInv, JobInv, ProbeInv, OneWorks, Working, closeVars
<1>6. DestroyInv' /\ DrainInv' /\ ReleaseInv'
  BY <1>1, <1>2 DEF IInv, DestroyInv, DrainInv, ReleaseInv, Working, Stopped, closeVars
<1>7. OrderlyShutdown'
  BY <1>1, <1>2 DEF IInv, DestroyInv, OrderlyShutdown, DestroyedOnceInReverse,
     DestroyedAfterDrain, NoReadyAfterClose, closeVars
<1> QED BY <1>3, <1>4, <1>5, <1>6, <1>7 DEF IInv

-----------------------------------------------------------------------------
(* Requests, probes and jobs. *)

\* A request that comes or ends preserves the invariant.
LEMMA RequestStep ==
    ASSUME IInv, NEW r \in Requests, RequestArrives(r) \/ RequestEnds(r)
    PROVE  IInv'
<1>1. UNCHANGED <<bootVars, jobVars, accepting, listening, probe, closeVars>>
  BY DEF RequestArrives, RequestEnds
<1>2. \/ accepting /\ inflight' = inflight \cup {r}
      \/ inflight' = inflight \ {r}
  BY DEF RequestArrives, RequestEnds
<1>3. TypeOK' /\ BootInv' /\ JobInv' /\ ProbeInv' /\ OneWorks' /\ DestroyInv' /\ ReleaseInv'
  BY <1>1, <1>2 DEF IInv, TypeOK, BootInv, JobInv, ProbeInv, OneWorks, DestroyInv,
     ReleaseInv, Working, bootVars, jobVars, closeVars
<1>4. DrainInv'
  BY <1>1, <1>2 DEF IInv, DrainInv, Stopped, closeVars
<1>5. OrderlyShutdown'
  BY <1>1, <1>2 DEF IInv, OrderlyShutdown, DestroyedOnceInReverse,
     DestroyedAfterDrain, NoReadyAfterClose, closeVars
<1> QED BY <1>3, <1>4, <1>5 DEF IInv

\* A readiness probe preserves the invariant: one that comes late is refused.
LEMMA ProbeStep ==
    ASSUME IInv, NEW p \in Probes, ProbeArrives(p) \/ ProbeAnswers(p)
    PROVE  IInv'
<1>1. UNCHANGED <<bootVars, jobVars, accepting, listening, inflight, closeVars>>
  BY DEF ProbeArrives, ProbeAnswers
<1> DEFINE States == [at : {"none", "checking", "ready", "refused"}, late : BOOLEAN]
<1>a. probe \in [Probes -> States] /\ closed \in BOOLEAN
  BY DEF IInv, TypeOK
<1>b. PICK s \in States :
         /\ probe' = [probe EXCEPT ![p] = s]
         /\ s.late => s.at = "refused"
  <2>1. CASE ProbeArrives(p)
    <3> DEFINE s == [at |-> IF listening /\ ~draining THEN "checking" ELSE "refused",
                     late |-> closed]
    <3>1. s \in States /\ (s.late => s.at = "refused")
      BY <1>a DEF IInv, ProbeInv
    <3>2. probe' = [probe EXCEPT ![p] = s]
      BY <2>1 DEF ProbeArrives
    <3> HIDE DEF s, States
    <3> QED BY <3>1, <3>2
  <2>2. CASE ProbeAnswers(p)
    <3>1. PICK answer \in {"ready", "refused"} :
             probe' = [probe EXCEPT ![p] = [probe[p] EXCEPT !.at = answer]]
      BY <2>2 DEF ProbeAnswers
    <3>2. ~probe[p].late
      BY <2>2 DEF IInv, ProbeInv, ProbeAnswers
    <3>3. [probe[p] EXCEPT !.at = answer] \in States
          /\ ~[probe[p] EXCEPT !.at = answer].late
      BY <1>a, <3>2
    <3> HIDE DEF States
    <3> QED BY <3>1, <3>3
  <2> QED BY <2>1, <2>2
<1>c. probe' \in [Probes -> States]
  BY <1>a, <1>b
<1>2. TypeOK'
  BY <1>1, <1>c DEF IInv, TypeOK, bootVars, jobVars, closeVars
<1>3. ProbeInv' /\ NoReadyAfterClose'
  <2>1. \A q \in Probes : probe'[q].late => probe'[q].at = "refused"
    BY <1>a, <1>b DEF IInv, ProbeInv
  <2> QED BY <1>1, <2>1 DEF IInv, ProbeInv, NoReadyAfterClose, closeVars
<1>4. BootInv' /\ JobInv' /\ OneWorks' /\ DestroyInv' /\ DrainInv' /\ ReleaseInv'
  BY <1>1 DEF IInv, BootInv, JobInv, OneWorks, DestroyInv, DrainInv,
     ReleaseInv, Working, Stopped, bootVars, jobVars, closeVars
<1>5. OrderlyShutdown'
  BY <1>1, <1>3 DEF IInv, OrderlyShutdown, DestroyedOnceInReverse,
     DestroyedAfterDrain, closeVars
<1> QED BY <1>2, <1>3, <1>4, <1>5 DEF IInv

\* A job that fires or ends preserves the invariant: the guard lets one call in.
LEMMA JobStep ==
    ASSUME IInv, NEW j \in JobIds, JobFires(j) \/ JobEnds(j)
    PROVE  IInv'
<1>1. UNCHANGED <<bootVars, armed, httpVars, closeVars>>
  BY DEF JobFires, JobEnds
<1>2. JobInv' /\ flag' \in [JobIds -> BOOLEAN] /\ bodies' \in [JobIds -> 0..1]
  <2>1. flag \in [JobIds -> BOOLEAN] /\ bodies \in [JobIds -> 0..1]
    BY DEF IInv, TypeOK
  <2>2. JobInv
    BY DEF IInv
  <2> HIDE DEF IInv
  <2>3. CASE JobFires(j)
    BY <2>1, <2>2, <2>3 DEF JobInv, JobFires, Guarded
  <2>4. CASE JobEnds(j)
    BY <2>1, <2>2, <2>4 DEF JobInv, JobEnds
  <2> QED BY <2>3, <2>4
<1>3. TypeOK'
  BY <1>1, <1>2 DEF IInv, TypeOK, bootVars, httpVars, closeVars
<1>4. BootInv' /\ ProbeInv' /\ OneWorks' /\ DestroyInv' /\ DrainInv' /\ ReleaseInv'
  BY <1>1 DEF IInv, BootInv, ProbeInv, OneWorks, DestroyInv, DrainInv,
     ReleaseInv, Working, Stopped, bootVars, httpVars, closeVars
<1>5. OrderlyShutdown'
  BY <1>1 DEF IInv, OrderlyShutdown, DestroyedOnceInReverse, DestroyedAfterDrain,
     NoReadyAfterClose, httpVars, closeVars
<1> QED BY <1>2, <1>3, <1>4, <1>5 DEF IInv

-----------------------------------------------------------------------------
(* close(): one lemma per step of it. *)

Phases == {"none", "grace", "stop", "destroy", "dispose"} \cup Settled
Calls == [at : Phases, next : 0..Instances + 2]

\* Entering a phase changes one call of close() and no other.
LEMMA EntersOne ==
    ASSUME TypeOK, NEW k \in Closers, NEW phase \in Phases, NEW n \in 0..Instances + 2,
           Enters(k, phase, n)
    PROVE  /\ closer' \in [Closers -> Calls]
           /\ closer'[k].at = phase /\ closer'[k].next = n
           /\ \A l \in Closers \ {k} : closer'[l] = closer[l]
<1>1. closer \in [Closers -> Calls]
  BY DEF TypeOK, Calls, Phases
<1>2. At(phase, n) \in Calls
  BY DEF At, Calls
<1>3. closer' = [closer EXCEPT ![k] = At(phase, n)]
  BY DEF Enters
<1>4. At(phase, n).at = phase /\ At(phase, n).next = n
  BY DEF At
<1> HIDE DEF Calls
<1> QED BY <1>1, <1>2, <1>3, <1>4

\* A call of close() that works leaves the program booted and `closed` set, and
\* no other call works beside it.
LEMMA WorkingAlone ==
    ASSUME IInv, NEW k \in Closers, Working(k)
    PROVE  /\ boot.at = "done" /\ closed
           /\ \A l \in Closers \ {k} : ~Working(l)
  BY DEF IInv, BootInv, OneWorks, Working

\* Close(k) preserves the invariant: the first call starts to work with nothing
\* destroyed, every other returns.
LEMMA CloseStep ==
    ASSUME IInv, NEW k \in Closers, Close(k)
    PROVE  IInv'
<1> USE DEF Phases, Settled
<1>1. UNCHANGED <<bootVars, jobVars, httpVars, destroyed, threw, forced>>
  BY DEF Close
<1>2. TypeOK /\ closed \in BOOLEAN /\ draining \in BOOLEAN
  BY DEF IInv, TypeOK
<1>3. \/ closed /\ Enters(k, "resolved", 0) /\ UNCHANGED <<closed, draining>>
      \/ ~closed /\ Enters(k, "grace", 0) /\ closed' /\ draining'
  BY <1>2 DEF Close, MarkClosedAndDraining
<1>4. /\ closer' \in [Closers -> Calls]
      /\ closer'[k].at = (IF closed THEN "resolved" ELSE "grace")
      /\ \A l \in Closers \ {k} : closer'[l] = closer[l]
  BY <1>2, <1>3, EntersOne
<1>5. closed' /\ draining'
  BY <1>2, <1>3 DEF IInv, ProbeInv
<1>6. TypeOK'
  BY <1>1, <1>2, <1>4, <1>5, <1>3 DEF IInv, TypeOK, Calls, bootVars, jobVars, httpVars
<1>7. BootInv' /\ JobInv' /\ ProbeInv'
  BY <1>1, <1>4, <1>5 DEF IInv, BootInv, JobInv, ProbeInv, Close, bootVars, jobVars, httpVars
<1>8. OneWorks'
  BY <1>4, <1>5 DEF IInv, OneWorks, Working
<1>9. DestroyInv' /\ DrainInv' /\ ReleaseInv'
  BY <1>1, <1>4, <1>5 DEF IInv, DestroyInv, DrainInv, ReleaseInv, OneWorks, Close,
     Working, Stopped, bootVars, jobVars, httpVars
<1>10. OrderlyShutdown'
  BY <1>1 DEF IInv, OrderlyShutdown, DestroyedOnceInReverse, DestroyedAfterDrain,
     NoReadyAfterClose, httpVars
<1> QED BY <1>6, <1>7, <1>8, <1>9, <1>10 DEF IInv

\* What every later step of close() keeps: it only moves on the call that works.
LEMMA ClosingKeeps ==
    ASSUME IInv, NEW k \in Closers, Working(k),
           NEW phase \in Phases \ {"none"}, NEW n \in 0..Instances + 2, Enters(k, phase, n),
           UNCHANGED <<boot, flag, bodies, probe, draining, closed>>,
           accepting' => accepting
    PROVE  /\ BootInv' /\ JobInv' /\ ProbeInv' /\ OneWorks'
           /\ closer' \in [Closers -> Calls]
           /\ closer'[k].at = phase /\ closer'[k].next = n
           /\ \A l \in Closers \ {k} : closer'[l] = closer[l] /\ ~Working(l) /\ ~Working(l)'
           /\ boot.at = "done" /\ closed
<1>1. TypeOK
  BY DEF IInv
<1>2. /\ closer' \in [Closers -> Calls]
      /\ closer'[k].at = phase /\ closer'[k].next = n
      /\ \A l \in Closers \ {k} : closer'[l] = closer[l]
  BY <1>1, EntersOne
<1>3. boot.at = "done" /\ closed /\ \A l \in Closers \ {k} : ~Working(l)
  BY WorkingAlone
<1>4. \A l \in Closers \ {k} : ~Working(l)'
  BY <1>2, <1>3 DEF Working
<1>5. BootInv' /\ JobInv' /\ ProbeInv'
  BY <1>2, <1>3 DEF IInv, BootInv, JobInv, ProbeInv
<1>6. OneWorks'
  BY <1>3, <1>4 DEF OneWorks
<1> QED BY <1>2, <1>3, <1>4, <1>5, <1>6

\* HttpServer.stop begins: nothing is accepted any more and nothing destroyed yet.
LEMMA GraceOverStep ==
    ASSUME IInv, NEW k \in Closers, GraceOver(k)
    PROVE  IInv'
<1> USE DEF Phases, Settled
<1>1. /\ closer[k].at = "grace" /\ ~accepting' /\ Enters(k, "stop", 0)
      /\ UNCHANGED <<bootVars, jobVars, listening, inflight, probe,
                     draining, closed, destroyed, threw, forced>>
  BY DEF GraceOver
<1>2. Working(k) /\ UNCHANGED <<boot, flag, bodies, probe, draining, closed>>
  BY <1>1 DEF Working, bootVars, jobVars
<1>3. /\ BootInv' /\ JobInv' /\ ProbeInv' /\ OneWorks'
      /\ closer' \in [Closers -> Calls]
      /\ closer'[k].at = "stop"
      /\ \A l \in Closers \ {k} : closer'[l] = closer[l] /\ ~Working(l) /\ ~Working(l)'
  BY <1>1, <1>2, ClosingKeeps
<1>4. TypeOK'
  BY <1>1, <1>3 DEF IInv, TypeOK, Calls, GraceOver, bootVars, jobVars
<1>5. DestroyInv' /\ DrainInv' /\ ReleaseInv'
  BY <1>1, <1>3 DEF IInv, DestroyInv, DrainInv, ReleaseInv, Working, Stopped
<1>6. OrderlyShutdown'
  BY <1>1 DEF IInv, OrderlyShutdown, DestroyedOnceInReverse, DestroyedAfterDrain,
     NoReadyAfterClose
<1> QED BY <1>3, <1>4, <1>5, <1>6 DEF IInv

\* The server has stopped, drained or forced: the destroy hooks can begin with
\* the last provider.
LEMMA StoppedStep ==
    ASSUME IInv, NEW k \in Closers, Drained(k) \/ DrainTimesOut(k)
    PROVE  IInv'
<1> USE DEF Phases, Settled
<1>1. /\ closer[k].at = "stop" /\ Enters(k, "destroy", Instances)
      /\ UNCHANGED <<bootVars, jobVars, httpVars, draining, closed, destroyed, threw>>
      /\ (inflight = {} /\ forced' = forced) \/ forced' = TRUE
  BY DEF Drained, DrainTimesOut, DrainDone
<1>2. Working(k) /\ UNCHANGED <<boot, flag, bodies, probe, draining, closed, accepting, inflight>>
  BY <1>1 DEF Working, bootVars, jobVars, httpVars
<1>3. /\ BootInv' /\ JobInv' /\ ProbeInv' /\ OneWorks'
      /\ closer' \in [Closers -> Calls]
      /\ closer'[k].at = "destroy" /\ closer'[k].next = Instances
      /\ \A l \in Closers \ {k} : closer'[l] = closer[l] /\ ~Working(l) /\ ~Working(l)'
      /\ closed
  BY <1>1, <1>2, ClosingKeeps, AppLifecycleAssumption
<1>4. TypeOK'
  <2>1. forced' \in BOOLEAN
    BY <1>1 DEF IInv, TypeOK
  <2> QED BY <1>1, <1>3, <2>1 DEF IInv, TypeOK, Calls, bootVars, jobVars, httpVars
<1>5. ~accepting /\ \A i \in 1..Instances : destroyed[i] = 0
  BY <1>1 DEF IInv, DrainInv, DestroyInv, Stopped
<1>6. DestroyInv' /\ DrainInv' /\ ReleaseInv'
  <2>1. DestroyInv'
    BY <1>1, <1>2, <1>3, <1>5, AppLifecycleAssumption DEF DestroyInv, Working
  <2>2. DrainInv'
    BY <1>1, <1>2, <1>3, <1>5 DEF DrainInv, Working, Stopped
  <2>3. ReleaseInv'
    BY <1>3 DEF ReleaseInv, Working
  <2> QED BY <2>1, <2>2, <2>3
<1>7. OrderlyShutdown'
  BY <1>1, <1>2, <1>5 DEF IInv, OrderlyShutdown, DestroyedOnceInReverse, DestroyedAfterDrain,
     NoReadyAfterClose
<1> QED BY <1>3, <1>4, <1>6, <1>7 DEF IInv

\* One destroy hook runs, for the last provider that is not yet destroyed.
LEMMA DestroyHookStep ==
    ASSUME IInv, NEW k \in Closers, DestroyHook(k)
    PROVE  IInv'
<1> USE DEF Phases, Settled
<1> DEFINE i == closer[k].next
<1>1. /\ closer[k].at = "destroy" /\ i \in 1..Instances /\ Working(k)
      /\ \A j \in 1..Instances : destroyed[j] = IF j > i THEN 1 ELSE 0
  BY DEF IInv, DestroyInv, DestroyHook, Working
<1>2. /\ destroyed' = [destroyed EXCEPT ![i] = @ + 1]
      /\ UNCHANGED <<bootVars, jobVars, httpVars, draining, closed, forced>>
  BY DEF DestroyHook
<1>3. PICK phase \in {"dispose", "destroy", "rejected"}, n \in 0..Instances :
         /\ Enters(k, phase, IF phase = "dispose" THEN 2 ELSE n)
         /\ phase = "dispose" => i = 1 /\ threw' = threw
         /\ phase = "destroy" => i > 1 /\ n = i - 1 /\ threw' = threw
         /\ phase = "rejected" => threw' = TRUE
  <2>1. CASE Enters(k, "rejected", 0) /\ threw' = TRUE
    <3>1. 0 \in 0..Instances
      BY AppLifecycleAssumption
    <3> USE <3>1
    <3> WITNESS "rejected" \in {"dispose", "destroy", "rejected"}, 0 \in 0..Instances
    <3> QED BY <2>1
  <2>2. CASE i = 1 /\ Enters(k, "dispose", 2) /\ threw' = threw
    BY <2>2, AppLifecycleAssumption
  <2>3. CASE i # 1 /\ Enters(k, "destroy", i - 1) /\ threw' = threw
    <3>1. i - 1 \in 0..Instances /\ i > 1
      BY <1>1, <2>3, AppLifecycleAssumption
    <3> USE <3>1
    <3> HIDE DEF i
    <3> WITNESS "destroy" \in {"dispose", "destroy", "rejected"}, i - 1 \in 0..Instances
    <3> QED BY <2>3, <3>1
  <2> QED BY <2>1, <2>2, <2>3 DEF DestroyHook
<1> DEFINE m == IF phase = "dispose" THEN 2 ELSE n
<1>4. m \in 0..Instances + 2 /\ phase \in Phases \ {"none"}
  BY AppLifecycleAssumption
<1>5. UNCHANGED <<boot, flag, bodies, probe, draining, closed, accepting, inflight, armed>>
  BY <1>2 DEF bootVars, jobVars, httpVars
<1>6. /\ BootInv' /\ JobInv' /\ ProbeInv' /\ OneWorks'
      /\ closer' \in [Closers -> Calls]
      /\ closer'[k].at = phase /\ closer'[k].next = m
      /\ \A l \in Closers \ {k} : closer'[l] = closer[l] /\ ~Working(l) /\ ~Working(l)'
      /\ closed
  <2> HIDE DEF m, i, Phases
  <2>1. Enters(k, phase, m)
    BY <1>3 DEF m
  <2> QED BY <1>1, <1>4, <1>5, <2>1, ClosingKeeps
<1>7. destroyed \in [1..Instances -> 0..1] /\ threw \in BOOLEAN
  BY DEF IInv, TypeOK
<1>8. /\ destroyed' \in [1..Instances -> 0..1]
      /\ \A j \in 1..Instances : destroyed'[j] = IF j > i - 1 THEN 1 ELSE 0
  BY <1>1, <1>2, <1>7, AppLifecycleAssumption
<1>9. TypeOK'
  <2>1. threw' \in BOOLEAN
    BY <1>3, <1>7
  <2> QED BY <1>2, <1>6, <1>8, <2>1 DEF IInv, TypeOK, Calls, bootVars, jobVars, httpVars
<1>10. ~accepting /\ (inflight = {} \/ forced)
  BY <1>1 DEF IInv, DrainInv, Stopped
<1>11. DestroyInv'
  <2>1. phase = "destroy" => m = i - 1 /\ m \in 1..Instances
    BY <1>1, <1>3, AppLifecycleAssumption
  <2>2. phase = "dispose" => m \in 1..2
    OBVIOUS
  <2> HIDE DEF i, m
  <2> QED BY <1>5, <1>6, <1>8, <2>1, <2>2 DEF DestroyInv, Working
<1>12. DrainInv'
  BY <1>2, <1>5, <1>6, <1>10 DEF DrainInv, Working, Stopped
<1>13. ReleaseInv'
  BY <1>3, <1>6 DEF ReleaseInv, Working
<1>14. OrderlyShutdown'
  <2>1. DestroyedOnceInReverse'
    BY <1>1, <1>8, AppLifecycleAssumption DEF DestroyedOnceInReverse
  <2>2. DestroyedAfterDrain' /\ NoReadyAfterClose'
    BY <1>2, <1>5, <1>10 DEF IInv, OrderlyShutdown, DestroyedAfterDrain, NoReadyAfterClose
  <2> QED BY <2>1, <2>2 DEF OrderlyShutdown
<1> QED BY <1>6, <1>9, <1>11, <1>12, <1>13, <1>14 DEF IInv

\* The consumers are off or their disposer failed; the scheduler comes next.
LEMMA DisposeRabbitStep ==
    ASSUME IInv, NEW k \in Closers, DisposeRabbit(k)
    PROVE  IInv'
<1> USE DEF Phases, Settled
<1>1. /\ closer[k].at = "dispose" /\ Enters(k, "dispose", 1)
      /\ consuming' \in {FALSE, consuming}
      /\ UNCHANGED <<boot, jobVars, httpVars, draining, closed, destroyed, threw, forced>>
  BY DEF DisposeRabbit, AfterDisposer
<1>2. Working(k) /\ UNCHANGED <<boot, flag, bodies, probe, draining, closed, accepting,
                               inflight, armed>>
  BY <1>1 DEF Working, jobVars, httpVars
<1>3. /\ BootInv' /\ JobInv' /\ ProbeInv' /\ OneWorks'
      /\ closer' \in [Closers -> Calls]
      /\ closer'[k].at = "dispose" /\ closer'[k].next = 1
      /\ \A l \in Closers \ {k} : closer'[l] = closer[l] /\ ~Working(l) /\ ~Working(l)'
      /\ closed
  BY <1>1, <1>2, ClosingKeeps, AppLifecycleAssumption
<1>4. TypeOK'
  <2>1. consuming' \in BOOLEAN
    BY <1>1 DEF IInv, TypeOK
  <2> QED BY <1>1, <1>3, <2>1 DEF IInv, TypeOK, Calls, jobVars, httpVars
<1>5. ~accepting /\ (inflight = {} \/ forced)
  BY <1>1 DEF IInv, DrainInv, Stopped
<1>6. DestroyInv'
  BY <1>2, <1>3 DEF DestroyInv, Working
<1>7. DrainInv' /\ ReleaseInv'
  BY <1>1, <1>2, <1>3, <1>5 DEF DrainInv, ReleaseInv, Working, Stopped
<1>8. OrderlyShutdown'
  BY <1>1, <1>2 DEF IInv, OrderlyShutdown, DestroyedOnceInReverse, DestroyedAfterDrain,
     NoReadyAfterClose
<1> QED BY <1>3, <1>4, <1>6, <1>7, <1>8 DEF IInv

\* The timers are cleared, and the call of close() settles.
LEMMA DisposeSchedulerStep ==
    ASSUME IInv, NEW k \in Closers, DisposeScheduler(k)
    PROVE  IInv'
<1> USE DEF Phases
<1>1. PICK outcome \in Settled : Enters(k, outcome, 0)
  BY DEF DisposeScheduler
<1>2. /\ closer[k].at = "dispose" /\ armed' = {}
      /\ UNCHANGED <<bootVars, flag, bodies, httpVars, draining, closed, destroyed, threw, forced>>
  BY DEF DisposeScheduler
<1>3. Working(k) /\ UNCHANGED <<boot, flag, bodies, probe, draining, closed, accepting, inflight>>
  BY <1>2 DEF Working, bootVars, httpVars
<1>4. /\ BootInv' /\ JobInv' /\ ProbeInv' /\ OneWorks'
      /\ closer' \in [Closers -> Calls]
      /\ closer'[k].at = outcome
      /\ \A l \in Closers \ {k} : closer'[l] = closer[l] /\ ~Working(l) /\ ~Working(l)'
      /\ closed
  <2>1. outcome \in Phases \ {"none"} /\ 0 \in 0..Instances + 2
    BY AppLifecycleAssumption DEF Settled
  <2> HIDE DEF Phases
  <2> QED BY <1>1, <1>2, <1>3, <2>1, ClosingKeeps
<1>5. TypeOK'
  BY <1>2, <1>4 DEF IInv, TypeOK, Calls, bootVars, httpVars
<1>6. ~accepting
  BY <1>2 DEF IInv, DrainInv, Stopped
<1>7. DestroyInv' /\ DrainInv' /\ ReleaseInv'
  BY <1>2, <1>3, <1>4, <1>6 DEF DestroyInv, DrainInv, ReleaseInv, Working, Stopped, Settled
<1>8. OrderlyShutdown'
  BY <1>2, <1>3 DEF IInv, OrderlyShutdown, DestroyedOnceInReverse, DestroyedAfterDrain,
     NoReadyAfterClose
<1> QED BY <1>4, <1>5, <1>7, <1>8 DEF IInv

-----------------------------------------------------------------------------

\* Every step of the application preserves the invariant.
LEMMA NextIInv == IInv /\ [Next]_vars => IInv'
<1> SUFFICES ASSUME IInv, [Next]_vars PROVE IInv'
  OBVIOUS
<1>1. CASE InitHook \/ BootstrapHook \/ StartScheduler \/ Listen
  BY <1>1, BootStep
<1>2. CASE \E r \in Requests : RequestArrives(r) \/ RequestEnds(r)
  BY <1>2, RequestStep
<1>3. CASE \E p \in Probes : ProbeArrives(p) \/ ProbeAnswers(p)
  BY <1>3, ProbeStep
<1>4. CASE \E j \in JobIds : JobFires(j) \/ JobEnds(j)
  BY <1>4, JobStep
<1>5. ASSUME NEW k \in Closers, Close(k) \/ Closing(k) PROVE IInv'
  BY <1>5, CloseStep, GraceOverStep, StoppedStep, DestroyHookStep, DisposeRabbitStep,
     DisposeSchedulerStep DEF Closing
<1>6. CASE UNCHANGED vars
  BY <1>6 DEF vars, bootVars, jobVars, httpVars, closeVars, IInv, TypeOK, BootInv, JobInv,
     ProbeInv, OneWorks, DestroyInv, DrainInv, ReleaseInv, Working, Stopped,
     OrderlyShutdown, DestroyedOnceInReverse, DestroyedAfterDrain, NoReadyAfterClose
<1> QED BY <1>1, <1>2, <1>3, <1>4, <1>5, <1>6 DEF Next

\* The invariant holds at every moment, for any number of providers, jobs,
\* requests, probes and calls of close().
THEOREM AlwaysIInv == Spec => []IInv
BY InitIInv, NextIInv, PTL DEF Spec

\* The variables keep their types; in particular no provider is destroyed and
\* no guarded job is called a second time while it is.
THEOREM TypeCorrect == Spec => []TypeOK
<1>1. IInv => TypeOK
  BY DEF IInv
<1> QED BY <1>1, AlwaysIInv, PTL

\* close() destroys each provider at most once, in reverse order of construction
\* and only after the drain, and no probe that comes after it is told "ready",
\* however many calls of close() overlap (Application.close).
THEOREM ShutdownIsOrderly == Spec => []OrderlyShutdown
<1>1. IInv => OrderlyShutdown
  BY DEF IInv
<1> QED BY <1>1, AlwaysIInv, PTL

\* When no call of close() is under way and no destroy hook threw, the timers
\* are cleared and the server is down, whichever disposers threw (disposeAll).
THEOREM Released == Spec => []ReleasedUnlessHookThrew
<1>1. IInv => ReleasedUnlessHookThrew
  <2> SUFFICES ASSUME IInv, CloseOver, ~threw PROVE armed = {} /\ ~accepting
    BY DEF ReleasedUnlessHookThrew
  <2>1. closed /\ \A k \in Closers : ~Working(k)
    BY DEF CloseOver, Working, Settled
  <2>2. \A k \in Closers : closer[k].at # "grace"
    BY <2>1 DEF Working
  <2> QED BY <2>1, <2>2 DEF IInv, ReleaseInv, DrainInv
<1> QED BY <1>1, AlwaysIInv, PTL
=============================================================================
