----------------------------- MODULE AppLifecycle -----------------------------
(***************************************************************************)
(* Start-up and shutdown of an application (core/application.ts), with the *)
(* lifecycle hooks (core/lifecycle.ts), the disposables                    *)
(* (core/disposable.ts), the scheduler (scheduling/scheduler.ts) and the   *)
(* draining of the HTTP server (http/server.ts).                           *)
(*                                                                         *)
(* Every await of create() and close() ends a step: requests, readiness    *)
(* probes, scheduled jobs and a second close() come in between.  A hook    *)
(* may throw wherever the user's code is called.  A request and a job take *)
(* as long as they like.  listen() needs the value create() returns, so an *)
(* application that failed to start can be neither used nor closed.        *)
(***************************************************************************)
EXTENDS Naturals, FiniteSets

CONSTANTS
    Instances,      \* number of providers, in order of construction
    Jobs,           \* number of schedule entries, in order of registration
    Requests,       \* HTTP requests
    Probes,         \* requests of the readiness endpoint
    Closers,        \* callers of close(): the program, the signals
    Signals         \* those of them that listen() installs; none if
                    \* options.gracefulShutdown is false

ASSUME AppLifecycleAssumption ==
    Instances \in Nat \ {0} /\ Jobs \in Nat /\ Signals \subseteq Closers

VARIABLES
    boot,       \* how far create() is: its phase and the next element of it
    consuming,  \* whether the RabbitMQ consumers are on
    armed,      \* the jobs whose timer is set
    flag,       \* per job: the variable `running` of its guard
    bodies,     \* per job: the calls of its method in progress
    accepting,  \* whether the server accepts requests
    listening,  \* readiness.listening
    draining,   \* readiness.draining
    closed,     \* Application.closed
    inflight,   \* requests being handled
    probe,      \* per probe: where it is, and whether close() came before it
    closer,     \* per close() call: its phase and the next element of it
    destroyed,  \* history: how often onModuleDestroy was called, per instance
    threw,      \* history: whether a destroy hook threw
    forced      \* history: whether the drain timed out

bootVars == <<boot, consuming>>
jobVars == <<armed, flag, bodies>>
httpVars == <<accepting, listening, inflight, probe>>
closeVars == <<draining, closed, closer, destroyed, threw, forced>>
vars == <<bootVars, jobVars, httpVars, closeVars>>

JobIds == 1..Jobs
At(phase, next) == [at |-> phase, next |-> next]
Settled == {"resolved", "rejected"}

TypeOK ==
    /\ boot \in [at : {"init", "bootstrap", "schedule", "done", "failed"},
                 next : 1..Instances + Jobs + 1]
    /\ consuming \in BOOLEAN
    /\ armed \subseteq JobIds
    /\ flag \in [JobIds -> BOOLEAN]
    /\ bodies \in [JobIds -> 0..1]
    /\ accepting \in BOOLEAN /\ listening \in BOOLEAN
    /\ draining \in BOOLEAN /\ closed \in BOOLEAN
    /\ inflight \subseteq Requests
    /\ probe \in [Probes -> [at : {"none", "checking", "ready", "refused"},
                             late : BOOLEAN]]
    /\ closer \in [Closers ->
          [at : {"none", "grace", "stop", "destroy", "dispose"} \cup Settled,
           next : 0..Instances + 2]]
    /\ destroyed \in [1..Instances -> 0..1]
    /\ threw \in BOOLEAN /\ forced \in BOOLEAN

Init ==
    /\ boot = At("init", 1)
    /\ consuming = FALSE
    /\ armed = {}
    /\ flag = [j \in JobIds |-> FALSE]
    /\ bodies = [j \in JobIds |-> 0]
    /\ accepting = FALSE /\ listening = FALSE
    /\ draining = FALSE /\ closed = FALSE
    /\ inflight = {}
    /\ probe = [p \in Probes |-> [at |-> "none", late |-> FALSE]]
    /\ closer = [k \in Closers |-> At("none", 0)]
    /\ destroyed = [i \in 1..Instances |-> 0]
    /\ threw = FALSE /\ forced = FALSE

-----------------------------------------------------------------------------
(* create() and listen() *)

CreateFails ==
    /\ boot' = At("failed", 1)
    /\ UNCHANGED <<consuming, armed>>

\* runLifecycle(onModuleInit), one hook at a time; then wireRabbit starts the
\* consumers and the HTTP server object is built.
InitHook ==
    /\ boot.at = "init"
    /\ \/ /\ boot.next < Instances
          /\ boot' = At("init", boot.next + 1)
          /\ UNCHANGED <<consuming, armed>>
       \/ /\ boot.next = Instances
          /\ boot' = At("bootstrap", 1)
          /\ consuming' = TRUE
          /\ UNCHANGED armed
       \/ CreateFails
    /\ UNCHANGED <<flag, bodies, httpVars, closeVars>>

\* runLifecycle(onApplicationBootstrap).
BootstrapHook ==
    /\ boot.at = "bootstrap"
    /\ \/ /\ boot.next < Instances
          /\ boot' = At("bootstrap", boot.next + 1)
          /\ UNCHANGED <<consuming, armed>>
       \/ /\ boot.next = Instances
          /\ boot' = At("schedule", 1)
          /\ UNCHANGED <<consuming, armed>>
       \/ CreateFails
    /\ UNCHANGED <<flag, bodies, httpVars, closeVars>>

\* Scheduler.start, in one go: an invalid cron expression throws, and the
\* timers of the entries before it stay set.
StartScheduler ==
    /\ boot.at = "schedule"
    /\ \/ /\ boot' = At("done", 1)
          /\ armed' = JobIds
       \/ /\ boot' = At("failed", 1)
          /\ \E j \in JobIds : armed' = 1..(j - 1)
    /\ UNCHANGED <<consuming, flag, bodies, httpVars, closeVars>>

\* listen(), which also installs the signal handlers; callers use it once,
\* before close().
Listen ==
    /\ boot.at = "done"
    /\ ~listening /\ ~closed
    /\ accepting' = TRUE
    /\ listening' = TRUE
    /\ UNCHANGED <<bootVars, jobVars, inflight, probe, closeVars>>

-----------------------------------------------------------------------------
(* What goes on meanwhile *)

RequestArrives(r) ==
    /\ accepting
    /\ r \notin inflight
    /\ inflight' = inflight \cup {r}
    /\ UNCHANGED <<bootVars, jobVars, accepting, listening, probe, closeVars>>

RequestEnds(r) ==
    /\ r \in inflight
    /\ inflight' = inflight \ {r}
    /\ UNCHANGED <<bootVars, jobVars, accepting, listening, probe, closeVars>>

\* /ready: isReady() reads the two flags and then awaits the checks.
ProbeArrives(p) ==
    /\ accepting
    /\ probe[p].at = "none"
    /\ probe' = [probe EXCEPT ![p] =
          [at |-> IF listening /\ ~draining THEN "checking" ELSE "refused",
           late |-> closed]]
    /\ UNCHANGED <<bootVars, jobVars, accepting, listening, inflight, closeVars>>

\* The checks answer.  Nobody looks at the flags again.
ProbeAnswers(p) ==
    /\ probe[p].at = "checking"
    /\ \E answer \in {"ready", "refused"} : probe' = [probe EXCEPT ![p].at = answer]
    /\ UNCHANGED <<bootVars, jobVars, accepting, listening, inflight, closeVars>>

\* Slip: the guard does not look whether the job is still running.
Unguarded(j) == TRUE

Guarded(j) == ~flag[j]

\* A timer fires; the guard skips the call while the last one is running.
JobFires(j) ==
    /\ j \in armed
    /\ Guarded(j)
    /\ flag' = [flag EXCEPT ![j] = TRUE]
    /\ bodies' = [bodies EXCEPT ![j] = @ + 1]
    /\ UNCHANGED <<bootVars, armed, httpVars, closeVars>>

\* The job's method settles; an error is only logged.
JobEnds(j) ==
    /\ bodies[j] > 0
    /\ bodies' = [bodies EXCEPT ![j] = @ - 1]
    /\ flag' = [flag EXCEPT ![j] = FALSE]
    /\ UNCHANGED <<bootVars, armed, httpVars, closeVars>>

-----------------------------------------------------------------------------
(* close() *)

Enters(k, phase, next) == closer' = [closer EXCEPT ![k] = At(phase, next)]

\* Slip: close() does not remember that it was called.
MarkDraining == draining' = TRUE /\ UNCHANGED closed

MarkClosedAndDraining == closed' = TRUE /\ draining' = TRUE

\* A signal has a handler from listen() until close() begins: installSignals
\* and removeSignals.  Without one it ends the process, which is no step here.
SignalsInstalled == listening /\ ~closed

\* close(): a second call, which only the program can make, returns at once
\* while the first one is under way.
Close(k) ==
    /\ boot.at = "done"
    /\ k \in Signals => SignalsInstalled
    /\ closer[k].at = "none"
    /\ IF closed THEN Enters(k, "resolved", 0) /\ UNCHANGED <<closed, draining>>
       ELSE Enters(k, "grace", 0) /\ MarkClosedAndDraining
    /\ UNCHANGED <<bootVars, jobVars, httpVars, destroyed, threw, forced>>

\* The grace period is over: HttpServer.stop, which ends the accepting.
GraceOver(k) ==
    /\ closer[k].at = "grace"
    /\ accepting' = FALSE
    /\ Enters(k, "stop", 0)
    /\ UNCHANGED <<bootVars, jobVars, listening, inflight, probe,
                   draining, closed, destroyed, threw, forced>>

DrainDone == inflight = {}

\* Slip: there is no limit to the drain.
DrainUnlimited == FALSE

DrainTooLong == inflight # {}

Drained(k) ==
    /\ closer[k].at = "stop"
    /\ DrainDone
    /\ Enters(k, "destroy", Instances)
    /\ UNCHANGED <<bootVars, jobVars, httpVars, draining, closed, destroyed, threw, forced>>

\* The drain takes longer than shutdownTimeoutMs: server.stop(true) wins the
\* race; the handlers of the cut connections run on.
DrainTimesOut(k) ==
    /\ closer[k].at = "stop"
    /\ DrainTooLong
    /\ forced' = TRUE
    /\ Enters(k, "destroy", Instances)
    /\ UNCHANGED <<bootVars, jobVars, httpVars, draining, closed, destroyed, threw>>

\* runLifecycle(onModuleDestroy, reverse): a hook that throws ends close().
DestroyHook(k) ==
    LET i == closer[k].next IN
    /\ closer[k].at = "destroy"
    /\ destroyed' = [destroyed EXCEPT ![i] = @ + 1]
    /\ \/ /\ IF i = 1 THEN Enters(k, "dispose", 2) ELSE Enters(k, "destroy", i - 1)
          /\ UNCHANGED threw
       \/ /\ Enters(k, "rejected", 0)
          /\ threw' = TRUE
    /\ UNCHANGED <<bootVars, jobVars, httpVars, draining, closed, forced>>

\* Slip: the first disposer that throws ends disposeAll().
AfterDisposerStopping(k) == Enters(k, "dispose", 1) \/ Enters(k, "rejected", 0)

\* A disposer that throws is only remembered.
AfterDisposer(k) == Enters(k, "dispose", 1)

\* disposeAll(), in reverse order: the connection is closed first; whether its
\* disposer throws or not, the scheduler's comes next.
DisposeRabbit(k) ==
    /\ closer[k].at = "dispose" /\ closer[k].next = 2
    /\ AfterDisposer(k)
    /\ consuming' \in {FALSE, consuming}
    /\ UNCHANGED <<boot, jobVars, httpVars, draining, closed, destroyed, threw, forced>>

\* stopAll() clears every timer; jobs that are running are not waited for.
DisposeScheduler(k) ==
    /\ closer[k].at = "dispose" /\ closer[k].next = 1
    /\ armed' = {}
    /\ \E outcome \in Settled : Enters(k, outcome, 0)
    /\ UNCHANGED <<bootVars, flag, bodies, httpVars, draining, closed, destroyed, threw, forced>>

Closing(k) ==
    \/ GraceOver(k) \/ Drained(k) \/ DrainTimesOut(k) \/ DestroyHook(k)
    \/ DisposeRabbit(k) \/ DisposeScheduler(k)

Next ==
    \/ InitHook \/ BootstrapHook \/ StartScheduler \/ Listen
    \/ \E r \in Requests : RequestArrives(r) \/ RequestEnds(r)
    \/ \E p \in Probes : ProbeArrives(p) \/ ProbeAnswers(p)
    \/ \E j \in JobIds : JobFires(j) \/ JobEnds(j)
    \/ \E k \in Closers : Close(k) \/ Closing(k)

Spec == Init /\ [][Next]_vars

\* The timers of close() fire and hooks and disposers settle.  Nothing is
\* assumed of requests, probes and jobs.
FairSpec == Spec /\ \A k \in Closers : WF_vars(Closing(k))

-----------------------------------------------------------------------------

\* close() has been called and every call of it has settled.
CloseOver ==
    closed /\ \A k \in Closers : closer[k].at \in Settled \cup {"none"}

\* However many calls of close() there are, from the program and from signals,
\* each provider is destroyed at most once and only after every provider
\* constructed later (closed, runLifecycle).
DestroyedOnceInReverse ==
    \A i \in 1..Instances :
        /\ destroyed[i] <= 1
        /\ destroyed[i] > 0 => \A later \in i..Instances : destroyed[later] > 0

\* No provider is destroyed under a request: when the first destroy hook runs
\* the server has stopped accepting and has drained, unless the drain was cut
\* off after shutdownTimeoutMs (HttpServer.stop).
DestroyedAfterDrain ==
    (\E i \in 1..Instances : destroyed[i] > 0) =>
        ~accepting /\ (inflight = {} \/ forced)

\* docs/deployment.md: a probe that comes after close() has begun is never
\* told that the application is ready (draining is set before the grace period).
NoReadyAfterClose == \A p \in Probes : probe[p].at = "ready" => ~probe[p].late

\* What close() owes at every moment, to providers, requests and probes,
\* however many calls of it there are and whatever throws or hangs.
OrderlyShutdown == DestroyedOnceInReverse /\ DestroyedAfterDrain /\ NoReadyAfterClose

\* When no close() is under way any more and no destroy hook threw, every
\* timer is cleared and the server is down, even if a disposer threw and even
\* if a second close() returned long before the first (disposeAll).
ReleasedUnlessHookThrew == CloseOver /\ ~threw => armed = {} /\ ~accepting

\* close() settles, even if a request never ends (the forced stop).
CloseSettles ==
    \A k \in Closers : closer[k].at # "none" ~> closer[k].at \in Settled
=============================================================================
