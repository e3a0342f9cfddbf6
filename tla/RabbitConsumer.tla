---------------------------- MODULE RabbitConsumer ----------------------------
(***************************************************************************)
(* One subscription of the RabbitMQ module: consumeQueue and handleFailure *)
(* of messaging/rabbitmq-module.ts, with the retry policy of retry.ts and  *)
(* the subscription's own circuit breaker in front of its handler.         *)
(*                                                                         *)
(* What the process keeps (handlers that run, backoff timers, both with    *)
(* the channel they captured) is separate from what the broker keeps       *)
(* (ready and unacknowledged copies, the dead-letter queue).  What the     *)
(* process sends travels on the wire of its channel and is lost with it.   *)
(* A connection is re-established, and the consumer registered again, by   *)
(* RabbitConnection; here that is one step, Resubscribe.                   *)
(***************************************************************************)
EXTENDS Breaker, Sequences, FiniteSets

CONSTANTS
    Messages,
    MaxAttempts,    \* retry.maxAttempts
    HasDlq,         \* whether the queue has a dead-letter queue
    Prefetch,       \* the channel's prefetch count
    MaxFaults       \* bound: lost connections and crashes of the process

ASSUME RabbitConsumerAssumption ==
    /\ MaxAttempts \in Nat \ {0}
    /\ HasDlq \in BOOLEAN
    /\ Prefetch \in Nat \ {0}
    /\ MaxFaults \in Nat

\* A copy of a message: its x-attempt header, 1 when there is none.
Copies == [msg : Messages, attempt : 1..MaxAttempts]
Channels == 0..MaxFaults

VARIABLES
    work,       \* broker: how many of each copy are ready in the queue
    unacked,    \* broker: the copies delivered on the channel, not acknowledged
    dlq,        \* broker: how often each message is in the dead-letter queue
    wire,       \* frames sent on the channel that the broker has not processed
    channel,    \* the number of the channel in use
    up,         \* whether that channel is alive
    running,    \* handler calls in progress, with the channel they came from
    timers,     \* backoff timers, with the channel captured in them
    breaker,    \* the subscription's circuit breaker
    published,  \* history: the messages the broker has accepted
    handled,    \* history: how often the handler succeeded for each message
    calls,      \* history: how often the handler was called for each message
    redelivered,\* history: how often a delivery of each message was undone
    faults

process == <<running, timers, breaker>>
broker == <<work, unacked, dlq>>
link == <<wire, channel, up>>
history == <<published, handled, calls, redelivered>>
vars == <<broker, link, process, history, faults>>

Count == [Messages -> 0..(MaxAttempts + 1) * (MaxFaults + 1)]

TypeOK ==
    /\ work \in [Copies -> Nat]
    /\ unacked \subseteq Copies
    /\ dlq \in Count
    /\ wire \in Seq([kind : {"ack", "work"}, copy : Copies] \cup
                    [kind : {"dlq"}, msg : Messages])
    /\ channel \in Channels
    /\ up \in BOOLEAN
    /\ running \subseteq [copy : Copies, channel : Channels]
    /\ timers \subseteq [copy : Copies, channel : Channels]
    /\ breaker \in BreakerRecord
    /\ published \subseteq Messages
    /\ handled \in Count
    /\ calls \in Count
    /\ redelivered \in Count
    /\ faults \in 0..MaxFaults

Init ==
    /\ work = [c \in Copies |-> 0]
    /\ unacked = {}
    /\ dlq = [m \in Messages |-> 0]
    /\ wire = << >>
    /\ channel = 0
    /\ up = TRUE
    /\ running = {}
    /\ timers = {}
    /\ breaker = NewBreaker
    /\ published = {}
    /\ handled = [m \in Messages |-> 0]
    /\ calls = [m \in Messages |-> 0]
    /\ redelivered = [m \in Messages |-> 0]
    /\ faults = 0

-----------------------------------------------------------------------------
(* The process *)

Alive(ch) == up /\ ch = channel
Ack(c) == [kind |-> "ack", copy |-> c]

\* Slip: a message is retried one time too many.
ShouldRetryOnceMore(attempt) == attempt <= MaxAttempts

\* shouldRetry (retry.ts).
ShouldRetry(attempt) == attempt < MaxAttempts

\* Slip: the retry is sent with the attempt number it came with.
RetryOfSame(c) == c

\* The message as it is sent again, with the next attempt in its header.
RetryOf(c) == [c EXCEPT !.attempt = @ + 1]

\* Slip: what cannot be retried is acknowledged and forgotten.
DeadLetterNothing(m) == << >>

\* The message goes to the dead-letter queue (without one, only to the log).
DeadLetter(m) == IF HasDlq THEN <<[kind |-> "dlq", msg |-> m]>> ELSE << >>

\* The catch block: acknowledge, then handleFailure: a timer for the retry or,
\* after the last attempt, the dead-letter queue.
AckAndHandleFailure(c) ==
    IF ShouldRetry(c.attempt)
    THEN /\ wire' = Append(wire, Ack(c))
         /\ timers' = timers \cup {[copy |-> RetryOf(c), channel |-> channel]}
    ELSE /\ wire' = wire \o <<Ack(c)>> \o DeadLetter(c.msg)
         /\ UNCHANGED timers

\* The consumer's callback up to the call of the handler: the breaker admits it.
Deliver(c) ==
    LET b == Current(breaker) IN
    /\ up
    /\ work[c] > 0
    /\ Cardinality(unacked) < Prefetch
    /\ work' = [work EXCEPT ![c] = @ - 1]
    /\ unacked' = unacked \cup {c}
    /\ breaker' = b
    /\ \/ /\ b.state # "open"
          /\ running' = running \cup {[copy |-> c, channel |-> channel]}
          /\ calls' = [calls EXCEPT ![c.msg] = @ + 1]
          /\ UNCHANGED <<wire, timers>>
       \/ /\ b.state = "open"           \* CircuitOpenError: handled as a failure
          /\ AckAndHandleFailure(c)
          /\ UNCHANGED <<running, calls>>
    /\ UNCHANGED <<dlq, channel, up, published, handled, redelivered, faults>>

\* The handler resolves and the message is acknowledged.  On a channel that is
\* gone ack() throws, twice, and the callback rejects: nothing more is done.
HandlerResolves(r) ==
    /\ running' = running \ {r}
    /\ breaker' = OnSuccess(breaker)
    /\ handled' = [handled EXCEPT ![r.copy.msg] = @ + 1]
    /\ wire' = IF Alive(r.channel) THEN Append(wire, Ack(r.copy)) ELSE wire
    /\ UNCHANGED <<broker, channel, up, timers, published, calls, redelivered, faults>>

\* The handler rejects.  On a channel that is gone ack() throws before
\* handleFailure is reached.
HandlerRejects(r) ==
    /\ running' = running \ {r}
    /\ breaker' = OnFailure(breaker)
    /\ IF Alive(r.channel) THEN AckAndHandleFailure(r.copy)
       ELSE UNCHANGED <<wire, timers>>
    /\ UNCHANGED <<broker, channel, up, history, faults>>

\* Slip: the retry goes out on the channel in use when the timer fires.
CurrentChannelAlive(t) == up

CapturedChannelAlive(t) == Alive(t.channel)

\* The backoff is over: sendToQueue on the channel captured when the message
\* failed; if that one is gone it throws and the message is given up.
Retry(t) ==
    /\ timers' = timers \ {t}
    /\ wire' = IF CapturedChannelAlive(t)
               THEN Append(wire, [kind |-> "work", copy |-> t.copy]) ELSE wire
    /\ UNCHANGED <<broker, channel, up, running, breaker, history, faults>>

Tick ==
    /\ breaker.state = "open"
    /\ breaker.age < CooldownMs
    /\ breaker' = Elapse(breaker)
    /\ UNCHANGED <<broker, link, running, timers, history, faults>>

-----------------------------------------------------------------------------
(* The broker and the connection *)

\* A producer's message reaches the queue; it has no x-attempt header.
Publish(m) ==
    /\ m \notin published
    /\ published' = published \cup {m}
    /\ work' = [work EXCEPT ![[msg |-> m, attempt |-> 1]] = @ + 1]
    /\ UNCHANGED <<unacked, dlq, link, process, handled, calls, redelivered, faults>>

BrokerProcesses ==
    /\ up
    /\ wire # << >>
    /\ wire' = Tail(wire)
    /\ LET f == Head(wire) IN
          /\ unacked' = IF f.kind = "ack" THEN unacked \ {f.copy} ELSE unacked
          /\ work' = IF f.kind = "work" THEN [work EXCEPT ![f.copy] = @ + 1] ELSE work
          /\ dlq' = IF f.kind = "dlq" THEN [dlq EXCEPT ![f.msg] = @ + 1] ELSE dlq
    /\ UNCHANGED <<channel, up, process, history, faults>>

\* The connection is gone: the frames on the wire are lost and the broker puts
\* every unacknowledged copy back into the queue, with the same header.
LoseConnection ==
    /\ up
    /\ faults < MaxFaults
    /\ faults' = faults + 1
    /\ up' = FALSE
    /\ wire' = << >>
    /\ unacked' = {}
    /\ work' = [c \in Copies |-> work[c] + IF c \in unacked THEN 1 ELSE 0]
    /\ redelivered' = [m \in Messages |-> redelivered[m] +
                          Cardinality({ c \in unacked : c.msg = m })]
    /\ UNCHANGED <<dlq, channel, published, handled, calls>>

Drop == LoseConnection /\ UNCHANGED process

\* The process dies with its connection: handlers and timers are gone, and the
\* next process starts with a new breaker.
Crash ==
    /\ LoseConnection
    /\ running' = {}
    /\ timers' = {}
    /\ breaker' = NewBreaker

\* RabbitConnection has a new channel and has registered the consumer on it.
Resubscribe ==
    /\ ~up
    /\ up' = TRUE
    /\ channel' = channel + 1
    /\ UNCHANGED <<broker, wire, process, history, faults>>

Next ==
    \/ \E m \in Messages : Publish(m)
    \/ \E c \in Copies : Deliver(c)
    \/ \E r \in running : HandlerResolves(r) \/ HandlerRejects(r)
    \/ \E t \in timers : Retry(t)
    \/ BrokerProcesses \/ Drop \/ Crash \/ Resubscribe \/ Tick

Spec == Init /\ [][Next]_vars

\* The broker works, handlers settle (either way), timers fire and a lost
\* connection is re-established.
FairSpec ==
    /\ Spec
    /\ \A c \in Copies : WF_vars(Deliver(c))
    /\ WF_vars(\E r \in running : HandlerResolves(r) \/ HandlerRejects(r))
    /\ WF_vars(\E t \in timers : Retry(t))
    /\ WF_vars(BrokerProcesses) /\ WF_vars(Resubscribe)

-----------------------------------------------------------------------------

\* A frame that brings a copy of m to the broker.
Carries(f, m) ==
    \/ f.kind = "work" /\ f.copy.msg = m
    \/ f.kind = "dlq" /\ f.msg = m
FramesOf(m) == { i \in DOMAIN wire : Carries(wire[i], m) }
AckSent(c) == \E i \in DOMAIN wire : wire[i] = Ack(c)

\* The copies of m that are ready, one element for each.
ReadyOf(m) == UNION { {c} \X (1..work[c]) : c \in { d \in Copies : d.msg = m } }

\* The copies of m that can still lead to a call of the handler or stay in
\* the dead-letter queue: ready, delivered and not settled, waiting in a timer
\* whose channel is alive, under way, or dead-lettered.
LiveCopies(m) ==
    Cardinality(ReadyOf(m))
        + Cardinality({ c \in unacked : c.msg = m /\ ~AckSent(c) })
        + Cardinality({ t \in timers : t.copy.msg = m /\ Alive(t.channel) })
        + Cardinality(FramesOf(m))
        + dlq[m]

\* Retries never multiply a message: however connections are lost between the
\* acknowledgement, the backoff and the requeue, at most one copy of it is
\* alive (consumeQueue, handleFailure and the channel each of them captured).
AtMostOneCopy == \A m \in Messages : LiveCopies(m) <= 1

\* While no connection is lost, a message is handled successfully exactly once
\* or one copy of it is alive: nothing is lost, and nothing that was handled
\* is retried or dead-lettered (ack first, then timer or dead-letter queue).
Conserved ==
    faults = 0 /\ HasDlq =>
        \A m \in published : handled[m] + LiveCopies(m) = 1

\* A message is tried at most MaxAttempts times, and once more for each
\* delivery that was undone by a lost connection (shouldRetry, x-attempt).
CallsBounded ==
    \A m \in Messages : calls[m] <= MaxAttempts + redelivered[m]

\* Every message is handled or dead-lettered in the end, or a fault took its
\* last copy: none is retried for ever, even while the breaker is open.
EveryMessageSettles ==
    \A m \in Messages :
        m \in published ~>
            handled[m] > 0 \/ dlq[m] > 0 \/ (faults > 0 /\ LiveCopies(m) = 0)

\* docs/messaging.md: "failing handlers auto-retry with backoff and finally
\* dead-letter": a message that is not handled yet is somewhere, in the
\* broker or in a timer that has still to fire.
NothingLost ==
    HasDlq => \A m \in published :
        \/ handled[m] > 0
        \/ LiveCopies(m) > 0
        \/ \E t \in timers : t.copy.msg = m
=============================================================================
