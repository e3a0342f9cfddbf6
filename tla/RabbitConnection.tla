--------------------------- MODULE RabbitConnection ---------------------------
(***************************************************************************)
(* The RabbitMQ connection of an application (messaging/connection.ts):    *)
(* start(), the reconnect() loops, close(), and the publishers that wait   *)
(* for a channel.                                                          *)
(*                                                                         *)
(* establish() may run several times at once: driver 0 is start() and the  *)
(* reconnect loop it falls back to, driver k > 0 the loop that the k-th    *)
(* close event starts.  Each await of establish() ends a step.  The broker *)
(* and amqplib are the environment: they may refuse a connection, close    *)
(* one at any time, and reject a step of the set-up.  amqplib runs the     *)
(* close listener and rejects what is pending on the connection.           *)
(***************************************************************************)
EXTENDS Naturals, FiniteSets

CONSTANTS
    Publishers,     \* callers of getChannel
    Setups,         \* number of registered setups: topology, then consumers
    RetryLimits,    \* the values of reconnect.maxRetries considered, 0 for none
    MaxDrops,       \* bound: connections lost
    MaxRejects      \* bound: set-up steps rejected on a live connection

ASSUME RabbitConnectionAssumption ==
    /\ Setups \in Nat \ {0}
    /\ RetryLimits \subseteq Nat
    /\ MaxDrops \in Nat /\ MaxRejects \in Nat

VARIABLES
    options,    \* reconnect.enabled and reconnect.maxRetries
    current,    \* this.connection and this.channel, which are set together
    closing,    \* this.closing
    resolved,   \* whether the promise this.ready is resolved
    conn,       \* per connection: is it open, its channel usable, its close
                \* event listened to, and how many setups are done on it
    driver,     \* per run of start() or reconnect(): where it is
    closer,     \* where close() is, and the connection it is closing
    publisher,  \* per publisher: whether it awaits this.ready, or an old one
    drops,
    rejects

vars == <<options, current, closing, resolved, conn, driver, closer, publisher,
          drops, rejects>>

Drivers == 0..MaxDrops

\* Connections, each with one channel: every driver can leave one behind, and
\* so can every rejected set-up.  A closed one's number is used again.
Conns == 1..(1 + MaxDrops + MaxRejects)
None == 0
Off == [at |-> "off", conn |-> None, attempt |-> 0]
Unused == [open |-> FALSE, usable |-> FALSE, watched |-> FALSE, done |-> 0]

Open(c) == conn[c].open
Usable(c) == conn[c].usable
Referenced(c) ==
    c = current \/ c = closer.conn \/ \E d \in Drivers : driver[d].conn = c

Free(c) == ~Open(c) /\ ~Referenced(c)

TypeOK ==
    /\ options \in [enabled : BOOLEAN, maxRetries : RetryLimits]
    /\ current \in Conns \cup {None}
    /\ closing \in BOOLEAN
    /\ resolved \in BOOLEAN
    /\ conn \in [Conns -> [open : BOOLEAN, usable : BOOLEAN, watched : BOOLEAN,
                           done : 0..Setups]]
    /\ driver \in [Drivers ->
          [at : {"new", "off", "sleep", "connect", "channel", "setup"},
           conn : Conns \cup {None},
           attempt : Nat]]
    /\ closer \in [at : {"none", "channel", "connection", "done"},
                    conn : Conns \cup {None}]
    /\ publisher \in [Publishers -> {"idle", "waiting", "orphaned"}]
    /\ drops \in 0..MaxDrops
    /\ rejects \in 0..MaxRejects

Init ==
    /\ options \in [enabled : BOOLEAN, maxRetries : RetryLimits]
    /\ current = None
    /\ closing = FALSE
    /\ resolved = FALSE
    /\ conn = [c \in Conns |-> Unused]
    /\ driver = [d \in Drivers |-> IF d = 0 THEN [Off EXCEPT !.at = "new"] ELSE Off]
    /\ closer = [at |-> "none", conn |-> None]
    /\ publisher = [p \in Publishers |-> "idle"]
    /\ drops = 0
    /\ rejects = 0

-----------------------------------------------------------------------------

\* Slip: the reconnect loop does not look at closing.
RoundUnconditional(attempt) ==
    [at |-> "sleep", conn |-> None,
     attempt |-> IF options.maxRetries = 0 THEN 1 ELSE attempt + 1]

\* The top of the reconnect loop: closing ends it; otherwise the next attempt
\* begins with its sleep (attempts are only counted if they are limited).
Round(attempt) ==
    IF closing THEN Off
    ELSE [at |-> "sleep", conn |-> None,
          attempt |-> IF options.maxRetries = 0 THEN 1 ELSE attempt + 1]

\* reconnect(), called without awaiting it.
Reconnect == IF options.enabled THEN Round(0) ELSE Off

\* Slip: a start() that fails does not begin to reconnect.
AfterFailureGivingUp(d) ==
    IF driver[d].attempt = 0 THEN Off ELSE Round(driver[d].attempt)

\* What becomes of driver d when establish() throws: start() falls back to
\* reconnect(), a loop goes round again unless its attempts are used up.
AfterFailure(d) ==
    IF driver[d].attempt = 0 THEN Reconnect
    ELSE IF options.maxRetries > 0 /\ driver[d].attempt >= options.maxRetries
         THEN Off
         ELSE Round(driver[d].attempt)

\* freshReady(): who still awaits the old promise awaits it for ever.
FreshReady ==
    /\ resolved' = FALSE
    /\ publisher' = [p \in Publishers |->
          IF publisher[p] = "waiting" THEN "orphaned" ELSE publisher[p]]

\* Slip: the ready promise is never resolved.
ResolveNothing == UNCHANGED <<resolved, publisher>>

\* resolveReady(channel): only the current promise can be resolved.
ResolveReady ==
    /\ resolved' = TRUE
    /\ publisher' = [p \in Publishers |->
          IF publisher[p] = "waiting" THEN "idle" ELSE publisher[p]]

Start ==
    /\ driver[0].at = "new"
    /\ driver' = [driver EXCEPT ![0].at = "connect"]
    /\ UNCHANGED <<options, current, closing, resolved, conn, closer, publisher,
                   drops, rejects>>

\* The sleep of the loop is over; closing is not looked at again.
Wake(d) ==
    /\ driver[d].at = "sleep"
    /\ driver' = [driver EXCEPT ![d].at = "connect"]
    /\ UNCHANGED <<options, current, closing, resolved, conn, closer, publisher,
                   drops, rejects>>

\* connect() resolves: the connection exists, and nobody listens to it yet.
Connected(d) ==
    /\ driver[d].at = "connect"
    /\ \E c \in Conns :
          /\ Free(c) /\ \A other \in 1..(c - 1) : ~Free(other)
          /\ conn' = [conn EXCEPT ![c] = [Unused EXCEPT !.open = TRUE, !.usable = TRUE]]
          /\ driver' = [driver EXCEPT ![d].at = "channel", ![d].conn = c]
    /\ UNCHANGED <<options, current, closing, resolved, closer, publisher,
                   drops, rejects>>

ConnectFailed(d) ==
    /\ driver[d].at = "connect"
    /\ driver' = [driver EXCEPT ![d] = AfterFailure(d)]
    /\ UNCHANGED <<options, current, closing, resolved, conn, closer, publisher,
                   drops, rejects>>

\* Slip: nobody listens to the close event of the new connection.
AdoptedUnwatched(c) == conn

Adopted(c) == [conn EXCEPT ![c].watched = TRUE]

\* createChannel() and prefetch() are done: the connection becomes the current
\* one, in place of any other, and its close event is listened to.
ChannelReady(d) ==
    LET c == driver[d].conn IN
    /\ driver[d].at = "channel"
    /\ Usable(c)
    /\ current' = c
    /\ conn' = Adopted(c)
    /\ driver' = [driver EXCEPT ![d].at = "setup"]
    /\ UNCHANGED <<options, closing, resolved, closer, publisher, drops, rejects>>

\* Slip: the loop over the setups runs once too often.
LastSetupLate(c) == conn[c].done = Setups

LastSetup(c) == conn[c].done + 1 = Setups

\* One setup(channel) resolves; after the last one the channel is ready.
SetupDone(d) ==
    LET c == driver[d].conn IN
    /\ driver[d].at = "setup"
    /\ Usable(c)
    /\ conn' = [conn EXCEPT ![c].done = @ + 1]
    /\ \/ /\ ~LastSetup(c)
          /\ UNCHANGED <<driver, resolved, publisher>>
       \/ /\ LastSetup(c)
          /\ driver' = [driver EXCEPT ![d] = Off]
          /\ ResolveReady
    /\ UNCHANGED <<options, current, closing, closer, drops, rejects>>

\* createChannel(), prefetch() or a setup rejects, because the connection is
\* lost or although it is alive.  Nothing closes a connection that is alive.
EstablishFailed(d) ==
    /\ driver[d].at \in {"channel", "setup"}
    /\ \/ /\ ~Usable(driver[d].conn)
          /\ UNCHANGED rejects
       \/ /\ Usable(driver[d].conn)
          /\ rejects < MaxRejects
          /\ rejects' = rejects + 1
    /\ driver' = [driver EXCEPT ![d] = AfterFailure(d)]
    /\ UNCHANGED <<options, current, closing, resolved, conn, closer, publisher,
                   drops>>

\* handleClose(): whichever connection closed, the current one is forgotten.
HandleClose ==
    /\ current' = None
    /\ FreshReady
    /\ driver' = IF closing THEN driver
                 ELSE [driver EXCEPT ![drops'] = Reconnect]

\* The broker or the network closes a connection.
Drop(c) ==
    /\ Open(c)
    /\ drops < MaxDrops
    /\ drops' = drops + 1
    /\ conn' = [conn EXCEPT ![c] = Unused]
    /\ IF conn[c].watched THEN HandleClose
       ELSE UNCHANGED <<current, resolved, publisher, driver>>
    /\ UNCHANGED <<options, closing, closer, rejects>>

\* close() sets closing and begins to close the current channel, if any.
Close ==
    /\ ~closing
    /\ closing' = TRUE
    /\ IF current = None
       THEN closer' = [at |-> "done", conn |-> None] /\ UNCHANGED conn
       ELSE /\ closer' = [at |-> "channel", conn |-> current]
            /\ conn' = [conn EXCEPT ![current].usable = FALSE]
    /\ UNCHANGED <<options, current, resolved, driver, publisher, drops, rejects>>

\* The channel is closed (or lost): begin to close what is now the connection.
ChannelClosed ==
    /\ closer.at = "channel"
    /\ IF current = None
       THEN closer' = [at |-> "done", conn |-> None] /\ UNCHANGED conn
       ELSE /\ closer' = [at |-> "connection", conn |-> current]
            /\ conn' = [conn EXCEPT ![current].usable = FALSE]
    /\ UNCHANGED <<options, current, closing, resolved, driver, publisher,
                   drops, rejects>>

\* That connection is closed, its listener runs (unless it was lost before),
\* and both fields are cleared, whatever they hold by now.
ConnectionClosed ==
    LET c == closer.conn IN
    /\ closer.at = "connection"
    /\ closer' = [at |-> "done", conn |-> None]
    /\ current' = None
    /\ conn' = [conn EXCEPT ![c] = Unused]
    /\ IF Open(c) THEN FreshReady ELSE UNCHANGED <<resolved, publisher>>
    /\ UNCHANGED <<options, closing, driver, drops, rejects>>

\* getChannel() while there is no channel: await the ready promise.
AwaitChannel(p) ==
    /\ publisher[p] = "idle"
    /\ current = None
    /\ ~resolved
    /\ publisher' = [publisher EXCEPT ![p] = "waiting"]
    /\ UNCHANGED <<options, current, closing, resolved, conn, driver, closer,
                   drops, rejects>>

-----------------------------------------------------------------------------

Establishing(d) ==
    \/ Wake(d) \/ Connected(d) \/ ConnectFailed(d) \/ ChannelReady(d)
    \/ SetupDone(d) \/ EstablishFailed(d)

Next ==
    \/ Start \/ Close \/ ChannelClosed \/ ConnectionClosed
    \/ \E d \in Drivers : Establishing(d)
    \/ \E c \in Conns : Drop(c)
    \/ \E p \in Publishers : AwaitChannel(p)

Spec == Init /\ [][Next]_vars

\* Timers fire, the broker answers what is pending, and it accepts connections
\* and set-ups again and again if it is asked again and again.
FairSpec ==
    /\ Spec
    /\ WF_vars(Start) /\ WF_vars(ChannelClosed) /\ WF_vars(ConnectionClosed)
    /\ \A d \in Drivers : WF_vars(Establishing(d)) /\ SF_vars(Connected(d))

-----------------------------------------------------------------------------

AllOff == \A d \in Drivers : driver[d].at = "off"
Unlimited == options.enabled /\ options.maxRetries = 0
Healthy ==
    /\ current # None
    /\ Open(current)
    /\ conn[current].done = Setups

\* The channel that getChannel() and the consumers use is never one of a
\* connection known to be lost, whichever run of establish() set it and
\* whichever connection's close event came last (establish, handleClose).
CurrentIsOpen == current # None => Open(current)

\* docs/messaging.md, Reconnection: after a loss all topology and consumers
\* are registered again, whatever fails on the way.
Reconnects == Unlimited => []<>(closing \/ Healthy)

\* close() ends every reconnect loop.
LoopsStop == closing ~> AllOff

\* Who awaits a channel gets it unless the application closes or the promise
\* it awaits is replaced before it is resolved (getChannel, handleClose).
AwaitedChannelArrives ==
    \A p \in Publishers :
        Unlimited /\ publisher[p] = "waiting" ~> publisher[p] # "waiting" \/ closing
=============================================================================
