------------------------ MODULE RabbitConnectionProofs ------------------------
(***************************************************************************)
(* Theorems about RabbitConnection, for any number of publishers, setups,  *)
(* lost connections and rejected set-ups.  The inductive invariant says    *)
(* which connection each run of establish() holds: none that another run   *)
(* holds, and none that anyone knows before its channel is ready.          *)
(***************************************************************************)
EXTENDS RabbitConnection, Integers, TLAPS

Holds(d) == driver[d].at \in {"channel", "setup"}

\* A channel can only be used while its connection is open, and only an open
\* connection has a close event to listen to.
ConnInv == \A c \in Conns : Usable(c) \/ conn[c].watched => Open(c)

\* Overlapping runs of establish() work on connections of their own, and a run
\* that is not done with its setups has one left; only then is it known.
DriverInv ==
    /\ \A d \in Drivers : Holds(d) <=> driver[d].conn # None
    /\ \A d, e \in Drivers :
          Holds(d) /\ Holds(e) /\ driver[d].conn = driver[e].conn => d = e
    /\ \A d \in Drivers : driver[d].at = "setup" => conn[driver[d].conn].done < Setups
    /\ \A d \in Drivers : driver[d].at = "channel" =>
          conn[driver[d].conn].done = 0 /\ ~conn[driver[d].conn].watched

\* close() has a connection while it closes it.
CloserInv == closer.at \in {"channel", "connection"} => closer.conn \in Conns

\* The current connection is open, and its close event is listened to.
CurrentInv == current # None => Open(current) /\ conn[current].watched

IInv == TypeOK /\ ConnInv /\ DriverInv /\ CloserInv /\ CurrentInv

ConnState == [open : BOOLEAN, usable : BOOLEAN, watched : BOOLEAN, done : 0..Setups]
DriverState == [at : {"new", "off", "sleep", "connect", "channel", "setup"},
                conn : Conns \cup {None}, attempt : Nat]
Idle == {s \in DriverState : s.conn = None /\ s.at \notin {"channel", "setup"}}

USE RabbitConnectionAssumption

\* The connection number 0 stands for none.
LEMMA NoneIsNoConn == None \notin Conns /\ 0 \in Drivers /\ 0 \in Nat
BY DEF None, Conns, Drivers

\* A connection that is not used, and a run that is off, have their types.
LEMMA UnusedOff == Unused \in ConnState /\ Off \in Idle
BY DEF Unused, ConnState, Off, Idle, DriverState

\* Before start() nothing is connected.
LEMMA InitIInv == Init => IInv
<1> SUFFICES ASSUME Init PROVE IInv
  OBVIOUS
<1>1. conn \in [Conns -> ConnState] /\ \A c \in Conns : conn[c] = Unused
  BY UnusedOff DEF Init
<1>2. [Off EXCEPT !.at = "new"] \in Idle
  BY UnusedOff DEF Idle, DriverState, Off
<1>3. driver \in [Drivers -> DriverState] /\ \A d \in Drivers : driver[d] \in Idle
  BY UnusedOff, <1>2 DEF Init, Idle
<1>4. closer \in [at : {"none", "channel", "connection", "done"}, conn : Conns \cup {None}]
  BY DEF Init
<1>5. TypeOK
  <2>1. 0 \in 0..MaxDrops /\ 0 \in 0..MaxRejects
    OBVIOUS
  <2>2. publisher \in [Publishers -> {"idle", "waiting", "orphaned"}]
    BY DEF Init
  <2>3. /\ options \in [enabled : BOOLEAN, maxRetries : RetryLimits]
        /\ current = None /\ closing = FALSE /\ resolved = FALSE
        /\ drops = 0 /\ rejects = 0
    BY DEF Init
  <2> QED BY <1>1, <1>3, <1>4, <2>1, <2>2, <2>3 DEF TypeOK, ConnState, DriverState
<1>6. ConnInv
  BY <1>1 DEF ConnInv, Usable, Open, Unused
<1>7. DriverInv
  BY <1>3 DEF DriverInv, Idle, Holds
<1>8. CloserInv /\ CurrentInv
  BY DEF Init, CloserInv, CurrentInv
<1> QED BY <1>5, <1>6, <1>7, <1>8 DEF IInv

-----------------------------------------------------------------------------
(* What the steps of establish() have in common. *)

\* A run that fails or goes round its loop again lets its connection go.
LEMMA AfterFailureIdle ==
    ASSUME TypeOK, NEW d \in Drivers
    PROVE  AfterFailure(d) \in Idle /\ Reconnect \in Idle
<1>1. driver[d].attempt \in Nat
  BY DEF TypeOK
<1>2. ASSUME NEW n \in Nat PROVE Round(n) \in Idle
  <2>1. [at |-> "sleep", conn |-> None,
         attempt |-> IF options.maxRetries = 0 THEN 1 ELSE n + 1] \in Idle
    BY DEF Idle, DriverState
  <2> QED BY <2>1, UnusedOff DEF Round
<1>3. Reconnect \in Idle
  BY <1>2, UnusedOff, NoneIsNoConn DEF Reconnect
<1> QED BY <1>1, <1>2, <1>3, UnusedOff DEF AfterFailure

\* What holds of a run that has a connection holds of one whose connection is lost.
LEMMA HeldConn ==
    ASSUME IInv, NEW d \in Drivers
    PROVE  /\ driver \in [Drivers -> DriverState] /\ conn \in [Conns -> ConnState]
           /\ driver[d].conn \in Conns \cup {None}
           /\ Holds(d) => driver[d].conn \in Conns
<1>1. driver \in [Drivers -> DriverState] /\ conn \in [Conns -> ConnState] /\ DriverInv
  BY DEF IInv, TypeOK, DriverState, ConnState
<1>2. driver[d].conn \in Conns \cup {None}
  BY <1>1 DEF DriverState
<1> QED BY <1>1, <1>2 DEF DriverInv

\* A run that becomes idle, or stays what it was, changes nothing for the
\* others, even when connections are lost in the same step.
LEMMA IdleDriver ==
    ASSUME IInv, NEW d \in Drivers, NEW s,
           s \in Idle \/ (s = driver[d] /\ s \in DriverState),
           driver' = [driver EXCEPT ![d] = s],
           \A c \in Conns : conn'[c] = Unused \/ conn'[c] = conn[c]
                            \/ conn'[c] = [conn[c] EXCEPT !.usable = FALSE]
    PROVE  driver' \in [Drivers -> DriverState] /\ DriverInv'
<1>1. /\ driver \in [Drivers -> DriverState] /\ DriverInv
      /\ conn \in [Conns -> ConnState]
      /\ \A e \in Drivers : Holds(e) => driver[e].conn \in Conns
  BY HeldConn DEF IInv
<1>2. s \in DriverState /\ ((s.conn = None /\ s.at \notin {"channel", "setup"}) \/ s = driver[d])
  BY DEF Idle
<1>3. driver' \in [Drivers -> DriverState]
  BY <1>1, <1>2
<1>4. /\ driver'[d] = s
      /\ \A e \in Drivers \ {d} : driver'[e] = driver[e]
  BY <1>1
<1>5. ASSUME NEW e \in Drivers
      PROVE  /\ Holds(e)' <=> driver'[e].conn # None
             /\ Holds(e)' => driver'[e] = driver[e] /\ Holds(e)
  BY <1>1, <1>2, <1>4 DEF DriverInv, Holds
<1>6. ASSUME NEW c \in Conns
      PROVE  /\ conn[c].done < Setups => conn'[c].done < Setups
             /\ conn[c].done = 0 => conn'[c].done = 0
             /\ ~conn[c].watched => ~conn'[c].watched
  <2>1. conn[c] \in ConnState
    BY <1>1
  <2>2. /\ [conn[c] EXCEPT !.usable = FALSE].done = conn[c].done
        /\ [conn[c] EXCEPT !.usable = FALSE].watched = conn[c].watched
    BY <2>1 DEF ConnState
  <2>3. Unused.done = 0 /\ ~Unused.watched /\ 0 < Setups
    BY DEF Unused
  <2> QED BY <2>2, <2>3
<1>7. DriverInv'
  BY <1>1, <1>5, <1>6 DEF DriverInv, Holds
<1> QED BY <1>3, <1>7

-----------------------------------------------------------------------------
(* start(), the reconnect loops and establish() *)

\* A run begins, wakes or fails: it has no connection then.
LEMMA IdleStep ==
    ASSUME IInv,
           Start \/ \E d \in Drivers : Wake(d) \/ ConnectFailed(d) \/ EstablishFailed(d)
    PROVE  IInv'
<1>1. /\ UNCHANGED <<options, current, closing, resolved, conn, closer, publisher, drops>>
      /\ rejects' = rejects \/ (rejects < MaxRejects /\ rejects' = rejects + 1)
  BY DEF Start, Wake, ConnectFailed, EstablishFailed
<1>2. PICK d \in Drivers, s \in Idle : driver' = [driver EXCEPT ![d] = s]
  <2>1. ASSUME NEW d \in Drivers, driver[d].at \in {"new", "sleep"}
        PROVE  [driver[d] EXCEPT !.at = "connect"] \in Idle
    <3>1. driver[d] \in DriverState /\ driver[d].conn = None
      BY <2>1, HeldConn DEF IInv, DriverInv, Holds
    <3> QED BY <3>1 DEF DriverState, Idle
  <2>2. CASE Start
    <3>1. driver' = [driver EXCEPT ![0] = [driver[0] EXCEPT !.at = "connect"]]
      BY <2>2 DEF Start
    <3>2. [driver[0] EXCEPT !.at = "connect"] \in Idle
      BY <2>1, <2>2, NoneIsNoConn DEF Start
    <3> QED BY <3>1, <3>2, NoneIsNoConn
  <2>3. ASSUME NEW d \in Drivers, Wake(d)
        PROVE  \E s \in Idle : driver' = [driver EXCEPT ![d] = s]
    <3>1. driver' = [driver EXCEPT ![d] = [driver[d] EXCEPT !.at = "connect"]]
      BY <2>3 DEF Wake
    <3> QED BY <2>1, <2>3, <3>1 DEF Wake
  <2>4. ASSUME NEW d \in Drivers, ConnectFailed(d) \/ EstablishFailed(d)
        PROVE  \E s \in Idle : driver' = [driver EXCEPT ![d] = s]
    <3>1. TypeOK
      BY DEF IInv
    <3> QED BY <2>4, <3>1, AfterFailureIdle DEF ConnectFailed, EstablishFailed
  <2> QED BY <2>2, <2>3, <2>4
<1>3. driver' \in [Drivers -> DriverState] /\ DriverInv'
  BY <1>1, <1>2, IdleDriver
<1>4. rejects' \in 0..MaxRejects
  BY <1>1 DEF IInv, TypeOK
<1>5. TypeOK'
  BY <1>1, <1>3, <1>4 DEF IInv, TypeOK, DriverState
<1>6. ConnInv' /\ CloserInv' /\ CurrentInv'
  BY <1>1 DEF IInv, ConnInv, CloserInv, CurrentInv, Open, Usable
<1> QED BY <1>3, <1>5, <1>6 DEF IInv

\* connect() resolves: the new connection is nobody else's.
LEMMA ConnectedStep ==
    ASSUME IInv, NEW d \in Drivers, Connected(d)
    PROVE  IInv'
<1> DEFINE fresh == [Unused EXCEPT !.open = TRUE, !.usable = TRUE]
<1>1. UNCHANGED <<options, current, closing, resolved, closer, publisher, drops, rejects>>
  BY DEF Connected
<1>2. PICK c \in Conns :
         /\ Free(c)
         /\ conn' = [conn EXCEPT ![c] = fresh]
         /\ driver' = [driver EXCEPT ![d].at = "channel", ![d].conn = c]
  BY DEF Connected
<1> DEFINE s == [[driver[d] EXCEPT !.at = "channel"] EXCEPT !.conn = c]
<1>3. /\ driver \in [Drivers -> DriverState] /\ conn \in [Conns -> ConnState]
      /\ \A e \in Drivers : Holds(e) => driver[e].conn \in Conns
  BY HeldConn
<1>4. s \in DriverState /\ s.at = "channel" /\ s.conn = c
  BY <1>3 DEF DriverState
<1>5. driver' = [driver EXCEPT ![d] = s]
  BY <1>2, <1>3 DEF DriverState
<1>6. /\ fresh \in ConnState /\ fresh.open /\ ~fresh.watched /\ fresh.done = 0
  BY UnusedOff DEF ConnState, Unused
<1> HIDE DEF s, fresh
<1>7. /\ driver' \in [Drivers -> DriverState] /\ driver'[d] = s
      /\ \A e \in Drivers \ {d} : driver'[e] = driver[e]
      /\ conn' \in [Conns -> ConnState] /\ conn'[c] = fresh
      /\ \A b \in Conns \ {c} : conn'[b] = conn[b]
  BY <1>2, <1>3, <1>4, <1>5, <1>6
<1>8. c # current /\ \A e \in Drivers : driver[e].conn # c
  BY <1>2 DEF Free, Referenced
<1>9. TypeOK'
  BY <1>1, <1>7 DEF IInv, TypeOK, DriverState, ConnState
<1>10. ConnInv' /\ CloserInv'
  BY <1>1, <1>6, <1>7 DEF IInv, ConnInv, CloserInv, Open, Usable
<1>11. CurrentInv'
  <2>1. current \in Conns \cup {None}
    BY DEF IInv, TypeOK
  <2> QED BY <1>1, <1>7, <1>8, <2>1 DEF IInv, CurrentInv, Open
<1>12. DriverInv'
  <2>1. c # None /\ DriverInv
    BY NoneIsNoConn DEF IInv
  <2>2. \A e \in Drivers : Holds(e)' <=> driver'[e].conn # None
    BY <1>4, <1>7, <2>1 DEF DriverInv, Holds
  <2>3. ASSUME NEW e \in Drivers, NEW f \in Drivers, Holds(e)', Holds(f)',
               driver'[e].conn = driver'[f].conn
        PROVE  e = f
    BY <1>4, <1>7, <1>8, <2>1, <2>3 DEF DriverInv, Holds
  <2>4. ASSUME NEW e \in Drivers, Holds(e)'
        PROVE  /\ driver'[e].at = "setup" => conn'[driver'[e].conn].done < Setups
               /\ driver'[e].at = "channel" =>
                     conn'[driver'[e].conn].done = 0 /\ ~conn'[driver'[e].conn].watched
    <3>1. CASE e = d
      BY <1>4, <1>6, <1>7, <3>1
    <3>2. CASE e # d
      <4>1. driver'[e] = driver[e] /\ Holds(e)
        BY <1>7, <2>4, <3>2 DEF Holds
      <4>2. driver[e].conn \in Conns \ {c}
        BY <1>3, <1>8, <4>1
      <4> QED BY <1>7, <2>1, <4>1, <4>2 DEF DriverInv
    <3> QED BY <3>1, <3>2
  <2> QED BY <2>2, <2>3, <2>4 DEF DriverInv, Holds
<1> QED BY <1>9, <1>10, <1>11, <1>12 DEF IInv

\* The channel is there: its connection, open, becomes the current one.
LEMMA ChannelReadyStep ==
    ASSUME IInv, NEW d \in Drivers, ChannelReady(d)
    PROVE  IInv'
<1> DEFINE c == driver[d].conn
           s == [driver[d] EXCEPT !.at = "setup"]
           k == [conn[c] EXCEPT !.watched = TRUE]
<1>1. /\ driver[d].at = "channel" /\ conn[c].usable /\ current' = c
      /\ conn' = [conn EXCEPT ![c] = k] /\ driver' = [driver EXCEPT ![d] = s]
      /\ UNCHANGED <<options, closing, resolved, closer, publisher, drops, rejects>>
  BY DEF ChannelReady, Adopted, Usable
<1>2. /\ driver \in [Drivers -> DriverState] /\ conn \in [Conns -> ConnState]
      /\ \A e \in Drivers : Holds(e) => driver[e].conn \in Conns
  BY HeldConn
<1>3. c \in Conns /\ Holds(d)
  BY <1>1, <1>2 DEF Holds
<1>4. s \in DriverState /\ s.at = "setup" /\ s.conn = c
  BY <1>2 DEF DriverState
<1>5. conn[c].open /\ conn[c].done = 0
  BY <1>1, <1>3 DEF IInv, ConnInv, DriverInv, Open, Usable
<1>6. k \in ConnState /\ k.open /\ k.watched /\ k.done = 0
  BY <1>2, <1>3, <1>5 DEF ConnState
<1> HIDE DEF s, k, c
<1>7. /\ driver' \in [Drivers -> DriverState] /\ driver'[d] = s
      /\ \A e \in Drivers \ {d} : driver'[e] = driver[e]
      /\ conn' \in [Conns -> ConnState] /\ conn'[c] = k
      /\ \A b \in Conns \ {c} : conn'[b] = conn[b]
  BY <1>1, <1>2, <1>3, <1>4, <1>6
<1>8. TypeOK'
  BY <1>1, <1>3, <1>7 DEF IInv, TypeOK, DriverState, ConnState
<1>9. ConnInv' /\ CloserInv' /\ CurrentInv'
  BY <1>1, <1>6, <1>7 DEF IInv, ConnInv, CloserInv, CurrentInv, Open, Usable
<1>10. DriverInv'
  <2>1. DriverInv /\ driver[d].conn = c
    BY DEF IInv, c
  <2>2. \A e \in Drivers : (Holds(e)' <=> Holds(e)) /\ driver'[e].conn = driver[e].conn
    BY <1>3, <1>4, <1>7, <2>1 DEF Holds
  <2>3. ASSUME NEW e \in Drivers, Holds(e), e # d
        PROVE  conn'[driver[e].conn] = conn[driver[e].conn] /\ driver'[e] = driver[e]
    <3>1. driver[e].conn \in Conns \ {c}
      BY <1>2, <1>3, <2>1, <2>3 DEF DriverInv
    <3> QED BY <1>7, <2>3, <3>1
  <2>4. 0 < Setups /\ k.done < Setups
    BY <1>6
  <2> QED BY <1>4, <1>7, <2>1, <2>2, <2>3, <2>4 DEF DriverInv, Holds
<1> QED BY <1>8, <1>9, <1>10 DEF IInv

\* One setup is done: another one is left, or the run is over.
LEMMA SetupDoneStep ==
    ASSUME IInv, NEW d \in Drivers, SetupDone(d)
    PROVE  IInv'
<1> DEFINE c == driver[d].conn
           k == [conn[c] EXCEPT !.done = @ + 1]
<1>1. /\ driver[d].at = "setup" /\ conn' = [conn EXCEPT ![c] = k]
      /\ UNCHANGED <<options, current, closing, closer, drops, rejects>>
  BY DEF SetupDone
<1>2. /\ driver \in [Drivers -> DriverState] /\ conn \in [Conns -> ConnState]
      /\ \A e \in Drivers : Holds(e) => driver[e].conn \in Conns
  BY HeldConn
<1>3. c \in Conns /\ Holds(d) /\ conn[c].done < Setups
  BY <1>1, <1>2 DEF IInv, DriverInv, Holds
<1>4. /\ k \in ConnState /\ k.done = conn[c].done + 1
      /\ k.open = conn[c].open /\ k.usable = conn[c].usable /\ k.watched = conn[c].watched
  BY <1>2, <1>3 DEF ConnState
<1>5. /\ resolved' \in BOOLEAN
      /\ publisher' \in [Publishers -> {"idle", "waiting", "orphaned"}]
  BY DEF SetupDone, ResolveReady, IInv, TypeOK
<1>6. \/ driver' = driver /\ k.done # Setups
      \/ driver' = [driver EXCEPT ![d] = Off]
  BY <1>4 DEF SetupDone, LastSetup
<1> HIDE DEF k, c
<1>7. /\ conn' \in [Conns -> ConnState] /\ conn'[c] = k
      /\ \A b \in Conns \ {c} : conn'[b] = conn[b]
      /\ driver' \in [Drivers -> DriverState]
      /\ \A e \in Drivers \ {d} : driver'[e] = driver[e]
      /\ (driver'[d] = driver[d] /\ k.done # Setups) \/ driver'[d] = Off
  BY <1>1, <1>2, <1>3, <1>4, <1>6, UnusedOff DEF Idle
<1>8. TypeOK'
  BY <1>1, <1>5, <1>7 DEF IInv, TypeOK, DriverState, ConnState
<1>9. ConnInv' /\ CloserInv' /\ CurrentInv'
  <2>1. current \in Conns \cup {None}
    BY DEF IInv, TypeOK
  <2> QED BY <1>1, <1>3, <1>4, <1>7, <2>1
          DEF IInv, ConnInv, CloserInv, CurrentInv, Open, Usable
<1>10. DriverInv'
  <2>1. DriverInv /\ driver[d].conn = c
    BY DEF IInv, c
  <2>2. Off.at = "off" /\ Off.conn = None
    BY DEF Off
  <2>3. ASSUME NEW e \in Drivers
        PROVE  /\ Holds(e)' <=> driver'[e].conn # None
               /\ Holds(e)' => Holds(e) /\ driver'[e] = driver[e]
    BY <1>7, <2>1, <2>2 DEF DriverInv, Holds
  <2>4. ASSUME NEW e \in Drivers, Holds(e), e # d
        PROVE  conn'[driver[e].conn] = conn[driver[e].conn]
    <3>1. driver[e].conn \in Conns \ {c}
      BY <1>2, <1>3, <2>1, <2>4 DEF DriverInv
    <3> QED BY <1>7, <3>1
  <2>5. Holds(d)' => k.done < Setups /\ driver'[d].at = "setup"
    <3>1. conn[c].done \in 0..Setups
      BY <1>2, <1>3 DEF ConnState
    <3> QED BY <1>1, <1>3, <1>4, <1>7, <2>2, <3>1 DEF Holds
  <2> QED BY <1>7, <2>1, <2>3, <2>4, <2>5 DEF DriverInv, Holds
<1> QED BY <1>8, <1>9, <1>10 DEF IInv

-----------------------------------------------------------------------------
(* Connections that are lost, and close() *)

\* A connection whose state moves only towards closed still keeps its order.
LEMMA LossKeeps ==
    ASSUME IInv, conn' \in [Conns -> ConnState],
           \A c \in Conns : \/ conn'[c] = Unused \/ conn'[c] = conn[c]
                           \/ conn'[c] = [conn[c] EXCEPT !.usable = FALSE]
    PROVE  ConnInv'
<1>1. conn \in [Conns -> ConnState] /\ ConnInv
  BY DEF IInv, TypeOK, ConnState
<1>2. ASSUME NEW c \in Conns
      PROVE  conn'[c].usable \/ conn'[c].watched => conn'[c].open
  <2>1. conn[c] \in ConnState /\ (conn[c].usable \/ conn[c].watched => conn[c].open)
    BY <1>1 DEF ConnInv, Open, Usable
  <2>2. /\ [conn[c] EXCEPT !.usable = FALSE].usable = FALSE
        /\ [conn[c] EXCEPT !.usable = FALSE].open = conn[c].open
        /\ [conn[c] EXCEPT !.usable = FALSE].watched = conn[c].watched
    BY <2>1 DEF ConnState
  <2>3. ~Unused.usable /\ ~Unused.watched
    BY DEF Unused
  <2> QED BY <2>1, <2>2, <2>3
<1> QED BY <1>2 DEF ConnInv, Open, Usable

\* A connection is lost: if it is the current one its close event is listened
\* to, and the listener forgets it.
LEMMA DropStep ==
    ASSUME IInv, NEW c \in Conns, Drop(c)
    PROVE  IInv'
<1>1. /\ drops < MaxDrops /\ drops' = drops + 1
      /\ conn' = [conn EXCEPT ![c] = Unused]
      /\ UNCHANGED <<options, closing, closer, rejects>>
  BY DEF Drop
<1>2. /\ conn \in [Conns -> ConnState] /\ driver \in [Drivers -> DriverState]
      /\ drops \in 0..MaxDrops /\ current \in Conns \cup {None}
      /\ resolved \in BOOLEAN /\ TypeOK
      /\ publisher \in [Publishers -> {"idle", "waiting", "orphaned"}]
  BY DEF IInv, TypeOK, ConnState, DriverState
<1>3. drops' \in 0..MaxDrops /\ drops' \in Drivers
  BY <1>1, <1>2 DEF Drivers
<1>4. /\ conn' \in [Conns -> ConnState] /\ conn'[c] = Unused
      /\ \A b \in Conns \ {c} : conn'[b] = conn[b]
  BY <1>1, <1>2, UnusedOff
<1>5. \/ current' = None
      \/ current' = current /\ ~conn[c].watched
  BY DEF Drop, HandleClose
<1>6. /\ resolved' \in BOOLEAN
      /\ publisher' \in [Publishers -> {"idle", "waiting", "orphaned"}]
  BY <1>2 DEF Drop, HandleClose, FreshReady
<1>7. \/ driver' = driver \/ driver' = [driver EXCEPT ![drops'] = Reconnect]
  BY DEF Drop, HandleClose
<1>8. driver' \in [Drivers -> DriverState] /\ DriverInv'
  <2>1. \A b \in Conns : conn'[b] = Unused \/ conn'[b] = conn[b]
    BY <1>4
  <2>2. CASE driver' = driver
    <3>1. driver' = [driver EXCEPT ![0] = driver[0]] /\ driver[0] \in DriverState
      BY <1>2, <2>2, NoneIsNoConn
    <3> QED BY <2>1, <3>1, NoneIsNoConn, IdleDriver
  <2>3. CASE driver' = [driver EXCEPT ![drops'] = Reconnect]
    <3>1. Reconnect \in Idle
      BY <1>2, <1>3, AfterFailureIdle
    <3> QED BY <1>3, <2>1, <2>3, <3>1, IdleDriver
  <2> QED BY <1>7, <2>2, <2>3
<1>9. TypeOK'
  <2>1. current' \in Conns \cup {None}
    BY <1>2, <1>5
  <2> QED BY <1>1, <1>3, <1>4, <1>6, <1>8, <2>1 DEF IInv, TypeOK, DriverState, ConnState
<1>10. ConnInv' /\ CloserInv'
  <2>1. ConnInv'
    BY <1>4, LossKeeps
  <2> QED BY <1>1, <2>1 DEF IInv, CloserInv
<1>11. CurrentInv'
  <2>1. current' # None => current' = current /\ current # c
    BY <1>5 DEF IInv, CurrentInv
  <2> QED BY <1>2, <1>4, <2>1 DEF IInv, CurrentInv, Open
<1> QED BY <1>8, <1>9, <1>10, <1>11 DEF IInv

\* close() closes the channel of the current connection, and then of whichever
\* is current by then; the connection stays open meanwhile.
LEMMA CloseStep ==
    ASSUME IInv, Close \/ ChannelClosed
    PROVE  IInv'
<1>1. UNCHANGED <<options, current, resolved, driver, publisher, drops, rejects>>
      /\ closing' \in {closing, TRUE}
  BY DEF Close, ChannelClosed
<1>2. /\ conn \in [Conns -> ConnState] /\ driver \in [Drivers -> DriverState]
      /\ current \in Conns \cup {None} /\ closing \in BOOLEAN
  BY DEF IInv, TypeOK, ConnState, DriverState
<1>3. \/ current = None /\ conn' = conn /\ closer' = [at |-> "done", conn |-> None]
      \/ /\ current # None
         /\ conn' = [conn EXCEPT ![current] = [conn[current] EXCEPT !.usable = FALSE]]
         /\ \E at \in {"channel", "connection"} : closer' = [at |-> at, conn |-> current]
  BY DEF Close, ChannelClosed
<1>4. /\ closer' \in [at : {"none", "channel", "connection", "done"}, conn : Conns \cup {None}]
      /\ CloserInv'
  BY <1>2, <1>3 DEF CloserInv
<1>5. ASSUME NEW b \in Conns
      PROVE  [conn[b] EXCEPT !.usable = FALSE] \in ConnState
  BY <1>2 DEF ConnState
<1>6. /\ conn' \in [Conns -> ConnState]
      /\ \A b \in Conns :
            conn'[b] = conn[b] \/ conn'[b] = [conn[b] EXCEPT !.usable = FALSE]
  BY <1>2, <1>3, <1>5
<1>7. TypeOK'
  BY <1>1, <1>2, <1>4, <1>6 DEF IInv, TypeOK, DriverState, ConnState
<1>8. DriverInv'
  <2>1. driver' = [driver EXCEPT ![0] = driver[0]] /\ driver[0] \in DriverState
    BY <1>1, <1>2, NoneIsNoConn
  <2> QED BY <1>6, <2>1, NoneIsNoConn, IdleDriver
<1>9. ConnInv'
  BY <1>6, LossKeeps
<1>10. CurrentInv'
  <2>1. current # None => current \in Conns /\ conn[current].open /\ conn[current].watched
    BY <1>2 DEF IInv, CurrentInv, Open
  <2>2. current # None => /\ [conn[current] EXCEPT !.usable = FALSE].open
                          /\ [conn[current] EXCEPT !.usable = FALSE].watched
    BY <1>2, <2>1 DEF ConnState
  <2> QED BY <1>1, <1>6, <2>1, <2>2 DEF CurrentInv, Open
<1> QED BY <1>4, <1>7, <1>8, <1>9, <1>10 DEF IInv

\* close() ends: there is no current connection.
LEMMA ConnectionClosedStep ==
    ASSUME IInv, ConnectionClosed
    PROVE  IInv'
<1> DEFINE c == closer.conn
<1>1. /\ current' = None /\ conn' = [conn EXCEPT ![c] = Unused]
      /\ closer' = [at |-> "done", conn |-> None]
      /\ UNCHANGED <<options, closing, driver, drops, rejects>>
  BY DEF ConnectionClosed
<1>2. /\ conn \in [Conns -> ConnState] /\ driver \in [Drivers -> DriverState]
      /\ resolved \in BOOLEAN
      /\ publisher \in [Publishers -> {"idle", "waiting", "orphaned"}]
  BY DEF IInv, TypeOK, ConnState, DriverState
<1>3. /\ conn' \in [Conns -> ConnState]
      /\ \A b \in Conns : conn'[b] = Unused \/ conn'[b] = conn[b]
  BY <1>1, <1>2, UnusedOff
<1>4. /\ resolved' \in BOOLEAN
      /\ publisher' \in [Publishers -> {"idle", "waiting", "orphaned"}]
  BY <1>2 DEF ConnectionClosed, FreshReady
<1>5. TypeOK'
  <2>1. closer' \in [at : {"none", "channel", "connection", "done"}, conn : Conns \cup {None}]
    BY <1>1
  <2> QED BY <1>1, <1>3, <1>4, <2>1 DEF IInv, TypeOK, DriverState, ConnState
<1>6. DriverInv'
  <2>1. driver' = [driver EXCEPT ![0] = driver[0]] /\ driver[0] \in DriverState
    BY <1>1, <1>2, NoneIsNoConn
  <2> QED BY <1>3, <2>1, NoneIsNoConn, IdleDriver
<1>7. ConnInv'
  BY <1>3, LossKeeps
<1>8. CloserInv' /\ CurrentInv'
  BY <1>1 DEF CloserInv, CurrentInv
<1> QED BY <1>5, <1>6, <1>7, <1>8 DEF IInv

\* A publisher that begins to wait changes nothing about connections.
LEMMA AwaitChannelStep ==
    ASSUME IInv, NEW p \in Publishers, AwaitChannel(p)
    PROVE  IInv'
<1>1. UNCHANGED <<options, current, closing, resolved, conn, driver, closer, drops, rejects>>
  BY DEF AwaitChannel
<1>2. publisher' \in [Publishers -> {"idle", "waiting", "orphaned"}]
  BY DEF AwaitChannel, IInv, TypeOK
<1>3. TypeOK'
  BY <1>1, <1>2 DEF IInv, TypeOK
<1>4. ConnInv' /\ DriverInv' /\ CloserInv' /\ CurrentInv'
  BY <1>1 DEF IInv, ConnInv, DriverInv, CloserInv, CurrentInv, Holds, Open, Usable
<1> QED BY <1>3, <1>4 DEF IInv

-----------------------------------------------------------------------------

\* Every step preserves the invariant.
LEMMA NextIInv == IInv /\ [Next]_vars => IInv'
<1> SUFFICES ASSUME IInv, [Next]_vars PROVE IInv'
  OBVIOUS
<1>1. CASE Start \/ Close \/ ChannelClosed \/ ConnectionClosed
  BY <1>1, IdleStep, CloseStep, ConnectionClosedStep
<1>2. ASSUME NEW d \in Drivers, Establishing(d) PROVE IInv'
  BY <1>2, IdleStep, ConnectedStep, ChannelReadyStep, SetupDoneStep DEF Establishing
<1>3. ASSUME NEW c \in Conns, Drop(c) PROVE IInv'
  BY <1>3, DropStep
<1>4. ASSUME NEW p \in Publishers, AwaitChannel(p) PROVE IInv'
  BY <1>4, AwaitChannelStep
<1>5. CASE UNCHANGED vars
  BY <1>5 DEF vars, IInv, TypeOK, ConnInv, DriverInv, CloserInv, CurrentInv, Holds,
     Open, Usable
<1> QED BY <1>1, <1>2, <1>3, <1>4, <1>5 DEF Next

\* The invariant holds at every moment.
THEOREM AlwaysIInv == Spec => []IInv
BY InitIInv, NextIInv, PTL DEF Spec

\* The variables keep their types: no connection goes through
\* its setups more than once.
THEOREM TypeCorrect == Spec => []TypeOK
<1>1. IInv => TypeOK
  BY DEF IInv
<1> QED BY <1>1, AlwaysIInv, PTL

\* The channel that getChannel() hands out is never one of a connection that is
\* known to be lost, however many runs of establish(), losses and a close()
\* overlap (RabbitConnection.establish, handleClose).
THEOREM CurrentStaysOpen == Spec => []CurrentIsOpen
<1>1. IInv => CurrentIsOpen
  BY DEF IInv, CurrentInv, CurrentIsOpen
<1> QED BY <1>1, AlwaysIInv, PTL

\* Overlapping runs of establish() never work on the same connection.
EstablishApart ==
    \A d, e \in Drivers :
        Holds(d) /\ Holds(e) /\ driver[d].conn = driver[e].conn => d = e

\* However many reconnect loops there are, each declares the topology and the
\* consumers on a connection that no other one uses (establish).
THEOREM RunsApart == Spec => []EstablishApart
<1>1. IInv => EstablishApart
  BY DEF IInv, DriverInv, EstablishApart
<1> QED BY <1>1, AlwaysIInv, PTL
=============================================================================
