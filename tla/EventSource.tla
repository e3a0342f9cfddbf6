----------------------------- MODULE EventSource -----------------------------
(***************************************************************************)
(* One Server-Sent Events response (http/sse.ts, sseResponse): operators   *)
(* on the record of what the response holds.  Its loop awaits the next     *)
(* message of the handler's async iterable; a heartbeat timer and an abort *)
(* listener exist beside it until the loop's finally block.                *)
(***************************************************************************)
EXTENDS Naturals

Stream ==
    [ loop      : {"off", "waiting", "over"},
      heartbeat : BOOLEAN,   \* the interval timer is armed
      listener  : BOOLEAN,   \* onAbort is registered on the signal
      closed    : BOOLEAN,   \* the controller is closed
      source    : {"open", "ended", "returned"},
      late      : Nat ]      \* history: messages awaited after the abort

NoStream ==
    [ loop |-> "off", heartbeat |-> FALSE, listener |-> FALSE,
      closed |-> FALSE, source |-> "open", late |-> 0 ]

\* start() up to its first await.  An abort that came before is not seen by
\* the listener: the event has been dispatched already.
Started(heartbeatMs) ==
    [NoStream EXCEPT !.loop = "waiting", !.listener = TRUE,
                     !.heartbeat = heartbeatMs # 0]

\* Slip: the finally block closes the stream but forgets the timer.
FinishedTicking(s) ==
    [s EXCEPT !.loop = "over", !.listener = FALSE, !.closed = TRUE]

\* The finally block.
Finished(s) ==
    [s EXCEPT !.loop = "over", !.heartbeat = FALSE, !.listener = FALSE,
              !.closed = TRUE]

\* The source ends or throws; both are swallowed.
SourceOver(s) == Finished([s EXCEPT !.source = "ended"])

\* A break, or an exception of the loop's body, calls the source's return().
Left(s) == Finished([s EXCEPT !.source = "returned"])

\* A message: the loop breaks if the request was aborted, and an exception of
\* formatEvent (data that JSON.stringify has no text for) ends the stream.
Yielded(s, aborted, printable) ==
    LET t == IF aborted THEN [s EXCEPT !.late = @ + 1] ELSE s
    IN  IF aborted \/ ~printable THEN Left(t) ELSE t

\* The abort event: onAbort closes the controller, and nothing else.
Aborted(s) == IF s.listener THEN [s EXCEPT !.closed = TRUE] ELSE s

\* Nothing of the response is left behind.
Released(s) == ~s.heartbeat /\ ~s.listener /\ s.closed /\ s.source # "open"

\* When the loop is over nothing of the response stays, and after the client
\* has gone the source is asked for at most one message more.
LetsGo(s) ==
    /\ s.loop = "over" => Released(s)
    /\ s.late <= 1 /\ (s.late = 1 => s.loop = "over")
=============================================================================
