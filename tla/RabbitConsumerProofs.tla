------------------------- MODULE RabbitConsumerProofs --------------------------
(***************************************************************************)
(* Theorems about RabbitConsumer, for any messages, attempts, prefetch and *)
(* faults, with or without a dead-letter queue.  The inductive invariant   *)
(* says of every message in which one place its live copy is, or that      *)
(* there is none; each action moves the copy of one message from one place *)
(* to another.  What the broker holds unacknowledged is a second place,    *)
(* from which a lost connection takes the message back: an acknowledgement *)
(* on the wire stands before everything that is sent after it.             *)
(***************************************************************************)
EXTENDS RabbitConsumer, TLAPS, FiniteSetTheorems

-----------------------------------------------------------------------------
(* The places of a message. *)

CopiesOf(m) == { c \in Copies : c.msg = m }

NoReady(m) == \A c \in CopiesOf(m) : work[c] = 0
NoUnacked(m) == \A c \in unacked : c.msg # m
NoTimer(m) == \A t \in timers : Alive(t.channel) => t.copy.msg # m
NoFrame(m) == \A i \in DOMAIN wire : ~Carries(wire[i], m)

\* What is left of it at the broker has been acknowledged.
Settled(m) ==
    \A c \in unacked : c.msg = m =>
        /\ AckSent(c)
        /\ calls[m] <= c.attempt + redelivered[m]
        /\ \A d \in unacked : d.msg = m => d = c

\* While nothing was lost, a message that is alive has not been handled.
Pending(m) ==
    /\ m \in published
    /\ calls[m] <= MaxAttempts + redelivered[m]
    /\ faults = 0 /\ HasDlq => handled[m] = 0

IsReady(m, c) ==
    /\ c \in CopiesOf(m) /\ work[c] = 1
    /\ \A d \in CopiesOf(m) : d # c => work[d] = 0
    /\ calls[m] + 1 <= c.attempt + redelivered[m]
    /\ NoUnacked(m) /\ NoTimer(m) /\ NoFrame(m) /\ dlq[m] = 0

IsDelivered(m, c) ==
    /\ c \in unacked /\ c.msg = m /\ ~AckSent(c)
    /\ \A d \in unacked : d.msg = m => d = c
    /\ calls[m] <= c.attempt + redelivered[m]
    /\ NoReady(m) /\ NoTimer(m) /\ NoFrame(m) /\ dlq[m] = 0

IsWaiting(m, t) ==
    /\ t \in timers /\ Alive(t.channel) /\ t.copy.msg = m
    /\ \A u \in timers : Alive(u.channel) /\ u.copy.msg = m => u = t
    /\ calls[m] + 1 <= t.copy.attempt + redelivered[m]
    /\ NoReady(m) /\ Settled(m) /\ NoFrame(m) /\ dlq[m] = 0

IsUnderWay(m, i) ==
    /\ i \in DOMAIN wire /\ Carries(wire[i], m)
    /\ \A j \in DOMAIN wire : Carries(wire[j], m) => j = i
    /\ \A c \in unacked : c.msg = m => \E j \in DOMAIN wire : j < i /\ wire[j] = Ack(c)
    /\ wire[i].kind = "work" => calls[m] + 1 <= wire[i].copy.attempt + redelivered[m]
    /\ NoReady(m) /\ Settled(m) /\ NoTimer(m) /\ dlq[m] = 0

IsDead(m) == dlq[m] = 1 /\ NoReady(m) /\ NoUnacked(m) /\ NoTimer(m) /\ NoFrame(m)

Lives(m) ==
    \/ \E c \in Copies : IsReady(m, c)
    \/ \E c \in unacked : IsDelivered(m, c)
    \/ \E t \in timers : IsWaiting(m, t)
    \/ \E i \in DOMAIN wire : IsUnderWay(m, i)
    \/ IsDead(m)

\* Handled, given up or lost with a channel.
IsGone(m) ==
    /\ m \in published
    /\ calls[m] <= MaxAttempts + redelivered[m]
    /\ faults = 0 /\ HasDlq => handled[m] = 1
    /\ NoReady(m) /\ Settled(m) /\ NoTimer(m) /\ NoFrame(m) /\ dlq[m] = 0

IsNew(m) ==
    /\ m \notin published /\ calls[m] = 0 /\ handled[m] = 0
    /\ \A r \in running : r.copy.msg # m
    /\ NoReady(m) /\ NoUnacked(m) /\ NoTimer(m) /\ NoFrame(m) /\ dlq[m] = 0

Placed(m) == (Pending(m) /\ Lives(m)) \/ IsGone(m) \/ IsNew(m)

-----------------------------------------------------------------------------
(* The process and its channel. *)

Frames ==
    [kind : {"ack", "work"}, copy : Copies] \cup [kind : {"dlq"}, msg : Messages]

Types ==
    /\ work \in [Copies -> Nat]
    /\ unacked \subseteq Copies
    /\ dlq \in [Messages -> Nat]
    /\ wire \in Seq(Frames)
    /\ channel \in Nat /\ up \in BOOLEAN
    /\ running \subseteq [copy : Copies, channel : 0..channel]
    /\ timers \subseteq [copy : Copies, channel : 0..channel]
    /\ published \subseteq Messages
    /\ handled \in [Messages -> Nat]
    /\ calls \in [Messages -> Nat]
    /\ redelivered \in [Messages -> Nat]

\* Each fault but the last was followed by a new channel.
FaultInv ==
    /\ faults \in 0..MaxFaults
    /\ faults = channel + IF up THEN 0 ELSE 1

\* What is half-open has not had its successes yet.
Sound(b) ==
    /\ b \in BreakerRecord
    /\ b.state = "half-open" => b.successes < SuccessThreshold
BreakerInv == Sound(breaker)

\* Only what is delivered is acknowledged, and once.
AckInv ==
    \A c \in Copies : \A i \in DOMAIN wire : wire[i] = Ack(c) =>
        /\ c \in unacked
        /\ \A j \in DOMAIN wire : wire[j] = Ack(c) => j = i

\* A handler on the channel in use has its delivery still to acknowledge.
RunInv ==
    \A r \in running : Alive(r.channel) => r.copy \in unacked /\ ~AckSent(r.copy)

\* Each call of the handler ends at most once, and each fault undoes at most
\* one delivery of a message.
RunningOf(m) == { r \in running : r.copy.msg = m }
CountInv ==
    \A m \in Messages :
        /\ handled[m] + Cardinality(RunningOf(m)) <= calls[m]
        /\ IsFiniteSet(RunningOf(m))
        /\ redelivered[m] <= faults

PlaceInv == \A m \in Messages : Placed(m)

IInv ==
    /\ Types /\ FaultInv /\ BreakerInv
    /\ AckInv /\ RunInv /\ PlaceInv /\ CountInv

USE RabbitConsumerAssumption

-----------------------------------------------------------------------------
(* Lemmas about frames and records. *)

\* Acknowledgements of different copies differ, and carry nothing.
LEMMA AckFacts ==
    ASSUME NEW c \in Copies
    PROVE  /\ Ack(c) \in Frames /\ Ack(c).kind = "ack" /\ Ack(c).copy = c
           /\ \A d \in Copies : Ack(c) = Ack(d) => c = d
           /\ \A m \in Messages : ~Carries(Ack(c), m)
BY DEF Ack, Frames, Carries

\* A copy sent again is a frame that carries its message.
LEMMA WorkFacts ==
    ASSUME NEW c \in Copies, NEW f, f = [kind |-> "work", copy |-> c]
    PROVE  /\ f \in Frames /\ f.kind = "work" /\ f.copy = c
           /\ \A d \in Copies : f # Ack(d)
           /\ \A m \in Messages : Carries(f, m) <=> m = c.msg
BY DEF Ack, Frames, Carries

\* So is a message sent to the dead-letter queue.
LEMMA DlqFacts ==
    ASSUME NEW n \in Messages, NEW f, f = [kind |-> "dlq", msg |-> n]
    PROVE  /\ f \in Frames /\ f.kind = "dlq" /\ f.msg = n
           /\ \A d \in Copies : f # Ack(d)
           /\ \A m \in Messages : Carries(f, m) <=> m = n
BY DEF Ack, Frames, Carries

\* A frame is an acknowledgement, a copy or a dead letter.
LEMMA FrameKinds ==
    ASSUME NEW f \in Frames
    PROVE  \/ f.kind = "ack" /\ f.copy \in Copies /\ f = Ack(f.copy)
           \/ f.kind = "work" /\ f.copy \in Copies /\ f = [kind |-> "work", copy |-> f.copy]
           \/ f.kind = "dlq" /\ f.msg \in Messages /\ f = [kind |-> "dlq", msg |-> f.msg]
BY DEF Ack, Frames

\* The copies: what they are of, and how often they were tried.
LEMMA CopyFacts ==
    /\ \A c \in Copies : c.msg \in Messages /\ c.attempt \in 1..MaxAttempts
    /\ \A c \in Copies : ShouldRetry(c.attempt) =>
          /\ RetryOf(c) \in Copies /\ RetryOf(c).msg = c.msg
          /\ RetryOf(c).attempt = c.attempt + 1
    /\ \A m \in Messages : LET c == [msg |-> m, attempt |-> 1] IN
          c \in Copies /\ c.msg = m /\ c.attempt = 1
BY DEF Copies, ShouldRetry, RetryOf

\* A frame that is appended stands last, and the others stay in place.
LEMMA AppendFacts ==
    ASSUME NEW s \in Seq(Frames), NEW f \in Frames
    PROVE  /\ Append(s, f) \in Seq(Frames) /\ Len(s) \in Nat
           /\ Len(Append(s, f)) = Len(s) + 1
           /\ DOMAIN s = 1..Len(s) /\ DOMAIN Append(s, f) = 1..Len(s) + 1
           /\ Append(s, f)[Len(s) + 1] = f
           /\ \A i \in 1..Len(s) : Append(s, f)[i] = s[i]
OBVIOUS

\* The first frame is taken away, and the others move up.
LEMMA TailFacts ==
    ASSUME NEW s \in Seq(Frames), s # << >>
    PROVE  /\ Tail(s) \in Seq(Frames) /\ Len(s) \in Nat /\ Len(s) > 0
           /\ DOMAIN s = 1..Len(s) /\ DOMAIN Tail(s) = 1..Len(s) - 1
           /\ Head(s) = s[1] /\ Head(s) \in Frames
           /\ \A i \in 1..Len(s) - 1 : Tail(s)[i] = s[i + 1]
OBVIOUS

-----------------------------------------------------------------------------
(* A step leaves most messages where they are. *)

\* Nothing of m is touched, and what is sent is not about it.
Still(m) ==
    /\ \A c \in CopiesOf(m) : work'[c] = work[c] /\ (c \in unacked' <=> c \in unacked)
    /\ dlq'[m] = dlq[m] /\ calls'[m] = calls[m] /\ redelivered'[m] = redelivered[m]
    /\ m \in published' <=> m \in published
    /\ handled'[m] = handled[m] \/ (faults' # 0 /\ m \in published)
    /\ faults' = 0 => faults = 0
    /\ \A r \in running' : r.copy.msg = m => r \in running
    /\ \A t \in timers \cup timers' : t.copy.msg = m =>
          (t \in timers' /\ Alive(t.channel)' <=> t \in timers /\ Alive(t.channel))
    /\ DOMAIN wire \subseteq DOMAIN wire'
    /\ \A i \in DOMAIN wire : wire'[i] = wire[i]
    /\ \A i \in DOMAIN wire' \ DOMAIN wire :
          ~Carries(wire'[i], m) /\ \A c \in CopiesOf(m) : wire'[i] # Ack(c)

\* Then it stays in its place.
LEMMA StillPlaced ==
    ASSUME Types, Types', NEW m \in Messages, Placed(m), Still(m)
    PROVE  Placed(m)'
<1>0. /\ unacked \subseteq Copies /\ unacked' \subseteq Copies
      /\ \A c \in Copies : c.msg = m <=> c \in CopiesOf(m)
  BY DEF Types, CopiesOf
<1>1. NoReady(m) => NoReady(m)'
  BY DEF Still, NoReady
<1>2. NoUnacked(m) => NoUnacked(m)'
  BY <1>0 DEF Still, NoUnacked
<1>3. NoTimer(m) => NoTimer(m)'
  BY DEF Still, NoTimer
<1>4. NoFrame(m) => NoFrame(m)'
  BY DEF Still, NoFrame
<1>5. \A c \in CopiesOf(m) : AckSent(c)' <=> AckSent(c)
  BY DEF Still, AckSent
<1>6. Settled(m) => Settled(m)'
  BY <1>0, <1>5 DEF Still, Settled
<1>7. CASE IsNew(m)
  <2>1. m \notin published' /\ calls'[m] = 0 /\ handled'[m] = 0 /\ dlq'[m] = 0
    BY <1>7 DEF Still, IsNew
  <2>2. \A r \in running' : r.copy.msg # m
    BY <1>7 DEF Still, IsNew
  <2> QED BY <1>1, <1>2, <1>3, <1>4, <1>7, <2>1, <2>2 DEF IsNew, Placed
<1>8. CASE IsGone(m)
  <2>1. /\ m \in published' /\ calls'[m] = calls[m] /\ redelivered'[m] = redelivered[m]
        /\ dlq'[m] = dlq[m] /\ (faults' = 0 => faults = 0 /\ handled'[m] = handled[m])
    BY <1>8 DEF Still, IsGone
  <2> QED BY <1>1, <1>3, <1>4, <1>6, <1>8, <2>1 DEF IsGone, Placed
<1>9. CASE Pending(m) /\ Lives(m)
  <2>1. /\ m \in published' /\ calls'[m] = calls[m] /\ redelivered'[m] = redelivered[m]
        /\ dlq'[m] = dlq[m] /\ (faults' = 0 => faults = 0 /\ handled'[m] = handled[m])
    BY <1>9 DEF Still, Pending
  <2>2. Pending(m)'
    BY <1>9, <2>1 DEF Pending
  <2>3. ASSUME NEW c \in Copies, IsReady(m, c) PROVE Lives(m)'
    <3>1. IsReady(m, c)'
      BY <1>2, <1>3, <1>4, <2>1, <2>3 DEF IsReady, Still
    <3> QED BY <3>1 DEF Lives
  <2>4. ASSUME NEW c \in unacked, IsDelivered(m, c) PROVE Lives(m)'
    <3>1. c \in CopiesOf(m) /\ c \in unacked'
      BY <1>0, <2>4 DEF IsDelivered, Still
    <3>2. \A d \in unacked' : d.msg = m => d = c
      BY <1>0, <2>4 DEF IsDelivered, Still
    <3>3. IsDelivered(m, c)'
      BY <1>1, <1>3, <1>4, <1>5, <2>1, <2>4, <3>1, <3>2 DEF IsDelivered
    <3> QED BY <3>1, <3>3 DEF Lives
  <2>5. ASSUME NEW t \in timers, IsWaiting(m, t) PROVE Lives(m)'
    <3>1. t \in timers' /\ Alive(t.channel)'
      BY <2>5 DEF IsWaiting, Still
    <3>2. \A u \in timers' : Alive(u.channel)' /\ u.copy.msg = m => u = t
      BY <2>5 DEF IsWaiting, Still
    <3>3. IsWaiting(m, t)'
      BY <1>1, <1>6, <1>4, <2>1, <2>5, <3>1, <3>2 DEF IsWaiting
    <3> QED BY <3>1, <3>3 DEF Lives
  <2>6. ASSUME NEW i \in DOMAIN wire, IsUnderWay(m, i) PROVE Lives(m)'
    <3>1. i \in DOMAIN wire' /\ wire'[i] = wire[i]
      BY DEF Still
    <3>2. \A j \in DOMAIN wire' : Carries(wire'[j], m) => j = i
      BY <2>6 DEF IsUnderWay, Still
    <3>3. \A c \in unacked' : c.msg = m => \E j \in DOMAIN wire' : j < i /\ wire'[j] = Ack(c)
      <4> SUFFICES ASSUME NEW c \in unacked', c.msg = m
                   PROVE  \E j \in DOMAIN wire' : j < i /\ wire'[j] = Ack(c)
        OBVIOUS
      <4>1. c \in unacked
        BY <1>0 DEF Still
      <4>2. PICK j \in DOMAIN wire : j < i /\ wire[j] = Ack(c)
        BY <2>6, <4>1 DEF IsUnderWay
      <4>3. j \in DOMAIN wire' /\ wire'[j] = Ack(c)
        BY <4>2 DEF Still
      <4> QED BY <4>2, <4>3
    <3>4. IsUnderWay(m, i)'
      BY <1>1, <1>3, <1>6, <2>1, <2>6, <3>1, <3>2, <3>3 DEF IsUnderWay
    <3> QED BY <3>1, <3>4 DEF Lives
  <2>7. ASSUME IsDead(m) PROVE Lives(m)'
    <3>1. IsDead(m)'
      BY <1>1, <1>2, <1>3, <1>4, <2>1, <2>7 DEF IsDead
    <3> QED BY <3>1 DEF Lives
  <2>8. Lives(m)'
    BY <1>9, <2>3, <2>4, <2>5, <2>6, <2>7 DEF Lives
  <2> QED BY <2>2, <2>8 DEF Placed
<1> QED BY <1>7, <1>8, <1>9 DEF Placed

-----------------------------------------------------------------------------
(* What is seen of a message says in which place it is. *)

\* A copy that is ready is the message's one place.
LEMMA ReadyOne ==
    ASSUME IInv, NEW c \in Copies, work[c] > 0
    PROVE  c.msg \in Messages /\ IsReady(c.msg, c) /\ Pending(c.msg)
<1>1. c.msg \in Messages /\ c \in CopiesOf(c.msg) /\ Placed(c.msg)
  BY CopyFacts DEF CopiesOf, IInv, PlaceInv
<1>2. ~NoReady(c.msg)
  BY <1>1 DEF NoReady
<1>3. Pending(c.msg) /\ \E d \in Copies : IsReady(c.msg, d)
  BY <1>1, <1>2 DEF Placed, Lives, IsDelivered, IsWaiting, IsUnderWay, IsDead, IsGone, IsNew
<1>4. PICK d \in Copies : IsReady(c.msg, d)
  BY <1>3
<1>5. d = c
  BY <1>1, <1>4 DEF IsReady
<1> QED BY <1>1, <1>3, <1>4, <1>5

\* So is a copy that is delivered and not acknowledged.
LEMMA DeliveredOne ==
    ASSUME IInv, NEW c \in unacked, ~AckSent(c)
    PROVE  /\ c \in Copies /\ c.msg \in Messages
           /\ IsDelivered(c.msg, c) /\ Pending(c.msg)
<1>1. c \in Copies /\ c.msg \in Messages /\ Placed(c.msg)
  BY CopyFacts DEF IInv, PlaceInv, Types
<1>2. ~NoUnacked(c.msg) /\ ~Settled(c.msg)
  BY DEF NoUnacked, Settled
<1>3. Pending(c.msg) /\ \E d \in unacked : IsDelivered(c.msg, d)
  BY <1>1, <1>2 DEF Placed, Lives, IsReady, IsWaiting, IsUnderWay, IsDead, IsGone, IsNew
<1>4. PICK d \in unacked : IsDelivered(c.msg, d)
  BY <1>3
<1>5. d = c
  BY <1>4 DEF IsDelivered
<1> QED BY <1>1, <1>3, <1>4, <1>5

\* So is a timer whose channel is alive.
LEMMA WaitingOne ==
    ASSUME IInv, NEW t \in timers, Alive(t.channel)
    PROVE  /\ t.copy \in Copies /\ t.copy.msg \in Messages
           /\ IsWaiting(t.copy.msg, t) /\ Pending(t.copy.msg)
<1>1. t.copy \in Copies /\ t.copy.msg \in Messages /\ Placed(t.copy.msg)
  <2>1. t.copy \in Copies
    BY DEF IInv, Types
  <2> QED BY <2>1, CopyFacts DEF IInv, PlaceInv
<1>2. ~NoTimer(t.copy.msg)
  BY DEF NoTimer
<1>3. Pending(t.copy.msg) /\ \E u \in timers : IsWaiting(t.copy.msg, u)
  BY <1>1, <1>2 DEF Placed, Lives, IsReady, IsDelivered, IsUnderWay, IsDead, IsGone, IsNew
<1>4. PICK u \in timers : IsWaiting(t.copy.msg, u)
  BY <1>3
<1>5. u = t
  BY <1>4 DEF IsWaiting
<1> QED BY <1>1, <1>3, <1>4, <1>5

\* So is a frame that carries it.
LEMMA UnderWayOne ==
    ASSUME IInv, NEW m \in Messages, NEW i \in DOMAIN wire, Carries(wire[i], m)
    PROVE  IsUnderWay(m, i) /\ Pending(m)
<1>1. Placed(m) /\ ~NoFrame(m)
  BY DEF IInv, PlaceInv, NoFrame
<1>2. Pending(m) /\ \E j \in DOMAIN wire : IsUnderWay(m, j)
  BY <1>1 DEF Placed, Lives, IsReady, IsDelivered, IsWaiting, IsDead, IsGone, IsNew
<1>3. PICK j \in DOMAIN wire : IsUnderWay(m, j)
  BY <1>2
<1>4. j = i
  BY <1>3 DEF IsUnderWay
<1> QED BY <1>2, <1>3, <1>4

\* Whatever its place, one copy of it at most is unacknowledged.
LEMMA OneUnacked ==
    ASSUME IInv, NEW c \in unacked
    PROVE  /\ c \in Copies /\ c.msg \in Messages
           /\ c.msg \in published
           /\ calls[c.msg] <= c.attempt + redelivered[c.msg]
           /\ \A d \in unacked : d.msg = c.msg => d = c
           /\ NoReady(c.msg) /\ dlq[c.msg] = 0
<1>1. c \in Copies /\ c.msg \in Messages /\ Placed(c.msg)
  BY CopyFacts DEF IInv, PlaceInv, Types
<1>2. ~NoUnacked(c.msg)
  BY DEF NoUnacked
<1>3. CASE \E d \in unacked : IsDelivered(c.msg, d) /\ Pending(c.msg)
  BY <1>1, <1>3 DEF IsDelivered, Pending
<1>4. CASE c.msg \in published /\ Settled(c.msg) /\ NoReady(c.msg) /\ dlq[c.msg] = 0
  BY <1>1, <1>4 DEF Settled
<1> QED
  BY <1>1, <1>2, <1>3, <1>4
  DEF Placed, Lives, Pending, IsReady, IsWaiting, IsUnderWay, IsDead, IsGone, IsNew

-----------------------------------------------------------------------------
(* Frames are sent. *)

\* At most two frames are sent at once, each behind what is on the wire.
Grows(f, g) ==
    LET n == Len(wire) IN
    /\ wire' \in Seq(Frames)
    /\ n + 1 \in DOMAIN wire' /\ wire'[n + 1] = f
    /\ \A i \in DOMAIN wire : i \in DOMAIN wire' /\ wire'[i] = wire[i] /\ i < n + 1
    /\ \A i \in DOMAIN wire' : i \in DOMAIN wire \/ i = n + 1 \/ (i = n + 2 /\ wire'[i] = g)

\* One frame is appended.
LEMMA SendsOne ==
    ASSUME wire \in Seq(Frames), NEW f \in Frames, NEW g, wire' = Append(wire, f)
    PROVE  Grows(f, g) /\ DOMAIN wire' = 1..Len(wire) + 1
BY AppendFacts DEF Grows

\* To append one frame is to concatenate it.
LEMMA OneMore ==
    ASSUME NEW s \in Seq(Frames), NEW f \in Frames
    PROVE  s \o <<f>> = Append(s, f)
OBVIOUS

\* An acknowledgement and a dead letter are appended.
LEMMA SendsTwo ==
    ASSUME wire \in Seq(Frames), NEW f \in Frames, NEW g \in Frames,
           wire' = wire \o <<f>> \o <<g>>
    PROVE  /\ Grows(f, g) /\ DOMAIN wire' = 1..Len(wire) + 2
           /\ wire'[Len(wire) + 2] = g
<1>1. PICK s : s = Append(wire, f)
  OBVIOUS
<1>2. /\ s \in Seq(Frames) /\ Len(wire) \in Nat /\ Len(s) = Len(wire) + 1
      /\ DOMAIN wire = 1..Len(wire) /\ DOMAIN s = 1..Len(wire) + 1
      /\ s[Len(wire) + 1] = f /\ \A i \in 1..Len(wire) : s[i] = wire[i]
  BY <1>1, AppendFacts
<1>3. wire' = Append(s, g)
  BY <1>1, <1>2, OneMore
<1>4. /\ wire' \in Seq(Frames) /\ DOMAIN wire' = 1..Len(s) + 1
      /\ wire'[Len(s) + 1] = g /\ \A i \in 1..Len(s) : wire'[i] = s[i]
  BY <1>2, <1>3, AppendFacts
<1> QED BY <1>2, <1>4 DEF Grows

\* A copy whose delivery is still open is acknowledged, and only this one.
LEMMA AckGrows ==
    ASSUME Types, AckInv, NEW c \in Copies, NEW g,
           \A d \in Copies : g # Ack(d), Grows(Ack(c), g),
           ~AckSent(c), c \in unacked', unacked \subseteq unacked'
    PROVE  AckInv' /\ \A d \in Copies : AckSent(d)' <=> AckSent(d) \/ d = c
<1>1. /\ \A d \in Copies : Ack(c) = Ack(d) <=> c = d
      /\ Len(wire) + 1 \notin DOMAIN wire
  BY AckFacts DEF Types
<1>2. \A i \in DOMAIN wire' : i \in DOMAIN wire \/ i = Len(wire) + 1 \/ wire'[i] = g
  BY DEF Grows
<1>3. \A d \in Copies : \A i \in DOMAIN wire' : wire'[i] = Ack(d) =>
          (i \in DOMAIN wire /\ wire[i] = Ack(d)) \/ (i = Len(wire) + 1 /\ d = c)
  BY <1>1, <1>2 DEF Grows
<1>4. \A d \in Copies : AckSent(d)' <=> AckSent(d) \/ d = c
  <2>1. \A d \in Copies : AckSent(d)' => AckSent(d) \/ d = c
    BY <1>3 DEF AckSent
  <2>2. \A d \in Copies : AckSent(d) => AckSent(d)'
    BY DEF AckSent, Grows
  <2>3. AckSent(c)'
    BY DEF AckSent, Grows
  <2> QED BY <2>1, <2>2, <2>3
<1>5. AckInv'
  <2> SUFFICES ASSUME NEW d \in Copies, NEW i \in DOMAIN wire', wire'[i] = Ack(d)
               PROVE  d \in unacked' /\ \A j \in DOMAIN wire' : wire'[j] = Ack(d) => j = i
    BY DEF AckInv, Ack
  <2>1. CASE d = c
    <3>1. \A j \in DOMAIN wire : wire[j] # Ack(d)
      BY <2>1 DEF AckSent
    <3> QED BY <1>3, <2>1, <3>1
  <2>2. CASE d # c
    BY <1>3, <2>2 DEF AckInv
  <2> QED BY <2>1, <2>2
<1> QED BY <1>4, <1>5

\* The dead letter of a message, and the timer of a copy that is sent again.
DeadLetterOf(m) == [kind |-> "dlq", msg |-> m]
TimerOf(c) == [copy |-> RetryOf(c), channel |-> channel]

\* A failure is acknowledged; then there is a timer, a dead letter or nothing.
LEMMA FailureSends ==
    ASSUME Types, NEW c \in Copies, AckAndHandleFailure(c)
    PROVE  /\ c.msg \in Messages /\ Grows(Ack(c), DeadLetterOf(c.msg))
           /\ \/ /\ ShouldRetry(c.attempt) /\ DOMAIN wire' = 1..Len(wire) + 1
                 /\ timers' = timers \cup {TimerOf(c)}
              \/ /\ HasDlq /\ DOMAIN wire' = 1..Len(wire) + 2
                 /\ wire'[Len(wire) + 2] = DeadLetterOf(c.msg) /\ timers' = timers
              \/ /\ ~HasDlq /\ DOMAIN wire' = 1..Len(wire) + 1 /\ timers' = timers
<1>1. c.msg \in Messages /\ Ack(c) \in Frames /\ wire \in Seq(Frames)
  BY AckFacts, CopyFacts DEF Types
<1>2. DeadLetterOf(c.msg) \in Frames
  BY <1>1 DEF DeadLetterOf, Frames
<1>3. CASE ShouldRetry(c.attempt)
  <2>1. wire' = Append(wire, Ack(c)) /\ timers' = timers \cup {TimerOf(c)}
    BY <1>3 DEF AckAndHandleFailure, TimerOf
  <2> QED BY <1>1, <1>3, <2>1, SendsOne
<1>4. CASE ~ShouldRetry(c.attempt) /\ HasDlq
  <2>1. wire' = wire \o <<Ack(c)>> \o <<DeadLetterOf(c.msg)>> /\ timers' = timers
    BY <1>4 DEF AckAndHandleFailure, DeadLetter, DeadLetterOf
  <2> QED BY <1>1, <1>2, <1>4, <2>1, SendsTwo
<1>5. CASE ~ShouldRetry(c.attempt) /\ ~HasDlq
  <2>1. wire' = wire \o <<Ack(c)>> \o << >> /\ timers' = timers
    BY <1>5 DEF AckAndHandleFailure, DeadLetter
  <2>2. PICK s : s = wire \o <<Ack(c)>>
    OBVIOUS
  <2>3. s = Append(wire, Ack(c)) /\ s \in Seq(Frames)
    BY <1>1, <2>2, OneMore, AppendFacts
  <2>4. s \o << >> = s
    BY <2>3
  <2>5. wire' = Append(wire, Ack(c))
    BY <2>1, <2>2, <2>3, <2>4
  <2> QED BY <1>1, <1>5, <2>1, <2>5, SendsOne
<1> QED BY <1>3, <1>4, <1>5

\* What is sent after a failure of c is about its message only.
LEMMA FailureFrames ==
    ASSUME NEW c \in Copies
    PROVE  LET g == DeadLetterOf(c.msg) IN
           /\ \A d \in Copies : g # Ack(d)
           /\ \A m \in Messages : Carries(g, m) <=> m = c.msg
           /\ g.kind = "dlq"
<1>1. c.msg \in Messages
  BY CopyFacts
<1> QED BY <1>1, DlqFacts DEF DeadLetterOf

\* A delivered copy whose handler failed, or was not let through, is on its way
\* to the next attempt, to the dead-letter queue or nowhere.
LEMMA FailedPlaced ==
    ASSUME Types, Types', NEW c \in Copies, AckAndHandleFailure(c),
           up, up' = up, channel' = channel,
           c \in unacked', \A d \in unacked' : d.msg = c.msg => d = c,
           \A e \in CopiesOf(c.msg) : work'[e] = 0,
           NoTimer(c.msg), NoFrame(c.msg), dlq'[c.msg] = 0,
           calls'[c.msg] <= c.attempt + redelivered'[c.msg],
           c.msg \in published', faults' = 0 /\ HasDlq => handled'[c.msg] = 0
    PROVE  Placed(c.msg)'
<1> DEFINE n == Len(wire)
           m == c.msg
           g == DeadLetterOf(c.msg)
<1>1. /\ m \in Messages /\ Grows(Ack(c), g)
      /\ \/ /\ ShouldRetry(c.attempt) /\ DOMAIN wire' = 1..n + 1
            /\ timers' = timers \cup {TimerOf(c)}
         \/ /\ HasDlq /\ DOMAIN wire' = 1..n + 2 /\ wire'[n + 2] = g /\ timers' = timers
         \/ /\ ~HasDlq /\ DOMAIN wire' = 1..n + 1 /\ timers' = timers
  BY FailureSends
<1>2. /\ \A d \in Copies : g # Ack(d)
      /\ Carries(g, m) /\ g.kind = "dlq" /\ ~Carries(Ack(c), m)
  BY <1>1, FailureFrames, AckFacts
<1>3. n \in Nat /\ DOMAIN wire = 1..n
  BY DEF Types
<1>4. /\ c.attempt \in 1..MaxAttempts /\ calls'[m] \in Nat /\ redelivered'[m] \in Nat
      /\ calls'[m] <= c.attempt + redelivered'[m]
  BY <1>1, CopyFacts DEF Types
<1>5. Pending(m)'
  BY <1>4 DEF Pending
<1>6. NoReady(m)' /\ dlq'[m] = 0
  BY DEF NoReady, CopiesOf
<1>7. wire'[n + 1] = Ack(c) /\ n + 1 \in DOMAIN wire'
  BY <1>1 DEF Grows
<1>8. Settled(m)'
  BY <1>4, <1>7 DEF Settled, AckSent, Ack
<1>9. \A i \in DOMAIN wire' : ~Carries(wire'[i], m) \/ i = n + 2
  BY <1>1, <1>2 DEF Grows, NoFrame
<1>10. ASSUME timers' = timers PROVE NoTimer(m)'
  BY <1>10 DEF NoTimer, Alive
<1>11. ASSUME DOMAIN wire' = 1..n + 1 PROVE NoFrame(m)'
  BY <1>3, <1>9, <1>11 DEF NoFrame
<1>12. ASSUME ShouldRetry(c.attempt), DOMAIN wire' = 1..n + 1,
              timers' = timers \cup {TimerOf(c)}
       PROVE  Lives(m)'
  <2>1. PICK t : t = TimerOf(c)
    OBVIOUS
  <2>2. t.channel = channel /\ t.copy = RetryOf(c) /\ t \in timers'
    BY <1>12, <2>1 DEF TimerOf
  <2>3. t.copy.msg = m /\ t.copy.attempt = c.attempt + 1
    BY <1>12, <2>2, CopyFacts
  <2>4. Alive(t.channel)'
    BY <2>2 DEF Alive
  <2>5. \A u \in timers' : Alive(u.channel)' /\ u.copy.msg = m => u = t
    BY <1>12, <2>1 DEF NoTimer, Alive
  <2>6. calls'[m] + 1 <= t.copy.attempt + redelivered'[m]
    BY <1>4, <2>3
  <2>7. IsWaiting(m, t)'
    BY <1>6, <1>8, <1>11, <1>12, <2>2, <2>3, <2>4, <2>5, <2>6 DEF IsWaiting
  <2> QED BY <2>2, <2>7 DEF Lives
<1>13. ASSUME DOMAIN wire' = 1..n + 2, wire'[n + 2] = g, timers' = timers
       PROVE  Lives(m)'
  <2>1. n + 2 \in DOMAIN wire' /\ Carries(wire'[n + 2], m)
    BY <1>2, <1>3, <1>13
  <2>2. wire'[n + 2].kind # "work"
    BY <1>2, <1>13
  <2>3. \A d \in unacked' : d.msg = m => \E j \in DOMAIN wire' : j < n + 2 /\ wire'[j] = Ack(d)
    BY <1>3, <1>7
  <2>4. PICK k : k = n + 2
    OBVIOUS
  <2>5. IsUnderWay(m, k)'
    BY <1>6, <1>8, <1>9, <1>10, <1>13, <2>1, <2>2, <2>3, <2>4 DEF IsUnderWay
  <2> QED BY <2>1, <2>4, <2>5 DEF Lives
<1>14. ASSUME ~HasDlq, DOMAIN wire' = 1..n + 1, timers' = timers
       PROVE  IsGone(m)'
  BY <1>5, <1>6, <1>8, <1>10, <1>11, <1>14 DEF IsGone, Pending
<1> QED BY <1>1, <1>5, <1>12, <1>13, <1>14 DEF Placed

-----------------------------------------------------------------------------
(* The breaker in front of the handler. *)

\* One field of a breaker changes to another value of its type.
LEMMA FieldFacts ==
    ASSUME NEW b \in BreakerRecord
    PROVE  /\ \A s \in CircuitState : [b EXCEPT !.state = s] \in BreakerRecord
           /\ \A n \in 0..FailureThreshold : [b EXCEPT !.failures = n] \in BreakerRecord
           /\ \A n \in 0..SuccessThreshold : [b EXCEPT !.successes = n] \in BreakerRecord
           /\ \A n \in 0..CooldownMs : [b EXCEPT !.age = n] \in BreakerRecord
<1>1. /\ b.state \in CircuitState /\ b.failures \in 0..FailureThreshold
      /\ b.successes \in 0..SuccessThreshold /\ b.age \in 0..CooldownMs
      /\ b = [state |-> b.state, failures |-> b.failures,
              successes |-> b.successes, age |-> b.age]
  BY DEF BreakerRecord
<1> QED BY <1>1 DEF BreakerRecord

\* Opening, closing and what the getter does to a breaker.
LEMMA MovedFacts ==
    ASSUME NEW b \in BreakerRecord
    PROVE  Sound(Opened(b)) /\ Sound(Closed(b)) /\ (Sound(b) => Sound(Current(b)))
<1> USE BreakerAssumption
<1>1. /\ 0 \in 0..FailureThreshold /\ 0 \in 0..SuccessThreshold /\ 0 \in 0..CooldownMs
      /\ 0 < SuccessThreshold
      /\ "open" \in CircuitState /\ "closed" \in CircuitState /\ "half-open" \in CircuitState
  BY DEF CircuitState
<1>2. Sound(Opened(b))
  <2>1. PICK d : d = [b EXCEPT !.state = "open"]
    OBVIOUS
  <2>2. d \in BreakerRecord /\ d.state = "open"
    BY <1>1, <2>1, FieldFacts DEF BreakerRecord
  <2>3. Opened(b) = [d EXCEPT !.age = 0]
    BY <2>1 DEF Opened, BreakerRecord
  <2> QED BY <1>1, <2>2, <2>3, FieldFacts DEF Sound, BreakerRecord
<1>3. Sound(Closed(b))
  <2>1. PICK d : d = [b EXCEPT !.state = "closed"]
    OBVIOUS
  <2>2. d \in BreakerRecord /\ d.state = "closed"
    BY <1>1, <2>1, FieldFacts DEF BreakerRecord
  <2>3. PICK e : e = [d EXCEPT !.failures = 0]
    OBVIOUS
  <2>4. e \in BreakerRecord /\ e.state = "closed"
    BY <1>1, <2>2, <2>3, FieldFacts DEF BreakerRecord
  <2>5. Closed(b) = [e EXCEPT !.successes = 0]
    BY <2>1, <2>3 DEF Closed, BreakerRecord
  <2> QED BY <1>1, <2>4, <2>5, FieldFacts DEF Sound, BreakerRecord
<1>4. CASE b.state = "open" /\ b.age >= CooldownMs
  <2>1. PICK d : d = [b EXCEPT !.state = "half-open"]
    OBVIOUS
  <2>2. d \in BreakerRecord
    BY <1>1, <2>1, FieldFacts
  <2>3. Current(b) = [d EXCEPT !.successes = 0]
    BY <1>4, <2>1 DEF Current, BreakerRecord
  <2>4. Current(b) \in BreakerRecord /\ Current(b).successes = 0
    BY <1>1, <2>2, <2>3, FieldFacts DEF BreakerRecord
  <2> QED BY <1>1, <1>2, <1>3, <2>4 DEF Sound
<1>5. CASE ~(b.state = "open" /\ b.age >= CooldownMs)
  BY <1>2, <1>3, <1>5 DEF Current
<1> QED BY <1>4, <1>5

\* Every method of the breaker leaves it sound.
LEMMA BreakerSound ==
    ASSUME NEW b, Sound(b)
    PROVE  /\ Sound(NewBreaker) /\ Sound(Current(b)) /\ Sound(OnSuccess(b))
           /\ Sound(OnFailure(b)) /\ Sound(Elapse(b))
<1> USE BreakerAssumption
<1>0. /\ b \in BreakerRecord /\ b.successes \in 0..SuccessThreshold
      /\ b.failures \in 0..FailureThreshold /\ b.age \in 0..CooldownMs
  BY DEF Sound, BreakerRecord
<1>1. Sound(NewBreaker)
  BY DEF Sound, NewBreaker, BreakerRecord, CircuitState
<1>2. Sound(Current(b))
  BY <1>0, MovedFacts
<1>3. Sound(OnSuccess(b))
  <2>1. CASE b.state # "half-open"
    <3>1. OnSuccess(b) = [b EXCEPT !.failures = 0]
      BY <2>1 DEF OnSuccess
    <3>2. OnSuccess(b) \in BreakerRecord /\ OnSuccess(b).state = b.state
      BY <1>0, <3>1, FieldFacts DEF BreakerRecord
    <3> QED BY <2>1, <3>2 DEF Sound
  <2>2. CASE b.state = "half-open"
    <3>1. PICK n : n = b.successes + 1
      OBVIOUS
    <3>2. n \in 0..SuccessThreshold
      BY <1>0, <2>2, <3>1 DEF Sound
    <3>3. PICK d : d = [b EXCEPT !.successes = n]
      OBVIOUS
    <3>4. d \in BreakerRecord /\ d.successes = n
      BY <1>0, <3>2, <3>3, FieldFacts DEF BreakerRecord
    <3>5. OnSuccess(b) = IF d.successes >= SuccessThreshold THEN Closed(d) ELSE d
      BY <2>2, <3>1, <3>3 DEF OnSuccess
    <3>6. n >= SuccessThreshold \/ n < SuccessThreshold
      BY <3>2
    <3> QED BY <3>4, <3>5, <3>6, MovedFacts DEF Sound
  <2> QED BY <2>1, <2>2
<1>4. Sound(OnFailure(b))
  <2>1. CASE b.state = "half-open"
    BY <1>0, <2>1, MovedFacts DEF OnFailure
  <2>2. CASE b.state # "half-open"
    <3>1. PICK n : n = AtMost(b.failures + 1, FailureThreshold)
      OBVIOUS
    <3>2. n \in 0..FailureThreshold
      BY <1>0, <3>1 DEF AtMost
    <3>3. PICK d : d = [b EXCEPT !.failures = n]
      OBVIOUS
    <3>4. d \in BreakerRecord /\ d.state = b.state
      BY <1>0, <3>2, <3>3, FieldFacts DEF BreakerRecord
    <3>5. OnFailure(b) = IF d.failures >= FailureThreshold THEN Opened(d) ELSE d
      BY <2>2, <3>1, <3>3 DEF OnFailure
    <3> QED BY <2>2, <3>4, <3>5, MovedFacts DEF Sound
  <2> QED BY <2>1, <2>2
<1>5. Sound(Elapse(b))
  <2>1. CASE b.state = "open"
    <3>1. PICK n : n = AtMost(b.age + 1, CooldownMs)
      OBVIOUS
    <3>2. n \in 0..CooldownMs
      BY <1>0, <3>1 DEF AtMost
    <3>3. Elapse(b) = [b EXCEPT !.age = n]
      BY <2>1, <3>1 DEF Elapse
    <3>4. Elapse(b) \in BreakerRecord /\ Elapse(b).state = "open"
      BY <1>0, <2>1, <3>2, <3>3, FieldFacts DEF BreakerRecord
    <3> QED BY <3>4 DEF Sound
  <2>2. CASE b.state # "open"
    BY <2>2 DEF Elapse
  <2> QED BY <2>1, <2>2
<1> QED BY <1>1, <1>2, <1>3, <1>4, <1>5

-----------------------------------------------------------------------------
(* Each action. *)

\* A message that is published for the first time is ready, with attempt 1.
LEMMA PublishKeeps ==
    ASSUME IInv, NEW n \in Messages, Publish(n)
    PROVE  IInv'
<1>1. PICK c : c = [msg |-> n, attempt |-> 1]
  OBVIOUS
<1>2. c \in Copies /\ c.msg = n /\ c.attempt = 1 /\ c \in CopiesOf(n)
  BY <1>1, CopyFacts DEF CopiesOf
<1>3. /\ n \notin published /\ published' = published \cup {n}
      /\ work' = [work EXCEPT ![c] = @ + 1]
      /\ UNCHANGED <<unacked, dlq, wire, channel, up, running, timers, breaker,
                     handled, calls, redelivered, faults>>
  BY <1>1 DEF Publish, link, process
<1>4. Types
  BY DEF IInv
<1>5. Types'
  BY <1>2, <1>3, <1>4 DEF Types
<1>6. FaultInv' /\ BreakerInv' /\ AckInv' /\ RunInv' /\ CountInv'
  BY <1>3 DEF IInv, FaultInv, BreakerInv, AckInv, RunInv, CountInv, AckSent, Alive, RunningOf
<1>7. IsNew(n)
  BY <1>3 DEF IInv, PlaceInv, Placed, Pending, IsGone
<1>8. Placed(n)'
  <2>1. calls[n] = 0 /\ handled[n] = 0 /\ redelivered[n] \in Nat /\ dlq[n] = 0
    BY <1>4, <1>7 DEF IsNew, Types
  <2>2. Pending(n)'
    BY <1>3, <2>1 DEF Pending
  <2>3. \A d \in CopiesOf(n) : work'[d] = IF d = c THEN 1 ELSE 0
    BY <1>2, <1>3, <1>4, <1>7 DEF IsNew, NoReady, CopiesOf, Types
  <2>4. NoUnacked(n)' /\ NoTimer(n)' /\ NoFrame(n)'
    BY <1>3, <1>7 DEF IsNew, NoUnacked, NoTimer, NoFrame, Alive
  <2>5. IsReady(n, c)'
    BY <1>2, <1>3, <2>1, <2>3, <2>4 DEF IsReady, CopiesOf
  <2> QED BY <1>2, <2>2, <2>5 DEF Placed, Lives
<1>9. ASSUME NEW m \in Messages, m # n PROVE Placed(m)'
  <2>1. \A d \in CopiesOf(m) : work'[d] = work[d]
    BY <1>2, <1>3, <1>4, <1>9 DEF CopiesOf, Types
  <2>2. Still(m)
    BY <1>3, <1>9, <2>1 DEF Still, Alive
  <2> QED BY <1>4, <1>5, <2>2, StillPlaced DEF IInv, PlaceInv
<1>10. PlaceInv'
  BY <1>8, <1>9 DEF PlaceInv
<1> QED BY <1>5, <1>6, <1>10 DEF IInv

\* Time passes for the breaker only.
LEMMA TickKeeps ==
    ASSUME IInv, Tick
    PROVE  IInv'
<1>1. /\ breaker' = Elapse(breaker)
      /\ UNCHANGED <<broker, link, running, timers, history, faults>>
  BY DEF Tick
<1>2. BreakerInv'
  BY <1>1, BreakerSound DEF IInv, BreakerInv
<1>3. UNCHANGED <<work, unacked, dlq, wire, channel, up, running, timers,
                  published, handled, calls, redelivered, faults>>
  BY <1>1 DEF broker, link, history
<1>4. Types' /\ FaultInv' /\ AckInv' /\ RunInv' /\ CountInv'
  BY <1>3 DEF IInv, Types, FaultInv, AckInv, RunInv, CountInv, AckSent, Alive, RunningOf
<1>5. ASSUME NEW m \in Messages PROVE Placed(m)'
  <2>1. Still(m)
    BY <1>3 DEF Still, Alive
  <2> QED BY <1>4, <2>1, StillPlaced DEF IInv, PlaceInv
<1> QED BY <1>2, <1>4, <1>5 DEF IInv, PlaceInv

\* The consumer is registered on a new channel: what the process still holds
\* from an earlier one stays dead.
LEMMA ResubscribeKeeps ==
    ASSUME IInv, Resubscribe
    PROVE  IInv'
<1>1. /\ ~up /\ up' = TRUE /\ channel' = channel + 1
      /\ UNCHANGED <<work, unacked, dlq, wire, running, timers, breaker,
                     published, handled, calls, redelivered, faults>>
  BY DEF Resubscribe, broker, process, history
<1>2. Types
  BY DEF IInv
<1>3. Types'
  <2>1. 0..channel \subseteq 0..channel'
    BY <1>1, <1>2 DEF Types
  <2>2. running' \subseteq [copy : Copies, channel : 0..channel']
        /\ timers' \subseteq [copy : Copies, channel : 0..channel']
    BY <1>1, <1>2, <2>1 DEF Types
  <2> QED BY <1>1, <1>2, <2>2 DEF Types
<1>4. \A x \in running \cup timers : ~Alive(x.channel) /\ ~Alive(x.channel)'
  <2>1. \A x \in running \cup timers : x.channel \in 0..channel
    BY <1>2 DEF Types
  <2> QED BY <1>1, <1>2, <2>1 DEF Alive, Types
<1>5. FaultInv'
  BY <1>1, <1>2 DEF IInv, FaultInv, Types
<1>6. BreakerInv' /\ AckInv' /\ CountInv'
  BY <1>1 DEF IInv, BreakerInv, AckInv, CountInv, RunningOf
<1>7. RunInv'
  BY <1>1, <1>4 DEF RunInv, Alive
<1>8. ASSUME NEW m \in Messages PROVE Placed(m)'
  <2>1. Still(m)
    BY <1>1, <1>4 DEF Still, Alive
  <2> QED BY <1>2, <1>3, <2>1, StillPlaced DEF IInv, PlaceInv
<1> QED BY <1>3, <1>5, <1>6, <1>7, <1>8 DEF IInv, PlaceInv

\* What was started on a channel that is gone was started before a fault.
LEMMA StaleFacts ==
    ASSUME IInv
    PROVE  /\ \A r \in running : /\ r.copy \in Copies /\ r.copy.msg \in Messages
                                 /\ ~Alive(r.channel) => faults # 0
           /\ \A t \in timers : t.copy \in Copies /\ t.copy.msg \in Messages
<1>1. \A x \in running \cup timers : x.copy \in Copies /\ x.channel \in 0..channel
  BY DEF IInv, Types
<1>2. channel \in Nat /\ up \in BOOLEAN
      /\ faults = channel + IF up THEN 0 ELSE 1
  BY DEF IInv, Types, FaultInv
<1>3. \A r \in running : ~Alive(r.channel) => faults # 0
  BY <1>1, <1>2 DEF Alive
<1> QED BY <1>1, <1>3, CopyFacts

\* The backoff is over: the copy is under way, or given up with its channel.
LEMMA RetryKeeps ==
    ASSUME IInv, NEW t \in timers, Retry(t)
    PROVE  IInv'
<1>1. /\ timers' = timers \ {t}
      /\ UNCHANGED <<work, unacked, dlq, channel, up, running, breaker,
                     published, handled, calls, redelivered, faults>>
  BY DEF Retry, broker, history
<1>2. Types /\ t.copy \in Copies /\ t.copy.msg \in Messages
  BY StaleFacts DEF IInv
<1>3. FaultInv' /\ BreakerInv' /\ CountInv'
  BY <1>1 DEF IInv, FaultInv, BreakerInv, CountInv, RunningOf
<1>4. CASE ~Alive(t.channel)
  <2>1. wire' = wire
    BY <1>4 DEF Retry, CapturedChannelAlive
  <2>2. Types' /\ AckInv' /\ RunInv'
    BY <1>1, <2>1 DEF IInv, Types, AckInv, RunInv, AckSent, Alive
  <2>3. ASSUME NEW m \in Messages PROVE Placed(m)'
    <3>1. Still(m)
      BY <1>1, <1>4, <2>1 DEF Still, Alive
    <3> QED BY <1>2, <2>2, <3>1, StillPlaced DEF IInv, PlaceInv
  <2> QED BY <1>3, <2>2, <2>3 DEF IInv, PlaceInv
<1>5. CASE Alive(t.channel)
  <2>1. PICK f : f = [kind |-> "work", copy |-> t.copy]
    OBVIOUS
  <2>2. PICK n : n = Len(wire) + 1
    OBVIOUS
  <2>3. PICK o : o = t.copy.msg
    OBVIOUS
  <2>4. /\ f \in Frames /\ f.kind = "work" /\ f.copy = t.copy
        /\ \A d \in Copies : f # Ack(d)
        /\ \A m \in Messages : Carries(f, m) <=> m = o
    BY <1>2, <2>1, <2>3, WorkFacts
  <2>5. wire' = Append(wire, f) /\ wire \in Seq(Frames)
    BY <1>2, <1>5, <2>1 DEF Retry, CapturedChannelAlive, Types
  <2>6. Grows(f, f) /\ DOMAIN wire' = 1..n /\ DOMAIN wire = 1..n - 1 /\ n \in Nat \ {0}
    BY <2>2, <2>4, <2>5, SendsOne
  <2>7. /\ wire' \in Seq(Frames) /\ n \in DOMAIN wire' /\ wire'[n] = f
        /\ \A i \in DOMAIN wire : i \in DOMAIN wire' /\ wire'[i] = wire[i] /\ i < n
        /\ \A i \in DOMAIN wire' : i \in DOMAIN wire \/ i = n
    BY <2>2, <2>6 DEF Grows
  <2>8. Types'
    BY <1>1, <1>2, <2>7 DEF Types
  <2>9. \A d \in Copies : AckSent(d)' <=> AckSent(d)
    BY <2>4, <2>7 DEF AckSent, Ack
  <2>10. AckInv'
    BY <1>1, <2>4, <2>7 DEF IInv, AckInv, Ack
  <2>11. RunInv'
    <3>1. \A r \in running : r.copy \in Copies
      BY StaleFacts
    <3> QED BY <1>1, <2>9, <3>1 DEF IInv, RunInv, Alive
  <2>12. IsWaiting(o, t) /\ Pending(o) /\ o \in Messages
    BY <1>2, <1>5, <2>3, WaitingOne
  <2>13. Placed(o)'
    <3>1. Pending(o)'
      BY <1>1, <2>12 DEF Pending
    <3>2. NoReady(o)' /\ dlq'[o] = 0
      BY <1>1, <2>12 DEF IsWaiting, NoReady, CopiesOf
    <3>3. NoTimer(o)'
      BY <1>1, <2>12 DEF IsWaiting, NoTimer, Alive
    <3>4. \A c \in unacked : c \in Copies
      BY <1>2 DEF Types
    <3>5. Settled(o)'
      BY <1>1, <2>9, <2>12, <3>4 DEF IsWaiting, Settled
    <3>6. \A c \in unacked' : c.msg = o => \E j \in DOMAIN wire' : j < n /\ wire'[j] = Ack(c)
      <4> SUFFICES ASSUME NEW c \in unacked, c.msg = o
                   PROVE  \E j \in DOMAIN wire' : j < n /\ wire'[j] = Ack(c)
        BY <1>1
      <4>1. PICK j \in DOMAIN wire : wire[j] = Ack(c)
        BY <2>12 DEF IsWaiting, Settled, AckSent
      <4> QED BY <2>7, <4>1
    <3>7. Carries(wire'[n], o) /\ \A j \in DOMAIN wire' : Carries(wire'[j], o) => j = n
      BY <2>4, <2>7, <2>12 DEF IsWaiting, NoFrame
    <3>8. calls'[o] + 1 <= wire'[n].copy.attempt + redelivered'[o]
      BY <1>1, <2>4, <2>7, <2>12 DEF IsWaiting
    <3>9. IsUnderWay(o, n)'
      BY <2>7, <3>2, <3>3, <3>5, <3>6, <3>7, <3>8 DEF IsUnderWay
    <3> QED BY <2>7, <3>1, <3>9 DEF Placed, Lives
  <2>14. ASSUME NEW m \in Messages, m # o PROVE Placed(m)'
    <3>1. \A i \in DOMAIN wire' \ DOMAIN wire :
            ~Carries(wire'[i], m) /\ \A c \in CopiesOf(m) : wire'[i] # Ack(c)
      BY <2>4, <2>7, <2>14 DEF CopiesOf
    <3>2. \A u \in timers \cup timers' : u.copy.msg = m =>
            (u \in timers' /\ Alive(u.channel)' <=> u \in timers /\ Alive(u.channel))
      BY <1>1, <2>3, <2>14 DEF Alive
    <3>3. Still(m)
      BY <1>1, <2>7, <3>1, <3>2 DEF Still
    <3> QED BY <1>2, <2>8, <3>3, StillPlaced DEF IInv, PlaceInv
  <2>15. PlaceInv'
    BY <2>13, <2>14 DEF PlaceInv
  <2> QED BY <1>3, <2>8, <2>10, <2>11, <2>15 DEF IInv
<1> QED BY <1>4, <1>5

\* A handler that ends is one call the less, and answers one call at most.
LEMMA EndsOnce ==
    ASSUME IInv, NEW r \in running, running' = running \ {r},
           UNCHANGED <<calls, redelivered, faults>>,
           handled' = handled \/ handled' = [handled EXCEPT ![r.copy.msg] = @ + 1]
    PROVE  CountInv'
<1>1. r.copy.msg \in Messages /\ handled \in [Messages -> Nat] /\ calls \in [Messages -> Nat]
  BY StaleFacts DEF IInv, Types
<1> SUFFICES ASSUME NEW m \in Messages
             PROVE  /\ handled'[m] + Cardinality(RunningOf(m)') <= calls'[m]
                    /\ IsFiniteSet(RunningOf(m)') /\ redelivered'[m] <= faults'
  BY DEF CountInv
<1>2. /\ handled[m] + Cardinality(RunningOf(m)) <= calls[m] /\ redelivered[m] <= faults
      /\ IsFiniteSet(RunningOf(m)) /\ Cardinality(RunningOf(m)) \in Nat
  BY FS_CardinalityType DEF IInv, CountInv
<1>3. CASE m = r.copy.msg
  <2>1. RunningOf(m)' = RunningOf(m) \ {r} /\ r \in RunningOf(m)
    BY <1>3 DEF RunningOf
  <2>2. IsFiniteSet(RunningOf(m)') /\ Cardinality(RunningOf(m)') = Cardinality(RunningOf(m)) - 1
    BY <1>2, <2>1, FS_RemoveElement
  <2>3. handled'[m] \in Nat /\ handled'[m] <= handled[m] + 1
    BY <1>1, <1>3
  <2> QED BY <1>1, <1>2, <2>2, <2>3
<1>4. CASE m # r.copy.msg
  <2>1. RunningOf(m)' = RunningOf(m)
    BY <1>4 DEF RunningOf
  <2>2. handled'[m] = handled[m]
    BY <1>1, <1>4
  <2> QED BY <1>2, <2>1, <2>2
<1> QED BY <1>3, <1>4

\* A handler on a channel that is gone ends: its message has moved on.
LEMMA StaleEnds ==
    ASSUME IInv, NEW r \in running, ~Alive(r.channel), running' = running \ {r},
           UNCHANGED <<work, unacked, dlq, wire, channel, up, timers,
                       published, calls, redelivered, faults>>,
           Sound(breaker'),
           handled' = handled \/ handled' = [handled EXCEPT ![r.copy.msg] = @ + 1]
    PROVE  IInv'
<1>1. r.copy.msg \in Messages /\ faults # 0 /\ Types
  BY StaleFacts DEF IInv
<1>2. Types'
  <2>1. handled \in [Messages -> Nat]
    BY <1>1 DEF Types
  <2>2. PICK o : o = r.copy.msg
    OBVIOUS
  <2>3. [handled EXCEPT ![o] = @ + 1] \in [Messages -> Nat]
    BY <1>1, <2>1, <2>2
  <2>4. handled' \in [Messages -> Nat]
    BY <2>1, <2>2, <2>3
  <2> QED BY <1>1, <2>4 DEF Types
<1>3. FaultInv' /\ BreakerInv' /\ AckInv' /\ RunInv'
  BY DEF IInv, FaultInv, BreakerInv, AckInv, RunInv, AckSent, Alive
<1>4. CountInv'
  BY EndsOnce
<1>5. ASSUME NEW m \in Messages PROVE Placed(m)'
  <2>1. handled'[m] = handled[m] \/ m = r.copy.msg
    BY <1>1 DEF Types
  <2>2. r.copy.msg \in published
    BY <1>1 DEF IInv, PlaceInv, Placed, Pending, IsGone, IsNew
  <2>3. Still(m)
    BY <1>1, <2>1, <2>2 DEF Still, Alive
  <2> QED BY <1>1, <1>2, <2>3, StillPlaced DEF IInv, PlaceInv
<1> QED BY <1>2, <1>3, <1>4, <1>5 DEF IInv, PlaceInv

\* A handler on the channel in use acknowledges its delivery, which none of the
\* other handlers there holds.
LEMMA AliveEnds ==
    ASSUME IInv, NEW r \in running, Alive(r.channel), running' = running \ {r},
           NEW g, \A d \in Copies : g # Ack(d), Grows(Ack(r.copy), g),
           UNCHANGED <<unacked, channel, up>>
    PROVE  /\ AckInv' /\ RunInv'
           /\ \A d \in Copies : AckSent(d)' <=> AckSent(d) \/ d = r.copy
<1>1. /\ r.copy \in Copies /\ r.copy \in unacked /\ ~AckSent(r.copy)
      /\ \A s \in running : s.copy \in Copies
      /\ Types /\ AckInv
  BY StaleFacts DEF IInv, RunInv
<1>2. AckInv' /\ \A d \in Copies : AckSent(d)' <=> AckSent(d) \/ d = r.copy
  BY <1>1, AckGrows
<1>3. ASSUME NEW s \in running', Alive(s.channel)'
      PROVE  s.copy \in unacked' /\ ~AckSent(s.copy)'
  <2>1. s \in running /\ s # r /\ Alive(s.channel)
    BY <1>3 DEF Alive
  <2>2. s.copy # r.copy
    BY <1>1, <2>1 DEF Types, Alive
  <2> QED BY <1>1, <1>2, <2>1, <2>2 DEF IInv, RunInv
<1> QED BY <1>2, <1>3 DEF RunInv

\* What is sent about one message leaves the others where they are.
LEMMA OthersStill ==
    ASSUME IInv, NEW o \in Messages, NEW m \in Messages, m # o,
           NEW c \in CopiesOf(o), NEW g,
           Grows(Ack(c), g), \A d \in Copies : g # Ack(d),
           \A k \in Messages : Carries(g, k) => k = o,
           Types', UNCHANGED <<dlq, channel, up, published, redelivered, faults>>,
           \A d \in CopiesOf(m) : work'[d] = work[d] /\ (d \in unacked' <=> d \in unacked),
           calls'[m] = calls[m], handled'[m] = handled[m],
           \A r \in running' : r.copy.msg = m => r \in running,
           \A t \in timers \cup timers' : t.copy.msg = m => (t \in timers' <=> t \in timers)
    PROVE  Placed(m)'
<1>1. c \in Copies /\ c.msg = o /\ ~Carries(Ack(c), m)
  BY AckFacts DEF CopiesOf
<1>2. \A i \in DOMAIN wire' \ DOMAIN wire : wire'[i] = Ack(c) \/ wire'[i] = g
  BY DEF Grows
<1>3. \A d \in CopiesOf(m) : Ack(c) # Ack(d)
  BY <1>1, AckFacts DEF CopiesOf
<1>4. \A i \in DOMAIN wire' \ DOMAIN wire :
        ~Carries(wire'[i], m) /\ \A d \in CopiesOf(m) : wire'[i] # Ack(d)
  BY <1>1, <1>2, <1>3 DEF CopiesOf
<1>5. Still(m)
  BY <1>4 DEF Still, Grows, Alive
<1> QED BY <1>5, StillPlaced DEF IInv, PlaceInv

\* The handler resolves: its message is handled, and its copy acknowledged.
LEMMA ResolvesKeeps ==
    ASSUME IInv, NEW r \in running, HandlerResolves(r)
    PROVE  IInv'
<1>1. PICK c, o : c = r.copy /\ o = r.copy.msg
  OBVIOUS
<1>2. /\ running' = running \ {r} /\ handled' = [handled EXCEPT ![o] = @ + 1]
      /\ UNCHANGED <<work, unacked, dlq, channel, up, timers,
                     published, calls, redelivered, faults>>
  BY <1>1 DEF HandlerResolves, broker
<1>3. Sound(breaker')
  BY BreakerSound DEF HandlerResolves, IInv, BreakerInv
<1>4. CASE ~Alive(r.channel)
  <2>1. wire' = wire
    BY <1>4 DEF HandlerResolves
  <2> QED BY <1>1, <1>2, <1>3, <1>4, <2>1, StaleEnds
<1>5. CASE Alive(r.channel)
  <2>1. /\ c \in Copies /\ o \in Messages /\ c \in CopiesOf(o)
        /\ c \in unacked /\ ~AckSent(c) /\ Types
    BY <1>1, <1>5, StaleFacts DEF IInv, RunInv, CopiesOf
  <2>2. IsDelivered(o, c) /\ Pending(o)
    BY <1>1, <2>1, DeliveredOne
  <2>3. wire' = Append(wire, Ack(c)) /\ wire \in Seq(Frames) /\ Ack(c) \in Frames
    BY <1>1, <1>5, <2>1, AckFacts DEF HandlerResolves, Types
  <2>4. PICK g : g = DeadLetterOf(o)
    OBVIOUS
  <2>5. /\ Grows(Ack(c), g) /\ \A d \in Copies : g # Ack(d)
        /\ \A k \in Messages : Carries(g, k) => k = o
    BY <1>1, <2>1, <2>3, <2>4, SendsOne, FailureFrames
  <2>6. DOMAIN wire' = 1..Len(wire) + 1 /\ DOMAIN wire = 1..Len(wire)
    BY <2>3, SendsOne
  <2>7. /\ AckInv' /\ RunInv'
        /\ \A d \in Copies : AckSent(d)' <=> AckSent(d) \/ d = c
    BY <1>1, <1>2, <1>5, <2>5, AliveEnds
  <2>8. Types'
    <3>1. handled' \in [Messages -> Nat] /\ wire' \in Seq(Frames)
      BY <1>2, <2>1, <2>5 DEF Types, Grows
    <3> QED BY <1>2, <2>1, <3>1 DEF Types
  <2>9. CountInv'
    BY <1>1, <1>2, EndsOnce
  <2>10. FaultInv' /\ BreakerInv'
    BY <1>2, <1>3 DEF IInv, FaultInv, BreakerInv
  <2>11. Placed(o)'
    <3>1. /\ o \in published' /\ calls'[o] <= MaxAttempts + redelivered'[o]
          /\ faults' = 0 /\ HasDlq => handled'[o] = 1
      BY <1>2, <2>1, <2>2 DEF Pending, Types
    <3>2. NoReady(o)' /\ NoTimer(o)' /\ dlq'[o] = 0
      BY <1>2, <2>2 DEF IsDelivered, NoReady, NoTimer, CopiesOf, Alive
    <3>3. Settled(o)'
      BY <1>2, <2>1, <2>2, <2>7 DEF IsDelivered, Settled
    <3>4. \A i \in DOMAIN wire' : i \in DOMAIN wire \/ wire'[i] = Ack(c)
      BY <2>5, <2>6 DEF Grows
    <3>5. NoFrame(o)'
      BY <2>1, <2>2, <2>5, <3>4, AckFacts DEF IsDelivered, NoFrame, Grows
    <3> QED BY <3>1, <3>2, <3>3, <3>5 DEF IsGone, Placed
  <2>12. ASSUME NEW m \in Messages, m # o PROVE Placed(m)'
    <3>1. handled'[m] = handled[m]
      BY <1>2, <2>1, <2>12 DEF Types
    <3> QED BY <1>2, <2>1, <2>5, <2>8, <2>12, <3>1, OthersStill
  <2>13. PlaceInv'
    BY <2>11, <2>12 DEF PlaceInv
  <2> QED BY <2>7, <2>8, <2>9, <2>10, <2>13 DEF IInv
<1> QED BY <1>4, <1>5

\* A failure of c: what it sends, and that only its message is touched.
LEMMA FailureTypes ==
    ASSUME Types, NEW c \in Copies, AckAndHandleFailure(c), UNCHANGED channel
    PROVE  /\ wire' \in Seq(Frames)
           /\ timers' \subseteq [copy : Copies, channel : 0..channel]
           /\ \A t \in timers' : t.copy.msg # c.msg => t \in timers
           /\ timers \subseteq timers'
<1>1. wire' \in Seq(Frames)
  BY FailureSends DEF Grows
<1>2. timers' = timers \/ (ShouldRetry(c.attempt) /\ timers' = timers \cup {TimerOf(c)})
  BY FailureSends
<1>3. ASSUME ShouldRetry(c.attempt)
      PROVE  /\ TimerOf(c) \in [copy : Copies, channel : 0..channel]
             /\ TimerOf(c).copy.msg = c.msg
  BY <1>3, CopyFacts DEF TimerOf, Types
<1> QED BY <1>1, <1>2, <1>3 DEF Types

\* The handler rejects.
LEMMA RejectsKeeps ==
    ASSUME IInv, NEW r \in running, HandlerRejects(r)
    PROVE  IInv'
<1>1. PICK c, o : c = r.copy /\ o = r.copy.msg
  OBVIOUS
<1>2. /\ running' = running \ {r}
      /\ UNCHANGED <<work, unacked, dlq, channel, up,
                     published, handled, calls, redelivered, faults>>
  BY DEF HandlerRejects, broker, history
<1>3. Sound(breaker')
  BY BreakerSound DEF HandlerRejects, IInv, BreakerInv
<1>4. CASE ~Alive(r.channel)
  <2>1. wire' = wire /\ timers' = timers
    BY <1>4 DEF HandlerRejects
  <2> QED BY <1>1, <1>2, <1>3, <1>4, <2>1, StaleEnds
<1>5. CASE Alive(r.channel)
  <2>1. /\ c \in Copies /\ o \in Messages /\ c \in CopiesOf(o) /\ o = c.msg
        /\ c \in unacked /\ ~AckSent(c) /\ Types /\ up
    BY <1>1, <1>5, StaleFacts DEF IInv, RunInv, CopiesOf, Alive
  <2>2. IsDelivered(o, c) /\ Pending(o)
    BY <1>1, <2>1, DeliveredOne
  <2>3. AckAndHandleFailure(c)
    BY <1>1, <1>5 DEF HandlerRejects
  <2>4. PICK g : g = DeadLetterOf(o)
    OBVIOUS
  <2>5. /\ Grows(Ack(c), g) /\ \A d \in Copies : g # Ack(d)
        /\ \A k \in Messages : Carries(g, k) => k = o
    BY <2>1, <2>3, <2>4, FailureSends, FailureFrames
  <2>6. AckInv' /\ RunInv'
    BY <1>1, <1>2, <1>5, <2>5, AliveEnds
  <2>7. /\ wire' \in Seq(Frames) /\ timers' \subseteq [copy : Copies, channel : 0..channel]
        /\ timers \subseteq timers' /\ \A t \in timers' : t.copy.msg # o => t \in timers
    BY <1>2, <2>1, <2>3, FailureTypes
  <2>8. Types'
    BY <1>2, <2>1, <2>7 DEF Types
  <2>9. CountInv'
    BY <1>2, EndsOnce
  <2>10. FaultInv' /\ BreakerInv'
    BY <1>2, <1>3 DEF IInv, FaultInv, BreakerInv
  <2>11. Placed(o)'
    <3>1. /\ o \in published' /\ calls'[o] <= c.attempt + redelivered'[o]
          /\ faults' = 0 /\ HasDlq => handled'[o] = 0
          /\ dlq'[o] = 0 /\ NoTimer(o) /\ NoFrame(o)
          /\ c \in unacked' /\ \A d \in unacked' : d.msg = o => d = c
          /\ \A e \in CopiesOf(o) : work'[e] = 0
      BY <1>2, <2>1, <2>2 DEF Pending, IsDelivered, NoReady
    <3> QED BY <1>2, <2>1, <2>3, <2>8, <3>1, FailedPlaced
  <2>12. ASSUME NEW m \in Messages, m # o PROVE Placed(m)'
    BY <1>2, <2>1, <2>5, <2>7, <2>8, <2>12, OthersStill
  <2>13. PlaceInv'
    BY <2>11, <2>12 DEF PlaceInv
  <2> QED BY <2>6, <2>8, <2>9, <2>10, <2>13 DEF IInv
<1> QED BY <1>4, <1>5

\* The copy that was delivered leaves the queue.
LEMMA TakenFacts ==
    ASSUME IInv, NEW c \in Copies, work[c] > 0,
           work' = [work EXCEPT ![c] = @ - 1], unacked' = unacked \cup {c}
    PROVE  /\ work' \in [Copies -> Nat] /\ unacked' \subseteq Copies
           /\ \A e \in CopiesOf(c.msg) : work'[e] = 0
           /\ \A d \in unacked' : d.msg = c.msg => d = c
           /\ c \notin unacked /\ ~AckSent(c)
           /\ \A m \in Messages : m # c.msg =>
                \A d \in CopiesOf(m) : work'[d] = work[d] /\ (d \in unacked' <=> d \in unacked)
<1>1. IsReady(c.msg, c) /\ c.msg \in Messages
  BY ReadyOne
<1>2. work \in [Copies -> Nat] /\ unacked \subseteq Copies
  BY DEF IInv, Types
<1>3. work' \in [Copies -> Nat] /\ work[c] = 1
  BY <1>1, <1>2 DEF IsReady
<1>4. \A e \in CopiesOf(c.msg) : work'[e] = 0
  BY <1>1, <1>2, <1>3 DEF IsReady, CopiesOf
<1>5. c \notin unacked /\ \A d \in unacked' : d.msg = c.msg => d = c
  BY <1>1 DEF IsReady, NoUnacked
<1>6. ~AckSent(c)
  BY <1>5 DEF IInv, AckInv, AckSent, Ack
<1>7. ASSUME NEW m \in Messages, m # c.msg, NEW d \in CopiesOf(m)
      PROVE  work'[d] = work[d] /\ (d \in unacked' <=> d \in unacked)
  <2>1. d # c /\ d \in Copies
    BY <1>7 DEF CopiesOf
  <2> QED BY <1>2, <2>1
<1> QED BY <1>2, <1>3, <1>4, <1>5, <1>6, <1>7

\* The breaker lets a delivery through: the handler runs.
LEMMA AdmittedKeeps ==
    ASSUME IInv, NEW c \in Copies, work[c] > 0, up,
           work' = [work EXCEPT ![c] = @ - 1], unacked' = unacked \cup {c},
           Sound(breaker'), running' = running \cup {[copy |-> c, channel |-> channel]},
           calls' = [calls EXCEPT ![c.msg] = @ + 1],
           UNCHANGED <<wire, timers, dlq, channel, up, published,
                       handled, redelivered, faults>>
    PROVE  IInv'
<1>1. PICK r, o : r = [copy |-> c, channel |-> channel] /\ o = c.msg
  OBVIOUS
<1>2. r.copy = c /\ r.copy.msg = o /\ r.channel = channel /\ running' = running \cup {r}
  BY <1>1
<1>3. IsReady(o, c) /\ Pending(o) /\ o \in Messages /\ Types /\ c \in CopiesOf(o)
  BY <1>1, ReadyOne DEF IInv, CopiesOf
<1>4. /\ work' \in [Copies -> Nat] /\ unacked' \subseteq Copies
      /\ \A e \in CopiesOf(o) : work'[e] = 0
      /\ \A d \in unacked' : d.msg = o => d = c
      /\ c \notin unacked /\ ~AckSent(c)
      /\ \A m \in Messages : m # o =>
           \A d \in CopiesOf(m) : work'[d] = work[d] /\ (d \in unacked' <=> d \in unacked)
  BY <1>1, TakenFacts
<1>5. calls' = [calls EXCEPT ![o] = @ + 1] /\ calls \in [Messages -> Nat]
  BY <1>1, <1>3 DEF Types
<1>6. calls' \in [Messages -> Nat] /\ calls'[o] = calls[o] + 1
      /\ \A m \in Messages : m # o => calls'[m] = calls[m]
  BY <1>3, <1>5
<1>7. Types'
  <2>1. r \in [copy : Copies, channel : 0..channel]
    BY <1>1, <1>3 DEF Types
  <2>2. running' \subseteq [copy : Copies, channel : 0..channel']
    BY <1>2, <1>3, <2>1 DEF Types
  <2> QED BY <1>3, <1>4, <1>6, <2>2 DEF Types
<1>8. FaultInv' /\ BreakerInv'
  BY DEF IInv, FaultInv, BreakerInv
<1>9. AckInv'
  BY DEF IInv, AckInv, Ack
<1>10. RunInv'
  BY <1>2, <1>4 DEF IInv, RunInv, AckSent, Alive, Ack
<1>11. CountInv'
  <2> SUFFICES ASSUME NEW m \in Messages
               PROVE  /\ handled'[m] + Cardinality(RunningOf(m)') <= calls'[m]
                      /\ IsFiniteSet(RunningOf(m)') /\ redelivered'[m] <= faults'
    BY DEF CountInv
  <2>1. /\ handled[m] + Cardinality(RunningOf(m)) <= calls[m] /\ redelivered[m] <= faults
        /\ IsFiniteSet(RunningOf(m)) /\ Cardinality(RunningOf(m)) \in Nat
        /\ handled[m] \in Nat /\ calls[m] \in Nat
    BY <1>3, FS_CardinalityType DEF IInv, CountInv, Types
  <2>2. CASE m = o
    <3>1. RunningOf(m)' = RunningOf(m) \cup {r}
      BY <1>2, <2>2 DEF RunningOf
    <3>2. PICK S, k : S = RunningOf(m) /\ k = Cardinality(RunningOf(m))
      OBVIOUS
    <3>3. IsFiniteSet(S \cup {r}) /\ Cardinality(S \cup {r}) \in {k, k + 1}
      BY <2>1, <3>2, FS_AddElement
    <3>4. IsFiniteSet(RunningOf(m)') /\ Cardinality(RunningOf(m)') \in {k, k + 1}
      BY <3>1, <3>2, <3>3
    <3> QED BY <1>6, <2>1, <2>2, <3>2, <3>4
  <2>3. CASE m # o
    <3>1. RunningOf(m)' = RunningOf(m)
      BY <1>2, <2>3 DEF RunningOf
    <3> QED BY <1>6, <2>1, <2>3, <3>1
  <2> QED BY <2>2, <2>3
<1>12. Placed(o)'
  <2>1. c.attempt \in 1..MaxAttempts /\ calls[o] \in Nat /\ redelivered[o] \in Nat
        /\ calls[o] + 1 <= c.attempt + redelivered[o]
    BY <1>3, CopyFacts DEF IsReady, Types
  <2>2. calls'[o] <= c.attempt + redelivered'[o] /\ calls'[o] <= MaxAttempts + redelivered'[o]
    BY <1>6, <2>1
  <2>3. Pending(o)'
    BY <1>3, <2>2 DEF Pending
  <2>4. NoReady(o)' /\ NoTimer(o)' /\ NoFrame(o)' /\ dlq'[o] = 0
    BY <1>3, <1>4 DEF IsReady, NoReady, NoTimer, NoFrame, CopiesOf, Alive
  <2>5. c \in unacked' /\ ~AckSent(c)'
    BY <1>4 DEF AckSent, Ack
  <2>6. IsDelivered(o, c)'
    BY <1>1, <1>4, <2>2, <2>4, <2>5 DEF IsDelivered
  <2> QED BY <2>3, <2>5, <2>6 DEF Placed, Lives
<1>13. ASSUME NEW m \in Messages, m # o PROVE Placed(m)'
  <2>1. Still(m)
    BY <1>2, <1>4, <1>6, <1>13 DEF Still, Alive
  <2> QED BY <1>3, <1>7, <2>1, StillPlaced DEF IInv, PlaceInv
<1>14. PlaceInv'
  BY <1>12, <1>13 DEF PlaceInv
<1> QED BY <1>7, <1>8, <1>9, <1>10, <1>11, <1>14 DEF IInv

\* The breaker is open: the delivery is handled as a failure at once.
LEMMA RefusedKeeps ==
    ASSUME IInv, NEW c \in Copies, work[c] > 0, up,
           work' = [work EXCEPT ![c] = @ - 1], unacked' = unacked \cup {c},
           Sound(breaker'), AckAndHandleFailure(c),
           UNCHANGED <<running, calls, dlq, channel, up, published,
                       handled, redelivered, faults>>
    PROVE  IInv'
<1>1. PICK o : o = c.msg
  OBVIOUS
<1>2. IsReady(o, c) /\ Pending(o) /\ o \in Messages /\ Types /\ AckInv /\ c \in CopiesOf(o)
  BY <1>1, ReadyOne DEF IInv, CopiesOf
<1>3. /\ work' \in [Copies -> Nat] /\ unacked' \subseteq Copies
      /\ \A e \in CopiesOf(o) : work'[e] = 0
      /\ \A d \in unacked' : d.msg = o => d = c
      /\ c \notin unacked /\ ~AckSent(c) /\ c \in unacked' /\ unacked \subseteq unacked'
      /\ \A m \in Messages : m # o =>
           \A d \in CopiesOf(m) : work'[d] = work[d] /\ (d \in unacked' <=> d \in unacked)
  BY <1>1, TakenFacts
<1>4. PICK g : g = DeadLetterOf(o)
  OBVIOUS
<1>5. /\ Grows(Ack(c), g) /\ \A d \in Copies : g # Ack(d)
      /\ \A k \in Messages : Carries(g, k) => k = o
  BY <1>1, <1>2, <1>4, FailureSends, FailureFrames
<1>6. AckInv' /\ \A d \in Copies : AckSent(d)' <=> AckSent(d) \/ d = c
  BY <1>2, <1>3, <1>5, AckGrows
<1>7. RunInv'
  <2> SUFFICES ASSUME NEW r \in running, Alive(r.channel)
               PROVE  r.copy \in unacked' /\ ~AckSent(r.copy)'
    BY DEF RunInv, Alive
  <2>1. r.copy \in Copies /\ r.copy \in unacked /\ ~AckSent(r.copy)
    BY StaleFacts DEF IInv, RunInv
  <2> QED BY <1>3, <1>6, <2>1
<1>8. /\ wire' \in Seq(Frames) /\ timers' \subseteq [copy : Copies, channel : 0..channel]
      /\ timers \subseteq timers' /\ \A t \in timers' : t.copy.msg # o => t \in timers
  BY <1>1, <1>2, FailureTypes
<1>9. Types'
  BY <1>2, <1>3, <1>8 DEF Types
<1>10. FaultInv' /\ BreakerInv' /\ CountInv'
  BY DEF IInv, FaultInv, BreakerInv, CountInv, RunningOf
<1>11. Placed(o)'
  <2>1. /\ o \in published' /\ (faults' = 0 /\ HasDlq => handled'[o] = 0)
        /\ dlq'[o] = 0 /\ NoTimer(o) /\ NoFrame(o)
    BY <1>2 DEF Pending, IsReady
  <2>2. calls'[o] <= c.attempt + redelivered'[o]
    BY <1>2, CopyFacts DEF IsReady, Types
  <2> QED BY <1>1, <1>2, <1>3, <1>9, <2>1, <2>2, FailedPlaced
<1>12. ASSUME NEW m \in Messages, m # o PROVE Placed(m)'
  BY <1>2, <1>3, <1>5, <1>8, <1>9, <1>12, OthersStill
<1>13. PlaceInv'
  BY <1>11, <1>12 DEF PlaceInv
<1> QED BY <1>6, <1>7, <1>9, <1>10, <1>13 DEF IInv

\* A delivery.
LEMMA DeliverKeeps ==
    ASSUME IInv, NEW c \in Copies, Deliver(c)
    PROVE  IInv'
<1>1. /\ work[c] > 0 /\ up
      /\ work' = [work EXCEPT ![c] = @ - 1] /\ unacked' = unacked \cup {c}
      /\ breaker' = Current(breaker)
      /\ UNCHANGED <<dlq, channel, up, published, handled, redelivered, faults>>
  BY DEF Deliver
<1>2. Sound(breaker')
  BY <1>1, BreakerSound DEF IInv, BreakerInv
<1>3. \/ /\ running' = running \cup {[copy |-> c, channel |-> channel]}
         /\ calls' = [calls EXCEPT ![c.msg] = @ + 1]
         /\ UNCHANGED <<wire, timers>>
      \/ AckAndHandleFailure(c) /\ UNCHANGED <<running, calls>>
  BY DEF Deliver
<1> QED BY <1>1, <1>2, <1>3, AdmittedKeeps, RefusedKeeps

-----------------------------------------------------------------------------
(* The broker and the connection. *)

\* The first frame, if it does not carry m, takes nothing of it but a copy that
\* was acknowledged; the frames behind it move up.
LEMMA PassedBy ==
    ASSUME IInv, Types', NEW m \in Messages, up, wire # << >>, wire' = Tail(wire),
           ~Carries(Head(wire), m),
           \A c \in CopiesOf(m) : work'[c] = work[c], dlq'[m] = dlq[m],
           \A c \in CopiesOf(m) : c \in unacked' <=> c \in unacked /\ Head(wire) # Ack(c),
           UNCHANGED <<channel, up, running, timers, published,
                       handled, calls, redelivered, faults>>
    PROVE  Placed(m)'
<1>1. PICK n : n = Len(wire)
  OBVIOUS
<1>2. /\ n \in Nat \ {0} /\ DOMAIN wire = 1..n /\ DOMAIN wire' = 1..n - 1
      /\ Head(wire) = wire[1] /\ \A i \in 1..n - 1 : wire'[i] = wire[i + 1]
  BY <1>1, TailFacts DEF IInv, Types
<1>3. \A i \in 2..n : i - 1 \in DOMAIN wire' /\ wire'[i - 1] = wire[i]
  BY <1>2
<1>4. \A i \in DOMAIN wire' : i + 1 \in DOMAIN wire /\ i + 1 # 1 /\ wire'[i] = wire[i + 1]
  BY <1>2
<1>5. /\ unacked \subseteq Copies /\ unacked' \subseteq Copies
      /\ \A c \in Copies : c.msg = m <=> c \in CopiesOf(m)
  BY DEF IInv, Types, CopiesOf
<1>6. \A c \in unacked' : c.msg = m => c \in unacked /\ wire[1] # Ack(c)
  BY <1>2, <1>5
<1>7. \A c \in unacked' : c.msg = m => (AckSent(c)' <=> AckSent(c))
  <2> SUFFICES ASSUME NEW c \in unacked', c.msg = m PROVE AckSent(c)' <=> AckSent(c)
    OBVIOUS
  <2>1. ASSUME NEW i \in DOMAIN wire', wire'[i] = Ack(c) PROVE AckSent(c)
    BY <1>4, <2>1 DEF AckSent
  <2>2. ASSUME NEW i \in DOMAIN wire, wire[i] = Ack(c)
        PROVE  \E j \in DOMAIN wire' : wire'[j] = Ack(c)
    <3>1. i \in 2..n
      BY <1>2, <1>6, <2>2
    <3> QED BY <1>3, <2>2, <3>1
  <2> QED BY <2>1, <2>2 DEF AckSent, Ack
<1>8. NoReady(m) => NoReady(m)'
  BY DEF NoReady
<1>9. NoUnacked(m) => NoUnacked(m)'
  BY <1>6 DEF NoUnacked
<1>10. NoTimer(m) => NoTimer(m)'
  BY DEF NoTimer, Alive
<1>11. NoFrame(m) => NoFrame(m)'
  BY <1>4 DEF NoFrame
<1>12. Settled(m) => Settled(m)'
  BY <1>6, <1>7 DEF Settled
<1>13. Pending(m) => Pending(m)'
  BY DEF Pending
<1>14. Placed(m)
  BY DEF IInv, PlaceInv
<1>15. CASE IsNew(m)
  BY <1>8, <1>9, <1>10, <1>11, <1>15 DEF IsNew, Placed
<1>16. CASE IsGone(m)
  BY <1>8, <1>10, <1>11, <1>12, <1>16 DEF IsGone, Placed
<1>17. ASSUME NEW c \in Copies, IsReady(m, c) PROVE Lives(m)'
  <2>1. IsReady(m, c)'
    BY <1>9, <1>10, <1>11, <1>17 DEF IsReady
  <2> QED BY <2>1 DEF Lives
<1>18. ASSUME NEW c \in unacked, IsDelivered(m, c) PROVE Lives(m)'
  <2>1. wire[1] # Ack(c) /\ c \in CopiesOf(m)
    BY <1>2, <1>5, <1>18 DEF IsDelivered, AckSent
  <2>2. c \in unacked' /\ ~AckSent(c)'
    BY <1>2, <1>7, <1>18, <2>1 DEF IsDelivered
  <2>3. IsDelivered(m, c)'
    BY <1>6, <1>8, <1>10, <1>11, <1>18, <2>2 DEF IsDelivered
  <2> QED BY <2>2, <2>3 DEF Lives
<1>19. ASSUME NEW t \in timers, IsWaiting(m, t) PROVE Lives(m)'
  <2>1. IsWaiting(m, t)'
    BY <1>8, <1>11, <1>12, <1>19 DEF IsWaiting, Alive
  <2> QED BY <2>1 DEF Lives
<1>20. ASSUME NEW i \in DOMAIN wire, IsUnderWay(m, i) PROVE Lives(m)'
  <2>1. i \in 2..n
    BY <1>2, <1>20 DEF IsUnderWay
  <2>2. PICK k : k = i - 1
    OBVIOUS
  <2>3. k \in DOMAIN wire' /\ wire'[k] = wire[i] /\ i \in Nat /\ k \in Nat
    BY <1>3, <2>1, <2>2
  <2>4. \A j \in DOMAIN wire' : Carries(wire'[j], m) => j = k
    <3> SUFFICES ASSUME NEW j \in DOMAIN wire', Carries(wire'[j], m) PROVE j = k
      OBVIOUS
    <3>1. j + 1 = i /\ j \in Int
      BY <1>2, <1>4, <1>20 DEF IsUnderWay
    <3> QED BY <2>2, <2>3, <3>1
  <2>5. \A c \in unacked' : c.msg = m => \E j \in DOMAIN wire' : j < k /\ wire'[j] = Ack(c)
    <3> SUFFICES ASSUME NEW c \in unacked', c.msg = m
                 PROVE  \E j \in DOMAIN wire' : j < k /\ wire'[j] = Ack(c)
      OBVIOUS
    <3>1. c \in unacked /\ wire[1] # Ack(c)
      BY <1>6
    <3>2. PICK j \in DOMAIN wire : j < i /\ wire[j] = Ack(c)
      BY <1>20, <3>1 DEF IsUnderWay
    <3>3. j \in 2..n
      BY <1>2, <3>1, <3>2
    <3>4. j - 1 \in DOMAIN wire' /\ wire'[j - 1] = Ack(c) /\ j - 1 < k
      BY <1>3, <2>1, <2>2, <3>2, <3>3
    <3> QED BY <3>4
  <2>6. IsUnderWay(m, k)'
    BY <1>8, <1>10, <1>12, <1>20, <2>3, <2>4, <2>5 DEF IsUnderWay
  <2> QED BY <2>3, <2>6 DEF Lives
<1>21. ASSUME IsDead(m) PROVE Lives(m)'
  <2>1. IsDead(m)'
    BY <1>8, <1>9, <1>10, <1>11, <1>21 DEF IsDead
  <2> QED BY <2>1 DEF Lives
<1>22. CASE Pending(m) /\ Lives(m)
  <2>1. Lives(m)'
    BY <1>17, <1>18, <1>19, <1>20, <1>21, <1>22 DEF Lives
  <2> QED BY <1>13, <1>22, <2>1 DEF Placed
<1> QED BY <1>14, <1>15, <1>16, <1>22 DEF Placed

\* The first frame brings the copy it carries: it stands before any other
\* frame of the message, so nothing of the message is left unacknowledged.
LEMMA Arrived ==
    ASSUME IInv, NEW m \in Messages, wire # << >>, wire' = Tail(wire),
           Carries(Head(wire), m)
    PROVE  /\ Pending(m) /\ IsUnderWay(m, 1) /\ wire[1] = Head(wire)
           /\ NoUnacked(m)
           /\ \A i \in DOMAIN wire' : ~Carries(wire'[i], m)
<1>1. PICK n : n = Len(wire)
  OBVIOUS
<1>2. /\ n \in Nat \ {0} /\ DOMAIN wire = 1..n /\ DOMAIN wire' = 1..n - 1
      /\ Head(wire) = wire[1] /\ \A i \in 1..n - 1 : wire'[i] = wire[i + 1]
  BY <1>1, TailFacts DEF IInv, Types
<1>3. 1 \in DOMAIN wire /\ Carries(wire[1], m)
  BY <1>2
<1>4. Pending(m) /\ IsUnderWay(m, 1)
  BY <1>3, UnderWayOne
<1>5. NoUnacked(m)
  BY <1>2, <1>4 DEF IsUnderWay, NoUnacked
<1>6. \A i \in DOMAIN wire' : i + 1 \in DOMAIN wire /\ i + 1 # 1 /\ wire'[i] = wire[i + 1]
  BY <1>2
<1>7. \A i \in DOMAIN wire' : ~Carries(wire'[i], m)
  BY <1>4, <1>6 DEF IsUnderWay
<1> QED BY <1>2, <1>4, <1>5, <1>7

\* The broker takes an acknowledgement, a copy or a dead letter off the wire.
LEMMA BrokerKeeps ==
    ASSUME IInv, BrokerProcesses
    PROVE  IInv'
<1>1. PICK f : f = Head(wire)
  OBVIOUS
<1>2. PICK n : n = Len(wire)
  OBVIOUS
<1>3. /\ up /\ wire # << >> /\ wire' = Tail(wire)
      /\ unacked' = IF f.kind = "ack" THEN unacked \ {f.copy} ELSE unacked
      /\ work' = IF f.kind = "work" THEN [work EXCEPT ![f.copy] = @ + 1] ELSE work
      /\ dlq' = IF f.kind = "dlq" THEN [dlq EXCEPT ![f.msg] = @ + 1] ELSE dlq
      /\ UNCHANGED <<channel, up, running, timers, breaker, published,
                     handled, calls, redelivered, faults>>
  BY <1>1 DEF BrokerProcesses, process, history
<1>4. Types /\ wire \in Seq(Frames)
  BY DEF IInv, Types
<1>5. /\ n \in Nat \ {0} /\ DOMAIN wire = 1..n /\ DOMAIN wire' = 1..n - 1
      /\ wire' \in Seq(Frames) /\ f \in Frames
      /\ f = wire[1] /\ \A i \in 1..n - 1 : wire'[i] = wire[i + 1]
  BY <1>1, <1>2, <1>3, <1>4, TailFacts
<1>6. \/ f.kind = "ack" /\ f.copy \in Copies /\ f = Ack(f.copy)
      \/ f.kind = "work" /\ f.copy \in Copies /\ f = [kind |-> "work", copy |-> f.copy]
      \/ f.kind = "dlq" /\ f.msg \in Messages /\ f = [kind |-> "dlq", msg |-> f.msg]
  BY <1>5, FrameKinds
<1>7. Types'
  <2>1. work' \in [Copies -> Nat]
    BY <1>3, <1>4, <1>6 DEF Types
  <2>2. dlq' \in [Messages -> Nat]
    BY <1>3, <1>4, <1>6 DEF Types
  <2> QED BY <1>3, <1>4, <1>5, <2>1, <2>2 DEF Types
<1>8. FaultInv' /\ BreakerInv' /\ CountInv'
  BY <1>3 DEF IInv, FaultInv, BreakerInv, CountInv, RunningOf
<1>9. \A i \in DOMAIN wire' : i + 1 \in DOMAIN wire /\ i + 1 # 1 /\ wire'[i] = wire[i + 1]
  BY <1>5
<1>10. \A c \in Copies : c \in unacked' <=> c \in unacked /\ f # Ack(c)
  BY <1>3, <1>6, AckFacts
<1>11. AckInv'
  <2> SUFFICES ASSUME NEW c \in Copies, NEW i \in DOMAIN wire', wire'[i] = Ack(c)
               PROVE  c \in unacked' /\ \A j \in DOMAIN wire' : wire'[j] = Ack(c) => j = i
    BY DEF AckInv, Ack
  <2>1. /\ wire[i + 1] = Ack(c) /\ c \in unacked
        /\ \A j \in DOMAIN wire : wire[j] = Ack(c) => j = i + 1
    BY <1>9 DEF IInv, AckInv
  <2>2. wire[1] # Ack(c)
    BY <1>5, <1>9, <2>1
  <2>3. \A j \in DOMAIN wire' : wire'[j] = Ack(c) => j = i
    BY <1>5, <1>9, <2>1
  <2> QED BY <1>5, <1>10, <2>1, <2>2, <2>3
<1>12. RunInv'
  <2> SUFFICES ASSUME NEW r \in running, Alive(r.channel)
               PROVE  r.copy \in unacked' /\ ~AckSent(r.copy)'
    BY <1>3 DEF RunInv, Alive
  <2>1. r.copy \in Copies /\ r.copy \in unacked /\ ~AckSent(r.copy)
    BY StaleFacts DEF IInv, RunInv
  <2>2. ~AckSent(r.copy)'
    BY <1>9, <2>1 DEF AckSent, Ack
  <2>3. f # Ack(r.copy)
    BY <1>5, <2>1 DEF AckSent
  <2> QED BY <1>10, <2>1, <2>2, <2>3
<1>13. ASSUME NEW m \in Messages, ~Carries(f, m) PROVE Placed(m)'
  <2>1. \A c \in CopiesOf(m) : work'[c] = work[c]
    BY <1>3, <1>4, <1>6, <1>13 DEF Carries, CopiesOf, Types
  <2>2. dlq'[m] = dlq[m]
    BY <1>3, <1>4, <1>6, <1>13 DEF Carries, Types
  <2>3. \A c \in CopiesOf(m) : c \in unacked' <=> c \in unacked /\ Head(wire) # Ack(c)
    BY <1>1, <1>10 DEF CopiesOf
  <2> QED BY <1>1, <1>3, <1>7, <1>13, <2>1, <2>2, <2>3, PassedBy
<1>14. ASSUME NEW m \in Messages, Carries(f, m) PROVE Placed(m)'
  <2>1. /\ Pending(m) /\ IsUnderWay(m, 1) /\ NoUnacked(m)
        /\ \A i \in DOMAIN wire' : ~Carries(wire'[i], m)
    BY <1>1, <1>3, <1>14, Arrived
  <2>2. f.kind # "ack" /\ unacked' = unacked
    BY <1>3, <1>14 DEF Carries
  <2>3. Pending(m)' /\ NoUnacked(m)' /\ NoTimer(m)' /\ NoFrame(m)'
    BY <1>3, <2>1, <2>2 DEF Pending, NoUnacked, NoTimer, NoFrame, Alive, IsUnderWay
  <2>4. CASE f.kind = "work"
    <3>1. PICK c : c = f.copy
      OBVIOUS
    <3>2. c \in Copies /\ c.msg = m /\ c \in CopiesOf(m)
      BY <1>6, <1>14, <2>4, <3>1 DEF Carries, CopiesOf
    <3>3. work' = [work EXCEPT ![c] = @ + 1] /\ dlq' = dlq
      BY <1>3, <2>4, <3>1
    <3>4. NoReady(m) /\ dlq[m] = 0 /\ calls[m] + 1 <= c.attempt + redelivered[m]
      BY <1>5, <2>1, <2>4, <3>1 DEF IsUnderWay
    <3>5. work'[c] = 1 /\ \A d \in CopiesOf(m) : d # c => work'[d] = 0
      BY <1>4, <3>2, <3>3, <3>4 DEF NoReady, CopiesOf, Types
    <3>6. IsReady(m, c)'
      BY <1>3, <2>3, <3>2, <3>3, <3>4, <3>5 DEF IsReady, CopiesOf
    <3> QED BY <2>3, <3>2, <3>6 DEF Placed, Lives
  <2>5. CASE f.kind = "dlq"
    <3>1. f.msg = m /\ work' = work
      BY <1>3, <1>14, <2>5 DEF Carries
    <3>2. dlq'[m] = 1
      BY <1>3, <1>4, <2>1, <2>5, <3>1 DEF IsUnderWay, Types
    <3>3. NoReady(m)'
      BY <2>1, <3>1 DEF IsUnderWay, NoReady, CopiesOf
    <3>4. IsDead(m)'
      BY <2>3, <3>2, <3>3 DEF IsDead
    <3> QED BY <2>3, <3>4 DEF Placed, Lives
  <2> QED BY <1>6, <2>2, <2>4, <2>5
<1>15. PlaceInv'
  BY <1>13, <1>14 DEF PlaceInv
<1> QED BY <1>7, <1>8, <1>11, <1>12, <1>15 DEF IInv

\* The deliveries of m that a lost connection undoes: one at most.
UndoneOf(m) == { c \in unacked : c.msg = m }
LEMMA UndoneOnce ==
    ASSUME IInv, NEW m \in Messages
    PROVE  \/ NoUnacked(m) /\ Cardinality(UndoneOf(m)) = 0
           \/ \E c \in unacked : c.msg = m /\ Cardinality(UndoneOf(m)) = 1
<1>1. CASE NoUnacked(m)
  <2>1. UndoneOf(m) = {}
    BY <1>1 DEF UndoneOf, NoUnacked
  <2> QED BY <1>1, <2>1, FS_EmptySet
<1>2. CASE ~NoUnacked(m)
  <2>1. PICK c \in unacked : c.msg = m
    BY <1>2 DEF NoUnacked
  <2>2. UndoneOf(m) = {c}
    BY <2>1, OneUnacked DEF UndoneOf
  <2> QED BY <2>1, <2>2, FS_Singleton
<1> QED BY <1>1, <1>2

\* The connection is lost: what was sent on it never arrives, and what was
\* delivered on it is ready again.
LEMMA LossKeeps ==
    ASSUME IInv, LoseConnection, running' \subseteq running, timers' \subseteq timers,
           Sound(breaker')
    PROVE  IInv'
<1>1. /\ up /\ faults < MaxFaults /\ faults' = faults + 1 /\ up' = FALSE
      /\ wire' = << >> /\ unacked' = {}
      /\ UNCHANGED <<dlq, channel, published, handled, calls>>
  BY DEF LoseConnection
<1>2. Types
  BY DEF IInv
<1>3. \A c \in Copies : work'[c] = IF c \in unacked THEN work[c] + 1 ELSE work[c]
  BY <1>2 DEF LoseConnection, Types
<1>4. \A m \in Messages : redelivered'[m] = redelivered[m] + Cardinality(UndoneOf(m))
  BY DEF LoseConnection, UndoneOf
<1>5. ASSUME NEW m \in Messages
      PROVE  redelivered'[m] \in Nat /\ redelivered'[m] <= redelivered[m] + 1
  <2>1. Cardinality(UndoneOf(m)) \in {0, 1}
    BY UndoneOnce
  <2>2. redelivered[m] \in Nat
    BY <1>2 DEF Types
  <2> QED BY <1>4, <2>1, <2>2
<1>6. Types'
  <2>1. work' \in [Copies -> Nat]
    BY <1>2 DEF LoseConnection, Types
  <2>2. redelivered' \in [Messages -> Nat]
    BY <1>5 DEF LoseConnection
  <2>3. << >> \in Seq(Frames)
    OBVIOUS
  <2> QED BY <1>1, <1>2, <2>1, <2>2, <2>3 DEF Types
<1>7. FaultInv'
  BY <1>1, <1>2 DEF IInv, FaultInv, Types
<1>8. BreakerInv' /\ AckInv' /\ RunInv'
  BY <1>1 DEF BreakerInv, AckInv, RunInv, Alive
<1>9. CountInv'
  <2> SUFFICES ASSUME NEW m \in Messages
               PROVE  /\ handled'[m] + Cardinality(RunningOf(m)') <= calls'[m]
                      /\ IsFiniteSet(RunningOf(m)') /\ redelivered'[m] <= faults'
    BY DEF CountInv
  <2>1. /\ handled[m] + Cardinality(RunningOf(m)) <= calls[m] /\ redelivered[m] <= faults
        /\ IsFiniteSet(RunningOf(m)) /\ Cardinality(RunningOf(m)) \in Nat
        /\ handled[m] \in Nat /\ calls[m] \in Nat /\ redelivered[m] \in Nat /\ faults \in Nat
    BY <1>2, FS_CardinalityType DEF IInv, CountInv, Types, FaultInv
  <2>2. RunningOf(m)' \subseteq RunningOf(m)
    BY DEF RunningOf
  <2>3. /\ IsFiniteSet(RunningOf(m)') /\ Cardinality(RunningOf(m)') \in Nat
        /\ Cardinality(RunningOf(m)') <= Cardinality(RunningOf(m))
    BY <2>1, <2>2, FS_Subset, FS_CardinalityType
  <2> QED BY <1>1, <1>5, <2>1, <2>3
<1>10. ASSUME NEW m \in Messages PROVE Placed(m)'
  <2>1. NoTimer(m)' /\ NoFrame(m)' /\ NoUnacked(m)' /\ Settled(m)'
    BY <1>1 DEF NoTimer, NoFrame, NoUnacked, Settled, Alive
  <2>2. /\ calls[m] \in Nat /\ redelivered[m] \in Nat /\ redelivered'[m] \in Nat
        /\ redelivered'[m] = redelivered[m] + Cardinality(UndoneOf(m))
        /\ faults' # 0
    BY <1>1, <1>2, <1>4, <1>5 DEF IInv, FaultInv, Types
  <2>3. CASE \E c \in unacked : c.msg = m /\ Cardinality(UndoneOf(m)) = 1
    <3>1. PICK c \in unacked : c.msg = m /\ Cardinality(UndoneOf(m)) = 1
      BY <2>3
    <3>2. /\ c \in Copies /\ c.attempt \in 1..MaxAttempts /\ m \in published
          /\ calls[m] <= c.attempt + redelivered[m]
          /\ \A d \in unacked : d.msg = m => d = c
          /\ NoReady(m) /\ dlq[m] = 0
      BY <3>1, OneUnacked, CopyFacts
    <3>3. c \in CopiesOf(m) /\ work'[c] = 1 /\ \A d \in CopiesOf(m) : d # c => work'[d] = 0
      BY <1>3, <3>1, <3>2 DEF NoReady, CopiesOf
    <3>4. calls'[m] + 1 <= c.attempt + redelivered'[m]
      BY <1>1, <2>2, <3>1, <3>2
    <3>5. Pending(m)'
      BY <1>1, <2>2, <3>1, <3>2 DEF Pending
    <3>6. IsReady(m, c)'
      BY <1>1, <2>1, <3>2, <3>3, <3>4 DEF IsReady, CopiesOf
    <3> QED BY <3>2, <3>5, <3>6 DEF Placed, Lives
  <2>4. CASE NoUnacked(m) /\ Cardinality(UndoneOf(m)) = 0
    <3>1. /\ redelivered'[m] = redelivered[m] /\ calls'[m] = calls[m]
          /\ dlq'[m] = dlq[m] /\ (m \in published' <=> m \in published)
          /\ handled'[m] = handled[m]
      BY <1>1, <2>2, <2>4
    <3>2. \A c \in CopiesOf(m) : work'[c] = work[c]
      BY <1>3, <2>4 DEF NoUnacked, CopiesOf
    <3>3. NoReady(m) => NoReady(m)'
      BY <3>2 DEF NoReady
    <3>4. Placed(m)
      BY DEF IInv, PlaceInv
    <3>5. CASE IsNew(m)
      BY <2>1, <3>1, <3>3, <3>5 DEF IsNew, Placed
    <3>6. CASE Pending(m) /\ \E c \in Copies : IsReady(m, c)
      <4>1. PICK c \in Copies : IsReady(m, c)
        BY <3>6
      <4>2. IsReady(m, c)'
        BY <2>1, <3>1, <3>2, <4>1 DEF IsReady
      <4>3. Pending(m)'
        BY <2>2, <3>1, <3>6 DEF Pending
      <4> QED BY <4>2, <4>3 DEF Placed, Lives
    <3>7. CASE Pending(m) /\ IsDead(m)
      <4>1. IsDead(m)' /\ Pending(m)'
        BY <2>1, <2>2, <3>1, <3>3, <3>7 DEF IsDead, Pending
      <4> QED BY <4>1 DEF Placed, Lives
    <3>8. CASE /\ m \in published /\ calls[m] <= MaxAttempts + redelivered[m]
               /\ NoReady(m) /\ dlq[m] = 0
      BY <2>1, <2>2, <3>1, <3>3, <3>8 DEF IsGone, Placed
    <3>9. CASE Pending(m) /\ \E c \in unacked : IsDelivered(m, c)
      BY <2>4, <3>9 DEF IsDelivered, NoUnacked
    <3> QED
      BY <3>4, <3>5, <3>6, <3>7, <3>8, <3>9
      DEF Placed, Lives, Pending, IsWaiting, IsUnderWay, IsGone
  <2> QED BY <2>3, <2>4, UndoneOnce
<1>11. PlaceInv'
  BY <1>10 DEF PlaceInv
<1> QED BY <1>6, <1>7, <1>8, <1>9, <1>11 DEF IInv

-----------------------------------------------------------------------------
(* The theorems. *)

\* Nothing has happened yet.
LEMMA InitIInv == Init => IInv
<1> SUFFICES ASSUME Init PROVE IInv
  OBVIOUS
<1>1. Types
  <2>1. << >> \in Seq(Frames)
    OBVIOUS
  <2> QED BY <2>1 DEF Init, Types
<1>2. FaultInv /\ AckInv /\ RunInv
  BY DEF Init, FaultInv, AckInv, RunInv
<1>3. BreakerInv
  BY BreakerAssumption DEF Init, BreakerInv, Sound, NewBreaker, BreakerRecord, CircuitState
<1>4. CountInv
  <2>1. \A m \in Messages : RunningOf(m) = {}
    BY DEF Init, RunningOf
  <2>2. \A m \in Messages : handled[m] = 0 /\ calls[m] = 0 /\ redelivered[m] = 0
    BY DEF Init
  <2>3. IsFiniteSet({}) /\ Cardinality({}) = 0 /\ faults = 0
    BY FS_EmptySet DEF Init
  <2> QED BY <2>1, <2>2, <2>3 DEF CountInv
<1>5. PlaceInv
  BY DEF Init, PlaceInv, Placed, IsNew, NoReady, NoUnacked, NoTimer, NoFrame, CopiesOf
<1> QED BY <1>1, <1>2, <1>3, <1>4, <1>5 DEF IInv

\* Every action moves the copy of one message from one place to another.
LEMMA NextIInv == IInv /\ [Next]_vars => IInv'
<1> SUFFICES ASSUME IInv, [Next]_vars PROVE IInv'
  OBVIOUS
<1>1. ASSUME NEW m \in Messages, Publish(m) PROVE IInv'
  BY <1>1, PublishKeeps
<1>2. ASSUME NEW c \in Copies, Deliver(c) PROVE IInv'
  BY <1>2, DeliverKeeps
<1>3. ASSUME NEW r \in running, HandlerResolves(r) \/ HandlerRejects(r) PROVE IInv'
  BY <1>3, ResolvesKeeps, RejectsKeeps
<1>4. ASSUME NEW t \in timers, Retry(t) PROVE IInv'
  BY <1>4, RetryKeeps
<1>5. CASE BrokerProcesses
  BY <1>5, BrokerKeeps
<1>6. CASE Drop
  BY <1>6, LossKeeps DEF Drop, process, IInv, BreakerInv
<1>7. CASE Crash
  <2>1. Sound(NewBreaker)
    BY BreakerSound DEF IInv, BreakerInv
  <2> QED BY <1>7, <2>1, LossKeeps DEF Crash
<1>8. CASE Resubscribe
  BY <1>8, ResubscribeKeeps
<1>9. CASE Tick
  BY <1>9, TickKeeps
<1>10. CASE UNCHANGED vars
  <2>1. UNCHANGED <<work, unacked, dlq, wire, channel, up, running, timers, breaker,
                    published, handled, calls, redelivered, faults>>
    BY <1>10 DEF vars, broker, link, process, history
  <2>2. Types' /\ FaultInv' /\ BreakerInv' /\ AckInv' /\ RunInv' /\ CountInv'
    BY <2>1
    DEF IInv, Types, FaultInv, BreakerInv, AckInv, RunInv, CountInv, AckSent, Alive, RunningOf
  <2>3. ASSUME NEW m \in Messages PROVE Placed(m)'
    <3>1. Still(m)
      BY <2>1 DEF Still, Alive
    <3> QED BY <2>2, <3>1, StillPlaced DEF IInv, PlaceInv
  <2> QED BY <2>2, <2>3 DEF IInv, PlaceInv
<1> QED
  BY <1>1, <1>2, <1>3, <1>4, <1>5, <1>6, <1>7, <1>8, <1>9, <1>10 DEF Next

\* In every reachable state each message has one place, or none.
THEOREM AlwaysIInv == Spec => []IInv
<1>1. Init => IInv
  BY InitIInv
<1>2. IInv /\ [Next]_vars => IInv'
  BY NextIInv
<1> QED BY <1>1, <1>2, PTL DEF Spec

\* How often a message can be called for is bounded, and so is its type.
LEMMA BoundFacts ==
    ASSUME IInv, NEW m \in Messages
    PROVE  /\ calls[m] \in Nat /\ handled[m] \in Nat /\ redelivered[m] \in Nat
           /\ calls[m] <= MaxAttempts + redelivered[m]
           /\ handled[m] <= calls[m] /\ redelivered[m] <= MaxFaults
           /\ dlq[m] \in {0, 1}
<1>1. /\ calls[m] \in Nat /\ handled[m] \in Nat /\ redelivered[m] \in Nat /\ dlq[m] \in Nat
      /\ faults \in 0..MaxFaults
  BY DEF IInv, Types, FaultInv
<1>2. handled[m] <= calls[m] /\ redelivered[m] <= MaxFaults
  <2>1. /\ handled[m] + Cardinality(RunningOf(m)) <= calls[m] /\ redelivered[m] <= faults
        /\ Cardinality(RunningOf(m)) \in Nat
    BY FS_CardinalityType DEF IInv, CountInv
  <2> QED BY <1>1, <2>1
<1>3. calls[m] <= MaxAttempts + redelivered[m]
  BY <1>1 DEF IInv, PlaceInv, Placed, Pending, IsGone, IsNew
<1>4. dlq[m] \in {0, 1}
  BY DEF IInv, PlaceInv, Placed, Lives, IsReady, IsDelivered, IsWaiting, IsUnderWay,
         IsDead, IsGone, IsNew
<1> QED BY <1>1, <1>2, <1>3, <1>4

\* Attempts and faults together stay below the bound of the counters.
LEMMA CountFacts ==
    \A n \in 0..MaxAttempts + MaxFaults : n \in 0..(MaxAttempts + 1) * (MaxFaults + 1)
<1>1. PICK a, f : a = MaxAttempts /\ f = MaxFaults
  OBVIOUS
<1>2. a \in Nat /\ f \in Nat
  BY <1>1
<1>3. (a + 1) * (f + 1) = a * f + a + f + 1 /\ a * f \in Nat
  BY <1>2
<1>4. (a + 1) * (f + 1) \in Nat /\ a + f <= (a + 1) * (f + 1)
  BY <1>2, <1>3
<1> QED BY <1>1, <1>2, <1>4

\* TypeOK of RabbitConsumer: the counters stay in their bounds too, so a
\* message is called for, undone and dead-lettered only so often.
THEOREM TypeCorrect == Spec => []TypeOK
<1>1. IInv => TypeOK
  <2> SUFFICES ASSUME IInv PROVE TypeOK
    OBVIOUS
  <2>1. Types
    BY DEF IInv
  <2>2. channel \in Channels /\ 0..channel \subseteq Channels
    BY <2>1 DEF IInv, FaultInv, Types, Channels
  <2>3. /\ running \subseteq [copy : Copies, channel : Channels]
        /\ timers \subseteq [copy : Copies, channel : Channels]
    BY <2>1, <2>2 DEF Types
  <2>4. ASSUME NEW m \in Messages
        PROVE  /\ calls[m] \in 0..MaxAttempts + MaxFaults
               /\ handled[m] \in 0..MaxAttempts + MaxFaults
               /\ redelivered[m] \in 0..MaxAttempts + MaxFaults
               /\ dlq[m] \in 0..MaxAttempts + MaxFaults
    BY BoundFacts
  <2>5. dlq \in Count /\ handled \in Count /\ calls \in Count /\ redelivered \in Count
    BY <2>1, <2>4, CountFacts DEF Types, Count
  <2>6. breaker \in BreakerRecord /\ faults \in 0..MaxFaults
    BY DEF IInv, BreakerInv, Sound, FaultInv
  <2> QED BY <2>1, <2>2, <2>3, <2>5, <2>6 DEF TypeOK, Types, Frames
<1> QED BY <1>1, AlwaysIInv, PTL

\* A message is tried at most MaxAttempts times, and once more for each
\* delivery that a lost connection undid (shouldRetry, x-attempt).
THEOREM TriesAreBounded == Spec => []CallsBounded
<1>1. IInv => CallsBounded
  BY BoundFacts DEF CallsBounded
<1> QED BY <1>1, AlwaysIInv, PTL

\* The copies of a message, place by place.
DeliveredOf(m) == { c \in unacked : c.msg = m /\ ~AckSent(c) }
TimersOf(m) == { t \in timers : t.copy.msg = m /\ Alive(t.channel) }
LEMMA PlaceCounts ==
    ASSUME IInv, NEW m \in Messages
    PROVE  /\ NoReady(m) => Cardinality(ReadyOf(m)) = 0
           /\ \A c \in Copies : IsReady(m, c) => Cardinality(ReadyOf(m)) = 1
           /\ NoUnacked(m) \/ Settled(m) => Cardinality(DeliveredOf(m)) = 0
           /\ \A c \in unacked : IsDelivered(m, c) => Cardinality(DeliveredOf(m)) = 1
           /\ NoTimer(m) => Cardinality(TimersOf(m)) = 0
           /\ \A t \in timers : IsWaiting(m, t) => Cardinality(TimersOf(m)) = 1
           /\ NoFrame(m) => Cardinality(FramesOf(m)) = 0
           /\ \A i \in DOMAIN wire : IsUnderWay(m, i) => Cardinality(FramesOf(m)) = 1
<1>1. ASSUME NoReady(m) PROVE Cardinality(ReadyOf(m)) = 0
  <2>1. \A c \in CopiesOf(m) : {c} \X (1..work[c]) = {}
    BY <1>1 DEF NoReady
  <2>2. ReadyOf(m) = {}
    BY <2>1 DEF ReadyOf, CopiesOf
  <2> QED BY <2>2, FS_EmptySet
<1>2. ASSUME NEW c \in Copies, IsReady(m, c) PROVE Cardinality(ReadyOf(m)) = 1
  <2>1. \A d \in CopiesOf(m) : d # c => {d} \X (1..work[d]) = {}
    BY <1>2 DEF IsReady
  <2>2. c \in CopiesOf(m) /\ {c} \X (1..work[c]) = {<<c, 1>>}
    BY <1>2 DEF IsReady
  <2>3. ReadyOf(m) = {<<c, 1>>}
    BY <2>1, <2>2 DEF ReadyOf, CopiesOf
  <2> QED BY <2>3, FS_Singleton
<1>3. ASSUME NoUnacked(m) \/ Settled(m) PROVE Cardinality(DeliveredOf(m)) = 0
  <2>1. DeliveredOf(m) = {}
    BY <1>3 DEF DeliveredOf, NoUnacked, Settled
  <2> QED BY <2>1, FS_EmptySet
<1>4. ASSUME NEW c \in unacked, IsDelivered(m, c) PROVE Cardinality(DeliveredOf(m)) = 1
  <2>1. DeliveredOf(m) = {c}
    BY <1>4 DEF DeliveredOf, IsDelivered
  <2> QED BY <2>1, FS_Singleton
<1>5. ASSUME NoTimer(m) PROVE Cardinality(TimersOf(m)) = 0
  <2>1. TimersOf(m) = {}
    BY <1>5 DEF TimersOf, NoTimer
  <2> QED BY <2>1, FS_EmptySet
<1>6. ASSUME NEW t \in timers, IsWaiting(m, t) PROVE Cardinality(TimersOf(m)) = 1
  <2>1. TimersOf(m) = {t}
    BY <1>6 DEF TimersOf, IsWaiting
  <2> QED BY <2>1, FS_Singleton
<1>7. ASSUME NoFrame(m) PROVE Cardinality(FramesOf(m)) = 0
  <2>1. FramesOf(m) = {}
    BY <1>7 DEF FramesOf, NoFrame
  <2> QED BY <2>1, FS_EmptySet
<1>8. ASSUME NEW i \in DOMAIN wire, IsUnderWay(m, i) PROVE Cardinality(FramesOf(m)) = 1
  <2>1. FramesOf(m) = {i}
    BY <1>8 DEF FramesOf, IsUnderWay
  <2> QED BY <2>1, FS_Singleton
<1> QED BY <1>1, <1>2, <1>3, <1>4, <1>5, <1>6, <1>7, <1>8

\* A message that is alive has one copy, one that is not has none.
LEMMA LiveFacts ==
    ASSUME IInv, NEW m \in Messages
    PROVE  /\ Lives(m) => LiveCopies(m) = 1
           /\ IsGone(m) \/ IsNew(m) => LiveCopies(m) = 0
<1>1. LiveCopies(m) = Cardinality(ReadyOf(m)) + Cardinality(DeliveredOf(m))
                        + Cardinality(TimersOf(m)) + Cardinality(FramesOf(m)) + dlq[m]
  BY DEF LiveCopies, DeliveredOf, TimersOf
<1>2. CASE \E c \in Copies : IsReady(m, c)
  BY <1>1, <1>2, PlaceCounts DEF IsReady, IsGone, IsNew, NoReady
<1>3. CASE \E c \in unacked : IsDelivered(m, c)
  BY <1>1, <1>3, PlaceCounts DEF IsDelivered, IsGone, IsNew, NoUnacked, Settled
<1>4. CASE \E t \in timers : IsWaiting(m, t)
  BY <1>1, <1>4, PlaceCounts DEF IsWaiting, IsGone, IsNew, NoTimer
<1>5. CASE \E i \in DOMAIN wire : IsUnderWay(m, i)
  BY <1>1, <1>5, PlaceCounts DEF IsUnderWay, IsGone, IsNew, NoFrame
<1>6. CASE IsDead(m)
  BY <1>1, <1>6, PlaceCounts DEF IsDead, IsGone, IsNew
<1>7. CASE ~Lives(m)
  BY <1>1, <1>7, PlaceCounts DEF IsGone, IsNew
<1> QED BY <1>2, <1>3, <1>4, <1>5, <1>6, <1>7 DEF Lives

\* AtMostOneCopy of RabbitConsumer: retries, redeliveries and lost connections
\* in any order never make two live copies of a message (consumeQueue,
\* handleFailure and the channel each of them captured).
THEOREM NeverMultiplied == Spec => []AtMostOneCopy
<1>1. IInv => AtMostOneCopy
  BY LiveFacts DEF AtMostOneCopy, IInv, PlaceInv, Placed
<1> QED BY <1>1, AlwaysIInv, PTL

\* Conserved of RabbitConsumer: while no connection is lost, a message with a
\* dead-letter queue is handled once or has one live copy.
THEOREM AlwaysConserved == Spec => []Conserved
<1>1. IInv => Conserved
  <2> SUFFICES ASSUME IInv, faults = 0, HasDlq, NEW m \in published
               PROVE  handled[m] + LiveCopies(m) = 1
    BY DEF Conserved
  <2>1. m \in Messages /\ Placed(m) /\ ~IsNew(m)
    BY DEF IInv, Types, PlaceInv, IsNew
  <2>2. CASE Pending(m) /\ Lives(m)
    BY <2>1, <2>2, LiveFacts DEF Pending
  <2>3. CASE IsGone(m)
    <3>1. handled[m] = 1
      BY <2>3 DEF IsGone
    <3> QED BY <2>1, <2>3, <3>1, LiveFacts
  <2> QED BY <2>1, <2>2, <2>3 DEF Placed
<1> QED BY <1>1, AlwaysIInv, PTL
=============================================================================
