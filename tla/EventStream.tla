----------------------------- MODULE EventStream -----------------------------
(***************************************************************************)
(* What an event store promises for one stream: one log that only grows,   *)
(* by whole batches, and in which every event stands right after the very  *)
(* events its author had seen when it was decided on.  This is optimistic  *)
(* concurrency as docs/event-sourcing.md describes it, without tables,     *)
(* transactions or failures; SqlEventStore is shown to implement it.       *)
(***************************************************************************)
EXTENDS Naturals, Sequences

CONSTANTS
    MaxEvents   \* bound: how many events are decided on in one behaviour

VARIABLES
    log,    \* the stream: event numbers, oldest first
    basis   \* basis[e] is the sequence of events that event e was decided on

Init ==
    /\ log = << >>
    /\ basis = << >>

\* Someone decides on an event, on the ground of the events in seen.
Decide(seen) ==
    /\ Len(basis) < MaxEvents
    /\ basis' = Append(basis, seen)
    /\ UNCHANGED log

\* A batch is stored, every event of it on exactly its basis.
Store(batch) ==
    /\ \A i \in 1..Len(batch) : basis[batch[i]] = log \o SubSeq(batch, 1, i - 1)
    /\ log' = log \o batch
    /\ UNCHANGED basis

Batches == UNION { [1..n -> 1..Len(basis)] : n \in 1..MaxEvents }
Views == UNION { [1..n -> 1..Len(basis)] : n \in 0..MaxEvents }

Next ==
    \/ \E seen \in Views : Decide(seen)
    \/ \E batch \in Batches : Store(batch)

Spec == Init /\ [][Next]_<<log, basis>>
=============================================================================
