---------------------------- MODULE SqlEventStore ----------------------------
(***************************************************************************)
(* One stream of the SQL event store (cqrs/sql-event-store.ts) and the     *)
(* aggregates that concurrent sessions load, change and save through       *)
(* EventSourcedRepository (cqrs/repository.ts, cqrs/aggregate-root.ts).    *)
(*                                                                         *)
(* A session is a request handler, in this or another process, that holds  *)
(* one instance of the aggregate.  Every await is the end of a step: the   *)
(* SELECT, each INSERT and the COMMIT of append's transaction are steps of *)
(* their own, and so is the resumption of save() after the transaction.    *)
(*                                                                         *)
(* The state an aggregate's when() builds is abstracted to the sequence of *)
(* the events it was given; an event is the number under which it was      *)
(* applied.  The database keeps the rows of a transaction to itself until  *)
(* COMMIT and refuses a second row with the same primary key: an INSERT    *)
(* waits while an open transaction holds the key and fails if it is stored.*)
(***************************************************************************)
EXTENDS Naturals, Sequences, FiniteSetsExt

CONSTANTS
    Sessions,
    MaxEvents,          \* bound: how many events are applied in one behaviour
    ApplyDuringSave     \* may an aggregate be changed while its save is pending

ASSUME SqlEventStoreAssumption ==
    /\ MaxEvents \in Nat
    /\ ApplyDuringSave \in BOOLEAN

VARIABLES
    table,      \* the committed rows of the stream: version -> event
    agg,        \* per session: the events its aggregate has and the unsaved ones
    save,       \* per session: where its save() is, and append's local variables
    basis,      \* history: basis[e] is what the aggregate held when e was applied
    acked       \* history: the events whose save() has resolved

vars == <<table, agg, save, basis, acked>>

Events == 1..Len(basis)
Aggregate == [applied : Seq(Events), pending : Seq(Events)]
Blank == [applied |-> << >>, pending |-> << >>]
NotSaving == [at |-> "idle", events |-> << >>, expected |-> 0, inserted |-> 0]

\* aggregate.version counts every event applied or replayed.
Version(s) == Len(agg[s].applied)

\* COALESCE(MAX(version), 0), over the committed rows.
MaxVersion == IF DOMAIN table = {} THEN 0 ELSE Max(DOMAIN table)

Saving(s) == save[s].at # "idle"
Ends(s) == save' = [save EXCEPT ![s] = NotSaving]

\* The keys that the open transaction of s has inserted, and the table with
\* those rows committed.
Keys(s) == save[s].expected + 1 .. save[s].expected + save[s].inserted
NextKey(s) == save[s].expected + save[s].inserted + 1
TableWith(s) ==
    [v \in DOMAIN table \cup Keys(s) |->
        IF v \in DOMAIN table THEN table[v]
        ELSE save[s].events[v - save[s].expected]]
SavedBy(s) == { save[s].events[i] : i \in DOMAIN save[s].events }

Init ==
    /\ table = << >>
    /\ agg = [s \in Sessions |-> Blank]
    /\ save = [s \in Sessions |-> NotSaving]
    /\ basis = << >>
    /\ acked = {}

-----------------------------------------------------------------------------
(* EventSourcedRepository and AggregateRoot *)

\* load: read the stream and replay it into a fresh aggregate (with no rows
\* the caller gets null and starts from a new, blank one).
Load(s) ==
    /\ ~Saving(s)
    /\ agg' = [agg EXCEPT ![s] = [applied |-> table, pending |-> << >>]]
    /\ UNCHANGED <<table, save, basis, acked>>

\* AggregateRoot.apply, called by a command handler that looked at the state.
Apply(s) ==
    LET e == Len(basis) + 1 IN
    /\ e <= MaxEvents
    /\ Saving(s) => ApplyDuringSave
    /\ basis' = Append(basis, agg[s].applied)
    /\ agg' = [agg EXCEPT ![s] = [applied |-> Append(@.applied, e),
                                  pending |-> Append(@.pending, e)]]
    /\ UNCHANGED <<table, save, acked>>

\* save(): copy the pending events, compute the version they were applied to
\* and enter append; with nothing pending it returns at once.
BeginSave(s) ==
    /\ ~Saving(s)
    /\ agg[s].pending # << >>
    /\ save' = [save EXCEPT ![s] =
          [at |-> "select", events |-> agg[s].pending,
           expected |-> Version(s) - Len(agg[s].pending), inserted |-> 0]]
    /\ UNCHANGED <<table, agg, basis, acked>>

\* Slip: save() does not await append before it clears the pending events.
AppendNotAwaited(s) == Saving(s)

AppendResolved(s) == save[s].at = "stored"

\* append has resolved: aggregate.commit() drops all pending events.
FinishSave(s) ==
    /\ AppendResolved(s)
    /\ acked' = acked \cup SavedBy(s)
    /\ agg' = [agg EXCEPT ![s].pending = << >>]
    /\ Ends(s)
    /\ UNCHANGED <<table, basis>>

-----------------------------------------------------------------------------
(* SqlEventStore.append, inside sql.begin *)

\* Slip: the current version is not compared with the expected one.
VersionUnchecked(s) == TRUE

VersionMatches(s) == MaxVersion = save[s].expected

\* Slip: on a conflict the transaction is tried again instead of failing.
ConflictRetried(s) == UNCHANGED save

VersionConflict(s) == Ends(s)

\* SELECT MAX(version), and the version conflict if it is not the expected.
Select(s) ==
    /\ save[s].at = "select"
    /\ \/ /\ VersionMatches(s)
          /\ save' = [save EXCEPT ![s].at = "insert", ![s].expected = MaxVersion]
       \/ /\ ~VersionMatches(s)
          /\ VersionConflict(s)
    /\ UNCHANGED <<table, agg, basis, acked>>

\* Slip: each INSERT commits on its own, there is no transaction.
InsertedForGood(s) ==
    table' = [v \in DOMAIN table \cup {NextKey(s)} |->
                 IF v \in DOMAIN table THEN table[v]
                 ELSE save[s].events[v - save[s].expected]]

\* An inserted row is nobody else's to see before COMMIT.
InsertedInTransaction(s) == UNCHANGED table

\* INSERT of the next event under the next version.  It waits while another
\* open transaction holds that key, and the primary key refuses it if another
\* one has committed the version meanwhile.
Insert(s) ==
    /\ save[s].at = "insert"
    /\ save[s].inserted < Len(save[s].events)
    /\ \A t \in Sessions \ {s} : NextKey(s) \notin Keys(t)
    /\ \/ /\ NextKey(s) \notin DOMAIN table
          /\ save' = [save EXCEPT ![s].inserted = @ + 1]
          /\ InsertedInTransaction(s)
       \/ /\ NextKey(s) \in DOMAIN table
          /\ Ends(s)
          /\ UNCHANGED table
    /\ UNCHANGED <<agg, basis, acked>>

AllInserted(s) ==
    save[s].at = "insert" /\ save[s].inserted = Len(save[s].events)

\* COMMIT, and the database's answer reaches the process.
Commit(s) ==
    /\ AllInserted(s)
    /\ table' = TableWith(s)
    /\ save' = [save EXCEPT ![s].at = "stored", ![s].inserted = 0]
    /\ UNCHANGED <<agg, basis, acked>>

\* COMMIT, but the connection is lost before the answer: save() rejects and
\* the aggregate keeps its pending events although they are stored.
CommitUnanswered(s) ==
    /\ AllInserted(s)
    /\ table' = TableWith(s)
    /\ Ends(s)
    /\ UNCHANGED <<agg, basis, acked>>

\* A statement fails or the connection is lost: the transaction rolls back.
Rollback(s) ==
    /\ save[s].at \in {"select", "insert"}
    /\ Ends(s)
    /\ UNCHANGED <<table, agg, basis, acked>>

\* The session's process dies; the database rolls an open transaction back.
Crash(s) ==
    /\ agg[s] # Blank \/ Saving(s)
    /\ agg' = [agg EXCEPT ![s] = Blank]
    /\ Ends(s)
    /\ UNCHANGED <<table, basis, acked>>

-----------------------------------------------------------------------------

Next == \E s \in Sessions :
    \/ Load(s) \/ Apply(s) \/ BeginSave(s) \/ FinishSave(s)
    \/ Select(s) \/ Insert(s) \/ Commit(s)
    \/ CommitUnanswered(s) \/ Rollback(s) \/ Crash(s)

Spec == Init /\ [][Next]_vars

\* The database answers and the event loop resumes save(); a waiting INSERT
\* has its turn, as the database queues the waiters of a key, even if others
\* take the key and roll back again and again.  Nothing is assumed of callers.
FairSpec ==
    /\ Spec
    /\ \A s \in Sessions :
          /\ WF_vars(Select(s) \/ Commit(s) \/ FinishSave(s))
          /\ SF_vars(Insert(s))

TypeOK ==
    /\ DOMAIN table \subseteq 1..MaxEvents
    /\ \A v \in DOMAIN table : table[v] \in Events
    /\ agg \in [Sessions -> Aggregate]
    /\ save \in [Sessions -> [at : {"idle", "select", "insert", "stored"},
                              events : Seq(Events),
                              expected : 0..MaxEvents,
                              inserted : 0..MaxEvents]]
    /\ Len(basis) <= MaxEvents
    /\ acked \subseteq Events

-----------------------------------------------------------------------------

\* A stream's versions are 1, 2, 3, ... without a gap or a second event of the
\* same version, and no event is stored twice, even when a save whose COMMIT
\* was not answered is repeated (append's check and the primary key).
StreamIsALog ==
    /\ DOMAIN table = 1..Cardinality(DOMAIN table)
    /\ \A v, w \in DOMAIN table : table[v] = table[w] => v = w

\* What a resolved save() promised is in the stream (and stays there).
AckedIsStored == \A e \in acked : \E v \in DOMAIN table : table[v] = e

\* An aggregate without unsaved events is a past state of the stream: it never
\* holds an event that was not stored, or in another place than it was stored.
CleanAggregateIsPrefix ==
    \A s \in Sessions : agg[s].pending = << >> =>
        \A i \in DOMAIN agg[s].applied :
            i \in DOMAIN table /\ table[i] = agg[s].applied[i]

\* The stream grows by the whole batch of one save(), never by a part of it,
\* and no row is ever changed (append's transaction).
GrowsByWholeSaves ==
    [][table' # table =>
          /\ \A v \in DOMAIN table : v \in DOMAIN table' /\ table'[v] = table[v]
          /\ \E s \in Sessions :
                { table'[v] : v \in DOMAIN table' \ DOMAIN table } = SavedBy(s)]_vars

\* Every save() comes to an end: resolved, or rejected with a conflict or the
\* database's error; two transactions never wait for each other's keys.
SavesSettle == \A s \in Sessions : Saving(s) ~> ~Saving(s)

\* The table is the abstract log: every save that gets through stores each of
\* its events right after what its aggregate held when the event was applied.
Stream == INSTANCE EventStream WITH log <- table
ImplementsEventStream == Stream!Spec

\* docs/event-sourcing.md: commit() clears "the uncommitted events after
\* persisting", the uncommitted events being those "applied since the last
\* commit".  An event applied to a live aggregate is then stored or pending.
NoEventForgotten ==
    \A s \in Sessions : \A i \in DOMAIN agg[s].applied :
        LET e == agg[s].applied[i] IN
        \/ \E v \in DOMAIN table : table[v] = e
        \/ \E j \in DOMAIN agg[s].pending : agg[s].pending[j] = e
=============================================================================
