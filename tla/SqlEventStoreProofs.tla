------------------------- MODULE SqlEventStoreProofs -------------------------
(***************************************************************************)
(* Theorems about SqlEventStore, for any sessions and any number of events.*)
(* The inductive invariant rests on one observation: an event that stands  *)
(* at place i of a stream, of an aggregate or of a batch was applied to an *)
(* aggregate of exactly i - 1 events, so no event has two places.  The     *)
(* rest of it says what an open transaction knows: only one holds keys,    *)
(* and the one that does holds those right after the committed rows.       *)
(***************************************************************************)
EXTENDS SqlEventStore, FiniteSetTheorems, TLAPS

\* Every event of seq was applied to an aggregate with as many events as stand
\* before it, if from events come before seq.
Placed(seq, from) ==
    \A i \in 1..Len(seq) :
        seq[i] \in 1..Len(basis) /\ Len(basis[seq[i]]) = from + i - 1

Types ==
    /\ basis \in Seq(Seq(Nat))
    /\ table \in Seq(Nat)
    /\ agg \in [Sessions -> [applied : Seq(Nat), pending : Seq(Nat)]]
    /\ save \in [Sessions -> [at : {"idle", "select", "insert", "stored"},
                              events : Seq(Nat), expected : Nat, inserted : Nat]]

\* An event is decided on earlier events only.
Basis ==
    /\ Len(basis) <= MaxEvents
    /\ \A e \in 1..Len(basis) : Len(basis[e]) < e

\* What the aggregate x of a session holds: the pending events come last.
AggInv(x) ==
    /\ Placed(x.applied, 0)
    /\ Len(x.pending) <= Len(x.applied)
    /\ \A j \in 1..Len(x.pending) :
          x.pending[j] = x.applied[Len(x.applied) - Len(x.pending) + j]

\* What the record r of a session's save() says of the stream.
SaveInv(r) ==
    /\ Placed(r.events, r.expected)
    /\ r.at = "idle" => r.events = << >> /\ r.expected = 0
    /\ r.at # "idle" => r.events # << >>
    /\ r.at # "insert" => r.inserted = 0
    /\ r.inserted <= Len(r.events)
    /\ r.at = "insert" => r.expected <= Len(table)
    /\ r.inserted > 0 => r.expected = Len(table)
    /\ r.at = "stored" => \A i \in 1..Len(r.events) :
          r.expected + i \in 1..Len(table) /\ table[r.expected + i] = r.events[i]

OneHolder ==
    \A s, t \in Sessions : save[s].inserted > 0 /\ save[t].inserted > 0 => s = t

IInv ==
    /\ Types
    /\ Basis
    /\ Placed(table, 0)
    /\ \A s \in Sessions : AggInv(agg[s]) /\ SaveInv(save[s])
    /\ OneHolder
    /\ acked \subseteq 1..Len(basis)
    /\ AckedIsStored

-----------------------------------------------------------------------------

\* The place of an event is bounded by the number of events.
LEMMA PlacedBound ==
    ASSUME basis \in Seq(Seq(Nat)), Basis, NEW seq \in Seq(Nat), NEW from \in Nat,
           Placed(seq, from), seq # << >>
    PROVE  from + Len(seq) <= Len(basis)
<1>1. Len(seq) \in 1..Len(seq)
  OBVIOUS
<1>2. seq[Len(seq)] \in 1..Len(basis) /\ Len(basis[seq[Len(seq)]]) = from + Len(seq) - 1
  BY <1>1 DEF Placed
<1>3. Len(basis[seq[Len(seq)]]) < seq[Len(seq)]
  BY <1>2 DEF Basis
<1> QED BY <1>2, <1>3

\* SELECT MAX(version) returns the length of a stream without gaps.
LEMMA MaxVersionIs == ASSUME table \in Seq(Nat) PROVE MaxVersion = Len(table)
<1>1. DOMAIN table = 1..Len(table) /\ Len(table) \in Nat
  OBVIOUS
<1>2. CASE Len(table) = 0
  BY <1>1, <1>2 DEF MaxVersion
<1>3. CASE Len(table) # 0
  <2>1. Len(table) \in 1..Len(table)
    BY <1>1, <1>3
  <2>2. \A x \in 1..Len(table) : (\A y \in 1..Len(table) : x >= y) => x = Len(table)
    BY <2>1
  <2>3. \A y \in 1..Len(table) : Len(table) >= y
    OBVIOUS
  <2>4. Max(1..Len(table)) = Len(table)
    BY <2>1, <2>2, <2>3 DEF Max
  <2> QED BY <1>1, <1>3, <2>1, <2>4 DEF MaxVersion
<1> QED BY <1>2, <1>3

\* COMMIT appends the whole batch to the stream and leaves the rest of it.
LEMMA TableWithFacts ==
    ASSUME IInv, NEW s \in Sessions, AllInserted(s)
    PROVE  /\ TableWith(s) \in Seq(Nat)
           /\ save[s].expected = Len(table)
           /\ Len(TableWith(s)) = Len(table) + Len(save[s].events)
           /\ \A v \in 1..Len(table) : TableWith(s)[v] = table[v]
           /\ \A i \in 1..Len(save[s].events) :
                 TableWith(s)[Len(table) + i] = save[s].events[i]
<1> DEFINE n == Len(table)
           ev == save[s].events
<1>1. /\ table \in Seq(Nat) /\ ev \in Seq(Nat) /\ ev # << >>
      /\ save[s].inserted = Len(ev) /\ save[s].expected = n
  BY DEF IInv, Types, SaveInv, AllInserted
<1>2. DOMAIN table \cup Keys(s) = 1..(n + Len(ev))
  BY <1>1 DEF Keys
<1>3. TableWith(s) = [v \in 1..(n + Len(ev)) |->
                         IF v \in DOMAIN table THEN table[v] ELSE ev[v - n]]
  BY <1>1, <1>2 DEF TableWith
<1>4. TableWith(s) \in Seq(Nat) /\ Len(TableWith(s)) = n + Len(ev)
  BY <1>1, <1>3
<1>5. \A v \in 1..n : TableWith(s)[v] = table[v]
  BY <1>1, <1>3
<1>6. \A i \in 1..Len(ev) : TableWith(s)[n + i] = ev[i]
  BY <1>1, <1>3
<1> QED BY <1>1, <1>4, <1>5, <1>6

-----------------------------------------------------------------------------

LEMMA InitIInv == Init => IInv
<1> SUFFICES ASSUME Init PROVE IInv
  OBVIOUS
<1>1. Types
  BY DEF Init, Types, Blank, NotSaving
<1>2. Basis
  BY SqlEventStoreAssumption DEF Init, Basis
<1>3. Placed(table, 0)
  BY DEF Init, Placed
<1>4. \A s \in Sessions : AggInv(agg[s]) /\ SaveInv(save[s])
  BY DEF Init, AggInv, SaveInv, Placed, Blank, NotSaving
<1>5. OneHolder /\ acked \subseteq 1..Len(basis) /\ AckedIsStored
  BY DEF Init, OneHolder, AckedIsStored, NotSaving
<1> QED BY <1>1, <1>2, <1>3, <1>4, <1>5 DEF IInv

\* A step of one session that leaves the stream alone: its aggregate becomes
\* x and its save() the record r.
LEMMA SessionStep ==
    ASSUME IInv, NEW s \in Sessions,
           NEW x \in [applied : Seq(Nat), pending : Seq(Nat)], AggInv(x),
           NEW r \in [at : {"idle", "select", "insert", "stored"},
                      events : Seq(Nat), expected : Nat, inserted : Nat],
           SaveInv(r),
           r.inserted > 0 => \A t \in Sessions \ {s} : save[t].inserted = 0,
           agg' = [agg EXCEPT ![s] = x],
           save' = [save EXCEPT ![s] = r],
           UNCHANGED <<table, basis>>,
           \A e \in acked' : e \in acked \/ \E v \in DOMAIN table : table[v] = e
    PROVE  IInv'
<1>1. Types' /\ Basis' /\ Placed(table, 0)'
  BY DEF IInv, Types, Basis, Placed
<1>2. ASSUME NEW t \in Sessions PROVE AggInv(agg[t])'
  <2>1. AggInv(agg[t]) /\ agg'[t] = IF t = s THEN x ELSE agg[t]
    BY DEF IInv, Types
  <2>2. AggInv(agg'[t])
    BY <2>1
  <2> QED BY <2>2 DEF AggInv, Placed
<1>3. ASSUME NEW t \in Sessions PROVE SaveInv(save[t])'
  <2>1. SaveInv(save[t]) /\ save'[t] = IF t = s THEN r ELSE save[t]
    BY DEF IInv, Types
  <2>2. SaveInv(save'[t])
    BY <2>1
  <2> QED BY <2>2 DEF SaveInv, Placed
<1>4. OneHolder'
  <2> SUFFICES ASSUME NEW a \in Sessions, NEW b \in Sessions,
                      save'[a].inserted > 0, save'[b].inserted > 0
               PROVE  a = b
    BY DEF OneHolder
  <2>1. \A t \in Sessions : save'[t] = IF t = s THEN r ELSE save[t]
    BY DEF IInv, Types
  <2>2. CASE r.inserted > 0
    <3>1. \A t \in Sessions \ {s} : ~(save'[t].inserted > 0)
      BY <2>1, <2>2
    <3> QED BY <3>1
  <2>3. CASE ~(r.inserted > 0)
    BY <2>1, <2>3 DEF IInv, OneHolder
  <2> QED BY <2>2, <2>3
<1>5. \A e \in acked' : \E v \in DOMAIN table : table[v] = e
  BY DEF IInv, AckedIsStored
<1>6. \A v \in DOMAIN table : table[v] \in 1..Len(basis)
  BY DEF IInv, Types, Placed
<1> QED BY <1>1, <1>2, <1>3, <1>4, <1>5, <1>6 DEF IInv, AckedIsStored

\* The same when the aggregate and what is acknowledged stay as they are.
LEMMA SaveStep ==
    ASSUME IInv, NEW s \in Sessions,
           NEW r \in [at : {"idle", "select", "insert", "stored"},
                      events : Seq(Nat), expected : Nat, inserted : Nat],
           SaveInv(r),
           r.inserted > 0 => \A t \in Sessions \ {s} : save[t].inserted = 0,
           save' = [save EXCEPT ![s] = r],
           UNCHANGED <<table, agg, basis, acked>>
    PROVE  IInv'
<1>1. agg' = [agg EXCEPT ![s] = agg[s]]
  BY DEF IInv, Types
<1>2. agg[s] \in [applied : Seq(Nat), pending : Seq(Nat)] /\ AggInv(agg[s])
  BY DEF IInv, Types
<1> QED BY <1>1, <1>2, SessionStep

\* The record of a session that is not saving satisfies the invariant.
LEMMA NotSavingFacts ==
    /\ NotSaving \in [at : {"idle", "select", "insert", "stored"},
                      events : Seq(Nat), expected : Nat, inserted : Nat]
    /\ SaveInv(NotSaving) /\ ~(NotSaving.inserted > 0)
BY DEF NotSaving, SaveInv, Placed

\* A save() that ends without a change to the stream.
LEMMA EndsIInv ==
    ASSUME IInv, NEW s \in Sessions, Ends(s), UNCHANGED <<table, agg, basis, acked>>
    PROVE  IInv'
BY SaveStep, NotSavingFacts DEF Ends

\* load() replaces the aggregate by one that holds the stream.
LEMMA LoadIInv == ASSUME IInv, NEW s \in Sessions, Load(s) PROVE IInv'
<1> DEFINE x == [applied |-> table, pending |-> << >>]
<1>1. /\ agg' = [agg EXCEPT ![s] = x]
      /\ UNCHANGED <<table, save, basis, acked>>
  BY DEF Load
<1>2. x \in [applied : Seq(Nat), pending : Seq(Nat)] /\ AggInv(x)
  BY DEF IInv, Types, AggInv, Placed
<1>3. /\ save[s] \in [at : {"idle", "select", "insert", "stored"},
                      events : Seq(Nat), expected : Nat, inserted : Nat]
      /\ save' = [save EXCEPT ![s] = save[s]] /\ SaveInv(save[s])
      /\ save[s].inserted > 0 => \A t \in Sessions \ {s} : save[t].inserted = 0
  BY <1>1 DEF IInv, Types, OneHolder
<1> HIDE DEF x
<1> QED BY <1>1, <1>2, <1>3, SessionStep

\* save() copies the pending events and the version they were applied to.
LEMMA BeginSaveIInv == ASSUME IInv, NEW s \in Sessions, BeginSave(s) PROVE IInv'
<1> DEFINE a == agg[s].applied
           p == agg[s].pending
           from == Len(a) - Len(p)
           r == [at |-> "select", events |-> p, expected |-> from, inserted |-> 0]
<1>1. p \in Seq(Nat) /\ p # << >> /\ a \in Seq(Nat)
  BY DEF IInv, Types, BeginSave
<1>2. /\ Len(p) <= Len(a)
      /\ \A j \in 1..Len(p) : p[j] = a[from + j]
      /\ \A i \in 1..Len(a) : a[i] \in 1..Len(basis) /\ Len(basis[a[i]]) = 0 + i - 1
  <2>1. AggInv(agg[s])
    BY DEF IInv
  <2> QED BY <2>1 DEF AggInv, Placed
<1> HIDE DEF a, p
<1>3. from \in Nat /\ Placed(p, from)
  <2>1. from \in Nat
    BY <1>1, <1>2
  <2>2. \A j \in 1..Len(p) : from + j \in 1..Len(a)
    BY <1>1, <1>2
  <2> HIDE DEF from
  <2>3. ASSUME NEW j \in 1..Len(p)
        PROVE  p[j] \in 1..Len(basis) /\ Len(basis[p[j]]) = from + j - 1
    <3>1. p[j] = a[from + j] /\ from + j \in 1..Len(a)
      BY <1>2, <2>2
    <3>2. a[from + j] \in 1..Len(basis) /\ Len(basis[a[from + j]]) = 0 + (from + j) - 1
      BY <1>2, <3>1
    <3> QED BY <2>1, <3>1, <3>2
  <2> QED BY <2>1, <2>3 DEF Placed
<1>4. /\ r \in [at : {"idle", "select", "insert", "stored"},
                events : Seq(Nat), expected : Nat, inserted : Nat]
      /\ SaveInv(r) /\ ~(r.inserted > 0)
  <2> HIDE DEF from
  <2> QED BY <1>1, <1>2, <1>3 DEF SaveInv
<1>5. save' = [save EXCEPT ![s] = r] /\ UNCHANGED <<table, agg, basis, acked>>
  BY DEF BeginSave, Version, a, p
<1> HIDE DEF r
<1> QED BY <1>4, <1>5, SaveStep

\* append() compares the current version with the expected one.
LEMMA SelectIInv == ASSUME IInv, NEW s \in Sessions, Select(s) PROVE IInv'
<1>1. UNCHANGED <<table, agg, basis, acked>>
  BY DEF Select
<1>2. CASE VersionMatches(s)
  <2> DEFINE r == [save[s] EXCEPT !.at = "insert"]
  <2>1. MaxVersion = Len(table) /\ save[s].expected = Len(table)
    BY <1>2, MaxVersionIs DEF IInv, Types, VersionMatches
  <2>2. save[s].at = "select" /\ save' = [save EXCEPT ![s].at = "insert", ![s].expected = MaxVersion]
    BY <1>2 DEF Select
  <2>3. SaveInv(save[s]) /\ save[s] \in [at : {"idle", "select", "insert", "stored"},
                                        events : Seq(Nat), expected : Nat, inserted : Nat]
    BY DEF IInv, Types
  <2>4. [r EXCEPT !.expected = MaxVersion] = r
    BY <2>1, <2>3
  <2>5. save' = [save EXCEPT ![s] = r]
    BY <2>2, <2>4
  <2>6. /\ r \in [at : {"idle", "select", "insert", "stored"},
                  events : Seq(Nat), expected : Nat, inserted : Nat]
        /\ r.at = "insert" /\ r.events = save[s].events
        /\ r.expected = save[s].expected /\ r.inserted = save[s].inserted
    BY <2>3
  <2> HIDE DEF r
  <2>7. SaveInv(r) /\ ~(r.inserted > 0)
    BY <2>1, <2>2, <2>3, <2>6 DEF SaveInv, IInv, Types
  <2> QED BY <1>1, <2>5, <2>6, <2>7, SaveStep
<1>3. CASE ~VersionMatches(s)
  BY <1>1, <1>3, EndsIInv DEF Select, VersionConflict
<1> QED BY <1>2, <1>3

\* An INSERT takes the next key: it can be the first key of a transaction only
\* if that one stands right after the committed rows and nobody holds it.
LEMMA InsertIInv == ASSUME IInv, NEW s \in Sessions, Insert(s) PROVE IInv'
<1>1. UNCHANGED <<table, agg, basis, acked>>
  BY DEF Insert, InsertedInTransaction
<1>2. CASE NextKey(s) \notin DOMAIN table
  <2> DEFINE r == [save[s] EXCEPT !.inserted = save[s].inserted + 1]
  <2>1. /\ save[s].at = "insert" /\ save[s].inserted < Len(save[s].events)
        /\ save' = [save EXCEPT ![s] = r]
        /\ \A t \in Sessions \ {s} : NextKey(s) \notin Keys(t)
    BY <1>2 DEF Insert
  <2>2. /\ SaveInv(save[s])
        /\ \A t \in Sessions :
              save[t] \in [at : {"idle", "select", "insert", "stored"},
                          events : Seq(Nat), expected : Nat, inserted : Nat]
    BY DEF IInv, Types
  <2>3. /\ r \in [at : {"idle", "select", "insert", "stored"},
                  events : Seq(Nat), expected : Nat, inserted : Nat]
        /\ r.at = "insert" /\ r.events = save[s].events
        /\ r.expected = save[s].expected /\ r.inserted = save[s].inserted + 1
    <3>1. save[s] \in [at : {"idle", "select", "insert", "stored"},
                      events : Seq(Nat), expected : Nat, inserted : Nat]
      BY <2>2
    <3>2. save[s].at = "insert" /\ save[s].inserted + 1 \in Nat
      BY <2>1, <3>1
    <3> QED BY ONLY <3>1, <3>2
  <2>4. save[s].expected = Len(table)
    BY <1>2, <2>1, <2>2 DEF NextKey, SaveInv, IInv, Types
  <2>5. ASSUME NEW t \in Sessions \ {s}, save[t].inserted > 0 PROVE FALSE
    <3>1. save[t].expected = Len(table)
      BY <2>5 DEF IInv, SaveInv
    <3>2. save[s].inserted = 0
      BY <2>2, <2>5 DEF IInv, OneHolder
    <3>3. NextKey(s) \in Keys(t)
      BY <2>2, <2>4, <2>5, <3>1, <3>2 DEF NextKey, Keys
    <3> QED BY <2>1, <3>3
  <2> HIDE DEF r
  <2>6. SaveInv(r)
    BY <2>1, <2>2, <2>3, <2>4 DEF SaveInv
  <2>7. \A t \in Sessions \ {s} : save[t].inserted = 0
    BY <2>2, <2>5
  <2> QED BY <1>1, <2>1, <2>3, <2>6, <2>7, SaveStep
<1>3. CASE NextKey(s) \in DOMAIN table
  BY <1>1, <1>3, EndsIInv DEF Insert
<1> QED BY <1>2, <1>3

LEMMA RollbackIInv == ASSUME IInv, NEW s \in Sessions, Rollback(s) PROVE IInv'
BY EndsIInv DEF Rollback

LEMMA CrashIInv == ASSUME IInv, NEW s \in Sessions, Crash(s) PROVE IInv'
<1>1. Blank \in [applied : Seq(Nat), pending : Seq(Nat)] /\ AggInv(Blank)
  BY DEF Blank, AggInv, Placed
<1>2. /\ agg' = [agg EXCEPT ![s] = Blank] /\ save' = [save EXCEPT ![s] = NotSaving]
      /\ UNCHANGED <<table, basis, acked>>
  BY DEF Crash, Ends
<1>3. \A e \in acked' : e \in acked
  BY <1>2
<1> QED BY <1>1, <1>2, <1>3, NotSavingFacts, SessionStep

\* commit() drops the pending events; what is acknowledged was stored.
LEMMA FinishSaveIInv == ASSUME IInv, NEW s \in Sessions, FinishSave(s) PROVE IInv'
<1> DEFINE x == [agg[s] EXCEPT !.pending = << >>]
<1>1. /\ agg' = [agg EXCEPT ![s] = x] /\ save' = [save EXCEPT ![s] = NotSaving]
      /\ UNCHANGED <<table, basis>> /\ acked' = acked \cup SavedBy(s)
  BY DEF FinishSave, Ends
<1>2. x \in [applied : Seq(Nat), pending : Seq(Nat)] /\ AggInv(x)
  <2>1. agg[s] \in [applied : Seq(Nat), pending : Seq(Nat)] /\ AggInv(agg[s])
    BY DEF IInv, Types
  <2>2. /\ x \in [applied : Seq(Nat), pending : Seq(Nat)]
        /\ x.applied = agg[s].applied /\ x.pending = << >>
    <3> DEFINE a == agg[s]
    <3>1. a \in [applied : Seq(Nat), pending : Seq(Nat)] /\ << >> \in Seq(Nat)
      BY <2>1
    <3>2. x = [a EXCEPT !.pending = << >>]
      OBVIOUS
    <3> HIDE DEF a, x
    <3>3. /\ x \in [applied : Seq(Nat), pending : Seq(Nat)]
          /\ x.applied = a.applied /\ x.pending = << >>
      BY <3>1, <3>2
    <3> QED BY <3>3 DEF a
  <2> HIDE DEF x
  <2>3. Placed(x.applied, 0)
    BY <2>1, <2>2 DEF AggInv
  <2>4. Len(x.pending) = 0 /\ Len(x.applied) \in Nat
    BY <2>2
  <2> QED BY <2>2, <2>3, <2>4 DEF AggInv
<1>3. \A e \in SavedBy(s) : \E v \in DOMAIN table : table[v] = e
  <2>1. SaveInv(save[s]) /\ save[s].at = "stored" /\ save[s].events \in Seq(Nat)
    BY DEF IInv, Types, FinishSave, AppendResolved
  <2>2. table \in Seq(Nat) /\ DOMAIN table = 1..Len(table)
    BY DEF IInv, Types
  <2>3. \A i \in 1..Len(save[s].events) :
           /\ save[s].expected + i \in 1..Len(table)
           /\ table[save[s].expected + i] = save[s].events[i]
    BY <2>1 DEF SaveInv
  <2>4. ASSUME NEW i \in DOMAIN save[s].events
        PROVE  \E v \in DOMAIN table : table[v] = save[s].events[i]
    <3>1. i \in 1..Len(save[s].events)
      BY <2>1
    <3>2. /\ save[s].expected + i \in DOMAIN table
          /\ table[save[s].expected + i] = save[s].events[i]
      BY <2>2, <2>3, <3>1
    <3> QED BY <3>2
  <2> QED BY <2>4 DEF SavedBy
<1> HIDE DEF x
<1>4. \A e \in acked' : e \in acked \/ \E v \in DOMAIN table : table[v] = e
  BY <1>1, <1>3
<1> QED BY <1>1, <1>2, <1>4, NotSavingFacts, SessionStep

\* What a save() has stored stays where it is when the stream grows.
LEMMA Kept ==
    ASSUME table \in Seq(Nat), table' \in Seq(Nat), Len(table) <= Len(table'),
           \A v \in 1..Len(table) : table'[v] = table[v],
           NEW q \in [at : {"idle", "select", "insert", "stored"},
                      events : Seq(Nat), expected : Nat, inserted : Nat],
           SaveInv(q), q.at = "stored"
    PROVE  \A i \in 1..Len(q.events) :
              q.expected + i \in 1..Len(table') /\ table'[q.expected + i] = q.events[i]
<1> SUFFICES ASSUME NEW i \in 1..Len(q.events)
             PROVE  q.expected + i \in 1..Len(table')
                    /\ table'[q.expected + i] = q.events[i]
  OBVIOUS
<1> DEFINE v == q.expected + i
<1>1. v \in 1..Len(table) /\ table[v] = q.events[i]
  BY DEF SaveInv
<1> HIDE DEF v
<1>2. Len(table) \in Nat /\ Len(table') \in Nat
  OBVIOUS
<1>3. v \in 1..Len(table') /\ table'[v] = q.events[i]
  BY <1>1, <1>2
<1> QED BY <1>3 DEF v

\* COMMIT of the batch of s, after which its save() is at r.
LEMMA CommitStep ==
    ASSUME IInv, NEW s \in Sessions, AllInserted(s), table' = TableWith(s),
           NEW r \in [at : {"idle", "select", "insert", "stored"},
                      events : Seq(Nat), expected : Nat, inserted : Nat],
           SaveInv(r)', r.inserted = 0,
           save' = [save EXCEPT ![s] = r],
           UNCHANGED <<agg, basis, acked>>
    PROVE  IInv'
<1> DEFINE n == Len(table)
           ev == save[s].events
<1>1. /\ table' \in Seq(Nat) /\ Len(table') = n + Len(ev)
      /\ \A v \in 1..n : table'[v] = table[v]
      /\ \A i \in 1..Len(ev) : table'[n + i] = ev[i]
      /\ save[s].expected = n
  BY TableWithFacts
<1>2. /\ table \in Seq(Nat) /\ ev \in Seq(Nat) /\ n \in Nat /\ Len(ev) \in Nat
      /\ save[s].inserted > 0
  BY DEF IInv, Types, AllInserted, SaveInv
<1> HIDE DEF n, ev
<1>3. Types' /\ Basis'
  BY <1>1 DEF IInv, Types, Basis
<1>4. Placed(table, 0)'
  <2> SUFFICES ASSUME NEW v \in 1..Len(table')
               PROVE  table'[v] \in 1..Len(basis) /\ Len(basis[table'[v]]) = 0 + v - 1
    BY DEF Placed
  <2>1. CASE v <= n
    <3>1. v \in 1..n /\ table'[v] = table[v]
      BY <1>1, <1>2, <2>1
    <3>2. Placed(table, 0)
      BY DEF IInv
    <3> QED BY <3>1, <3>2 DEF Placed, n
  <2>2. CASE v > n
    <3> DEFINE i == v - n
    <3>1. i \in 1..Len(ev) /\ v = n + i
      BY <1>1, <1>2, <2>2
    <3> HIDE DEF i
    <3>2. Placed(ev, n)
      BY <1>1 DEF IInv, SaveInv, ev
    <3>3. ev[i] \in 1..Len(basis) /\ Len(basis[ev[i]]) = n + i - 1
      BY <3>1, <3>2 DEF Placed
    <3>4. table'[v] = ev[i] /\ n + i - 1 = 0 + v - 1
      BY <1>1, <1>2, <3>1
    <3> QED BY <3>3, <3>4
  <2>3. v \in Nat
    BY <1>1, <1>2
  <2> QED BY <1>2, <2>1, <2>2, <2>3
<1>5. \A t \in Sessions : AggInv(agg[t])'
  BY DEF IInv, AggInv, Placed
<1>6. \A t \in Sessions \ {s} : save[t].inserted = 0
  BY <1>2 DEF IInv, Types, OneHolder
<1>7. ASSUME NEW t \in Sessions PROVE SaveInv(save[t])'
  <2>1. save'[t] = IF t = s THEN r ELSE save[t]
    BY DEF IInv, Types
  <2>2. CASE t # s
    <3>1. SaveInv(save[t]) /\ save[t].inserted = 0 /\ save'[t] = save[t]
      BY <1>6, <2>1, <2>2 DEF IInv
    <3>2. save[t] \in [at : {"idle", "select", "insert", "stored"},
                      events : Seq(Nat), expected : Nat, inserted : Nat]
      BY DEF IInv, Types
    <3>3. Len(table) <= Len(table') /\ \A v \in 1..Len(table) : table'[v] = table[v]
      BY <1>1, <1>2 DEF n
    <3> DEFINE q == save[t]
    <3>4. q \in [at : {"idle", "select", "insert", "stored"},
                 events : Seq(Nat), expected : Nat, inserted : Nat]
          /\ SaveInv(q) /\ q.inserted = 0 /\ Types
      BY <3>1, <3>2 DEF IInv
    <3>5. save'[t] = q
      BY <3>1
    <3>6. /\ Placed(q.events, q.expected)
          /\ q.at = "idle" => q.events = << >> /\ q.expected = 0
          /\ q.at # "idle" => q.events # << >>
          /\ q.inserted <= Len(q.events)
      BY <3>4 DEF SaveInv
    <3> HIDE DEF q
    <3>7. /\ Len(table) <= Len(table')
          /\ q.at = "insert" => q.expected <= Len(table')
      BY <1>1, <1>2, <3>4 DEF SaveInv, n
    <3>8. q.at = "stored" => \A i \in 1..Len(q.events) :
             q.expected + i \in 1..Len(table') /\ table'[q.expected + i] = q.events[i]
      <4>1. table \in Seq(Nat) /\ table' \in Seq(Nat)
        BY <1>1, <1>2
      <4> SUFFICES ASSUME q.at = "stored"
                   PROVE  \A i \in 1..Len(q.events) :
             q.expected + i \in 1..Len(table') /\ table'[q.expected + i] = q.events[i]
        OBVIOUS
      <4> QED BY <4>1, <3>3, <3>4, Kept
    <3>9. Placed(q.events, q.expected) => \A i \in 1..Len(q.events) :
             q.events[i] \in 1..Len(basis') /\ Len(basis'[q.events[i]]) = q.expected + i - 1
      BY DEF Placed
    <3>10. q.inserted > 0 => q.expected = Len(table')
      BY <3>4
    <3>11. q.at # "insert" => q.inserted = 0
      BY <3>4
    <3> QED
      BY ONLY <3>5, <3>6, <3>7, <3>8, <3>9, <3>10, <3>11 DEF SaveInv, Placed
  <2>3. CASE t = s
    BY <2>1, <2>3 DEF SaveInv, Placed
  <2> QED BY <2>2, <2>3
<1>8. \A t \in Sessions : save'[t].inserted = 0
  BY <1>6 DEF IInv, Types
<1>9. AckedIsStored'
  <2>1. DOMAIN table = 1..n /\ 1..n \subseteq DOMAIN table'
    BY <1>1, <1>2 DEF n
  <2> QED BY <1>1, <2>1 DEF IInv, AckedIsStored
<1> QED BY <1>3, <1>4, <1>5, <1>7, <1>8, <1>9 DEF IInv, OneHolder

LEMMA CommitIInv == ASSUME IInv, NEW s \in Sessions, Commit(s) PROVE IInv'
<1> PICK q : q = save[s]
  OBVIOUS
<1> PICK stored : stored = [q EXCEPT !.at = "stored"]
  OBVIOUS
<1> PICK r : r = [stored EXCEPT !.inserted = 0]
  OBVIOUS
<1>1. /\ AllInserted(s) /\ table' = TableWith(s)
      /\ UNCHANGED <<agg, basis, acked>>
      /\ save' = [save EXCEPT ![s] = r]
  BY DEF Commit, IInv, Types
<1>2. /\ q \in [at : {"idle", "select", "insert", "stored"},
                events : Seq(Nat), expected : Nat, inserted : Nat]
      /\ SaveInv(q) /\ q.at = "insert"
  BY <1>1 DEF IInv, Types, AllInserted
<1>3. /\ stored \in [at : {"idle", "select", "insert", "stored"},
                     events : Seq(Nat), expected : Nat, inserted : Nat]
      /\ stored.at = "stored" /\ stored.events = q.events
      /\ stored.expected = q.expected
  BY <1>2
<1>4. /\ r \in [at : {"idle", "select", "insert", "stored"},
                events : Seq(Nat), expected : Nat, inserted : Nat]
      /\ r.at = "stored" /\ r.events = q.events
      /\ r.expected = q.expected /\ r.inserted = 0
  BY <1>3
<1>5. SaveInv(r)'
  <2>1. /\ Len(table') = Len(table) + Len(r.events) /\ r.expected = Len(table)
        /\ \A i \in 1..Len(r.events) : table'[Len(table) + i] = r.events[i]
    BY <1>1, <1>4, TableWithFacts
  <2>2. Len(table) \in Nat /\ r.events \in Seq(Nat)
    BY <1>4 DEF IInv, Types
  <2>3. /\ Placed(r.events, r.expected)'
        /\ r.events # << >> /\ 0 <= Len(r.events)
    BY <1>1, <1>2, <1>4, <2>2 DEF SaveInv, Placed
  <2>4. \A i \in 1..Len(r.events) :
           r.expected + i \in 1..Len(table') /\ table'[r.expected + i] = r.events[i]
    <3>1. Len(r.events) \in Nat
      BY <2>2
    <3>2. \A i \in 1..Len(r.events) : Len(table) + i \in 1..Len(table')
      BY <2>1, <2>2, <3>1
    <3> QED BY <2>1, <3>2
  <2> QED BY <1>4, <2>3, <2>4 DEF SaveInv
<1>6. r.inserted = 0
  BY <1>4
<1> QED BY <1>1, <1>4, <1>5, <1>6, CommitStep

LEMMA CommitUnansweredIInv ==
    ASSUME IInv, NEW s \in Sessions, CommitUnanswered(s) PROVE IInv'
<1>1. SaveInv(NotSaving)'
  BY DEF SaveInv, Placed, NotSaving
<1>2. NotSaving.inserted = 0
  BY DEF NotSaving
<1> QED BY <1>1, <1>2, NotSavingFacts, CommitStep DEF CommitUnanswered, Ends

\* An event that had its place keeps it when another event is applied.
LEMMA PlacedGrows ==
    ASSUME basis \in Seq(Seq(Nat)), NEW held \in Seq(Nat), basis' = Append(basis, held),
           NEW seq, NEW from, Placed(seq, from)
    PROVE  \A i \in 1..Len(seq) :
              seq[i] \in 1..Len(basis') /\ Len(basis'[seq[i]]) = from + i - 1
<1>1. /\ Len(basis) \in Nat /\ Len(basis') = Len(basis) + 1
      /\ \A e \in 1..Len(basis) : basis'[e] = basis[e]
  OBVIOUS
<1>2. \A e \in 1..Len(basis) : e \in 1..Len(basis')
  BY <1>1
<1> QED BY <1>1, <1>2 DEF Placed

\* Where the j-th pending event stands among those the aggregate holds.
LEMMA PendingPlace ==
    ASSUME NEW held \in Nat, NEW unsaved \in Nat, unsaved <= held, NEW j \in 1..unsaved
    PROVE  held - unsaved + j \in 1..held
OBVIOUS

\* apply() numbers an event and gives it the place after all that the
\* aggregate holds; the aggregate holds fewer events than were applied.
LEMMA ApplyIInv == ASSUME IInv, NEW s \in Sessions, Apply(s) PROVE IInv'
<1> PICK a : a = agg[s].applied
  OBVIOUS
<1> PICK p : p = agg[s].pending
  OBVIOUS
<1> PICK e : e = Len(basis) + 1
  OBVIOUS
<1> PICK x : x = [applied |-> Append(a, e), pending |-> Append(p, e)]
  OBVIOUS
<1>1. /\ e <= MaxEvents /\ basis' = Append(basis, a)
      /\ agg' = [agg EXCEPT ![s] = x]
      /\ UNCHANGED <<table, save, acked>>
  BY DEF Apply
<1>2. /\ a \in Seq(Nat) /\ p \in Seq(Nat) /\ basis \in Seq(Seq(Nat))
      /\ Len(basis) \in Nat /\ Len(a) \in Nat /\ Len(p) \in Nat
      /\ Basis
  BY DEF IInv, Types
<1>3. /\ Placed(a, 0) /\ Len(p) <= Len(a)
      /\ \A j \in 1..Len(p) : p[j] = a[Len(a) - Len(p) + j]
  BY DEF IInv, AggInv
<1>4. Len(a) <= Len(basis)
  <2>1. CASE a = << >>
    BY <1>2, <2>1
  <2>2. CASE a # << >>
    BY <1>2, <1>3, <2>2, PlacedBound
  <2> QED BY <2>1, <2>2
<1>5. /\ e \in Nat /\ Len(basis') = e /\ basis'[e] = a /\ basis' \in Seq(Seq(Nat))
      /\ \A d \in 1..Len(basis) : basis'[d] = basis[d]
  BY <1>1, <1>2
<1>6. Types'
  <2>1. x \in [applied : Seq(Nat), pending : Seq(Nat)]
    BY <1>2, <1>5
  <2> QED BY <1>1, <1>5, <2>1 DEF IInv, Types
<1>7. Basis'
  <2> SUFFICES ASSUME NEW d \in 1..Len(basis') PROVE Len(basis'[d]) < d
    BY <1>1, <1>5 DEF Basis
  <2>1. CASE d = e
    BY <1>2, <1>4, <1>5, <2>1
  <2>2. CASE d # e
    <3>1. d \in 1..Len(basis)
      BY <1>2, <1>5, <2>2
    <3> QED BY <1>2, <1>5, <3>1 DEF Basis
  <2> QED BY <2>1, <2>2
<1>8. Placed(table, 0)'
  <2>1. Placed(table, 0)
    BY DEF IInv
  <2>2. \A i \in 1..Len(table) :
           table[i] \in 1..Len(basis') /\ Len(basis'[table[i]]) = 0 + i - 1
    BY <1>1, <1>2, <2>1, PlacedGrows
  <2> QED BY <1>1, <2>2 DEF Placed
<1>9. /\ \A i \in 1..Len(x.applied) : /\ x.applied[i] \in 1..Len(basis')
                                      /\ Len(basis'[x.applied[i]]) = 0 + i - 1
      /\ Len(x.pending) <= Len(x.applied)
      /\ \A j \in 1..Len(x.pending) :
            x.pending[j] = x.applied[Len(x.applied) - Len(x.pending) + j]
  <2>1. /\ Len(x.applied) = Len(a) + 1 /\ Len(x.pending) = Len(p) + 1
        /\ x.applied[Len(a) + 1] = e /\ x.pending[Len(p) + 1] = e
        /\ \A i \in 1..Len(a) : x.applied[i] = a[i]
        /\ \A j \in 1..Len(p) : x.pending[j] = p[j]
    BY <1>2, <1>5
  <2>2. ASSUME NEW i \in 1..Len(x.applied)
        PROVE  /\ x.applied[i] \in 1..Len(basis')
               /\ Len(basis'[x.applied[i]]) = 0 + i - 1
    <3>1. CASE i = Len(a) + 1
      <4>1. x.applied[i] = e /\ basis'[e] = a /\ e \in 1..Len(basis')
        BY <1>2, <1>5, <2>1, <3>1
      <4> QED BY <1>2, <3>1, <4>1
    <3>2. CASE i # Len(a) + 1
      <4>1. i \in 1..Len(a) /\ x.applied[i] = a[i]
        BY <1>2, <2>1, <3>2
      <4>2. \A l \in 1..Len(a) :
               a[l] \in 1..Len(basis') /\ Len(basis'[a[l]]) = 0 + l - 1
        <5>1. Placed(a, 0) /\ basis' = Append(basis, a)
          BY <1>1, <1>3
        <5>2. a \in Seq(Nat) /\ basis \in Seq(Seq(Nat))
          BY <1>2
        <5> QED BY ONLY <5>1, <5>2, PlacedGrows
      <4>3. a[i] \in 1..Len(basis') /\ Len(basis'[a[i]]) = 0 + i - 1
        BY <4>1, <4>2
      <4> QED BY <4>1, <4>3
    <3> QED BY <3>1, <3>2
  <2>3. ASSUME NEW j \in 1..Len(x.pending)
        PROVE  x.pending[j] = x.applied[Len(x.applied) - Len(x.pending) + j]
    <3> PICK k : k = Len(a) - Len(p) + j
      OBVIOUS
    <3> PICK la : la = Len(a)
      OBVIOUS
    <3> PICK lp : lp = Len(p)
      OBVIOUS
    <3>0. /\ la \in Nat /\ lp \in Nat /\ lp <= la /\ k = la - lp + j
          /\ Len(x.applied) = la + 1 /\ Len(x.pending) = lp + 1
      BY <1>2, <1>3, <2>1
    <3>1. j \in 1..(lp + 1)
      BY <3>0
    <3>2. j \in Nat
      BY ONLY <3>0, <3>1
    <3>3. k = Len(x.applied) - Len(x.pending) + j
      BY ONLY <3>0, <3>2
    <3>4. CASE j = lp + 1
      <4>1. k = la + 1
        BY ONLY <3>0, <3>4
      <4> QED BY <2>1, <3>3, <3>4, <4>1
    <3>5. CASE j # lp + 1
      <4>1. j \in 1..lp
        BY ONLY <3>0, <3>1, <3>5
      <4>2. k \in 1..la
        BY ONLY <3>0, <4>1, PendingPlace
      <4>3. x.pending[j] = p[j] /\ p[j] = a[k] /\ x.applied[k] = a[k]
        BY <1>3, <2>1, <4>1, <4>2
      <4> QED BY <3>3, <4>3
    <3> QED BY <3>4, <3>5
  <2>4. Len(x.pending) <= Len(x.applied)
    BY <1>2, <1>3, <2>1
  <2> QED BY <2>2, <2>3, <2>4
<1>10. ASSUME NEW t \in Sessions PROVE AggInv(agg[t])'
  <2>1. agg'[t] = IF t = s THEN x ELSE agg[t]
    BY <1>1 DEF IInv, Types
  <2>2. CASE t = s
    <3>1. agg'[t] = x
      BY <2>1, <2>2
    <3> QED BY ONLY <1>9, <3>1 DEF AggInv, Placed
  <2>3. CASE t # s
    <3> PICK y : y = agg[t]
      OBVIOUS
    <3>1. AggInv(y) /\ agg'[t] = y
      BY <2>1, <2>3 DEF IInv
    <3>2. \A i \in 1..Len(y.applied) :
             y.applied[i] \in 1..Len(basis') /\ Len(basis'[y.applied[i]]) = 0 + i - 1
      BY <1>1, <1>2, <3>1, PlacedGrows DEF AggInv
    <3> QED BY <3>1, <3>2 DEF AggInv, Placed
  <2> QED BY <2>2, <2>3
<1>11. ASSUME NEW t \in Sessions PROVE SaveInv(save[t])'
  <2> PICK q : q = save[t]
    OBVIOUS
  <2>1. SaveInv(q) /\ save'[t] = q /\ table' = table
    BY <1>1 DEF IInv
  <2>2. \A i \in 1..Len(q.events) : /\ q.events[i] \in 1..Len(basis')
                                    /\ Len(basis'[q.events[i]]) = q.expected + i - 1
    <3>1. Placed(q.events, q.expected)
      BY <2>1 DEF SaveInv
    <3> QED BY <1>1, <1>2, <3>1, PlacedGrows
  <2> QED BY <2>1, <2>2 DEF SaveInv, Placed
<1>12. OneHolder' /\ AckedIsStored'
  BY <1>1 DEF IInv, OneHolder, AckedIsStored
<1>13. acked' \subseteq 1..Len(basis')
  BY <1>1, <1>2, <1>5 DEF IInv
<1> QED BY <1>6, <1>7, <1>8, <1>10, <1>11, <1>12, <1>13 DEF IInv

-----------------------------------------------------------------------------

LEMMA NextIInv == IInv /\ [Next]_vars => IInv'
<1> SUFFICES ASSUME IInv, [Next]_vars PROVE IInv'
  OBVIOUS
<1>1. CASE UNCHANGED vars
  <2>1. UNCHANGED <<table, agg, save, basis, acked>>
    BY <1>1 DEF vars
  <2>2. Types' /\ Basis' /\ Placed(table, 0)' /\ OneHolder'
    BY <2>1 DEF IInv, Types, Basis, Placed, OneHolder
  <2>3. \A s \in Sessions : AggInv(agg[s])' /\ SaveInv(save[s])'
    BY <2>1 DEF IInv, AggInv, SaveInv, Placed
  <2> QED BY <2>1, <2>2, <2>3 DEF IInv, AckedIsStored
<1>2. ASSUME NEW s \in Sessions,
             \/ Load(s) \/ Apply(s) \/ BeginSave(s) \/ FinishSave(s)
             \/ Select(s) \/ Insert(s) \/ Commit(s)
             \/ CommitUnanswered(s) \/ Rollback(s) \/ Crash(s)
      PROVE  IInv'
  BY <1>2, LoadIInv, ApplyIInv, BeginSaveIInv, FinishSaveIInv, SelectIInv,
     InsertIInv, CommitIInv, CommitUnansweredIInv, RollbackIInv, CrashIInv
<1> QED BY <1>1, <1>2 DEF Next

\* The invariant holds in every reachable state of every instance.
THEOREM Invariant == Spec => []IInv
BY InitIInv, NextIInv, PTL DEF Spec

\* A stream's versions are 1, 2, 3, ... and no event is stored twice, whatever
\* sessions save at the same time, fail, lose the answer to COMMIT and retry.
THEOREM StreamCorrect == Spec => []StreamIsALog
<1>1. IInv => StreamIsALog
  <2> SUFFICES ASSUME IInv PROVE StreamIsALog
    OBVIOUS
  <2>1. table \in Seq(Nat) /\ Len(table) \in Nat /\ DOMAIN table = 1..Len(table)
    BY DEF IInv, Types
  <2>2. Cardinality(1..Len(table)) = Len(table)
    <3> PICK n \in Nat : n = Len(table)
      BY <2>1
    <3>1. 1 \in Int /\ n \in Int
      OBVIOUS
    <3>2. Cardinality(1..n) = IF 1 > n THEN 0 ELSE n - 1 + 1
      BY ONLY <3>1, FS_Interval, Zenon
    <3> QED BY <3>2
  <2>3. ASSUME NEW v \in DOMAIN table, NEW w \in DOMAIN table, table[v] = table[w]
        PROVE  v = w
    <3>1. /\ v \in 1..Len(table) /\ w \in 1..Len(table)
          /\ Len(basis[table[v]]) = 0 + v - 1 /\ Len(basis[table[w]]) = 0 + w - 1
      BY <2>1 DEF IInv, Placed
    <3>2. 0 + v - 1 = 0 + w - 1
      BY <2>3, <3>1
    <3> QED BY <3>1, <3>2
  <2> QED BY <2>1, <2>2, <2>3 DEF StreamIsALog
<1> QED BY <1>1, Invariant, PTL

\* What a resolved save() promised stays in the stream.
THEOREM AcknowledgedStays == Spec => []AckedIsStored
<1>1. IInv => AckedIsStored
  BY DEF IInv
<1> QED BY <1>1, Invariant, PTL

\* The stream grows by the whole batch of one save(), and no row is changed,
\* also if aggregates are changed during their save().
THEOREM GrowsAtomically == Spec => GrowsByWholeSaves
<1> DEFINE Grows ==
      table' # table =>
          /\ \A v \in DOMAIN table : v \in DOMAIN table' /\ table'[v] = table[v]
          /\ \E s \in Sessions :
                { table'[v] : v \in DOMAIN table' \ DOMAIN table } = SavedBy(s)
<1>1. ASSUME IInv, NEW s \in Sessions, AllInserted(s), table' = TableWith(s) PROVE Grows
  <2> PICK n : n = Len(table)
    OBVIOUS
  <2> PICK ev : ev = save[s].events
    OBVIOUS
  <2>1. /\ table' \in Seq(Nat) /\ Len(table') = n + Len(ev)
        /\ \A v \in 1..n : table'[v] = table[v]
        /\ \A i \in 1..Len(ev) : table'[n + i] = ev[i]
    BY <1>1, TableWithFacts
  <2>2. table \in Seq(Nat) /\ ev \in Seq(Nat) /\ n \in Nat /\ Len(ev) \in Nat
    BY <1>1 DEF IInv, Types
  <2>3. DOMAIN table = 1..n /\ DOMAIN table' = 1..(n + Len(ev)) /\ DOMAIN ev = 1..Len(ev)
    BY <2>1, <2>2
  <2>4. \A v \in DOMAIN table : v \in DOMAIN table' /\ table'[v] = table[v]
    BY <2>1, <2>2, <2>3
  <2>5. ASSUME NEW v \in DOMAIN table' \ DOMAIN table PROVE table'[v] \in SavedBy(s)
    <3> PICK i : i = v - n
      OBVIOUS
    <3>1. i \in 1..Len(ev) /\ v = n + i
      BY <2>2, <2>3
    <3> QED BY <2>1, <2>3, <3>1 DEF SavedBy
  <2>6. ASSUME NEW e \in SavedBy(s)
        PROVE  \E v \in DOMAIN table' \ DOMAIN table : e = table'[v]
    <3>1. PICK i \in 1..Len(ev) : e = ev[i]
      BY <2>3 DEF SavedBy
    <3>2. n + i \in DOMAIN table' \ DOMAIN table
      BY <2>2, <2>3
    <3> QED BY <2>1, <3>1, <3>2
  <2>7. { table'[v] : v \in DOMAIN table' \ DOMAIN table } = SavedBy(s)
    BY <2>5, <2>6
  <2> QED BY <2>4, <2>7
<1>2. IInv /\ [Next]_vars => Grows
  <2> SUFFICES ASSUME IInv, [Next]_vars PROVE Grows
    OBVIOUS
  <2>1. CASE UNCHANGED vars
    BY <2>1 DEF vars
  <2>2. ASSUME NEW s \in Sessions, Commit(s) \/ CommitUnanswered(s) PROVE Grows
    <3>1. AllInserted(s) /\ table' = TableWith(s)
      BY <2>2 DEF Commit, CommitUnanswered
    <3> HIDE DEF Grows
    <3> QED BY <1>1, <3>1
  <2>3. ASSUME NEW s \in Sessions,
               \/ Load(s) \/ Apply(s) \/ BeginSave(s) \/ FinishSave(s) \/ Select(s)
               \/ Insert(s) \/ Rollback(s) \/ Crash(s)
        PROVE  table' = table
    BY <2>3 DEF Load, Apply, BeginSave, FinishSave, Select, Insert, InsertedInTransaction,
       Rollback, Crash
  <2> HIDE DEF Grows
  <2>4. table' = table => Grows
    BY DEF Grows
  <2> QED BY <2>1, <2>2, <2>3, <2>4 DEF Next, vars
<1>3. IInv /\ [Next]_vars => [Grows]_vars
  BY <1>2
<1> QED BY <1>3, Invariant, PTL DEF Spec, GrowsByWholeSaves

\* Events are numbers of events that were applied, versions and batch sizes
\* stay within the number of events.
THEOREM TypeCorrect == Spec => []TypeOK
<1>1. ASSUME NEW seq \in Seq(Nat), NEW from, Placed(seq, from) PROVE seq \in Seq(Events)
  <2>1. seq \in [1..Len(seq) -> Events] /\ Len(seq) \in Nat
    BY <1>1 DEF Placed, Events
  <2> QED BY <2>1
<1>2. ASSUME IInv, NEW s \in Sessions PROVE agg[s] \in Aggregate
  <2> PICK x : x = agg[s]
    OBVIOUS
  <2>1. x \in [applied : Seq(Nat), pending : Seq(Nat)] /\ AggInv(x)
    BY <1>2 DEF IInv, Types
  <2>2. x.applied \in Seq(Events)
    BY <1>1, <2>1 DEF AggInv
  <2>3. x.pending \in Seq(Events)
    <3> PICK la : la = Len(x.applied)
      OBVIOUS
    <3> PICK lp : lp = Len(x.pending)
      OBVIOUS
    <3>1. la \in Nat /\ lp \in Nat /\ lp <= la
      BY <2>1 DEF AggInv
    <3>2. ASSUME NEW j \in 1..lp PROVE x.pending[j] \in Events
      <4>1. la - lp + j \in 1..la
        BY ONLY <3>1, PendingPlace, j \in 1..lp
      <4>2. x.pending[j] = x.applied[la - lp + j]
        BY <2>1 DEF AggInv
      <4>3. \A i \in 1..la : x.applied[i] \in Events
        BY <2>2
      <4> QED BY <4>1, <4>2, <4>3
    <3>3. x.pending \in [1..lp -> Events]
      BY <2>1, <3>2
    <3> QED BY <3>1, <3>3
  <2> QED BY <2>1, <2>2, <2>3 DEF Aggregate
<1>3. ASSUME IInv, NEW s \in Sessions
      PROVE  save[s] \in [at : {"idle", "select", "insert", "stored"},
                          events : Seq(Events), expected : 0..MaxEvents,
                          inserted : 0..MaxEvents]
  <2> PICK r : r = save[s]
    OBVIOUS
  <2>1. /\ r \in [at : {"idle", "select", "insert", "stored"},
                  events : Seq(Nat), expected : Nat, inserted : Nat]
        /\ SaveInv(r) /\ basis \in Seq(Seq(Nat)) /\ Basis
    BY <1>3 DEF IInv, Types
  <2>2. /\ r.events \in Seq(Events) /\ Len(r.events) \in Nat
        /\ r.inserted <= Len(r.events)
    BY <1>1, <2>1 DEF SaveInv
  <2>3. Len(basis) <= MaxEvents /\ Len(basis) \in Nat /\ MaxEvents \in Nat
    BY <2>1, SqlEventStoreAssumption DEF Basis
  <2>4. CASE r.events = << >>
    <3>1. r.expected = 0 /\ r.inserted = 0
      BY <2>1, <2>2, <2>4 DEF SaveInv
    <3> QED BY <2>1, <2>2, <2>3, <3>1
  <2>5. CASE r.events # << >>
    <3>1. r.expected + Len(r.events) <= Len(basis)
      BY <2>1, <2>5, PlacedBound DEF SaveInv
    <3>2. r.expected \in 0..MaxEvents /\ r.inserted \in 0..MaxEvents
      BY <2>1, <2>2, <2>3, <3>1
    <3> QED BY <2>1, <2>2, <3>2
  <2> QED BY <2>4, <2>5
<1>4. ASSUME IInv
      PROVE  /\ DOMAIN table \subseteq 1..MaxEvents
             /\ \A v \in DOMAIN table : table[v] \in Events
  <2>1. /\ table \in Seq(Nat) /\ Placed(table, 0) /\ basis \in Seq(Seq(Nat)) /\ Basis
        /\ Len(table) \in Nat /\ Len(basis) \in Nat /\ MaxEvents \in Nat
    BY <1>4, SqlEventStoreAssumption DEF IInv, Types
  <2>2. Len(table) <= MaxEvents
    <3>1. CASE table = << >>
      BY <2>1, <3>1
    <3>2. CASE table # << >>
      <4>1. 0 + Len(table) <= Len(basis)
        BY <2>1, <3>2, PlacedBound
      <4> QED BY <2>1, <4>1 DEF Basis
    <3> QED BY <3>1, <3>2
  <2> QED BY <2>1, <2>2 DEF Placed, Events
<1>5. IInv => TypeOK
  <2> SUFFICES ASSUME IInv PROVE TypeOK
    OBVIOUS
  <2>1. agg \in [Sessions -> Aggregate]
    BY <1>2 DEF IInv, Types
  <2>2. save \in [Sessions -> [at : {"idle", "select", "insert", "stored"},
                               events : Seq(Events), expected : 0..MaxEvents,
                               inserted : 0..MaxEvents]]
    BY <1>3 DEF IInv, Types
  <2> QED BY <1>4, <2>1, <2>2 DEF TypeOK, IInv, Basis, Events
<1> QED BY <1>5, Invariant, PTL

-----------------------------------------------------------------------------
(***************************************************************************)
(* What SqlEventStore promises if no aggregate is changed while its save() *)
(* is pending: an aggregate without unsaved events is a past state of the  *)
(* stream, and the store implements EventStream.  The invariant adds what  *)
(* a session knows: its aggregate is a prefix of the stream followed by    *)
(* its unsaved events, which are the ones its save() is storing, and every *)
(* event it holds was applied to exactly the events before it.             *)
(***************************************************************************)

\* Every event of seq was applied to exactly the events before it.
Grounded(seq) == \A i \in 1..Len(seq) : basis[seq[i]] = SubSeq(seq, 1, i - 1)

Saved(x) == Len(x.applied) - Len(x.pending)

\* The aggregate x is a prefix of the stream and its unsaved events.
OnPrefix(x) ==
    \A i \in 1..Saved(x) : i \in 1..Len(table) /\ table[i] = x.applied[i]

\* A save() at r is about the unsaved events of the aggregate x.
Matches(x, r) == r.at # "idle" => r.events = x.pending /\ r.expected = Saved(x)

SessionInv(x, r) == Grounded(x.applied) /\ OnPrefix(x) /\ Matches(x, r)

GInv ==
    /\ IInv
    /\ Grounded(table)
    /\ \A s \in Sessions : SessionInv(agg[s], save[s])

-----------------------------------------------------------------------------

\* A step of one session that leaves the stream and the events alone.
LEMMA QuietStep ==
    ASSUME GInv, IInv', NEW s \in Sessions, NEW x, NEW r, SessionInv(x, r),
           agg' = [agg EXCEPT ![s] = x], save' = [save EXCEPT ![s] = r],
           UNCHANGED <<table, basis>>
    PROVE  GInv'
<1>1. Grounded(table)'
  BY DEF GInv, Grounded
<1>2. ASSUME NEW t \in Sessions PROVE SessionInv(agg[t], save[t])'
  <2>1. agg'[t] = IF t = s THEN x ELSE agg[t]
    BY DEF GInv, IInv, Types
  <2>2. save'[t] = IF t = s THEN r ELSE save[t]
    BY DEF GInv, IInv, Types
  <2>3. SessionInv(agg'[t], save'[t])
    BY <2>1, <2>2 DEF GInv
  <2> QED BY ONLY <2>3, UNCHANGED <<table, basis>>
      DEF SessionInv, Grounded, OnPrefix, Matches, Saved
<1> QED BY <1>1, <1>2 DEF GInv

LEMMA InitGInv == Init => GInv
<1> SUFFICES ASSUME Init PROVE GInv
  OBVIOUS
<1>1. Grounded(table)
  BY DEF Init, Grounded
<1>2. \A s \in Sessions : SessionInv(agg[s], save[s])
  BY DEF Init, SessionInv, Grounded, OnPrefix, Matches, Saved, Blank, NotSaving
<1> QED BY <1>1, <1>2, InitIInv DEF GInv

\* A session that is not saving, whatever it holds.
LEMMA EndsGInv ==
    ASSUME GInv, IInv', NEW s \in Sessions, Ends(s), UNCHANGED <<table, agg, basis>>
    PROVE  GInv'
<1>1. SessionInv(agg[s], NotSaving)
  BY DEF GInv, SessionInv, Matches, NotSaving
<1>2. agg' = [agg EXCEPT ![s] = agg[s]] /\ save' = [save EXCEPT ![s] = NotSaving]
  BY DEF Ends, GInv, IInv, Types
<1> QED BY <1>1, <1>2, QuietStep

\* A save() that goes on: its events and the expected version stay.
LEMMA SavingGoesOn ==
    ASSUME GInv, IInv', NEW s \in Sessions, NEW r, save' = [save EXCEPT ![s] = r],
           save[s].at # "idle", r.events = save[s].events, r.expected = save[s].expected,
           UNCHANGED <<table, agg, basis>>
    PROVE  GInv'
<1>1. SessionInv(agg[s], r)
  BY DEF GInv, SessionInv, Matches
<1>2. agg' = [agg EXCEPT ![s] = agg[s]]
  BY DEF GInv, IInv, Types
<1> QED BY <1>1, <1>2, QuietStep

LEMMA LoadGInv == ASSUME GInv, IInv', NEW s \in Sessions, Load(s) PROVE GInv'
<1> PICK x : x = [applied |-> table, pending |-> << >>]
  OBVIOUS
<1> PICK r : r = save[s]
  OBVIOUS
<1>1. x.applied = table /\ x.pending = << >> /\ r.at = "idle"
  BY DEF Load, Saving
<1>2. Len(table) \in Nat /\ Len(x.pending) = 0
  BY <1>1 DEF GInv, IInv, Types
<1>3. Saved(x) = Len(table)
  BY <1>1, <1>2 DEF Saved
<1>4. SessionInv(x, r)
  BY <1>1, <1>2, <1>3 DEF SessionInv, OnPrefix, Matches, GInv
<1>5. agg' = [agg EXCEPT ![s] = x] /\ save' = [save EXCEPT ![s] = r]
      /\ UNCHANGED <<table, basis>>
  BY DEF Load, GInv, IInv, Types
<1> QED BY <1>4, <1>5, QuietStep

LEMMA BeginSaveGInv == ASSUME GInv, IInv', NEW s \in Sessions, BeginSave(s) PROVE GInv'
<1> PICK x : x = agg[s]
  OBVIOUS
<1> PICK r : r = [at |-> "select", events |-> x.pending, expected |-> Saved(x),
                  inserted |-> 0]
  OBVIOUS
<1>1. agg' = [agg EXCEPT ![s] = x] /\ save' = [save EXCEPT ![s] = r]
      /\ UNCHANGED <<table, basis>>
  BY DEF BeginSave, Version, Saved, GInv, IInv, Types
<1>2. SessionInv(x, r)
  BY DEF SessionInv, Matches, GInv
<1> QED BY <1>1, <1>2, QuietStep

LEMMA SelectGInv == ASSUME GInv, IInv', NEW s \in Sessions, Select(s) PROVE GInv'
<1>1. save[s].at = "select" /\ UNCHANGED <<table, agg, basis>>
  BY DEF Select
<1>2. CASE VersionMatches(s) /\ save' = [save EXCEPT ![s].at = "insert",
                                                      ![s].expected = MaxVersion]
  <2> PICK q : q = save[s]
    OBVIOUS
  <2> PICK r : r = [q EXCEPT !.at = "insert"]
    OBVIOUS
  <2>1. /\ q \in [at : {"idle", "select", "insert", "stored"},
                  events : Seq(Nat), expected : Nat, inserted : Nat]
        /\ MaxVersion = q.expected
    BY <1>2 DEF GInv, IInv, Types, VersionMatches
  <2>2. r.events = q.events /\ r.expected = q.expected /\ [r EXCEPT !.expected = MaxVersion] = r
    BY <2>1
  <2>3. save' = [save EXCEPT ![s] = r]
    BY <1>2, <2>2
  <2> QED BY <1>1, <2>2, <2>3, SavingGoesOn
<1>3. CASE Ends(s)
  BY <1>1, <1>3, EndsGInv
<1> QED BY <1>2, <1>3 DEF Select, VersionConflict

LEMMA InsertGInv == ASSUME GInv, IInv', NEW s \in Sessions, Insert(s) PROVE GInv'
<1>1. save[s].at = "insert" /\ UNCHANGED <<table, agg, basis>>
  BY DEF Insert, InsertedInTransaction
<1>2. CASE save' = [save EXCEPT ![s].inserted = @ + 1]
  <2> PICK q : q = save[s]
    OBVIOUS
  <2> PICK r : r = [q EXCEPT !.inserted = q.inserted + 1]
    OBVIOUS
  <2>1. q \in [at : {"idle", "select", "insert", "stored"},
               events : Seq(Nat), expected : Nat, inserted : Nat]
    BY DEF GInv, IInv, Types
  <2>2. r.events = q.events /\ r.expected = q.expected
    BY <2>1
  <2>3. save' = [save EXCEPT ![s] = r]
    BY <1>2
  <2> QED BY <1>1, <2>2, <2>3, SavingGoesOn
<1>3. CASE Ends(s)
  BY <1>1, <1>3, EndsGInv
<1> QED BY <1>2, <1>3 DEF Insert

LEMMA CrashGInv == ASSUME GInv, IInv', NEW s \in Sessions, Crash(s) PROVE GInv'
<1>1. SessionInv(Blank, NotSaving)
  BY DEF SessionInv, Grounded, OnPrefix, Matches, Saved, Blank, NotSaving
<1>2. agg' = [agg EXCEPT ![s] = Blank] /\ save' = [save EXCEPT ![s] = NotSaving]
      /\ UNCHANGED <<table, basis>>
  BY DEF Crash, Ends
<1> QED BY <1>1, <1>2, QuietStep

\* commit() drops the unsaved events, all of which the save() has stored.
LEMMA FinishSaveGInv == ASSUME GInv, IInv', NEW s \in Sessions, FinishSave(s) PROVE GInv'
<1> PICK a : a = agg[s]
  OBVIOUS
<1> PICK q : q = save[s]
  OBVIOUS
<1> PICK x : x = [applied |-> a.applied, pending |-> << >>]
  OBVIOUS
<1>1. /\ a \in [applied : Seq(Nat), pending : Seq(Nat)] /\ table \in Seq(Nat)
      /\ q \in [at : {"idle", "select", "insert", "stored"},
                events : Seq(Nat), expected : Nat, inserted : Nat]
      /\ q.at = "stored" /\ AggInv(a) /\ SaveInv(q) /\ SessionInv(a, q)
  BY DEF GInv, IInv, Types, FinishSave, AppendResolved
<1>2. q.events = a.pending /\ q.expected = Saved(a)
  BY <1>1 DEF SessionInv, Matches
<1> PICK la : la = Len(a.applied)
  OBVIOUS
<1> PICK lp : lp = Len(a.pending)
  OBVIOUS
<1> PICK n : n = Saved(a)
  OBVIOUS
<1>0. /\ la \in Nat /\ lp \in Nat /\ n \in Nat /\ n = la - lp
      /\ \A j \in 1..lp : a.pending[j] = a.applied[n + j]
  <2>1. la \in Nat /\ lp \in Nat
    BY <1>1
  <2>2. n = la - lp
    BY DEF Saved
  <2>3. n \in Nat
    BY <1>1, <1>2
  <2>4. \A j \in 1..lp : a.pending[j] = a.applied[n + j]
    BY <1>1, <2>2 DEF AggInv
  <2> QED BY <2>1, <2>2, <2>3, <2>4
<1>3. x.applied = a.applied /\ x.pending = << >> /\ Len(x.pending) = 0
  OBVIOUS
<1>4. ASSUME NEW i \in 1..la
      PROVE  i \in 1..Len(table) /\ table[i] = a.applied[i]
  <2>1. CASE i <= n
    <3>1. i \in 1..n
      BY ONLY <1>0, <2>1, i \in 1..la
    <3> QED BY <1>1, <3>1 DEF SessionInv, OnPrefix
  <2>2. CASE i > n
    <3> PICK j : j = i - n
      OBVIOUS
    <3>1. j \in 1..lp /\ i = n + j
      BY ONLY <1>0, <2>2, i \in 1..la, j = i - n
    <3>2. a.pending[j] = a.applied[i]
      BY <1>0, <3>1
    <3>3. q.expected + j \in 1..Len(table) /\ table[q.expected + j] = q.events[j]
      BY <1>1, <1>2, <3>1 DEF SaveInv
    <3> QED BY <1>2, <3>1, <3>2, <3>3
  <2>3. i <= n \/ i > n
    BY ONLY <1>0, i \in 1..la
  <2> QED BY <2>1, <2>2, <2>3
<1>5. Saved(x) = la
  BY <1>0, <1>3 DEF Saved
<1>6. SessionInv(x, NotSaving)
  BY <1>1, <1>3, <1>4, <1>5 DEF SessionInv, Grounded, OnPrefix, Matches, NotSaving
<1>7. agg' = [agg EXCEPT ![s] = x] /\ save' = [save EXCEPT ![s] = NotSaving]
      /\ UNCHANGED <<table, basis>>
  <2>1. [a EXCEPT !.pending = << >>] = x
    BY <1>1
  <2>2. agg' = [agg EXCEPT ![s] = [a EXCEPT !.pending = << >>]]
    BY DEF FinishSave
  <2> QED BY <2>1, <2>2 DEF FinishSave, Ends
<1> QED BY <1>6, <1>7, QuietStep

\* Another event changes nothing of those that were applied before.
LEMMA GroundedGrows ==
    ASSUME basis \in Seq(Seq(Nat)), NEW held \in Seq(Nat), basis' = Append(basis, held),
           NEW seq, NEW from, Placed(seq, from), Grounded(seq)
    PROVE  \A i \in 1..Len(seq) : basis'[seq[i]] = SubSeq(seq, 1, i - 1)
<1>1. \A e \in 1..Len(basis) : basis'[e] = basis[e]
  OBVIOUS
<1> QED BY <1>1 DEF Placed, Grounded

\* An aggregate is changed only while it is not being saved.
LEMMA ApplyGInv ==
    ASSUME ~ApplyDuringSave, GInv, IInv', NEW s \in Sessions, Apply(s)
    PROVE  GInv'
<1> PICK a : a = agg[s].applied
  OBVIOUS
<1> PICK p : p = agg[s].pending
  OBVIOUS
<1> PICK e : e = Len(basis) + 1
  OBVIOUS
<1> PICK x : x = [applied |-> Append(a, e), pending |-> Append(p, e)]
  OBVIOUS
<1>1. /\ basis' = Append(basis, a) /\ agg' = [agg EXCEPT ![s] = x]
      /\ UNCHANGED <<table, save, acked>> /\ save[s].at = "idle"
  BY DEF Apply, Saving
<1>2. /\ a \in Seq(Nat) /\ p \in Seq(Nat) /\ basis \in Seq(Seq(Nat)) /\ e \in Nat
      /\ Len(a) \in Nat /\ Len(p) \in Nat
      /\ basis'[e] = a
  BY <1>1 DEF GInv, IInv, Types
<1>3. /\ Placed(a, 0) /\ Grounded(a)
      /\ \A i \in 1..(Len(a) - Len(p)) : i \in 1..Len(table) /\ table[i] = a[i]
  BY DEF GInv, IInv, AggInv, SessionInv, OnPrefix, Saved
<1>4. Grounded(table)'
  <2>1. \A i \in 1..Len(table) : basis'[table[i]] = SubSeq(table, 1, i - 1)
    BY <1>1, <1>2, GroundedGrows DEF GInv, IInv
  <2> QED BY <1>1, <2>1 DEF Grounded
<1>5. /\ Len(x.applied) = Len(a) + 1 /\ Len(x.pending) = Len(p) + 1
      /\ x.applied[Len(a) + 1] = e
      /\ \A i \in 1..Len(a) : x.applied[i] = a[i]
  BY <1>2
<1>6. \A i \in 1..Len(x.applied) : basis'[x.applied[i]] = SubSeq(x.applied, 1, i - 1)
  <2> SUFFICES ASSUME NEW i \in 1..Len(x.applied)
               PROVE  basis'[x.applied[i]] = SubSeq(x.applied, 1, i - 1)
    OBVIOUS
  <2>0. x.applied \in Seq(Nat)
    BY <1>2
  <2>1. SubSeq(x.applied, 1, i - 1) = SubSeq(a, 1, i - 1)
    BY <1>2, <1>5, <2>0
  <2>2. CASE i = Len(a) + 1
    <3>1. SubSeq(a, 1, i - 1) = a
      BY <1>2, <2>2
    <3> QED BY <1>2, <1>5, <2>1, <2>2, <3>1
  <2>3. CASE i # Len(a) + 1
    <3>1. i \in 1..Len(a) /\ x.applied[i] = a[i]
      BY <1>2, <1>5, <2>3
    <3>2. \A l \in 1..Len(a) : basis'[a[l]] = SubSeq(a, 1, l - 1)
      BY <1>1, <1>2, <1>3, GroundedGrows
    <3> QED BY <2>1, <3>1, <3>2
  <2> QED BY <2>2, <2>3
<1>7. Saved(x) = Len(a) - Len(p) /\ \A i \in 1..Saved(x) : i \in 1..Len(a)
  <2> PICK la : la = Len(a)
    OBVIOUS
  <2> PICK lp : lp = Len(p)
    OBVIOUS
  <2>1. la \in Nat /\ lp \in Nat /\ Len(x.applied) = la + 1 /\ Len(x.pending) = lp + 1
    BY <1>2, <1>5
  <2>2. Saved(x) = la - lp
    BY ONLY <2>1 DEF Saved
  <2>3. \A i \in 1..(la - lp) : i \in 1..la
    BY ONLY <2>1
  <2> QED BY <2>2, <2>3
<1>8. \A i \in 1..Saved(x) : i \in 1..Len(table) /\ table[i] = x.applied[i]
  BY <1>3, <1>5, <1>7
<1>9. ASSUME NEW t \in Sessions PROVE SessionInv(agg[t], save[t])'
  <2>1. agg'[t] = IF t = s THEN x ELSE agg[t]
    BY <1>1 DEF GInv, IInv, Types
  <2>2. CASE t = s
    <3>1. agg'[t] = x /\ save'[t].at = "idle" /\ table' = table
      BY <1>1, <2>1, <2>2
    <3> QED BY ONLY <1>6, <1>8, <3>1 DEF SessionInv, Grounded, OnPrefix, Matches, Saved
  <2>3. CASE t # s
    <3> PICK y : y = agg[t]
      OBVIOUS
    <3>1. AggInv(y) /\ SessionInv(y, save[t]) /\ agg'[t] = y /\ save'[t] = save[t]
          /\ table' = table
      BY <1>1, <2>1, <2>3 DEF GInv, IInv
    <3>2. \A i \in 1..Len(y.applied) : basis'[y.applied[i]] = SubSeq(y.applied, 1, i - 1)
      BY <1>1, <1>2, <3>1, GroundedGrows DEF AggInv, SessionInv
    <3> QED BY ONLY <3>1, <3>2 DEF SessionInv, Grounded, OnPrefix, Matches, Saved
  <2> QED BY <2>2, <2>3
<1> QED BY <1>4, <1>9 DEF GInv

\* COMMIT makes the stream what the aggregate holds.
LEMMA CommitMakes ==
    ASSUME GInv, NEW s \in Sessions, AllInserted(s), table' = TableWith(s)
    PROVE  /\ table' = agg[s].applied
           /\ Len(table) <= Len(table')
           /\ \A v \in 1..Len(table) : table'[v] = table[v]
<1> PICK a : a = agg[s].applied
  OBVIOUS
<1> PICK p : p = agg[s].pending
  OBVIOUS
<1> PICK n : n = Len(table)
  OBVIOUS
<1>1. /\ table' \in Seq(Nat) /\ Len(table') = n + Len(save[s].events)
      /\ \A v \in 1..n : table'[v] = table[v]
      /\ \A i \in 1..Len(save[s].events) : table'[n + i] = save[s].events[i]
      /\ save[s].expected = n
  BY TableWithFacts DEF GInv
<1>2. a \in Seq(Nat) /\ p \in Seq(Nat) /\ table \in Seq(Nat)
  BY DEF GInv, IInv, Types
<1>3. save[s].events = p /\ n = Len(a) - Len(p)
  BY <1>1 DEF GInv, SessionInv, Matches, Saved, AllInserted
<1>4. /\ \A i \in 1..(Len(a) - Len(p)) : i \in 1..n /\ table[i] = a[i]
      /\ \A j \in 1..Len(p) : p[j] = a[Len(a) - Len(p) + j]
  BY DEF GInv, IInv, SessionInv, OnPrefix, Saved, AggInv
<1> PICK la : la = Len(a)
  OBVIOUS
<1> PICK lp : lp = Len(p)
  OBVIOUS
<1>5. /\ la \in Nat /\ lp \in Nat /\ n \in Nat /\ n = la - lp
      /\ Len(table') = n + lp
      /\ \A v \in 1..n : table'[v] = a[v]
      /\ \A i \in 1..lp : table'[n + i] = a[n + i]
  <2>1. la \in Nat /\ lp \in Nat /\ n \in Nat
    BY <1>2
  <2>2. n = la - lp /\ Len(table') = n + lp
    BY <1>1, <1>3
  <2>3. \A v \in 1..n : table'[v] = a[v]
    BY <1>1, <1>3, <1>4
  <2>4. \A i \in 1..lp : table'[n + i] = a[n + i]
    <3>1. \A i \in 1..lp : table'[n + i] = p[i]
      BY <1>1, <1>3
    <3>2. \A i \in 1..lp : p[i] = a[n + i]
      <4>1. Len(a) - Len(p) = n
        BY <1>3
      <4> QED BY ONLY <1>4, <4>1, lp = Len(p)
    <3> QED BY <3>1, <3>2
  <2> QED BY <2>1, <2>2, <2>3, <2>4
<1>6. Len(table') = la
  BY ONLY <1>5
<1>7. ASSUME NEW v \in 1..la PROVE table'[v] = a[v]
  <2>1. CASE v <= n
    <3>1. v \in 1..n
      BY ONLY <1>5, <2>1, v \in 1..la
    <3> QED BY <1>5, <3>1
  <2>2. CASE v > n
    <3> PICK i : i = v - n
      OBVIOUS
    <3>1. i \in 1..lp /\ v = n + i
      BY ONLY <1>5, <2>2, v \in 1..la, i = v - n
    <3> QED BY <1>5, <3>1
  <2>3. v <= n \/ v > n
    BY ONLY <1>5, v \in 1..la
  <2> QED BY <2>1, <2>2, <2>3
<1>8. table' = a
  <2>1. table' = [v \in 1..la |-> table'[v]]
    BY <1>1, <1>6
  <2>2. a = [v \in 1..la |-> a[v]]
    BY <1>2
  <2> QED BY <1>7, <2>1, <2>2
<1>9. n <= Len(table')
  BY ONLY <1>5
<1> QED BY <1>1, <1>8, <1>9

LEMMA CommitGInv ==
    ASSUME GInv, IInv', NEW s \in Sessions, AllInserted(s), table' = TableWith(s),
           NEW r, save' = [save EXCEPT ![s] = r],
           r.at # "idle" => r.events = save[s].events /\ r.expected = save[s].expected,
           UNCHANGED <<agg, basis>>
    PROVE  GInv'
<1>1. /\ table' = agg[s].applied /\ Len(table) <= Len(table')
      /\ \A v \in 1..Len(table) : table'[v] = table[v]
      /\ table \in Seq(Nat) /\ table' \in Seq(Nat)
  BY CommitMakes DEF GInv, IInv, Types
<1>2. \A v \in 1..Len(table) : v \in 1..Len(table')
  BY <1>1
<1>3. Grounded(table)'
  BY <1>1 DEF GInv, SessionInv, Grounded
<1>4. ASSUME NEW t \in Sessions PROVE SessionInv(agg[t], save[t])'
  <2> PICK x : x = agg[t]
    OBVIOUS
  <2>1. SessionInv(x, save[t]) /\ agg'[t] = x /\ basis' = basis
        /\ save'[t] = IF t = s THEN r ELSE save[t]
    BY DEF GInv, IInv, Types
  <2>2. Matches(x, save'[t])
    BY <2>1 DEF SessionInv, Matches, AllInserted
  <2>3. \A i \in 1..Saved(x) : i \in 1..Len(table') /\ table'[i] = x.applied[i]
    BY <1>1, <1>2, <2>1 DEF SessionInv, OnPrefix
  <2> QED BY ONLY <2>1, <2>2, <2>3 DEF SessionInv, Grounded, OnPrefix, Matches, Saved
<1> QED BY <1>3, <1>4 DEF GInv

-----------------------------------------------------------------------------

LEMMA NextGInv ==
    ASSUME ~ApplyDuringSave, GInv, [Next]_vars
    PROVE  GInv'
<1>1. IInv'
  BY NextIInv DEF GInv
<1>2. CASE UNCHANGED vars
  <2>1. UNCHANGED <<table, agg, save, basis, acked>>
    BY <1>2 DEF vars
  <2> QED BY <1>1, <2>1 DEF GInv, SessionInv, Grounded, OnPrefix, Matches, Saved
<1>3. ASSUME NEW s \in Sessions, Load(s) \/ Apply(s) \/ BeginSave(s) \/ FinishSave(s)
      PROVE  GInv'
  BY <1>1, <1>3, LoadGInv, ApplyGInv, BeginSaveGInv, FinishSaveGInv
<1>4. ASSUME NEW s \in Sessions, Select(s) \/ Insert(s) \/ Rollback(s) \/ Crash(s)
      PROVE  GInv'
  BY <1>1, <1>4, SelectGInv, InsertGInv, EndsGInv, CrashGInv DEF Rollback
<1>5. ASSUME NEW s \in Sessions, Commit(s) PROVE GInv'
  <2> PICK q : q = save[s]
    OBVIOUS
  <2> PICK stored : stored = [q EXCEPT !.at = "stored"]
    OBVIOUS
  <2> PICK r : r = [stored EXCEPT !.inserted = 0]
    OBVIOUS
  <2>1. q \in [at : {"idle", "select", "insert", "stored"},
               events : Seq(Nat), expected : Nat, inserted : Nat]
    BY DEF GInv, IInv, Types
  <2>2. stored.events = q.events /\ stored.expected = q.expected
    BY <2>1
  <2>3. r.events = q.events /\ r.expected = q.expected
    BY <2>2
  <2>4. save' = [save EXCEPT ![s] = r]
    BY <1>5 DEF Commit
  <2> QED BY <1>1, <1>5, <2>3, <2>4, CommitGInv DEF Commit
<1>6. ASSUME NEW s \in Sessions, CommitUnanswered(s) PROVE GInv'
  <2>1. NotSaving.at = "idle"
    BY DEF NotSaving
  <2> QED BY <1>1, <1>6, <2>1, CommitGInv DEF CommitUnanswered, Ends
<1> QED BY <1>2, <1>3, <1>4, <1>5, <1>6 DEF Next

\* The invariant holds if no aggregate is changed while it is being saved.
THEOREM SessionsKnow == ASSUME ~ApplyDuringSave PROVE Spec => []GInv
<1>1. GInv /\ [Next]_vars => GInv'
  BY NextGInv
<1> QED BY <1>1, InitGInv, PTL DEF Spec

\* An aggregate without unsaved events is a past state of the stream, if no
\* handler applies an event to it while its save() is pending.
THEOREM CleanAggregates == ASSUME ~ApplyDuringSave PROVE Spec => []CleanAggregateIsPrefix
<1>1. GInv => CleanAggregateIsPrefix
  <2> SUFFICES ASSUME GInv, NEW s \in Sessions, agg[s].pending = << >>,
                      NEW i \in DOMAIN agg[s].applied
               PROVE  i \in DOMAIN table /\ table[i] = agg[s].applied[i]
    BY DEF CleanAggregateIsPrefix
  <2>1. /\ agg[s].applied \in Seq(Nat) /\ table \in Seq(Nat)
        /\ OnPrefix(agg[s])
    BY DEF GInv, IInv, Types, SessionInv
  <2>2. Saved(agg[s]) = Len(agg[s].applied)
    BY <2>1 DEF Saved
  <2>3. i \in 1..Saved(agg[s]) /\ DOMAIN table = 1..Len(table)
    BY <2>1, <2>2
  <2> QED BY <2>1, <2>3 DEF OnPrefix
<1> QED BY <1>1, SessionsKnow, PTL

-----------------------------------------------------------------------------

\* A sequence that begins as t does and goes on as e does is both in a row.
LEMMA IsConcat ==
    ASSUME NEW a \in Seq(Nat), NEW t \in Seq(Nat), NEW e \in Seq(Nat),
           Len(a) = Len(t) + Len(e),
           \A v \in 1..Len(t) : a[v] = t[v],
           \A i \in 1..Len(e) : a[Len(t) + i] = e[i]
    PROVE  a = t \o e
<1>1. /\ t \o e \in Seq(Nat) /\ Len(t \o e) = Len(t) + Len(e)
      /\ \A j \in 1..Len(t) + Len(e) :
            (t \o e)[j] = IF j <= Len(t) THEN t[j] ELSE e[j - Len(t)]
  OBVIOUS
<1>2. ASSUME NEW j \in 1..Len(a) PROVE a[j] = (t \o e)[j]
  <2>1. CASE j <= Len(t)
    BY <1>1, <2>1
  <2>2. CASE j > Len(t)
    <3>1. j - Len(t) \in 1..Len(e) /\ j = Len(t) + (j - Len(t))
      BY <2>2
    <3>2. a[j] = e[j - Len(t)]
      BY <3>1
    <3> QED BY <1>1, <2>2, <3>2
  <2> QED BY <2>1, <2>2
<1> QED BY <1>1, <1>2

\* The first m elements of a sequence are a sequence of length m.
LEMMA SubSeqFacts ==
    ASSUME NEW q \in Seq(Nat), NEW m \in Nat, m <= Len(q)
    PROVE  /\ SubSeq(q, 1, m) \in Seq(Nat) /\ Len(SubSeq(q, 1, m)) = m
           /\ \A j \in 1..m : SubSeq(q, 1, m)[j] = q[j]
<1>1. Len(SubSeq(q, 1, m)) = m
  OBVIOUS
<1>2. \A j \in 1..m : SubSeq(q, 1, m)[j] = q[j]
  OBVIOUS
<1>3. SubSeq(q, 1, m) \in Seq(Nat)
  OBVIOUS
<1> QED BY <1>1, <1>2, <1>3

\* What stands before the i-th element of e in t \o e.
LEMMA SubSeqConcat ==
    ASSUME NEW t \in Seq(Nat), NEW e \in Seq(Nat), NEW i \in 1..Len(e)
    PROVE  SubSeq(t \o e, 1, Len(t) + i - 1) = t \o SubSeq(e, 1, i - 1)
<1> PICK n \in Nat : n = Len(t)
  OBVIOUS
<1> PICK a : a = SubSeq(t \o e, 1, n + i - 1)
  OBVIOUS
<1> PICK b : b = SubSeq(e, 1, i - 1)
  OBVIOUS
<1>1. /\ t \o e \in Seq(Nat) /\ Len(t \o e) = n + Len(e)
      /\ \A j \in 1..n + Len(e) : (t \o e)[j] = IF j <= n THEN t[j] ELSE e[j - n]
      /\ i \in Nat \ {0} /\ i <= Len(e) /\ Len(e) \in Nat
  OBVIOUS
<1>2. b \in Seq(Nat) /\ Len(b) = i - 1 /\ \A k \in 1..i - 1 : b[k] = e[k]
  BY <1>1
<1>3. /\ a \in Seq(Nat) /\ Len(a) = n + i - 1
      /\ \A j \in 1..n + i - 1 : a[j] = (t \o e)[j]
  <2>1. n + i - 1 \in Nat /\ n + i - 1 <= Len(t \o e)
    BY <1>1
  <2> QED BY <1>1, <2>1, SubSeqFacts
<1>4. \A j \in 1..n : a[j] = t[j]
  BY <1>1, <1>3
<1>5. ASSUME NEW k \in 1..i - 1 PROVE a[n + k] = b[k]
  <2>1. n + k \in 1..n + i - 1 /\ n + k \in 1..n + Len(e) /\ ~(n + k <= n) /\ n + k - n = k
    BY <1>1
  <2>2. a[n + k] = e[n + k - n]
    BY <1>1, <1>3, <2>1
  <2> QED BY <1>2, <2>1, <2>2
<1>6. Len(a) = n + Len(b)
  BY <1>1, <1>2, <1>3
<1>7. a = t \o b
  <2>1. \A k \in 1..Len(b) : a[Len(t) + k] = b[k]
    BY <1>2, <1>5
  <2> QED BY <1>2, <1>3, <1>4, <1>6, <2>1, IsConcat
<1> QED BY <1>7

\* The aggregate's events after those the stream had are stored on exactly the
\* events that stand before them: COMMIT is the abstract Store.
LEMMA CommitStores ==
    ASSUME GInv, NEW s \in Sessions, AllInserted(s), table' = TableWith(s),
           UNCHANGED basis
    PROVE  Stream!Next
<1> PICK a : a = agg[s].applied
  OBVIOUS
<1> PICK ev : ev = save[s].events
  OBVIOUS
<1> PICK n : n = Len(table)
  OBVIOUS
<1>1. /\ table' = a /\ Len(a) = n + Len(ev)
      /\ \A v \in 1..n : a[v] = table[v]
      /\ \A i \in 1..Len(ev) : a[n + i] = ev[i]
  BY CommitMakes, TableWithFacts DEF GInv
<1>2. /\ a \in Seq(Nat) /\ ev \in Seq(Nat) /\ table \in Seq(Nat)
      /\ n \in Nat /\ Len(ev) \in Nat /\ basis \in Seq(Seq(Nat))
      /\ ev # << >> /\ Placed(ev, n) /\ Grounded(a) /\ Basis
  <2>1. save[s].expected = n
    BY TableWithFacts DEF GInv
  <2> QED BY <2>1 DEF GInv, IInv, Types, SaveInv, SessionInv, AllInserted
<1>3. a = table \o ev
  BY <1>1, <1>2, IsConcat
<1>4. ASSUME NEW i \in 1..Len(ev)
      PROVE  basis[ev[i]] = table \o SubSeq(ev, 1, i - 1)
  <2>1. n + i \in 1..Len(a) /\ a[n + i] = ev[i]
    <3> PICK m \in Nat : m = Len(ev)
      BY <1>2
    <3>1. n + i \in 1..n + m
      BY <1>2
    <3> QED BY <1>1, <3>1
  <2>2. basis[ev[i]] = SubSeq(a, 1, n + i - 1)
    <3> PICK l : l = n + i
      OBVIOUS
    <3>1. basis[a[l]] = SubSeq(a, 1, l - 1)
      BY <1>2, <2>1 DEF Grounded
    <3> QED BY <2>1, <3>1
  <2>3. SubSeq(a, 1, n + i - 1) = table \o SubSeq(ev, 1, i - 1)
    <3>1. SubSeq(table \o ev, 1, Len(table) + i - 1) = table \o SubSeq(ev, 1, i - 1)
      BY <1>2, SubSeqConcat
    <3> QED BY <1>3, <3>1
  <2> QED BY <2>2, <2>3
<1>5. ev \in Stream!Batches
  <2>1. n + Len(ev) <= Len(basis)
    BY <1>2, PlacedBound
  <2>2. Len(basis) <= MaxEvents /\ MaxEvents \in Nat
    BY <1>2, SqlEventStoreAssumption DEF Basis
  <2>3. Len(ev) \in 1..MaxEvents
    BY <1>2, <2>1, <2>2
  <2>4. ev \in [1..Len(ev) -> 1..Len(basis)]
    BY <1>2 DEF Placed
  <2> QED BY <2>3, <2>4 DEF Stream!Batches
<1>6. Stream!Store(ev)
  BY <1>1, <1>3, <1>4 DEF Stream!Store
<1> QED BY <1>5, <1>6 DEF Stream!Next

\* apply() is the abstract Decide, on the events that the aggregate holds.
LEMMA ApplyDecides == ASSUME GInv, NEW s \in Sessions, Apply(s) PROVE Stream!Next
<1> PICK a : a = agg[s].applied
  OBVIOUS
<1>1. basis' = Append(basis, a) /\ Len(basis) + 1 <= MaxEvents /\ UNCHANGED table
  BY DEF Apply
<1>2. /\ a \in Seq(Nat) /\ basis \in Seq(Seq(Nat)) /\ Placed(a, 0) /\ Basis
      /\ Len(basis) \in Nat /\ Len(a) \in Nat
  <2>1. a \in Seq(Nat) /\ basis \in Seq(Seq(Nat)) /\ Basis
    BY DEF GInv, IInv, Types
  <2>2. Placed(a, 0)
    BY DEF GInv, IInv, AggInv
  <2> QED BY <2>1, <2>2
<1>3. Len(a) <= Len(basis)
  <2>1. CASE a = << >>
    BY <1>2, <2>1
  <2>2. CASE a # << >>
    BY <1>2, <2>2, PlacedBound
  <2> QED BY <2>1, <2>2
<1>4. a \in Stream!Views
  <2>1. Len(a) \in 0..MaxEvents
    BY <1>1, <1>2, <1>3, SqlEventStoreAssumption
  <2>2. a \in [1..Len(a) -> 1..Len(basis)]
    BY <1>2 DEF Placed
  <2> QED BY <2>1, <2>2 DEF Stream!Views
<1>5. Stream!Decide(a)
  BY <1>1, <1>2, SqlEventStoreAssumption DEF Stream!Decide
<1> QED BY <1>4, <1>5 DEF Stream!Next

\* The event store implements one log in which every event stands right after
\* what its author had seen, if no aggregate is changed while it is saved.
THEOREM Refinement == ASSUME ~ApplyDuringSave PROVE Spec => ImplementsEventStream
<1>1. Init => Stream!Init
  BY DEF Init, Stream!Init
<1>2. GInv /\ [Next]_vars => [Stream!Next]_<<table, basis>>
  <2> SUFFICES ASSUME GInv, [Next]_vars PROVE Stream!Next \/ UNCHANGED <<table, basis>>
    OBVIOUS
  <2>1. CASE UNCHANGED vars
    BY <2>1 DEF vars
  <2>2. ASSUME NEW s \in Sessions, Apply(s) PROVE Stream!Next
    BY <2>2, ApplyDecides
  <2>3. ASSUME NEW s \in Sessions, Commit(s) \/ CommitUnanswered(s) PROVE Stream!Next
    BY <2>3, CommitStores DEF Commit, CommitUnanswered
  <2>4. ASSUME NEW s \in Sessions,
               \/ Load(s) \/ BeginSave(s) \/ FinishSave(s) \/ Select(s)
               \/ Insert(s) \/ Rollback(s) \/ Crash(s)
        PROVE  UNCHANGED <<table, basis>>
    BY <2>4 DEF Load, BeginSave, FinishSave, Select, Insert, InsertedInTransaction,
       Rollback, Crash
  <2> QED BY <2>1, <2>2, <2>3, <2>4 DEF Next
<1> QED BY <1>1, <1>2, SessionsKnow, PTL DEF Spec, ImplementsEventStream, Stream!Spec
=============================================================================
