----------------------------- MODULE CacheProofs ------------------------------
(***************************************************************************)
(* Theorems about Cache, for any number of callers and writers, any time   *)
(* to live and any number of writes and failures.  The inductive invariant *)
(* says where a value older than the floor can not be: not in the entry,   *)
(* and not with anyone who is about to store it.                           *)
(***************************************************************************)
EXTENDS Cache, Integers, TLAPS

\* No store that is under way, and no entry that can be read, is older than the
\* last delete that met no older one; calls know a floor that was one then.
FloorInv ==
    /\ floor <= source
    /\ Live => entry.value >= floor
    /\ \A c \in Callers :
          /\ caller[c].floor <= floor
          /\ caller[c].pc = "set" => caller[c].value >= floor
    /\ \A w \in Writers : writer[w].pc = "set" => writer[w].value >= floor

IInv == TypeOK /\ FloorInv /\ NothingOlderAfterQuietDelete

USE CacheAssumption

\* The empty cache satisfies the invariant.
LEMMA InitIInv == Init => IInv
<1> SUFFICES ASSUME Init PROVE IInv
  OBVIOUS
<1>1. TypeOK
  <2>1. 0 \in Version /\ 0 \in 0..TtlSeconds /\ 0 \in 0..MaxFaults
    BY DEF Version
  <2>2. entry \in Entry
    BY <2>1 DEF Init, NoEntry, Entry
  <2>3. caller \in [Callers -> Call]
    BY <2>1 DEF Init, Call
  <2>4. writer \in [Writers -> Writing]
    BY <2>1 DEF Init, Writing
  <2> QED BY <2>1, <2>2, <2>3, <2>4 DEF Init, TypeOK
<1>2. FloorInv /\ NothingOlderAfterQuietDelete
  BY DEF Init, FloorInv, NothingOlderAfterQuietDelete, Live, NoEntry
<1> QED BY <1>1, <1>2 DEF IInv

\* What is stored has its value, and a time to live the entry may have.
LEMMA StoredEntry ==
    ASSUME NEW value \in Version
    PROVE  Stored(value) \in Entry /\ Stored(value).value = value
BY DEF Stored, Entry

\* No entry is an entry that can not be read.
LEMMA NoEntryDead == NoEntry \in Entry /\ NoEntry.ttl = 0 /\ NoEntry.expires
BY DEF NoEntry, Entry, Version

\* Moving a call to another point leaves its floor and every other call alone.
LEMMA MovesOne ==
    ASSUME NEW c \in Callers, NEW value \in Version, caller \in [Callers -> Call],
           NEW pc \in {"idle", "get", "factory", "set", "returned", "threw"},
           Moves(c, pc, value)
    PROVE  /\ caller' \in [Callers -> Call]
           /\ caller'[c].pc = pc /\ caller'[c].value = value
           /\ caller'[c].floor = caller[c].floor
           /\ \A d \in Callers \ {c} : caller'[d] = caller[d]
<1> DEFINE moved == [[caller[c] EXCEPT !.pc = pc] EXCEPT !.value = value]
<1>1. /\ moved \in Call /\ moved.pc = pc /\ moved.value = value
      /\ moved.floor = caller[c].floor
  BY DEF Call
<1>2. caller' = [caller EXCEPT ![c] = moved]
  BY DEF Moves
<1> HIDE DEF moved
<1> QED BY <1>1, <1>2

-----------------------------------------------------------------------------
(* getOrSet() *)

\* A call of getOrSet begins: whatever floor there is becomes its own.
LEMMA GetOrSetStep ==
    ASSUME IInv, NEW c \in Callers, GetOrSet(c)
    PROVE  IInv'
<1> DEFINE call == [pc |-> "get", value |-> 0, floor |-> floor]
<1>1. UNCHANGED <<source, entry, writer, closed, faults, floor>>
      /\ caller' = [caller EXCEPT ![c] = call]
  BY DEF GetOrSet
<1>2. caller \in [Callers -> Call] /\ floor \in Version
  BY DEF IInv, TypeOK
<1>3. call \in Call
  BY <1>2 DEF Call, Version
<1>4. caller' \in [Callers -> Call]
  BY <1>1, <1>2, <1>3
<1>5. TypeOK'
  BY <1>1, <1>4 DEF IInv, TypeOK
<1>6. floor <= floor
  BY <1>2 DEF Version
<1>7. FloorInv' /\ NothingOlderAfterQuietDelete'
  BY <1>1, <1>2, <1>6 DEF IInv, FloorInv, NothingOlderAfterQuietDelete, Live
<1> QED BY <1>5, <1>7 DEF IInv

\* The answer of GET, of the factory or of SET: what a call returns is a live
\* entry, or what its factory read after the call began.
LEMMA SettlesStep ==
    ASSUME IInv, NEW c \in Callers, Settles(c)
    PROVE  IInv'
<1>1. UNCHANGED <<source, writer, closed, floor>>
  BY DEF Settles, Get, Factory, FactoryThrows, Set, CommandFails
<1>2. /\ source \in Version /\ floor \in Version /\ entry \in Entry
      /\ caller \in [Callers -> Call] /\ faults \in 0..MaxFaults
  BY DEF IInv, TypeOK
<1>3. /\ caller[c] \in Call /\ caller[c].value \in Version /\ caller[c].floor \in Version
      /\ entry.value \in Version /\ 0 \in Version
  BY <1>2 DEF Call, Entry, Version
<1>4. PICK pc \in {"factory", "set", "returned", "threw"}, value \in Version :
         /\ Moves(c, pc, value)
         /\ pc = "set" => value = source
         /\ pc = "returned" => \/ Live /\ value = entry.value
                               \/ caller[c].pc = "set" /\ value = caller[c].value
  <2>1. CASE Get(c)
    BY <1>3, <2>1 DEF Get, Cached
  <2>2. CASE Factory(c)
    BY <1>2, <2>2 DEF Factory
  <2>3. CASE FactoryThrows(c) \/ CommandFails(c)
    BY <1>3, <2>3 DEF FactoryThrows, CommandFails
  <2>4. CASE Set(c)
    BY <1>3, <2>4 DEF Set
  <2> QED BY <2>1, <2>2, <2>3, <2>4 DEF Settles
<1>5. /\ caller' \in [Callers -> Call]
      /\ caller'[c].pc = pc /\ caller'[c].value = value
      /\ caller'[c].floor = caller[c].floor
      /\ \A d \in Callers \ {c} : caller'[d] = caller[d]
  BY <1>2, <1>4, MovesOne
<1>6. \/ entry' = entry
      \/ caller[c].pc = "set" /\ entry' = Stored(caller[c].value)
  BY DEF Settles, Get, Factory, FactoryThrows, Set, CommandFails
<1>7. faults' \in 0..MaxFaults
  BY <1>2 DEF Settles, Get, Factory, FactoryThrows, Set, CommandFails
<1>8. entry' \in Entry
  BY <1>2, <1>3, <1>6, StoredEntry
<1>9. TypeOK'
  BY <1>1, <1>5, <1>7, <1>8 DEF IInv, TypeOK
<1>10. Live' => entry'.value >= floor
  BY <1>3, <1>6, StoredEntry DEF IInv, FloorInv, Live
<1>11. FloorInv'
  BY <1>1, <1>4, <1>5, <1>10 DEF IInv, FloorInv
<1>12. NothingOlderAfterQuietDelete'
  <2>1. pc = "returned" => value >= floor
    BY <1>4 DEF IInv, FloorInv
  <2>2. pc = "returned" => value >= caller[c].floor
    <3>1. caller[c].floor <= floor
      BY DEF IInv, FloorInv
    <3> QED BY <1>2, <1>3, <2>1, <3>1 DEF Version
  <2> QED BY <1>5, <2>2 DEF IInv, NothingOlderAfterQuietDelete
<1> QED BY <1>9, <1>11, <1>12 DEF IInv

-----------------------------------------------------------------------------
(* The application's writes. *)

\* The source changes: nothing that is kept gets younger, and the value to be
\* set is the newest one.
LEMMA WriteStep ==
    ASSUME IInv, NEW w \in Writers, NEW next \in {"delete", "set"}, Write(w, next)
    PROVE  IInv'
<1> DEFINE writing == [pc |-> next, value |-> source + 1]
<1>1. /\ source < MaxWrites /\ source' = source + 1
      /\ writer' = [writer EXCEPT ![w] = writing]
      /\ UNCHANGED <<entry, caller, closed, faults, floor>>
  BY DEF Write
<1>2. source \in Version /\ floor \in Version /\ writer \in [Writers -> Writing]
  BY DEF IInv, TypeOK
<1>3. source' \in Version /\ floor <= source' /\ writing \in Writing
  BY <1>1, <1>2 DEF IInv, FloorInv, Version, Writing
<1>4. writer' \in [Writers -> Writing]
  BY <1>1, <1>2, <1>3
<1>5. TypeOK'
  BY <1>1, <1>3, <1>4 DEF IInv, TypeOK
<1>6. source + 1 >= floor
  BY <1>1, <1>3, <1>2 DEF Version
<1>7. FloorInv' /\ NothingOlderAfterQuietDelete'
  BY <1>1, <1>2, <1>3, <1>6 DEF IInv, FloorInv, NothingOlderAfterQuietDelete, Live
<1> QED BY <1>5, <1>7 DEF IInv

\* delete(): a quiet one raises the floor to the newest value, and then nobody
\* holds an older one that will be stored.
LEMMA DeleteStep ==
    ASSUME IInv, NEW w \in Writers, Delete(w)
    PROVE  IInv'
<1> DEFINE writing == [writer[w] EXCEPT !.pc = "idle"]
<1>1. /\ entry' = NoEntry /\ floor' = (IF Quiet THEN source ELSE floor)
      /\ writer' = [writer EXCEPT ![w] = writing]
      /\ UNCHANGED <<source, caller, closed, faults>>
  BY DEF Delete, Deleted
<1>2. /\ source \in Version /\ floor \in Version
      /\ caller \in [Callers -> Call] /\ writer \in [Writers -> Writing]
  BY DEF IInv, TypeOK
<1>3. writing \in Writing /\ writing.pc = "idle"
  BY <1>2 DEF Writing
<1>4. /\ writer' \in [Writers -> Writing] /\ writer'[w].pc = "idle"
      /\ \A v \in Writers \ {w} : writer'[v] = writer[v]
  BY <1>1, <1>2, <1>3
<1>5. /\ floor' \in Version /\ floor <= floor' /\ floor' <= source
      /\ (floor' = source /\ Quiet) \/ floor' = floor
  BY <1>1, <1>2 DEF IInv, FloorInv, Version
<1>6. TypeOK'
  BY <1>1, <1>4, <1>5, NoEntryDead DEF IInv, TypeOK
<1>7. ~Live'
  BY <1>1, NoEntryDead DEF Live
<1>8. ASSUME NEW c \in Callers
      PROVE  /\ caller[c].floor <= floor'
             /\ caller[c].pc = "set" => caller[c].value >= floor'
  <2>1. caller[c].floor \in Version /\ caller[c].value \in Version
    BY <1>2 DEF Call
  <2>2. caller[c].floor <= floor /\ (caller[c].pc = "set" => caller[c].value >= floor)
    BY DEF IInv, FloorInv
  <2>3. Quiet /\ caller[c].pc = "set" => caller[c].value = source
    BY DEF Quiet
  <2> QED BY <1>2, <1>5, <2>1, <2>2, <2>3 DEF Version
<1>9. ASSUME NEW v \in Writers, writer[v].pc = "set" PROVE writer[v].value >= floor'
  <2>1. writer[v].value \in Version
    BY <1>2 DEF Writing
  <2>2. writer[v].value >= floor
    BY <1>9 DEF IInv, FloorInv
  <2>3. Quiet => writer[v].value = source
    BY <1>9 DEF Quiet
  <2> QED BY <1>2, <1>5, <2>1, <2>2, <2>3 DEF Version
<1>10. FloorInv'
  BY <1>1, <1>4, <1>5, <1>7, <1>8, <1>9 DEF FloorInv
<1>11. NothingOlderAfterQuietDelete'
  BY <1>1 DEF IInv, NothingOlderAfterQuietDelete
<1> QED BY <1>6, <1>10, <1>11 DEF IInv

\* set(), or a command of a writer that fails: a value that is stored was
\* written after the last quiet delete.
LEMMA OverwriteStep ==
    ASSUME IInv, NEW w \in Writers, Overwrite(w) \/ WriterFails(w)
    PROVE  IInv'
<1> DEFINE writing == [writer[w] EXCEPT !.pc = "idle"]
<1>1. /\ writer' = [writer EXCEPT ![w] = writing]
      /\ UNCHANGED <<source, caller, closed, floor>>
      /\ \/ entry' = entry
         \/ writer[w].pc = "set" /\ entry' = Stored(writer[w].value)
  BY DEF Overwrite, WriterFails
<1>2. writer \in [Writers -> Writing] /\ entry \in Entry /\ faults \in 0..MaxFaults
  BY DEF IInv, TypeOK
<1>3. writing \in Writing /\ writing.pc = "idle" /\ writer[w].value \in Version
  BY <1>2 DEF Writing
<1>4. /\ writer' \in [Writers -> Writing] /\ writer'[w].pc = "idle"
      /\ \A v \in Writers \ {w} : writer'[v] = writer[v]
  BY <1>1, <1>2, <1>3
<1>5. entry' \in Entry /\ faults' \in 0..MaxFaults
  BY <1>1, <1>2, <1>3, StoredEntry DEF Overwrite, WriterFails
<1>6. TypeOK'
  BY <1>1, <1>4, <1>5 DEF IInv, TypeOK
<1>7. Live' => entry'.value >= floor
  BY <1>1, <1>3, StoredEntry DEF IInv, FloorInv, Live
<1>8. FloorInv' /\ NothingOlderAfterQuietDelete'
  BY <1>1, <1>4, <1>7 DEF IInv, FloorInv, NothingOlderAfterQuietDelete
<1> QED BY <1>6, <1>8 DEF IInv

\* A key that gets older keeps its value or is gone; a closed client changes
\* nothing that is stored.
LEMMA EnvironmentStep ==
    ASSUME IInv, Age \/ Close
    PROVE  IInv'
<1>1. UNCHANGED <<source, caller, writer, faults, floor>>
  BY DEF Age, Close
<1>2. entry \in Entry /\ closed \in BOOLEAN
  BY DEF IInv, TypeOK
<1>3. \/ entry' = entry \/ entry' = NoEntry
      \/ Live /\ entry' = [entry EXCEPT !.ttl = @ - 1] /\ entry.ttl > 1
  BY <1>2 DEF Age, Close, Entry, Live
<1>4. entry' \in Entry /\ closed' \in BOOLEAN
  <2>1. entry.ttl > 1 => [entry EXCEPT !.ttl = @ - 1] \in Entry
    BY <1>2 DEF Entry
  <2> QED BY <1>2, <1>3, <2>1, NoEntryDead DEF Age, Close
<1>5. Live' => Live /\ entry'.value = entry.value
  BY <1>2, <1>3, NoEntryDead DEF Live, Entry
<1>6. TypeOK'
  BY <1>1, <1>4 DEF IInv, TypeOK
<1>7. FloorInv' /\ NothingOlderAfterQuietDelete'
  BY <1>1, <1>5 DEF IInv, FloorInv, NothingOlderAfterQuietDelete
<1> QED BY <1>6, <1>7 DEF IInv

-----------------------------------------------------------------------------

\* Every step preserves the invariant.
LEMMA NextIInv == IInv /\ [Next]_vars => IInv'
<1> SUFFICES ASSUME IInv, [Next]_vars PROVE IInv'
  OBVIOUS
<1>1. ASSUME NEW c \in Callers, GetOrSet(c) \/ Settles(c) PROVE IInv'
  BY <1>1, GetOrSetStep, SettlesStep
<1>2. ASSUME NEW w \in Writers, NEW next \in {"delete", "set"}, Write(w, next) PROVE IInv'
  BY <1>2, WriteStep
<1>3. ASSUME NEW w \in Writers, Invalidates(w) PROVE IInv'
  BY <1>3, DeleteStep, OverwriteStep DEF Invalidates
<1>4. CASE Age \/ Close
  BY <1>4, EnvironmentStep
<1>5. CASE UNCHANGED vars
  BY <1>5 DEF vars, IInv, TypeOK, FloorInv, Live, NothingOlderAfterQuietDelete
<1> QED BY <1>1, <1>2, <1>3, <1>4, <1>5 DEF Next

\* The invariant holds at every moment.
THEOREM AlwaysIInv == Spec => []IInv
BY InitIInv, NextIInv, PTL DEF Spec

\* The variables keep their types: a key never has more time left than ttlSeconds.
THEOREM TypeCorrect == Spec => []TypeOK
<1>1. IInv => TypeOK
  BY DEF IInv
<1> QED BY <1>1, AlwaysIInv, PTL

\* After a delete that met no store of an older value under way, no later call
\* of getOrSet returns what was there before, whatever fills, sets, expiries,
\* failures and further deletes meet (CacheService.getOrSet, delete).
THEOREM QuietDeleteIsFinal == Spec => []NothingOlderAfterQuietDelete
<1>1. IInv => NothingOlderAfterQuietDelete
  BY DEF IInv
<1> QED BY <1>1, AlwaysIInv, PTL
=============================================================================
