-------------------------------- MODULE Cache --------------------------------
(***************************************************************************)
(* CacheService (cache/cache.service.ts) on one key: callers of getOrSet   *)
(* whose factory reads a source of truth, and writers that change the      *)
(* source and then delete or set the key.  Redis is external: it executes  *)
(* single commands atomically, may fail each of them, with or without      *)
(* effect, and forgets a key when its time to live is over.                *)
(*                                                                         *)
(* The source's value is the number of times it was written; in the        *)
(* versions of EmptyVersions it has none, and the factory returns null.    *)
(* ttl is the time a key has left, so that the clock itself is not needed. *)
(***************************************************************************)
EXTENDS Naturals, FiniteSets

CONSTANTS
    Callers,
    Writers,
    TtlSeconds,     \* the ttlSeconds option of every call; 0 is none
    EmptyVersions,
    MaxWrites,      \* bound: how often the source changes
    MaxFaults       \* bound: how many commands of Redis fail

ASSUME CacheAssumption ==
    TtlSeconds \in Nat /\ MaxWrites \in Nat /\ MaxFaults \in Nat

VARIABLES
    source,   \* the version of the source of truth
    entry,    \* the key in Redis
    caller,   \* getOrSet() calls
    writer,
    closed,   \* onModuleDestroy() closed the client
    faults,
    floor     \* history: the last version that a delete made the oldest one
              \* that a later call may see

vars == <<source, entry, caller, writer, closed, faults, floor>>

Version == 0..MaxWrites

Entry == [value : Version, ttl : 0..TtlSeconds, expires : BOOLEAN]
NoEntry == [value |-> 0, ttl |-> 0, expires |-> TRUE]
Live == entry.ttl > 0 \/ ~entry.expires

Call == [pc : {"idle", "get", "factory", "set", "returned", "threw"},
         value : Version, floor : Version]
Writing == [pc : {"idle", "delete", "set"}, value : Version]

TypeOK ==
    /\ source \in Version /\ floor \in Version
    /\ entry \in Entry
    /\ caller \in [Callers -> Call]
    /\ writer \in [Writers -> Writing]
    /\ closed \in BOOLEAN
    /\ faults \in 0..MaxFaults

Init ==
    /\ source = 0
    /\ entry = NoEntry
    /\ caller = [c \in Callers |-> [pc |-> "idle", value |-> 0, floor |-> 0]]
    /\ writer = [w \in Writers |-> [pc |-> "idle", value |-> 0]]
    /\ closed = FALSE
    /\ faults = 0
    /\ floor = 0

-----------------------------------------------------------------------------

\* Slip: the time to live is not passed on.
StoredForGood(value) == [value |-> value, ttl |-> 0, expires |-> FALSE]

\* Slip: milliseconds, or any other unit than EX takes.
StoredLonger(value) ==
    [value |-> value, ttl |-> 2 * TtlSeconds, expires |-> TRUE]

\* set(): SET, with EX unless ttlSeconds is 0 or not given.
Stored(value) ==
    [value |-> value, ttl |-> TtlSeconds, expires |-> TtlSeconds # 0]

Moves(c, pc, value) ==
    caller' = [caller EXCEPT ![c].pc = pc, ![c].value = value]

GetOrSet(c) ==
    /\ caller[c].pc \in {"idle", "returned", "threw"}
    /\ caller' = [caller EXCEPT ![c] = [pc |-> "get", value |-> 0, floor |-> floor]]
    /\ UNCHANGED <<source, entry, writer, closed, faults, floor>>

\* A stored null is indistinguishable from no entry: JSON.parse gives null.
Cached == Live /\ entry.value \notin EmptyVersions

Get(c) ==
    /\ caller[c].pc = "get" /\ ~closed
    /\ IF Cached THEN Moves(c, "returned", entry.value) ELSE Moves(c, "factory", 0)
    /\ UNCHANGED <<source, entry, writer, closed, faults, floor>>

\* The factory reads the source; what it returns may take its time.
Factory(c) ==
    /\ caller[c].pc = "factory"
    /\ Moves(c, "set", source)
    /\ UNCHANGED <<source, entry, writer, closed, faults, floor>>

FactoryThrows(c) ==
    /\ caller[c].pc = "factory"
    /\ Moves(c, "threw", 0)
    /\ UNCHANGED <<source, entry, writer, closed, faults, floor>>

Set(c) ==
    /\ caller[c].pc = "set" /\ ~closed
    /\ entry' = Stored(caller[c].value)
    /\ Moves(c, "returned", caller[c].value)
    /\ UNCHANGED <<source, writer, closed, faults, floor>>

\* A command that fails: getOrSet() rejects, also when only its SET failed.
\* The client is closed for good after onModuleDestroy().
CommandFails(c) ==
    /\ caller[c].pc \in {"get", "set"}
    /\ closed \/ faults < MaxFaults
    /\ faults' = IF closed THEN faults ELSE faults + 1
    /\ \/ UNCHANGED entry
       \/ ~closed /\ caller[c].pc = "set" /\ entry' = Stored(caller[c].value)
    /\ Moves(c, "threw", 0)
    /\ UNCHANGED <<source, writer, closed, floor>>

-----------------------------------------------------------------------------

\* The application's own write, before it deletes or sets the key.
Write(w, next) ==
    /\ writer[w].pc = "idle" /\ source < MaxWrites
    /\ source' = source + 1
    /\ writer' = [writer EXCEPT ![w] = [pc |-> next, value |-> source + 1]]
    /\ UNCHANGED <<entry, caller, closed, faults, floor>>

\* Nobody is about to store an older value than the source's.
Quiet ==
    /\ \A c \in Callers : caller[c].pc = "set" => caller[c].value = source
    /\ \A w \in Writers : writer[w].pc = "set" => writer[w].value = source

\* Slip: the key that is deleted is not the one that is read.
DeletedNothing == UNCHANGED entry

Deleted == entry' = NoEntry

\* delete().
Delete(w) ==
    /\ writer[w].pc = "delete" /\ ~closed
    /\ Deleted
    /\ floor' = IF Quiet THEN source ELSE floor
    /\ writer' = [writer EXCEPT ![w].pc = "idle"]
    /\ UNCHANGED <<source, caller, closed, faults>>

\* set(), with the value just written.
Overwrite(w) ==
    /\ writer[w].pc = "set" /\ ~closed
    /\ entry' = Stored(writer[w].value)
    /\ writer' = [writer EXCEPT ![w].pc = "idle"]
    /\ UNCHANGED <<source, caller, closed, faults, floor>>

\* The writer's command fails, or its process ends before it.
WriterFails(w) ==
    /\ writer[w].pc # "idle"
    /\ closed \/ faults < MaxFaults
    /\ faults' = IF closed THEN faults ELSE faults + 1
    /\ writer' = [writer EXCEPT ![w].pc = "idle"]
    /\ UNCHANGED <<source, entry, caller, closed, floor>>

\* Redis: the key gets older.
Age ==
    /\ entry.expires /\ entry.ttl > 0
    /\ entry' = IF entry.ttl = 1 THEN NoEntry ELSE [entry EXCEPT !.ttl = @ - 1]
    /\ UNCHANGED <<source, caller, writer, closed, faults, floor>>

\* onModuleDestroy().
Close ==
    /\ ~closed
    /\ closed' = TRUE
    /\ UNCHANGED <<source, entry, caller, writer, faults, floor>>

Settles(c) == Get(c) \/ Factory(c) \/ FactoryThrows(c) \/ Set(c) \/ CommandFails(c)
Invalidates(w) == Delete(w) \/ Overwrite(w) \/ WriterFails(w)

Next ==
    \/ \E c \in Callers : GetOrSet(c) \/ Settles(c)
    \/ \E w \in Writers :
          \/ \E next \in {"delete", "set"} : Write(w, next)
          \/ Invalidates(w)
    \/ Age \/ Close

Spec == Init /\ [][Next]_vars

\* Commands and factories are answered, time passes; nobody has to call.
FairSpec ==
    /\ Spec
    /\ \A c \in Callers : WF_vars(Settles(c))
    /\ \A w \in Writers : WF_vars(Invalidates(w))
    /\ WF_vars(Age)

-----------------------------------------------------------------------------

\* A slow getOrSet can overwrite a newer value or revive a deleted key, but
\* the time to live bounds the damage: once the source is no longer written,
\* the cache holds its value or none, for ever, however fills, invalidations
\* and failures have met (getOrSet, set; fills are never renewed by hits).
StaleExpires ==
    TtlSeconds # 0 => <>[](Live => entry.value = source)

\* After a delete that met no fill or set of an older value under way, no
\* later call of getOrSet returns what was there before: such fills, that read
\* the source before the delete and store after it, are the only way back.
NothingOlderAfterQuietDelete ==
    \A c \in Callers :
        caller[c].pc = "returned" => caller[c].value >= caller[c].floor
=============================================================================
