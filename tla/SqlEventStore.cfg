\* Two sessions, four events: batches of up to four, conflicts on the first
\* and on later keys, and a save repeated after a COMMIT without an answer.
CONSTANTS
    Sessions = {s1, s2}
    MaxEvents = 4
    ApplyDuringSave = FALSE
SPECIFICATION FairSpec
INVARIANTS
    TypeOK
    StreamIsALog
    AckedIsStored
PROPERTIES
    GrowsByWholeSaves
    SavesSettle
    ImplementsEventStream
