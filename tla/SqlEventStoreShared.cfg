\* One aggregate instance shared by two requests: applied to while saved.
CONSTANTS
    Sessions = {s1, s2}
    MaxEvents = 3
    ApplyDuringSave = TRUE
SPECIFICATION Spec
INVARIANTS
    NoEventForgotten
