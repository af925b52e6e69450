\* Two listeners of two threads.
CONSTANTS
    c1 = c1
    c2 = c2
    Calls = {c1, c2}
    Kinds = {"move", "watch", "fetch", "track"}
    Discipline = "any"
    PresetCapacity = 1
    MaxNotes = 1
SPECIFICATION Spec
INVARIANTS
    RegistryExact
CHECK_DEADLOCK FALSE
