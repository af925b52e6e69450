\* Three calls of one thread, some inside a listener, against two notifications.
CONSTANTS
    c1 = c1
    c2 = c2
    c3 = c3
    Calls = {c1, c2, c3}
    Kinds = {"probe", "move", "preset", "watch", "fetch", "track"}
    Discipline = "nested"
    PresetCapacity = 1
    MaxNotes = 2
SPECIFICATION Spec
SYMMETRY Interchangeable
INVARIANTS
    RegistryExact
    NoLostArrival
    AnswersAreFirst
    NothingMissed
PROPERTIES
    HandedInOrder
\* Every call has been made and every notification delivered.
CHECK_DEADLOCK FALSE
