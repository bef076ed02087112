\* One exercise at a time; at most one process is stopped by its user.
SPECIFICATION StreamsSpec
CONSTANTS
    Servers = {"s1", "s2"}
    Clients = {"c1", "c2"}
    Exercises <- MCExercises
    Lengths = {1, 2, 3}
INVARIANTS
    InTurn
    JamIsWriteWrite
PROPERTIES
    EndTogether
    Flows
\* Some exercises end, in others both sides wait for ever.
CHECK_DEADLOCK FALSE
