\* Five packets under fairness: every interleaving of the five processes.
SPECIFICATION Spec
CONSTANTS
    Packets = 5
    NetCap = 2
INVARIANTS
    OneFrameUnderWay
    RecvTestNeverReordered
PROPERTY RefinesFairService
\* SDL stops in from_network_layer when the source file is exhausted.
CHECK_DEADLOCK FALSE
