\* Two packets, RNL running: every interleaving of the five processes.
SPECIFICATION Safety
CONSTANTS
    Packets = 2
    NetCap = 1
    RnlRuns = TRUE
INVARIANTS
    InOrderExactlyOnce
    RightAckMeansDelivered
    FilesAreWrittenBeforeRead
    RecvTestNeverReordered
\* SDL stops in from_network_layer when the source file is exhausted.
CHECK_DEADLOCK FALSE
