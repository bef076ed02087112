\* Three packets under fairness; RNL never runs, nobody waits for it.
SPECIFICATION Spec
CONSTANTS
    Packets = 3
    NetCap = 1
    RnlRuns = FALSE
PROPERTIES
    RefinesFairService
    AllAcknowledged
\* SDL stops in from_network_layer when the source file is exhausted.
CHECK_DEADLOCK FALSE
