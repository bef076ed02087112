\* One packet one way and three the other, so that numbers wrap, under fairness.
SPECIFICATION Spec
CONSTANTS
    SenderPackets = 1
    ReceiverPackets = 3
    NetCap = 1
INVARIANTS
    InOrderExactlyOnce
    InStep
    StopsAfterLast
PROPERTY OneFileArrives
\* Both hosts stop in from_network_layer when their source files are exhausted.
CHECK_DEADLOCK FALSE
