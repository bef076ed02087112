\* Three packets, so that a slot is used twice and the window overrun; one frame lost or
\* damaged; the uninitialised event is none of the five, or network_layer_ready.
SPECIFICATION Spec
CONSTANTS
    Packets = 3
    MAX_SEQ = 3
    FirstEvents = {"none", "network_layer_ready"}
    MaxNoise = 1
INVARIANTS
    RightSlot
    StopsOnlyBeyondWindow
    OneWayIsNeverAcknowledged
PROPERTY NeverGoesBack
\* Sender and receiver may both stop.
CHECK_DEADLOCK FALSE
