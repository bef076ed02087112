\* Both versions, three transfers: a frame that is filled up and one with options that is not;
\* the word of the payload is one of the two that a checksum takes for each other.
SPECIFICATION Spec
CONSTANTS
    Versions = {"01", "02"}
    datalen = {2}
    offset = {5, 6}
    Payload = {0, 65535}
    Runs = 3
INVARIANTS
    DeliveredAsSent
    OnlyAlteredIsRejected
    NothingIsLeft
PROPERTIES
    WholeIsWritten
\* Everything comes to its end, or a level program waits for a file that never comes.
CHECK_DEADLOCK FALSE
