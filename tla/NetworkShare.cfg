\* Seven packets through three slots: SNL can lap SDL and SDL can overtake SNL.
SPECIFICATION Spec
CONSTANTS
    Packets = 7
    MAX_NETWORK_SHARE = 3
INVARIANTS
    ExactlyOnceUnlessOverrun
    LatestNeverLost
    InOrderUnlessMet
PROPERTY AllDrained
