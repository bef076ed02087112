\* Two connections and two users: is everyone who is logged in reachable?
SPECIFICATION FairSpec
CONSTANTS
    Clients = {c1, c2}
    Users = {1, 2}
    TIMEOUT = 2
    NoClient = NoClient
INVARIANTS
    OnlineUsersAreReachable
CHECK_DEADLOCK FALSE
