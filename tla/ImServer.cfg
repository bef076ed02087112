\* Two connections and two users, as a second login on one connection takes, under fairness.
SPECIFICATION FairSpec
CONSTANTS
    Clients = {c1, c2}
    Users = {1, 2}
    TIMEOUT = 1
    NoClient = NoClient
INVARIANTS
    ContainersAgree
    EntryIsLatestLogin
    TimerCoversSilence
 
\* A send to a connection that was reset ends the server.
CHECK_DEADLOCK FALSE
