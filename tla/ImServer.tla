------------------------------- MODULE ImServer -------------------------------
(***************************************************************************)
(* The instant-messaging server (simple-im-server, Server.cpp): one        *)
(* process that goes round server_mainloop.  A round settles the timers    *)
(* and the clients marked dead, waits in select(), accepts at most one     *)
(* connection, and serves each client that can be read, in the order of    *)
(* online_clients.  Between any two of its steps clients connect, send     *)
(* and close, and time passes.                                             *)
(*                                                                         *)
(* Packets arrive whole, and what a packet says is chosen when it is       *)
(* served.  Nothing stops a client from logging in again, as the same user *)
(* or as another.  A member of Clients is a connection and the memory of   *)
(* its OnlineClient: a new connection may be given the memory of a client  *)
(* that quit, or other memory.  Time is counted in ticks, and only as far  *)
(* as TIMEOUT: the code never tells longer periods apart.                  *)
(***************************************************************************)
EXTENDS Integers, Sequences, FiniteSets, Functions

CONSTANTS Clients,   \* connections that can exist at a time
          Users,     \* user ids of the database
          TIMEOUT,   \* the limit of a client's timer, in ticks
          NoClient   \* what the maps hold for an absent key

NoUser == -1         \* userid of a client that has not logged in

ASSUME ImServerAssumption ==
    /\ IsFiniteSet(Clients) /\ NoClient \notin Clients
    /\ Users \subseteq Nat \ {0}
    /\ TIMEOUT \in Nat \ {0}

Socks == 1 .. Cardinality(Clients)

VARIABLES
    pc,                \* where the main loop is, or "ended": by SIGPIPE, or in a send()
                       \* that is repeated for ever
    i,                 \* its index into online_clients
    rfd,               \* sockets of clients select() reported
    delta_time,        \* time charged in this round
    elapsed,           \* time since last_time
    online_clients,
    sock_map_client,
    id_map_client,
    client,            \* the OnlineClient objects
    backlog,           \* connections not yet accepted
    peer,              \* the other end of a connection
    inbox,             \* what can be read: nothing, a packet, one that is never taken
    silence,           \* time since a client was accepted or last confirmed to be alive
    superseded,        \* the client's user has logged in again since
    strayed            \* users whose client has gone on to log in as somebody else

loopVars == <<pc, i, rfd, delta_time>>
mapVars == <<online_clients, sock_map_client, id_map_client>>
netVars == <<backlog, peer, inbox>>
loginVars == <<superseded, strayed>>
vars == <<loopVars, elapsed, mapVars, client, netVars, silence, loginVars>>

Online == Range(online_clients)

OnlineClient == [sock : Socks \cup {0}, userid : Users \cup {NoUser},
                 dead : BOOLEAN, timer : 0 .. TIMEOUT - 1]
Freed == [sock |-> 0, userid |-> NoUser, dead |-> FALSE, timer |-> 0]

Init ==
    /\ pc = "maintain" /\ i = 1
    /\ rfd = {} /\ delta_time = 0 /\ elapsed = 0
    /\ online_clients = << >>
    /\ sock_map_client = [s \in Socks |-> NoClient]
    /\ id_map_client = [u \in Users |-> NoClient]
    /\ client = [c \in Clients |-> Freed]
    /\ backlog = {}
    /\ peer = [c \in Clients |-> "absent"]
    /\ inbox = [c \in Clients |-> "empty"]
    /\ silence = [c \in Clients |-> 0]
    /\ superseded = [c \in Clients |-> FALSE]
    /\ strayed = {}

-----------------------------------------------------------------------------
(* std::map::insert keeps the value of a key that is there; vector::erase  *)
(* at position k; addition as far as TIMEOUT.                              *)

Insert(map, key, c) ==
    IF map[key] = NoClient THEN [map EXCEPT ![key] = c] ELSE map

Erase(map, key) == [k \in DOMAIN map |-> IF k = key THEN NoClient ELSE map[k]]

Without(seq, k) ==
    [n \in 1 .. Len(seq) - 1 |-> IF n < k THEN seq[n] ELSE seq[n + 1]]

Later(t, d) == IF t + d < TIMEOUT THEN t + d ELSE TIMEOUT

-----------------------------------------------------------------------------
(* The upper half of a round: timers and the dead.                         *)

\* Mutant of QuitClient: the socket stays in sock_map_client.
QuitClientKeepsSock(c, k) ==
    /\ online_clients' = Without(online_clients, k)
    /\ UNCHANGED sock_map_client
    /\ id_map_client' = Erase(id_map_client, client[c].userid)
    /\ client' = [client EXCEPT ![c] = Freed]
    /\ peer' = [peer EXCEPT ![c] = "absent"]
    /\ inbox' = [inbox EXCEPT ![c] = "empty"]
    /\ silence' = [silence EXCEPT ![c] = 0]
    /\ superseded' = [superseded EXCEPT ![c] = FALSE]
    /\ strayed' = strayed \ {client[c].userid}

\* quit_client: the containers, by whatever keys the client has now.
QuitClient(c, k) ==
    /\ online_clients' = Without(online_clients, k)
    /\ sock_map_client' = Erase(sock_map_client, client[c].sock)
    /\ id_map_client' = Erase(id_map_client, client[c].userid)
    /\ client' = [client EXCEPT ![c] = Freed]
    /\ peer' = [peer EXCEPT ![c] = "absent"]
    /\ inbox' = [inbox EXCEPT ![c] = "empty"]
    /\ silence' = [silence EXCEPT ![c] = 0]
    /\ superseded' = [superseded EXCEPT ![c] = FALSE]
    /\ strayed' = strayed \ {client[c].userid}

AtClient(c) == i \in 1 .. Len(online_clients) /\ online_clients[i] = c

TimedOut(c) == Later(client[c].timer, delta_time) >= TIMEOUT

RemoveDead(c) ==
    /\ pc = "maintain" /\ AtClient(c)
    /\ client[c].dead
    /\ QuitClient(c, i)
    /\ UNCHANGED <<loopVars, elapsed, backlog>>

RemoveTimedOut(c) ==
    /\ pc = "maintain" /\ AtClient(c)
    /\ ~client[c].dead /\ TimedOut(c)
    /\ QuitClient(c, i)
    /\ UNCHANGED <<loopVars, elapsed, backlog>>

UpdateTimer(c) ==
    /\ pc = "maintain" /\ AtClient(c)
    /\ ~client[c].dead /\ ~TimedOut(c)
    /\ client' = [client EXCEPT ![c].timer = Later(@, delta_time)]
    /\ i' = i + 1
    /\ UNCHANGED <<pc, rfd, delta_time, elapsed, mapVars, netVars,
                   silence, loginVars>>

EndMaintain ==
    /\ pc = "maintain" /\ i > Len(online_clients)
    /\ pc' = "select" /\ i' = 1 /\ delta_time' = 0
    /\ UNCHANGED <<rfd, elapsed, mapVars, client, netVars, silence,
                   loginVars>>

-----------------------------------------------------------------------------
(* select() has no timeout.                                                *)

Readable(c) == inbox[c] # "empty" \/ peer[c] \in {"closed", "reset"}

Select ==
    /\ pc = "select"
    /\ rfd' = {client[c].sock : c \in {d \in Online : Readable(d)}}
    /\ rfd' # {} \/ backlog # {}
    /\ pc' = IF backlog # {} THEN "accept" ELSE "serve"
    /\ UNCHANGED <<i, delta_time, elapsed, mapVars, client, netVars,
                   silence, loginVars>>

\* wfd is never initialised: if what it holds is ready to be written, select() returns
\* though nobody needs to be served.
SelectForWfd ==
    /\ pc = "select"
    /\ rfd' = {client[c].sock : c \in {d \in Online : Readable(d)}}
    /\ rfd' = {} /\ backlog = {}
    /\ pc' = "serve"
    /\ UNCHANGED <<i, delta_time, elapsed, mapVars, client, netVars, silence,
                   loginVars>>

\* select() returns an error: nobody is served in this round.
SelectFails ==
    /\ pc = "select"
    /\ pc' = "serve" /\ i' = Len(online_clients) + 1
    /\ UNCHANGED <<rfd, delta_time, elapsed, mapVars, client, netVars, silence,
                   loginVars>>

\* The new socket is set in rfd although nothing may have arrived on it yet.
AcceptNewClient(c) ==
    /\ pc = "accept" /\ c \in backlog
    /\ \E s \in Socks :
         LET free == {t \in Socks : \A d \in Online : client[d].sock # t}
         IN  /\ s \in free /\ \A t \in free : s <= t
             /\ rfd' = rfd \cup {s}
             /\ sock_map_client' = Insert(sock_map_client, s, c)
             /\ client' = [client EXCEPT ![c] = [Freed EXCEPT !.sock = s]]
    /\ online_clients' = Append(online_clients, c)
    /\ backlog' = backlog \ {c}
    /\ pc' = "serve"
    /\ UNCHANGED <<i, delta_time, elapsed, id_map_client, peer, inbox,
                   silence, loginVars>>

\* accept() returns an error and the connection is gone.
AcceptFails(c) ==
    /\ pc = "accept" /\ c \in backlog
    /\ backlog' = backlog \ {c}
    /\ peer' = [peer EXCEPT ![c] = "absent"]
    /\ inbox' = [inbox EXCEPT ![c] = "empty"]
    /\ pc' = "serve"
    /\ UNCHANGED <<i, rfd, delta_time, elapsed, mapVars, client, silence,
                   loginVars>>

-----------------------------------------------------------------------------
(* The lower half of a round: the clients in rfd.                          *)

Advance == /\ i' = i + 1
           /\ UNCHANGED <<pc, rfd, delta_time>>

\* A copy to d, n times: how often something is sent to each client.
To(d, n) == [e \in Clients |-> IF e = d THEN n ELSE 0]

(***************************************************************************)
(* The sends of a handler.  retried[d] of them go to d in a loop that ends *)
(* when send() succeeds, once[d] are tried once.  The first send to a peer *)
(* that has closed succeeds and makes it reset the connection; a send      *)
(* after that fails, and the signal it raises may end the server, which a  *)
(* repeated one is bound to do.                                            *)
(***************************************************************************)
Sends(retried, once) ==
    LET n(d) == retried[d] + once[d]
    IN \/ /\ \A d \in Clients : retried[d] > 0 => peer[d] # "reset"
          /\ peer' = [d \in Clients |-> IF n(d) > 0 /\ peer[d] = "closed"
                                        THEN "reset" ELSE peer[d]]
          /\ Advance
       \/ /\ \E d \in Clients : \/ n(d) > 0 /\ peer[d] = "reset"
                                \/ n(d) > 1 /\ peer[d] = "closed"
          /\ pc' = "ended"
          /\ UNCHANGED <<i, rfd, delta_time, peer>>

Nothing == To(NoClient, 0)

\* The client served next, and what the first look at its socket finds.
AtReadable(c) == pc = "serve" /\ AtClient(c) /\ client[c].sock \in rfd

AtPacket(c) == AtReadable(c) /\ inbox[c] = "packet"

NotInRfd(c) ==
    /\ pc = "serve" /\ AtClient(c) /\ client[c].sock \notin rfd
    /\ Advance
    /\ UNCHANGED <<elapsed, mapVars, client, netVars, silence, loginVars>>

\* recv() = 0 or an error.
PeerGone(c) ==
    /\ AtReadable(c) /\ inbox[c] = "empty" /\ peer[c] \in {"closed", "reset"}
    /\ client' = [client EXCEPT ![c].dead = TRUE]
    /\ Advance
    /\ UNCHANGED <<elapsed, mapVars, netVars, silence, loginVars>>

Take(c) == inbox' = [inbox EXCEPT ![c] = "empty"]

AliveConfirm(c) ==
    /\ AtPacket(c) /\ Take(c)
    /\ client' = [client EXCEPT ![sock_map_client[client[c].sock]].timer = 0]
    /\ silence' = [silence EXCEPT ![c] = 0]
    /\ Sends(Nothing, To(c, 1))
    /\ UNCHANGED <<elapsed, mapVars, backlog, loginVars>>

(***************************************************************************)
(* An entry of id_map_client whose client was freed: the key under which   *)
(* quit_client() erased it was not this one.  What the freed memory says   *)
(* may lead to any client or to none, and a send() that is repeated until  *)
(* it succeeds may never do so.                                            *)
(***************************************************************************)
Gone(entry) == entry # NoClient /\ entry \notin Online

Reached(entry) == IF Gone(entry) THEN Online \cup {NoClient} ELSE {entry}

SendsForEver == pc' = "ended" /\ UNCHANGED <<i, rfd, delta_time, peer>>

\* Mutant of UserLogin: the earlier login is told, and not marked.
UserLoginKeepsOld(c, u) ==
    /\ AtPacket(c) /\ Take(c)
    /\ \E dead_client \in Reached(id_map_client[u]) :
         /\ client' = [d \in Clients |->
              [client[d] EXCEPT !.userid = IF d = c THEN u ELSE @]]
         /\ Sends(To(c, 1), [d \in Clients |-> To(dead_client, 1)[d] + To(c, 1)[d]])
    /\ id_map_client' = Insert(id_map_client, u, c)
    /\ superseded' = [d \in Clients |-> d # c /\ (superseded[d] \/ client[d].userid = u)]
    /\ strayed' = strayed \cup {v \in Users \ {u} : client[c].userid = v /\ id_map_client[v] = c}
    /\ UNCHANGED <<elapsed, online_clients, sock_map_client, backlog, silence>>

\* The client of an earlier login, which may be this one, is told that it was replaced,
\* and marked; the new one replies and sends the configuration.  The entry of the user
\* this client was until now stays.
UserLogin(c, u) ==
    /\ AtPacket(c) /\ Take(c)
    /\ \E dead_client \in Reached(id_map_client[u]) :
         /\ client' = [d \in Clients |->
              [client[d] EXCEPT !.userid = IF d = c THEN u ELSE @,
                                !.dead = @ \/ d = dead_client]]
         /\ Sends(To(c, 1), [d \in Clients |-> To(dead_client, 1)[d] + To(c, 1)[d]])
    /\ id_map_client' = Insert(id_map_client, u, c)
    /\ superseded' = [d \in Clients |-> d # c /\ (superseded[d] \/ client[d].userid = u)]
    /\ strayed' = strayed \cup {v \in Users \ {u} : client[c].userid = v /\ id_map_client[v] = c}
    /\ UNCHANGED <<elapsed, online_clients, sock_map_client, backlog, silence>>

\* An unknown user or a wrong password is answered; a database error is not.
LoginFails(c) ==
    /\ AtPacket(c) /\ Take(c)
    /\ Sends(To(c, 1), Nothing) \/ (Advance /\ UNCHANGED peer)
    /\ UNCHANGED <<elapsed, mapVars, client, backlog, silence, loginVars>>

ChangePassword(c) ==
    /\ AtPacket(c) /\ Take(c)
    /\ Sends(Nothing, To(c, 1))
    /\ UNCHANGED <<elapsed, mapVars, client, backlog, silence, loginVars>>

\* A message, a file request or a piece of a file, to one user.
TransferTo(c, r) ==
    /\ AtPacket(c) /\ Take(c)
    /\ \/ \E d \in Reached(id_map_client[r]) : Sends(To(d, 1), Nothing)
       \/ Gone(id_map_client[r]) /\ SendsForEver
    /\ UNCHANGED <<elapsed, mapVars, client, backlog, silence, loginVars>>

\* A message to all: one send for each client of another user, to the client that the
\* map has for that user.
TransferToAll(c) ==
    /\ AtPacket(c) /\ Take(c)
    /\ LET others == {d \in Online : client[d].userid \notin {NoUser, client[c].userid}}
           entries == {id_map_client[client[d].userid] : d \in others}
       IN  \/ \E to \in [entries -> Online \cup {NoClient}] :
                /\ \A entry \in entries : to[entry] \in Reached(entry)
                /\ Sends([e \in Clients |->
                            Cardinality({d \in others : to[id_map_client[client[d].userid]] = e})],
                         Nothing)
           \/ (\E entry \in entries : Gone(entry)) /\ SendsForEver
    /\ UNCHANGED <<elapsed, mapVars, client, backlog, silence, loginVars>>

\* Two records stand for any number of them.
HistoryReq(c) ==
    /\ AtPacket(c) /\ Take(c)
    /\ \E records \in 0 .. 2 : Sends(To(c, records), Nothing)
    /\ UNCHANGED <<elapsed, mapVars, client, backlog, silence, loginVars>>

\* A changed configuration or a piece of a file longer than 1072 bytes: the handler
\* returns without recv(), so the packet is what the socket holds from then on.
NotReceived(c) ==
    /\ AtReadable(c) /\ inbox[c] \in {"packet", "stuck"}
    /\ inbox' = [inbox EXCEPT ![c] = "stuck"]
    /\ Advance
    /\ UNCHANGED <<elapsed, mapVars, client, backlog, peer, silence, loginVars>>

QuitMessage(c) ==
    /\ AtPacket(c)
    /\ client' = [client EXCEPT ![c].dead = TRUE]
    /\ Advance
    /\ UNCHANGED <<elapsed, mapVars, netVars, silence, loginVars>>

\* Mutant of NextRound: last_time is assigned before the difference is taken.
NextRoundNoDelta ==
    /\ pc = "serve" /\ i > Len(online_clients)
    /\ pc' = "maintain" /\ i' = 1 /\ rfd' = {}
    /\ delta_time' = 0 /\ elapsed' = 0
    /\ UNCHANGED <<mapVars, client, netVars, silence, loginVars>>

\* The round is over; the next begins by reading the clock: last_time = new_time, and
\* what has passed since the last round is charged in this one.
NextRound ==
    /\ pc = "serve" /\ i > Len(online_clients)
    /\ pc' = "maintain" /\ i' = 1 /\ rfd' = {}
    /\ delta_time' = elapsed /\ elapsed' = 0
    /\ UNCHANGED <<mapVars, client, netVars, silence, loginVars>>

-----------------------------------------------------------------------------
(* The clients and the clock.  From the last client served to the next     *)
(* select() the server looks at its clock once and at no socket: what      *)
(* happens meanwhile may as well happen before or after.  The listening    *)
(* socket is looked at by select() only, and the socket of a client only   *)
(* once it was accepted.                                                   *)

Attentive == pc = "select" \/ (pc = "serve" /\ i <= Len(online_clients))

envVars == <<loopVars, mapVars, client, loginVars>>

Connect(c) ==
    /\ pc = "select" /\ peer[c] = "absent"
    /\ peer' = [peer EXCEPT ![c] = "open"]
    /\ backlog' = backlog \cup {c}
    /\ UNCHANGED <<envVars, elapsed, inbox, silence>>

Send(c) ==
    /\ Attentive /\ c \in Online /\ peer[c] = "open" /\ inbox[c] = "empty"
    /\ inbox' = [inbox EXCEPT ![c] = "packet"]
    /\ UNCHANGED <<envVars, elapsed, backlog, peer, silence>>

Close(c) ==
    /\ Attentive /\ c \in Online /\ peer[c] = "open"
    /\ peer' = [peer EXCEPT ![c] = "closed"]
    /\ UNCHANGED <<envVars, elapsed, backlog, inbox, silence>>

Tick ==
    /\ Attentive
    /\ elapsed' = Later(elapsed, 1)
    /\ silence' = [c \in Clients |-> IF c \in Online THEN Later(silence[c], 1) ELSE 0]
    /\ UNCHANGED <<envVars, netVars>>

-----------------------------------------------------------------------------
Maintain(c) == RemoveDead(c) \/ RemoveTimedOut(c) \/ UpdateTimer(c)

Serve(c) == \/ NotInRfd(c) \/ PeerGone(c) \/ AliveConfirm(c)
            \/ \E u \in Users : UserLogin(c, u)
            \/ LoginFails(c) \/ ChangePassword(c)
            \/ \E u \in Users : TransferTo(c, u)
            \/ TransferToAll(c) \/ HistoryReq(c) \/ NotReceived(c) \/ QuitMessage(c)

Server == \/ EndMaintain \/ Select \/ NextRound
          \/ \E c \in Clients : \/ Maintain(c) \/ Serve(c)
                                \/ AcceptNewClient(c) \/ AcceptFails(c)

Next == \/ Server \/ SelectForWfd \/ SelectFails \/ Tick
        \/ \E c \in Clients : Connect(c) \/ Send(c) \/ Close(c)

Spec == Init /\ [][Next]_vars

(***************************************************************************)
(* The server is scheduled and time passes.  Of the clients nothing is     *)
(* assumed, and select() may fail as often as it likes.                    *)
(***************************************************************************)
FairSpec == Spec /\ WF_vars(Server) /\ SF_vars(Tick)

-----------------------------------------------------------------------------
\* Types, and: past the upper half of a round no timer has reached TIMEOUT.
TypeOK ==
    /\ pc \in {"maintain", "select", "accept", "serve", "ended"}
    /\ i \in 1 .. Len(online_clients) + 1
    /\ rfd \subseteq Socks
    /\ delta_time \in 0 .. TIMEOUT /\ elapsed \in 0 .. TIMEOUT
    /\ online_clients \in Seq(Clients)
    /\ sock_map_client \in [Socks -> Clients \cup {NoClient}]
    /\ id_map_client \in [Users -> Clients \cup {NoClient}]
    /\ client \in [Clients -> OnlineClient]
    /\ backlog \subseteq Clients
    /\ peer \in [Clients -> {"absent", "open", "closed", "reset"}]
    /\ inbox \in [Clients -> {"empty", "packet", "stuck"}]
    /\ silence \in [Clients -> 0 .. TIMEOUT]
    /\ superseded \in [Clients -> BOOLEAN]
    /\ strayed \subseteq Users

\* The containers agree: a client is in online_clients at most once, sock_map_client has
\* exactly the clients online, under their own sockets, and an entry of id_map_client is
\* a client that is online as that user, but for a user whose client has logged in as
\* somebody else: no other sequence of logins, replacements, timeouts and ends leaves an
\* entry that is wrong, or whose client was freed.
ContainersAgree ==
    /\ \A j, k \in 1 .. Len(online_clients) :
         online_clients[j] = online_clients[k] => j = k
    /\ \A s \in Socks, c \in Clients :
         sock_map_client[s] = c <=> c \in Online /\ client[c].sock = s
    /\ \A u \in Users \ strayed :
         id_map_client[u] # NoClient =>
            id_map_client[u] \in Online /\ client[id_map_client[u]].userid = u

\* When the server waits in select(), the entry of a user, if there is one, is the
\* login that was made last: no message goes to a login that another has replaced,
\* unless the client the entry names has logged in as somebody else.
EntryIsLatestLogin ==
    pc = "select" =>
        \A u \in Users \ strayed :
            id_map_client[u] # NoClient => ~superseded[id_map_client[u]]

\* Whoever is still online when the maintenance is over was heard of less than TIMEOUT
\* before the round began: the timer never lags behind the true silence.
TimerCoversSilence ==
    pc \in {"select", "accept", "serve"} =>
        \A c \in Online : Later(client[c].timer, elapsed) >= silence[c]

\* Where the server waits in recv() for the first packet of a client just accepted.
Awaited(c) == pc = "serve" /\ AtClient(c) /\ client[c].sock \in rfd /\ ~Readable(c)


\* Expected violation.  A user that is logged in can be sent messages: Server.cpp says of
\* an id that id_map_client does not have that its client is not online (l.498).
OnlineUsersAreReachable ==
    pc = "select" =>
        \A c \in Online : client[c].userid # NoUser =>
                            id_map_client[client[c].userid] # NoClient

=============================================================================
