--------------------------- MODULE TcpConnections ---------------------------
(***************************************************************************)
(* The TCP connections of linux-tcp-socket-integrated, as server.cpp and   *)
(* client.cpp use them.  A message is the number of the dialogue step that *)
(* writes it: 0 "StuNo", 2 "pid", 4 "TIME", 6 "str<n>", 8 "end" from the   *)
(* server; 1 the student number, 3 the pid, 5 the time from the client.    *)
(* These are a few bytes each and arrive whole.  The random string of the  *)
(* client is Units messages 7: its up to 99999 bytes arrive piece by piece.*)
(***************************************************************************)
EXTENDS Naturals, Sequences, FiniteSets, FiniteSetsExt

CONSTANTS MaxConns,  \* connections that can exist at a time
          Units      \* pieces of the random string

ASSUME ConnectionsAssumption == MaxConns \in Nat \ {0} /\ Units \in Nat \ {0}

Conns == 1 .. MaxConns
NoConn == 0

String == 7

\* The ends, the bytes that have arrived in each direction and were not read,
\* the pieces of the string still on their way, the reset the server's socket
\* has got ("pending" until a call has returned it), and the pid of message 3.
Unused == [client |-> "none", server |-> "none", down |-> << >>, up |-> << >>,
           flight |-> 0, reset |-> "no", pid |-> 0]

VARIABLE conn

\* connect(): the server's system queues the connection for accept().
Connected == [Unused EXCEPT !.client = "open", !.server = "backlog"]

\* The server writes m.  A client that has closed answers with a reset.
Say(r, m) == IF r.client = "closed" THEN [r EXCEPT !.reset = "pending"]
                                    ELSE [r EXCEPT !.down = Append(@, m)]

\* The client writes m, a few bytes, or n pieces of the string.
Reply(r, m) == [r EXCEPT !.up = Append(@, m)]
SendString(r, n) == [r EXCEPT !.flight = @ + n]

\* close() of the client; bytes it has not read turn the FIN into a reset.
ClosedByClient(r) ==
    IF r.server = "closed" THEN Unused
    ELSE [r EXCEPT !.client = "closed", !.down = << >>,
                   !.reset = IF r.down = << >> THEN @ ELSE "pending"]

\* close() of the server; the client learns of it when it has read what is there.
ClosedByServer(r) ==
    IF r.client = "closed" THEN Unused
    ELSE [r EXCEPT !.server = "closed", !.up = << >>, !.flight = 0]

\* What the server's read() finds after the last byte: the end of the stream.
AtEnd(c) == conn[c].client = "closed" /\ conn[c].up = << >> /\ conn[c].flight = 0

\* A piece of the string arrives.
Arrive(c) ==
    /\ conn[c].flight > 0
    /\ conn' = [conn EXCEPT ![c].flight = @ - 1, ![c].up = Append(@, String)]
=============================================================================
