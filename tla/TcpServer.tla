------------------------------ MODULE TcpServer ------------------------------
(***************************************************************************)
(* server.cpp of linux-tcp-socket-integrated, in its three forms:          *)
(*   "fork_block"  fork_block_work: a child per connection, blocking reads *)
(*   "fork"        fork_work: a child per connection, non-blocking sockets *)
(*   "nofork"      nofork_work: one process, one select() for all          *)
(* A connection goes through work = 0 .. 9: the server reads when work is  *)
(* odd and writes when it is even.  A step is one iteration of the loop    *)
(* for a connection, which reads a reply and writes the next question.     *)
(***************************************************************************)
EXTENDS TcpConnections

CONSTANT MAX   \* entries of client[] in nofork_work

ServerModes == {"fork_block", "fork", "nofork"}

Slots == 1 .. MAX

\* The descriptors of a process run out before client[] does.
ASSUME ServerAssumption == MAX \in Nat /\ MAX >= MaxConns

VARIABLES
    server_mode,
    work,        \* per connection: the step of the dialogue
    sum,         \* per connection: pieces read in the loop of work 7
    len,         \* per connection: client_data.len
    files,       \* the pids of the files txt/<stuno>.<pid>.pid.txt
    client,      \* nofork: the table of connections
    rfd          \* nofork: entries this select() found something to do for

childVars == <<work, sum, len, files>>
serverVars == <<server_mode, childVars, client, rfd>>

ServerInit ==
    /\ server_mode \in ServerModes
    /\ work = [c \in Conns |-> 0] /\ sum = [c \in Conns |-> 0] /\ len = [c \in Conns |-> 0]
    /\ files = {}
    /\ client = [i \in Slots |-> NoConn]
    /\ rfd = {}

\* close() of the connection; its entry or its child is gone.
Released(c) == /\ conn' = [conn EXCEPT ![c] = ClosedByServer(@)]
               /\ work' = [work EXCEPT ![c] = 0]
               /\ sum' = [sum EXCEPT ![c] = 0]
               /\ len' = [len EXCEPT ![c] = 0]
-----------------------------------------------------------------------------
(* One iteration for connection c: the same in the three forms, but for what is said *)

\* work 0: "StuNo".
Greet(c) ==
    /\ work[c] = 0
    /\ conn' = [conn EXCEPT ![c] = Say(@, 0)]
    /\ work' = [work EXCEPT ![c] = 1]
    /\ UNCHANGED <<sum, len, files>>

\* work 1, 3, 5: the student number, the pid, the time, and the next question.
\* The one after the time draws the length of the string.
ReadReply(c) ==
    /\ work[c] \in {1, 3, 5} /\ conn[c].up # << >>
    /\ LET read == [conn[c] EXCEPT !.up = Tail(@)]
       IN  conn' = [conn EXCEPT ![c] = Say(read, work[c] + 1)]
    /\ work' = [work EXCEPT ![c] = @ + 2]
    /\ len' = [len EXCEPT ![c] = IF work[c] = 5 THEN Units ELSE @]
    /\ UNCHANGED <<sum, files>>

\* Mutants of ReadString: the first read() counts for all of it; sum is set and
\* not added to; "end" is written after every read().
ReadStringOnce(c) ==
    /\ work[c] = 7 /\ conn[c].up # << >>
    /\ sum' = [sum EXCEPT ![c] = Len(conn[c].up)]
    /\ conn' = [conn EXCEPT ![c] = Say([@ EXCEPT !.up = << >>], 8)]
    /\ work' = [work EXCEPT ![c] = 9]
    /\ UNCHANGED <<len, files>>

ReadStringForgets(c) ==
    /\ work[c] = 7 /\ conn[c].up # << >>
    /\ LET ret == Len(conn[c].up)
           read == [conn[c] EXCEPT !.up = << >>]
       IN  /\ sum' = [sum EXCEPT ![c] = ret]
           /\ conn' = [conn EXCEPT ![c] = IF ret < len[c] THEN read ELSE Say(read, 8)]
           /\ work' = [work EXCEPT ![c] = IF ret < len[c] THEN 7 ELSE 9]
    /\ UNCHANGED <<len, files>>

ReadStringEndsOften(c) ==
    /\ work[c] = 7 /\ conn[c].up # << >>
    /\ LET ret == Len(conn[c].up)
       IN  /\ sum' = [sum EXCEPT ![c] = @ + ret]
           /\ conn' = [conn EXCEPT ![c] = Say([@ EXCEPT !.up = << >>], 8)]
           /\ work' = [work EXCEPT ![c] = IF sum[c] + ret < len[c] THEN 7 ELSE 9]
    /\ UNCHANGED <<len, files>>

\* work 7: one read() of the loop; with the last one goes "end".  nofork_work
\* sets len to what that read() returned.
ReadString(c) ==
    /\ work[c] = 7 /\ conn[c].up # << >>
    /\ LET ret == Len(conn[c].up)
           read == [conn[c] EXCEPT !.up = << >>]
       IN  /\ sum' = [sum EXCEPT ![c] = @ + ret]
           /\ IF sum[c] + ret < len[c]
              THEN conn' = [conn EXCEPT ![c] = read] /\ UNCHANGED <<work, len>>
              ELSE /\ conn' = [conn EXCEPT ![c] = Say(read, 8)]
                   /\ work' = [work EXCEPT ![c] = 9]
                   /\ len' = [len EXCEPT ![c] = IF server_mode = "nofork" THEN ret ELSE @]
    /\ UNCHANGED files

\* work 1, 3, 5, 7: read() returns 0, or -1 for a reset; the connection is closed.
ReadEnd(c) ==
    /\ work[c] \in {1, 3, 5, 7} /\ AtEnd(c)
    /\ Released(c)
    /\ UNCHANGED files

\* In the loop of work 7 a non-blocking read() that comes too early returns -1 too.
ReadTooEarly(c) ==
    /\ work[c] = 7 /\ sum[c] > 0 /\ server_mode # "fork_block"
    /\ conn[c].up = << >> /\ ~AtEnd(c)
    /\ Released(c)
    /\ UNCHANGED files

\* work 9: read() returns 0, the client has gone; its data, len pieces of
\* the string, goes into its file.
WriteFile(c) ==
    /\ work[c] = 9 /\ AtEnd(c) /\ conn[c].reset # "pending"
    /\ files' = files \cup {conn[c].pid}
    /\ Released(c)

\* work 9: read() returns -1 once.  The child of fork_work gives up; the others
\* come back to read() and get 0 then.
ResetAtEnd(c) ==
    /\ work[c] = 9 /\ AtEnd(c) /\ conn[c].reset = "pending"
    /\ IF server_mode = "fork" THEN Released(c)
       ELSE conn' = [conn EXCEPT ![c].reset = "taken"] /\ UNCHANGED <<work, sum, len>>
    /\ UNCHANGED files

Iteration(c) == \/ Greet(c) \/ ReadReply(c) \/ ReadString(c) \/ ReadEnd(c)
                \/ ReadTooEarly(c) \/ WriteFile(c) \/ ResetAtEnd(c)
-----------------------------------------------------------------------------
(* fork_block_work and fork_work *)

\* accept() and fork().
Accept(c) ==
    /\ server_mode # "nofork" /\ conn[c].server = "backlog"
    /\ conn' = [conn EXCEPT ![c].server = "open"]
    /\ UNCHANGED serverVars

\* One round of the child's loop.
Child(c) ==
    /\ server_mode # "nofork" /\ conn[c].server = "open"
    /\ Iteration(c)
    /\ UNCHANGED <<server_mode, client, rfd>>
-----------------------------------------------------------------------------
(* nofork_work *)

InTable == {i \in Slots : client[i] # NoConn}
Readable(c) == conn[c].up # << >> \/ AtEnd(c)

\* select(), and accept() of one connection: it gets the first free entry, but
\* has no bit in this round's sets.  A socket is writable whenever it is looked
\* at, so the sets come down to the entries that will read or greet.
Round(c) ==
    LET todo    == {i \in InTable : work[client[i]] = 0 \/ Readable(client[i])}
        waiting == {x \in Conns : conn[x].server = "backlog"}
    IN  /\ server_mode = "nofork" /\ rfd = {}
        /\ todo # {} \/ waiting # {}
        /\ rfd' = todo
        /\ IF waiting = {} THEN c = NoConn /\ UNCHANGED <<conn, client>>
           ELSE /\ c \in waiting
                /\ conn' = [conn EXCEPT ![c].server = "open"]
                /\ client' = [client EXCEPT ![Min(Slots \ InTable)] = c]
        /\ UNCHANGED <<server_mode, childVars>>

\* Entry i is the next in the loop over the table.  In the loop of work 7 the
\* process stays with its entry; an entry whose connection is closed is freed.
Turn(i) ==
    LET c == client[i] IN
    /\ server_mode = "nofork" /\ i \in rfd /\ \A n \in rfd : i =< n
    /\ Iteration(c)
    /\ rfd' = IF work'[c] = 7 /\ sum'[c] > 0 THEN rfd ELSE rfd \ {i}
    /\ client' = IF conn'[c].server = "open" THEN client ELSE [client EXCEPT ![i] = NoConn]
    /\ UNCHANGED server_mode

NoFork == (\E c \in Conns \cup {NoConn} : Round(c)) \/ (\E i \in Slots : Turn(i))
-----------------------------------------------------------------------------
ServerNext == NoFork \/ \E c \in Conns : Accept(c) \/ Child(c)

=============================================================================
