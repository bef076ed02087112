------------------------------ MODULE TcpClient ------------------------------
(***************************************************************************)
(* client.cpp of linux-tcp-socket-integrated, in its three forms:          *)
(*   "block"   block_process: a child per connection, blocking calls,      *)
(*             alarm(1) over the whole dialogue                            *)
(*   "fork"    nonblock_fork_process: a child per connection, non-blocking *)
(*             socket, alarm(1) before each select()                       *)
(*   "nofork"  nonblock_nofork_process: one process for all                *)
(* A dialogue that fails is started again until connect_num have succeeded.*)
(* k numbers the children that count for one of them, or the entries of    *)
(* client[].                                                               *)
(***************************************************************************)
EXTENDS TcpConnections

CONSTANT connect_num   \* dialogues asked for

ASSUME ClientAssumption == connect_num \in Nat \ {0}

ClientModes == {"block", "fork", "nofork"}

Dialogues == 1 .. connect_num

VARIABLES
    client_mode,
    kid,           \* what a child is doing, or an entry's connect and finish
    state,         \* per dialogue: its number, 0 .. 9
    link,          \* per dialogue: its connection
    left,          \* per dialogue: pieces of the string the socket has not taken
    fd,            \* nofork: the descriptor of each entry, 0 if closed
    pid,           \* cur.pid, the number the server was given
    num,           \* children still to fork
    success_num,   \* children that succeeded; end_num of the third form
    j, ready       \* nofork: the entry to connect next; those to be read

oneProcessVars == <<fd, j, ready>>
dialogueVars == <<state, link, left, pid>>
clientVars == <<client_mode, kid, dialogueVars, num, success_num, oneProcessVars>>

OneProcess == client_mode = "nofork"

\* The lowest descriptor that is free once k has closed its own.
LowestFree(k) == Min((1 .. connect_num) \ {fd[x] : x \in Dialogues \ {k}})

ClientInit ==
    /\ client_mode \in ClientModes
    /\ kid = [k \in Dialogues |-> IF OneProcess THEN "connect" ELSE "unforked"]
    /\ state = [k \in Dialogues |-> 0] /\ link = [k \in Dialogues |-> NoConn]
    /\ left = [k \in Dialogues |-> 0]
    /\ fd = [k \in Dialogues |-> IF OneProcess THEN k ELSE 0]
    /\ pid = [k \in Dialogues |-> 0]
    /\ num = (IF OneProcess THEN 0 ELSE connect_num) /\ success_num = 0
    /\ j = 1 /\ ready = {}
-----------------------------------------------------------------------------
(* The dialogue, the same in the three forms but for how it ends *)

Talking(k) == kid[k] \in {"talk", "string"}
Down(k) == conn[link[k]].down
Refused(k) == Down(k) = << >> /\ conn[link[k]].server = "closed"

\* myconnect() on a new socket; which connection it is tells nothing apart.
Connects(k) ==
    LET free == {c \in Conns : conn[c] = Unused}
        c == Min(free)
    IN  /\ free # {}
        /\ conn' = [conn EXCEPT ![c] = Connected]
        /\ link' = [link EXCEPT ![k] = c]
        /\ kid' = [kid EXCEPT ![k] = "talk"]
        /\ UNCHANGED <<state, left, pid, success_num>>

\* A child exits with 1 or by a signal; the one process empties the entry and
\* opens a new socket, which gets the lowest descriptor.
Fails(k, r) ==
    /\ conn' = [conn EXCEPT ![link[k]] = ClosedByClient(r)]
    /\ link' = [link EXCEPT ![k] = NoConn]
    /\ kid' = [kid EXCEPT ![k] = IF OneProcess THEN "connect" ELSE "failed"]
    /\ fd' = IF OneProcess THEN [fd EXCEPT ![k] = LowestFree(k)] ELSE fd
    /\ state' = [state EXCEPT ![k] = 0] /\ left' = [left EXCEPT ![k] = 0]
    /\ pid' = [pid EXCEPT ![k] = 0]
    /\ UNCHANGED success_num

\* The end of the stream instead of the question expected.
Ends(k) == kid[k] = "talk" /\ Refused(k) /\ Fails(k, conn[link[k]])

\* The question expected is there and is taken, as what read() returns.
Asked(k, s) == kid[k] = "talk" /\ state[k] = s /\ Down(k) = <<s>>
Answered(k) == [conn[link[k]] EXCEPT !.down = << >>]

\* "StuNo", "pid", "TIME": read it, write the reply.  The pid is getpid(), or
\* the descriptor in the one process.
AnswersShort(k) ==
    \E s \in {0, 2, 4} :
        /\ Asked(k, s)
        /\ LET r == Reply(Answered(k), s + 1)
               p == IF OneProcess THEN fd[k] ELSE k
           IN  IF s = 2
               THEN /\ conn' = [conn EXCEPT ![link[k]] = [r EXCEPT !.pid = p]]
                    /\ pid' = [pid EXCEPT ![k] = p]
               ELSE conn' = [conn EXCEPT ![link[k]] = r] /\ UNCHANGED pid
        /\ state' = [state EXCEPT ![k] = s + 2]
        /\ UNCHANGED <<kid, link, left, success_num, fd>>

\* "str<n>" on a blocking socket: write() returns when all of it is taken.
StartsString(k) ==
    /\ client_mode = "block" /\ Asked(k, 6)
    /\ conn' = [conn EXCEPT ![link[k]] = Answered(k)]
    /\ left' = [left EXCEPT ![k] = Units]
    /\ kid' = [kid EXCEPT ![k] = "string"]
    /\ UNCHANGED <<state, link, pid, success_num, fd>>

\* The socket holds one piece; a connection closed by the server ends the write().
WritesPiece(k) ==
    /\ kid[k] = "string"
    /\ IF conn[link[k]].server = "closed" THEN Fails(k, conn[link[k]])
       ELSE /\ conn[link[k]].flight = 0 /\ conn[link[k]].up = << >>
            /\ conn' = [conn EXCEPT ![link[k]] = SendString(@, 1)]
            /\ left' = [left EXCEPT ![k] = @ - 1]
            /\ IF left[k] > 1 THEN UNCHANGED <<kid, state>>
               ELSE kid' = [kid EXCEPT ![k] = "talk"] /\ state' = [state EXCEPT ![k] = 8]
            /\ UNCHANGED <<link, pid, success_num, fd>>

\* "str<n>" on a non-blocking socket, which takes any n pieces; wlen is compared
\* with the length, in the one process with a variable that nothing has set.
SendsString(k, n, accepted) ==
    /\ client_mode # "block" /\ Asked(k, 6)
    /\ client_mode = "fork" => accepted = (n = Units)
    /\ LET r == SendString(Answered(k), n) IN
       IF ~accepted THEN Fails(k, r)
       ELSE /\ conn' = [conn EXCEPT ![link[k]] = r]
            /\ left' = [left EXCEPT ![k] = Units - n]
            /\ state' = [state EXCEPT ![k] = 8]
            /\ UNCHANGED <<kid, link, pid, success_num, fd>>

\* A mutant: the one process closes what has finished.
FinishesAndCloses(k) ==
    /\ Asked(k, 8)
    /\ state' = [state EXCEPT ![k] = 9]
    /\ kid' = [kid EXCEPT ![k] = IF OneProcess THEN "finish" ELSE "ok"]
    /\ conn' = [conn EXCEPT ![link[k]] = ClosedByClient(Answered(k))]
    /\ link' = [link EXCEPT ![k] = NoConn]
    /\ success_num' = IF OneProcess THEN success_num + 1 ELSE success_num
    /\ fd' = [fd EXCEPT ![k] = 0]
    /\ UNCHANGED <<left, pid>>

\* "end": a child closes, writes its file and exits with 0; the one process keeps
\* the connection open.
Finishes(k) ==
    /\ Asked(k, 8)
    /\ state' = [state EXCEPT ![k] = 9]
    /\ IF OneProcess
       THEN /\ kid' = [kid EXCEPT ![k] = "finish"]
            /\ conn' = [conn EXCEPT ![link[k]] = Answered(k)]
            /\ success_num' = success_num + 1
            /\ UNCHANGED link
       ELSE /\ kid' = [kid EXCEPT ![k] = "ok"]
            /\ conn' = [conn EXCEPT ![link[k]] = ClosedByClient(Answered(k))]
            /\ link' = [link EXCEPT ![k] = NoConn]
            /\ UNCHANGED success_num
    /\ UNCHANGED <<left, pid, fd>>

ShortWrite(k) == \E n \in 1 .. Units - 1, a \in BOOLEAN : SendsString(k, n, a)
Rejects(k) == OneProcess /\ SendsString(k, Units, FALSE)

Answers(k) == \/ AnswersShort(k) \/ StartsString(k) \/ SendsString(k, Units, TRUE)
              \/ ShortWrite(k) \/ Rejects(k) \/ Finishes(k) \/ Ends(k)
-----------------------------------------------------------------------------
(* block_process and nonblock_fork_process: the parent *)

\* fork(), and connect() of the child; it fails if it is not done in a second.
Fork(k, fails) ==
    /\ num > 0 /\ kid[k] = "unforked"
    /\ num' = num - 1
    /\ IF fails THEN /\ kid' = [kid EXCEPT ![k] = "failed"]
                     /\ UNCHANGED <<conn, dialogueVars, success_num>>
       ELSE Connects(k)
    /\ UNCHANGED <<client_mode, oneProcessVars>>

\* A mutant: a child that failed is not forked again.
ReapOnce(k) ==
    /\ num = 0 /\ kid[k] \in {"ok", "failed"}
    /\ kid' = [kid EXCEPT ![k] = "counted"]
    /\ success_num' = IF kid[k] = "ok" THEN success_num + 1 ELSE success_num
    /\ UNCHANGED <<conn, client_mode, num, dialogueVars, oneProcessVars>>

\* waitpid() when all are forked; a child that failed is forked again.
Reap(k) ==
    /\ num = 0 /\ kid[k] \in {"ok", "failed"}
    /\ IF kid[k] = "failed"
       THEN num' = num + 1 /\ kid' = [kid EXCEPT ![k] = "unforked"] /\ UNCHANGED success_num
       ELSE success_num' = success_num + 1 /\ kid' = [kid EXCEPT ![k] = "counted"] /\ UNCHANGED num
    /\ UNCHANGED <<conn, client_mode, dialogueVars, oneProcessVars>>

(* and their children *)

ChildTalks(k) ==
    /\ ~OneProcess
    /\ Answers(k) \/ WritesPiece(k)
    /\ UNCHANGED <<client_mode, num, j, ready>>

\* SIGALRM: timeout() exits with 1; without a handler it ends the child.
Alarm(k) ==
    /\ ~OneProcess /\ Talking(k)
    /\ Fails(k, conn[link[k]])
    /\ UNCHANGED <<client_mode, num, j, ready>>
-----------------------------------------------------------------------------
(* nonblock_nofork_process *)

Next_j == IF j = connect_num THEN 1 ELSE j + 1

\* Which entries a select() finds readable, the connection of k being new.
SelectReadable == {k \in Dialogues : kid[k] = "talk" /\ (Down(k) # << >> \/ Refused(k))}

\* A round of the loop over j: entry j connects if it has to, then select().
RoundConnects(fails) ==
    /\ OneProcess /\ ready = {} /\ success_num < connect_num
    /\ IF kid[j] # "connect" THEN ~fails /\ UNCHANGED <<conn, kid, dialogueVars, success_num>>
       ELSE IF fails THEN UNCHANGED <<conn, kid, dialogueVars, success_num>>
       ELSE Connects(j)
    /\ ready' = SelectReadable
    /\ j' = Next_j
    /\ UNCHANGED <<client_mode, num, fd>>

\* The loop over i: a dialogue that was readable goes one question further.
RoundTalks(k) ==
    /\ OneProcess /\ k \in ready /\ \A x \in ready : k =< x
    /\ Answers(k)
    /\ ready' = ready \ {k}
    /\ UNCHANGED <<client_mode, num, j>>

\* All have finished: exit() closes what is still open.
Exit ==
    /\ OneProcess /\ success_num = connect_num /\ ready = {}
    /\ \E k \in Dialogues : kid[k] = "finish"
    /\ conn' = [c \in Conns |-> IF \E k \in Dialogues : link[k] = c
                                THEN ClosedByClient(conn[c]) ELSE conn[c]]
    /\ kid' = [k \in Dialogues |-> "counted"]
    /\ link' = [k \in Dialogues |-> NoConn]
    /\ fd' = [k \in Dialogues |-> 0]
    /\ UNCHANGED <<client_mode, state, left, pid, num, success_num, j, ready>>

OneProcessNext == (\E f \in BOOLEAN : RoundConnects(f)) \/ (\E k \in Dialogues : RoundTalks(k)) \/ Exit
-----------------------------------------------------------------------------
ClientNext ==
    \/ OneProcessNext
    \/ \E k \in Dialogues : \/ Fork(k, FALSE) \/ Fork(k, TRUE) \/ Reap(k)
                            \/ ChildTalks(k) \/ Alarm(k)

=============================================================================
