----------------------------- MODULE TcpStreams -----------------------------
(***************************************************************************)
(* The programs of TcpPrograms at work: servers and clients that run their *)
(* instructions over TCP connections.  A connection holds, in each         *)
(* direction, what was written and not yet read, up to the capacity of the *)
(* buffers on its way; recv() returns any part of it, since the rest may   *)
(* still be on the way.  An end that goes sends FIN, or RST if it leaves   *)
(* data unread; a send() to an end that is gone is answered with RST.      *)
(***************************************************************************)
EXTENDS TcpPrograms, FiniteSets

CONSTANTS
    Servers, Clients,
    Exercises,      \* records: prog, a program per process; cap, of the buffers;
                    \* stops, who may be stopped; claims, and the stream of "flows"
    Lengths         \* what rNum and wNum are on the command lines of sync/06, and how
                    \* long the longest message of a dialogue is

Procs == Servers \union Clients

ASSUME StreamsAssumption ==
    /\ IsFiniteSet(Procs) /\ Servers \intersect Clients = {}
    /\ \A e \in Exercises : e.cap \in Nat \ {0} /\ DOMAIN e.prog \subseteq Procs
    /\ Lengths \subseteq Nat \ {0}

(* The dialogues: a server of sync/01 to sync/03 and any number of its clients. *)
Dialogue(e, s, longest) ==
    /\ s \in DOMAIN e.prog /\ e.prog[s] = SyncServer1(longest)
    /\ \A c \in DOMAIN e.prog \ {s} : c \in Clients /\ e.prog[c] = SyncClient1(s, longest)

(* The pairs of sync/06 but for the first, in which both read first. *)
Alternates(e, s, c) ==
    /\ DOMAIN e.prog = {s, c}
    /\ \E rNum, wNum, r, w \in Lengths :
          <<e.prog[s], e.prog[c]>> \in {<<SyncServer62(rNum, wNum), SyncClient62(s, r, w)>>,
                                       <<SyncServer63(rNum, wNum), SyncClient63(s, r, w)>>,
                                       <<SyncServer64(rNum, wNum), SyncClient64(s, r, w)>>}

(* What is claimed of taking turns is claimed of these; short messages are one unit. *)
ASSUME ClaimsAssumption ==
    \A e \in Exercises :
        /\ "turns" \in e.claims =>
               \E s \in Servers, longest \in Lengths :
                  Dialogue(e, s, longest) /\ ("short" \in e.claims => longest = 1)
        /\ "alternates" \in e.claims => \E s \in Servers, c \in Clients : Alternates(e, s, c)

VARIABLES
    ex,         \* the exercise
    st,         \* "run", "done", "died" (SIGPIPE) or "stopped" (by its user)
    pc,         \* the instruction the process is at
    due,        \* what the blocking call under way still has to move, 0: no call
    inside,     \* the process sleeps in select()
    alarm,      \* alarm() was called
    tab,        \* the connections the program has in its variables, by peer
    channel,    \* of a client and a server: "none", "syn", "queued", "accepted", "refused"
    level,      \* units written by the first and not yet read by the second
    said,       \* the last message of the first to the second was "quit"
    rst         \* RST from the second to the first, see ResetArrives

streamsVars == <<ex, st, pc, due, inside, alarm, tab, channel, level, said, rst>>

Pairs == {pq \in Procs \X Procs : (pq[1] \in Servers) # (pq[2] \in Servers)}

StreamsInit ==
    /\ ex \in Exercises
    /\ st = [p \in Procs |-> IF p \in DOMAIN ex.prog THEN "run" ELSE "absent"]
    /\ pc = [p \in Procs |-> 1]
    /\ due = [p \in Procs |-> 0]
    /\ inside = [p \in Procs |-> FALSE]
    /\ alarm = [p \in Procs |-> FALSE]
    /\ tab = [p \in Procs |-> << >>]
    /\ channel = [cs \in Clients \X Servers |-> "none"]
    /\ level = [pq \in Pairs |-> 0]
    /\ said = [pq \in Pairs |-> FALSE]
    /\ rst = [pq \in Pairs |-> "no"]

-----------------------------------------------------------------------------
Runs(p) == st[p] = "run"
Gone(p) == st[p] \in {"done", "died", "stopped"}
Instr(p) == ex.prog[p][pc[p]]
At(p, op) == Runs(p) /\ pc[p] # Return /\ Instr(p).op = op
Channel(p, q) == IF p \in Clients THEN channel[<<p, q>>] ELSE channel[<<q, p>>]
Joined(p, q) == Channel(p, q) \in {"queued", "accepted"}
Room(p, q) == ex.cap - level[<<p, q>>]
Least(a, b) == IF a < b THEN a ELSE b

(* The listening socket exists from the first instruction on to the end of the process. *)
Listening(s) == Runs(s) /\ pc[s] # 1

(* The socket has an error, or its last error was reported: "pipe" if FIN came before RST. *)
Failed(p, q) == rst[<<p, q>>] \in {"pipe", "reset", "told"}

CanRead(p, q) ==
    \/ Failed(p, q)
    \/ (Joined(p, q) /\ (level[<<q, p>>] > 0 \/ Gone(q)))
CanWrite(p, q) == Failed(p, q) \/ (Joined(p, q) /\ Room(p, q) > 0)

(* The connection instruction r works on, if its entry of the table is filled. *)
Slot(r) == IF r.op = "recv" THEN r.slot ELSE 1
HasPeer(p, r) == Slot(r) \in DOMAIN tab[p]
PeerAt(p, r) == tab[p][Slot(r)]

-----------------------------------------------------------------------------
(***************************************************************************)
(* The process ends: its connections are closed.  Who still sends to it,   *)
(* or waits to be accepted, gets RST, and loses what had not arrived.      *)
(***************************************************************************)
Resets(p) == {q \in Procs : /\ <<p, q>> \in Pairs /\ ~Gone(q)
                            /\ \/ Joined(p, q) /\ level[<<q, p>>] > 0
                               \/ p \in Servers /\ Channel(p, q) = "queued"}

End(p, how) ==
    /\ st' = [st EXCEPT ![p] = how]
    /\ \E lost \in SUBSET Resets(p) :
          level' = [pq \in Pairs |-> IF pq[1] = p /\ pq[2] \in lost THEN 0 ELSE level[pq]]
    /\ rst' = [pq \in Pairs |-> IF /\ pq[2] = p /\ pq[1] \in Resets(p)
                                   /\ rst[pq] \in {"no", "piping"}
                                THEN "resetting" ELSE rst[pq]]
    /\ UNCHANGED <<ex, pc, due, inside, alarm, tab, channel, said>>

(* The program goes to instruction next, or ends. *)
Goto(p, next) ==
    /\ pc' = [pc EXCEPT ![p] = next]
    /\ inside' = [inside EXCEPT ![p] = FALSE]
    /\ UNCHANGED <<ex, st, alarm>>

Finish(p) ==
    /\ Runs(p) /\ pc[p] = Return
    /\ End(p, "done")

(* Its user ends a process; one of ex.stops may be ended. *)
Stop(p) ==
    /\ Runs(p) /\ p \in ex.stops
    /\ \A q \in Procs : st[q] # "stopped"
    /\ End(p, "stopped")

-----------------------------------------------------------------------------
StepListen(s) ==
    /\ At(s, "listen")
    /\ Goto(s, Instr(s).next)
    /\ UNCHANGED <<due, tab, channel, level, said, rst>>

(* A refused connect() ends a program that waits for it and is overlooked by one that does not. *)
StepConnect(c) ==
    /\ At(c, "connect")
    /\ LET r == Instr(c)
           refused == r.how = "block" /\ ~Listening(r.to)
       IN  /\ Goto(c, IF refused THEN Return ELSE r.next)
           /\ tab' = [tab EXCEPT ![c] = Append(@, r.to)]
           /\ channel' = [channel EXCEPT ![<<c, r.to>>] = IF refused THEN "refused"
                                                          ELSE IF r.how = "block" THEN "queued"
                                                          ELSE "syn"]
    /\ UNCHANGED <<due, level, said, rst>>

(* The server's host answers a connect() that was not waited for. *)
Handshake(c, s) ==
    /\ Runs(c) /\ channel[<<c, s>>] = "syn"
    /\ channel' = [channel EXCEPT ![<<c, s>>] = IF Listening(s) THEN "queued" ELSE "refused"]
    /\ rst' = [rst EXCEPT ![<<c, s>>] = IF Listening(s) THEN "no" ELSE "reset"]
    /\ UNCHANGED <<ex, st, pc, due, inside, alarm, tab, level, said>>

Queued(s) == {c \in Clients : channel[<<c, s>>] = "queued"}

(* The variable client holds the last connection; an earlier one stays open. *)
StepAccept(s) ==
    /\ At(s, "accept")
    /\ \E c \in Queued(s) :
          /\ channel' = [channel EXCEPT ![<<c, s>>] = "accepted"]
          /\ tab' = [tab EXCEPT ![s] = <<c>>]
    /\ Goto(s, Instr(s).next)
    /\ UNCHANGED <<due, level, said, rst>>

(* With the table full the connection is accepted, stays open and is in no variable. *)
StepAcceptInto(s) ==
    /\ At(s, "acceptinto")
    /\ \E c \in Queued(s) :
          /\ channel' = [channel EXCEPT ![<<c, s>>] = "accepted"]
          /\ tab' = [tab EXCEPT ![s] = IF Len(@) < Instr(s).n THEN Append(@, c) ELSE @]
    /\ Goto(s, Instr(s).next)
    /\ UNCHANGED <<due, level, said, rst>>

StepAlarm(p) ==
    /\ At(p, "alarm")
    /\ pc' = [pc EXCEPT ![p] = Instr(p).next]
    /\ alarm' = [alarm EXCEPT ![p] = TRUE]
    /\ UNCHANGED <<ex, st, due, inside, tab, channel, level, said, rst>>

-----------------------------------------------------------------------------
Want(p) == IF due[p] = 0 THEN Instr(p).n ELSE due[p]

(* An empty entry of the table is passed over. *)
RecvSkips(p) ==
    /\ At(p, "recv") /\ ~HasPeer(p, Instr(p))
    /\ Goto(p, Instr(p).next)
    /\ UNCHANGED <<due, tab, channel, level, said, rst>>

(* Some of what was sent: all the kernel has, up to the length asked for. *)
RecvTakes(p) ==
    /\ At(p, "recv") /\ HasPeer(p, Instr(p))
    /\ LET r == Instr(p)
           q == PeerAt(p, r)
       IN  \E k \in 1..Least(Want(p), level[<<q, p>>]) :
              LET more  == IF r.how = "all" THEN Want(p) - k ELSE 0
                  quits == said[<<q, p>>] /\ k = 1 /\ level[<<q, p>>] = 1
              IN  /\ level' = [level EXCEPT ![<<q, p>>] = @ - k]
                  /\ due' = [due EXCEPT ![p] = more]
                  /\ Goto(p, IF more # 0 THEN pc[p] ELSE IF quits THEN r.quit ELSE r.next)
    /\ UNCHANGED <<tab, channel, said, rst>>

(* Nothing is left to take: RST is reported as an error once, then, and after FIN, 0. *)
RecvEnds(p) ==
    /\ At(p, "recv") /\ HasPeer(p, Instr(p))
    /\ LET r == Instr(p)
           q == PeerAt(p, r)
           error == rst[<<p, q>>] = "reset"
       IN  /\ level[<<q, p>>] = 0 /\ CanRead(p, q)
           /\ rst' = IF error /\ due[p] = 0 THEN [rst EXCEPT ![<<p, q>>] = "told"] ELSE rst
           /\ Goto(p, IF due[p] # 0 THEN r.next ELSE IF error THEN r.err ELSE r.eof)
    /\ due' = [due EXCEPT ![p] = 0]
    /\ UNCHANGED <<tab, channel, level, said>>

(* A socket that does not block has nothing yet. *)
RecvFindsNothing(p) ==
    /\ At(p, "recv") /\ Instr(p).how = "now"
    /\ ~Failed(p, PeerAt(p, Instr(p)))
    /\ Goto(p, Instr(p).err)
    /\ UNCHANGED <<due, tab, channel, level, said, rst>>

(***************************************************************************)
(* As much as there is room for; a blocking call goes on until all is      *)
(* written.  To an end that is gone the first send() still succeeds.  How  *)
(* much there is to send is up to the user where he types it.              *)
(***************************************************************************)
ToSend(p) == IF Instr(p).typed /\ due[p] = 0 THEN 1..Instr(p).n ELSE {Want(p)}

SendMoves(p) ==
    /\ At(p, "send")
    /\ \E all \in ToSend(p) :
       LET r == Instr(p)
           q == PeerAt(p, r)
           k == Least(all, Room(p, q))
           more == IF r.how = "block" THEN all - k ELSE 0
       IN  /\ Joined(p, q) /\ ~Failed(p, q) /\ k > 0
           /\ level' = IF Gone(q) THEN level ELSE [level EXCEPT ![<<p, q>>] = @ + k]
           /\ rst' = IF Gone(q) /\ rst[<<p, q>>] = "no"
                     THEN [rst EXCEPT ![<<p, q>>] = "piping"] ELSE rst
           /\ due' = [due EXCEPT ![p] = more]
           /\ \E quit \in IF r.typed /\ due[p] = 0 /\ all = 1 THEN BOOLEAN ELSE {FALSE} :
                 /\ said' = [said EXCEPT ![<<p, q>>] = quit]
                 /\ Goto(p, IF more # 0 THEN pc[p] ELSE IF quit THEN r.quit ELSE r.next)
    /\ UNCHANGED <<tab, channel>>

(* A call that has moved something returns that; else an error, or SIGPIPE. *)
SendFails(p) ==
    /\ At(p, "send")
    /\ LET r == Instr(p)
           q == PeerAt(p, r)
       IN  /\ Failed(p, q)
           /\ \/ /\ due[p] # 0
                 /\ Goto(p, r.next)
                 /\ due' = [due EXCEPT ![p] = 0]
                 /\ UNCHANGED <<tab, channel, level, said, rst>>
              \/ /\ due[p] = 0 /\ rst[<<p, q>>] = "reset"
                 /\ \E quit \in IF r.typed THEN BOOLEAN ELSE {FALSE} :
                       Goto(p, IF quit THEN r.quit ELSE r.err)
                 /\ rst' = [rst EXCEPT ![<<p, q>>] = "told"]
                 /\ UNCHANGED <<due, tab, channel, level, said>>
              \/ /\ due[p] = 0 /\ rst[<<p, q>>] \in {"pipe", "told"}
                 /\ End(p, "died")

-----------------------------------------------------------------------------
(* What a call to select() waits for. *)
Ready(p) ==
    LET r == Instr(p)
    IN  CASE r.op = "recv" -> ~HasPeer(p, r) \/ CanRead(p, PeerAt(p, r))
          [] r.op = "send" -> CanWrite(p, PeerAt(p, r))
          [] r.op = "acceptinto" -> Queued(p) # {}
          [] OTHER -> TRUE

(* The process goes to sleep in select(), which matters if a signal can wake it. *)
Sleeps(p) ==
    /\ Runs(p) /\ pc[p] # Return /\ alarm[p] /\ ~inside[p] /\ ~Ready(p)
    /\ inside' = [inside EXCEPT ![p] = TRUE]
    /\ UNCHANGED <<ex, st, pc, due, alarm, tab, channel, level, said, rst>>

Entries(p) == {tab[p][i] : i \in DOMAIN tab[p]}

(* select() returns -1 when the handler has run: the program goes on to its next call. *)
Interrupted(p) ==
    IF inside[p] /\ ~Ready(p) THEN Goto(p, Instr(p).next)
    ELSE UNCHANGED <<ex, st, pc, inside, alarm>>

(***************************************************************************)
(* SIGALRM: senddata() sends a string to every entry of the table, as far  *)
(* as there is room (MSG_DONTWAIT), and calls alarm() again.  SIGPIPE at   *)
(* one entry ends the process; what the entries before it got is left out. *)
(***************************************************************************)
Rings(p) ==
    /\ Runs(p) /\ pc[p] # Return /\ alarm[p]
    /\ IF \E q \in Entries(p) : rst[<<p, q>>] \in {"pipe", "told"}
       THEN End(p, "died")
       ELSE /\ level' = [pq \in Pairs |->
                  IF /\ pq[1] = p /\ pq[2] \in Entries(p) /\ ~Gone(pq[2])
                     /\ Joined(p, pq[2]) /\ ~Failed(p, pq[2]) /\ Room(p, pq[2]) > 0
                  THEN level[pq] + 1 ELSE level[pq]]
            /\ rst' = [pq \in Pairs |->
                  IF pq[1] # p \/ pq[2] \notin Entries(p) THEN rst[pq]
                  ELSE IF rst[pq] = "reset" THEN "told"
                  ELSE IF /\ rst[pq] = "no" /\ Joined(p, pq[2]) /\ Gone(pq[2])
                          /\ Room(p, pq[2]) > 0
                  THEN "piping"
                  ELSE rst[pq]]
            /\ Interrupted(p)
            /\ UNCHANGED <<due, tab, channel, said>>

(* RST arrives. *)
ResetArrives(p, q) ==
    /\ Runs(p) /\ rst[<<p, q>>] \in {"piping", "resetting"}
    /\ rst' = [rst EXCEPT ![<<p, q>>] = IF @ = "piping" THEN "pipe" ELSE "reset"]
    /\ UNCHANGED <<ex, st, pc, due, inside, alarm, tab, channel, level, said>>

-----------------------------------------------------------------------------
Step(p) ==
    \/ StepListen(p)
    \/ StepConnect(p)
    \/ StepAccept(p)
    \/ StepAcceptInto(p)
    \/ StepAlarm(p)
    \/ RecvSkips(p)
    \/ RecvTakes(p)
    \/ RecvEnds(p)
    \/ RecvFindsNothing(p)
    \/ SendMoves(p)
    \/ SendFails(p)
    \/ Sleeps(p)
    \/ Finish(p)

(* Each of these happens a bounded number of times. *)
StreamsNetwork ==
    \/ \E c \in Clients, s \in Servers : Handshake(c, s)
    \/ \E pq \in Pairs : ResetArrives(pq[1], pq[2])

StreamsNext ==
    \/ \E p \in Procs : Step(p) \/ Rings(p) \/ Stop(p)
    \/ StreamsNetwork

StreamsSafety == StreamsInit /\ [][StreamsNext]_streamsVars

(***************************************************************************)
(* The scheduler runs every process, the clock rings and packets arrive.   *)
(* No user has to stop a program.                                          *)
(***************************************************************************)
StreamsSpec ==
    /\ StreamsSafety
    /\ \A p \in Procs : WF_streamsVars(Step(p)) /\ WF_streamsVars(Rings(p))
    /\ WF_streamsVars(StreamsNetwork)

-----------------------------------------------------------------------------
Accepted(p, q) == Channel(p, q) = "accepted"
Both(p, q) == Runs(p) /\ Runs(q) /\ Accepted(p, q)
Claimed(claim) == claim \in ex.claims

(***************************************************************************)
(* A dialogue never stops: one of the two users has to type, or something  *)
(* is on its way to one that waits.  While the messages are short and      *)
(* arrive whole it is exactly one of these: nobody types while the other   *)
(* does or a message is under way.  A client that waits for a server that  *)
(* has gone on to accept() was told "quit" by it.  (The two loops of the   *)
(* programs of sync/01 to sync/03.)                                        *)
(***************************************************************************)
Types(p, q) == At(p, "send") /\ PeerAt(p, Instr(p)) = q
ToMove(p, q) == level[<<p, q>>] + IF Types(p, q) THEN 1 ELSE 0

InTurn ==
    Claimed("turns") =>
        \A c \in Clients, s \in Servers :
            Both(c, s) /\ pc[c] # Return =>
                IF tab[s] = <<c>> /\ ~At(s, "accept")
                THEN LET moves == ToMove(c, s) + ToMove(s, c)
                     IN  moves >= 1 /\ (Claimed("short") => moves = 1)
                ELSE ~Types(c, s) => level[<<s, c>>] > 0 \/ said[<<s, c>>]

(***************************************************************************)
(* Programs that read and write in turn never wait for each other, unless  *)
(* both are in write() with the buffers of both directions full: sync/06   *)
(* but for the first pair of it, in which both read first.                 *)
(***************************************************************************)
Waits(p, q) ==
    \/ At(p, "recv") /\ ~CanRead(p, q)
    \/ At(p, "send") /\ ~CanWrite(p, q)

JamIsWriteWrite ==
    Claimed("alternates") =>
        \A pq \in Pairs :
            LET p == pq[1]
                q == pq[2]
            IN  Both(p, q) /\ Waits(p, q) /\ Waits(q, p)
                    => At(p, "send") /\ At(q, "send") /\ Room(p, q) = 0 /\ Room(q, p) = 0

(***************************************************************************)
(* When one end is gone, by its own end, by a signal or by its user, the   *)
(* other one ends too: it reads 0 and leaves its loop, or it is told by    *)
(* an error or SIGPIPE, also when it was blocked in a call.  (sync/04 to   *)
(* sync/06, async/01 and async/03.)                                        *)
(***************************************************************************)
EndTogether ==
    (Claimed("ends") /\ \E pq \in Pairs : Gone(pq[1]) /\ Accepted(pq[1], pq[2]))
        ~> \A p \in DOMAIN ex.prog : Gone(p)

(***************************************************************************)
(* As long as the reader and the writer of a stream run, with the          *)
(* connection in the reader's table, the stream is read again and again:   *)
(* it does not starve while the reader sleeps in select() for another,     *)
(* since SIGALRM wakes it.  (sync/05 and async/02 to async/05.)            *)
(***************************************************************************)
Gets(p, q) ==
    /\ At(p, "recv") /\ HasPeer(p, Instr(p)) /\ PeerAt(p, Instr(p)) = q
    /\ level'[<<q, p>>] < level[<<q, p>>]

Flows ==
    LET p == ex.stream[2]
        q == ex.stream[1]
    IN  <>[](Claimed("flows") /\ Both(p, q) /\ q \in Entries(p)) => []<><<Gets(p, q)>>_streamsVars
=============================================================================
