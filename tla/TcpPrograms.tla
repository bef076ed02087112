---------------------------- MODULE TcpPrograms ----------------------------
(***************************************************************************)
(* The programs of linux-socket-tcp-sync (Sync...) and                     *)
(* linux-socket-tcp-async (Async...), one definition per source file, as   *)
(* sequences of the calls they make on their sockets.  An instruction      *)
(* names the instructions that follow it: next, and where the program      *)
(* looks at the result, eof (0) and err (-1).  Printing, sleep() and       *)
(* getchar() only take time and are left out.                              *)
(*                                                                         *)
(* Amounts are in units: the greatest amount that divides what the program *)
(* and its counterpart send (2 bytes in sync/04, 26 in sync/05, 10 in      *)
(* async/02, 20 in async/04, a string in either direction of async/03 and  *)
(* async/05).  In a dialogue a message of up to 200 bytes, what the        *)
(* client's recv() takes at most, is one unit, and a longer one several.   *)
(***************************************************************************)
EXTENDS Naturals, Sequences

Return == 0

(* socket, bind and listen. *)
Listen(next) == [op |-> "listen", next |-> next]

(* accept(); where the listening socket does not block, after select(). *)
AcceptOne(next) == [op |-> "accept", next |-> next]

(* connect() to s: blocking, or not waiting for the outcome. *)
Connect(s, next) == [op |-> "connect", how |-> "block", to |-> s, next |-> next]
ConnectNow(s, next) == [op |-> "connect", how |-> "now", to |-> s, next |-> next]

(***************************************************************************)
(* A recv() of at most n units from entry i of the table: "block", "all"   *)
(* (MSG_WAITALL), "now" (O_NONBLOCK) or "select" (select(), then "now").   *)
(***************************************************************************)
RecvOf(i, n, how, next, eof, err) ==
    [op |-> "recv", slot |-> i, n |-> n, how |-> how, next |-> next, eof |-> eof, err |-> err,
     quit |-> next]
Recv(n, how, next, eof, err) == RecvOf(1, n, how, next, eof, err)

(* A send() of n units, blocking or after select(). *)
Send(n, how, next, err) ==
    [op |-> "send", n |-> n, how |-> how, next |-> next, err |-> err, typed |-> FALSE,
     quit |-> next]

(* At most n units are received, or up to n are typed and sent; "quit" is one unit. *)
Hear(n, next, quit, err) == [Recv(n, "block", next, next, err) EXCEPT !.quit = quit]
Tell(n, next, quit) == [Send(n, "block", next, next) EXCEPT !.typed = TRUE, !.quit = quit]

(* signal() and alarm() of a handler that sends a string to every entry of the table. *)
SetAlarm(next) == [op |-> "alarm", next |-> next]

(* select() on the listening socket, accept(), and a free entry of the table of MAX. *)
AcceptInto(MAX, next) == [op |-> "acceptinto", n |-> MAX, next |-> next]

-----------------------------------------------------------------------------
(* Dialogues that end with "quit": the server hears first, the client does *)
(* not look for "quit" in what it hears.  The server receives 1024 bytes;  *)
(* the client 200, which is one unit or several short ones together.  The  *)
(* users type at most longest units.                                       *)

(* Mutant: the server types first. *)
SyncServer1SaysFirst(longest) ==
    << Listen(2), AcceptOne(4), Hear(6, 4, 2, 3), Tell(longest, 3, 2) >>

SyncServer1(longest) == << Listen(2), AcceptOne(3), Hear(6, 4, 2, 3), Tell(longest, 3, 2) >>
SyncClient1(s, longest) == << Connect(s, 2), Tell(longest, 3, Return), Hear(6, 2, 2, 2) >>
SyncServer2(longest) == SyncServer1(longest)
SyncClient2(s, longest) == SyncClient1(s, longest)
SyncServer3(longest) == SyncServer1(longest)
SyncClient3(s, longest) == SyncClient1(s, longest)

(* sync/04: sizeof(buf) is the size of a pointer, so 8 of 26 bytes are sent. *)
SyncServer41 == << Listen(2), AcceptOne(3), Recv(10, "block", Return, Return, Return) >>
SyncServer42 == << Listen(2), AcceptOne(3), Recv(10, "all", Return, Return, Return) >>
SyncClient411(s) == << Connect(s, 2), Send(4, "block", Return, Return) >>
SyncClient412(s) == << Connect(s, 2), Send(1, "block", 2, 2) >>
SyncClient421(s) == << Connect(s, 2), Send(4, "block", Return, Return) >>
SyncClient422(s) == << Connect(s, 2), Send(1, "block", 2, 2) >>

(* sync/05: one side only writes, the other only reads. *)
(* Mutant: 0 is not taken for the end. *)
SyncServer51Reads0 == << Listen(2), AcceptOne(3), Recv(157, "block", 3, 3, Return) >>

SyncServer51 == << Listen(2), AcceptOne(3), Recv(157, "block", 3, Return, Return) >>
SyncClient51(s) == << Connect(s, 2), Send(1, "block", 2, Return) >>
SyncServer52 == << Listen(2), AcceptOne(3), Send(1, "block", 3, Return) >>
SyncClient52(s) == << Connect(s, 2), Recv(157, "block", 2, Return, Return) >>
SyncServer53 == << Listen(2), AcceptOne(3), Recv(157, "block", 3, Return, Return) >>
SyncClient53(s) == << Connect(s, 2), Send(1, "block", 2, Return) >>

(* sync/06: both sides read at most rNum and write wNum units in turn; 0 is not the end. *)
ReadThenWrite(i, rNum, wNum) ==
    << Recv(rNum, "block", i + 1, i + 1, Return), Send(wNum, "block", i, Return) >>
WriteThenRead(i, rNum, wNum) ==
    << Send(wNum, "block", i + 1, Return), Recv(rNum, "block", i, i, Return) >>

(* Mutant: the server of the third pair reads first, as its client does. *)
SyncServer63ReadsFirst(rNum, wNum) == << Listen(2), AcceptOne(3) >> \o ReadThenWrite(3, rNum, wNum)

SyncServer61(rNum, wNum) == << Listen(2), AcceptOne(3) >> \o ReadThenWrite(3, rNum, wNum)
SyncClient61(s, rNum, wNum) == << Connect(s, 2) >> \o ReadThenWrite(2, rNum, wNum)
SyncServer62(rNum, wNum) == << Listen(2), AcceptOne(3) >> \o WriteThenRead(3, rNum, wNum)
SyncClient62(s, rNum, wNum) == << Connect(s, 2) >> \o WriteThenRead(2, rNum, wNum)
SyncServer63(rNum, wNum) == << Listen(2), AcceptOne(3) >> \o WriteThenRead(3, rNum, wNum)
SyncClient63(s, rNum, wNum) == << Connect(s, 2) >> \o ReadThenWrite(2, rNum, wNum)
SyncServer64(rNum, wNum) == << Listen(2), AcceptOne(3) >> \o ReadThenWrite(3, rNum, wNum)
SyncClient64(s, rNum, wNum) == << Connect(s, 2) >> \o WriteThenRead(2, rNum, wNum)

-----------------------------------------------------------------------------
(***************************************************************************)
(* linux-socket-tcp-async.  No program looks at the result of a recv() or  *)
(* send(), so all three successors are the same.  select() before          *)
(* connect() on a socket that was never connected returns at once.         *)
(***************************************************************************)
Look(n, how, next) == Recv(n, how, next, next, next)

AsyncServer11 == << Listen(2), AcceptOne(3), Look(1, "now", Return) >>
AsyncClient11(s) == << Connect(s, 2), Look(1, "now", Return) >>
AsyncServer12 == << Listen(2), AcceptOne(3), Look(1, "select", Return) >>
AsyncClient12(s) == << Connect(s, 2), Look(1, "select", Return) >>
AsyncServer13 == << Listen(2), AcceptOne(3), Look(1, "select", Return) >>
AsyncClient13(s) == << ConnectNow(s, 2), Look(1, "select", Return) >>

(* async/02: strings of 10 bytes, recv() of 100. *)
AsyncServer21 == << Listen(2), AcceptOne(3), Look(10, "select", 3) >>
AsyncClient21(s) == << ConnectNow(s, 2), Send(1, "select", 2, 2) >>
AsyncServer22 == << Listen(2), AcceptOne(3), Send(1, "select", 3, 3) >>
AsyncClient22(s) == << ConnectNow(s, 2), Look(10, "select", 2) >>

(* async/03: SIGALRM sends; MSG_WAITALL has no effect with O_NONBLOCK. *)
AsyncServer31 == << Listen(2), AcceptOne(3), SetAlarm(4), Look(6, "select", 4) >>
AsyncServer32 == << Listen(2), AcceptOne(3), SetAlarm(4), Look(5, "select", 4) >>
AsyncClient31(s) == << ConnectNow(s, 2), SetAlarm(3), Look(10, "select", 3) >>
AsyncClient32(s) == AsyncClient31(s)

(* async/04: write() of 100 bytes, recv() of 100 or of 20. *)
AsyncServer41 == << Listen(2), AcceptOne(3), Look(5, "select", 3) >>
AsyncServer42 == << Listen(2), AcceptOne(3), Look(1, "select", 3) >>
AsyncClient41(s) == << ConnectNow(s, 2), Send(5, "select", 2, 2) >>
AsyncClient42(s) == AsyncClient41(s)

(***************************************************************************)
(* async/05: a table of connections.  select(..., 0) has no timeout: it    *)
(* blocks until the socket is ready or SIGALRM interrupts it.              *)
(***************************************************************************)
LookAtAll(k, n, first, last) ==
    [i \in 1..k |-> LET next == IF i = k THEN last ELSE first + i
                    IN  RecvOf(i, n, "select", next, next, next)]

(* Mutant: main() does not call alarm(). *)
AsyncServer5NoAlarm(MAX) == << Listen(2), AcceptInto(MAX, 3) >> \o LookAtAll(MAX, 6, 3, 2)

AsyncServer5(MAX) ==
    << Listen(2), SetAlarm(3), AcceptInto(MAX, 4) >> \o LookAtAll(MAX, 6, 4, 3)
AsyncClient51(s) == AsyncClient31(s)
AsyncClient52(ss) ==
    [i \in 1..Len(ss) |-> ConnectNow(ss[i], i + 1)]
       \o << SetAlarm(Len(ss) + 2) >> \o LookAtAll(Len(ss), 10, Len(ss) + 2, Len(ss) + 2)
=============================================================================
