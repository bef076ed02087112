------------------------------ MODULE TcpProofs ------------------------------
(***************************************************************************)
(* Proofs about the TCP exercises.  First client.cpp and server.cpp, for   *)
(* any number of connections, of dialogues and of pieces of the string,    *)
(* and whichever forms of the two meet: the ends keep step, the server     *)
(* never writes to a connection that was reset, a success of the client is *)
(* one of the server and no two of them have the same name.  Then the      *)
(* blocking exercises, for any buffers and lengths of reads and writes: a  *)
(* dialogue has one side to move, and programs that read and write in turn *)
(* only wait for each other with the buffers of both directions full.      *)
(***************************************************************************)
EXTENDS TcpDialogue, TcpStreams, Integers, WellFoundedInduction, FiniteSetTheorems, TLAPS

(* One connection and what the server keeps for it *)

Connection ==
    [client : {"none", "open", "closed"}, server : {"none", "backlog", "open", "closed"},
     down : Seq(0 .. 9), up : Seq(0 .. 9), flight : Nat,
     reset : {"no", "pending", "taken"}, pid : Nat]

TypeOK ==
    /\ conn \in [Conns -> Connection]
    /\ server_mode \in ServerModes /\ client_mode \in ClientModes
    /\ work \in [Conns -> 0 .. 9] /\ sum \in [Conns -> Nat] /\ len \in [Conns -> Nat]
    /\ client \in [Slots -> Conns \cup {NoConn}] /\ rfd \subseteq Slots
    /\ kid \in [Dialogues -> {"connect", "unforked", "talk", "string", "failed", "finish",
                              "ok", "counted"}]
    /\ state \in [Dialogues -> {0, 2, 4, 6, 8, 9}]
    /\ link \in [Dialogues -> Conns \cup {NoConn}]
    /\ left \in [Dialogues -> Nat]
    /\ fd \in [Dialogues -> 0 .. connect_num]
    /\ pid \in [Dialogues -> 0 .. connect_num]
    /\ success_num \in Nat /\ j \in Dialogues /\ ready \subseteq Dialogues

\* Nothing is under way.
Idle(r) == r.up = << >> /\ r.flight = 0

\* r is the connection, w, s and n its work, sum and len.
Nothing(r, w, s, n) == r = Unused /\ w = 0 /\ s = 0 /\ n = 0

Closed(r, w, s, n) ==
    /\ r.server = "closed" /\ r.client = "open" /\ r.reset = "no"
    /\ r.down = << >> /\ Idle(r)
    /\ w = 0 /\ s = 0 /\ n = 0

Served(r, w, s, n) ==
    /\ r.server \in {"backlog", "open"} /\ r.client \in {"open", "closed"}
    /\ r.server = "backlog" => w = 0
    /\ w \in {0, 1, 3, 5, 7, 9}
    /\ w = 0 => Idle(r) /\ n = 0 /\ r.down = << >> /\ r.reset = "no"
    /\ w \notin {7, 9} => s = 0
    /\ w \in {1, 3, 5} => r.flight = 0 /\ Len(r.up) =< 1
    /\ w = 7 => n = Units /\ s + Len(r.up) + r.flight =< Units
    /\ w = 9 => Idle(r) /\ s = Units /\ (server_mode # "nofork" => n = Units)
    /\ r.down # << >> => Idle(r) /\ r.client = "open" /\ (w = 7 => s = 0)
    /\ r.reset # "no" => Idle(r) /\ r.client = "closed"

Fine(r, w, s, n) == Nothing(r, w, s, n) \/ Closed(r, w, s, n) \/ Served(r, w, s, n)

ConnInv == \A c \in Conns : Fine(conn[c], work[c], sum[c], len[c])

(* The table of nofork_work *)

TableInv ==
    /\ \A i \in InTable : conn[client[i]].server = "open"
    /\ \A i1, i2 \in InTable : client[i1] = client[i2] => i1 = i2
    /\ rfd \subseteq InTable
    /\ server_mode # "nofork" => InTable = {}

(* The dialogues *)

Linked(k) == kid[k] \in {"talk", "string", "finish"}

LinkInv ==
    /\ \A k \in Dialogues :
          IF Linked(k) THEN link[k] \in Conns /\ conn[link[k]].client = "open"
          ELSE link[k] = NoConn
    /\ \A k1, k2 \in Dialogues : Linked(k1) /\ link[k1] = link[k2] => k1 = k2

\* The number a dialogue gives.
NameOf(k) == IF OneProcess THEN fd[k] ELSE k

\* Dialogue state s of a child or entry in phase kd, with l pieces left, over r.
Steps(r, w, s, kd, at, l) ==
    \/ r.server = "closed" /\ kd # "finish"
    \/ w = 0 /\ at = 0 /\ kd = "talk" /\ r.down = << >> /\ Idle(r)
    \/ w = at + 1 /\ kd = "talk" /\ r.down = <<at>> /\ Idle(r)
    \/ w = at - 1 /\ w < 7 /\ kd = "talk" /\ r.down = << >> /\ r.up = <<w>> /\ r.flight = 0
    \/ /\ w = 7 /\ r.down = << >> /\ l + r.flight + Len(r.up) + s = Units
       /\ \/ at = 8 /\ kd = "talk"
          \/ at = 6 /\ kd = "string" /\ l > 0
    \/ w = 9 /\ at = 9 /\ kd = "finish" /\ r.down = << >>

DialogueInv ==
    \A k \in Dialogues :
        IF Linked(k)
        THEN /\ Steps(conn[link[k]], work[link[k]], sum[link[k]], kid[k], state[k], left[k])
             /\ conn[link[k]].pid = pid[k]
             /\ pid[k] = IF state[k] < 4 THEN 0 ELSE NameOf(k)
        ELSE kid[k] \in {"connect", "unforked", "failed"} => state[k] = 0 /\ pid[k] = 0

\* Which phases there are in each form.
PhaseInv ==
    \/ OneProcess /\ \A k \in Dialogues : kid[k] \in {"connect", "talk", "finish"}
    \/ OneProcess /\ \A k \in Dialogues : kid[k] = "counted"
    \/ ~OneProcess /\ \A k \in Dialogues : kid[k] \notin {"connect", "finish"}

NamesInv ==
    /\ OneProcess /\ kid[j] # "counted" =>
          /\ \A k \in Dialogues : fd[k] # 0
          /\ \A k1, k2 \in Dialogues : fd[k1] = fd[k2] => k1 = k2
          /\ success_num = Cardinality({k \in Dialogues : kid[k] = "finish"})
    /\ ~OneProcess => \A k \in Dialogues : kid[k] \in {"ok", "counted"} => pid[k] = k
    /\ NamesDistinct

\* The server has all of what a client that has left wants written.
Complete(c, p) ==
    /\ conn[c].pid = p /\ conn[c].client = "closed" /\ conn[c].reset = "no"
    /\ work[c] = 9

FilesInv ==
    \A k \in Dialogues : kid[k] \in {"ok", "counted"} =>
        pid[k] \in files \/ \E c \in Conns : Complete(c, pid[k])

IInv == TypeOK /\ ConnInv /\ TableInv /\ LinkInv /\ DialogueInv /\ PhaseInv /\ NamesInv
        /\ FilesInv
-----------------------------------------------------------------------------
(* The operations on a connection *)

LEMMA Bounds == /\ MaxConns \in Nat \ {0} /\ Units \in Nat \ {0}
                /\ connect_num \in Nat \ {0} /\ NoConn \notin Conns
  BY ConnectionsAssumption, ClientAssumption DEF Conns, NoConn

LEMMA Empty == << >> \in Seq(0 .. 9) /\ Len(<< >>) = 0
  OBVIOUS

LEMMA UnusedIs ==
    /\ Unused \in Connection /\ Connected \in Connection
    /\ Unused.client = "none" /\ Unused.server = "none" /\ Unused.reset = "no"
    /\ Unused.pid = 0
    /\ Connected.client = "open" /\ Connected.server = "backlog" /\ Connected.reset = "no"
    /\ Connected.down = << >> /\ Connected.up = << >> /\ Connected.flight = 0
    /\ Connected.pid = 0
  BY Empty DEF Unused, Connected, Connection

LEMMA ShortSeq ==
    ASSUME NEW s \in Seq(0 .. 9)
    PROVE  /\ Len(s) \in Nat /\ (Len(s) = 0 <=> s = << >>)
           /\ s # << >> => Tail(s) \in Seq(0 .. 9) /\ Len(Tail(s)) = Len(s) - 1
           /\ s # << >> /\ Len(s) =< 1 => Tail(s) = << >>
<1>1. Len(s) \in Nat /\ (Len(s) = 0 <=> s = << >>)
  OBVIOUS
<1>2. s # << >> => Tail(s) \in Seq(0 .. 9) /\ Len(Tail(s)) = Len(s) - 1
  OBVIOUS
<1>3. \A t \in Seq(0 .. 9) : Len(t) = 0 => t = << >>
  OBVIOUS
<1>4. QED
  BY <1>1, <1>2, <1>3

LEMMA AppendSeq ==
    ASSUME NEW s \in Seq(0 .. 9), NEW m \in 0 .. 9
    PROVE  /\ Append(s, m) \in Seq(0 .. 9)
           /\ Len(Append(s, m)) = Len(s) + 1 /\ Append(s, m) # << >>
           /\ s = << >> => Append(s, m) = <<m>>
<1>1. Append(s, m) \in Seq(0 .. 9) /\ Len(Append(s, m)) = Len(s) + 1
  OBVIOUS
<1>2. Append(s, m) # << >>
  <2>1. Len(Append(s, m)) # 0
    BY <1>1
  <2>2. QED
    BY <2>1, Empty, Zenon
<1>3. s = << >> => Append(s, m) = <<m>>
  OBVIOUS
<1>4. QED
  BY <1>1, <1>2, <1>3

LEMMA SayIs ==
    ASSUME NEW r \in Connection, NEW m \in 0 .. 9, r.down = << >>
    PROVE  LET q == Say(r, m)
           IN  /\ q \in Connection
               /\ q.client = r.client /\ q.server = r.server
               /\ q.up = r.up /\ q.flight = r.flight /\ q.pid = r.pid
               /\ r.client = "closed" => q.reset = "pending" /\ q.down = << >>
               /\ r.client # "closed" => q.reset = r.reset /\ q.down = <<m>>
<1>1. r.down \in Seq(0 .. 9) /\ Append(r.down, m) \in Seq(0 .. 9) /\ Append(r.down, m) = <<m>>
  BY AppendSeq DEF Connection
<1>2. CASE r.client = "closed"
  BY <1>2 DEF Say, Connection
<1>3. CASE r.client # "closed"
  <2>1. Say(r, m) = [r EXCEPT !.down = <<m>>] /\ <<m>> \in Seq(0 .. 9)
    BY <1>1, <1>3 DEF Say
  <2>2. QED
    BY <1>3, <2>1 DEF Connection
<1>4. QED
  BY <1>2, <1>3

\* What the server has read leaves u to be read.
LEMMA ReadIs ==
    ASSUME NEW r \in Connection, NEW u \in Seq(0 .. 9)
    PROVE  LET q == [r EXCEPT !.up = u]
           IN  /\ q \in Connection /\ q.up = u
               /\ q.client = r.client /\ q.server = r.server /\ q.down = r.down
               /\ q.flight = r.flight /\ q.reset = r.reset /\ q.pid = r.pid
  BY DEF Connection

\* The question the client has read is gone.
LEMMA AnsweredIs ==
    ASSUME NEW r \in Connection
    PROVE  LET q == [r EXCEPT !.down = << >>]
           IN  /\ q \in Connection /\ q.down = << >>
               /\ q.client = r.client /\ q.server = r.server /\ q.up = r.up
               /\ q.flight = r.flight /\ q.reset = r.reset /\ q.pid = r.pid
  BY Empty DEF Connection

LEMMA ReplyIs ==
    ASSUME NEW r \in Connection, NEW m \in 0 .. 9
    PROVE  LET q == Reply(r, m)
           IN  /\ q \in Connection /\ q.up = Append(r.up, m)
               /\ q.client = r.client /\ q.server = r.server /\ q.down = r.down
               /\ q.flight = r.flight /\ q.reset = r.reset /\ q.pid = r.pid
<1>1. Append(r.up, m) \in Seq(0 .. 9)
  BY DEF Connection
<1>2. QED
  BY <1>1 DEF Reply, Connection

LEMMA NamedIs ==
    ASSUME NEW r \in Connection, NEW p \in Nat
    PROVE  LET q == [r EXCEPT !.pid = p]
           IN  /\ q \in Connection /\ q.pid = p
               /\ q.client = r.client /\ q.server = r.server /\ q.down = r.down
               /\ q.up = r.up /\ q.flight = r.flight /\ q.reset = r.reset
  BY DEF Connection

LEMMA SendStringIs ==
    ASSUME NEW r \in Connection, NEW n \in Nat
    PROVE  LET q == SendString(r, n)
           IN  /\ q \in Connection /\ q.flight = r.flight + n
               /\ q.client = r.client /\ q.server = r.server /\ q.down = r.down
               /\ q.up = r.up /\ q.reset = r.reset /\ q.pid = r.pid
  BY DEF SendString, Connection

LEMMA ClosedByClientIs ==
    ASSUME NEW r \in Connection
    PROVE  LET q == ClosedByClient(r)
           IN  /\ q \in Connection
               /\ r.server = "closed" => q = Unused
               /\ r.server # "closed" =>
                     /\ q.client = "closed" /\ q.down = << >>
                     /\ q.server = r.server /\ q.up = r.up /\ q.flight = r.flight
                     /\ q.pid = r.pid
                     /\ q.reset = IF r.down = << >> THEN r.reset ELSE "pending"
<1>1. CASE r.server = "closed"
  BY <1>1, UnusedIs DEF ClosedByClient
<1>2. CASE r.server # "closed"
  BY <1>2, Empty DEF ClosedByClient, Connection
<1>3. QED
  BY <1>1, <1>2

LEMMA ClosedByServerIs ==
    ASSUME NEW r \in Connection
    PROVE  LET q == ClosedByServer(r)
           IN  /\ q \in Connection
               /\ r.client = "closed" => q = Unused
               /\ r.client # "closed" =>
                     /\ q.server = "closed" /\ q.up = << >> /\ q.flight = 0
                     /\ q.client = r.client /\ q.down = r.down /\ q.reset = r.reset
                     /\ q.pid = r.pid
<1>1. CASE r.client = "closed"
  BY <1>1, UnusedIs DEF ClosedByServer
<1>2. CASE r.client # "closed"
  BY <1>2, Empty DEF ClosedByServer, Connection
<1>3. QED
  BY <1>1, <1>2

\* A connection nobody uses, one the server has closed, and one it serves.
LEMMA FineCases ==
    ASSUME NEW r \in Connection, NEW w, NEW s, NEW n, Fine(r, w, s, n)
    PROVE  /\ r.server = "none" => Nothing(r, w, s, n)
           /\ r.server = "closed" => Closed(r, w, s, n)
           /\ r.server \in {"backlog", "open"} => Served(r, w, s, n)
           /\ r.client = "open" => r.server # "none"
           /\ r.client = "closed" => r.server \in {"backlog", "open"}
  BY UnusedIs DEF Fine, Nothing, Closed, Served
-----------------------------------------------------------------------------
(* The server and the network *)

\* A step that changes one connection and what the server keeps for it to r, w, s, n.
Moves(c, r, w, s, n) == /\ conn' = [conn EXCEPT ![c] = r] /\ work' = [work EXCEPT ![c] = w]
                        /\ sum' = [sum EXCEPT ![c] = s] /\ len' = [len EXCEPT ![c] = n]

\* What such a step may do: a dialogue over c stays in step, and a complete one is kept
\* or is written.
Allowed(c, r, w, s, n, written) ==
    /\ Fine(r, w, s, n)
    /\ conn[c].client = "open" =>
          /\ r.client = "open" /\ r.pid = conn[c].pid
          /\ \A kd : \A at, l \in Nat :
                Steps(conn[c], work[c], sum[c], kd, at, l) => Steps(r, w, s, kd, at, l)
    /\ \A p : Complete(c, p) =>
          \/ p \in written
          \/ r.pid = p /\ r.client = "closed" /\ r.reset = "no" /\ w = 9

LEMMA ConnTypes ==
    ASSUME TypeOK, ConnInv, NEW c \in Conns
    PROVE  /\ conn[c] \in Connection /\ work[c] \in 0 .. 9 /\ sum[c] \in Nat /\ len[c] \in Nat
           /\ Fine(conn[c], work[c], sum[c], len[c])
           /\ conn[c].down \in Seq(0 .. 9) /\ conn[c].up \in Seq(0 .. 9)
           /\ conn[c].flight \in Nat /\ conn[c].pid \in Nat
           /\ conn[c].server \in {"backlog", "open"}
                 => Served(conn[c], work[c], sum[c], len[c])
<1>1. /\ conn[c] \in Connection /\ work[c] \in 0 .. 9 /\ sum[c] \in Nat /\ len[c] \in Nat
      /\ Fine(conn[c], work[c], sum[c], len[c])
  BY DEF TypeOK, ConnInv
<1>2. conn[c].server \in {"backlog", "open"} => Served(conn[c], work[c], sum[c], len[c])
  BY <1>1, FineCases
<1>3. QED
  BY <1>1, <1>2 DEF Connection

LEMMA GreetIs ==
    ASSUME TypeOK, ConnInv, NEW c \in Conns, conn[c].server = "open", Greet(c)
    PROVE  LET r == Say(conn[c], 0)
           IN  r \in Connection /\ Moves(c, r, 1, sum[c], len[c])
               /\ Allowed(c, r, 1, sum[c], len[c], files')
<1> DEFINE q == conn[c]
           r == Say(q, 0)
<1>1. q \in Connection /\ Served(q, 0, sum[c], len[c]) /\ work[c] = 0 /\ q.server = "open"
  BY ConnTypes DEF Greet
<1>2. q.down = << >> /\ q.up = << >> /\ q.flight = 0 /\ q.reset = "no" /\ sum[c] = 0
  BY <1>1 DEF Served, Idle
<1>3. /\ r \in Connection /\ r.client = q.client /\ r.server = q.server
      /\ r.up = q.up /\ r.flight = q.flight /\ r.pid = q.pid
      /\ q.client = "closed" => r.reset = "pending" /\ r.down = << >>
      /\ q.client # "closed" => r.reset = q.reset /\ r.down = <<0>>
  BY <1>1, <1>2, SayIs
<1>4. Moves(c, r, 1, sum[c], len[c])
  BY DEF Greet, Moves, TypeOK
<1> HIDE DEF q, r
<1>5. Fine(r, 1, sum[c], len[c])
  BY <1>1, <1>2, <1>3, Empty DEF Fine, Served, Idle
<1>6. ASSUME q.client = "open", NEW kd, NEW at \in Nat, NEW l \in Nat,
             Steps(q, 0, sum[c], kd, at, l)
      PROVE  Steps(r, 1, sum[c], kd, at, l)
  BY <1>1, <1>2, <1>3, <1>6, Empty DEF Steps, Idle
<1>7. \A p : ~Complete(c, p)
  BY <1>1 DEF Complete
<1>8. Allowed(c, r, 1, sum[c], len[c], files')
  BY <1>1, <1>3, <1>5, <1>6, <1>7 DEF Allowed, q
<1>9. QED
  BY <1>3, <1>4, <1>8 DEF q, r

LEMMA ReadReplyIs ==
    ASSUME TypeOK, ConnInv, NEW c \in Conns, conn[c].server = "open", ReadReply(c)
    PROVE  \E r \in Connection, w \in 0 .. 9, n \in Nat :
               Moves(c, r, w, sum[c], n) /\ Allowed(c, r, w, sum[c], n, files')
<1> DEFINE q == conn[c]
           e == [q EXCEPT !.up = Tail(q.up)]
           r == Say(e, work[c] + 1)
           w == work[c] + 2
           n == IF work[c] = 5 THEN Units ELSE len[c]
<1>1. /\ q \in Connection /\ Served(q, work[c], sum[c], len[c]) /\ work[c] \in {1, 3, 5}
      /\ q.server = "open" /\ q.up # << >> /\ q.up \in Seq(0 .. 9) /\ q.down \in Seq(0 .. 9)
      /\ len[c] \in Nat
  BY ConnTypes DEF ReadReply
<1>2. /\ q.flight = 0 /\ Len(q.up) =< 1 /\ q.down = << >> /\ q.reset = "no" /\ sum[c] = 0
      /\ q.client \in {"open", "closed"}
  BY <1>1 DEF Served, Idle
<1>3. Tail(q.up) = << >>
  BY <1>1, <1>2, ShortSeq
<1>4. /\ e \in Connection /\ e.up = << >> /\ e.client = q.client /\ e.server = q.server
      /\ e.down = << >> /\ e.flight = 0 /\ e.reset = "no" /\ e.pid = q.pid
  BY <1>1, <1>2, <1>3, ReadIs, Empty
<1> HIDE DEF e
<1>5. /\ r \in Connection /\ r.client = q.client /\ r.server = q.server
      /\ r.up = << >> /\ r.flight = 0 /\ r.pid = q.pid
      /\ q.client = "closed" => r.reset = "pending" /\ r.down = << >>
      /\ q.client # "closed" => r.reset = "no" /\ r.down = <<work[c] + 1>>
  <2>1. work[c] + 1 \in 0 .. 9
    BY <1>1
  <2>2. QED
    BY <1>4, <2>1, SayIs
<1>6. Moves(c, r, w, sum[c], n)
  BY DEF ReadReply, Moves, TypeOK, e
<1>7. w \in {3, 5, 7} /\ n \in Nat /\ (w = 7 => n = Units)
  BY <1>1, Bounds
<1> HIDE DEF q, r, n
<1>8. Fine(r, w, sum[c], n)
  BY <1>1, <1>2, <1>5, <1>7, Empty, Bounds DEF Fine, Served, Idle
<1>9. ASSUME q.client = "open", NEW kd, NEW at \in Nat, NEW l \in Nat,
              Steps(q, work[c], sum[c], kd, at, l)
       PROVE  Steps(r, w, sum[c], kd, at, l)
  <2>1. kd = "talk" /\ work[c] = at - 1
    BY <1>1, <1>2, <1>9 DEF Steps, Idle
  <2>2. w = at + 1 /\ r.down = <<at>>
    BY <1>1, <1>5, <1>9, <2>1
  <2>3. QED
    BY <1>5, <2>1, <2>2 DEF Steps, Idle
<1>10. \A p : ~Complete(c, p)
  BY <1>1 DEF Complete
<1>11. Allowed(c, r, w, sum[c], n, files')
  BY <1>1, <1>5, <1>8, <1>9, <1>10 DEF Allowed, q
<1>12. QED
  BY <1>5, <1>6, <1>7, <1>11

LEMMA ReadStringIs ==
    ASSUME TypeOK, ConnInv, NEW c \in Conns, conn[c].server = "open", ReadString(c),
           server_mode' = server_mode
    PROVE  \E r \in Connection, w \in 0 .. 9, s, n \in Nat :
               Moves(c, r, w, s, n) /\ Allowed(c, r, w, s, n, files')
<1> DEFINE q == conn[c]
           e == [q EXCEPT !.up = << >>]
           r == Say(e, 8)
           s == sum[c] + Len(q.up)
           n == IF server_mode = "nofork" THEN Len(q.up) ELSE len[c]
<1>1. /\ q \in Connection /\ Served(q, 7, sum[c], len[c]) /\ work[c] = 7
      /\ q.server = "open" /\ q.up # << >> /\ q.up \in Seq(0 .. 9)
      /\ q.flight \in Nat /\ sum[c] \in Nat /\ len[c] \in Nat
  BY ConnTypes DEF ReadString
<1>2. /\ q.down = << >> /\ q.reset = "no" /\ len[c] = Units
      /\ sum[c] + Len(q.up) + q.flight =< Units
      /\ q.client \in {"open", "closed"} /\ Len(q.up) \in Nat
  BY <1>1, ShortSeq DEF Served, Idle
<1>3. /\ e \in Connection /\ e.up = << >> /\ e.client = q.client /\ e.server = q.server
      /\ e.down = << >> /\ e.flight = q.flight /\ e.reset = "no" /\ e.pid = q.pid
  BY <1>1, <1>2, ReadIs, Empty
<1> HIDE DEF e
<1>4. \A p : ~Complete(c, p)
  BY <1>1 DEF Complete
<1>5. s \in Nat /\ n \in Nat
  BY <1>1, <1>2
<1>6. CASE s < len[c]
  <2>1. Moves(c, e, 7, s, len[c])
    BY <1>1, <1>6 DEF ReadString, Moves, TypeOK, e
  <2> HIDE DEF q
  <2>2. Fine(e, 7, s, len[c])
    BY <1>1, <1>2, <1>3, <1>6, Empty DEF Fine, Served, Idle
  <2>3. ASSUME q.client = "open", NEW kd, NEW at \in Nat, NEW l \in Nat,
               Steps(q, 7, sum[c], kd, at, l)
        PROVE  Steps(e, 7, s, kd, at, l)
    BY <1>1, <1>2, <1>3, <2>3, Empty DEF Steps, Idle
  <2>4. Allowed(c, e, 7, s, len[c], files')
    BY <1>1, <1>3, <1>4, <2>2, <2>3 DEF Allowed, q
  <2>5. QED
    BY <1>1, <1>3, <1>5, <2>1, <2>4
<1>7. CASE ~(s < len[c])
  <2>1. /\ r \in Connection /\ r.client = q.client /\ r.server = q.server
        /\ r.up = << >> /\ r.flight = q.flight /\ r.pid = q.pid
        /\ q.client = "closed" => r.reset = "pending" /\ r.down = << >>
        /\ q.client # "closed" => r.reset = "no" /\ r.down = <<8>>
    BY <1>3, SayIs
  <2>2. Moves(c, r, 9, s, n)
    BY <1>1, <1>7 DEF ReadString, Moves, TypeOK, e
  <2>3. s = Units /\ q.flight = 0 /\ (server_mode # "nofork" => n = Units)
    <3>1. s >= Units /\ s + q.flight =< Units /\ s \in Nat /\ q.flight \in Nat
      BY <1>1, <1>2, <1>5, <1>7
    <3>2. s = Units /\ q.flight = 0
      BY <3>1, Bounds
    <3>3. QED
      BY <1>2, <3>2
  <2> HIDE DEF q, r, n
  <2>4. Fine(r, 9, s, n)
    BY <1>1, <1>2, <2>1, <2>3 DEF Fine, Served, Idle
  <2>5. ASSUME q.client = "open", NEW kd, NEW at \in Nat, NEW l \in Nat,
               Steps(q, 7, sum[c], kd, at, l)
        PROVE  Steps(r, 9, s, kd, at, l)
    <3>1. l = 0 /\ kd = "talk" /\ at = 8
      BY <1>1, <1>2, <2>3, <2>5 DEF Steps, Idle
    <3>2. QED
      BY <2>1, <2>3, <2>5, <3>1 DEF Steps, Idle
  <2>6. Allowed(c, r, 9, s, n, files')
    BY <1>1, <1>4, <2>1, <2>4, <2>5 DEF Allowed, q
  <2>7. QED
    BY <1>5, <2>1, <2>2, <2>6
<1>8. QED
  BY <1>6, <1>7

LEMMA ReleasedIs ==
    ASSUME TypeOK, NEW c \in Conns, Released(c)
    PROVE  ClosedByServer(conn[c]) \in Connection /\ Moves(c, ClosedByServer(conn[c]), 0, 0, 0)
<1>1. Moves(c, ClosedByServer(conn[c]), 0, 0, 0)
  BY DEF Released, Moves
<1>2. conn[c] \in Connection
  BY DEF TypeOK
<1>3. QED
  BY <1>1, <1>2, ClosedByServerIs

\* The ways in which a connection ends, or is told so.
LEMMA EndIs ==
    ASSUME TypeOK, ConnInv, NEW c \in Conns, conn[c].server = "open",
           ReadEnd(c) \/ ReadTooEarly(c) \/ WriteFile(c) \/ ResetAtEnd(c)
    PROVE  \E r \in Connection, w \in 0 .. 9, s, n \in Nat :
               Moves(c, r, w, s, n) /\ Allowed(c, r, w, s, n, files')
<1> DEFINE q == conn[c]
           r == ClosedByServer(q)
<1>1. /\ q \in Connection /\ Served(q, work[c], sum[c], len[c])
      /\ sum[c] \in Nat /\ len[c] \in Nat /\ work[c] \in 0 .. 9 /\ q.server = "open"
  BY ConnTypes
<1>2. CASE q.client = "closed" /\ Released(c)
  <2>1. r \in Connection /\ Moves(c, r, 0, 0, 0) /\ r = Unused
    BY <1>1, <1>2, ReleasedIs, ClosedByServerIs
  <2>2. \A p : Complete(c, p) => p \in files'
    BY <1>2 DEF Complete, ReadEnd, ReadTooEarly, WriteFile, ResetAtEnd
  <2>3. Allowed(c, r, 0, 0, 0, files')
    BY <1>2, <2>1, <2>2 DEF Allowed, Fine, Nothing
  <2>4. QED
    BY <2>1, <2>3
<1>3. CASE q.client = "open" /\ Released(c)
  <2>1. ReadTooEarly(c)
    BY <1>3 DEF ReadEnd, WriteFile, ResetAtEnd, AtEnd
  <2>2. /\ work[c] = 7 /\ sum[c] > 0 /\ q.up = << >> /\ q.down = << >> /\ q.reset = "no"
    BY <1>1, <1>3, <2>1 DEF ReadTooEarly, Served
  <2>3. /\ r \in Connection /\ Moves(c, r, 0, 0, 0)
        /\ r.server = "closed" /\ r.up = << >> /\ r.flight = 0 /\ r.down = << >>
        /\ r.client = "open" /\ r.reset = "no" /\ r.pid = q.pid
    BY <1>1, <1>3, <2>2, ReleasedIs, ClosedByServerIs
  <2> HIDE DEF q, r
  <2>4. Fine(r, 0, 0, 0)
    BY <2>3 DEF Fine, Closed, Idle
  <2>5. ASSUME NEW kd, NEW at \in Nat, NEW l \in Nat, Steps(q, 7, sum[c], kd, at, l)
        PROVE  Steps(r, 0, 0, kd, at, l)
    BY <1>1, <2>3, <2>5 DEF Steps
  <2>6. Allowed(c, r, 0, 0, 0, files')
    BY <2>2, <2>3, <2>4, <2>5 DEF Allowed, Complete, q
  <2>7. 0 \in 0 .. 9 /\ 0 \in Nat
    OBVIOUS
  <2>8. QED
    BY <2>3, <2>6, <2>7, Zenon
<1>4. CASE ResetAtEnd(c) /\ ~Released(c)
  <2> DEFINE t == [q EXCEPT !.reset = "taken"]
  <2>1. /\ work[c] = 9 /\ q.client = "closed" /\ q.reset = "pending"
        /\ Moves(c, t, 9, sum[c], len[c])
    BY <1>4 DEF ResetAtEnd, AtEnd, Moves, TypeOK
  <2>2. /\ t \in Connection /\ t.client = q.client /\ t.server = q.server /\ t.down = q.down
        /\ t.up = q.up /\ t.flight = q.flight
    BY <1>1 DEF Connection
  <2> HIDE DEF t, q
  <2>3. Fine(t, 9, sum[c], len[c])
    BY <1>1, <2>1, <2>2 DEF Fine, Served, Idle
  <2>4. Allowed(c, t, 9, sum[c], len[c], files')
    BY <2>1, <2>3 DEF Allowed, Complete, q
  <2>5. QED
    BY <1>1, <2>1, <2>2, <2>4
<1>5. q.client \in {"open", "closed"}
  BY <1>1 DEF Served
<1>6. QED
  BY <1>2, <1>3, <1>4, <1>5 DEF ReadEnd, ReadTooEarly, WriteFile

LEMMA IterationIs ==
    ASSUME TypeOK, ConnInv, NEW c \in Conns, conn[c].server = "open", Iteration(c),
           server_mode' = server_mode
    PROVE  \E r \in Connection, w \in 0 .. 9, s, n \in Nat :
               Moves(c, r, w, s, n) /\ Allowed(c, r, w, s, n, files')
<1>1. /\ conn[c] \in Connection /\ sum[c] \in Nat /\ len[c] \in Nat
  BY ConnTypes
<1>2. CASE Greet(c)
  BY <1>1, <1>2, GreetIs
<1>3. CASE ReadReply(c)
  BY <1>1, <1>3, ReadReplyIs
<1>4. CASE ReadString(c)
  BY <1>4, ReadStringIs
<1>5. CASE ReadEnd(c) \/ ReadTooEarly(c) \/ WriteFile(c) \/ ResetAtEnd(c)
  BY <1>5, EndIs
<1>6. QED
  BY <1>2, <1>3, <1>4, <1>5 DEF Iteration

LEMMA ArriveIs ==
    ASSUME TypeOK, ConnInv, NEW c \in Conns, Arrive(c), UNCHANGED serverVars
    PROVE  \E r \in Connection, w \in 0 .. 9, s, n \in Nat :
               /\ Moves(c, r, w, s, n) /\ Allowed(c, r, w, s, n, files')
               /\ r.server = conn[c].server
<1> DEFINE q == conn[c]
           r == [q EXCEPT !.flight = q.flight - 1, !.up = Append(q.up, String)]
<1>1. /\ q \in Connection /\ Fine(q, work[c], sum[c], len[c])
      /\ sum[c] \in Nat /\ len[c] \in Nat /\ work[c] \in 0 .. 9
      /\ q.up \in Seq(0 .. 9) /\ q.flight \in Nat /\ q.flight > 0
  BY ConnTypes DEF Arrive
<1>2. Served(q, work[c], sum[c], len[c])
  BY <1>1, UnusedIs DEF Fine, Nothing, Closed, Idle, Unused
<1>3. /\ work[c] = 7 /\ q.down = << >> /\ q.reset = "no"
  BY <1>1, <1>2 DEF Served, Idle
<1>4. Append(q.up, String) \in Seq(0 .. 9) /\ Len(Append(q.up, String)) = Len(q.up) + 1
      /\ Len(q.up) \in Nat
  BY <1>1, AppendSeq, ShortSeq DEF String
<1>5. /\ r \in Connection /\ r.client = q.client /\ r.server = q.server /\ r.down = << >>
      /\ Len(r.up) = Len(q.up) + 1 /\ r.flight = q.flight - 1 /\ r.reset = "no" /\ r.pid = q.pid
  <2>1. q.flight - 1 \in Nat
    BY <1>1
  <2>2. QED
    BY <1>1, <1>3, <1>4, <2>1 DEF Connection
<1>6. Moves(c, r, 7, sum[c], len[c])
  BY <1>3 DEF Arrive, Moves, TypeOK, serverVars, childVars
<1> HIDE DEF q, r
<1>7. Fine(r, 7, sum[c], len[c])
  BY <1>1, <1>2, <1>3, <1>4, <1>5, Bounds DEF Fine, Served, Idle
<1>8. ASSUME NEW kd, NEW at \in Nat, NEW l \in Nat, Steps(q, 7, sum[c], kd, at, l)
      PROVE  Steps(r, 7, sum[c], kd, at, l)
  BY <1>1, <1>2, <1>3, <1>4, <1>5, <1>8 DEF Steps, Idle, Served
<1>9. Allowed(c, r, 7, sum[c], len[c], files')
  BY <1>3, <1>5, <1>7, <1>8 DEF Allowed, Complete, q
<1>10. QED
  BY <1>1, <1>5, <1>6, <1>9 DEF q

\* accept(), in a child's parent or in nofork_work.
LEMMA AcceptIs ==
    ASSUME TypeOK, ConnInv, NEW c \in Conns, conn[c].server = "backlog",
           conn' = [conn EXCEPT ![c].server = "open"], UNCHANGED childVars
    PROVE  \E r \in Connection, w \in 0 .. 9, s, n \in Nat :
               Moves(c, r, w, s, n) /\ Allowed(c, r, w, s, n, files') /\ r.server = "open"
<1> DEFINE q == conn[c]
           r == [q EXCEPT !.server = "open"]
<1>1. /\ q \in Connection /\ Served(q, work[c], sum[c], len[c])
      /\ sum[c] \in Nat /\ len[c] \in Nat /\ work[c] = 0
  BY ConnTypes DEF Served
<1>2. /\ r \in Connection /\ r.client = q.client /\ r.server = "open" /\ r.down = q.down
      /\ r.up = q.up /\ r.flight = q.flight /\ r.reset = q.reset /\ r.pid = q.pid
  BY <1>1 DEF Connection
<1>3. Moves(c, r, 0, sum[c], len[c])
  BY <1>1 DEF Moves, TypeOK, childVars
<1> HIDE DEF r
<1>4. q.server = "backlog"
  OBVIOUS
<1> HIDE DEF q
<1>5. Fine(r, 0, sum[c], len[c])
  BY <1>1, <1>2 DEF Fine, Served, Idle
<1>6. ASSUME NEW kd, NEW at \in Nat, NEW l \in Nat, Steps(q, 0, sum[c], kd, at, l)
      PROVE  Steps(r, 0, sum[c], kd, at, l)
  BY <1>2, <1>4, <1>6 DEF Steps, Idle
<1>7. Allowed(c, r, 0, sum[c], len[c], files')
  BY <1>1, <1>2, <1>5, <1>6 DEF Allowed, Complete, q
<1>8. QED
  BY <1>1, <1>2, <1>3, <1>7

-----------------------------------------------------------------------------
(* A step of the server or of the network keeps what is known of the dialogues *)

LEMMA ServerKeeps ==
    ASSUME IInv, NEW c \in Conns, NEW r \in Connection, NEW w \in 0 .. 9, NEW s \in Nat,
           NEW n \in Nat, Moves(c, r, w, s, n), Allowed(c, r, w, s, n, files'),
           files \subseteq files', UNCHANGED <<server_mode, clientVars>>
    PROVE  /\ conn' \in [Conns -> Connection] /\ work' \in [Conns -> 0 .. 9]
           /\ sum' \in [Conns -> Nat] /\ len' \in [Conns -> Nat]
           /\ ConnInv' /\ LinkInv' /\ DialogueInv' /\ PhaseInv' /\ NamesInv' /\ FilesInv'
<1> USE DEF Moves
<1>0. TypeOK /\ ConnInv /\ LinkInv /\ DialogueInv /\ PhaseInv /\ NamesInv /\ FilesInv
  BY DEF IInv
<1>1. /\ conn' \in [Conns -> Connection] /\ work' \in [Conns -> 0 .. 9]
      /\ sum' \in [Conns -> Nat] /\ len' \in [Conns -> Nat]
  BY <1>0 DEF TypeOK
<1>2. /\ conn'[c] = r /\ work'[c] = w /\ sum'[c] = s /\ len'[c] = n
      /\ \A x \in Conns : x # c => /\ conn'[x] = conn[x] /\ work'[x] = work[x]
                                   /\ sum'[x] = sum[x] /\ len'[x] = len[x]
  BY <1>0 DEF TypeOK
<1>3. UNCHANGED <<server_mode, client_mode, kid, state, link, left, pid, success_num, fd, j>>
  BY DEF clientVars, dialogueVars, oneProcessVars
<1> HIDE DEF Moves
<1>4. ConnInv'
  <2>1. ASSUME NEW x \in Conns PROVE Fine(conn'[x], work'[x], sum'[x], len'[x])
    BY <1>0, <1>2 DEF ConnInv, Allowed
  <2>2. QED
    BY <1>3, <2>1 DEF ConnInv, Fine, Nothing, Closed, Served
<1>5. LinkInv'
  <2>1. \A x \in Conns : conn[x].client = "open" => conn'[x].client = "open"
    BY <1>2 DEF Allowed
  <2>2. QED
    BY <1>0, <1>3, <2>1 DEF LinkInv, Linked
<1>6. DialogueInv'
  <2>1. ASSUME NEW k \in Dialogues, Linked(k)
        PROVE  /\ Steps(conn'[link[k]], work'[link[k]], sum'[link[k]], kid[k], state[k], left[k])
               /\ conn'[link[k]].pid = pid[k]
    <3>1. /\ link[k] \in Conns /\ conn[link[k]].client = "open"
          /\ Steps(conn[link[k]], work[link[k]], sum[link[k]], kid[k], state[k], left[k])
          /\ conn[link[k]].pid = pid[k]
      BY <1>0, <2>1 DEF LinkInv, DialogueInv
    <3>2. state[k] \in Nat /\ left[k] \in Nat
      BY <1>0 DEF TypeOK
    <3>3. CASE link[k] = c
      BY <1>2, <3>1, <3>2, <3>3 DEF Allowed
    <3>4. CASE link[k] # c
      BY <1>2, <3>1, <3>4
    <3>5. QED
      BY <3>3, <3>4
  <2>2. \A k \in Dialogues : NameOf(k)' = NameOf(k) /\ Linked(k)' = Linked(k)
    BY <1>3 DEF NameOf, OneProcess, Linked
  <2>3. QED
    BY <1>0, <1>3, <2>1, <2>2 DEF DialogueInv
<1>7. PhaseInv'
  BY <1>0, <1>3 DEF PhaseInv, OneProcess
<1>8. NamesInv'
  BY <1>0, <1>3 DEF NamesInv, OneProcess, NamesDistinct, Succeeded
<1>9. FilesInv'
  <2>1. ASSUME NEW p, NEW x \in Conns, Complete(x, p)
        PROVE  p \in files' \/ \E y \in Conns : Complete(y, p)'
    <3>1. CASE x = c
      BY <1>2, <2>1, <3>1 DEF Allowed, Complete
    <3>2. CASE x # c
      BY <1>2, <2>1, <3>2 DEF Complete
    <3>3. QED
      BY <3>1, <3>2
  <2>2. QED
    BY <1>0, <1>3, <2>1 DEF FilesInv
<1>10. QED
  BY <1>1, <1>4, <1>5, <1>6, <1>7, <1>8, <1>9

\* The table: its connections are those the server has open.
LEMMA TableKeeps ==
    ASSUME TypeOK, TableInv, UNCHANGED <<server_mode, client>>, rfd' \subseteq rfd,
           \A i \in InTable : conn'[client[i]].server = "open"
    PROVE  TableInv'
<1>1. InTable' = InTable /\ \A i \in InTable : client[i] \in Conns
  BY DEF InTable, TypeOK
<1>2. QED
  BY <1>1 DEF TableInv

LEMMA TypeKeeps ==
    ASSUME TypeOK, UNCHANGED <<server_mode, clientVars>>,
           conn' \in [Conns -> Connection], work' \in [Conns -> 0 .. 9],
           sum' \in [Conns -> Nat], len' \in [Conns -> Nat],
           client' \in [Slots -> Conns \cup {NoConn}], rfd' \subseteq Slots
    PROVE  TypeOK'
  BY DEF TypeOK, clientVars, dialogueVars, oneProcessVars

LEMMA IterationWrites ==
    ASSUME NEW c \in Conns, Iteration(c)
    PROVE  files \subseteq files'
  BY DEF Iteration, Greet, ReadReply, ReadString, ReadEnd, ReadTooEarly, WriteFile, ResetAtEnd

LEMMA NetworkKeeps ==
    ASSUME IInv, Network, UNCHANGED clientVars
    PROVE  IInv'
<1>0. TypeOK /\ ConnInv /\ TableInv
  BY DEF IInv
<1>1. PICK c \in Conns : Arrive(c) /\ UNCHANGED serverVars
  BY DEF Network
<1>2. PICK r \in Connection, w \in 0 .. 9, s, n \in Nat :
          Moves(c, r, w, s, n) /\ Allowed(c, r, w, s, n, files') /\ r.server = conn[c].server
  BY <1>0, <1>1, ArriveIs
<1>3. UNCHANGED <<server_mode, files, client, rfd>>
  BY <1>1 DEF serverVars, childVars
<1>4. /\ conn' \in [Conns -> Connection] /\ work' \in [Conns -> 0 .. 9]
      /\ sum' \in [Conns -> Nat] /\ len' \in [Conns -> Nat]
      /\ ConnInv' /\ LinkInv' /\ DialogueInv' /\ PhaseInv' /\ NamesInv' /\ FilesInv'
  BY <1>2, <1>3, ServerKeeps
<1>5. TypeOK'
  BY <1>0, <1>3, <1>4, TypeKeeps DEF TypeOK
<1>6. TableInv'
  <2>1. \A x \in Conns : conn'[x].server = conn[x].server
    BY <1>0, <1>2 DEF Moves, TypeOK
  <2>2. \A i \in InTable : client[i] \in Conns /\ conn[client[i]].server = "open"
    BY <1>0 DEF TableInv, InTable, TypeOK
  <2>3. QED
    BY <1>0, <1>3, <2>1, <2>2, TableKeeps
<1>7. QED
  BY <1>4, <1>5, <1>6 DEF IInv

LEMMA ChildrenKeep ==
    ASSUME IInv, NEW c \in Conns, Accept(c) \/ Child(c), UNCHANGED clientVars
    PROVE  IInv'
<1>0. TypeOK /\ ConnInv /\ TableInv
  BY DEF IInv
<1>1. UNCHANGED <<server_mode, client, rfd>> /\ server_mode # "nofork"
  BY DEF Accept, Child, serverVars
<1>2. /\ files \subseteq files'
      /\ \E r \in Connection, w \in 0 .. 9, s, n \in Nat :
             Moves(c, r, w, s, n) /\ Allowed(c, r, w, s, n, files')
  <2>1. CASE Accept(c)
    BY <1>0, <2>1, AcceptIs DEF Accept, serverVars, childVars
  <2>2. CASE Child(c)
    BY <1>0, <1>1, <2>2, IterationIs, IterationWrites DEF Child
  <2>3. QED
    BY <2>1, <2>2
<1>3. /\ conn' \in [Conns -> Connection] /\ work' \in [Conns -> 0 .. 9]
      /\ sum' \in [Conns -> Nat] /\ len' \in [Conns -> Nat]
      /\ ConnInv' /\ LinkInv' /\ DialogueInv' /\ PhaseInv' /\ NamesInv' /\ FilesInv'
  BY <1>1, <1>2, ServerKeeps
<1>4. TypeOK'
  BY <1>0, <1>1, <1>3, TypeKeeps DEF TypeOK
<1>5. TableInv'
  BY <1>0, <1>1, TableKeeps DEF TableInv
<1>6. QED
  BY <1>3, <1>4, <1>5 DEF IInv

LEMMA RoundKeeps ==
    ASSUME IInv, NEW c \in Conns \cup {NoConn}, Round(c), UNCHANGED clientVars
    PROVE  IInv'
<1> DEFINE waiting == {x \in Conns : conn[x].server = "backlog"}
<1>0. TypeOK /\ ConnInv /\ TableInv /\ LinkInv /\ DialogueInv /\ PhaseInv /\ NamesInv /\ FilesInv
  BY DEF IInv
<1>1. UNCHANGED <<server_mode, childVars>> /\ rfd' \subseteq InTable /\ server_mode = "nofork"
  BY DEF Round
<1>2. CASE waiting = {}
  <2>1. UNCHANGED <<conn, client>>
    BY <1>2 DEF Round
  <2>2. UNCHANGED <<work, sum, len, files>>
    BY <1>1 DEF childVars
  <2>3. TableInv' /\ rfd' \subseteq Slots
    BY <1>0, <1>1, <2>1 DEF TableInv, InTable
  <2>4. TypeOK'
    BY <1>0, <1>1, <2>1, <2>2, <2>3, TypeKeeps DEF TypeOK
  <2>5. ConnInv' /\ LinkInv' /\ DialogueInv' /\ PhaseInv' /\ NamesInv' /\ FilesInv'
    BY <1>0, <1>1, <2>1, <2>2
       DEF clientVars, dialogueVars, oneProcessVars, ConnInv, Fine, Nothing, Closed, Served,
           LinkInv, Linked, DialogueInv, NameOf, OneProcess, PhaseInv, NamesInv, NamesDistinct,
           Succeeded, FilesInv, Complete
  <2>6. QED
    BY <2>3, <2>4, <2>5 DEF IInv
<1>3. CASE waiting # {}
  <2> DEFINE m == Min(Slots \ InTable)
  <2>1. /\ c \in Conns /\ conn[c].server = "backlog"
        /\ conn' = [conn EXCEPT ![c].server = "open"]
        /\ client' = [client EXCEPT ![m] = c]
    BY <1>3 DEF Round
  <2> HIDE DEF m
  <2>2. PICK r \in Connection, w \in 0 .. 9, s, n \in Nat :
            Moves(c, r, w, s, n) /\ Allowed(c, r, w, s, n, files') /\ r.server = "open"
    BY <1>0, <1>1, <2>1, AcceptIs
  <2>3. files' = files
    BY <1>1 DEF childVars
  <2>4. /\ conn' \in [Conns -> Connection] /\ work' \in [Conns -> 0 .. 9]
        /\ sum' \in [Conns -> Nat] /\ len' \in [Conns -> Nat]
        /\ ConnInv' /\ LinkInv' /\ DialogueInv' /\ PhaseInv' /\ NamesInv' /\ FilesInv'
    BY <1>1, <2>1, <2>2, <2>3, ServerKeeps
  <2>5. \A x \in Conns : conn'[x].server = IF x = c THEN "open" ELSE conn[x].server
    BY <1>0, <2>2 DEF Moves, TypeOK
  <2>6. \A i \in Slots : client'[i] = IF i = m THEN c ELSE client[i]
    BY <1>0, <2>1 DEF TypeOK
  <2>7. \A i \in InTable : client[i] \in Conns /\ client[i] # c
    BY <1>0, <2>1 DEF TableInv, InTable, TypeOK
  <2>8. InTable \subseteq InTable' /\ \A i \in InTable' : i # m => i \in InTable
    BY <2>1, <2>6, Bounds DEF InTable
  <2>9. TableInv'
    <3>1. ASSUME NEW i \in InTable' PROVE conn'[client'[i]].server = "open"
      BY <1>0, <2>1, <2>5, <2>6, <2>7, <2>8 DEF TableInv, InTable
    <3>2. ASSUME NEW i1 \in InTable', NEW i2 \in InTable', client'[i1] = client'[i2]
          PROVE  i1 = i2
      BY <1>0, <2>6, <2>7, <2>8, <3>2 DEF TableInv, InTable
    <3>3. QED
      BY <1>1, <2>8, <3>1, <3>2 DEF TableInv
  <2>10. TypeOK'
    <3>1. client' \in [Slots -> Conns \cup {NoConn}] /\ rfd' \subseteq Slots
      BY <1>0, <1>1, <2>1 DEF TypeOK, InTable
    <3>2. QED
      BY <1>0, <1>1, <2>4, <3>1, TypeKeeps
  <2>11. QED
    BY <2>4, <2>9, <2>10 DEF IInv
<1>4. QED
  BY <1>2, <1>3

LEMMA TurnKeeps ==
    ASSUME IInv, NEW i \in Slots, Turn(i), UNCHANGED clientVars
    PROVE  IInv'
<1> DEFINE c == client[i]
<1>0. TypeOK /\ ConnInv /\ TableInv
  BY DEF IInv
<1>1. /\ i \in rfd /\ i \in InTable /\ c \in Conns /\ conn[c].server = "open" /\ Iteration(c)
      /\ server_mode' = server_mode /\ server_mode = "nofork"
  BY <1>0 DEF Turn, TableInv, InTable, TypeOK
<1>2. PICK r \in Connection, w \in 0 .. 9, s, n \in Nat :
          Moves(c, r, w, s, n) /\ Allowed(c, r, w, s, n, files')
  BY <1>0, <1>1, IterationIs
<1>3. /\ conn' \in [Conns -> Connection] /\ work' \in [Conns -> 0 .. 9]
      /\ sum' \in [Conns -> Nat] /\ len' \in [Conns -> Nat]
      /\ ConnInv' /\ LinkInv' /\ DialogueInv' /\ PhaseInv' /\ NamesInv' /\ FilesInv'
  BY <1>1, <1>2, IterationWrites, ServerKeeps
<1>4. /\ rfd' = IF work'[c] = 7 /\ sum'[c] > 0 THEN rfd ELSE rfd \ {i}
      /\ client' = IF conn'[c].server = "open" THEN client ELSE [client EXCEPT ![i] = NoConn]
  BY DEF Turn
<1>5. \A x \in Conns : x # c => conn'[x] = conn[x]
  BY <1>0, <1>2 DEF Moves, TypeOK
<1>6. TypeOK'
  <2>1. client' \in [Slots -> Conns \cup {NoConn}] /\ rfd' \subseteq Slots
    BY <1>0, <1>4 DEF TypeOK
  <2>2. QED
    BY <1>0, <1>1, <1>3, <2>1, TypeKeeps
<1> HIDE DEF c
<1>7. \A x \in InTable : client[x] \in Conns /\ (x # i => client[x] # c)
                         /\ conn[client[x]].server = "open"
  BY <1>0, <1>1 DEF TableInv, InTable, TypeOK, c
<1>8. CASE conn'[c].server = "open"
  <2>1. \A x \in InTable : conn'[client[x]].server = "open"
    BY <1>5, <1>7, <1>8 DEF c
  <2>2. client' = client /\ rfd' \subseteq rfd
    BY <1>4, <1>8
  <2>3. TableInv'
    BY <1>0, <1>1, <2>1, <2>2, TableKeeps
  <2>4. QED
    BY <1>3, <1>6, <2>3 DEF IInv
<1>9. CASE conn'[c].server # "open"
  <2>1. work'[c] # 7
    BY <1>1, <1>3, <1>9 DEF ConnInv, Fine, Nothing, Closed, Served
  <2>2. rfd' = rfd \ {i} /\ client' = [client EXCEPT ![i] = NoConn]
    BY <1>4, <1>9, <2>1
  <2>3. InTable' = InTable \ {i} /\ \A x \in InTable' : client'[x] = client[x]
    BY <1>0, <2>2 DEF InTable, TypeOK
  <2>4. \A x \in InTable' : conn'[client'[x]].server = "open"
    BY <1>5, <1>7, <2>3
  <2>5. TableInv'
    BY <1>0, <1>1, <2>2, <2>3, <2>4 DEF TableInv
  <2>6. QED
    BY <1>3, <1>6, <2>5 DEF IInv
<1>10. QED
  BY <1>8, <1>9

LEMMA ServerStep ==
    ASSUME IInv, Server
    PROVE  IInv'
  BY ChildrenKeep, RoundKeeps, TurnKeeps DEF Server, ServerNext, NoFork

-----------------------------------------------------------------------------
(* Min of FiniteSetsExt, and what is free *)

LEMMA MinIsLeast ==
    ASSUME NEW T \in SUBSET Nat, T # {}
    PROVE  Min(T) \in T
<1> DEFINE R == {ss \in Nat \X Nat : ss[1] < ss[2]}
<1>1. IsWellFoundedOn(R, Nat)
  BY NatLessThanWellFounded DEF OpToRel
<1>2. PICK x \in T : \A y \in T : ~ (<<y, x>> \in R)
  BY <1>1, WFMin
<1>3. \A y \in T : x =< y
  <2>1. TAKE y \in T
  <2>2. <<y, x>> \in Nat \X Nat /\ <<y, x>>[1] = y /\ <<y, x>>[2] = x
    OBVIOUS
  <2>3. ~ (y < x)
    BY <1>2, <2>2
  <2>4. QED
    BY <2>3
<1>4. QED
  BY <1>3 DEF Min

\* The other dialogues cannot have all of the descriptors.
LEMMA LowestFreeIs ==
    ASSUME NEW k \in Dialogues
    PROVE  /\ LowestFree(k) \in 1 .. connect_num
           /\ \A x \in Dialogues : x # k => fd[x] # LowestFree(k)
<1> DEFINE others == Dialogues \ {k}
           used == {fd[x] : x \in others}
           free == (1 .. connect_num) \ used
           holder == [d \in 1 .. connect_num |-> CHOOSE x \in others : fd[x] = d]
<1>1. free # {}
  <2>1. SUFFICES ASSUME free = {} PROVE FALSE
    OBVIOUS
  <2>2. \A d \in 1 .. connect_num : holder[d] \in others /\ fd[holder[d]] = d
    BY <2>1
  <2>3. /\ IsFiniteSet(1 .. connect_num) /\ Cardinality(1 .. connect_num) = connect_num
        /\ IsFiniteSet(others) /\ Cardinality(others) = connect_num - 1
    <3>1. IsFiniteSet(1 .. connect_num) /\ Cardinality(1 .. connect_num) = connect_num
      <4>1. 1 \in Int /\ connect_num \in Int /\ 1 =< connect_num
        BY Bounds
      <4>2. IsFiniteSet(1 .. connect_num) /\ Cardinality(1 .. connect_num) = connect_num - 1 + 1
        BY <4>1, FS_Interval
      <4>3. QED
        BY <4>1, <4>2
    <3>2. IsFiniteSet(others)
      BY <3>1, FS_RemoveElement DEF Dialogues
    <3>3. Cardinality(others) = Cardinality(1 .. connect_num) - 1
      BY <3>1, FS_RemoveElement DEF Dialogues
    <3>4. QED
      BY <3>1, <3>2, <3>3
  <2>4. holder \in [1 .. connect_num -> others]
    BY <2>2
  <2>5. Cardinality(others) < Cardinality(1 .. connect_num)
    BY <2>3, Bounds
  <2> HIDE DEF others, holder
  <2>6. \E d, e \in 1 .. connect_num : d # e /\ holder[d] = holder[e]
    BY <2>3, <2>4, <2>5, FS_PigeonHole
  <2>7. QED
    BY <2>2, <2>6
<1>2. free \in SUBSET Nat
  BY Bounds
<1>3. LowestFree(k) = Min(free)
  BY DEF LowestFree
<1> HIDE DEF free
<1>4. LowestFree(k) \in free
  BY <1>1, <1>2, <1>3, MinIsLeast
<1>5. QED
  BY <1>4 DEF free
-----------------------------------------------------------------------------
(* The client: a step of dialogue k, on connection c *)

\* The dialogue goes to phase kd, state at, with l pieces left, under number p, and its
\* connection to r.
Goes(k, c, r, kd, at, x, l, p) ==
    /\ conn' = [conn EXCEPT ![c] = r]
    /\ kid' = [kid EXCEPT ![k] = kd] /\ state' = [state EXCEPT ![k] = at]
    /\ link' = [link EXCEPT ![k] = x] /\ left' = [left EXCEPT ![k] = l]
    /\ pid' = [pid EXCEPT ![k] = p]

\* Its connection is the one it had, or a new one.
Owns(k, c) == (Linked(k) /\ link[k] = c) \/ conn[c].client = "none"

\* What such a step has to see to.
Keeps(k, c, r, kd, at, x, l, p) ==
    /\ Fine(r, work[c], sum[c], len[c])
    /\ conn[c].server = "open" => r.server = "open"
    /\ IF kd \in {"talk", "string", "finish"}
       THEN /\ x = c /\ r.client = "open" /\ r.pid = p
            /\ Steps(r, work[c], sum[c], kd, at, l)
            /\ p = IF at < 4 THEN 0 ELSE NameOf(k)'
       ELSE /\ x = NoConn
            /\ kd \in {"connect", "unforked", "failed"} => at = 0 /\ p = 0
            /\ kd \in {"ok", "counted"} =>
                  r.pid = p /\ r.client = "closed" /\ r.reset = "no" /\ work[c] = 9

LEMMA ClientKeeps ==
    ASSUME IInv, NEW k \in Dialogues, NEW c \in Conns, NEW r \in Connection,
           NEW kd, NEW at, NEW x, NEW l, NEW p,
           Goes(k, c, r, kd, at, x, l, p), Owns(k, c), Keeps(k, c, r, kd, at, x, l, p),
           \A y \in Dialogues : y # k => fd'[y] = fd[y],
           UNCHANGED <<serverVars, client_mode>>
    PROVE  /\ conn' \in [Conns -> Connection]
           /\ ConnInv' /\ TableInv' /\ LinkInv' /\ DialogueInv' /\ FilesInv'
<1>0. TypeOK /\ ConnInv /\ TableInv /\ LinkInv /\ DialogueInv /\ FilesInv
  BY DEF IInv
<1>1. UNCHANGED <<server_mode, client_mode, work, sum, len, files, client, rfd>>
  BY DEF serverVars, childVars
<1>2. conn' \in [Conns -> Connection]
  BY <1>0 DEF TypeOK, Goes
<1>3. conn'[c] = r /\ \A y \in Conns : y # c => conn'[y] = conn[y]
  BY <1>0 DEF TypeOK, Goes
<1>4. /\ kid'[k] = kd /\ state'[k] = at /\ link'[k] = x /\ left'[k] = l /\ pid'[k] = p
      /\ \A y \in Dialogues : y # k =>
            /\ kid'[y] = kid[y] /\ state'[y] = state[y] /\ link'[y] = link[y]
            /\ left'[y] = left[y] /\ pid'[y] = pid[y] /\ NameOf(y)' = NameOf(y)
            /\ Linked(y)' = Linked(y)
  BY <1>0, <1>1 DEF TypeOK, Goes, NameOf, OneProcess, Linked
<1>5. Linked(k)' = (kd \in {"talk", "string", "finish"})
  BY <1>4 DEF Linked
<1>6. conn[c].client # "closed" /\ \A y \in Dialogues : y # k /\ Linked(y) => link[y] # c
  BY <1>0 DEF Owns, LinkInv
<1>7. ConnInv'
  <2>1. \A y \in Conns : Fine(conn'[y], work[y], sum[y], len[y])
    BY <1>0, <1>3 DEF ConnInv, Keeps
  <2>2. QED
    BY <1>1, <2>1 DEF ConnInv, Fine, Nothing, Closed, Served
<1>8. TableInv'
  <2>1. \A i \in InTable : client[i] \in Conns /\ conn[client[i]].server = "open"
    BY <1>0 DEF TableInv, InTable, TypeOK
  <2>2. \A y \in Conns : conn[y].server = "open" => conn'[y].server = "open"
    BY <1>3 DEF Keeps
  <2>3. QED
    BY <1>0, <1>1, <2>1, <2>2, TableKeeps
<1>9. LinkInv'
  <2>1. ASSUME NEW y \in Dialogues
        PROVE  IF Linked(y)' THEN link'[y] \in Conns /\ conn'[link'[y]].client = "open"
               ELSE link'[y] = NoConn
    <3>1. CASE y = k
      BY <1>3, <1>4, <1>5, <3>1 DEF Keeps
    <3>2. CASE y # k
      <4>1. Linked(y)' = Linked(y) /\ link'[y] = link[y]
        BY <1>4, <3>2
      <4>2. CASE Linked(y)
        <5>1. link[y] \in Conns /\ conn[link[y]].client = "open" /\ link[y] # c
          BY <1>0, <1>6, <3>2, <4>2 DEF LinkInv
        <5>2. QED
          BY <1>3, <4>1, <4>2, <5>1
      <4>3. CASE ~Linked(y)
        BY <1>0, <4>1, <4>3 DEF LinkInv
      <4>4. QED
        BY <4>2, <4>3
    <3>3. QED
      BY <3>1, <3>2
  <2>2. ASSUME NEW y \in Dialogues, NEW z \in Dialogues, Linked(y)', link'[y] = link'[z]
        PROVE  y = z
    <3>1. link'[y] \in Conns /\ Linked(z)'
      BY <2>1, <2>2, Bounds
    <3>2. CASE y = k
      BY <1>4, <1>5, <1>6, <2>2, <3>1, <3>2 DEF Keeps
    <3>3. CASE z = k
      BY <1>4, <1>5, <1>6, <2>2, <3>1, <3>3 DEF Keeps
    <3>4. CASE y # k /\ z # k
      BY <1>0, <1>4, <2>2, <3>4 DEF LinkInv
    <3>5. QED
      BY <3>2, <3>3, <3>4
  <2>3. QED
    BY <2>1, <2>2 DEF LinkInv
<1>10. DialogueInv'
  <2>1. ASSUME NEW y \in Dialogues, Linked(y)'
        PROVE  /\ Steps(conn'[link'[y]], work[link'[y]], sum[link'[y]], kid'[y], state'[y],
                        left'[y])
               /\ conn'[link'[y]].pid = pid'[y]
               /\ pid'[y] = IF state'[y] < 4 THEN 0 ELSE NameOf(y)'
    <3>1. CASE y = k
      BY <1>3, <1>4, <1>5, <2>1, <3>1 DEF Keeps
    <3>2. CASE y # k
      BY <1>0, <1>3, <1>4, <1>6, <2>1, <3>2 DEF DialogueInv, LinkInv
    <3>3. QED
      BY <3>1, <3>2
  <2>2. ASSUME NEW y \in Dialogues, ~Linked(y)', kid'[y] \in {"connect", "unforked", "failed"}
        PROVE  state'[y] = 0 /\ pid'[y] = 0
    BY <1>0, <1>4, <1>5, <2>2 DEF DialogueInv, Keeps
  <2>3. QED
    BY <1>1, <2>1, <2>2 DEF DialogueInv
<1>11. FilesInv'
  <2>1. ASSUME NEW y \in Dialogues, kid'[y] \in {"ok", "counted"}
        PROVE  \/ pid'[y] \in files
               \/ \E z \in Conns : /\ conn'[z].pid = pid'[y] /\ conn'[z].client = "closed"
                                   /\ conn'[z].reset = "no" /\ work[z] = 9
    <3>1. CASE y = k
      BY <1>3, <1>4, <2>1, <3>1 DEF Keeps
    <3>2. CASE y # k
      <4>1. pid[y] \in files \/ \E z \in Conns : Complete(z, pid[y])
        BY <1>0, <1>4, <2>1, <3>2 DEF FilesInv
      <4>2. \A z \in Conns : Complete(z, pid[y]) => z # c
        BY <1>6 DEF Complete
      <4>3. QED
        BY <1>3, <1>4, <3>2, <4>1, <4>2 DEF Complete
    <3>3. QED
      BY <3>1, <3>2
  <2>2. QED
    BY <1>1, <2>1 DEF FilesInv, Complete
<1>12. QED
  BY <1>2, <1>7, <1>8, <1>9, <1>10, <1>11

\* What it has to see to besides: the phases of its form, and its descriptor f.
Phases(k, kd, p, f) ==
    /\ kid[k] \notin {"finish", "ok", "counted"} /\ kd # "counted"
    /\ IF OneProcess
       THEN /\ kd \in {"connect", "talk", "finish"}
            /\ f # 0 /\ \A y \in Dialogues : y # k => fd[y] # f
       ELSE kd \notin {"connect", "finish"} /\ (kd = "ok" => p = k)

LEMMA PhasesKeep ==
    ASSUME IInv, DialogueInv', NEW k \in Dialogues, NEW c, NEW r, NEW kd, NEW at, NEW x, NEW l,
           NEW p, NEW f, Goes(k, c, r, kd, at, x, l, p), Phases(k, kd, p, f),
           fd' = [fd EXCEPT ![k] = f], client_mode' = client_mode, j' \in Dialogues,
           success_num' = IF kd = "finish" THEN success_num + 1 ELSE success_num
    PROVE  PhaseInv' /\ NamesInv'
<1>0. TypeOK /\ PhaseInv /\ NamesInv /\ OneProcess' = OneProcess
  BY DEF IInv, OneProcess
<1>1. /\ kid'[k] = kd /\ pid'[k] = p /\ fd'[k] = f
      /\ \A y \in Dialogues : y # k => kid'[y] = kid[y] /\ pid'[y] = pid[y] /\ fd'[y] = fd[y]
  BY <1>0 DEF TypeOK, Goes
<1>2. CASE ~OneProcess
  <2>1. \A y \in Dialogues : kid'[y] \notin {"connect", "finish"}
    BY <1>0, <1>1, <1>2 DEF PhaseInv, Phases
  <2>2. \A y \in Dialogues : kid'[y] \in {"ok", "counted"} => pid'[y] = y
    BY <1>0, <1>1, <1>2 DEF NamesInv, Phases
  <2>3. NamesDistinct'
    BY <2>1, <2>2 DEF NamesDistinct, Succeeded
  <2>4. QED
    BY <1>0, <1>2, <2>1, <2>2, <2>3 DEF PhaseInv, NamesInv
<1>3. CASE OneProcess
  <2> DEFINE done == {y \in Dialogues : kid[y] = "finish"}
  <2>1. \A y \in Dialogues : kid[y] \in {"connect", "talk", "finish"}
    BY <1>0, <1>3 DEF PhaseInv, Phases
  <2>2. kid[j] # "counted"
    BY <1>0, <2>1 DEF TypeOK
  <2>3. /\ \A y \in Dialogues : fd[y] # 0
        /\ \A y, z \in Dialogues : fd[y] = fd[z] => y = z
        /\ success_num = Cardinality(done)
    BY <1>0, <1>3, <2>2 DEF NamesInv
  <2>4. \A y \in Dialogues : kid'[y] \in {"connect", "talk", "finish"}
    BY <1>1, <1>3, <2>1 DEF Phases
  <2>5. \A y \in Dialogues : fd'[y] # 0
    BY <1>1, <1>3, <2>3 DEF Phases
  <2>6. \A y, z \in Dialogues : fd'[y] = fd'[z] => y = z
    BY <1>1, <1>3, <2>3 DEF Phases
  <2>7. success_num' = Cardinality({y \in Dialogues : kid'[y] = "finish"})
    <3>1. IsFiniteSet(done)
      <4>1. IsFiniteSet(Dialogues)
        BY Bounds, FS_Interval DEF Dialogues
      <4>2. QED
        BY <4>1, FS_Subset
    <3>2. k \notin done
      BY <1>3 DEF Phases
    <3>3. CASE kd = "finish"
      <4>1. {y \in Dialogues : kid'[y] = "finish"} = done \cup {k}
        BY <1>1, <3>3
      <4>2. Cardinality(done \cup {k}) = Cardinality(done) + 1
        BY <3>1, <3>2, FS_AddElement
      <4>3. QED
        BY <2>3, <3>3, <4>1, <4>2
    <3>4. CASE kd # "finish"
      <4>1. {y \in Dialogues : kid'[y] = "finish"} = done
        BY <1>1, <3>2, <3>4
      <4>2. QED
        BY <2>3, <3>4, <4>1
    <3>5. QED
      BY <3>3, <3>4
  <2>8. \A y \in Dialogues : kid'[y] = "finish" => pid'[y] = fd'[y]
    <3>1. TAKE y \in Dialogues
    <3>2. HAVE kid'[y] = "finish"
    <3>3. Linked(y)'
      BY <3>2 DEF Linked
    <3>4. /\ Steps(conn'[link'[y]], work'[link'[y]], sum'[link'[y]], kid'[y], state'[y], left'[y])
          /\ pid'[y] = IF state'[y] < 4 THEN 0 ELSE NameOf(y)'
      BY <3>3 DEF DialogueInv
    <3>5. state'[y] = 9
      BY <3>2, <3>4 DEF Steps
    <3>6. QED
      BY <1>0, <1>3, <3>4, <3>5 DEF NameOf
  <2>9. NamesDistinct'
    BY <2>4, <2>6, <2>8 DEF NamesDistinct, Succeeded
  <2>10. QED
    BY <1>0, <1>3, <2>4, <2>5, <2>6, <2>7, <2>9 DEF PhaseInv, NamesInv
<1>4. QED
  BY <1>2, <1>3

\* What the variables of a dialogue can be.
Values(kd, at, l, p) ==
    /\ kd \in {"connect", "unforked", "talk", "string", "failed", "finish", "ok"}
    /\ at \in {0, 2, 4, 6, 8, 9} /\ l \in Nat /\ p \in 0 .. connect_num

LEMMA DialogueStep ==
    ASSUME IInv, NEW k \in Dialogues, NEW c \in Conns, NEW r \in Connection,
           NEW kd, NEW at, NEW x, NEW l, NEW p, Values(kd, at, l, p),
           NEW f \in 0 .. connect_num,
           Goes(k, c, r, kd, at, x, l, p), Owns(k, c), Keeps(k, c, r, kd, at, x, l, p),
           Phases(k, kd, p, f), fd' = [fd EXCEPT ![k] = f],
           j' \in Dialogues, ready' \subseteq Dialogues, UNCHANGED <<serverVars, client_mode>>,
           success_num' = IF kd = "finish" THEN success_num + 1 ELSE success_num
    PROVE  IInv'
<1>0. TypeOK
  BY DEF IInv
<1>1. \A y \in Dialogues : y # k => fd'[y] = fd[y]
  BY <1>0 DEF TypeOK
<1>2. /\ conn' \in [Conns -> Connection]
      /\ ConnInv' /\ TableInv' /\ LinkInv' /\ DialogueInv' /\ FilesInv'
  BY <1>1, ClientKeeps
<1>3. PhaseInv' /\ NamesInv'
  BY <1>2, PhasesKeep
<1>4. TypeOK'
  <2>1. x \in Conns \cup {NoConn}
    BY DEF Keeps
  <2>2. success_num' \in Nat
    BY <1>0 DEF TypeOK
  <2>3. /\ kid' \in [Dialogues -> {"connect", "unforked", "talk", "string", "failed", "finish",
                                   "ok", "counted"}]
        /\ state' \in [Dialogues -> {0, 2, 4, 6, 8, 9}]
        /\ link' \in [Dialogues -> Conns \cup {NoConn}]
        /\ left' \in [Dialogues -> Nat] /\ fd' \in [Dialogues -> 0 .. connect_num]
        /\ pid' \in [Dialogues -> 0 .. connect_num]
    BY <1>0, <2>1 DEF TypeOK, Goes, Values
  <2>4. QED
    BY <1>0, <1>2, <2>2, <2>3 DEF TypeOK, serverVars, childVars
<1>5. QED
  BY <1>2, <1>3, <1>4 DEF IInv

\* The descriptor of a dialogue that keeps it.
LEMMA SameDescriptor ==
    ASSUME IInv, NEW k \in Dialogues, kid[k] # "counted"
    PROVE  /\ fd[k] \in 0 .. connect_num /\ fd = [fd EXCEPT ![k] = fd[k]]
           /\ OneProcess => fd[k] # 0 /\ \A y \in Dialogues : y # k => fd[y] # fd[k]
<1>1. TypeOK /\ PhaseInv /\ NamesInv
  BY DEF IInv
<1>2. fd[k] \in 0 .. connect_num /\ fd = [fd EXCEPT ![k] = fd[k]]
  BY <1>1 DEF TypeOK
<1>3. ASSUME OneProcess
      PROVE  fd[k] # 0 /\ \A y \in Dialogues : y # k => fd[y] # fd[k]
  <2>1. kid[j] # "counted"
    BY <1>1, <1>3 DEF PhaseInv, TypeOK
  <2>2. QED
    BY <1>1, <1>3, <2>1 DEF NamesInv
<1>4. QED
  BY <1>2, <1>3
-----------------------------------------------------------------------------
(* What the client's actions do *)

LEMMA TalkingIs ==
    ASSUME IInv, NEW k \in Dialogues, Talking(k)
    PROVE  LET c == link[k] q == conn[c]
           IN  /\ Linked(k) /\ c \in Conns /\ q \in Connection /\ q.client = "open"
               /\ q.reset = "no" /\ q.pid = pid[k]
               /\ Fine(q, work[c], sum[c], len[c])
               /\ Steps(q, work[c], sum[c], kid[k], state[k], left[k])
               /\ pid[k] = (IF state[k] < 4 THEN 0 ELSE NameOf(k))
               /\ pid[k] \in 0 .. connect_num /\ left[k] \in Nat
               /\ state[k] \in {0, 2, 4, 6, 8, 9}
               /\ work[c] \in 0 .. 9 /\ sum[c] \in Nat /\ len[c] \in Nat
               /\ q.up \in Seq(0 .. 9) /\ q.flight \in Nat
<1> DEFINE c == link[k]
           q == conn[c]
<1>0. TypeOK /\ ConnInv /\ LinkInv /\ DialogueInv
  BY DEF IInv
<1>1. Linked(k)
  BY DEF Talking, Linked
<1>2. c \in Conns /\ q.client = "open"
  BY <1>0, <1>1 DEF LinkInv
<1>3. /\ Steps(q, work[c], sum[c], kid[k], state[k], left[k]) /\ q.pid = pid[k]
      /\ pid[k] = (IF state[k] < 4 THEN 0 ELSE NameOf(k))
  BY <1>0, <1>1 DEF DialogueInv
<1>4. /\ q \in Connection /\ Fine(q, work[c], sum[c], len[c])
      /\ work[c] \in 0 .. 9 /\ sum[c] \in Nat /\ len[c] \in Nat
      /\ q.up \in Seq(0 .. 9) /\ q.flight \in Nat
  BY <1>0, <1>2, ConnTypes
<1>5. q.reset = "no"
  BY <1>2, <1>4, UnusedIs DEF Fine, Nothing, Closed, Served
<1>6. pid[k] \in 0 .. connect_num /\ left[k] \in Nat /\ state[k] \in {0, 2, 4, 6, 8, 9}
  BY <1>0 DEF TypeOK
<1>7. QED
  BY <1>1, <1>2, <1>3, <1>4, <1>5, <1>6

\* A question is there only when the server waits for the reply to it.
LEMMA AskedIs ==
    ASSUME IInv, NEW k \in Dialogues, NEW s \in {0, 2, 4, 6, 8}, Asked(k, s)
    PROVE  LET c == link[k] q == conn[c] e == Answered(k)
           IN  /\ Talking(k) /\ state[k] = s /\ work[c] = s + 1
               /\ Served(q, s + 1, sum[c], len[c])
               /\ e \in Connection /\ e.down = << >> /\ e.up = << >> /\ e.flight = 0
               /\ e.client = "open" /\ e.server = q.server
               /\ q.server \in {"backlog", "open"}
               /\ e.reset = "no" /\ e.pid = pid[k]
               /\ Served(e, s + 1, sum[c], len[c])
<1> DEFINE c == link[k]
           q == conn[c]
           e == Answered(k)
<1>1. Talking(k) /\ state[k] = s /\ q.down = <<s>> /\ kid[k] = "talk"
  BY DEF Asked, Talking, Down
<1>2. /\ q \in Connection /\ q.client = "open" /\ q.reset = "no" /\ q.pid = pid[k]
      /\ Fine(q, work[c], sum[c], len[c]) /\ Steps(q, work[c], sum[c], "talk", s, left[k])
  BY <1>1, TalkingIs
<1>3. q.down # << >>
  BY <1>1
<1> HIDE DEF q, e
<1>4. q.server # "closed" /\ Served(q, work[c], sum[c], len[c])
  <2>1. ~Nothing(q, work[c], sum[c], len[c])
    BY <1>2, UnusedIs DEF Nothing
  <2>2. ~Closed(q, work[c], sum[c], len[c])
    BY <1>3 DEF Closed
  <2>3. Served(q, work[c], sum[c], len[c])
    BY <1>2, <2>1, <2>2 DEF Fine
  <2>4. QED
    BY <2>3 DEF Served
<1>5. work[c] = s + 1 /\ Idle(q)
  BY <1>2, <1>3, <1>4 DEF Steps
<1>6. /\ e \in Connection /\ e.down = << >>
      /\ e.client = q.client /\ e.server = q.server /\ e.up = q.up
      /\ e.flight = q.flight /\ e.reset = q.reset /\ e.pid = q.pid
  BY <1>2, AnsweredIs DEF Answered, e, q
<1>7. Served(e, s + 1, sum[c], len[c])
  BY <1>2, <1>4, <1>5, <1>6 DEF Served, Idle
<1>8. q.server \in {"backlog", "open"}
  BY <1>4 DEF Served
<1>9. QED
  BY <1>1, <1>2, <1>4, <1>5, <1>6, <1>7, <1>8 DEF Idle, q, e

\* The step keeps the descriptor, the list of entries to connect and the form.
OneStep == /\ j' \in Dialogues /\ ready' \subseteq Dialogues
           /\ UNCHANGED <<serverVars, client_mode>>

LEMMA FailsKeeps ==
    ASSUME IInv, NEW k \in Dialogues, Talking(k), NEW e \in Connection, e.client = "open",
           e.server = conn[link[k]].server, e.reset = "no",
           Fine(e, work[link[k]], sum[link[k]], len[link[k]]), Fails(k, e), OneStep
    PROVE  IInv'
<1> DEFINE c == link[k]
           r == ClosedByClient(e)
           kd == IF OneProcess THEN "connect" ELSE "failed"
           f == IF OneProcess THEN LowestFree(k) ELSE fd[k]
<1>1. Goes(k, c, r, kd, 0, NoConn, 0, 0)
  BY DEF Fails, Goes
<1>2. Owns(k, c) /\ c \in Conns
  BY TalkingIs DEF Owns
<1>3. /\ r \in Connection
      /\ e.server = "closed" => r = Unused
      /\ e.server # "closed" =>
            /\ r.client = "closed" /\ r.down = << >>
            /\ r.server = e.server /\ r.up = e.up /\ r.flight = e.flight
            /\ r.pid = e.pid
            /\ r.reset = IF e.down = << >> THEN e.reset ELSE "pending"
  BY ClosedByClientIs
<1> HIDE DEF r
<1>4. Fine(r, work[c], sum[c], len[c])
  <2>1. CASE e.server = "closed"
    BY <1>3, <2>1, FineCases DEF Fine, Nothing, Closed
  <2>2. CASE e.server # "closed"
    <3>1. Served(e, work[c], sum[c], len[c])
      BY <2>2, UnusedIs DEF Fine, Nothing, Closed
    <3>2. Served(r, work[c], sum[c], len[c])
      BY <1>3, <2>2, <3>1 DEF Served, Idle
    <3>3. QED
      BY <3>2 DEF Fine
  <2>3. QED
    BY <2>1, <2>2
<1>5. Keeps(k, c, r, kd, 0, NoConn, 0, 0)
  BY <1>3, <1>4 DEF Keeps
<1>6. /\ f \in 0 .. connect_num /\ fd' = [fd EXCEPT ![k] = f]
      /\ OneProcess => f # 0 /\ \A y \in Dialogues : y # k => fd[y] # f
  <2>1. CASE OneProcess
    BY <2>1, LowestFreeIs, Bounds DEF Fails
  <2>2. CASE ~OneProcess
    <3>1. kid[k] # "counted"
      BY DEF Talking
    <3>2. fd[k] \in 0 .. connect_num /\ fd = [fd EXCEPT ![k] = fd[k]]
      BY <3>1, SameDescriptor
    <3>3. QED
      BY <2>2, <3>2 DEF Fails
  <2>3. QED
    BY <2>1, <2>2
<1>7. Phases(k, kd, 0, f)
  BY <1>6 DEF Phases, Talking
<1>8. Values(kd, 0, 0, 0)
  BY Bounds DEF Values
<1>9. success_num' = success_num
  BY DEF Fails
<1> HIDE DEF f
<1>10. QED
  BY <1>1, <1>2, <1>3, <1>5, <1>6, <1>7, <1>8, <1>9, DialogueStep DEF OneStep

LEMMA ConnectsKeeps ==
    ASSUME IInv, NEW k \in Dialogues, kid[k] \in {"connect", "unforked"}, Connects(k),
           fd' = fd, OneStep
    PROVE  IInv'
<1> DEFINE free == {x \in Conns : conn[x] = Unused}
           c == Min(free)
<1>0. TypeOK /\ ConnInv /\ DialogueInv /\ LinkInv
  BY DEF IInv
<1>1. c \in Conns /\ conn[c] = Unused
  <2>1. free # {} /\ free \in SUBSET Nat
    BY Bounds DEF Connects, Conns
  <2>2. c \in free
    BY <2>1, MinIsLeast
  <2>3. QED
    BY <2>2
<1>2. state[k] = 0 /\ pid[k] = 0 /\ left[k] \in Nat
  BY <1>0 DEF DialogueInv, Linked, TypeOK
<1>3. Goes(k, c, Connected, "talk", 0, c, left[k], 0)
  BY <1>0, <1>2 DEF Connects, Goes, TypeOK
<1> HIDE DEF c
<1>4. conn[c] \in Connection /\ work[c] = 0 /\ sum[c] = 0 /\ len[c] = 0
  BY <1>0, <1>1, UnusedIs, FineCases DEF ConnInv, Nothing
<1>5. Owns(k, c)
  BY <1>1, UnusedIs DEF Owns
<1>6. Fine(Connected, 0, 0, 0)
  BY UnusedIs DEF Fine, Served, Idle
<1>7. Keeps(k, c, Connected, "talk", 0, c, left[k], 0)
  BY <1>1, <1>4, <1>6, UnusedIs DEF Keeps, Steps, Idle
<1>8. /\ fd[k] \in 0 .. connect_num /\ fd' = [fd EXCEPT ![k] = fd[k]]
      /\ OneProcess => fd[k] # 0 /\ \A y \in Dialogues : y # k => fd[y] # fd[k]
  BY SameDescriptor
<1>9. Phases(k, "talk", 0, fd[k])
  BY <1>8 DEF Phases
<1>10. Values("talk", 0, left[k], 0) /\ success_num' = success_num
  BY <1>2, Bounds DEF Connects, Values
<1>11. QED
  BY <1>1, <1>2, <1>3, <1>5, <1>7, <1>8, <1>9, <1>10, UnusedIs, DialogueStep DEF OneStep

\* A dialogue in phase kd and state at, whose number the server was given as p.
Given(k, kd, at, p) ==
    /\ kd \in {"talk", "string", "finish"}
    /\ kd = "string" => ~OneProcess
    /\ kd = "finish" => OneProcess
    /\ p = IF at < 4 THEN 0 ELSE NameOf(k)

\* A dialogue goes on, over the same connection.
LEMMA TalkOn ==
    ASSUME IInv, NEW k \in Dialogues, Talking(k), NEW r \in Connection,
           NEW kd, NEW at, NEW l, NEW p, Values(kd, at, l, p),
           Goes(k, link[k], r, kd, at, link[k], l, p),
           Fine(r, work[link[k]], sum[link[k]], len[link[k]]),
           r.server = conn[link[k]].server, r.client = "open", r.pid = p,
           Steps(r, work[link[k]], sum[link[k]], kd, at, l),
           Given(k, kd, at, p),
           success_num' = IF kd = "finish" THEN success_num + 1 ELSE success_num,
           fd' = fd, OneStep
    PROVE  IInv'
<1> DEFINE c == link[k]
<1>1. Owns(k, c) /\ c \in Conns
  BY TalkingIs DEF Owns
<1>2. NameOf(k)' = NameOf(k)
  BY DEF NameOf, OneProcess, OneStep
<1>3. Keeps(k, c, r, kd, at, c, l, p)
  BY <1>2 DEF Keeps, Given
<1>4. kid[k] # "counted"
  BY DEF Talking
<1>5. /\ fd[k] \in 0 .. connect_num /\ fd' = [fd EXCEPT ![k] = fd[k]]
      /\ OneProcess => fd[k] # 0 /\ \A y \in Dialogues : y # k => fd[y] # fd[k]
  BY <1>4, SameDescriptor
<1>6. Phases(k, kd, p, fd[k])
  BY <1>5 DEF Phases, Talking, Given
<1>7. QED
  BY <1>1, <1>3, <1>5, <1>6, DialogueStep DEF OneStep

LEMMA AnswersShortKeeps ==
    ASSUME IInv, NEW k \in Dialogues, AnswersShort(k), OneStep
    PROVE  IInv'
<1>0. TypeOK
  BY DEF IInv
<1>1. PICK s \in {0, 2, 4} :
          /\ Asked(k, s)
          /\ LET r == Reply(Answered(k), s + 1)
                 p == IF OneProcess THEN fd[k] ELSE k
             IN  IF s = 2
                 THEN /\ conn' = [conn EXCEPT ![link[k]] = [r EXCEPT !.pid = p]]
                      /\ pid' = [pid EXCEPT ![k] = p]
                 ELSE conn' = [conn EXCEPT ![link[k]] = r] /\ UNCHANGED pid
          /\ state' = [state EXCEPT ![k] = s + 2]
          /\ UNCHANGED <<kid, link, left, success_num, fd>>
  BY DEF AnswersShort
<1> DEFINE c == link[k]
           q == conn[c]
           e == Answered(k)
           g == Reply(e, s + 1)
           p == IF s = 2 THEN NameOf(k) ELSE pid[k]
           r == IF s = 2 THEN [g EXCEPT !.pid = p] ELSE g
<1>2. /\ Talking(k) /\ state[k] = s /\ work[c] = s + 1 /\ kid[k] = "talk"
      /\ e \in Connection /\ e.down = << >> /\ e.up = << >> /\ e.flight = 0
      /\ e.client = "open" /\ e.server = q.server /\ e.reset = "no" /\ e.pid = pid[k]
      /\ Served(e, s + 1, sum[c], len[c])
  BY <1>1, AskedIs DEF Asked
<1>3. /\ c \in Conns /\ left[k] \in Nat /\ pid[k] \in 0 .. connect_num
      /\ pid[k] = IF s < 4 THEN 0 ELSE NameOf(k)
  BY <1>2, TalkingIs
<1>4. p \in 0 .. connect_num /\ p \in Nat
  BY <1>0, <1>3, Bounds DEF TypeOK, NameOf, Dialogues
<1> HIDE DEF e, q
<1>5. /\ g \in Connection /\ g.up = <<s + 1>>
      /\ g.client = e.client /\ g.server = e.server /\ g.down = e.down
      /\ g.flight = e.flight /\ g.reset = e.reset /\ g.pid = e.pid
  <2>1. s + 1 \in 0 .. 9 /\ Append(e.up, s + 1) = <<s + 1>>
    BY <1>2, Empty, AppendSeq
  <2>2. QED
    BY <1>2, <2>1, ReplyIs
<1> HIDE DEF g, p
<1>6. /\ r \in Connection /\ r.up = <<s + 1>> /\ r.client = "open" /\ r.server = q.server
      /\ r.down = << >> /\ r.flight = 0 /\ r.reset = "no" /\ r.pid = p
  <2>1. CASE s = 2
    BY <1>2, <1>4, <1>5, <2>1, NamedIs
  <2>2. CASE s # 2
    BY <1>2, <1>5, <2>2 DEF p
  <2>3. QED
    BY <2>1, <2>2
<1>7. Goes(k, c, r, "talk", s + 2, c, left[k], p)
  <2>1. conn' = [conn EXCEPT ![c] = r] /\ pid' = [pid EXCEPT ![k] = p]
    <3>1. CASE s = 2
      BY <1>1, <3>1 DEF NameOf, e, g, p
    <3>2. CASE s # 2
      BY <1>0, <1>1, <3>2 DEF e, g, p, TypeOK
    <3>3. QED
      BY <3>1, <3>2
  <2>2. /\ kid' = [kid EXCEPT ![k] = "talk"] /\ state' = [state EXCEPT ![k] = s + 2]
        /\ link' = [link EXCEPT ![k] = c] /\ left' = [left EXCEPT ![k] = left[k]]
    BY <1>0, <1>1, <1>2 DEF TypeOK
  <2>3. QED
    BY <2>1, <2>2 DEF Goes
<1> HIDE DEF r
<1>8. Len(r.up) = 1
  BY <1>6
<1>9. Fine(r, s + 1, sum[c], len[c])
  BY <1>2, <1>6, <1>8 DEF Fine, Served, Idle
<1>10. Steps(r, s + 1, sum[c], "talk", s + 2, left[k])
  <2>1. s + 1 = (s + 2) - 1 /\ s + 1 < 7
    OBVIOUS
  <2>2. QED
    BY <1>6, <2>1 DEF Steps
<1>11. Given(k, "talk", s + 2, p)
  BY <1>3 DEF p, Given
<1>12. success_num' = success_num /\ fd' = fd
  BY <1>1
<1>13. Values("talk", s + 2, left[k], p)
  BY <1>3, <1>4 DEF Values
<1>14. QED
  BY <1>2, <1>3, <1>6, <1>7, <1>9, <1>10, <1>11, <1>12, <1>13, TalkOn DEF q, c

LEMMA StartsStringKeeps ==
    ASSUME IInv, NEW k \in Dialogues, StartsString(k), OneStep
    PROVE  IInv'
<1> DEFINE c == link[k]
           e == Answered(k)
<1>0. TypeOK
  BY DEF IInv
<1>1. /\ Asked(k, 6) /\ ~OneProcess /\ fd' = fd /\ success_num' = success_num
  BY DEF StartsString, OneProcess
<1>2. /\ Talking(k) /\ state[k] = 6 /\ work[c] = 7
      /\ e \in Connection /\ e.down = << >> /\ e.up = << >> /\ e.flight = 0
      /\ e.client = "open" /\ e.server = conn[c].server /\ e.pid = pid[k]
      /\ Served(e, 7, sum[c], len[c]) /\ Served(conn[c], 7, sum[c], len[c])
      /\ conn[c].down # << >>
  BY <1>1, AskedIs DEF Asked, Down
<1>3. /\ c \in Conns /\ pid[k] \in 0 .. connect_num /\ pid[k] = NameOf(k)
      /\ sum[c] = 0
  <2>1. c \in Conns /\ pid[k] \in 0 .. connect_num /\ pid[k] = NameOf(k)
    BY <1>2, TalkingIs
  <2> HIDE DEF e, c
  <2>2. sum[c] = 0
    BY <1>2 DEF Served
  <2>3. QED
    BY <2>1, <2>2
<1>4. Goes(k, c, e, "string", 6, c, Units, pid[k])
  BY <1>0, <1>2 DEF StartsString, Goes, TypeOK
<1> HIDE DEF e
<1>5. Fine(e, 7, sum[c], len[c])
  BY <1>2 DEF Fine
<1>6. Steps(e, 7, sum[c], "string", 6, Units)
  <2>1. Units + e.flight + Len(e.up) + sum[c] = Units /\ Units > 0
    BY <1>2, <1>3, Empty, Bounds
  <2>2. QED
    BY <1>2, <2>1 DEF Steps
<1>7. Values("string", 6, Units, pid[k]) /\ Given(k, "string", 6, pid[k])
  BY <1>1, <1>3, Bounds DEF Values, Given
<1>8. QED
  BY <1>1, <1>2, <1>3, <1>4, <1>5, <1>6, <1>7, TalkOn

LEMMA SendsStringKeeps ==
    ASSUME IInv, NEW k \in Dialogues, NEW n \in 0 .. Units, NEW a, SendsString(k, n, a), OneStep
    PROVE  IInv'
<1> DEFINE c == link[k]
           e == Answered(k)
           r == SendString(e, n)
<1>0. TypeOK
  BY DEF IInv
<1>1. Asked(k, 6) /\ n \in Nat /\ Units - n \in Nat
  BY Bounds DEF SendsString
<1>2. /\ Talking(k) /\ state[k] = 6 /\ work[c] = 7 /\ kid[k] = "talk"
      /\ e \in Connection /\ e.down = << >> /\ e.up = << >> /\ e.flight = 0
      /\ e.client = "open" /\ e.server = conn[c].server /\ e.pid = pid[k] /\ e.reset = "no"
      /\ Served(e, 7, sum[c], len[c]) /\ Served(conn[c], 7, sum[c], len[c])
      /\ conn[c].down # << >>
  BY <1>1, AskedIs DEF Asked, Down
<1>3. /\ c \in Conns /\ pid[k] \in 0 .. connect_num /\ pid[k] = NameOf(k)
      /\ sum[c] = 0
  <2>1. c \in Conns /\ pid[k] \in 0 .. connect_num /\ pid[k] = NameOf(k)
    BY <1>2, TalkingIs
  <2> HIDE DEF e, c
  <2>2. sum[c] = 0
    BY <1>2 DEF Served
  <2>3. QED
    BY <2>1, <2>2
<1> HIDE DEF e
<1>4. /\ r \in Connection /\ r.flight = n /\ r.up = << >> /\ r.down = << >>
      /\ r.client = "open" /\ r.server = conn[c].server /\ r.pid = pid[k] /\ r.reset = "no"
  <2>1. 0 + n = n
    BY <1>1
  <2>2. QED
    BY <1>1, <1>2, <2>1, SendStringIs
<1> HIDE DEF r
<1>5. Fine(r, 7, sum[c], len[c])
  <2>1. sum[c] + Len(r.up) + r.flight =< Units
    BY <1>3, <1>4, Empty, Bounds
  <2>2. QED
    BY <1>2, <1>3, <1>4, <2>1 DEF Fine, Served, Idle
<1>6. CASE ~a
  <2>1. Fails(k, r)
    BY <1>6 DEF SendsString, r, e
  <2>2. QED
    BY <1>2, <1>4, <1>5, <2>1, FailsKeeps
<1>7. CASE a
  <2>1. Goes(k, c, r, "talk", 8, c, Units - n, pid[k]) /\ success_num' = success_num /\ fd' = fd
    BY <1>0, <1>2, <1>7 DEF SendsString, Goes, TypeOK, r, e
  <2>2. Steps(r, 7, sum[c], "talk", 8, Units - n)
    <3>1. (Units - n) + r.flight + Len(r.up) + sum[c] = Units
      BY <1>1, <1>3, <1>4, Empty, Bounds
    <3>2. QED
      BY <1>4, <3>1 DEF Steps
  <2>3. Values("talk", 8, Units - n, pid[k]) /\ Given(k, "talk", 8, pid[k])
    BY <1>1, <1>3 DEF Values, Given
  <2>4. QED
    BY <1>2, <1>3, <1>4, <1>5, <2>1, <2>2, <2>3, TalkOn
<1>8. QED
  BY <1>6, <1>7

LEMMA WritesPieceKeeps ==
    ASSUME IInv, NEW k \in Dialogues, WritesPiece(k), OneStep
    PROVE  IInv'
<1> DEFINE c == link[k]
           q == conn[c]
           r == SendString(q, 1)
           kd == IF left[k] > 1 THEN "string" ELSE "talk"
           at == IF left[k] > 1 THEN 6 ELSE 8
<1>0. TypeOK /\ PhaseInv
  BY DEF IInv
<1>1. kid[k] = "string" /\ Talking(k) /\ ~OneProcess
  BY <1>0 DEF WritesPiece, Talking, PhaseInv
<1>2. /\ c \in Conns /\ q \in Connection /\ q.client = "open" /\ q.reset = "no" /\ q.pid = pid[k]
      /\ Fine(q, work[c], sum[c], len[c])
      /\ Steps(q, work[c], sum[c], "string", state[k], left[k])
      /\ pid[k] = (IF state[k] < 4 THEN 0 ELSE NameOf(k))
      /\ pid[k] \in 0 .. connect_num /\ left[k] \in Nat
      /\ work[c] \in 0 .. 9 /\ sum[c] \in Nat /\ len[c] \in Nat
  BY <1>1, TalkingIs
<1>3. CASE q.server = "closed"
  BY <1>1, <1>2, <1>3, FailsKeeps DEF WritesPiece
<1>4. CASE q.server # "closed"
  <2>1. /\ q.flight = 0 /\ q.up = << >>
        /\ conn' = [conn EXCEPT ![c] = SendString(@, 1)]
        /\ left' = [left EXCEPT ![k] = @ - 1]
        /\ IF left[k] > 1 THEN UNCHANGED <<kid, state>>
           ELSE kid' = [kid EXCEPT ![k] = "talk"] /\ state' = [state EXCEPT ![k] = 8]
        /\ UNCHANGED <<link, pid, success_num, fd>>
    BY <1>4 DEF WritesPiece
  <2> HIDE DEF q
  <2>2. /\ work[c] = 7 /\ q.down = << >> /\ state[k] = 6 /\ left[k] > 0
        /\ left[k] + q.flight + Len(q.up) + sum[c] = Units
    BY <1>2, <1>4 DEF Steps
  <2>3. left[k] + sum[c] = Units /\ left[k] - 1 \in Nat
    BY <1>2, <2>1, <2>2, Empty
  <2>4. /\ r \in Connection /\ r.flight = 1 /\ r.up = << >> /\ r.down = << >>
        /\ r.client = "open" /\ r.server = q.server /\ r.pid = pid[k] /\ r.reset = "no"
    <3>1. 1 \in Nat /\ 0 + 1 = 1
      OBVIOUS
    <3>2. QED
      BY <1>2, <2>1, <2>2, <3>1, SendStringIs
  <2>5. Goes(k, c, r, kd, at, c, left[k] - 1, pid[k])
    <3>1. conn' = [conn EXCEPT ![c] = r]
      BY <2>1 DEF q
    <3>2. kid' = [kid EXCEPT ![k] = kd] /\ state' = [state EXCEPT ![k] = at]
      BY <1>0, <1>1, <2>1, <2>2 DEF TypeOK
    <3>3. /\ link' = [link EXCEPT ![k] = c] /\ left' = [left EXCEPT ![k] = left[k] - 1]
          /\ pid' = [pid EXCEPT ![k] = pid[k]]
      BY <1>0, <2>1 DEF TypeOK
    <3>4. QED
      BY <3>1, <3>2, <3>3 DEF Goes
  <2> HIDE DEF r
  <2>6. Fine(r, work[c], sum[c], len[c])
    <3>1. Served(q, 7, sum[c], len[c])
      BY <1>2, <1>4, <2>2, UnusedIs DEF Fine, Nothing, Closed
    <3>2. sum[c] + Len(r.up) + r.flight =< Units
      BY <1>2, <2>2, <2>3, <2>4, Empty, Bounds
    <3>3. QED
      BY <2>2, <2>4, <3>1, <3>2 DEF Fine, Served, Idle
  <2>7. Steps(r, work[c], sum[c], kd, at, left[k] - 1)
    <3>1. (left[k] - 1) + r.flight + Len(r.up) + sum[c] = Units
      BY <1>2, <2>3, <2>4, Empty, Bounds
    <3>2. left[k] > 1 => left[k] - 1 > 0
      BY <1>2
    <3>3. QED
      BY <2>2, <2>4, <3>1, <3>2 DEF Steps
  <2>8. Given(k, kd, at, pid[k])
    BY <1>1, <1>2, <2>2 DEF Given
  <2>9. kd # "finish" /\ Values(kd, at, left[k] - 1, pid[k])
    BY <1>2, <2>3 DEF Values
  <2>10. success_num' = (IF kd = "finish" THEN success_num + 1 ELSE success_num) /\ fd' = fd
    BY <2>1, <2>9
  <2>11. r.server = conn[link[k]].server /\ r.client = "open" /\ r.pid = pid[k]
    BY <2>4 DEF q
  <2> HIDE DEF kd, at
  <2>12. QED
    BY <1>1, <1>2, <2>4, <2>5, <2>6, <2>7, <2>8, <2>9, <2>10, <2>11, TalkOn
<1>5. QED
  BY <1>3, <1>4

LEMMA FinishesKeeps ==
    ASSUME IInv, NEW k \in Dialogues, Finishes(k), OneStep
    PROVE  IInv'
<1> DEFINE c == link[k]
           e == Answered(k)
           r == ClosedByClient(e)
<1>0. TypeOK
  BY DEF IInv
<1>1. Asked(k, 8) /\ fd' = fd
  BY DEF Finishes
<1>2. /\ Talking(k) /\ state[k] = 8 /\ work[c] = 9
      /\ e \in Connection /\ e.down = << >> /\ e.up = << >> /\ e.flight = 0
      /\ e.client = "open" /\ e.server = conn[c].server /\ e.pid = pid[k] /\ e.reset = "no"
      /\ e.server # "closed"
      /\ Served(e, 9, sum[c], len[c])
  BY <1>1, AskedIs
<1>3. /\ c \in Conns /\ pid[k] \in 0 .. connect_num /\ pid[k] = NameOf(k) /\ left[k] \in Nat
      /\ Linked(k)
  BY <1>2, TalkingIs
<1>4. CASE OneProcess
  <2>1. Goes(k, c, e, "finish", 9, c, left[k], pid[k]) /\ success_num' = success_num + 1
    BY <1>0, <1>4 DEF Finishes, Goes, TypeOK
  <2> HIDE DEF e
  <2>2. Fine(e, 9, sum[c], len[c]) /\ Steps(e, 9, sum[c], "finish", 9, left[k])
    BY <1>2 DEF Fine, Steps
  <2>3. Values("finish", 9, left[k], pid[k]) /\ Given(k, "finish", 9, pid[k])
    BY <1>3, <1>4 DEF Values, Given
  <2>4. QED
    BY <1>1, <1>2, <1>3, <1>4, <2>1, <2>2, <2>3, TalkOn
<1>5. CASE ~OneProcess
  <2>1. Goes(k, c, r, "ok", 9, NoConn, left[k], pid[k]) /\ success_num' = success_num
    BY <1>0, <1>5 DEF Finishes, Goes, TypeOK
  <2> HIDE DEF e
  <2>2. /\ r \in Connection /\ r.client = "closed" /\ r.down = << >>
        /\ r.server = e.server /\ r.up = << >> /\ r.flight = 0 /\ r.pid = pid[k] /\ r.reset = "no"
    BY <1>2, ClosedByClientIs
  <2> HIDE DEF r
  <2>3. Fine(r, 9, sum[c], len[c])
    BY <1>2, <2>2 DEF Fine, Served, Idle
  <2>4. Keeps(k, c, r, "ok", 9, NoConn, left[k], pid[k])
    BY <1>2, <2>2, <2>3 DEF Keeps
  <2>5. Owns(k, c)
    BY <1>3 DEF Owns
  <2>6. fd[k] \in 0 .. connect_num /\ fd' = [fd EXCEPT ![k] = fd[k]]
    BY <1>0, <1>1 DEF TypeOK
  <2>7. Phases(k, "ok", pid[k], fd[k])
    BY <1>2, <1>3, <1>5 DEF Phases, Talking, NameOf
  <2>8. j' \in Dialogues /\ ready' \subseteq Dialogues /\ UNCHANGED <<serverVars, client_mode>>
    BY DEF OneStep
  <2>9. Values("ok", 9, left[k], pid[k])
    BY <1>3 DEF Values
  <2>10. QED
    BY <1>3, <2>1, <2>2, <2>4, <2>5, <2>6, <2>7, <2>8, <2>9, DialogueStep
<1>6. QED
  BY <1>4, <1>5

LEMMA AnswersKeeps ==
    ASSUME IInv, NEW k \in Dialogues, Answers(k), OneStep
    PROVE  IInv'
<1>1. CASE \E n \in 0 .. Units, a \in BOOLEAN : SendsString(k, n, a)
  BY <1>1, SendsStringKeeps
<1>2. CASE Ends(k)
  <2>1. Talking(k) /\ Fails(k, conn[link[k]])
    BY <1>2 DEF Ends, Talking
  <2>2. QED
    BY <2>1, TalkingIs, FailsKeeps
<1>3. (SendsString(k, Units, TRUE) \/ ShortWrite(k) \/ Rejects(k))
         => \E n \in 0 .. Units, a \in BOOLEAN : SendsString(k, n, a)
  <2>1. Units \in 0 .. Units /\ \A n \in 1 .. Units - 1 : n \in 0 .. Units
    BY Bounds
  <2>2. QED
    BY <2>1 DEF ShortWrite, Rejects
<1>4. QED
  BY <1>1, <1>2, <1>3, AnswersShortKeeps, StartsStringKeeps, FinishesKeeps DEF Answers
-----------------------------------------------------------------------------
(* The client's processes *)

\* The parent forks or counts a child; no connection changes.
LEMMA ParentKeeps ==
    ASSUME IInv, ~OneProcess, NEW k \in Dialogues, NEW kd \in {"unforked", "failed", "counted"},
           IF kd = "counted" THEN kid[k] = "ok" ELSE kid[k] \in {"unforked", "failed"},
           kid' = [kid EXCEPT ![k] = kd], success_num' \in Nat,
           UNCHANGED <<conn, serverVars, client_mode, dialogueVars, oneProcessVars>>
    PROVE  IInv'
<1>0. TypeOK /\ ConnInv /\ TableInv /\ LinkInv /\ DialogueInv /\ PhaseInv /\ NamesInv /\ FilesInv
  BY DEF IInv
<1>1. UNCHANGED <<server_mode, work, sum, len, files, client, rfd, state, link, left, pid, fd, j,
                  ready>> /\ OneProcess' = OneProcess
  BY DEF serverVars, childVars, dialogueVars, oneProcessVars, OneProcess
<1>2. kid'[k] = kd /\ \A y \in Dialogues : y # k => kid'[y] = kid[y]
  BY <1>0 DEF TypeOK
<1>3. \A y \in Dialogues : Linked(y)' = Linked(y) /\ NameOf(y)' = NameOf(y)
  BY <1>1, <1>2 DEF Linked, NameOf
<1>4. \A y \in Dialogues : Linked(y) => kid'[y] = kid[y]
  BY <1>2 DEF Linked
<1>5. TypeOK'
  BY <1>0, <1>1 DEF TypeOK
<1>6. ConnInv' /\ TableInv'
  BY <1>0, <1>1 DEF ConnInv, Fine, Nothing, Closed, Served, TableInv, InTable
<1>7. LinkInv'
  BY <1>0, <1>1, <1>3 DEF LinkInv
<1>8. DialogueInv'
  <2>1. ASSUME NEW y \in Dialogues, Linked(y)
        PROVE  /\ Steps(conn[link[y]], work[link[y]], sum[link[y]], kid'[y], state[y], left[y])
               /\ conn[link[y]].pid = pid[y]
               /\ pid[y] = IF state[y] < 4 THEN 0 ELSE NameOf(y)
    BY <1>0, <1>4, <2>1 DEF DialogueInv
  <2>2. ASSUME NEW y \in Dialogues, ~Linked(y), kid'[y] \in {"connect", "unforked", "failed"}
        PROVE  state[y] = 0 /\ pid[y] = 0
    <3>1. kid[y] \in {"connect", "unforked", "failed"}
      BY <1>2, <2>2
    <3>2. QED
      BY <1>0, <2>2, <3>1 DEF DialogueInv
  <2>3. QED
    BY <1>1, <1>3, <2>1, <2>2 DEF DialogueInv
<1>9. \A y \in Dialogues : kid'[y] \in {"ok", "counted"} => kid[y] \in {"ok", "counted"}
  BY <1>2
<1>10. \A y \in Dialogues : kid'[y] \notin {"connect", "finish"}
  BY <1>0, <1>2 DEF PhaseInv
<1>11. PhaseInv'
  BY <1>1, <1>10 DEF PhaseInv
<1>12. NamesInv'
  <2>1. \A y \in Dialogues : kid'[y] \in {"ok", "counted"} => pid'[y] = y
    BY <1>0, <1>1, <1>9 DEF NamesInv
  <2>2. NamesDistinct'
    BY <1>10, <2>1 DEF NamesDistinct, Succeeded
  <2>3. QED
    BY <1>1, <2>1, <2>2 DEF NamesInv
<1>13. FilesInv'
  BY <1>0, <1>1, <1>9 DEF FilesInv, Complete
<1>14. QED
  BY <1>5, <1>6, <1>7, <1>8, <1>11, <1>12, <1>13 DEF IInv

LEMMA ForkKeeps ==
    ASSUME IInv, NEW k \in Dialogues, NEW fails, Fork(k, fails), UNCHANGED serverVars
    PROVE  IInv'
<1>0. TypeOK /\ PhaseInv
  BY DEF IInv
<1>1. kid[k] = "unforked" /\ ~OneProcess
  BY <1>0 DEF Fork, PhaseInv
<1>2. CASE fails
  <2>1. /\ kid' = [kid EXCEPT ![k] = "failed"] /\ success_num' = success_num
        /\ UNCHANGED <<conn, client_mode, dialogueVars, oneProcessVars>>
    BY <1>2 DEF Fork
  <2>2. success_num \in Nat
    BY <1>0 DEF TypeOK
  <2>3. QED
    BY <1>1, <2>1, <2>2, ParentKeeps
<1>3. CASE ~fails
  <2>1. Connects(k) /\ fd' = fd /\ OneStep
    BY <1>0, <1>3 DEF Fork, oneProcessVars, OneStep, TypeOK
  <2>2. QED
    BY <1>1, <2>1, ConnectsKeeps
<1>4. QED
  BY <1>2, <1>3

LEMMA ReapKeeps ==
    ASSUME IInv, NEW k \in Dialogues, Reap(k), UNCHANGED serverVars
    PROVE  IInv'
<1>0. TypeOK /\ PhaseInv
  BY DEF IInv
<1>1. kid[k] \in {"ok", "failed"} /\ ~OneProcess /\ success_num \in Nat
  BY <1>0 DEF Reap, PhaseInv, TypeOK
<1>2. UNCHANGED <<conn, client_mode, dialogueVars, oneProcessVars>>
  BY DEF Reap
<1>3. CASE kid[k] = "failed"
  <2>1. kid' = [kid EXCEPT ![k] = "unforked"] /\ success_num' = success_num
    BY <1>3 DEF Reap
  <2>2. QED
    BY <1>1, <1>2, <1>3, <2>1, ParentKeeps
<1>4. CASE kid[k] = "ok"
  <2>1. kid' = [kid EXCEPT ![k] = "counted"] /\ success_num' \in Nat
    BY <1>1, <1>4 DEF Reap
  <2>2. QED
    BY <1>1, <1>2, <1>4, <2>1, ParentKeeps
<1>5. QED
  BY <1>1, <1>3, <1>4

LEMMA RoundConnectsKeeps ==
    ASSUME IInv, NEW fails, RoundConnects(fails), UNCHANGED serverVars
    PROVE  IInv'
<1>0. TypeOK /\ ConnInv /\ TableInv /\ LinkInv /\ DialogueInv /\ PhaseInv /\ NamesInv /\ FilesInv
  BY DEF IInv
<1>1. Next_j \in Dialogues /\ SelectReadable \subseteq Dialogues
  BY <1>0, Bounds DEF TypeOK, Next_j, Dialogues, SelectReadable
<1>2. j \in Dialogues /\ fd' = fd /\ OneProcess /\ OneStep
  BY <1>0, <1>1 DEF RoundConnects, OneStep, TypeOK
<1>3. CASE Connects(j) /\ kid[j] = "connect"
  BY <1>2, <1>3, ConnectsKeeps
<1>4. CASE UNCHANGED <<conn, kid, dialogueVars, success_num>>
  <2>1. UNCHANGED <<server_mode, client_mode, work, sum, len, files, client, rfd, state, link,
                    left, pid>>
    BY <1>2, <1>4 DEF OneStep, serverVars, childVars, dialogueVars
  <2>2. TypeOK'
    BY <1>0, <1>2, <1>4, <2>1 DEF TypeOK, OneStep
  <2>3. kid[j'] = "counted" <=> kid[j] = "counted"
    BY <1>0, <1>2 DEF OneStep, PhaseInv
  <2>4. /\ ConnInv' /\ TableInv' /\ LinkInv' /\ DialogueInv' /\ PhaseInv' /\ FilesInv'
    BY <1>0, <1>2, <1>4, <2>1
       DEF ConnInv, Fine, Nothing, Closed, Served, TableInv, InTable, LinkInv, Linked,
           DialogueInv, NameOf, OneProcess, PhaseInv, FilesInv, Complete
  <2>5. NamesInv'
    BY <1>0, <1>2, <1>4, <2>1, <2>3 DEF NamesInv, NamesDistinct, Succeeded, OneProcess
  <2>6. QED
    BY <2>2, <2>4, <2>5 DEF IInv
<1>5. QED
  BY <1>3, <1>4 DEF RoundConnects

\* exit() comes when every dialogue has finished, and closes what they have left.
LEMMA ExitKeeps ==
    ASSUME IInv, Exit, UNCHANGED serverVars
    PROVE  IInv'
<1> DEFINE done == {y \in Dialogues : kid[y] = "finish"}
           owned(c) == \E y \in Dialogues : link[y] = c
<1>0. TypeOK /\ ConnInv /\ TableInv /\ LinkInv /\ DialogueInv /\ PhaseInv /\ NamesInv
  BY DEF IInv
<1>1. /\ OneProcess /\ OneProcess' = OneProcess /\ success_num = connect_num
      /\ conn' = [c \in Conns |-> IF owned(c) THEN ClosedByClient(conn[c]) ELSE conn[c]]
      /\ kid' = [y \in Dialogues |-> "counted"] /\ link' = [y \in Dialogues |-> NoConn]
      /\ fd' = [y \in Dialogues |-> 0]
      /\ UNCHANGED <<client_mode, state, left, pid, success_num, j, ready>>
  BY DEF Exit, OneProcess
<1>2. UNCHANGED <<server_mode, work, sum, len, files, client, rfd>>
  BY DEF serverVars, childVars
<1>3. \A y \in Dialogues : kid[y] = "finish"
  <2>1. kid[j] # "counted" /\ success_num = Cardinality(done)
    BY <1>0, <1>1 DEF Exit, PhaseInv, NamesInv, TypeOK
  <2>2. IsFiniteSet(Dialogues) /\ Cardinality(Dialogues) = connect_num
    <3>1. 1 \in Int /\ connect_num \in Int /\ 1 =< connect_num
      BY Bounds
    <3>2. IsFiniteSet(1 .. connect_num) /\ Cardinality(1 .. connect_num) = connect_num - 1 + 1
      BY <3>1, FS_Interval
    <3>3. QED
      BY <3>1, <3>2 DEF Dialogues
  <2>3. done \in SUBSET Dialogues /\ Cardinality(Dialogues) = Cardinality(done)
    BY <1>1, <2>1, <2>2
  <2>4. done = Dialogues
    BY <2>2, <2>3, FS_Subset
  <2>5. QED
    BY <2>4
<1>4. \A y \in Dialogues : Linked(y)
  BY <1>3 DEF Linked
<1>5. ASSUME NEW y \in Dialogues
      PROVE  LET c == link[y] q == conn[c] r == ClosedByClient(q)
             IN  /\ c \in Conns /\ r \in Connection /\ r.server = q.server /\ work[c] = 9
                 /\ r.pid = pid[y] /\ r.client = "closed" /\ r.reset = "no"
                 /\ Fine(r, work[c], sum[c], len[c])
                 /\ pid[y] = fd[y]
  <2> DEFINE c == link[y]
             q == conn[c]
             r == ClosedByClient(q)
  <2>1. /\ c \in Conns /\ q.client = "open"
        /\ Steps(q, work[c], sum[c], "finish", state[y], left[y])
        /\ q.pid = pid[y] /\ pid[y] = (IF state[y] < 4 THEN 0 ELSE fd[y])
    BY <1>0, <1>1, <1>3, <1>4 DEF LinkInv, DialogueInv, NameOf
  <2>2. q \in Connection /\ Fine(q, work[c], sum[c], len[c])
    BY <1>0, <2>1, ConnTypes
  <2> HIDE DEF q
  <2>3. work[c] = 9 /\ state[y] = 9 /\ q.down = << >>
    BY <2>1 DEF Steps
  <2>4. Served(q, 9, sum[c], len[c]) /\ q.reset = "no" /\ q.server # "closed"
    BY <2>1, <2>2, <2>3, UnusedIs DEF Fine, Nothing, Closed, Served
  <2>5. /\ r \in Connection /\ r.client = "closed" /\ r.down = << >> /\ r.reset = "no"
        /\ r.server = q.server /\ r.up = q.up /\ r.flight = q.flight /\ r.pid = q.pid
    BY <2>2, <2>3, <2>4, ClosedByClientIs
  <2> HIDE DEF r
  <2>6. Fine(r, 9, sum[c], len[c])
    BY <2>4, <2>5 DEF Fine, Served, Idle
  <2>7. QED
    BY <2>1, <2>3, <2>5, <2>6 DEF q, r
<1>6. ASSUME NEW c \in Conns
      PROVE  /\ conn'[c] \in Connection /\ Fine(conn'[c], work[c], sum[c], len[c])
             /\ conn'[c].server = conn[c].server
  <2>1. CASE owned(c)
    BY <1>1, <1>5, <2>1
  <2>2. CASE ~owned(c)
    BY <1>0, <1>1, <2>2, ConnTypes
  <2>3. QED
    BY <2>1, <2>2
<1>7. TypeOK'
  <2>1. conn' \in [Conns -> Connection]
    BY <1>1, <1>6
  <2>2. QED
    BY <1>0, <1>1, <1>2, <2>1, Bounds DEF TypeOK
<1>8. ConnInv'
  BY <1>2, <1>6 DEF ConnInv, Fine, Nothing, Closed, Served
<1>9. TableInv'
  <2>1. \A i \in InTable : client[i] \in Conns /\ conn[client[i]].server = "open"
    BY <1>0 DEF TableInv, InTable, TypeOK
  <2>2. QED
    BY <1>0, <1>2, <1>6, <2>1, TableKeeps
<1>10. \A y \in Dialogues : kid'[y] = "counted" /\ link'[y] = NoConn /\ ~Linked(y)'
  BY <1>1 DEF Linked
<1>11. LinkInv' /\ DialogueInv'
  BY <1>10 DEF LinkInv, DialogueInv
<1>12. PhaseInv'
  BY <1>1, <1>10 DEF PhaseInv
<1>13. NamesInv'
  <2>1. j' \in Dialogues
    BY <1>0, <1>1 DEF TypeOK
  <2>2. NamesDistinct'
    BY <1>0, <1>1, <1>3 DEF NamesInv, NamesDistinct, Succeeded
  <2>3. QED
    BY <1>1, <1>10, <2>1, <2>2 DEF NamesInv
<1>14. FilesInv'
  <2>1. ASSUME NEW y \in Dialogues
        PROVE  \E c \in Conns : /\ conn'[c].pid = pid[y] /\ conn'[c].client = "closed"
                                /\ conn'[c].reset = "no" /\ work[c] = 9
    BY <1>1, <1>5
  <2>2. QED
    BY <1>1, <1>2, <2>1 DEF FilesInv, Complete
<1>15. QED
  BY <1>7, <1>8, <1>9, <1>11, <1>12, <1>13, <1>14 DEF IInv

LEMMA ClientStep ==
    ASSUME IInv, Client
    PROVE  IInv'
<1>0. TypeOK /\ PhaseInv /\ UNCHANGED serverVars
  BY DEF IInv, Client
<1>1. ASSUME NEW k \in Dialogues, ChildTalks(k) \/ Alarm(k) \/ RoundTalks(k)
      PROVE  OneStep
  BY <1>0, <1>1 DEF OneStep, ChildTalks, Alarm, RoundTalks, TypeOK
<1>2. ASSUME NEW k \in Dialogues, ChildTalks(k) PROVE IInv'
  BY <1>1, <1>2, AnswersKeeps, WritesPieceKeeps DEF ChildTalks
<1>3. ASSUME NEW k \in Dialogues, RoundTalks(k) PROVE IInv'
  BY <1>1, <1>3, AnswersKeeps DEF RoundTalks
<1>4. ASSUME NEW k \in Dialogues, Alarm(k) PROVE IInv'
  <2>1. Talking(k) /\ Fails(k, conn[link[k]]) /\ OneStep
    BY <1>1, <1>4 DEF Alarm
  <2>2. QED
    BY <2>1, TalkingIs, FailsKeeps
<1>5. QED
  BY <1>0, <1>2, <1>3, <1>4, ForkKeeps, ReapKeeps, RoundConnectsKeeps, ExitKeeps
     DEF Client, ClientNext, OneProcessNext
-----------------------------------------------------------------------------
(* The inductive invariant *)

LEMMA InitIInv == Init => IInv
<1> SUFFICES ASSUME Init PROVE IInv
  OBVIOUS
<1> USE DEF Init, ServerInit, ClientInit
<1>1. TypeOK
  <2>1. conn \in [Conns -> Connection]
    BY UnusedIs
  <2>2. 1 \in Dialogues /\ Dialogues \subseteq 0 .. connect_num /\ 0 \in 0 .. connect_num
    BY Bounds DEF Dialogues
  <2>3. QED
    BY <2>1, <2>2 DEF TypeOK
<1>2. ConnInv
  BY DEF ConnInv, Fine, Nothing
<1>3. TableInv /\ LinkInv
  BY DEF TableInv, InTable, LinkInv, Linked
<1>4. DialogueInv /\ PhaseInv /\ FilesInv
  BY DEF DialogueInv, PhaseInv, FilesInv, Linked
<1>5. NamesInv
  <2>1. \A k \in Dialogues : kid[k] \in {"connect", "unforked"}
    OBVIOUS
  <2>2. {k \in Dialogues : kid[k] = "finish"} = {}
    BY <2>1
  <2>3. success_num = Cardinality({k \in Dialogues : kid[k] = "finish"})
    BY <2>2, FS_EmptySet
  <2>4. NamesDistinct
    BY <2>1 DEF NamesDistinct, Succeeded
  <2>5. ASSUME OneProcess
        PROVE  \A k \in Dialogues : fd[k] = k /\ fd[k] # 0
    BY <2>5, Bounds DEF Dialogues
  <2>6. QED
    BY <2>1, <2>3, <2>4, <2>5 DEF NamesInv
<1>6. QED
  BY <1>1, <1>2, <1>3, <1>4, <1>5 DEF IInv

LEMMA StepIInv == IInv /\ [Next]_vars => IInv'
<1> SUFFICES ASSUME IInv, [Next]_vars PROVE IInv'
  OBVIOUS
<1>1. CASE Network
  <2>1. UNCHANGED clientVars
    BY <1>1 DEF Network
  <2>2. QED
    BY <1>1, <2>1, NetworkKeeps
<1>2. CASE Server
  BY <1>2, ServerStep
<1>3. CASE Client
  BY <1>3, ClientStep
<1>4. CASE UNCHANGED vars
  <2>1. UNCHANGED <<conn, server_mode, work, sum, len, files, client, rfd>>
    BY <1>4 DEF vars, serverVars, childVars
  <2>2. UNCHANGED <<client_mode, kid, state, link, left, pid, success_num, fd, j, ready>>
    BY <1>4 DEF vars, clientVars, dialogueVars, oneProcessVars
  <2>3. TypeOK' /\ ConnInv' /\ TableInv' /\ LinkInv'
    BY <2>1, <2>2 DEF IInv, TypeOK, ConnInv, Fine, Nothing, Closed, Served, TableInv, InTable,
                      LinkInv, Linked
  <2>4. DialogueInv' /\ PhaseInv' /\ NamesInv' /\ FilesInv'
    BY <2>1, <2>2 DEF IInv, DialogueInv, Linked, NameOf, OneProcess, PhaseInv, NamesInv,
                      NamesDistinct, Succeeded, FilesInv, Complete
  <2>5. QED
    BY <2>3, <2>4 DEF IInv
<1>5. QED
  BY <1>1, <1>2, <1>3, <1>4 DEF Next

\* Who has asked what, who has gone and what was written, for each connection and each
\* dialogue: kept by every step of both programs and of the network.
THEOREM Inductive == Safety => []IInv
  BY InitIInv, StepIInv, PTL DEF Safety
-----------------------------------------------------------------------------
(* The properties *)

\* What client.cpp and server.cpp keep stays in its bounds: steps, descriptors and pids,
\* and messages that are numbers of steps.
THEOREM TypeCorrect == Safety => []TypeOK
  BY Inductive, PTL DEF IInv

\* The two ends keep step, whatever fails, is timed out or is begun again, and no piece
\* of the random string is lost or doubled, for any number of pieces and of connections.
THEOREM EndsKeepStep == Safety => []InStep
<1>1. IInv => InStep
  <2> SUFFICES ASSUME IInv, NEW k \in Dialogues, Talking(k)
      PROVE  LET r == conn[link[k]]
                 w == work[link[k]]
                 s == state[k]
                 silent == r.up = << >> /\ r.flight = 0
             IN  \/ r.server = "closed"
                 \/ w = 0 /\ s = 0 /\ r.down = << >> /\ silent
                 \/ w = s + 1 /\ r.down = <<s>> /\ silent
                 \/ w = s - 1 /\ w < 7 /\ r.down = << >> /\ r.up = <<w>> /\ r.flight = 0
                 \/ /\ w = 7 /\ r.down = << >> /\ (s = 8 \/ kid[k] = "string")
                    /\ left[k] + r.flight + Len(r.up) + sum[link[k]] = Units
    BY DEF InStep
  <2>1. Steps(conn[link[k]], work[link[k]], sum[link[k]], kid[k], state[k], left[k])
    BY TalkingIs
  <2>2. kid[k] # "finish"
    BY DEF Talking
  <2>3. QED
    BY <2>1, <2>2 DEF Steps, Idle
<1>2. QED
  BY <1>1, Inductive, PTL

\* server.cpp never writes to a socket that has got a reset: no SIGPIPE ends the one
\* process of nofork_work and every dialogue with it.
THEOREM NeverWritesAfterAReset == Safety => []NeverWritesAfterReset
<1>1. IInv => NeverWritesAfterReset
  <2> SUFFICES ASSUME IInv, NEW c \in Conns, conn[c].reset # "no", conn[c].server = "open"
      PROVE  work[c] # 0 /\ AtEnd(c)
    BY DEF NeverWritesAfterReset
  <2>1. Served(conn[c], work[c], sum[c], len[c])
    BY ConnTypes DEF IInv
  <2>2. QED
    BY <2>1 DEF Served, Idle, AtEnd
<1>2. QED
  BY <1>1, Inductive, PTL

\* A dialogue client.cpp counts as a success is one for server.cpp: its file is written,
\* or all of the string is there and only the close is waited for.
THEOREM SuccessIsCompleteAtBothEnds == Safety => []SuccessIsComplete
<1>1. IInv => SuccessIsComplete
  <2> SUFFICES ASSUME IInv, NEW k \in Succeeded
      PROVE  \/ pid[k] \in files
             \/ \E c \in Conns :
                  /\ conn[c].pid = pid[k] /\ work[c] = 9 /\ sum[c] = Units
                  /\ server_mode # "nofork" => len[c] = Units
    BY DEF SuccessIsComplete
  <2>0. TypeOK /\ ConnInv /\ LinkInv /\ DialogueInv /\ FilesInv /\ k \in Dialogues
    BY DEF IInv, Succeeded
  <2>1. ASSUME NEW c \in Conns, work[c] = 9, conn[c].pid = pid[k]
        PROVE  sum[c] = Units /\ (server_mode # "nofork" => len[c] = Units)
    <3>1. Fine(conn[c], 9, sum[c], len[c])
      BY <2>0, <2>1 DEF ConnInv
    <3>2. QED
      BY <3>1 DEF Fine, Nothing, Closed, Served
  <2>2. CASE kid[k] = "finish"
    <3>1. Linked(k)
      BY <2>2 DEF Linked
    <3>2. /\ link[k] \in Conns /\ conn[link[k]].pid = pid[k]
          /\ Steps(conn[link[k]], work[link[k]], sum[link[k]], "finish", state[k], left[k])
      BY <2>0, <2>2, <3>1 DEF LinkInv, DialogueInv
    <3>3. work[link[k]] = 9
      BY <3>2 DEF Steps
    <3>4. QED
      BY <2>1, <3>2, <3>3
  <2>3. CASE kid[k] \in {"ok", "counted"}
    BY <2>0, <2>1, <2>3 DEF FilesInv, Complete
  <2>4. QED
    BY <2>2, <2>3 DEF Succeeded
<1>2. QED
  BY <1>1, Inductive, PTL

\* No two successes have the same pid: neither end overwrites the file of another one,
\* though the one process of nonblock_nofork_process names them by descriptors used again.
THEOREM NamesAreDistinct == Safety => []NamesDistinct
<1>1. IInv => NamesDistinct
  BY DEF IInv, NamesInv
<1>2. QED
  BY <1>1, Inductive, PTL
-----------------------------------------------------------------------------
(* The socket exercises: dialogues, and the pairs that read and write in turn *)

\* The clients of the exercise.
Peers(s) == DOMAIN ex.prog \ {s}

\* A blocking call on the one connection of the program; P are instructions it may go to.
Call(r, P) ==
    /\ r.op \in {"recv", "send"} /\ r.how = "block" /\ r.n \in Nat \ {0}
    /\ r.next \in P /\ r.err \in P /\ r.quit \in P
    /\ r.op = "recv" => r.slot = 1 /\ r.eof \in P

\* What these programs have in common.
Blocking(s) ==
    /\ s \in Servers /\ s \in DOMAIN ex.prog
    /\ ex.prog[s][1].op = "listen" /\ ex.prog[s][1].next = 2
    /\ ex.prog[s][2].op = "accept" /\ ex.prog[s][2].next = 3
    /\ \A i \in {3, 4} : Call(ex.prog[s][i], {0, 2, 3, 4})
    /\ \A c \in Peers(s) :
          /\ c \in Clients
          /\ ex.prog[c][1].op = "connect" /\ ex.prog[c][1].how = "block"
          /\ ex.prog[c][1].to = s /\ ex.prog[c][1].next = 2
          /\ \A i \in {2, 3} : Call(ex.prog[c][i], {0, 2, 3})

StreamTypes ==
    /\ ex \in Exercises
    /\ st \in [Procs -> {"run", "done", "died", "stopped", "absent"}]
    /\ pc \in [Procs -> Nat] /\ due \in [Procs -> Nat]
    /\ alarm \in [Procs -> BOOLEAN] /\ inside \in [Procs -> BOOLEAN]
    /\ tab \in [Procs -> Seq(Procs)]
    /\ channel \in [Clients \X Servers -> {"none", "queued", "accepted", "refused"}]
    /\ level \in [Pairs -> Nat] /\ said \in [Pairs -> BOOLEAN]
    /\ rst \in [Pairs -> {"no", "piping", "resetting", "pipe", "reset", "told"}]

\* A client has its one peer at hand when it reads or writes.
ClientShape(s, c) ==
    /\ channel[<<c, s>>] = "none" <=> pc[c] = 1
    /\ channel[<<c, s>>] = "refused" => pc[c] = 0
    /\ pc[c] = 1 => level[<<c, s>>] = 0 /\ level[<<s, c>>] = 0 /\ tab[c] = << >>
    /\ pc[c] \in 0 .. 3
    /\ pc[c] \in {2, 3} => tab[c] = <<s>>

\* So has the server, and it has accepted nobody before it listens.
ServerShape(s) ==
    /\ pc[s] \in 0 .. 4
    /\ pc[s] = 1 => \A c \in Peers(s) : channel[<<c, s>>] # "accepted"
    /\ pc[s] \in {3, 4} => \E c \in Peers(s) : tab[s] = <<c>> /\ channel[<<c, s>>] = "accepted"

\* Nobody but the server of the exercise is connected to, and nobody fails whose peer is there.
ShapeInv(s) ==
    /\ StreamTypes
    /\ \A p \in Procs : ~alarm[p] /\ (Runs(p) => p \in DOMAIN ex.prog)
    /\ \A pq \in Pairs : level[pq] =< ex.cap /\ (rst[pq] # "no" => Gone(pq[2]))
    /\ \A c \in Clients, t \in Servers : channel[<<c, t>>] # "none" => t = s /\ c \in Peers(s)
    /\ \A c \in Peers(s) : ClientShape(s, c)
    /\ ServerShape(s)
-----------------------------------------------------------------------------
(* What each step changes *)

Listens(s) ==
    /\ Runs(s) /\ pc[s] = 1
    /\ pc' = [pc EXCEPT ![s] = 2]
    /\ UNCHANGED <<st, due, tab, channel, level, said, rst>>

Asks(c, s) ==
    /\ Runs(c) /\ pc[c] = 1
    /\ tab' = [tab EXCEPT ![c] = <<s>>]
    /\ \/ /\ channel' = [channel EXCEPT ![<<c, s>>] = "queued"]
          /\ pc' = [pc EXCEPT ![c] = 2]
       \/ /\ channel' = [channel EXCEPT ![<<c, s>>] = "refused"]
          /\ pc' = [pc EXCEPT ![c] = 0]
    /\ UNCHANGED <<st, due, level, said, rst>>

Accepts(c, s) ==
    /\ Runs(s) /\ pc[s] = 2 /\ channel[<<c, s>>] = "queued"
    /\ pc' = [pc EXCEPT ![s] = 3]
    /\ tab' = [tab EXCEPT ![s] = <<c>>]
    /\ channel' = [channel EXCEPT ![<<c, s>>] = "accepted"]
    /\ UNCHANGED <<st, due, level, said, rst>>

\* p is at a call on its connection with q.
Calls(p, q, op) ==
    /\ Runs(p) /\ pc[p] # 0 /\ Instr(p).op = op /\ tab[p] = <<q>>
    /\ <<p, q>> \in Pairs

Takes(p, q, k) ==
    /\ Calls(p, q, "recv") /\ k \in 1 .. level[<<q, p>>] /\ k =< Want(p)
    /\ level' = [level EXCEPT ![<<q, p>>] = @ - k]
    /\ due' = [due EXCEPT ![p] = 0]
    /\ \E i \in {Instr(p).next, Instr(p).quit} :
          /\ pc' = [pc EXCEPT ![p] = i]
          /\ i = Instr(p).quit \/ ~(said[<<q, p>>] /\ k = 1 /\ level[<<q, p>>] = 1)
          /\ i = Instr(p).next \/ (said[<<q, p>>] /\ k = 1 /\ level[<<q, p>>] = 1)
    /\ UNCHANGED <<st, tab, channel, said, rst>>

Puts(p, q, k, quit) ==
    /\ Calls(p, q, "send") /\ k \in 1 .. Want(p) /\ level[<<p, q>>] + k =< ex.cap
    /\ ~Gone(q) /\ quit \in BOOLEAN /\ (quit => Instr(p).typed)
    /\ level' = [level EXCEPT ![<<p, q>>] = @ + k]
    /\ said' = [said EXCEPT ![<<p, q>>] = quit]
    /\ \E more \in Nat :
          /\ more + k =< Want(p) /\ (quit => more = 0)
          /\ due' = [due EXCEPT ![p] = more]
          /\ pc' = [pc EXCEPT ![p] = IF more # 0 THEN pc[p]
                                     ELSE IF quit THEN Instr(p).quit ELSE Instr(p).next]
    /\ UNCHANGED <<st, tab, channel, rst>>

\* i is one of the places the call of p may lead to.
Follows(i, p) ==
    \/ i = pc[p] \/ i = Instr(p).next \/ i = Instr(p).err \/ i = Instr(p).quit
    \/ Instr(p).op = "recv" /\ i = Instr(p).eof

\* The other end is gone: 0, an error, or bytes that nobody will read.
Misses(p, q) ==
    /\ \E op \in {"recv", "send"} : Calls(p, q, op)
    /\ Gone(q)
    /\ \E i \in Nat : pc' = [pc EXCEPT ![p] = i] /\ Follows(i, p)
    /\ \E d \in Nat : /\ due' = [due EXCEPT ![p] = d]
                      /\ d = 0 \/ (Instr(p).op = "send" /\ d < Want(p))
    /\ \E b \in BOOLEAN : said' = [said EXCEPT ![<<p, q>>] = b]
    /\ \E r \in {"no", "piping", "resetting", "pipe", "reset", "told"} :
          rst' = [rst EXCEPT ![<<p, q>>] = r]
    /\ UNCHANGED <<st, tab, channel, level>>

Leaves(p) ==
    /\ Runs(p)
    /\ \E how \in {"done", "died", "stopped"} : st' = [st EXCEPT ![p] = how]
    /\ level' \in [Pairs -> Nat]
    /\ \A pq \in Pairs : level'[pq] \in {0, level[pq]} /\ (pq[1] # p => level'[pq] = level[pq])
    /\ rst' \in [Pairs -> {"no", "piping", "resetting", "pipe", "reset", "told"}]
    /\ \A pq \in Pairs : pq[2] # p => rst'[pq] = rst[pq]
    /\ UNCHANGED <<pc, due, tab, channel, said>>

Rests ==
    /\ rst' \in [Pairs -> {"no", "piping", "resetting", "pipe", "reset", "told"}]
    /\ \A pq \in Pairs : rst'[pq] = "no" <=> rst[pq] = "no"
    /\ UNCHANGED <<st, pc, due, tab, channel, level, said>>

StreamStep(s) ==
    /\ UNCHANGED <<ex, alarm>> /\ inside' \in [Procs -> BOOLEAN]
    /\ \/ Listens(s) \/ Rests
       \/ \E c \in Peers(s) : Asks(c, s) \/ Accepts(c, s)
       \/ \E p \in DOMAIN ex.prog : Leaves(p)
       \/ \E p, q \in DOMAIN ex.prog :
             \/ Misses(p, q)
             \/ \E k \in Nat \ {0} : Takes(p, q, k) \/ \E quit \in BOOLEAN : Puts(p, q, k, quit)
-----------------------------------------------------------------------------
(* The programs *)

\* The server hears at 3 and types at 4, a client types at 2 and hears at 3.
LEMMA DialogueProgram ==
    ASSUME NEW s \in Servers, NEW longest \in Lengths, Dialogue(ex, s, longest)
    PROVE  /\ Blocking(s)
           /\ ex.prog[s][3].op = "recv" /\ ex.prog[s][3].next = 4
           /\ ex.prog[s][3].eof = 4 /\ ex.prog[s][3].err = 3 /\ ex.prog[s][3].quit = 2
           /\ ex.prog[s][4].op = "send" /\ ex.prog[s][4].n = longest
           /\ ex.prog[s][4].next = 3 /\ ex.prog[s][4].err = 3 /\ ex.prog[s][4].quit = 2
           /\ \A c \in Peers(s) :
                 /\ ex.prog[c][2].op = "send" /\ ex.prog[c][2].n = longest
                 /\ ex.prog[c][2].next = 3
                 /\ ex.prog[c][2].err = 3 /\ ex.prog[c][2].quit = 0
                 /\ ex.prog[c][3].op = "recv" /\ ex.prog[c][3].next = 2
                 /\ ex.prog[c][3].err = 2 /\ ex.prog[c][3].quit = 2
<1> USE DEF Listen, AcceptOne, Connect, Hear, Tell, Recv, RecvOf, Send, Return
<1>0. longest \in Nat \ {0}
  BY StreamsAssumption
<1>1. ex.prog[s] = SyncServer1(longest) /\ s \in DOMAIN ex.prog
  BY DEF Dialogue
<1>2. /\ SyncServer1(longest)[1] = Listen(2) /\ SyncServer1(longest)[2] = AcceptOne(3)
      /\ SyncServer1(longest)[3] = Hear(6, 4, 2, 3)
      /\ SyncServer1(longest)[4] = Tell(longest, 3, 2)
  BY DEF SyncServer1
<1>3. /\ ex.prog[s][1].op = "listen" /\ ex.prog[s][1].next = 2
      /\ ex.prog[s][2].op = "accept" /\ ex.prog[s][2].next = 3
  BY <1>1, <1>2
<1>4. /\ ex.prog[s][3].op = "recv" /\ ex.prog[s][3].n = 6 /\ ex.prog[s][3].next = 4
      /\ ex.prog[s][3].eof = 4 /\ ex.prog[s][3].err = 3 /\ ex.prog[s][3].quit = 2
      /\ ex.prog[s][3].how = "block" /\ ex.prog[s][3].slot = 1
  BY <1>1, <1>2
<1>5. /\ ex.prog[s][4].op = "send" /\ ex.prog[s][4].n = longest /\ ex.prog[s][4].next = 3
      /\ ex.prog[s][4].err = 3 /\ ex.prog[s][4].quit = 2 /\ ex.prog[s][4].how = "block"
  BY <1>1, <1>2
<1>6. ASSUME NEW c \in Peers(s)
      PROVE  /\ c \in Clients
             /\ ex.prog[c][1].op = "connect" /\ ex.prog[c][1].how = "block"
             /\ ex.prog[c][1].to = s /\ ex.prog[c][1].next = 2
             /\ ex.prog[c][2].op = "send" /\ ex.prog[c][2].n = longest
             /\ ex.prog[c][2].next = 3 /\ ex.prog[c][2].err = 3 /\ ex.prog[c][2].quit = 0 /\ ex.prog[c][2].how = "block"
             /\ ex.prog[c][3].op = "recv" /\ ex.prog[c][3].n = 6 /\ ex.prog[c][3].next = 2
             /\ ex.prog[c][3].err = 2 /\ ex.prog[c][3].quit = 2 /\ ex.prog[c][3].eof = 2
             /\ ex.prog[c][3].how = "block" /\ ex.prog[c][3].slot = 1
  <2>1. c \in Clients /\ ex.prog[c] = SyncClient1(s, longest)
    BY DEF Dialogue, Peers
  <2>2. /\ SyncClient1(s, longest)[1] = Connect(s, 2)
        /\ SyncClient1(s, longest)[2] = Tell(longest, 3, 0)
        /\ SyncClient1(s, longest)[3] = Hear(6, 2, 2, 2)
    BY DEF SyncClient1
  <2> QED BY <2>1, <2>2
<1> HIDE DEF Listen, AcceptOne, Connect, Hear, Tell, Recv, RecvOf, Send, Return
<1>7. Blocking(s)
  BY <1>0, <1>1, <1>3, <1>4, <1>5, <1>6 DEF Blocking, Call
<1> QED BY <1>4, <1>5, <1>6, <1>7

\* Two instructions, and two more.
LEMMA Joined4 ==
    ASSUME NEW a, NEW b, NEW x, NEW y
    PROVE  LET t == <<a, b>> \o <<x, y>>
           IN  t[1] = a /\ t[2] = b /\ t[3] = x /\ t[4] = y
OBVIOUS

\* One instruction, and two more.
LEMMA Joined3 ==
    ASSUME NEW a, NEW x, NEW y
    PROVE  LET t == <<a>> \o <<x, y>>
           IN  t[1] = a /\ t[2] = x /\ t[3] = y
OBVIOUS

\* The server of each pair, or the client, sends first; if both do, so much the better.
LEMMA AlternatesProgram ==
    ASSUME NEW s \in Servers, NEW c \in Clients, Alternates(ex, s, c)
    PROVE  /\ Blocking(s) /\ Peers(s) = {c}
           /\ \/ ex.prog[s][3].op = "send" /\ ex.prog[s][4].op = "recv"
              \/ ex.prog[s][3].op = "recv" /\ ex.prog[s][4].op = "send"
           /\ \/ ex.prog[c][2].op = "send" /\ ex.prog[c][3].op = "recv"
              \/ ex.prog[c][2].op = "recv" /\ ex.prog[c][3].op = "send"
           /\ ex.prog[s][3].op = "send" \/ ex.prog[c][2].op = "send"
           /\ ex.prog[s][3].next = 4 /\ ex.prog[s][3].quit = 4
           /\ ex.prog[s][4].next = 3 /\ ex.prog[s][4].quit = 3
           /\ ex.prog[c][2].next = 3 /\ ex.prog[c][2].quit = 3
           /\ ex.prog[c][3].next = 2 /\ ex.prog[c][3].quit = 2
<1>1. PICK rNum \in Lengths, wNum \in Lengths, r \in Lengths, w \in Lengths :
         <<ex.prog[s], ex.prog[c]>> \in {<<SyncServer62(rNum, wNum), SyncClient62(s, r, w)>>,
                                       <<SyncServer63(rNum, wNum), SyncClient63(s, r, w)>>,
                                       <<SyncServer64(rNum, wNum), SyncClient64(s, r, w)>>}
  BY DEF Alternates
<1>2. Peers(s) = {c} /\ s \in DOMAIN ex.prog
  BY StreamsAssumption DEF Alternates, Peers
<1>3. {rNum, wNum, r, w} \subseteq Nat \ {0}
  BY StreamsAssumption
<1> DEFINE Reads(n, i) == Recv(n, "block", i, i, Return)
           Writes(n, i) == Send(n, "block", i, Return)
<1>4. /\ ex.prog[s][1] = Listen(2) /\ ex.prog[s][2] = AcceptOne(3)
      /\ \/ ex.prog[s][3] = Writes(wNum, 4) /\ ex.prog[s][4] = Reads(rNum, 3)
         \/ ex.prog[s][3] = Reads(rNum, 4) /\ ex.prog[s][4] = Writes(wNum, 3)
      /\ ex.prog[c][1] = Connect(s, 2)
      /\ \/ ex.prog[c][2] = Writes(w, 3) /\ ex.prog[c][3] = Reads(r, 2)
         \/ /\ ex.prog[c][2] = Reads(r, 3) /\ ex.prog[c][3] = Writes(w, 2)
            /\ ex.prog[s][3] = Writes(wNum, 4)
  <2>1. CASE ex.prog[s] = SyncServer62(rNum, wNum) /\ ex.prog[c] = SyncClient62(s, r, w)
    BY <2>1, Joined4, Joined3 DEF SyncServer62, SyncClient62, WriteThenRead
  <2>2. CASE ex.prog[s] = SyncServer63(rNum, wNum) /\ ex.prog[c] = SyncClient63(s, r, w)
    BY <2>2, Joined4, Joined3 DEF SyncServer63, SyncClient63, WriteThenRead, ReadThenWrite
  <2>3. CASE ex.prog[s] = SyncServer64(rNum, wNum) /\ ex.prog[c] = SyncClient64(s, r, w)
    BY <2>3, Joined4, Joined3 DEF SyncServer64, SyncClient64, WriteThenRead, ReadThenWrite
  <2> QED BY <1>1, <2>1, <2>2, <2>3
<1>5. ASSUME NEW n \in Nat \ {0}, NEW i \in {2, 3, 4}
      PROVE  /\ Reads(n, i).op = "recv" /\ Reads(n, i).how = "block" /\ Reads(n, i).n = n
             /\ Reads(n, i).next = i /\ Reads(n, i).err = 0 /\ Reads(n, i).quit = i
             /\ Reads(n, i).slot = 1 /\ Reads(n, i).eof = i
             /\ Writes(n, i).op = "send" /\ Writes(n, i).how = "block" /\ Writes(n, i).n = n
             /\ Writes(n, i).next = i /\ Writes(n, i).err = 0 /\ Writes(n, i).quit = i
  BY DEF Recv, RecvOf, Send, Return
<1>6. ASSUME NEW n \in Nat \ {0}, NEW i \in {2, 3, 4}, NEW P, 0 \in P, i \in P
      PROVE  /\ Call(Reads(n, i), P) /\ Reads(n, i).op = "recv"
             /\ Call(Writes(n, i), P) /\ Writes(n, i).op = "send"
  BY <1>5, <1>6 DEF Call
<1> HIDE DEF Reads, Writes
<1>7. /\ Call(ex.prog[s][3], {0, 2, 3, 4}) /\ Call(ex.prog[s][4], {0, 2, 3, 4})
      /\ Call(ex.prog[c][2], {0, 2, 3}) /\ Call(ex.prog[c][3], {0, 2, 3})
  <2>1. /\ Call(Reads(rNum, 3), {0, 2, 3, 4}) /\ Call(Reads(rNum, 4), {0, 2, 3, 4})
        /\ Call(Writes(wNum, 3), {0, 2, 3, 4}) /\ Call(Writes(wNum, 4), {0, 2, 3, 4})
        /\ Call(Reads(r, 2), {0, 2, 3}) /\ Call(Reads(r, 3), {0, 2, 3})
        /\ Call(Writes(w, 2), {0, 2, 3}) /\ Call(Writes(w, 3), {0, 2, 3})
    BY <1>3, <1>6
  <2> QED BY <1>4, <2>1
<1>8. /\ Listen(2).op = "listen" /\ Listen(2).next = 2
      /\ AcceptOne(3).op = "accept" /\ AcceptOne(3).next = 3
      /\ Connect(s, 2).op = "connect" /\ Connect(s, 2).how = "block"
      /\ Connect(s, 2).to = s /\ Connect(s, 2).next = 2
  BY DEF Listen, AcceptOne, Connect
<1>9. Blocking(s)
  BY <1>2, <1>4, <1>7, <1>8 DEF Blocking
<1>10. /\ Reads(rNum, 3).op = "recv" /\ Reads(rNum, 3).next = 3 /\ Reads(rNum, 3).quit = 3
       /\ Reads(rNum, 4).op = "recv" /\ Reads(rNum, 4).next = 4 /\ Reads(rNum, 4).quit = 4
       /\ Writes(wNum, 3).op = "send" /\ Writes(wNum, 3).next = 3 /\ Writes(wNum, 3).quit = 3
       /\ Writes(wNum, 4).op = "send" /\ Writes(wNum, 4).next = 4 /\ Writes(wNum, 4).quit = 4
       /\ Reads(r, 2).op = "recv" /\ Reads(r, 2).next = 2 /\ Reads(r, 2).quit = 2
       /\ Reads(r, 3).op = "recv" /\ Reads(r, 3).next = 3 /\ Reads(r, 3).quit = 3
       /\ Writes(w, 2).op = "send" /\ Writes(w, 2).next = 2 /\ Writes(w, 2).quit = 2
       /\ Writes(w, 3).op = "send" /\ Writes(w, 3).next = 3 /\ Writes(w, 3).quit = 3
  BY <1>3, <1>5
<1>11. \/ ex.prog[s][3] = Writes(wNum, 4) /\ ex.prog[s][4] = Reads(rNum, 3)
       \/ ex.prog[s][3] = Reads(rNum, 4) /\ ex.prog[s][4] = Writes(wNum, 3)
  BY <1>4
<1>12. \/ ex.prog[c][2] = Writes(w, 3) /\ ex.prog[c][3] = Reads(r, 2)
       \/ /\ ex.prog[c][2] = Reads(r, 3) /\ ex.prog[c][3] = Writes(w, 2)
          /\ ex.prog[s][3] = Writes(wNum, 4)
  BY <1>4
<1>13. /\ ex.prog[s][3].next = 4 /\ ex.prog[s][3].quit = 4
       /\ ex.prog[s][4].next = 3 /\ ex.prog[s][4].quit = 3
  BY <1>11, <1>10
<1>14. /\ ex.prog[c][2].next = 3 /\ ex.prog[c][2].quit = 3
       /\ ex.prog[c][3].next = 2 /\ ex.prog[c][3].quit = 2
  BY <1>12, <1>10
<1>15. \/ ex.prog[s][3].op = "send" /\ ex.prog[s][4].op = "recv"
       \/ ex.prog[s][3].op = "recv" /\ ex.prog[s][4].op = "send"
  BY <1>11, <1>10
<1>16. /\ \/ ex.prog[c][2].op = "send" /\ ex.prog[c][3].op = "recv"
          \/ ex.prog[c][2].op = "recv" /\ ex.prog[c][3].op = "send"
       /\ ex.prog[s][3].op = "send" \/ ex.prog[c][2].op = "send"
  BY <1>12, <1>10
<1> QED BY <1>2, <1>9, <1>13, <1>14, <1>15, <1>16
-----------------------------------------------------------------------------
(* Every step of such an exercise is one of the above *)

\* A program that runs is at its first instructions or at a call on its connection.
LEMMA AtACall ==
    ASSUME NEW s, NEW p \in Procs, Blocking(s), ShapeInv(s), Runs(p), pc[p] # 0
    PROVE  \/ p = s /\ pc[p] = 1 /\ Instr(p).op = "listen" /\ Instr(p).next = 2
           \/ p = s /\ pc[p] = 2 /\ Instr(p).op = "accept" /\ Instr(p).next = 3
           \/ /\ p \in Peers(s) /\ pc[p] = 1 /\ Instr(p).op = "connect"
              /\ Instr(p).how = "block" /\ Instr(p).to = s /\ Instr(p).next = 2
           \/ /\ Call(Instr(p), {0, 2, 3, 4})
              /\ \E q \in DOMAIN ex.prog :
                    /\ q \in Procs /\ tab[p] = <<q>> /\ <<p, q>> \in Pairs /\ Joined(p, q)
<1> USE DEF Instr
<1>1. s \in Servers /\ s \in Procs /\ s \in DOMAIN ex.prog /\ s \notin Clients
  BY StreamsAssumption DEF Blocking, Procs
<1>2. p \in DOMAIN ex.prog
  BY DEF ShapeInv
<1>3. CASE p = s
  <2>1. pc[s] \in {1, 2, 3, 4}
    BY <1>3 DEF ShapeInv, ServerShape
  <2>2. CASE pc[s] \in {1, 2}
    BY <1>3, <2>2 DEF Blocking
  <2>3. CASE pc[s] \in {3, 4}
    <3>1. PICK c \in Peers(s) : tab[s] = <<c>> /\ channel[<<c, s>>] = "accepted"
      BY <2>3 DEF ShapeInv, ServerShape
    <3>2. c \in Clients /\ c \in DOMAIN ex.prog
      BY DEF Blocking, Peers
    <3>3. <<s, c>> \in Pairs /\ Joined(s, c) /\ c \in Procs
      BY <1>1, <3>1, <3>2, StreamsAssumption DEF Pairs, Procs, Joined, Channel
    <3> QED BY <1>3, <2>3, <3>1, <3>2, <3>3 DEF Blocking
  <2> QED BY <2>1, <2>2, <2>3
<1>4. CASE p # s
  <2>1. p \in Peers(s) /\ p \in Clients /\ p \notin Servers
    BY <1>2, <1>4, StreamsAssumption DEF Peers, Blocking
  <2>2. ClientShape(s, p)
    BY <2>1 DEF ShapeInv
  <2>5. pc[p] \in {1, 2, 3}
    BY <2>2 DEF ClientShape
  <2>3. CASE pc[p] = 1
    BY <2>1, <2>3 DEF Blocking
  <2>4. CASE pc[p] \in {2, 3}
    <3>1. tab[p] = <<s>> /\ channel[<<p, s>>] \notin {"none", "refused"}
      BY <2>2, <2>4 DEF ClientShape
    <3>2. channel[<<p, s>>] \in {"none", "queued", "accepted", "refused"}
      BY <2>1, <1>1 DEF ShapeInv, StreamTypes
    <3>3. <<p, s>> \in Pairs /\ Joined(p, s)
      BY <1>1, <2>1, <3>1, <3>2 DEF Pairs, Joined, Channel
    <3>4. Call(ex.prog[p][pc[p]], {0, 2, 3})
      BY <2>1, <2>4 DEF Blocking
    <3>5. Call(ex.prog[p][pc[p]], {0, 2, 3, 4})
      BY <3>4 DEF Call
    <3> QED BY <1>1, <3>1, <3>3, <3>5
  <2> QED BY <2>5, <2>3, <2>4
<1> QED BY <1>3, <1>4
\* The call at hand: its connection is there, and how it asks.
LEMMA CallAt ==
    ASSUME NEW s, NEW p \in Procs, NEW op \in {"recv", "send"}, Blocking(s), ShapeInv(s), At(p, op)
    PROVE  /\ Call(Instr(p), {0, 2, 3, 4}) /\ HasPeer(p, Instr(p))
           /\ p \in DOMAIN ex.prog /\ PeerAt(p, Instr(p)) \in DOMAIN ex.prog
           /\ PeerAt(p, Instr(p)) \in Procs /\ <<p, PeerAt(p, Instr(p))>> \in Pairs
           /\ tab[p] = <<PeerAt(p, Instr(p))>> /\ Joined(p, PeerAt(p, Instr(p)))
           /\ Calls(p, PeerAt(p, Instr(p)), op) /\ <<PeerAt(p, Instr(p)), p>> \in Pairs
           /\ Want(p) \in Nat \ {0} /\ due[p] \in Nat /\ pc[p] \in Nat
<1>1. Runs(p) /\ pc[p] # 0 /\ Instr(p).op = op
  BY DEF At, Return
<1>2. /\ Call(Instr(p), {0, 2, 3, 4})
      /\ \E q \in DOMAIN ex.prog :
            q \in Procs /\ tab[p] = <<q>> /\ <<p, q>> \in Pairs /\ Joined(p, q)
  BY <1>1, AtACall
<1>3. PICK q \in DOMAIN ex.prog :
           q \in Procs /\ tab[p] = <<q>> /\ <<p, q>> \in Pairs /\ Joined(p, q)
  BY <1>2
<1>4. Slot(Instr(p)) = 1
  BY <1>2 DEF Call, Slot
<1>5. HasPeer(p, Instr(p)) /\ PeerAt(p, Instr(p)) = q
  BY <1>3, <1>4 DEF HasPeer, PeerAt
<1>6. due[p] \in Nat /\ pc[p] \in Nat /\ p \in DOMAIN ex.prog
  BY <1>1 DEF ShapeInv, StreamTypes
<1>7. Want(p) \in Nat \ {0}
  BY <1>2, <1>6 DEF Want, Call
<1>8. <<q, p>> \in Pairs
  BY <1>3 DEF Pairs
<1> QED BY <1>1, <1>2, <1>3, <1>5, <1>6, <1>7, <1>8 DEF Calls

\* An end whose connection has an error, or nothing to read and FIN, has lost its peer.
LEMMA GoneThen ==
    ASSUME NEW s, NEW p \in Procs, NEW q \in Procs, <<p, q>> \in Pairs, ShapeInv(s)
    PROVE  /\ Failed(p, q) => Gone(q)
           /\ CanRead(p, q) /\ level[<<q, p>>] = 0 => Gone(q)
           /\ Gone(q) => ~Runs(q)
           /\ Runs(q) => rst[<<p, q>>] = "no"
<1>1. rst[<<p, q>>] # "no" => Gone(q)
  BY DEF ShapeInv
<1>2. Gone(q) => ~Runs(q)
  BY DEF Gone, Runs
<1> QED BY <1>1, <1>2 DEF Failed, CanRead

\* The process ends.
LEMMA EndLeaves ==
    ASSUME NEW s, NEW p \in Procs, NEW how \in {"done", "died", "stopped"},
           ShapeInv(s), Runs(p), End(p, how)
    PROVE  Leaves(p) /\ UNCHANGED <<ex, alarm, inside>>
<1>1. PICK lost \in SUBSET Resets(p) :
         level' = [pq \in Pairs |-> IF pq[1] = p /\ pq[2] \in lost THEN 0 ELSE level[pq]]
  BY DEF End
<1>2. /\ level \in [Pairs -> Nat]
      /\ rst \in [Pairs -> {"no", "piping", "resetting", "pipe", "reset", "told"}]
  BY DEF ShapeInv, StreamTypes
<1>3. /\ level' \in [Pairs -> Nat]
      /\ \A pq \in Pairs : level'[pq] \in {0, level[pq]} /\ (pq[1] # p => level'[pq] = level[pq])
  BY <1>1, <1>2
<1>4. rst' = [pq \in Pairs |-> IF /\ pq[2] = p /\ pq[1] \in Resets(p)
                                  /\ rst[pq] \in {"no", "piping"}
                               THEN "resetting" ELSE rst[pq]]
  BY DEF End
<1>5. /\ rst' \in [Pairs -> {"no", "piping", "resetting", "pipe", "reset", "told"}]
      /\ \A pq \in Pairs : pq[2] # p => rst'[pq] = rst[pq]
  BY <1>2, <1>4
<1> QED BY <1>3, <1>5 DEF End, Leaves

\* A recv() that takes something.
LEMMA RecvTakesIs ==
    ASSUME NEW s, NEW p \in Procs, Blocking(s), ShapeInv(s), RecvTakes(p)
    PROVE  StreamStep(s)
<1> DEFINE q == PeerAt(p, Instr(p))
<1>1. At(p, "recv")
  BY DEF RecvTakes
<1>2. /\ Call(Instr(p), {0, 2, 3, 4}) /\ p \in DOMAIN ex.prog /\ q \in DOMAIN ex.prog
      /\ Calls(p, q, "recv") /\ Want(p) \in Nat \ {0} /\ <<q, p>> \in Pairs
  BY <1>1, CallAt
<1>3. Instr(p).how # "all"
  BY <1>2 DEF Call
<1> HIDE DEF q
<1>4. PICK k \in 1..Least(Want(p), level[<<q, p>>]) :
         /\ level' = [level EXCEPT ![<<q, p>>] = @ - k]
         /\ due' = [due EXCEPT ![p] = 0]
         /\ Goto(p, IF said[<<q, p>>] /\ k = 1 /\ level[<<q, p>>] = 1
                    THEN Instr(p).quit ELSE Instr(p).next)
  BY <1>3 DEF RecvTakes, q
<1>5. UNCHANGED <<tab, channel, said, rst>>
  BY DEF RecvTakes
<1>6. level[<<q, p>>] \in Nat /\ inside \in [Procs -> BOOLEAN]
  BY <1>2 DEF ShapeInv, StreamTypes
<1>7. k \in 1 .. level[<<q, p>>] /\ k =< Want(p) /\ k \in Nat \ {0}
  BY <1>2, <1>4, <1>6 DEF Least
<1>8. Takes(p, q, k)
  BY <1>2, <1>4, <1>5, <1>7 DEF Takes, Goto
<1>9. UNCHANGED <<ex, alarm>> /\ inside' \in [Procs -> BOOLEAN]
  BY <1>4, <1>6 DEF Goto
<1> QED BY <1>2, <1>7, <1>8, <1>9 DEF StreamStep

\* A recv() that finds nothing and FIN or an error.
LEMMA RecvEndsIs ==
    ASSUME NEW s, NEW p \in Procs, Blocking(s), ShapeInv(s), RecvEnds(p)
    PROVE  StreamStep(s)
<1> DEFINE q == PeerAt(p, Instr(p))
           error == rst[<<p, q>>] = "reset"
           i == IF due[p] # 0 THEN Instr(p).next ELSE IF error THEN Instr(p).err ELSE Instr(p).eof
<1>1. At(p, "recv")
  BY DEF RecvEnds
<1>2. /\ Call(Instr(p), {0, 2, 3, 4}) /\ p \in DOMAIN ex.prog /\ q \in DOMAIN ex.prog
      /\ Calls(p, q, "recv") /\ Want(p) \in Nat \ {0} /\ <<p, q>> \in Pairs /\ q \in Procs
      /\ Instr(p).op = "recv"
  BY <1>1, CallAt DEF At
<1>3. Gone(q)
  BY <1>2, GoneThen DEF RecvEnds
<1>4. /\ rst' = IF error /\ due[p] = 0 THEN [rst EXCEPT ![<<p, q>>] = "told"] ELSE rst
      /\ Goto(p, i)
      /\ due' = [due EXCEPT ![p] = 0]
      /\ UNCHANGED <<tab, channel, level, said>>
  BY DEF RecvEnds
<1>5. i \in Nat /\ Follows(i, p)
  BY <1>2 DEF Follows, Call
<1>6. /\ said \in [Pairs -> BOOLEAN] /\ inside \in [Procs -> BOOLEAN]
      /\ rst \in [Pairs -> {"no", "piping", "resetting", "pipe", "reset", "told"}]
  BY DEF ShapeInv, StreamTypes
<1> HIDE DEF q, i
<1>7. \E b \in BOOLEAN : said' = [said EXCEPT ![<<p, q>>] = b]
  BY <1>2, <1>4, <1>6
<1>8. \E r \in {"no", "piping", "resetting", "pipe", "reset", "told"} :
         rst' = [rst EXCEPT ![<<p, q>>] = r]
  BY <1>2, <1>4, <1>6
<1>10. Misses(p, q)
  BY <1>2, <1>3, <1>4, <1>5, <1>7, <1>8 DEF Misses, Goto
<1>11. UNCHANGED <<ex, alarm>> /\ inside' \in [Procs -> BOOLEAN]
  BY <1>4, <1>6 DEF Goto
<1> QED BY <1>2, <1>10, <1>11 DEF StreamStep
\* A send() that moves something, to a peer that is there or to one that is gone.
LEMMA SendMovesIs ==
    ASSUME NEW s, NEW p \in Procs, Blocking(s), ShapeInv(s), SendMoves(p)
    PROVE  StreamStep(s)
<1> DEFINE q == PeerAt(p, Instr(p))
<1>1. At(p, "send")
  BY DEF SendMoves
<1>2. /\ Call(Instr(p), {0, 2, 3, 4}) /\ p \in DOMAIN ex.prog /\ q \in DOMAIN ex.prog
      /\ Calls(p, q, "send") /\ Want(p) \in Nat \ {0} /\ <<p, q>> \in Pairs /\ q \in Procs
      /\ Instr(p).op = "send" /\ pc[p] \in Nat
  BY <1>1, CallAt DEF At
<1>3. Instr(p).how = "block" /\ (due[p] = 0 => Want(p) = Instr(p).n)
  BY <1>2 DEF Call, Want
<1> DEFINE k(all) == Least(all, Room(p, q))
           Told(all, quit) ==
              /\ quit => Instr(p).typed /\ all = 1
              /\ said' = [said EXCEPT ![<<p, q>>] = quit]
              /\ Goto(p, IF all - k(all) # 0 THEN pc[p]
                         ELSE IF quit THEN Instr(p).quit ELSE Instr(p).next)
<1>4. PICK all \in ToSend(p) :
         /\ k(all) > 0
         /\ level' = IF Gone(q) THEN level ELSE [level EXCEPT ![<<p, q>>] = @ + k(all)]
         /\ rst' = IF Gone(q) /\ rst[<<p, q>>] = "no"
                   THEN [rst EXCEPT ![<<p, q>>] = "piping"] ELSE rst
         /\ due' = [due EXCEPT ![p] = all - k(all)]
         /\ \E quit \in BOOLEAN : Told(all, quit)
         /\ UNCHANGED <<tab, channel>>
  BY <1>3 DEF SendMoves
<1>5. /\ level \in [Pairs -> Nat] /\ ex.cap \in Nat /\ inside \in [Procs -> BOOLEAN]
      /\ rst \in [Pairs -> {"no", "piping", "resetting", "pipe", "reset", "told"}]
  BY StreamsAssumption DEF ShapeInv, StreamTypes
<1>6. all \in Nat \ {0} /\ all =< Want(p)
  BY <1>2, <1>3, <1>4 DEF ToSend
<1>7. PICK n \in Nat \ {0} : n = k(all) /\ n =< all /\ level[<<p, q>>] + n =< ex.cap
  <2>1. level[<<p, q>>] \in Nat
    BY <1>2, <1>5
  <2> QED BY <1>4, <1>5, <1>6, <2>1 DEF Least, Room
<1>8. PICK quit \in BOOLEAN : Told(all, quit)
  BY <1>4
<1> HIDE DEF q, k
<1>9. PICK more \in Nat : more = all - n /\ more + n =< Want(p) /\ more < Want(p)
  BY <1>2, <1>6, <1>7
<1>10. quit => Instr(p).typed /\ more = 0
  BY <1>6, <1>7, <1>8, <1>9
<1>11. /\ said' = [said EXCEPT ![<<p, q>>] = quit] /\ due' = [due EXCEPT ![p] = more]
       /\ Goto(p, IF more # 0 THEN pc[p] ELSE IF quit THEN Instr(p).quit ELSE Instr(p).next)
  BY <1>4, <1>7, <1>8, <1>9
<1> HIDE DEF Told
<1>12. /\ UNCHANGED <<ex, st, alarm, tab, channel>> /\ inside' \in [Procs -> BOOLEAN]
       /\ pc' = [pc EXCEPT ![p] = IF more # 0 THEN pc[p]
                                  ELSE IF quit THEN Instr(p).quit ELSE Instr(p).next]
  BY <1>4, <1>5, <1>11 DEF Goto
<1>13. CASE ~Gone(q)
  <2>1. level' = [level EXCEPT ![<<p, q>>] = @ + n] /\ rst' = rst
    BY <1>4, <1>7, <1>13
  <2>2. n \in 1 .. Want(p)
    BY <1>2, <1>6, <1>7
  <2>3. Puts(p, q, n, quit)
    BY <1>2, <1>7, <1>9, <1>10, <1>11, <1>12, <1>13, <2>1, <2>2 DEF Puts
  <2> QED BY <1>2, <1>12, <2>3 DEF StreamStep
<1>14. CASE Gone(q)
  <2>1. \E i \in Nat : pc' = [pc EXCEPT ![p] = i] /\ Follows(i, p)
    BY <1>2, <1>12 DEF Follows, Call
  <2>2. \E d \in Nat : /\ due' = [due EXCEPT ![p] = d]
                       /\ d = 0 \/ (Instr(p).op = "send" /\ d < Want(p))
    BY <1>2, <1>9, <1>11
  <2>3. \E r \in {"no", "piping", "resetting", "pipe", "reset", "told"} :
           rst' = [rst EXCEPT ![<<p, q>>] = r]
    <3>1. rst' = [rst EXCEPT ![<<p, q>>] = "piping"] \/ rst' = rst
      BY <1>4
    <3>2. rst = [rst EXCEPT ![<<p, q>>] = rst[<<p, q>>]]
      BY <1>2, <1>5
    <3>3. rst[<<p, q>>] \in {"no", "piping", "resetting", "pipe", "reset", "told"}
      BY <1>2, <1>5
    <3> QED BY <3>1, <3>2, <3>3
  <2>4. level' = level
    BY <1>4, <1>14
  <2>5. Misses(p, q)
    BY <1>2, <1>11, <1>12, <1>14, <2>1, <2>2, <2>3, <2>4 DEF Misses
  <2> QED BY <1>2, <1>12, <2>5 DEF StreamStep
<1> QED BY <1>13, <1>14

\* A send() that returns what it has moved, fails, or ends the program.
LEMMA SendFailsIs ==
    ASSUME NEW s, NEW p \in Procs, Blocking(s), ShapeInv(s), SendFails(p)
    PROVE  StreamStep(s)
<1> DEFINE q == PeerAt(p, Instr(p))
<1>1. At(p, "send")
  BY DEF SendFails
<1>2. /\ Call(Instr(p), {0, 2, 3, 4}) /\ p \in DOMAIN ex.prog /\ q \in DOMAIN ex.prog
      /\ Calls(p, q, "send") /\ Want(p) \in Nat \ {0} /\ <<p, q>> \in Pairs /\ q \in Procs
      /\ Instr(p).op = "send" /\ pc[p] \in Nat
  BY <1>1, CallAt DEF At
<1>3. Gone(q)
  BY <1>2, GoneThen DEF SendFails
<1>4. \/ /\ Goto(p, Instr(p).next)
         /\ due' = [due EXCEPT ![p] = 0]
         /\ UNCHANGED <<tab, channel, level, said, rst>>
      \/ /\ due[p] = 0
         /\ \E quit \in IF Instr(p).typed THEN BOOLEAN ELSE {FALSE} :
               Goto(p, IF quit THEN Instr(p).quit ELSE Instr(p).err)
         /\ rst' = [rst EXCEPT ![<<p, q>>] = "told"]
         /\ UNCHANGED <<due, tab, channel, level, said>>
      \/ End(p, "died")
  BY DEF SendFails
<1>5. /\ said \in [Pairs -> BOOLEAN] /\ inside \in [Procs -> BOOLEAN]
      /\ due \in [Procs -> Nat]
      /\ rst \in [Pairs -> {"no", "piping", "resetting", "pipe", "reset", "told"}]
  BY DEF ShapeInv, StreamTypes
<1> HIDE DEF q
<1>7. CASE \E i \in {Instr(p).next, Instr(p).err, Instr(p).quit} : Goto(p, i)
           /\ due' = [due EXCEPT ![p] = 0]
           /\ \E r \in {"no", "piping", "resetting", "pipe", "reset", "told"} :
                 rst' = [rst EXCEPT ![<<p, q>>] = r]
           /\ UNCHANGED <<tab, channel, level, said>>
  <2>1. PICK i \in {Instr(p).next, Instr(p).err, Instr(p).quit} : Goto(p, i)
    BY <1>7
  <2>2. i \in Nat /\ Follows(i, p) /\ pc' = [pc EXCEPT ![p] = i]
    BY <1>2, <2>1 DEF Follows, Call, Goto
  <2>3. \E b \in BOOLEAN : said' = [said EXCEPT ![<<p, q>>] = b]
    BY <1>2, <1>5, <1>7
  <2>4. UNCHANGED <<ex, st, alarm>> /\ inside' \in [Procs -> BOOLEAN]
    BY <1>5, <2>1 DEF Goto
  <2>5. Misses(p, q)
    BY <1>2, <1>3, <1>7, <2>2, <2>3, <2>4 DEF Misses
  <2> QED BY <1>2, <2>4, <2>5 DEF StreamStep
<1>8. CASE /\ Goto(p, Instr(p).next)
           /\ due' = [due EXCEPT ![p] = 0]
           /\ UNCHANGED <<tab, channel, level, said, rst>>
  <2>1. \E r \in {"no", "piping", "resetting", "pipe", "reset", "told"} :
           rst' = [rst EXCEPT ![<<p, q>>] = r]
    BY <1>2, <1>5, <1>8
  <2> QED BY <1>7, <1>8, <2>1
<1>9. CASE /\ due[p] = 0
           /\ \E quit \in IF Instr(p).typed THEN BOOLEAN ELSE {FALSE} :
                 Goto(p, IF quit THEN Instr(p).quit ELSE Instr(p).err)
           /\ rst' = [rst EXCEPT ![<<p, q>>] = "told"]
           /\ UNCHANGED <<due, tab, channel, level, said>>
  <2>1. \E i \in {Instr(p).next, Instr(p).err, Instr(p).quit} : Goto(p, i)
    BY <1>9
  <2>2. due' = [due EXCEPT ![p] = 0]
    BY <1>5, <1>9
  <2> QED BY <1>7, <1>9, <2>1, <2>2
<1>10. CASE End(p, "died")
  <2>1. Runs(p)
    BY <1>1 DEF At
  <2>2. Leaves(p) /\ UNCHANGED <<ex, alarm, inside>>
    BY <1>10, <2>1, EndLeaves
  <2> QED BY <1>2, <1>5, <2>2 DEF StreamStep
<1> QED BY <1>4, <1>8, <1>9, <1>10

\* connect() is answered or refused.
LEMMA StepConnectIs ==
    ASSUME NEW s, NEW p \in Procs, Blocking(s), ShapeInv(s), StepConnect(p)
    PROVE  StreamStep(s)
<1>1. Runs(p) /\ pc[p] # 0 /\ Instr(p).op = "connect"
  BY DEF StepConnect, At, Return
<1>2. /\ p \in Peers(s) /\ pc[p] = 1 /\ Instr(p).how = "block"
      /\ Instr(p).to = s /\ Instr(p).next = 2
  BY <1>1, AtACall DEF Call
<1>3. /\ tab \in [Procs -> Seq(Procs)] /\ inside \in [Procs -> BOOLEAN]
      /\ tab[p] = << >>
  BY <1>2 DEF ShapeInv, StreamTypes, ClientShape
<1>4. Append(tab[p], s) = <<s>>
  BY <1>3
<1>5. \E refused \in BOOLEAN :
         /\ Goto(p, IF refused THEN 0 ELSE 2)
         /\ tab' = [tab EXCEPT ![p] = <<s>>]
         /\ channel' = [channel EXCEPT ![<<p, s>>] = IF refused THEN "refused" ELSE "queued"]
  <2> DEFINE refused == ~Listening(s)
  <2>1. /\ Goto(p, IF refused THEN 0 ELSE 2)
        /\ tab' = [tab EXCEPT ![p] = Append(tab[p], s)]
        /\ channel' = [channel EXCEPT ![<<p, s>>] = IF refused THEN "refused" ELSE "queued"]
    BY <1>2, <1>3 DEF StepConnect, Return
  <2> QED BY <1>4, <2>1
<1>6. UNCHANGED <<due, level, said, rst>>
  BY DEF StepConnect
<1>7. Asks(p, s)
  BY <1>1, <1>2, <1>5, <1>6 DEF Asks, Goto
<1>8. UNCHANGED <<ex, alarm>> /\ inside' \in [Procs -> BOOLEAN]
  BY <1>3, <1>5 DEF Goto
<1> QED BY <1>2, <1>7, <1>8 DEF StreamStep

\* accept() takes a client that is queued.
LEMMA StepAcceptIs ==
    ASSUME NEW s, NEW p \in Procs, Blocking(s), ShapeInv(s), StepAccept(p)
    PROVE  StreamStep(s)
<1>1. Runs(p) /\ pc[p] # 0 /\ Instr(p).op = "accept"
  BY DEF StepAccept, At, Return
<1>2. p = s /\ pc[p] = 2 /\ Instr(p).next = 3
  BY <1>1, AtACall DEF Call
<1>3. PICK c \in Queued(s) :
          /\ channel' = [channel EXCEPT ![<<c, s>>] = "accepted"]
          /\ tab' = [tab EXCEPT ![s] = <<c>>]
  BY <1>2 DEF StepAccept
<1>4. channel[<<c, s>>] = "queued" /\ c \in Peers(s)
  BY DEF Queued, ShapeInv, Blocking
<1>5. Goto(s, 3) /\ UNCHANGED <<due, level, said, rst>>
  BY <1>2 DEF StepAccept
<1>6. Accepts(c, s)
  BY <1>1, <1>2, <1>3, <1>4, <1>5 DEF Accepts, Goto
<1>7. UNCHANGED <<ex, alarm>> /\ inside' \in [Procs -> BOOLEAN]
  BY <1>5 DEF Goto, ShapeInv, StreamTypes
<1> QED BY <1>4, <1>6, <1>7 DEF StreamStep

\* Whatever happens is a step of the kinds above.
LEMMA StepIs ==
    ASSUME NEW s, Blocking(s), ShapeInv(s), [StreamsNext]_streamsVars
    PROVE  StreamStep(s)
<1>1. /\ inside \in [Procs -> BOOLEAN] /\ pc \in [Procs -> Nat]
      /\ rst \in [Pairs -> {"no", "piping", "resetting", "pipe", "reset", "told"}]
      /\ \A p \in Procs : ~alarm[p] /\ (Runs(p) => p \in DOMAIN ex.prog)
  BY DEF ShapeInv, StreamTypes
<1>2. ASSUME UNCHANGED streamsVars PROVE StreamStep(s)
  <2>1. Rests
    BY <1>1, <1>2 DEF streamsVars, Rests
  <2> QED BY <1>1, <1>2, <2>1 DEF streamsVars, StreamStep
<1>3. ASSUME NEW p \in Procs, StepListen(p) PROVE StreamStep(s)
  <2>1. Runs(p) /\ pc[p] # 0 /\ Instr(p).op = "listen"
    BY <1>3 DEF StepListen, At, Return
  <2>2. p = s /\ pc[p] = 1 /\ Instr(p).next = 2
    BY <2>1, AtACall DEF Call
  <2>3. Listens(s) /\ UNCHANGED <<ex, alarm>> /\ inside' \in [Procs -> BOOLEAN]
    BY <1>1, <1>3, <2>1, <2>2 DEF StepListen, Goto, Listens
  <2> QED BY <2>3 DEF StreamStep
<1>4. ASSUME NEW p \in Procs, NEW how \in {"done", "died", "stopped"}, Runs(p), End(p, how)
      PROVE  StreamStep(s)
  <2>1. Leaves(p) /\ UNCHANGED <<ex, alarm, inside>>
    BY <1>4, EndLeaves
  <2> QED BY <1>1, <1>4, <2>1 DEF StreamStep
<1>5. ASSUME NEW p \in Procs PROVE ~StepAcceptInto(p) /\ ~StepAlarm(p)
  <2>1. ASSUME At(p, "acceptinto") \/ At(p, "alarm") PROVE FALSE
    <3>1. Runs(p) /\ pc[p] # 0 /\ Instr(p).op \in {"acceptinto", "alarm"}
      BY <2>1 DEF At, Return
    <3> QED BY <3>1, AtACall DEF Call
  <2> QED BY <2>1 DEF StepAcceptInto, StepAlarm
<1>6. ASSUME NEW p \in Procs PROVE ~RecvSkips(p) /\ ~RecvFindsNothing(p)
  <2>1. ASSUME At(p, "recv") PROVE Instr(p).how = "block" /\ HasPeer(p, Instr(p))
    BY <2>1, CallAt DEF Call
  <2> QED BY <2>1 DEF RecvSkips, RecvFindsNothing
<1>7. ASSUME NEW p \in Procs, Step(p) PROVE StreamStep(s)
  <2>1. CASE StepListen(p)
    BY <1>3, <2>1
  <2>2. CASE StepConnect(p)
    BY <2>2, StepConnectIs
  <2>3. CASE StepAccept(p)
    BY <2>3, StepAcceptIs
  <2>4. CASE RecvTakes(p)
    BY <2>4, RecvTakesIs
  <2>5. CASE RecvEnds(p)
    BY <2>5, RecvEndsIs
  <2>6. CASE SendMoves(p)
    BY <2>6, SendMovesIs
  <2>7. CASE SendFails(p)
    BY <2>7, SendFailsIs
  <2>8. CASE Finish(p)
    BY <1>4, <2>8 DEF Finish
  <2>9. ~Sleeps(p)
    BY <1>1 DEF Sleeps
  <2> QED BY <1>5, <1>6, <1>7, <2>1, <2>2, <2>3, <2>4, <2>5, <2>6, <2>7, <2>8, <2>9 DEF Step
<1>8. ASSUME NEW p \in Procs, Rings(p) \/ Stop(p) PROVE StreamStep(s)
  BY <1>1, <1>4, <1>8 DEF Rings, Stop
<1>9. ASSUME NEW c \in Clients, NEW t \in Servers PROVE ~Handshake(c, t)
  <2>1. channel[<<c, t>>] # "syn"
    BY DEF ShapeInv, StreamTypes
  <2> QED BY <2>1 DEF Handshake
<1>10. ASSUME NEW pq \in Pairs, ResetArrives(pq[1], pq[2]) PROVE StreamStep(s)
  <2>1. pq = <<pq[1], pq[2]>>
    BY DEF Pairs
  <2>2. /\ rst[pq] \in {"piping", "resetting"}
        /\ rst' = [rst EXCEPT ![pq] = IF @ = "piping" THEN "pipe" ELSE "reset"]
        /\ UNCHANGED <<ex, st, pc, due, inside, alarm, tab, channel, level, said>>
    BY <1>10, <2>1 DEF ResetArrives
  <2>3. Rests
    BY <1>1, <2>2 DEF Rests
  <2> QED BY <1>1, <2>2, <2>3 DEF StreamStep
<1> QED BY <1>2, <1>7, <1>8, <1>9, <1>10 DEF StreamsNext, StreamsNetwork
-----------------------------------------------------------------------------
(* The shape of these exercises is kept *)

\* Who makes the call, and to whom.
LEMMA CallOf ==
    ASSUME NEW s, NEW p \in DOMAIN ex.prog, NEW q, NEW op \in {"recv", "send"},
           Blocking(s), ShapeInv(s), Calls(p, q, op)
    PROVE  /\ p \in Procs /\ q \in Procs /\ <<p, q>> \in Pairs /\ <<q, p>> \in Pairs
           /\ <<p, q>> # <<q, p>> /\ Instr(p).op = op
           /\ \/ /\ p = s /\ q \in Peers(s) /\ pc[s] \in {3, 4} /\ channel[<<q, s>>] = "accepted"
                 /\ pc[q] # 1 /\ Call(Instr(p), {0, 2, 3, 4})
              \/ /\ p \in Peers(s) /\ q = s /\ pc[p] \in {2, 3} /\ channel[<<p, s>>] # "none"
                 /\ Call(Instr(p), {0, 2, 3})
<1>1. /\ <<p, q>> \in Pairs /\ tab[p] = <<q>> /\ Runs(p) /\ pc[p] # 0 /\ Instr(p).op = op
  BY DEF Calls
<1>2. /\ p \in Procs /\ q \in Procs /\ <<q, p>> \in Pairs /\ <<p, q>> # <<q, p>>
      /\ (p \in Servers) # (q \in Servers)
  BY <1>1 DEF Pairs
<1>3. s \in Servers /\ s \notin Clients /\ \A c \in Peers(s) : c \in Clients /\ c \notin Servers
  BY StreamsAssumption DEF Blocking
<1>4. CASE p = s
  <2>1. pc[s] \in {1, 2, 3, 4}
    BY <1>1, <1>4 DEF ShapeInv, ServerShape
  <2>2. pc[s] \in {3, 4}
    BY <1>1, <1>4, <2>1 DEF Blocking, Instr
  <2>3. q \in Peers(s) /\ channel[<<q, s>>] = "accepted"
    <3>1. PICK c \in Peers(s) : tab[s] = <<c>> /\ channel[<<c, s>>] = "accepted"
      BY <2>2 DEF ShapeInv, ServerShape
    <3>2. c = q
      BY <1>1, <1>4, <3>1
    <3> QED BY <3>1, <3>2
  <2>4. pc[q] # 1
    BY <2>3 DEF ShapeInv, ClientShape
  <2>5. Call(Instr(p), {0, 2, 3, 4})
    BY <1>4, <2>2 DEF Blocking, Instr
  <2> QED BY <1>1, <1>2, <1>4, <2>2, <2>3, <2>4, <2>5
<1>5. CASE p # s
  <2>1. p \in Peers(s)
    BY <1>5 DEF Peers
  <2>2. ClientShape(s, p)
    BY <2>1 DEF ShapeInv
  <2>3. pc[p] \in {1, 2, 3}
    BY <1>1, <2>2 DEF ClientShape
  <2>4. pc[p] \in {2, 3}
    BY <1>1, <2>1, <2>3 DEF Blocking, Instr
  <2>5. tab[p] = <<s>> /\ channel[<<p, s>>] # "none"
    BY <2>2, <2>4 DEF ClientShape
  <2>6. q = s
    BY <1>1, <2>5
  <2>7. Call(Instr(p), {0, 2, 3})
    BY <2>1, <2>4 DEF Blocking, Instr
  <2> QED BY <1>1, <1>2, <2>1, <2>4, <2>5, <2>6, <2>7
<1> QED BY <1>4, <1>5

\* What every call on a connection does to the shape.
Changes(p, q) ==
    /\ \E op \in {"recv", "send"} : Calls(p, q, op)
    /\ \E i \in Nat : Follows(i, p) /\ pc' = [pc EXCEPT ![p] = i]
    /\ \E d \in Nat : due' = [due EXCEPT ![p] = d]
    /\ \E a \in {<<p, q>>, <<q, p>>}, l \in Nat : l =< ex.cap /\ level' = [level EXCEPT ![a] = l]
    /\ \E b \in BOOLEAN : said' = [said EXCEPT ![<<p, q>>] = b]
    /\ \E r \in {"no", "piping", "resetting", "pipe", "reset", "told"} :
          rst' = [rst EXCEPT ![<<p, q>>] = r] /\ (r = rst[<<p, q>>] \/ Gone(q))
    /\ UNCHANGED <<st, tab, channel>>

\* A call leads to a call, to accept() or to the end, and changes its connection only.
LEMMA ChangesShape ==
    ASSUME NEW s, NEW p \in DOMAIN ex.prog, NEW q, Blocking(s), ShapeInv(s),
           Changes(p, q), UNCHANGED <<ex, alarm>>, inside' \in [Procs -> BOOLEAN]
    PROVE  ShapeInv(s)'
<1>1. PICK op \in {"recv", "send"} : Calls(p, q, op)
  BY DEF Changes
<1>2. /\ p \in Procs /\ q \in Procs /\ <<p, q>> \in Pairs /\ <<q, p>> \in Pairs
      /\ <<p, q>> # <<q, p>>
      /\ \/ /\ p = s /\ q \in Peers(s) /\ pc[s] \in {3, 4} /\ channel[<<q, s>>] = "accepted"
            /\ pc[q] # 1 /\ Call(Instr(p), {0, 2, 3, 4})
         \/ /\ p \in Peers(s) /\ q = s /\ pc[p] \in {2, 3} /\ channel[<<p, s>>] # "none"
            /\ Call(Instr(p), {0, 2, 3})
  BY <1>1, CallOf
<1>3. PICK i \in Nat : Follows(i, p) /\ pc' = [pc EXCEPT ![p] = i]
  BY DEF Changes
<1>4. PICK a \in {<<p, q>>, <<q, p>>}, l \in Nat :
         l =< ex.cap /\ level' = [level EXCEPT ![a] = l]
  BY DEF Changes
<1>5. PICK r \in {"no", "piping", "resetting", "pipe", "reset", "told"} :
          rst' = [rst EXCEPT ![<<p, q>>] = r] /\ (r = rst[<<p, q>>] \/ Gone(q))
  BY DEF Changes
<1>6. UNCHANGED <<st, tab, channel>>
  BY DEF Changes
<1>7. /\ pc \in [Procs -> Nat] /\ level \in [Pairs -> Nat]
      /\ rst \in [Pairs -> {"no", "piping", "resetting", "pipe", "reset", "told"}]
  BY DEF ShapeInv, StreamTypes
<1>8. StreamTypes'
  <2>1. due' \in [Procs -> Nat] /\ said' \in [Pairs -> BOOLEAN]
    <3>1. due \in [Procs -> Nat] /\ said \in [Pairs -> BOOLEAN]
      BY DEF ShapeInv, StreamTypes
    <3>2. \E d \in Nat : due' = [due EXCEPT ![p] = d]
      BY DEF Changes
    <3>3. \E b \in BOOLEAN : said' = [said EXCEPT ![<<p, q>>] = b]
      BY DEF Changes
    <3> QED BY <3>1, <3>2, <3>3
  <2>2. pc' \in [Procs -> Nat] /\ level' \in [Pairs -> Nat]
    BY <1>3, <1>4, <1>7
  <2>3. rst' \in [Pairs -> {"no", "piping", "resetting", "pipe", "reset", "told"}]
    BY <1>5, <1>7
  <2> QED BY <1>6, <2>1, <2>2, <2>3 DEF ShapeInv, StreamTypes
<1>9. \A x \in Procs : ~alarm'[x] /\ (Runs(x)' => x \in DOMAIN ex'.prog)
  BY <1>6 DEF ShapeInv, Runs
<1>10. ASSUME NEW pq \in Pairs PROVE level'[pq] =< ex'.cap /\ (rst'[pq] # "no" => Gone(pq[2])')
  <2>1. level[pq] =< ex.cap /\ (rst[pq] # "no" => Gone(pq[2]))
    BY DEF ShapeInv
  <2>2. level'[pq] =< ex'.cap
    BY <1>4, <1>7, <2>1
  <2>3. rst'[pq] # "no" => Gone(pq[2])
    BY <1>2, <1>5, <1>7, <2>1
  <2> QED BY <1>6, <2>2, <2>3 DEF Gone
<1>11. \A c \in Clients, t \in Servers : channel'[<<c, t>>] # "none" => t = s /\ c \in Peers(s)
  BY <1>6 DEF ShapeInv
<1>12. ASSUME NEW c \in Peers(s) PROVE ClientShape(s, c)'
  <2>1. ClientShape(s, c) /\ c \in Procs /\ c # s
    BY DEF ShapeInv, Peers, Blocking, Procs
  <2>2. CASE c = p
    <3>1. q = s /\ pc[c] \in {2, 3} /\ channel[<<c, s>>] # "none" /\ Call(Instr(p), {0, 2, 3})
      BY <1>2, <2>1, <2>2
    <3>2. pc'[c] \in {0, 2, 3}
      <4>1. i \in {0, 2, 3}
        BY <1>3, <2>2, <3>1 DEF Follows, Call
      <4> QED BY <1>3, <1>7, <2>1, <2>2, <4>1
    <3>3. tab[c] = <<s>> /\ channel[<<c, s>>] # "refused"
      BY <2>1, <3>1 DEF ClientShape
    <3> QED BY <1>6, <3>1, <3>2, <3>3 DEF ClientShape
  <2>3. CASE c # p
    <3>1. pc'[c] = pc[c]
      BY <1>3, <1>7, <2>1, <2>3
    <3>2. pc[c] = 1 => a # <<c, s>> /\ a # <<s, c>>
      BY <1>2, <1>4, <2>3
    <3>3. pc[c] = 1 => level'[<<c, s>>] = level[<<c, s>>] /\ level'[<<s, c>>] = level[<<s, c>>]
      BY <1>4, <3>2
    <3> QED BY <1>6, <2>1, <3>1, <3>3 DEF ClientShape
  <2> QED BY <2>2, <2>3
<1>13. ServerShape(s)'
  <2>1. ServerShape(s) /\ s \in Procs
    BY DEF ShapeInv, Blocking, Procs
  <2>2. Peers(s)' = Peers(s)
    BY DEF Peers
  <2>3. CASE p = s
    <3>1. pc[s] \in {3, 4} /\ Call(Instr(p), {0, 2, 3, 4})
      BY <1>2, <2>3 DEF Peers
    <3>2. i \in {0, 2, 3, 4}
      BY <1>3, <2>3, <3>1 DEF Follows, Call
    <3>3. pc'[s] \in {0, 2, 3, 4}
      BY <1>3, <1>7, <2>1, <2>3, <3>2
    <3>4. \E c \in Peers(s) : tab[s] = <<c>> /\ channel[<<c, s>>] = "accepted"
      BY <2>1, <3>1 DEF ServerShape
    <3> QED BY <1>6, <2>2, <3>3, <3>4 DEF ServerShape
  <2>4. CASE p # s
    <3>1. pc'[s] = pc[s]
      BY <1>3, <1>7, <2>1, <2>4
    <3> QED BY <1>6, <2>1, <2>2, <3>1 DEF ServerShape
  <2> QED BY <2>3, <2>4
<1>14. Peers(s)' = Peers(s)
  BY DEF Peers
<1> QED BY <1>8, <1>9, <1>10, <1>11, <1>12, <1>13, <1>14 DEF ShapeInv

\* The same of either call.
LEMMA AnyCall ==
    ASSUME NEW s, NEW p \in DOMAIN ex.prog, NEW q, Blocking(s), ShapeInv(s),
           \E op \in {"recv", "send"} : Calls(p, q, op)
    PROVE  /\ p \in Procs /\ q \in Procs /\ <<p, q>> \in Pairs /\ <<q, p>> \in Pairs
           /\ <<p, q>> # <<q, p>> /\ Call(Instr(p), {0, 2, 3, 4})
<1>1. PICK op \in {"recv", "send"} : Calls(p, q, op)
  OBVIOUS
<1>2. /\ p \in Procs /\ q \in Procs /\ <<p, q>> \in Pairs /\ <<q, p>> \in Pairs
      /\ <<p, q>> # <<q, p>>
      /\ \/ /\ p = s /\ q \in Peers(s) /\ pc[s] \in {3, 4} /\ channel[<<q, s>>] = "accepted"
            /\ pc[q] # 1 /\ Call(Instr(p), {0, 2, 3, 4})
         \/ /\ p \in Peers(s) /\ q = s /\ pc[p] \in {2, 3} /\ channel[<<p, s>>] # "none"
            /\ Call(Instr(p), {0, 2, 3})
  BY <1>1, CallOf
<1>3. Call(Instr(p), {0, 2, 3}) => Call(Instr(p), {0, 2, 3, 4})
  BY DEF Call
<1> QED BY <1>2, <1>3

\* The calls are such moves.
LEMMA CallsChange ==
    ASSUME NEW s, NEW p \in DOMAIN ex.prog, NEW q, Blocking(s), ShapeInv(s),
           \/ Misses(p, q)
           \/ \E k \in Nat \ {0} : Takes(p, q, k) \/ \E quit \in BOOLEAN : Puts(p, q, k, quit)
    PROVE  Changes(p, q)
<1>1. \E op \in {"recv", "send"} : Calls(p, q, op)
  BY DEF Misses, Takes, Puts
<1>3. /\ p \in Procs /\ q \in Procs /\ <<p, q>> \in Pairs /\ <<q, p>> \in Pairs
      /\ <<p, q>> # <<q, p>> /\ Call(Instr(p), {0, 2, 3, 4})
  BY <1>1, AnyCall
<1>4. /\ level \in [Pairs -> Nat] /\ said \in [Pairs -> BOOLEAN] /\ pc \in [Procs -> Nat]
      /\ due \in [Procs -> Nat] /\ ex.cap \in Nat /\ \A pq \in Pairs : level[pq] =< ex.cap
      /\ rst \in [Pairs -> {"no", "piping", "resetting", "pipe", "reset", "told"}]
  BY StreamsAssumption DEF ShapeInv, StreamTypes
<1>5. /\ Instr(p).next \in Nat /\ Instr(p).quit \in Nat /\ Instr(p).n \in Nat \ {0}
      /\ pc[p] \in Nat
  BY <1>3, <1>4 DEF Call
<1>6. said = [said EXCEPT ![<<p, q>>] = said[<<p, q>>]] /\ said[<<p, q>>] \in BOOLEAN
  BY <1>3, <1>4
<1>7. /\ rst = [rst EXCEPT ![<<p, q>>] = rst[<<p, q>>]]
      /\ rst[<<p, q>>] \in {"no", "piping", "resetting", "pipe", "reset", "told"}
  BY <1>3, <1>4
<1>8. /\ level = [level EXCEPT ![<<p, q>>] = level[<<p, q>>]]
      /\ level[<<p, q>>] \in Nat /\ level[<<p, q>>] =< ex.cap
      /\ level[<<q, p>>] \in Nat /\ level[<<q, p>>] =< ex.cap
  BY <1>3, <1>4
<1>9. ASSUME NEW k \in Nat \ {0}, Takes(p, q, k) PROVE Changes(p, q)
  <2>1. \E i \in Nat : Follows(i, p) /\ pc' = [pc EXCEPT ![p] = i]
    BY <1>5, <1>9 DEF Takes, Follows
  <2>2. level[<<q, p>>] - k \in Nat /\ level[<<q, p>>] - k =< ex.cap
    BY <1>4, <1>8, <1>9 DEF Takes
  <2>3. level' = [level EXCEPT ![<<q, p>>] = level[<<q, p>>] - k]
    BY <1>3, <1>4, <1>9 DEF Takes
  <2>4. due' = [due EXCEPT ![p] = 0] /\ UNCHANGED <<st, tab, channel, said, rst>>
    BY <1>9 DEF Takes
  <2> QED BY <1>1, <1>6, <1>7, <2>1, <2>2, <2>3, <2>4 DEF Changes
<1>10. ASSUME NEW k \in Nat \ {0}, NEW quit \in BOOLEAN, Puts(p, q, k, quit) PROVE Changes(p, q)
  <2>1. /\ \E i \in Nat : Follows(i, p) /\ pc' = [pc EXCEPT ![p] = i]
        /\ \E d \in Nat : due' = [due EXCEPT ![p] = d]
    <3>1. PICK more \in Nat :
             /\ due' = [due EXCEPT ![p] = more]
             /\ pc' = [pc EXCEPT ![p] = IF more # 0 THEN pc[p]
                                        ELSE IF quit THEN Instr(p).quit ELSE Instr(p).next]
      BY <1>10 DEF Puts
    <3> QED BY <1>5, <3>1 DEF Follows
  <2>2. level[<<p, q>>] + k \in Nat /\ level[<<p, q>>] + k =< ex.cap
    BY <1>4, <1>8, <1>10 DEF Puts
  <2>3. level' = [level EXCEPT ![<<p, q>>] = level[<<p, q>>] + k]
    BY <1>3, <1>4, <1>10 DEF Puts
  <2>4. said' = [said EXCEPT ![<<p, q>>] = quit] /\ UNCHANGED <<st, tab, channel, rst>>
    BY <1>10 DEF Puts
  <2> QED BY <1>1, <1>7, <2>1, <2>2, <2>3, <2>4 DEF Changes
<1>11. ASSUME Misses(p, q) PROVE Changes(p, q)
  <2>1. /\ \E i \in Nat : Follows(i, p) /\ pc' = [pc EXCEPT ![p] = i]
        /\ \E d \in Nat : due' = [due EXCEPT ![p] = d]
    BY <1>11 DEF Misses
  <2>2. /\ \E b \in BOOLEAN : said' = [said EXCEPT ![<<p, q>>] = b]
        /\ \E r \in {"no", "piping", "resetting", "pipe", "reset", "told"} :
              rst' = [rst EXCEPT ![<<p, q>>] = r]
        /\ Gone(q) /\ UNCHANGED <<st, tab, channel, level>>
    BY <1>11 DEF Misses
  <2> QED BY <1>1, <1>8, <2>1, <2>2 DEF Changes
<1> QED BY <1>9, <1>10, <1>11

\* What changes for the shape when a program ends, or RST arrives.
LEMMA LeavesShape ==
    ASSUME NEW s, NEW p \in DOMAIN ex.prog, Blocking(s), ShapeInv(s),
           Leaves(p) \/ Rests, UNCHANGED <<ex, alarm>>, inside' \in [Procs -> BOOLEAN]
    PROVE  ShapeInv(s)'
<1>1. UNCHANGED <<pc, due, tab, channel, said>>
  BY DEF Leaves, Rests
<1>2. /\ st \in [Procs -> {"run", "done", "died", "stopped", "absent"}]
      /\ level \in [Pairs -> Nat] /\ ex.cap \in Nat
      /\ rst \in [Pairs -> {"no", "piping", "resetting", "pipe", "reset", "told"}]
  BY StreamsAssumption DEF ShapeInv, StreamTypes
<1>3. /\ st' \in [Procs -> {"run", "done", "died", "stopped", "absent"}]
      /\ \A x \in Procs : Runs(x)' => Runs(x)
      /\ \A x \in Procs : Gone(x) => Gone(x)'
  <2>1. CASE Rests
    BY <1>2, <2>1 DEF Rests, Runs, Gone
  <2>2. CASE Leaves(p)
    BY <1>2, <2>2 DEF Leaves, Runs, Gone
  <2> QED BY <2>1, <2>2
<1>4. level' \in [Pairs -> Nat] /\ \A pq \in Pairs : level'[pq] \in {0, level[pq]}
  BY <1>2 DEF Leaves, Rests
<1>5. /\ rst' \in [Pairs -> {"no", "piping", "resetting", "pipe", "reset", "told"}]
      /\ \A pq \in Pairs : rst'[pq] # "no" => rst[pq] # "no" \/ Gone(pq[2])'
  <2>1. CASE Rests
    BY <2>1 DEF Rests
  <2>2. CASE Leaves(p)
    <3>1. p \in Procs
      BY <2>2, StreamsAssumption DEF ShapeInv, StreamTypes
    <3>2. Gone(p)'
      BY <1>2, <2>2, <3>1 DEF Leaves, Gone
    <3> QED BY <2>2, <3>2 DEF Leaves
  <2> QED BY <2>1, <2>2
<1>6. StreamTypes'
  BY <1>1, <1>3, <1>4, <1>5 DEF ShapeInv, StreamTypes
<1>7. \A x \in Procs : ~alarm'[x] /\ (Runs(x)' => x \in DOMAIN ex'.prog)
  BY <1>3 DEF ShapeInv
<1>8. ASSUME NEW pq \in Pairs PROVE level'[pq] =< ex'.cap /\ (rst'[pq] # "no" => Gone(pq[2])')
  <2>1. level[pq] \in Nat /\ level[pq] =< ex.cap /\ (rst[pq] # "no" => Gone(pq[2]))
    BY <1>2 DEF ShapeInv
  <2>2. pq[2] \in Procs
    BY DEF Pairs
  <2> QED BY <1>2, <1>3, <1>4, <1>5, <2>1, <2>2
<1>9. Peers(s)' = Peers(s)
  BY DEF Peers
<1>10. ASSUME NEW c \in Peers(s) PROVE ClientShape(s, c)'
  <2>1. ClientShape(s, c)
    BY DEF ShapeInv
  <2>2. <<c, s>> \in Pairs /\ <<s, c>> \in Pairs
    BY StreamsAssumption DEF Blocking, Pairs, Procs
  <2>3. level'[<<c, s>>] \in {0, level[<<c, s>>]} /\ level'[<<s, c>>] \in {0, level[<<s, c>>]}
    BY <1>4, <2>2
  <2> QED BY <1>1, <2>1, <2>3 DEF ClientShape
<1>11. ServerShape(s)'
  BY <1>1, <1>9 DEF ShapeInv, ServerShape
<1>12. \A c \in Clients, t \in Servers : channel'[<<c, t>>] # "none" => t = s /\ c \in Peers(s)'
  BY <1>1, <1>9 DEF ShapeInv
<1> QED BY <1>6, <1>7, <1>8, <1>9, <1>10, <1>11, <1>12 DEF ShapeInv

\* listen(), connect() and accept().
LEMMA OpensShape ==
    ASSUME NEW s, NEW c, Blocking(s), ShapeInv(s),
           Listens(s) \/ (c \in Peers(s) /\ (Asks(c, s) \/ Accepts(c, s))),
           UNCHANGED <<ex, alarm>>, inside' \in [Procs -> BOOLEAN]
    PROVE  ShapeInv(s)'
<1>1. UNCHANGED <<st, due, level, said, rst>>
  BY DEF Listens, Asks, Accepts
<1>2. /\ s \in Procs /\ s \in Servers /\ s \notin Clients
      /\ \A d \in Peers(s) : d \in Clients /\ d \in Procs /\ d # s
  BY StreamsAssumption DEF Blocking, Procs, Peers
<1>3. /\ pc \in [Procs -> Nat] /\ tab \in [Procs -> Seq(Procs)]
      /\ channel \in [Clients \X Servers -> {"none", "queued", "accepted", "refused"}]
  BY DEF ShapeInv, StreamTypes
<1>4. <<s>> \in Seq(Procs) /\ \A d \in Peers(s) : <<d>> \in Seq(Procs)
  BY <1>2
<1>5. /\ pc' \in [Procs -> Nat] /\ tab' \in [Procs -> Seq(Procs)]
      /\ channel' \in [Clients \X Servers -> {"none", "queued", "accepted", "refused"}]
  <2>1. CASE Listens(s)
    BY <1>3, <2>1 DEF Listens
  <2>2. CASE c \in Peers(s) /\ Asks(c, s)
    <3>1. tab' = [tab EXCEPT ![c] = <<s>>]
      BY <2>2 DEF Asks
    <3>2. tab' \in [Procs -> Seq(Procs)]
      BY <1>3, <1>4, <3>1
    <3>3. channel' \in [Clients \X Servers -> {"none", "queued", "accepted", "refused"}]
      BY <1>2, <1>3, <2>2 DEF Asks
    <3>4. pc' \in [Procs -> Nat]
      <4>1. pc' = [pc EXCEPT ![c] = 2] \/ pc' = [pc EXCEPT ![c] = 0]
        BY <2>2 DEF Asks
      <4>2. pc \in [Procs -> Nat]
        BY <1>3
      <4> QED BY <4>1, <4>2
    <3> QED BY <3>2, <3>3, <3>4
  <2>3. CASE c \in Peers(s) /\ Accepts(c, s)
    BY <1>2, <1>3, <1>4, <2>3 DEF Accepts
  <2> QED BY <2>1, <2>2, <2>3
<1>6. StreamTypes'
  BY <1>1, <1>5 DEF ShapeInv, StreamTypes
<1>7. \A x \in Procs : ~alarm'[x] /\ (Runs(x)' => x \in DOMAIN ex'.prog)
  BY <1>1 DEF ShapeInv, Runs
<1>8. \A pq \in Pairs : level'[pq] =< ex'.cap /\ (rst'[pq] # "no" => Gone(pq[2])')
  BY <1>1 DEF ShapeInv, Gone
<1>9. Peers(s)' = Peers(s)
  BY DEF Peers
<1>10. \A d \in Clients, t \in Servers :
          <<d, t>> # <<c, s>> => channel'[<<d, t>>] = channel[<<d, t>>]
  BY <1>3 DEF Listens, Asks, Accepts
<1>11. ASSUME NEW d \in Clients, NEW t \in Servers, channel'[<<d, t>>] # "none"
       PROVE  t = s /\ d \in Peers(s)'
  <2>1. channel[<<d, t>>] # "none" => t = s /\ d \in Peers(s)
    BY DEF ShapeInv
  <2>2. CASE <<d, t>> # <<c, s>> \/ Listens(s)
    <3>1. channel'[<<d, t>>] = channel[<<d, t>>]
      BY <1>10, <2>2 DEF Listens
    <3> QED BY <1>9, <1>11, <2>1, <3>1
  <2>3. CASE <<d, t>> = <<c, s>> /\ c \in Peers(s)
    BY <1>9, <2>3
  <2> QED BY <2>2, <2>3
<1>12. ASSUME NEW d \in Peers(s) PROVE ClientShape(s, d)'
  <2>1. ClientShape(s, d)
    BY DEF ShapeInv
  <2>2. CASE Listens(s)
    <3>1. pc'[d] = pc[d] /\ UNCHANGED <<tab, channel>>
      BY <1>2, <1>3, <2>2 DEF Listens
    <3> QED BY <1>1, <2>1, <3>1 DEF ClientShape
  <2>3. CASE c \in Peers(s) /\ Accepts(c, s)
    <3>1. pc'[d] = pc[d] /\ tab'[d] = tab[d]
      BY <1>2, <1>3, <2>3 DEF Accepts
    <3>2. \/ channel'[<<d, s>>] = channel[<<d, s>>]
          \/ channel'[<<d, s>>] = "accepted" /\ channel[<<d, s>>] = "queued"
      BY <1>2, <1>3, <2>3 DEF Accepts
    <3> QED BY <1>1, <2>1, <3>1, <3>2 DEF ClientShape
  <2>4. CASE c \in Peers(s) /\ Asks(c, s)
    <3>1. CASE d # c
      <4>1. pc'[d] = pc[d] /\ tab'[d] = tab[d] /\ channel'[<<d, s>>] = channel[<<d, s>>]
        BY <1>2, <1>3, <2>4, <3>1 DEF Asks
      <4> QED BY <1>1, <2>1, <4>1 DEF ClientShape
    <3>2. CASE d = c
      <4>1. tab'[d] = <<s>>
        BY <1>2, <1>3, <2>4, <3>2 DEF Asks
      <4>2. \/ channel'[<<d, s>>] = "queued" /\ pc'[d] = 2
            \/ channel'[<<d, s>>] = "refused" /\ pc'[d] = 0
        BY <1>2, <1>3, <2>4, <3>2 DEF Asks
      <4> QED BY <4>1, <4>2 DEF ClientShape
    <3> QED BY <3>1, <3>2
  <2> QED BY <2>2, <2>3, <2>4
<1>13. ServerShape(s)'
  <2>1. ServerShape(s)
    BY DEF ShapeInv
  <2>2. CASE Listens(s)
    <3>1. pc'[s] = 2
      BY <1>2, <1>3, <2>2 DEF Listens
    <3> QED BY <3>1 DEF ServerShape
  <2>3. CASE c \in Peers(s) /\ Accepts(c, s)
    <3>1. pc'[s] = 3 /\ tab'[s] = <<c>> /\ channel'[<<c, s>>] = "accepted"
      BY <1>2, <1>3, <2>3 DEF Accepts
    <3> QED BY <1>9, <2>3, <3>1 DEF ServerShape
  <2>4. CASE c \in Peers(s) /\ Asks(c, s)
    <3>1. pc'[s] = pc[s] /\ tab'[s] = tab[s]
      BY <1>2, <1>3, <2>4 DEF Asks
    <3>2. channel[<<c, s>>] = "none"
      BY <2>4 DEF Asks, ShapeInv, ClientShape
    <3>3. channel'[<<c, s>>] # "accepted"
      BY <1>2, <1>3, <2>4 DEF Asks
    <3>4. \A d \in Peers(s) : channel'[<<d, s>>] = "accepted" <=> channel[<<d, s>>] = "accepted"
      BY <1>2, <1>10, <3>2, <3>3
    <3> QED BY <1>9, <2>1, <3>1, <3>4 DEF ServerShape
  <2> QED BY <2>2, <2>3, <2>4
<1> QED BY <1>6, <1>7, <1>8, <1>9, <1>11, <1>12, <1>13 DEF ShapeInv

\* The shape is inductive.
LEMMA ShapeStep ==
    ASSUME NEW s, Blocking(s), ShapeInv(s), StreamStep(s)
    PROVE  ShapeInv(s)' /\ Blocking(s)'
<1>1. UNCHANGED <<ex, alarm>> /\ inside' \in [Procs -> BOOLEAN] /\ s \in DOMAIN ex.prog
  BY DEF StreamStep, Blocking
<1>2. Blocking(s)'
  BY <1>1 DEF Blocking, Peers
<1>3. ASSUME NEW c, Listens(s) \/ (c \in Peers(s) /\ (Asks(c, s) \/ Accepts(c, s)))
      PROVE  ShapeInv(s)'
  BY <1>1, <1>3, OpensShape
<1>4. ASSUME NEW p \in DOMAIN ex.prog, Leaves(p) \/ Rests PROVE ShapeInv(s)'
  BY <1>1, <1>4, LeavesShape
<1>5. ASSUME NEW p \in DOMAIN ex.prog, NEW q,
             \/ Misses(p, q)
             \/ \E k \in Nat \ {0} : Takes(p, q, k) \/ \E quit \in BOOLEAN : Puts(p, q, k, quit)
      PROVE  ShapeInv(s)'
  <2>1. Changes(p, q)
    BY <1>5, CallsChange
  <2> QED BY <1>1, <2>1, ChangesShape
<1> QED BY <1>1, <1>2, <1>3, <1>4, <1>5 DEF StreamStep
-----------------------------------------------------------------------------
(* Taking turns *)

\* The server of a dialogue talks to c.
Current(s, c) == pc[s] \in {3, 4} /\ tab[s] = <<c>>

\* The sides of the conversation of s and c that have to move.
SidesToMove(s, c) ==
    (IF pc[c] = 2 THEN 1 ELSE 0) + (IF Current(s, c) /\ pc[s] = 4 THEN 1 ELSE 0)
        + level[<<c, s>>] + level[<<s, c>>]

\* There is one, and no other if no message is longer than a unit.
OneMoves(s, c, longest) == SidesToMove(s, c) >= 1 /\ (longest = 1 => SidesToMove(s, c) = 1)

\* A client that goes on has not said "quit", and a server that no longer listens to it has.
Turns(s, c, longest) ==
    pc[c] # 0 =>
        /\ ~said[<<c, s>>]
        /\ channel[<<c, s>>] = "queued" => OneMoves(s, c, longest)
        /\ channel[<<c, s>>] = "accepted" =>
              IF Current(s, c) THEN OneMoves(s, c, longest) ELSE said[<<s, c>>]

TurnInv(s, longest) ==
    /\ pc[s] # 0
    /\ longest = 1 => \A p \in Procs : due[p] = 0
    /\ \A c \in Peers(s) : Runs(s) /\ Runs(c) => Turns(s, c, longest)

\* What does not touch a conversation leaves its turn alone.
LEMMA TurnFrame ==
    ASSUME NEW s, NEW c, NEW longest, Turns(s, c, longest),
           pc'[c] = pc[c], channel'[<<c, s>>] = channel[<<c, s>>],
           level'[<<c, s>>] = level[<<c, s>>], level'[<<s, c>>] = level[<<s, c>>],
           said'[<<c, s>>] = said[<<c, s>>], said'[<<s, c>>] = said[<<s, c>>],
           (pc'[s] = pc[s] /\ tab'[s] = tab[s]) \/ (~Current(s, c) /\ ~Current(s, c)')
    PROVE  Turns(s, c, longest)'
<1>1. Current(s, c)' <=> Current(s, c)
  BY DEF Current
<1>2. (Current(s, c) /\ pc[s] = 4)' <=> (Current(s, c) /\ pc[s] = 4)
  BY <1>1 DEF Current
<1>3. SidesToMove(s, c)' = SidesToMove(s, c)
  BY <1>2 DEF SidesToMove
<1>4. OneMoves(s, c, longest)' <=> OneMoves(s, c, longest)
  BY <1>3 DEF OneMoves
<1> QED BY <1>1, <1>4 DEF Turns

\* Who is at a call of a dialogue, and where it goes on.
LEMMA DialogueCall ==
    ASSUME NEW s \in Servers, NEW longest \in Lengths, Dialogue(ex, s, longest),
           ShapeInv(s), TurnInv(s, longest),
           NEW p \in DOMAIN ex.prog, NEW q, NEW op \in {"recv", "send"}, Calls(p, q, op)
    PROVE  /\ p \in Procs /\ q \in Procs /\ Runs(p) /\ Instr(p).op = op /\ Want(p) \in Nat
           /\ longest = 1 /\ op = "send" => Want(p) = 1
           /\ \/ /\ p = s /\ q \in Peers(s) /\ Current(s, q) /\ channel[<<q, s>>] = "accepted"
                 /\ \A i \in Nat : Follows(i, s) => i # 0
                 /\ \/ pc[s] = 3 /\ op = "recv" /\ Instr(s).next = 4 /\ Instr(s).quit = 2
                    \/ pc[s] = 4 /\ op = "send" /\ Instr(s).next = 3 /\ Instr(s).quit = 2
              \/ /\ p \in Peers(s) /\ q = s
                 /\ \/ pc[p] = 2 /\ op = "send" /\ Instr(p).next = 3 /\ Instr(p).quit = 0
                    \/ pc[p] = 3 /\ op = "recv" /\ Instr(p).next = 2 /\ Instr(p).quit = 2
<1>1. Blocking(s)
  BY DialogueProgram
<1>2. /\ p \in Procs /\ q \in Procs /\ <<p, q>> \in Pairs /\ <<q, p>> \in Pairs
      /\ <<p, q>> # <<q, p>> /\ Instr(p).op = op
      /\ \/ /\ p = s /\ q \in Peers(s) /\ pc[s] \in {3, 4} /\ channel[<<q, s>>] = "accepted"
            /\ pc[q] # 1 /\ Call(Instr(p), {0, 2, 3, 4})
         \/ /\ p \in Peers(s) /\ q = s /\ pc[p] \in {2, 3} /\ channel[<<p, s>>] # "none"
            /\ Call(Instr(p), {0, 2, 3})
  BY <1>1, CallOf
<1>3. Runs(p) /\ tab[p] = <<q>> /\ due[p] \in Nat
  BY <1>2 DEF Calls, ShapeInv, StreamTypes
<1>4. Want(p) \in Nat
  BY <1>2, <1>3 DEF Want, Call
<1>5. longest = 1 => due[p] = 0
  BY <1>2 DEF TurnInv
<1>6. CASE p = s
  <2>1. q \in Peers(s) /\ pc[s] \in {3, 4} /\ channel[<<q, s>>] = "accepted"
    BY <1>2, <1>6 DEF Peers
  <2>2. CASE pc[s] = 3
    <3>1. /\ Instr(s).op = "recv" /\ Instr(s).next = 4 /\ Instr(s).quit = 2
          /\ Instr(s).eof = 4 /\ Instr(s).err = 3
      BY <2>2, DialogueProgram DEF Instr
    <3>2. \A i \in Nat : Follows(i, s) => i # 0
      BY <2>2, <3>1 DEF Follows
    <3>3. Current(s, q)
      BY <1>3, <1>6, <2>2 DEF Current
    <3> QED BY <1>2, <1>3, <1>4, <1>6, <2>1, <2>2, <3>1, <3>2, <3>3
  <2>3. CASE pc[s] = 4
    <3>1. /\ Instr(s).op = "send" /\ Instr(s).n = longest /\ Instr(s).next = 3
          /\ Instr(s).quit = 2 /\ Instr(s).err = 3
      BY <2>3, DialogueProgram DEF Instr
    <3>2. \A i \in Nat : Follows(i, s) => i # 0
      BY <2>3, <3>1 DEF Follows
    <3>3. Current(s, q)
      BY <1>3, <1>6, <2>3 DEF Current
    <3>4. longest = 1 => Want(p) = 1
      BY <1>5, <1>6, <3>1 DEF Want
    <3> QED BY <1>2, <1>3, <1>4, <1>6, <2>1, <2>3, <3>1, <3>2, <3>3, <3>4
  <2> QED BY <2>1, <2>2, <2>3
<1>7. CASE p # s
  <2>1. p \in Peers(s) /\ q = s /\ pc[p] \in {2, 3}
    BY <1>2, <1>7
  <2>2. /\ ex.prog[p][2].op = "send" /\ ex.prog[p][2].n = longest /\ ex.prog[p][2].next = 3
        /\ ex.prog[p][2].quit = 0
        /\ ex.prog[p][3].op = "recv" /\ ex.prog[p][3].next = 2 /\ ex.prog[p][3].quit = 2
    BY <2>1, DialogueProgram
  <2>3. longest = 1 /\ op = "send" => Want(p) = 1
    BY <1>2, <1>5, <2>1, <2>2 DEF Want, Instr
  <2> QED BY <1>2, <1>3, <1>4, <2>1, <2>2, <2>3 DEF Instr
<1> QED BY <1>6, <1>7

\* The processes of a dialogue, and the variables of theirs.
LEMMA DialogueTypes ==
    ASSUME NEW s \in Servers, NEW longest \in Lengths, Dialogue(ex, s, longest), ShapeInv(s)
    PROVE  /\ s \in Procs /\ s \notin Clients
           /\ \A c \in Peers(s) :
                 /\ c \in Clients /\ c \in Procs /\ c # s /\ c \notin Servers
                 /\ <<c, s>> \in Pairs /\ <<s, c>> \in Pairs /\ <<c, s>> # <<s, c>>
                 /\ level[<<c, s>>] \in Nat /\ level[<<s, c>>] \in Nat
           /\ pc \in [Procs -> Nat] /\ due \in [Procs -> Nat] /\ level \in [Pairs -> Nat]
           /\ said \in [Pairs -> BOOLEAN]
<1>1. Blocking(s)
  BY DialogueProgram
<1>2. /\ pc \in [Procs -> Nat] /\ due \in [Procs -> Nat] /\ level \in [Pairs -> Nat]
      /\ said \in [Pairs -> BOOLEAN]
  BY DEF ShapeInv, StreamTypes
<1>3. s \in Procs /\ s \notin Clients
  BY StreamsAssumption DEF Procs
<1>4. ASSUME NEW c \in Peers(s)
      PROVE  /\ c \in Clients /\ c \in Procs /\ c # s /\ c \notin Servers
             /\ <<c, s>> \in Pairs /\ <<s, c>> \in Pairs /\ <<c, s>> # <<s, c>>
  <2>1. c \in Clients /\ c \in Procs /\ c # s /\ c \notin Servers
    BY <1>1, <1>3, StreamsAssumption DEF Blocking, Procs
  <2> QED BY <1>3, <2>1 DEF Pairs
<1> QED BY <1>2, <1>3, <1>4

\* A step of p with q leaves the turns of the others alone.
LEMMA OtherTurns ==
    ASSUME NEW s \in Servers, NEW longest \in Lengths, Dialogue(ex, s, longest), ShapeInv(s),
           NEW p \in Procs, NEW q, tab[p] = <<q>>, p = s \/ q = s,
           NEW i \in Nat, pc' = [pc EXCEPT ![p] = i], UNCHANGED <<tab, channel>>,
           NEW c \in Peers(s), c # p, c # q, Turns(s, c, longest),
           level'[<<c, s>>] = level[<<c, s>>], level'[<<s, c>>] = level[<<s, c>>],
           said'[<<c, s>>] = said[<<c, s>>], said'[<<s, c>>] = said[<<s, c>>]
    PROVE  Turns(s, c, longest)'
<1>1. s \in Procs /\ c \in Procs /\ c # s /\ pc \in [Procs -> Nat]
  BY DialogueTypes
<1>2. pc'[c] = pc[c]
  BY <1>1
<1>3. CASE p # s
  <2>1. pc'[s] = pc[s]
    BY <1>1, <1>3
  <2> QED BY <1>2, <2>1, TurnFrame
<1>4. CASE p = s
  <2>1. ~Current(s, c) /\ ~Current(s, c)'
    BY <1>4 DEF Current
  <2> QED BY <1>2, <2>1, TurnFrame
<1> QED BY <1>3, <1>4

\* Something is read.
LEMMA TakesTurn ==
    ASSUME NEW s \in Servers, NEW longest \in Lengths, Dialogue(ex, s, longest),
           ShapeInv(s), TurnInv(s, longest), UNCHANGED ex,
           NEW p \in DOMAIN ex.prog, NEW q, NEW k \in Nat \ {0}, Takes(p, q, k)
    PROVE  TurnInv(s, longest)'
<1>1. Calls(p, q, "recv")
  BY DEF Takes
<1>2. /\ p \in Procs /\ q \in Procs /\ Runs(p)
      /\ \/ /\ p = s /\ q \in Peers(s) /\ Current(s, q) /\ channel[<<q, s>>] = "accepted"
            /\ pc[s] = 3 /\ Instr(s).next = 4 /\ Instr(s).quit = 2
         \/ /\ p \in Peers(s) /\ q = s
            /\ pc[p] = 3 /\ Instr(p).next = 2 /\ Instr(p).quit = 2
  BY <1>1, DialogueCall
<1>3. /\ s \in Procs /\ pc \in [Procs -> Nat] /\ due \in [Procs -> Nat]
      /\ level \in [Pairs -> Nat]
      /\ \A c \in Peers(s) : c \in Procs /\ c # s
            /\ <<c, s>> \in Pairs /\ <<s, c>> \in Pairs /\ <<c, s>> # <<s, c>>
            /\ level[<<c, s>>] \in Nat /\ level[<<s, c>>] \in Nat
  BY DialogueTypes
<1>4. PICK i \in {Instr(p).next, Instr(p).quit} :
         /\ pc' = [pc EXCEPT ![p] = i]
         /\ i = Instr(p).next \/ (said[<<q, p>>] /\ k = 1 /\ level[<<q, p>>] = 1)
  BY DEF Takes
<1>5. /\ level' = [level EXCEPT ![<<q, p>>] = level[<<q, p>>] - k] /\ k =< level[<<q, p>>]
      /\ due' = [due EXCEPT ![p] = 0] /\ UNCHANGED <<st, tab, channel, said, rst>>
  BY <1>2, <1>3 DEF Takes
<1>6. i \in Nat
  BY <1>2
<1>7. pc'[s] # 0
  BY <1>2, <1>3, <1>4 DEF TurnInv
<1>8. longest = 1 => \A x \in Procs : due'[x] = 0
  BY <1>3, <1>5 DEF TurnInv
<1>9. ASSUME NEW c \in Peers(s), Runs(s)', Runs(c)' PROVE Turns(s, c, longest)'
  <2>1. Turns(s, c, longest)
    BY <1>5, <1>9 DEF Runs, TurnInv
  <2>2. CASE p = s /\ q = c
    <3>1. /\ Current(s, c) /\ channel[<<c, s>>] = "accepted" /\ pc[s] = 3
          /\ Instr(s).next = 4 /\ Instr(s).quit = 2
      BY <1>2, <1>3, <2>2
    <3>2. pc'[c] = pc[c] /\ pc'[s] = i
      BY <1>3, <1>4, <2>2
    <3>3. /\ level'[<<c, s>>] = level[<<c, s>>] - k /\ level'[<<s, c>>] = level[<<s, c>>]
          /\ k =< level[<<c, s>>]
      BY <1>3, <1>5, <2>2
    <3>4. CASE pc[c] # 0
      <4>1. ~said[<<c, s>>] /\ OneMoves(s, c, longest)
        BY <2>1, <3>1, <3>4 DEF Turns
      <4>2. pc'[s] = 4
        BY <1>4, <2>2, <3>1, <3>2, <4>1
      <4>3. Current(s, c)'
        BY <1>5, <3>1, <4>2 DEF Current
      <4>4. OneMoves(s, c, longest)'
        BY <1>3, <3>1, <3>2, <3>3, <4>1, <4>2, <4>3 DEF OneMoves, SidesToMove
      <4> QED BY <1>5, <3>1, <4>1, <4>3, <4>4 DEF Turns
    <3> QED BY <3>2, <3>4 DEF Turns
  <2>3. CASE p = c /\ q = s
    <3>1. pc[c] = 3 /\ Instr(c).next = 2 /\ Instr(c).quit = 2
      BY <1>2, <1>3, <2>3
    <3>2. pc'[c] = 2 /\ pc'[s] = pc[s]
      BY <1>3, <1>4, <2>3, <3>1
    <3>3. /\ level'[<<s, c>>] = level[<<s, c>>] - k /\ level'[<<c, s>>] = level[<<c, s>>]
          /\ k =< level[<<s, c>>]
      BY <1>3, <1>5, <2>3
    <3>4. (Current(s, c)' <=> Current(s, c))
      BY <1>5, <3>2 DEF Current
    <3>5. OneMoves(s, c, longest) => OneMoves(s, c, longest)'
      <4>1. (Current(s, c) /\ pc[s] = 4)' <=> (Current(s, c) /\ pc[s] = 4)
        BY <3>2, <3>4
      <4> QED BY <1>3, <3>1, <3>2, <3>3, <4>1 DEF OneMoves, SidesToMove
    <3> QED BY <1>5, <2>1, <3>1, <3>4, <3>5 DEF Turns
  <2>4. CASE c # p /\ c # q
    <3>1. tab[p] = <<q>>
      BY <1>1 DEF Calls
    <3>2. <<c, s>> # <<q, p>> /\ <<s, c>> # <<q, p>>
      BY <2>4
    <3>3. level'[<<c, s>>] = level[<<c, s>>] /\ level'[<<s, c>>] = level[<<s, c>>]
      BY <1>3, <1>5, <3>2
    <3>4. p = s \/ q = s
      BY <1>2
    <3> QED BY <1>2, <1>4, <1>5, <1>6, <2>1, <2>4, <3>1, <3>3, <3>4, OtherTurns
  <2> QED BY <1>2, <1>3, <2>2, <2>3, <2>4
<1>10. Peers(s)' = Peers(s)
  BY DEF Peers
<1> QED BY <1>7, <1>8, <1>9, <1>10 DEF TurnInv

\* Something is written.
LEMMA PutsTurn ==
    ASSUME NEW s \in Servers, NEW longest \in Lengths, Dialogue(ex, s, longest),
           ShapeInv(s), TurnInv(s, longest), UNCHANGED ex,
           NEW p \in DOMAIN ex.prog, NEW q, NEW k \in Nat \ {0}, NEW quit \in BOOLEAN,
           Puts(p, q, k, quit)
    PROVE  TurnInv(s, longest)'
<1>1. Calls(p, q, "send")
  BY DEF Puts
<1>2. /\ p \in Procs /\ q \in Procs /\ Runs(p) /\ Want(p) \in Nat
      /\ longest = 1 => Want(p) = 1
      /\ \/ /\ p = s /\ q \in Peers(s) /\ Current(s, q) /\ channel[<<q, s>>] = "accepted"
            /\ pc[s] = 4 /\ Instr(s).next = 3 /\ Instr(s).quit = 2
         \/ /\ p \in Peers(s) /\ q = s
            /\ pc[p] = 2 /\ Instr(p).next = 3 /\ Instr(p).quit = 0
  BY <1>1, DialogueCall
<1>3. /\ s \in Procs /\ pc \in [Procs -> Nat] /\ due \in [Procs -> Nat]
      /\ level \in [Pairs -> Nat] /\ said \in [Pairs -> BOOLEAN]
      /\ \A c \in Peers(s) : c \in Procs /\ c # s
            /\ <<c, s>> \in Pairs /\ <<s, c>> \in Pairs /\ <<c, s>> # <<s, c>>
            /\ level[<<c, s>>] \in Nat /\ level[<<s, c>>] \in Nat
  BY DialogueTypes
<1>4. PICK more \in Nat :
         /\ more + k =< Want(p) /\ (quit => more = 0)
         /\ due' = [due EXCEPT ![p] = more]
         /\ pc' = [pc EXCEPT ![p] = IF more # 0 THEN pc[p]
                                    ELSE IF quit THEN Instr(p).quit ELSE Instr(p).next]
  BY DEF Puts
<1>5. longest = 1 => more = 0 /\ k = 1
  BY <1>2, <1>4
<1>6. PICK i \in Nat : /\ pc' = [pc EXCEPT ![p] = i]
                       /\ IF more # 0 THEN i = pc[p]
                          ELSE IF quit THEN i = Instr(p).quit ELSE i = Instr(p).next
  BY <1>2, <1>3, <1>4
<1>7. /\ level' = [level EXCEPT ![<<p, q>>] = level[<<p, q>>] + k]
      /\ said' = [said EXCEPT ![<<p, q>>] = quit] /\ UNCHANGED <<st, tab, channel, rst>>
  BY <1>3 DEF Puts
<1>8. pc'[s] # 0
  BY <1>2, <1>3, <1>6 DEF TurnInv
<1>9. longest = 1 => \A x \in Procs : due'[x] = 0
  BY <1>3, <1>4, <1>5 DEF TurnInv
<1>10. ASSUME NEW c \in Peers(s), Runs(s)', Runs(c)' PROVE Turns(s, c, longest)'
  <2>1. Turns(s, c, longest)
    BY <1>7, <1>10 DEF Runs, TurnInv
  <2>2. CASE p = s /\ q = c
    <3>1. /\ Current(s, c) /\ channel[<<c, s>>] = "accepted" /\ pc[s] = 4
          /\ Instr(s).next = 3 /\ Instr(s).quit = 2
      BY <1>2, <1>3, <2>2
    <3>2. pc'[c] = pc[c] /\ pc'[s] = i
      BY <1>3, <1>6, <2>2
    <3>3. /\ level'[<<s, c>>] = level[<<s, c>>] + k /\ level'[<<c, s>>] = level[<<c, s>>]
          /\ said'[<<s, c>>] = quit /\ said'[<<c, s>>] = said[<<c, s>>]
      BY <1>3, <1>7, <2>2
    <3>4. CASE pc[c] # 0
      <4>1. ~said[<<c, s>>] /\ OneMoves(s, c, longest)
        BY <2>1, <3>1, <3>4 DEF Turns
      <4>2. CASE quit
        <5>1. ~Current(s, c)'
          BY <1>4, <1>6, <2>2, <3>1, <3>2, <4>2 DEF Current
        <5> QED BY <1>7, <3>1, <3>3, <4>1, <4>2, <5>1 DEF Turns
      <4>3. CASE ~quit
        <5>1. /\ pc'[s] = IF more # 0 THEN 4 ELSE 3
              /\ Current(s, c)'
          BY <1>6, <1>7, <2>2, <3>1, <3>2, <4>3 DEF Current
        <5>2. OneMoves(s, c, longest)'
          BY <1>3, <1>5, <3>1, <3>2, <3>3, <4>1, <5>1 DEF OneMoves, SidesToMove
        <5> QED BY <1>7, <3>1, <3>3, <4>1, <5>1, <5>2 DEF Turns
      <4> QED BY <4>2, <4>3
    <3> QED BY <3>2, <3>4 DEF Turns
  <2>3. CASE p = c /\ q = s
    <3>1. pc[c] = 2 /\ Instr(c).next = 3 /\ Instr(c).quit = 0
      BY <1>2, <1>3, <2>3
    <3>2. pc'[c] = i /\ pc'[s] = pc[s]
      BY <1>3, <1>6, <2>3
    <3>3. /\ level'[<<c, s>>] = level[<<c, s>>] + k /\ level'[<<s, c>>] = level[<<s, c>>]
          /\ said'[<<c, s>>] = quit /\ said'[<<s, c>>] = said[<<s, c>>]
      BY <1>3, <1>7, <2>3
    <3>4. (Current(s, c)' <=> Current(s, c))
      BY <1>7, <3>2 DEF Current
    <3>5. CASE quit
      <4>1. pc'[c] = 0
        BY <1>4, <1>6, <2>3, <3>1, <3>2, <3>5
      <4> QED BY <4>1 DEF Turns
    <3>6. CASE ~quit
      <4>1. pc'[c] = IF more # 0 THEN 2 ELSE 3
        BY <1>6, <2>3, <3>1, <3>2, <3>6
      <4>2. OneMoves(s, c, longest) => OneMoves(s, c, longest)'
        <5>1. (Current(s, c) /\ pc[s] = 4)' <=> (Current(s, c) /\ pc[s] = 4)
          BY <3>2, <3>4
        <5> QED BY <1>3, <1>5, <3>1, <3>3, <4>1, <5>1 DEF OneMoves, SidesToMove
      <4> QED BY <1>7, <2>1, <3>1, <3>3, <3>4, <3>6, <4>2 DEF Turns
    <3> QED BY <3>5, <3>6
  <2>4. CASE c # p /\ c # q
    <3>1. tab[p] = <<q>>
      BY <1>1 DEF Calls
    <3>2. <<c, s>> # <<p, q>> /\ <<s, c>> # <<p, q>>
      BY <2>4
    <3>3. /\ level'[<<c, s>>] = level[<<c, s>>] /\ level'[<<s, c>>] = level[<<s, c>>]
          /\ said'[<<c, s>>] = said[<<c, s>>] /\ said'[<<s, c>>] = said[<<s, c>>]
      BY <1>3, <1>7, <3>2
    <3>4. p = s \/ q = s
      BY <1>2
    <3> QED BY <1>2, <1>6, <1>7, <2>1, <2>4, <3>1, <3>3, <3>4, OtherTurns
  <2> QED BY <1>2, <1>3, <2>2, <2>3, <2>4
<1>11. Peers(s)' = Peers(s)
  BY DEF Peers
<1> QED BY <1>8, <1>9, <1>10, <1>11 DEF TurnInv

\* A call to a peer that is gone.
LEMMA MissesTurn ==
    ASSUME NEW s \in Servers, NEW longest \in Lengths, Dialogue(ex, s, longest),
           ShapeInv(s), TurnInv(s, longest), UNCHANGED ex,
           NEW p \in DOMAIN ex.prog, NEW q, Misses(p, q)
    PROVE  TurnInv(s, longest)'
<1>1. Calls(p, q, "recv") \/ Calls(p, q, "send")
  BY DEF Misses
<1>2. /\ p \in Procs /\ q \in Procs /\ Runs(p) /\ Want(p) \in Nat
      /\ longest = 1 /\ Instr(p).op = "send" => Want(p) = 1
      /\ \/ p = s /\ q \in Peers(s) /\ \A i \in Nat : Follows(i, s) => i # 0
         \/ p \in Peers(s) /\ q = s
  <2>1. CASE Calls(p, q, "recv")
    BY <2>1, DialogueCall
  <2>2. CASE Calls(p, q, "send")
    <3>1. /\ p \in Procs /\ q \in Procs /\ Runs(p) /\ Want(p) \in Nat
          /\ longest = 1 => Want(p) = 1
          /\ \/ /\ p = s /\ q \in Peers(s) /\ Current(s, q) /\ channel[<<q, s>>] = "accepted"
                /\ \A i \in Nat : Follows(i, s) => i # 0
                /\ pc[s] = 4 /\ Instr(s).next = 3 /\ Instr(s).quit = 2
             \/ /\ p \in Peers(s) /\ q = s
                /\ pc[p] = 2 /\ Instr(p).next = 3 /\ Instr(p).quit = 0
      BY <2>2, DialogueCall
    <3> QED BY <3>1
  <2> QED BY <1>1, <2>1, <2>2
<1>3. /\ s \in Procs /\ pc \in [Procs -> Nat] /\ due \in [Procs -> Nat]
      /\ said \in [Pairs -> BOOLEAN]
      /\ \A c \in Peers(s) : c \in Procs /\ c # s /\ <<c, s>> \in Pairs /\ <<s, c>> \in Pairs
  BY DialogueTypes
<1>4. PICK i \in Nat : pc' = [pc EXCEPT ![p] = i] /\ Follows(i, p)
  BY DEF Misses
<1>5. longest = 1 => due' = [due EXCEPT ![p] = 0]
  <2>1. PICK d \in Nat : /\ due' = [due EXCEPT ![p] = d]
                         /\ d = 0 \/ (Instr(p).op = "send" /\ d < Want(p))
    BY DEF Misses
  <2>2. CASE longest = 1
    <3>1. d = 0
      BY <1>2, <2>1, <2>2
    <3> QED BY <2>1, <3>1
  <2> QED BY <2>2
<1>6. /\ \E b \in BOOLEAN : said' = [said EXCEPT ![<<p, q>>] = b]
      /\ UNCHANGED <<st, tab, channel, level>> /\ Gone(q)
  BY DEF Misses
<1>7. pc'[s] # 0
  BY <1>2, <1>3, <1>4 DEF TurnInv
<1>8. longest = 1 => \A x \in Procs : due'[x] = 0
  BY <1>3, <1>5 DEF TurnInv
<1>9. ASSUME NEW c \in Peers(s), Runs(s)', Runs(c)' PROVE Turns(s, c, longest)'
  <2>1. Runs(s) /\ Runs(c) /\ Turns(s, c, longest)
    BY <1>6, <1>9 DEF Runs, TurnInv
  <2>2. q # s /\ q # c
    BY <1>6, <2>1 DEF Runs, Gone
  <2>3. p = s /\ c # p
    BY <1>2, <1>3, <2>2
  <2>4. <<c, s>> # <<p, q>> /\ <<s, c>> # <<p, q>>
    BY <2>2, <2>3
  <2>5. said'[<<c, s>>] = said[<<c, s>>] /\ said'[<<s, c>>] = said[<<s, c>>]
    BY <1>3, <1>6, <2>4
  <2>6. tab[p] = <<q>>
    BY <1>1 DEF Calls
  <2> QED BY <1>2, <1>4, <1>6, <2>1, <2>2, <2>3, <2>5, <2>6, OtherTurns
<1>10. Peers(s)' = Peers(s)
  BY DEF Peers
<1> QED BY <1>7, <1>8, <1>9, <1>10 DEF TurnInv

\* listen(), connect(), accept(), the end of a program and RST.
LEMMA OthersTurn ==
    ASSUME NEW s \in Servers, NEW longest \in Lengths, Dialogue(ex, s, longest),
           ShapeInv(s), TurnInv(s, longest), UNCHANGED ex, NEW p,
           \/ Listens(s) \/ Rests
           \/ p \in DOMAIN ex.prog /\ Leaves(p)
           \/ p \in Peers(s) /\ (Asks(p, s) \/ Accepts(p, s))
    PROVE  TurnInv(s, longest)'
<1>1. UNCHANGED <<due, said>>
  BY DEF Listens, Asks, Accepts, Rests, Leaves
<1>3. /\ s \in Procs
      /\ \A c \in Peers(s) : c \in Clients /\ c \in Procs /\ c # s /\ <<c, s>> \in Pairs
                            /\ <<s, c>> \in Pairs
                            /\ level[<<c, s>>] \in Nat /\ level[<<s, c>>] \in Nat
  BY DialogueTypes
<1>4. /\ pc \in [Procs -> Nat] /\ tab \in [Procs -> Seq(Procs)]
      /\ st \in [Procs -> {"run", "done", "died", "stopped", "absent"}]
      /\ channel \in [Clients \X Servers -> {"none", "queued", "accepted", "refused"}]
  BY DEF ShapeInv, StreamTypes
<1>5. pc'[s] # 0
  BY <1>3, <1>4 DEF Listens, Asks, Accepts, Rests, Leaves, TurnInv
<1>6. longest = 1 => \A x \in Procs : due'[x] = 0
  BY <1>1 DEF TurnInv
<1>7. ASSUME NEW c \in Peers(s), Runs(s)', Runs(c)' PROVE Turns(s, c, longest)'
  <2>1. c \in Procs /\ c # s /\ <<c, s>> \in Pairs /\ <<s, c>> \in Pairs
    BY <1>3
  <2>2. CASE Listens(s)
    <3>1. /\ pc'[c] = pc[c] /\ UNCHANGED <<st, tab, channel, level>>
          /\ pc[s] = 1 /\ pc'[s] = 2
      BY <1>3, <1>4, <2>1, <2>2 DEF Listens
    <3>2. Turns(s, c, longest)
      BY <1>7, <3>1 DEF TurnInv, Runs
    <3>3. ~Current(s, c) /\ ~Current(s, c)'
      BY <3>1 DEF Current
    <3> QED BY <1>1, <3>1, <3>2, <3>3, TurnFrame
  <2>3. CASE Rests
    <3>1. UNCHANGED <<st, pc, tab, channel, level>>
      BY <2>3 DEF Rests
    <3>2. Turns(s, c, longest)
      BY <1>7, <3>1 DEF TurnInv, Runs
    <3> QED BY <1>1, <3>1, <3>2, TurnFrame
  <2>4. CASE p \in DOMAIN ex.prog /\ Leaves(p)
    <3>1. UNCHANGED <<pc, tab, channel>>
      BY <2>4 DEF Leaves
    <3>2. p # s /\ p # c /\ Runs(s) /\ Runs(c)
      BY <1>3, <1>4, <1>7, <2>1, <2>4 DEF Leaves, Runs
    <3>3. level'[<<c, s>>] = level[<<c, s>>] /\ level'[<<s, c>>] = level[<<s, c>>]
      BY <2>1, <2>4, <3>2 DEF Leaves
    <3>4. Turns(s, c, longest)
      BY <3>2 DEF TurnInv
    <3> QED BY <1>1, <3>1, <3>3, <3>4, TurnFrame
  <2>5. CASE p \in Peers(s) /\ Asks(p, s)
    <3>1. UNCHANGED <<st, level>> /\ pc'[s] = pc[s] /\ tab'[s] = tab[s]
      BY <1>3, <1>4, <2>5 DEF Asks
    <3>2. Turns(s, c, longest)
      BY <1>7, <3>1 DEF TurnInv, Runs
    <3>3. CASE p # c
      <4>1. pc'[c] = pc[c] /\ channel'[<<c, s>>] = channel[<<c, s>>]
        BY <1>3, <1>4, <2>1, <2>5, <3>3 DEF Asks
      <4> QED BY <1>1, <3>1, <3>2, <4>1, TurnFrame
    <3>4. CASE p = c
      <4>1. \/ channel'[<<c, s>>] = "queued" /\ pc'[c] = 2
            \/ pc'[c] = 0
        BY <1>3, <1>4, <2>1, <2>5, <3>4 DEF Asks
      <4>2. /\ level[<<c, s>>] = 0 /\ level[<<s, c>>] = 0 /\ pc[c] = 1
            /\ channel[<<c, s>>] = "none"
        BY <2>5, <3>4 DEF Asks, ShapeInv, ClientShape
      <4>3. ~said[<<c, s>>]
        BY <3>2, <4>2 DEF Turns
      <4>4. ~Current(s, c)
        <5> SUFFICES ASSUME pc[s] \in {3, 4}, tab[s] = <<c>> PROVE FALSE
          BY DEF Current
        <5>1. PICK d \in Peers(s) : tab[s] = <<d>> /\ channel[<<d, s>>] = "accepted"
          BY DEF ShapeInv, ServerShape
        <5>2. d = c
          BY <5>1
        <5> QED BY <4>2, <5>1, <5>2
      <4>5. ~Current(s, c)'
        BY <3>1, <4>4 DEF Current
      <4>6. CASE pc'[c] = 0
        BY <4>6 DEF Turns
      <4>7. CASE channel'[<<c, s>>] = "queued" /\ pc'[c] = 2
        <5>1. SidesToMove(s, c)' = 1
          BY <3>1, <4>2, <4>5, <4>7 DEF SidesToMove
        <5> QED BY <1>1, <4>3, <4>7, <5>1 DEF Turns, OneMoves
      <4> QED BY <4>1, <4>6, <4>7
    <3> QED BY <3>3, <3>4
  <2>6. CASE p \in Peers(s) /\ Accepts(p, s)
    <3>1. /\ UNCHANGED <<st, level>> /\ pc'[c] = pc[c] /\ pc[s] = 2 /\ pc'[s] = 3
          /\ tab'[s] = <<p>>
      BY <1>3, <1>4, <2>1, <2>6 DEF Accepts
    <3>2. Turns(s, c, longest)
      BY <1>7, <3>1 DEF TurnInv, Runs
    <3>3. CASE p # c
      <4>1. channel'[<<c, s>>] = channel[<<c, s>>]
        BY <1>3, <1>4, <2>1, <2>6, <3>3 DEF Accepts
      <4>2. ~Current(s, c) /\ ~Current(s, c)'
        BY <3>1, <3>3 DEF Current
      <4> QED BY <1>1, <3>1, <3>2, <4>1, <4>2, TurnFrame
    <3>4. CASE p = c
      <4>1. channel[<<c, s>>] = "queued" /\ channel'[<<c, s>>] = "accepted"
        BY <1>3, <1>4, <2>1, <2>6, <3>4 DEF Accepts
      <4>2. SidesToMove(s, c)' = SidesToMove(s, c)
        BY <3>1 DEF SidesToMove
      <4>3. Current(s, c)'
        BY <3>1, <3>4 DEF Current
      <4> QED BY <1>1, <3>1, <3>2, <4>1, <4>2, <4>3 DEF Turns, OneMoves
    <3> QED BY <3>3, <3>4
  <2> QED BY <2>2, <2>3, <2>4, <2>5, <2>6
<1>8. Peers(s)' = Peers(s)
  BY DEF Peers
<1> QED BY <1>5, <1>6, <1>7, <1>8 DEF TurnInv

\* Taking turns is inductive.
LEMMA TurnStep ==
    ASSUME NEW s \in Servers, NEW longest \in Lengths, Dialogue(ex, s, longest),
           ShapeInv(s), TurnInv(s, longest), StreamStep(s)
    PROVE  TurnInv(s, longest)'
<1>1. UNCHANGED ex
  BY DEF StreamStep
<1>2. ASSUME NEW p, \/ Listens(s) \/ Rests
                    \/ p \in DOMAIN ex.prog /\ Leaves(p)
                    \/ p \in Peers(s) /\ (Asks(p, s) \/ Accepts(p, s))
      PROVE  TurnInv(s, longest)'
  BY <1>1, <1>2, OthersTurn
<1>3. ASSUME NEW p \in DOMAIN ex.prog, NEW q, Misses(p, q) PROVE TurnInv(s, longest)'
  BY <1>1, <1>3, MissesTurn
<1>4. ASSUME NEW p \in DOMAIN ex.prog, NEW q, NEW k \in Nat \ {0}, Takes(p, q, k)
      PROVE  TurnInv(s, longest)'
  BY <1>1, <1>4, TakesTurn
<1>5. ASSUME NEW p \in DOMAIN ex.prog, NEW q, NEW k \in Nat \ {0}, NEW quit \in BOOLEAN,
             Puts(p, q, k, quit)
      PROVE  TurnInv(s, longest)'
  BY <1>1, <1>5, PutsTurn
<1> QED BY <1>2, <1>3, <1>4, <1>5 DEF StreamStep
-----------------------------------------------------------------------------
(* Reading and writing in turn *)

\* Two programs that alternate do not both wait to read with nothing on the way.
JamInv(s, c) ==
    Runs(s) /\ Runs(c) =>
        /\ At(s, "recv") /\ At(c, "recv") => level[<<c, s>>] + level[<<s, c>>] > 0
        /\ pc[s] \in {1, 2} /\ At(c, "recv") /\ ex.prog[s][3].op = "recv"
              => level[<<c, s>>] > 0

\* After a call that is over the program is at the other one.
LEMMA OtherCall ==
    ASSUME NEW s \in Servers, NEW c \in Clients, Alternates(ex, s, c), ShapeInv(s),
           NEW p \in DOMAIN ex.prog, NEW q, NEW op \in {"recv", "send"}, Calls(p, q, op)
    PROVE  /\ p \in Procs /\ q \in Procs /\ Runs(p) /\ Want(p) \in Nat \ {0}
           /\ \/ p = s /\ q = c
              \/ p = c /\ q = s
           /\ Instr(p).op = op /\ Instr(p).next = Instr(p).quit
           /\ Instr(p).next \in Nat \ {0, 1} /\ (p = s => Instr(p).next # 2)
           /\ ex.prog[p][Instr(p).next].op # op
<1>1. /\ Blocking(s) /\ Peers(s) = {c}
      /\ \/ ex.prog[s][3].op = "send" /\ ex.prog[s][4].op = "recv"
         \/ ex.prog[s][3].op = "recv" /\ ex.prog[s][4].op = "send"
      /\ \/ ex.prog[c][2].op = "send" /\ ex.prog[c][3].op = "recv"
         \/ ex.prog[c][2].op = "recv" /\ ex.prog[c][3].op = "send"
      /\ ex.prog[s][3].next = 4 /\ ex.prog[s][3].quit = 4
      /\ ex.prog[s][4].next = 3 /\ ex.prog[s][4].quit = 3
      /\ ex.prog[c][2].next = 3 /\ ex.prog[c][2].quit = 3
      /\ ex.prog[c][3].next = 2 /\ ex.prog[c][3].quit = 2
  BY AlternatesProgram
<1>2. /\ p \in Procs /\ q \in Procs /\ <<p, q>> \in Pairs /\ <<q, p>> \in Pairs
      /\ <<p, q>> # <<q, p>> /\ Instr(p).op = op
      /\ \/ /\ p = s /\ q \in Peers(s) /\ pc[s] \in {3, 4} /\ channel[<<q, s>>] = "accepted"
            /\ pc[q] # 1 /\ Call(Instr(p), {0, 2, 3, 4})
         \/ /\ p \in Peers(s) /\ q = s /\ pc[p] \in {2, 3} /\ channel[<<p, s>>] # "none"
            /\ Call(Instr(p), {0, 2, 3})
  BY <1>1, CallOf
<1>3. Runs(p) /\ due[p] \in Nat
  BY <1>2 DEF Calls, ShapeInv, StreamTypes
<1>4. Want(p) \in Nat \ {0}
  BY <1>2, <1>3 DEF Want, Call
<1>5. s # c
  BY StreamsAssumption
<1>6. CASE p = s
  <2>1. q = c /\ pc[s] \in {3, 4}
    BY <1>1, <1>2, <1>5, <1>6
  <2>2. CASE pc[s] = 3
    <3>1. /\ Instr(p).next = 4 /\ Instr(p).quit = 4 /\ ex.prog[p][4].op # Instr(p).op
      BY <1>1, <1>6, <2>2 DEF Instr
    <3> QED BY <1>2, <1>3, <1>4, <1>6, <2>1, <3>1
  <2>3. CASE pc[s] = 4
    <3>1. /\ Instr(p).next = 3 /\ Instr(p).quit = 3 /\ ex.prog[p][3].op # Instr(p).op
      BY <1>1, <1>6, <2>3 DEF Instr
    <3> QED BY <1>2, <1>3, <1>4, <1>6, <2>1, <3>1
  <2> QED BY <2>1, <2>2, <2>3
<1>7. CASE p # s
  <2>1. p = c /\ q = s /\ pc[c] \in {2, 3}
    BY <1>1, <1>2, <1>7
  <2>2. CASE pc[c] = 2
    BY <1>1, <1>2, <1>3, <1>4, <1>5, <1>7, <2>1, <2>2 DEF Instr
  <2>3. CASE pc[c] = 3
    BY <1>1, <1>2, <1>3, <1>4, <1>5, <1>7, <2>1, <2>3 DEF Instr
  <2> QED BY <2>1, <2>2, <2>3
<1> QED BY <1>6, <1>7

\* Alternating is inductive.
LEMMA JamStep ==
    ASSUME NEW s \in Servers, NEW c \in Clients, Alternates(ex, s, c), ShapeInv(s), JamInv(s, c),
           StreamStep(s)
    PROVE  JamInv(s, c)'
<1>1. /\ Blocking(s) /\ Peers(s) = {c} /\ s \in DOMAIN ex.prog /\ c \in DOMAIN ex.prog
      /\ ex.prog[s][3].op = "send" \/ ex.prog[c][2].op = "send"
  BY AlternatesProgram DEF Alternates
<1>2. /\ s # c /\ s \in Procs /\ c \in Procs /\ <<c, s>> \in Pairs /\ <<s, c>> \in Pairs
      /\ <<c, s>> # <<s, c>>
  BY StreamsAssumption DEF Procs, Pairs
<1>3. /\ pc \in [Procs -> Nat] /\ level \in [Pairs -> Nat]
      /\ st \in [Procs -> {"run", "done", "died", "stopped", "absent"}]
      /\ channel \in [Clients \X Servers -> {"none", "queued", "accepted", "refused"}]
      /\ level[<<c, s>>] \in Nat /\ level[<<s, c>>] \in Nat
  BY <1>2 DEF ShapeInv, StreamTypes
<1>4. UNCHANGED ex
  BY DEF StreamStep
<1> SUFFICES ASSUME Runs(s)', Runs(c)'
             PROVE  /\ At(s, "recv")' /\ At(c, "recv")'
                          => level'[<<c, s>>] + level'[<<s, c>>] > 0
                    /\ pc'[s] \in {1, 2} /\ At(c, "recv")' /\ ex.prog[s][3].op = "recv"
                          => level'[<<c, s>>] > 0
  BY <1>4 DEF JamInv
<1> DEFINE Goal == /\ At(s, "recv")' /\ At(c, "recv")'
                          => level'[<<c, s>>] + level'[<<s, c>>] > 0
                   /\ pc'[s] \in {1, 2} /\ At(c, "recv")' /\ ex.prog[s][3].op = "recv"
                          => level'[<<c, s>>] > 0
<1>5. ASSUME NEW p \in DOMAIN ex.prog, NEW q, NEW k \in Nat \ {0}, Takes(p, q, k)
      PROVE  Goal
  <2>1. Calls(p, q, "recv")
    BY <1>5 DEF Takes
  <2>2. /\ \/ p = s /\ q = c
           \/ p = c /\ q = s
        /\ Instr(p).next = Instr(p).quit
        /\ Instr(p).next \in Nat \ {0, 1} /\ (p = s => Instr(p).next # 2)
        /\ ex.prog[p][Instr(p).next].op # "recv"
    BY <2>1, OtherCall
  <2>3. pc' = [pc EXCEPT ![p] = Instr(p).next]
    BY <1>5, <2>2 DEF Takes
  <2>4. pc'[p] = Instr(p).next
    BY <1>2, <1>3, <2>2, <2>3
  <2>5. ~At(p, "recv")'
    BY <1>4, <2>2, <2>4 DEF At, Instr
  <2>6. p = s => pc'[s] \notin {1, 2}
    BY <2>2, <2>4
  <2> QED BY <2>2, <2>5, <2>6
<1>6. ASSUME NEW p \in DOMAIN ex.prog, NEW q, NEW k \in Nat \ {0}, NEW quit \in BOOLEAN,
             Puts(p, q, k, quit)
      PROVE  Goal
  <2>1. Calls(p, q, "send") /\ UNCHANGED st
    BY <1>6 DEF Puts
  <2>2. /\ \/ p = s /\ q = c
           \/ p = c /\ q = s
        /\ Instr(p).op = "send" /\ Instr(p).next = Instr(p).quit
        /\ Instr(p).next \in Nat \ {0, 1} /\ (p = s => Instr(p).next # 2)
    BY <2>1, OtherCall
  <2>3. level'[<<p, q>>] > 0 /\ level'[<<q, p>>] = level[<<q, p>>]
    <3>1. level' = [level EXCEPT ![<<p, q>>] = level[<<p, q>>] + k]
      BY <1>6 DEF Puts
    <3>2. <<p, q>> \in Pairs /\ <<q, p>> \in Pairs /\ <<p, q>> # <<q, p>>
      BY <1>2, <2>2
    <3>3. level[<<p, q>>] \in Nat
      BY <1>3, <2>2
    <3> QED BY <1>3, <3>1, <3>2, <3>3
  <2>4. level'[<<c, s>>] + level'[<<s, c>>] > 0
    <3>1. level'[<<p, q>>] \in Nat
      BY <1>2, <1>3, <1>6, <2>2 DEF Puts
    <3> QED BY <1>3, <2>2, <2>3, <3>1
  <2>5. CASE p = c
    BY <1>2, <2>2, <2>3, <2>4, <2>5
  <2>6. CASE p = s
    <3>1. pc[s] \in {3, 4}
      <4>1. /\ ex.prog[s][1].op = "listen" /\ ex.prog[s][2].op = "accept" /\ pc[s] # 0
            /\ pc[s] \in 0 .. 4
        BY <1>1, <2>1, <2>6 DEF Blocking, Calls, ShapeInv, ServerShape
      <4> QED BY <2>2, <2>6, <4>1 DEF Instr
    <3>2. pc'[s] \in {pc[s], Instr(s).next}
      BY <1>2, <1>3, <1>6, <2>2, <2>6 DEF Puts
    <3>3. pc'[s] \notin {1, 2}
      BY <2>2, <2>6, <3>1, <3>2
    <3> QED BY <2>4, <3>3
  <2> QED BY <2>2, <2>5, <2>6
<1>7. ASSUME NEW p \in DOMAIN ex.prog, NEW q, Misses(p, q) PROVE FALSE
  <2>1. PICK op \in {"recv", "send"} : Calls(p, q, op)
    BY <1>7 DEF Misses
  <2>2. (p = s /\ q = c) \/ (p = c /\ q = s)
    BY <2>1, OtherCall
  <2>3. Gone(q) /\ UNCHANGED st
    BY <1>7 DEF Misses
  <2> QED BY <2>2, <2>3 DEF Gone, Runs
<1>8. ASSUME Rests PROVE Goal
  BY <1>4, <1>8 DEF Rests, JamInv, At, Runs, Instr
<1>9. ASSUME NEW p \in DOMAIN ex.prog, Leaves(p) PROVE Goal
  <2>1. p # s /\ p # c /\ Runs(s) /\ Runs(c)
    BY <1>2, <1>3, <1>9 DEF Leaves, Runs
  <2>2. level'[<<c, s>>] = level[<<c, s>>] /\ level'[<<s, c>>] = level[<<s, c>>]
    BY <1>2, <1>9, <2>1 DEF Leaves
  <2>3. UNCHANGED pc
    BY <1>9 DEF Leaves
  <2> QED BY <1>4, <2>1, <2>2, <2>3 DEF JamInv, At, Instr
<1>10. ASSUME Listens(s) PROVE Goal
  <2>1. UNCHANGED <<st, level>> /\ pc[s] = 1 /\ pc'[s] = 2 /\ pc'[c] = pc[c]
    BY <1>2, <1>3, <1>10 DEF Listens
  <2>2. ~At(s, "recv")'
    BY <1>1, <1>4, <2>1 DEF At, Instr, Blocking
  <2> QED BY <1>4, <2>1, <2>2 DEF JamInv, At, Runs, Instr
<1>11. ASSUME Asks(c, s) PROVE Goal
  <2>1. /\ UNCHANGED <<st, level>> /\ pc[c] = 1 /\ pc'[s] = pc[s]
        /\ channel[<<c, s>>] = "none"
    BY <1>1, <1>2, <1>3, <1>11 DEF Asks, ShapeInv, ClientShape
  <2>2. pc'[c] \in {0, 2}
    BY <1>2, <1>3, <1>11 DEF Asks
  <2>3. pc[s] \notin {3, 4}
    BY <1>1, <2>1 DEF ShapeInv, ServerShape
  <2>4. ~At(s, "recv")'
    <3>1. ~At(s, "recv")
      BY <1>1, <2>3 DEF At, Instr, Blocking, Return, ShapeInv, ServerShape
    <3> QED BY <1>4, <2>1, <3>1 DEF At, Runs, Instr
  <2>5. At(c, "recv")' => ex.prog[c][2].op = "recv"
    BY <1>4, <2>2 DEF At, Instr, Return
  <2>6. ex.prog[s][3].op = "recv" => ~At(c, "recv")'
    BY <1>1, <2>5
  <2> QED BY <2>4, <2>6
<1>12. ASSUME Accepts(c, s) PROVE Goal
  <2>1. /\ UNCHANGED <<st, level>> /\ pc[s] = 2 /\ pc'[s] = 3 /\ pc'[c] = pc[c]
    BY <1>2, <1>3, <1>12 DEF Accepts
  <2>2. At(s, "recv")' => ex.prog[s][3].op = "recv"
    BY <1>4, <2>1 DEF At, Instr
  <2>3. At(c, "recv")' => At(c, "recv")
    BY <1>4, <2>1 DEF At, Instr, Runs
  <2>4. Runs(s) /\ Runs(c)
    BY <2>1 DEF Runs
  <2>5. At(s, "recv")' /\ At(c, "recv")' => level[<<c, s>>] > 0
    BY <2>1, <2>2, <2>3, <2>4 DEF JamInv
  <2> QED BY <1>3, <2>1, <2>5
<1>13. ASSUME NEW d \in Peers(s), Asks(d, s) \/ Accepts(d, s) PROVE Goal
  <2>1. d = c
    BY <1>1
  <2> QED BY <1>11, <1>12, <1>13, <2>1
<1> HIDE DEF Goal
<1>14. Goal
  BY <1>5, <1>6, <1>7, <1>8, <1>9, <1>10, <1>13 DEF StreamStep
<1> QED BY <1>14 DEF Goal
-----------------------------------------------------------------------------
(* The theorems *)

\* What holds of every exercise all the time.
StreamsInv ==
    /\ ex \in Exercises
    /\ \A s \in Servers :
          /\ \A longest \in Lengths : Dialogue(ex, s, longest)
                                         => ShapeInv(s) /\ TurnInv(s, longest)
          /\ \A c \in Clients : Alternates(ex, s, c) => ShapeInv(s) /\ JamInv(s, c)

\* The exercise is chosen once.
LEMMA ExerciseStays ==
    ASSUME [StreamsNext]_streamsVars
    PROVE  ex' = ex
<1>1. ASSUME NEW p, NEW i, Goto(p, i) PROVE ex' = ex
  BY <1>1 DEF Goto
<1>2. ASSUME NEW p, NEW how, End(p, how) PROVE ex' = ex
  BY <1>2 DEF End
<1>3. ASSUME NEW p, Step(p) PROVE ex' = ex
  <2>1. CASE RecvTakes(p)
    <3>1. \E i : Goto(p, i)
      BY <2>1 DEF RecvTakes
    <3> QED BY <1>1, <3>1
  <2>2. CASE SendMoves(p)
    <3>1. \E i : Goto(p, i)
      BY <2>2 DEF SendMoves
    <3> QED BY <1>1, <3>1
  <2>3. CASE SendFails(p)
    <3>1. (\E i : Goto(p, i)) \/ End(p, "died")
      BY <2>3 DEF SendFails
    <3> QED BY <1>1, <1>2, <3>1
  <2>4. CASE \/ StepListen(p) \/ StepConnect(p) \/ StepAccept(p) \/ StepAcceptInto(p)
             \/ RecvSkips(p) \/ RecvEnds(p) \/ RecvFindsNothing(p)
    <3>1. \E i : Goto(p, i)
      BY <2>4 DEF StepListen, StepConnect, StepAccept, StepAcceptInto, RecvSkips, RecvEnds,
                  RecvFindsNothing
    <3> QED BY <1>1, <3>1
  <2>5. CASE StepAlarm(p) \/ Sleeps(p) \/ Finish(p)
    BY <1>2, <2>5 DEF StepAlarm, Sleeps, Finish
  <2> QED BY <1>3, <2>1, <2>2, <2>3, <2>4, <2>5 DEF Step
<1>4. ASSUME NEW p, Rings(p) \/ Stop(p) PROVE ex' = ex
  <2>1. CASE Stop(p)
    BY <1>2, <2>1 DEF Stop
  <2>2. CASE Rings(p)
    <3>1. Interrupted(p) => ex' = ex
      BY <1>1 DEF Interrupted
    <3>2. Interrupted(p) \/ End(p, "died")
      BY <2>2 DEF Rings
    <3> QED BY <1>2, <3>1, <3>2
  <2> QED BY <1>4, <2>1, <2>2
<1>5. ASSUME StreamsNetwork PROVE ex' = ex
  BY <1>5 DEF StreamsNetwork, Handshake, ResetArrives
<1> QED BY <1>3, <1>4, <1>5 DEF StreamsNext, streamsVars

\* Before anything has happened.
LEMMA ShapeAtStart ==
    ASSUME StreamsInit, NEW s, Blocking(s)
    PROVE  ShapeInv(s)
<1>1. /\ s \in Servers /\ s \in Procs /\ \A c \in Peers(s) : c \in Clients /\ c \in Procs
  BY DEF Blocking, Procs
<1>2. ex.cap \in Nat
  BY StreamsAssumption DEF StreamsInit
<1>3. << >> \in Seq(Procs)
  OBVIOUS
<1>4. tab \in [Procs -> Seq(Procs)]
  BY <1>3 DEF StreamsInit
<1>5. StreamTypes
  BY <1>4 DEF StreamsInit, StreamTypes
<1>6. \A p \in Procs : ~alarm[p] /\ (Runs(p) => p \in DOMAIN ex.prog)
  BY DEF StreamsInit, Runs
<1>7. \A pq \in Pairs : level[pq] =< ex.cap /\ (rst[pq] # "no" => Gone(pq[2]))
  BY <1>2 DEF StreamsInit
<1>8. \A c \in Clients, t \in Servers : channel[<<c, t>>] = "none"
  BY DEF StreamsInit
<1>9. ASSUME NEW c \in Peers(s) PROVE ClientShape(s, c)
  <2>1. <<c, s>> \in Pairs /\ <<s, c>> \in Pairs
    BY <1>1, StreamsAssumption DEF Pairs
  <2>2. /\ pc[c] = 1 /\ tab[c] = << >> /\ level[<<c, s>>] = 0 /\ level[<<s, c>>] = 0
        /\ channel[<<c, s>>] = "none"
    BY <1>1, <2>1 DEF StreamsInit
  <2> QED BY <2>2 DEF ClientShape
<1>10. ServerShape(s)
  <2>1. pc[s] = 1
    BY <1>1 DEF StreamsInit
  <2>2. \A c \in Peers(s) : channel[<<c, s>>] = "none"
    BY <1>1, <1>8
  <2> QED BY <2>1, <2>2 DEF ServerShape
<1> QED BY <1>5, <1>6, <1>7, <1>8, <1>9, <1>10 DEF ShapeInv

\* The invariant holds of the socket exercises, whatever their clients and capacity.
THEOREM StreamsAlways == StreamsSafety => []StreamsInv
<1>1. StreamsInit => StreamsInv
  <2> SUFFICES ASSUME StreamsInit PROVE StreamsInv
    OBVIOUS
  <2>1. ASSUME NEW s \in Servers, NEW longest \in Lengths, Dialogue(ex, s, longest)
        PROVE  ShapeInv(s) /\ TurnInv(s, longest)
    <3>1. Blocking(s)
      BY <2>1, DialogueProgram
    <3>2. ShapeInv(s)
      BY <3>1, ShapeAtStart
    <3>3. s \in Procs /\ \A c \in Peers(s) : c \in Clients
      BY <3>1 DEF Blocking, Procs
    <3>4. pc[s] = 1 /\ \A p \in Procs : due[p] = 0
      BY <3>3 DEF StreamsInit
    <3>5. \A c \in Peers(s) : channel[<<c, s>>] = "none"
      BY <3>3 DEF StreamsInit
    <3>6. \A c \in Peers(s) : ~said[<<c, s>>]
      BY <2>1, <3>2, DialogueTypes DEF StreamsInit
    <3> QED BY <3>2, <3>4, <3>5, <3>6 DEF TurnInv, Turns
  <2>2. ASSUME NEW s \in Servers, NEW c \in Clients, Alternates(ex, s, c)
        PROVE  ShapeInv(s) /\ JamInv(s, c)
    <3>1. Blocking(s) /\ c \in Peers(s)
      BY <2>2, AlternatesProgram
    <3>2. ShapeInv(s)
      BY <3>1, ShapeAtStart
    <3>3. pc[s] = 1 /\ pc[c] = 1
      BY DEF StreamsInit, Procs
    <3>4. ~At(s, "recv") /\ ~At(c, "recv")
      BY <3>1, <3>3 DEF At, Instr, Blocking
    <3> QED BY <3>2, <3>4 DEF JamInv
  <2> QED BY <2>1, <2>2 DEF StreamsInv, StreamsInit
<1>2. StreamsInv /\ [StreamsNext]_streamsVars => StreamsInv'
  <2> SUFFICES ASSUME StreamsInv, [StreamsNext]_streamsVars PROVE StreamsInv'
    OBVIOUS
  <2>1. ex' = ex
    BY ExerciseStays
  <2>2. ASSUME NEW s \in Servers, NEW longest \in Lengths, Dialogue(ex, s, longest)
        PROVE  ShapeInv(s)' /\ TurnInv(s, longest)'
    <3>1. Blocking(s) /\ ShapeInv(s) /\ TurnInv(s, longest)
      BY <2>2, DialogueProgram DEF StreamsInv
    <3>2. StreamStep(s)
      BY <3>1, StepIs
    <3> QED BY <2>2, <3>1, <3>2, ShapeStep, TurnStep
  <2>3. ASSUME NEW s \in Servers, NEW c \in Clients, Alternates(ex, s, c)
        PROVE  ShapeInv(s)' /\ JamInv(s, c)'
    <3>1. Blocking(s) /\ ShapeInv(s) /\ JamInv(s, c)
      BY <2>3, AlternatesProgram DEF StreamsInv
    <3>2. StreamStep(s)
      BY <3>1, StepIs
    <3> QED BY <2>3, <3>1, <3>2, ShapeStep, JamStep
  <2> QED BY <2>1, <2>2, <2>3 DEF StreamsInv
<1> QED BY <1>1, <1>2, PTL DEF StreamsSafety

\* A dialogue never stops with both sides waiting, and with messages of one unit never has
\* two sides to move: however many clients the server has, however large the buffers are
\* and however long the messages.
THEOREM DialoguesTakeTurns == StreamsSafety => []InTurn
<1>1. StreamsInv => InTurn
  <2> SUFFICES ASSUME StreamsInv, Claimed("turns"), NEW c \in Clients, NEW t \in Servers,
                      Both(c, t), pc[c] # Return
               PROVE  IF tab[t] = <<c>> /\ ~At(t, "accept")
                      THEN LET moves == ToMove(c, t) + ToMove(t, c)
                           IN  moves >= 1 /\ (Claimed("short") => moves = 1)
                      ELSE ~Types(c, t) => level[<<t, c>>] > 0 \/ said[<<t, c>>]
    BY DEF InTurn
  <2>1. PICK s \in Servers, longest \in Lengths :
           Dialogue(ex, s, longest) /\ (Claimed("short") => longest = 1)
    BY ClaimsAssumption DEF Claimed, StreamsInv
  <2>2. ShapeInv(s) /\ TurnInv(s, longest) /\ Blocking(s)
    BY <2>1, DialogueProgram DEF StreamsInv
  <2>3. Runs(c) /\ Runs(t) /\ channel[<<c, t>>] = "accepted"
    BY DEF Both, Accepted, Channel
  <2>4. t = s /\ c \in Peers(s) /\ pc[c] # 0
    BY <2>2, <2>3 DEF ShapeInv, Return
  <2>5. Turns(s, c, longest)
    BY <2>2, <2>3, <2>4 DEF TurnInv
  <2>6. /\ ClientShape(s, c) /\ ServerShape(s) /\ pc[s] # 0
    BY <2>2, <2>4 DEF ShapeInv, TurnInv
  <2>7. pc[s] \in {2, 3, 4}
    BY <2>3, <2>4, <2>6 DEF ServerShape
  <2>8. /\ ex.prog[s][2].op = "accept" /\ ex.prog[s][3].op = "recv" /\ ex.prog[s][4].op = "send"
        /\ ex.prog[c][2].op = "send" /\ ex.prog[c][3].op = "recv"
    BY <2>1, <2>2, <2>4, DialogueProgram DEF Blocking
  <2>9. pc[c] \in {2, 3} /\ tab[c] = <<s>>
    BY <2>3, <2>4, <2>6 DEF ClientShape
  <2>10. Types(c, s) <=> pc[c] = 2
    BY <2>3, <2>8, <2>9 DEF Types, At, Instr, PeerAt, Slot, Return
  <2>11. At(s, "accept") <=> pc[s] = 2
    BY <2>3, <2>4, <2>7, <2>8 DEF At, Instr, Return
  <2>12. CASE tab[s] = <<c>> /\ ~At(s, "accept")
    <3>1. Current(s, c) /\ pc[s] \in {3, 4}
      BY <2>7, <2>11, <2>12 DEF Current
    <3>2. Types(s, c) <=> pc[s] = 4
      BY <2>3, <2>4, <2>8, <2>12, <3>1 DEF Types, At, Instr, PeerAt, Slot, Return
    <3>3. OneMoves(s, c, longest)
      BY <2>3, <2>4, <2>5, <3>1 DEF Turns
    <3>4. level[<<c, s>>] \in Nat /\ level[<<s, c>>] \in Nat
      BY <2>1, <2>2, <2>4, DialogueTypes
    <3>5. ToMove(c, s) + ToMove(s, c) = SidesToMove(s, c)
      BY <2>10, <3>1, <3>2, <3>4 DEF ToMove, SidesToMove
    <3> QED BY <2>1, <2>4, <2>12, <3>3, <3>5 DEF OneMoves
  <2>13. CASE ~(tab[s] = <<c>> /\ ~At(s, "accept"))
    <3>1. ~Current(s, c)
      BY <2>11, <2>13 DEF Current
    <3>2. said[<<s, c>>]
      BY <2>3, <2>4, <2>5, <3>1 DEF Turns
    <3> QED BY <2>4, <2>13, <3>2
  <2> QED BY <2>4, <2>12, <2>13
<1> QED BY <1>1, StreamsAlways, PTL

\* The pairs of sync/06 that read and write in turn only ever wait for each other in
\* write(), with the buffers of both directions full: whatever rNum, wNum and the
\* capacity of the buffers are.
THEOREM AlternatingJams == StreamsSafety => []JamIsWriteWrite
<1>1. StreamsInv => JamIsWriteWrite
  <2> SUFFICES ASSUME StreamsInv, Claimed("alternates"), NEW pq \in Pairs,
                      Both(pq[1], pq[2]), Waits(pq[1], pq[2]), Waits(pq[2], pq[1])
               PROVE  /\ At(pq[1], "send") /\ At(pq[2], "send")
                      /\ Room(pq[1], pq[2]) = 0 /\ Room(pq[2], pq[1]) = 0
    BY DEF JamIsWriteWrite
  <2> DEFINE p == pq[1]
             q == pq[2]
  <2>1. PICK s \in Servers, c \in Clients : Alternates(ex, s, c)
    BY ClaimsAssumption DEF Claimed, StreamsInv
  <2>2. ShapeInv(s) /\ JamInv(s, c) /\ Peers(s) = {c}
    BY <2>1, AlternatesProgram DEF StreamsInv
  <2>3. /\ p \in Procs /\ q \in Procs /\ (p \in Servers) # (q \in Servers)
        /\ <<p, q>> \in Pairs /\ <<q, p>> \in Pairs
    BY DEF Pairs
  <2> HIDE DEF p, q
  <2>4. Runs(p) /\ Runs(q) /\ Channel(p, q) = "accepted" /\ Waits(p, q) /\ Waits(q, p)
    BY DEF Both, Accepted, p, q
  <2>5. (p = s /\ q = c) \/ (p = c /\ q = s)
    <3>1. CASE p \in Clients
      <4>1. q \in Servers /\ channel[<<p, q>>] = "accepted"
        BY <2>3, <2>4, <3>1, StreamsAssumption DEF Procs, Channel
      <4> QED BY <2>2, <3>1, <4>1 DEF ShapeInv
    <3>2. CASE p \notin Clients
      <4>1. p \in Servers /\ q \in Clients /\ channel[<<q, p>>] = "accepted"
        BY <2>3, <2>4, <3>2 DEF Procs, Channel
      <4> QED BY <2>2, <4>1 DEF ShapeInv
    <3> QED BY <3>1, <3>2
  <2>6. /\ level[<<p, q>>] \in Nat /\ level[<<q, p>>] \in Nat
        /\ level[<<p, q>>] =< ex.cap /\ level[<<q, p>>] =< ex.cap
    BY <2>2, <2>3 DEF ShapeInv, StreamTypes
  <2>7. ex.cap \in Nat \ {0}
    BY StreamsAssumption DEF StreamsInv
  <2>8. Joined(p, q) /\ Joined(q, p)
    BY <2>3, <2>4, StreamsAssumption DEF Joined, Channel, Procs
  <2>9. /\ \/ At(p, "recv") /\ level[<<q, p>>] = 0
           \/ At(p, "send") /\ level[<<p, q>>] = ex.cap
        /\ \/ At(q, "recv") /\ level[<<p, q>>] = 0
           \/ At(q, "send") /\ level[<<q, p>>] = ex.cap
    BY <2>4, <2>6, <2>7, <2>8 DEF Waits, CanRead, CanWrite, Room
  <2>10. ~(At(p, "recv") /\ At(q, "recv") /\ level[<<q, p>>] = 0 /\ level[<<p, q>>] = 0)
    BY <2>2, <2>4, <2>5, <2>6 DEF JamInv
  <2>11. /\ At(p, "send") /\ At(q, "send")
         /\ level[<<p, q>>] = ex.cap /\ level[<<q, p>>] = ex.cap
    BY <2>7, <2>9, <2>10
  <2>12. Room(p, q) = 0 /\ Room(q, p) = 0
    BY <2>6, <2>7, <2>11 DEF Room
  <2> QED BY <2>11, <2>12 DEF p, q
<1> QED BY <1>1, StreamsAlways, PTL
=============================================================================
