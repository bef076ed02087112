---------------------------- MODULE MCTcpStreams ----------------------------
(***************************************************************************)
(* TcpStreams for TLC: every program with its counterpart, one exercise at *)
(* a time, and what is claimed of each.  The claims name the properties.   *)
(***************************************************************************)
EXTENDS TcpStreams, TLC

Up == <<"c1", "s1">>
Down == <<"s1", "c1">>

Pair(server, client, cap, claims, stream) ==
    [prog |-> ("s1" :> server) @@ ("c1" :> client), cap |-> cap, claims |-> claims,
     stream |-> stream, stops |-> {"s1", "c1"}]

(* Two clients, one after the other: messages of up to 200 bytes, and of twice as much *)
(* (then nobody is stopped by his user).                                               *)
Dialogue1to3(longest, claims, stops) ==
    {[prog |-> ("s1" :> e[1]) @@ ("c1" :> e[2]) @@ ("c2" :> e[2]), cap |-> 2,
      claims |-> claims, stream |-> Up, stops |-> stops] :
        e \in {<<SyncServer1(longest), SyncClient1("s1", longest)>>,
               <<SyncServer2(longest), SyncClient2("s1", longest)>>,
               <<SyncServer3(longest), SyncClient3("s1", longest)>>}}

Dialogues == Dialogue1to3(1, {"turns", "short"}, {"s1", "c1"}) \union Dialogue1to3(2, {"turns"}, {})

OneWay ==
    {Pair(e[1], e[2], 3, {"ends"}, Up) :
        e \in ({SyncServer41, SyncServer42} \X
                {SyncClient411("s1"), SyncClient412("s1"),
                 SyncClient421("s1"), SyncClient422("s1")})
              \union {<<AsyncServer11, AsyncClient11("s1")>>,
                      <<AsyncServer12, AsyncClient12("s1")>>,
                      <<AsyncServer13, AsyncClient13("s1")>>}}
    \union {Pair(SyncServer51, SyncClient51("s1"), 3, {"ends", "flows"}, Up),
            Pair(SyncServer52, SyncClient52("s1"), 3, {"ends", "flows"}, Down),
            Pair(SyncServer53, SyncClient53("s1"), 3, {"ends", "flows"}, Up),
            Pair(AsyncServer21, AsyncClient21("s1"), 3, {"flows"}, Up),
            Pair(AsyncServer22, AsyncClient22("s1"), 3, {"flows"}, Down),
            Pair(AsyncServer31, AsyncClient31("s1"), 2, {"ends", "flows"}, Up),
            Pair(AsyncServer31, AsyncClient31("s1"), 2, {"ends", "flows"}, Down),
            Pair(AsyncServer32, AsyncClient32("s1"), 2, {"ends", "flows"}, Up),
            Pair(AsyncServer32, AsyncClient32("s1"), 2, {"ends", "flows"}, Down),
            Pair(AsyncServer41, AsyncClient41("s1"), 3, {"flows"}, Up),
            Pair(AsyncServer42, AsyncClient42("s1"), 3, {"flows"}, Up)}

(* rNum and wNum of the command lines: more is read than written, or less. *)
Alternating ==
    UNION {{Pair(SyncServer61(a[1], a[2]), SyncClient61("s1", a[3], a[4]), 3, {"ends"}, Up),
            Pair(SyncServer62(a[1], a[2]), SyncClient62("s1", a[3], a[4]), 3,
                 {"ends", "alternates"}, Up),
            Pair(SyncServer63(a[1], a[2]), SyncClient63("s1", a[3], a[4]), 3,
                 {"ends", "alternates"}, Up),
            Pair(SyncServer64(a[1], a[2]), SyncClient64("s1", a[3], a[4]), 3,
                 {"ends", "alternates"}, Up)} :
           a \in {1, 3} \X {1, 2} \X {1, 3} \X {1, 2}}

(* A server with two clients and a table of one or two, a client with two servers. *)
Tables ==
    {[prog |-> ("s1" :> AsyncServer5(MAX)) @@ ("c1" :> AsyncClient51("s1"))
               @@ ("c2" :> AsyncClient51("s1")),
      cap |-> 1, claims |-> {"flows"}, stream |-> Up, stops |-> {"c1"}] : MAX \in 1..2}
    \union {[prog |-> ("s1" :> AsyncServer5(1)) @@ ("s2" :> AsyncServer5(1))
                      @@ ("c1" :> AsyncClient52(<<"s1", "s2">>)),
             cap |-> 1, claims |-> {"flows"}, stream |-> stream, stops |-> {"s1"}] :
                stream \in {Down, <<"s2", "c1">>}}

MCExercises == Dialogues \union OneWay \union Alternating \union Tables
=============================================================================
