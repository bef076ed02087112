---------------------------- MODULE LayeredProofs ----------------------------
(***************************************************************************)
(* Proofs about linux-data-transfer: what its checksum detects, for sums   *)
(* of any words, and what the two versions promise of any number of        *)
(* transfers run by the scripts, and of the first two started by hand, for *)
(* any payload, length and data offset.                                    *)
(***************************************************************************)
EXTENDS LayeredTransfer, TLAPS

(***************************************************************************)
(* The chain of levels: each level that waits in a segment, and the one    *)
(* that fills the segment for it.                                          *)
(***************************************************************************)
Senders   == {"send-level-5", "send-level-4", "send-level-3", "send-level-2", "send-level-1"}
Receivers == {"recv-level-1", "recv-level-2", "recv-level-3", "recv-level-4", "recv-level-5"}
Readers == (Senders \cup Receivers) \ {"send-level-5", "recv-level-1"}

Writer(r) == CASE r = "send-level-4" -> "send-level-5" [] r = "send-level-3" -> "send-level-4"
               [] r = "send-level-2" -> "send-level-3" [] r = "send-level-1" -> "send-level-2"
               [] r = "recv-level-2" -> "recv-level-1" [] r = "recv-level-3" -> "recv-level-2"
               [] r = "recv-level-4" -> "recv-level-3" [] r = "recv-level-5" -> "recv-level-4"

States == {"off", "wait", "have", "made", "done", "failed", "killed", "orphan"}
Taken == {"have", "made", "done"}

Body == [type : Int, iplen : Int, addr : Int, ipck : Int, off : Int, tcpck : Int, data : Int]
Segment == [there : BOOLEAN, ready : Int, len : Int, datalen : Int, body : Body]

TypeOK ==
    /\ version \in Versions /\ scripted \in BOOLEAN /\ off \in offset
    /\ run \in Nat \ {0}
    /\ sender_dat \in [len : datalen, data : Payload] \cup {NoFile}
    /\ receiver_dat \in [len : Int, data : Int]
    /\ network_dat \in [len : Int, body : Body]
    /\ carried \in {"no", "whole", "altered"}
    /\ seg \in [Keys -> Segment]
    /\ pc \in [Levels -> States]
    /\ buf \in [Levels -> [body : Body, len : Int]]

(***************************************************************************)
(* What each level hands on in this transfer, and what each level of the   *)
(* receiver looks at first.                                                *)
(***************************************************************************)
Sent5 == [body |-> [Blank EXCEPT !.data = sender_dat.data], len |-> sender_dat.len]
Sent4 == [body |-> WithTcp(Sent5.body, off, Sent5.len),
          len  |-> Sent5.len + TcpLen + extern_len(off)]
Sent3 == [body |-> WithIp(Sent4.body, Sent4.len), len |-> Sent4.len + IpLen]
Sent2 == [body |-> WithEth(Sent3.body), len |-> AtLeastShortest(Sent3.len + EthLen)]

Frame == [len |-> Sent2.len, body |-> Sent2.body]

GivenBody(l) == CASE l = "send-level-5" -> Sent5.body [] l = "send-level-4" -> Sent4.body
                  [] l = "send-level-3" -> Sent3.body [] l = "send-level-2" -> Sent2.body
                  [] OTHER -> network_dat.body

PayloadLen(b) == b.iplen - IpLen - TcpLen - extern_len(b.off)

GivenLen(l) ==
    CASE l = "send-level-5" -> Sent5.len [] l = "send-level-4" -> Sent4.len
      [] l = "send-level-3" -> Sent3.len [] l = "send-level-2" -> Sent2.len
      [] l = "recv-level-1" -> network_dat.len
      [] l = "recv-level-2" -> IF version = "01" THEN network_dat.len - EthLen
                               ELSE network_dat.len
      [] l = "recv-level-3" -> IF version = "01" THEN network_dat.body.iplen
                               ELSE EthLen + network_dat.body.iplen
      [] l = "recv-level-4" -> IF version = "01" THEN PayloadLen(network_dat.body)
                               ELSE extern_len(network_dat.body.off)

Accepts(l, b) == CASE l = "recv-level-2" -> b.type = IPv4
                   [] l = "recv-level-3" -> b.ipck = IpChecksum(b)
                   [] l = "recv-level-4" -> b.off >= 5 /\ b.tcpck = TcpChecksum(b, b.iplen - IpLen)
                   [] OTHER -> TRUE

\* The levels work one after the other on what their transfer sends.
InOrder ==
    /\ \A l \in Senders : pc[l] \in {"off", "wait", "have", "made", "done"}
    /\ pc["send-level-5"] # "wait" /\ pc["send-level-1"] \in {"off", "wait", "done"}
    /\ pc["recv-level-1"] \in {"off", "have", "made", "done"}
    /\ pc["recv-level-5"] \notin {"have", "made"}
    /\ \A r \in Readers : scripted /\ pc[r] # "off" => pc[Writer(r)] \in Ended
    /\ (\E l \in Receivers : pc[l] = "killed") => \A l \in Receivers : pc[l] \in Ended
    /\ \A r \in Readers : pc[r] \in Taken => pc[Writer(r)] = "done"
    /\ \A l \in Receivers : pc[l] \in Taken => Accepts(l, network_dat.body)
    /\ \A r \in Readers : pc[r] = "failed" /\ (scripted \/ run = 1) =>
          carried = "altered" /\ pc[Writer(r)] \in Ended
    /\ \A r \in Readers : pc[r] = "killed" => pc[Writer(r)] # "done"

\* The files hold what was sent, or what it was altered to, and what is accepted of it.
FilesInv ==
    /\ carried = "no" => \A l \in Receivers : pc[l] = "off"
    /\ carried # "no" => pc["send-level-1"] = "done"
    /\ pc["send-level-1"] = "done" /\ carried # "altered" => network_dat = Frame
    /\ carried = "altered" => network_dat \in Altered(Frame)
    /\ receiver_dat # NoFile =>
          /\ pc["recv-level-5"] = "done"
          /\ receiver_dat = [len  |-> PayloadLen(network_dat.body),
                             data |-> network_dat.body.data]

SegmentsInv ==
    \A k \in Keys :
       /\ ~seg[k].there => seg[k] = Absent
       /\ (version = "02" <=> k \notin {1, 2}) => seg[k] = Absent

\* What a level finds ready although this transfer has not brought it there.
Stale(r, s) ==
    /\ r \in Receivers
    /\ CASE r = "recv-level-2" -> s.body.type # IPv4
         [] r = "recv-level-3" -> s.body.ipck # IpChecksum(s.body)
         [] r = "recv-level-4" -> \/ s.body.off < 5
                                  \/ s.body.tcpck # TcpChecksum(s.body, s.len - IpLen)
         [] OTHER -> FALSE

Fresh(r, s) == /\ s.ready = Awaited[r]
               /\ s.body = GivenBody(Writer(r)) /\ s.len = GivenLen(Writer(r))

\* Version 01: the segment between the level r and the one before it.
ChainLink(r) ==
    LET w == Writer(r) s == seg[From(r)] IN
    /\ pc[r] \in Taken => s = Absent
    /\ pc[w] = "made" => s.there /\ s.ready = 0
    /\ pc[w] = "done" /\ pc[r] \in {"off", "wait"} => Fresh(r, s)
    /\ pc[w] # "done" /\ s.ready = Awaited[r] => run > 1 /\ Stale(r, s)
    /\ pc[r] = "failed" /\ (scripted \/ run = 1) /\ s.ready = Awaited[r] => Stale(r, s)

ChainInv ==
    /\ \A l \in Levels : pc[l] # "orphan"
    /\ \A l \in Levels : pc[l] \in {"have", "made"} =>
          buf[l] = [body |-> GivenBody(l), len |-> GivenLen(l)]
    /\ \A r \in Readers : ChainLink(r)

\* Version 02: the one segment of a side, as the level r and the one before it see it.
InPlaceLink(r) ==
    LET w == Writer(r) s == seg[From(r)] IN
    /\ pc[w] = "done" /\ pc[r] \in {"off", "wait"} => Fresh(r, s)
    /\ s.ready = Awaited[r] =>
          \/ pc[w] = "done" /\ pc[r] \in {"off", "wait"}
          \/ /\ pc[w] = "done" /\ pc[r] = "failed"
             /\ scripted \/ run = 1 => r = "recv-level-4" /\ s.body.off < 5
          \/ r = "recv-level-4" /\ run > 1 /\ pc["recv-level-1"] = "off" /\ s.body.off < 5

InPlaceSending ==
    /\ \A l \in Senders : pc[l] # "orphan"
    /\ pc["send-level-1"] = "done" => seg[1] = Absent
    /\ pc["send-level-5"] \in {"off", "made"} => seg[1].body = Blank /\ seg[1].ready = 0
    /\ pc["send-level-5"] = "made" => seg[1].there
    /\ \A r \in Readers \cap Senders : InPlaceLink(r)

InPlaceReceiving ==
    /\ (\E l \in Receivers : pc[l] = "orphan") => seg[2].ready = 0 /\ pc["recv-level-1"] = "done"
    /\ \A r \in Readers \cap Receivers : pc[r] = "orphan" => pc[Writer(r)] # "done"
    /\ pc["recv-level-5"] = "done" => seg[2] = Absent
    /\ pc["recv-level-1"] = "made" => seg[2].there /\ seg[2].ready = 0
    /\ pc["recv-level-4"] = "done" /\ pc["recv-level-5"] # "done" =>
          seg[2].datalen = PayloadLen(network_dat.body)
    /\ \A r \in Readers \cap Receivers : InPlaceLink(r)

InPlaceInv == InPlaceSending /\ InPlaceReceiving

IInv ==
    /\ TypeOK
    /\ scripted \/ run =< 2 =>
          /\ InOrder /\ FilesInv /\ SegmentsInv
          /\ version = "01" => ChainInv
          /\ version = "02" => InPlaceInv
-----------------------------------------------------------------------------
(* The tables *)

\* The levels as sets, and the tables of the code read off one by one.
LEMMA LevelSets ==
    /\ Range(Sending) = Senders /\ Range(Receiving) = Receivers
    /\ Levels = Senders \cup Receivers
<1>1. DOMAIN Sending = 1 .. 5 /\ DOMAIN Receiving = 1 .. 5
  BY SMT DEF Sending, Receiving
<1>2. Range(Sending) = Senders
  BY <1>1, SMT DEF Range, Sending, Senders
<1>3. Range(Receiving) = Receivers
  BY <1>1, SMT DEF Range, Receiving, Receivers
<1> QED BY <1>2, <1>3 DEF Levels

LEMMA Writers ==
    /\ Writer("send-level-4") = "send-level-5" /\ Writer("send-level-3") = "send-level-4"
    /\ Writer("send-level-2") = "send-level-3" /\ Writer("send-level-1") = "send-level-2"
    /\ Writer("recv-level-2") = "recv-level-1" /\ Writer("recv-level-3") = "recv-level-2"
    /\ Writer("recv-level-4") = "recv-level-3" /\ Writer("recv-level-5") = "recv-level-4"
  BY SMT DEF Writer

LEMMA AwaitedIs ==
    /\ Awaited["send-level-4"] = 5 /\ Awaited["send-level-3"] = 4
    /\ Awaited["send-level-2"] = 3 /\ Awaited["send-level-1"] = 2
    /\ Awaited["recv-level-2"] = 1 /\ Awaited["recv-level-3"] = 2
    /\ Awaited["recv-level-4"] = 3 /\ Awaited["recv-level-5"] = 4
  BY LevelSets, SMT DEF Awaited, Senders, Receivers

LEMMA GivenIs ==
    /\ Given["send-level-5"] = 5 /\ Given["send-level-4"] = 4
    /\ Given["send-level-3"] = 3 /\ Given["send-level-2"] = 2
    /\ Given["recv-level-1"] = 1 /\ Given["recv-level-2"] = 2
    /\ Given["recv-level-3"] = 3 /\ Given["recv-level-4"] = 4
  BY LevelSets, SMT DEF Given, Senders, Receivers

LEMMA ChainKeys ==
    ASSUME version = "01"
    PROVE  /\ From("send-level-4") = 54 /\ From("send-level-3") = 43
           /\ From("send-level-2") = 32 /\ From("send-level-1") = 21
           /\ From("recv-level-2") = 12 /\ From("recv-level-3") = 23
           /\ From("recv-level-4") = 34 /\ From("recv-level-5") = 45
           /\ From("send-level-5") = 0 /\ From("recv-level-1") = 0
  BY SMT DEF From

LEMMA ToIs ==
    /\ To("send-level-5") = 54 /\ To("send-level-4") = 43
    /\ To("send-level-3") = 32 /\ To("send-level-2") = 21
    /\ To("recv-level-1") = 12 /\ To("recv-level-2") = 23
    /\ To("recv-level-3") = 34 /\ To("recv-level-4") = 45
  BY SMT DEF To

LEMMA InPlaceKeys ==
    ASSUME version = "02"
    PROVE  /\ \A l \in Senders : From(l) = 1
           /\ \A l \in Receivers : From(l) = 2
  BY LevelSets, SMT DEF From, Senders, Receivers

LEMMA FoldedType == ASSUME NEW s \in Int PROVE Folded(s) \in Int
  BY SMT DEF Folded, Word

LEMMA FrameTypes ==
    ASSUME NEW b \in Body, NEW n \in Int, NEW o \in Int
    PROVE  /\ TcpChecksum(b, n) \in Int /\ IpChecksum(b) \in Int
           /\ WithTcp(b, o, n) \in Body /\ WithIp(b, n) \in Body
           /\ WithEth(b) \in Body /\ extern_len(o) \in Int /\ AtLeastShortest(n) \in Int
<1>1. \A c \in Body, m \in Int : TcpChecksum(c, m) \in Int /\ IpChecksum(c) \in Int
  <2> TAKE c \in Body, m \in Int
  <2>1. /\ c.addr + 6 + m + c.off * 4096 + c.data \in Int
        /\ 17664 + c.iplen + c.addr + 6 \in Int
    BY SMT DEF Body
  <2> QED BY <2>1, FoldedType, SMT DEF TcpChecksum, IpChecksum, Checksum
<1>2. extern_len(o) \in Int /\ AtLeastShortest(n) \in Int
  BY SMT DEF extern_len, AtLeastShortest, Shortest
<1>3. WithTcp(b, o, n) \in Body
  <2> DEFINE h == [b EXCEPT !.off = o, !.addr = Address]
             m == TcpLen + extern_len(o) + n
             c == [b EXCEPT !.off = o]
  <2>0. c \in Body /\ m \in Int
    BY <1>2, SMT DEF Body, TcpLen
  <2>1. h \in Body
    <3>1. h = [c EXCEPT !.addr = Address]
      OBVIOUS
    <3> HIDE DEF c
    <3>2. [c EXCEPT !.addr = Address] \in Body
      BY <2>0, SMT DEF Body, Address
    <3> QED BY <3>1, <3>2
  <2> HIDE DEF h, m
  <2>2. TcpChecksum(h, m) \in Int
    BY <1>1, <2>0, <2>1
  <2> HIDE DEF h, m
  <2>3. [b EXCEPT !.off = o, !.tcpck = TcpChecksum(h, m)]
        = [c EXCEPT !.tcpck = TcpChecksum(h, m)]
    OBVIOUS
  <2>4. [c EXCEPT !.tcpck = TcpChecksum(h, m)] \in Body
    <3> HIDE DEF c
    <3> QED BY <2>0, <2>2, SMT DEF Body
  <2> QED BY <2>3, <2>4 DEF WithTcp, h, m
<1>4. WithIp(b, n) \in Body
  <2> DEFINE h == [b EXCEPT !.iplen = n + IpLen, !.addr = Address]
             c == [b EXCEPT !.iplen = n + IpLen]
  <2>0. c \in Body
    BY SMT DEF Body, IpLen
  <2>1. h \in Body
    <3>1. h = [c EXCEPT !.addr = Address]
      OBVIOUS
    <3> HIDE DEF c
    <3>2. [c EXCEPT !.addr = Address] \in Body
      BY <2>0, SMT DEF Body, Address
    <3> QED BY <3>1, <3>2
  <2>2. IpChecksum(h) \in Int
    BY <1>1, <2>1
  <2> HIDE DEF h
  <2>3. [h EXCEPT !.ipck = IpChecksum(h)] \in Body
    BY <2>1, <2>2, SMT DEF Body
  <2> QED BY <2>3 DEF WithIp, h
<1>5. WithEth(b) \in Body
  BY SMT DEF WithEth, Body, IPv4
<1> QED BY <1>1, <1>2, <1>3, <1>4, <1>5
-----------------------------------------------------------------------------
(* Types *)

LEMMA BlankType == Blank \in Body /\ Absent \in Segment /\ New \in Segment
<1>1. Blank \in Body
  BY SMT DEF Blank, Body
<1>2. Absent \in Segment /\ New \in Segment
  BY <1>1, SMT DEF Absent, New, Zeroed, Segment
<1> QED BY <1>1, <1>2

LEMMA HandedType ==
    ASSUME NEW s \in Segment, NEW b \in Body, NEW n \in Int, NEW d \in Int, NEW r \in Int
    PROVE  /\ Handed(s, b, n, d, r) \in Segment
           /\ Handed(s, b, n, d, r).there = s.there
           /\ Handed(s, b, n, d, r).ready = r /\ Handed(s, b, n, d, r).len = n
           /\ Handed(s, b, n, d, r).body = b /\ Handed(s, b, n, d, r).datalen = d
<1>1. Handed(s, b, n, d, r) =
        [there |-> s.there, ready |-> r, len |-> n, datalen |-> d, body |-> b]
  BY DEF Handed
<1>2. s.there \in BOOLEAN
  BY DEF Segment
<1>3. Handed(s, b, n, d, r) \in Segment
  BY <1>1, <1>2 DEF Segment
<1>4. /\ Handed(s, b, n, d, r).there = s.there
      /\ Handed(s, b, n, d, r).ready = r /\ Handed(s, b, n, d, r).len = n
      /\ Handed(s, b, n, d, r).body = b /\ Handed(s, b, n, d, r).datalen = d
  BY <1>1
<1> QED BY <1>3, <1>4

LEMMA NewIs == /\ New.ready = 0 /\ New.body = Blank /\ New.there
               /\ Absent.ready = 0 /\ Absent.body = Blank /\ ~Absent.there
  BY SMT DEF Absent, New, Zeroed

LEMMA CreatedIs ==
    ASSUME NEW k \in Keys, seg \in [Keys -> Segment]
    PROVE  /\ Created(k) \in Segment /\ Created(k).ready = 0 /\ Created(k).there
           /\ seg[k].there => Created(k).body = seg[k].body
           /\ ~seg[k].there => Created(k) = New
<1> DEFINE s == IF seg[k].there THEN seg[k] ELSE New
<1>1. s \in Segment /\ s.there
  BY BlankType, NewIs
<1>2. Created(k) = [s EXCEPT !.ready = 0]
  BY DEF Created
<1>3. ~seg[k].there => [s EXCEPT !.ready = 0] = New
  <2> SUFFICES ASSUME ~seg[k].there PROVE [New EXCEPT !.ready = 0] = New
    OBVIOUS
  <2> QED BY BlankType, NewIs, SMT DEF Segment
<1>4. seg[k].there => s = seg[k]
  OBVIOUS
<1> HIDE DEF s
<1> QED BY <1>1, <1>2, <1>3, <1>4, SMT DEF Segment

LEMMA DeletedType ==
    ASSUME seg \in [Keys -> Segment], pc \in [Levels -> States],
           NEW k \in Keys, NEW l, NEW st \in States, Deleted(k, l, st)
    PROVE  seg' \in [Keys -> Segment] /\ pc' \in [Levels -> States]
<1>1. seg' \in [Keys -> Segment]
  BY BlankType, SMT DEF Deleted
<1>2. pc' \in [Levels -> States]
  BY SMT DEF Deleted, States
<1> QED BY <1>1, <1>2

LEMMA VersionIs == ASSUME TypeOK PROVE version = "01" \/ version = "02"
<1>1. version \in Versions
  BY DEF TypeOK
<1> QED BY <1>1, VersionsAssumption

LEMMA KeyOf ==
    ASSUME TypeOK, NEW l \in Readers
    PROVE  l \in Levels /\ From(l) \in Keys
<1>1. CASE version = "01"
  BY <1>1, ChainKeys, LevelSets, SMT DEF Readers, Senders, Receivers, Keys
<1>2. CASE version = "02"
  BY <1>2, InPlaceKeys, LevelSets, SMT DEF Readers, Keys
<1> QED BY <1>1, <1>2, VersionIs

LEMMA TypeAttach ==
    ASSUME TypeOK, NEW l \in Readers, Attach(l)
    PROVE  TypeOK'
<1> DEFINE t == IF seg[From(l)].there THEN seg[From(l)] ELSE New
<1>0. seg \in [Keys -> Segment] /\ From(l) \in Keys /\ t \in Segment
  BY KeyOf, BlankType DEF TypeOK
<1>1. seg' \in [Keys -> Segment]
  <2>1. seg' = [seg EXCEPT ![From(l)] = t]
    BY DEF Attach
  <2> HIDE DEF t
  <2> QED BY <1>0, <2>1, SMT
<1>2. pc' \in [Levels -> States]
  <2>1. pc' = [pc EXCEPT ![l] = "wait"] /\ pc \in [Levels -> States] /\ "wait" \in States
    BY DEF Attach, TypeOK, States
  <2> QED BY <2>1
<1> QED BY <1>1, <1>2, SMT DEF TypeOK, Attach, setting, files

LEMMA TypeTakes ==
    ASSUME TypeOK, NEW l \in Readers, NEW b \in Body, NEW n \in Int, Takes(l, b, n)
    PROVE  TypeOK'
<1>1. seg' \in [Keys -> Segment] /\ pc' \in [Levels -> States]
  BY KeyOf, DeletedType, SMT DEF TypeOK, Takes, States
<1>2. buf' \in [Levels -> [body : Body, len : Int]]
  <2>1. [body |-> b, len |-> n] \in [body : Body, len : Int]
    OBVIOUS
  <2> QED BY <2>1 DEF TypeOK, Takes
<1> QED BY <1>1, <1>2, SMT DEF TypeOK, Takes, setting, files

LEMMA TypePuts ==
    ASSUME TypeOK, NEW l \in Levels, To(l) \in Keys, Given[l] \in Int, Puts(l)
    PROVE  TypeOK'
<1>1. CASE /\ pc[l] = "have"
           /\ seg' = [seg EXCEPT ![To(l)] = Created(To(l))]
           /\ pc' = [pc EXCEPT ![l] = "made"]
  <2>1. seg' \in [Keys -> Segment]
    BY <1>1, CreatedIs, SMT DEF TypeOK
  <2>2. pc' \in [Levels -> States]
    BY <1>1, SMT DEF TypeOK, States
  <2> QED BY <2>1, <2>2, SMT DEF TypeOK, Puts, setting, files
<1>2. CASE /\ pc[l] = "made"
           /\ seg' = [seg EXCEPT ![To(l)] =
                         Handed(@, buf[l].body, buf[l].len, @.datalen, Given[l])]
           /\ pc' = [pc EXCEPT ![l] = "done"]
  <2>0. buf[l].body \in Body /\ buf[l].len \in Int /\ seg \in [Keys -> Segment]
    BY DEF TypeOK
  <2> DEFINE t == Handed(seg[To(l)], buf[l].body, buf[l].len, seg[To(l)].datalen, Given[l])
  <2>1. seg' \in [Keys -> Segment]
    <3>1. seg' = [seg EXCEPT ![To(l)] = t]
      BY <1>2
    <3>2. seg[To(l)] \in Segment /\ seg[To(l)].datalen \in Int
      BY <2>0 DEF Segment
    <3>3. t \in Segment
      BY <2>0, <3>2, HandedType
    <3> HIDE DEF t
    <3> QED BY <2>0, <3>1, <3>3
  <2>2. pc' \in [Levels -> States]
    BY <1>2, SMT DEF TypeOK, States
  <2> QED BY <2>1, <2>2, SMT DEF TypeOK, Puts, setting, files
<1> QED BY <1>1, <1>2 DEF Puts

LEMMA TypeInPlace ==
    ASSUME TypeOK, NEW l \in Readers, NEW b \in Body, NEW n \in Int,
           Given[l] \in Int, InPlace(l, b, n)
    PROVE  TypeOK'
<1> DEFINE k == From(l)
           t == Handed(seg[k], b, n, seg[k].datalen, Given[l])
<1>1. seg' \in [Keys -> Segment]
  <2>1. seg' = [seg EXCEPT ![k] = t]
    BY DEF InPlace
  <2>2. seg \in [Keys -> Segment] /\ k \in Keys
    BY KeyOf DEF TypeOK
  <2>3. seg[k] \in Segment /\ seg[k].datalen \in Int
    BY <2>2 DEF Segment
  <2> HIDE DEF k
  <2>4. t \in Segment
    BY <2>3, HandedType
  <2> HIDE DEF t
  <2> QED BY <2>1, <2>2, <2>4
<1>2. pc' = [pc EXCEPT ![l] = "done"] /\ pc \in [Levels -> States] /\ "done" \in States
  BY DEF InPlace, TypeOK, States
<1>3. pc' \in [Levels -> States]
  BY <1>2
<1> QED BY <1>1, <1>3, SMT DEF TypeOK, InPlace, setting, files

LEMMA TypeExit ==
    ASSUME TypeOK, NEW l \in Levels, UNCHANGED <<setting, files, buf>>,
           Exit1(l) \/ \E k \in Keys : Deleted(k, l, "failed")
    PROVE  TypeOK'
<1>1. CASE Exit1(l)
  BY <1>1, SMT DEF TypeOK, Exit1, States, setting, files
<1>2. CASE \E k \in Keys : Deleted(k, l, "failed")
  <2>1. seg' \in [Keys -> Segment] /\ pc' \in [Levels -> States]
    BY <1>2, DeletedType, SMT DEF TypeOK, States
  <2> QED BY <2>1, SMT DEF TypeOK, setting, files
<1> QED BY <1>1, <1>2
LEMMA LengthIs ==
    ASSUME NEW n \in datalen
    PROVE  n \in Int /\ n >= 1 /\ n =< 1460
  BY LengthAssumption, SMT

LEMMA PayloadIs ==
    ASSUME NEW d \in Payload
    PROVE  d \in Int /\ d >= 0 /\ d =< 65535
  BY PayloadAssumption, SMT

LEMMA OffsetIs ==
    ASSUME NEW o \in offset
    PROVE  o \in Int /\ o >= 5 /\ o =< 15
  BY OffsetAssumption, SMT

LEMMA DataTypes ==
    ASSUME TypeOK
    PROVE  /\ sender_dat.len \in Int /\ sender_dat.len >= 0 /\ sender_dat.len =< 1460
           /\ sender_dat.data \in Int /\ sender_dat.data >= 0 /\ sender_dat.data =< 65535
           /\ off \in Int /\ off >= 5 /\ off =< 15
<1>0. off \in Int /\ off >= 5 /\ off =< 15
  <2>1. off \in offset
    BY DEF TypeOK
  <2> QED BY <2>1, OffsetIs
<1>1. CASE sender_dat = NoFile
  <2>1. sender_dat.len = 0 /\ sender_dat.data = 0
    BY <1>1, SMT DEF NoFile
  <2> QED BY <1>0, <2>1, SMT
<1>2. CASE sender_dat \in [len : datalen, data : Payload]
  <2>1. sender_dat.len \in datalen /\ sender_dat.data \in Payload
    BY <1>2
  <2> QED BY <1>0, <2>1, LengthIs, PayloadIs
<1> QED BY <1>1, <1>2 DEF TypeOK

LEMMA SegmentTypes ==
    ASSUME TypeOK, NEW k \in Keys
    PROVE  /\ seg[k] \in Segment /\ seg[k].body \in Body /\ seg[k].len \in Int
           /\ seg[k].datalen \in Int
           /\ extern_len(seg[k].body.off) \in Int /\ seg[k].body.iplen \in Int
<1>1. seg[k] \in Segment
  BY DEF TypeOK
<1>2. seg[k].body \in Body /\ seg[k].len \in Int /\ seg[k].datalen \in Int
  BY <1>1 DEF Segment
<1>3. seg[k].body.off \in Int /\ seg[k].body.iplen \in Int
  BY <1>2 DEF Body
<1> QED BY <1>1, <1>2, <1>3, SMT DEF extern_len

LEMMA Levels10 ==
    /\ "send-level-5" \in Levels /\ "send-level-4" \in Readers /\ "send-level-3" \in Readers
    /\ "send-level-2" \in Readers /\ "send-level-1" \in Readers
    /\ "recv-level-1" \in Levels /\ "recv-level-2" \in Readers /\ "recv-level-3" \in Readers
    /\ "recv-level-4" \in Readers /\ "recv-level-5" \in Readers
    /\ Readers \subseteq Levels
    /\ {54, 43, 32, 21, 12, 23, 34, 45, 1, 2} \subseteq Keys
  BY LevelSets, SMT DEF Readers, Senders, Receivers, Keys

LEMMA HeaderTypes ==
    /\ TcpLen \in Int /\ IpLen \in Int /\ EthLen \in Int
    /\ \A o \in Int : extern_len(o) \in Int
  BY SMT DEF TcpLen, IpLen, EthLen, extern_len

LEMMA TypeChainPuts ==
    ASSUME TypeOK, NEW l \in Levels \ {"send-level-1", "recv-level-5"}, Puts(l)
    PROVE  TypeOK'
<1>1. To(l) \in Keys /\ Given[l] \in Int
  BY LevelSets, ToIs, GivenIs, SMT DEF Senders, Receivers, Keys
<1> QED BY <1>1, TypePuts

LEMMA TypeChainSend == ASSUME TypeOK, ChainSend PROVE TypeOK'
<1> USE Levels10
<1>1. CASE SendLevel5
  <2>1. CASE Puts("send-level-5")
    BY <2>1, TypeChainPuts
  <2>2. CASE /\ MayStart("send-level-5")
             /\ \E n \in datalen, d \in Payload :
                  /\ sender_dat' = [len |-> n, data |-> d]
                  /\ buf' = [buf EXCEPT !["send-level-5"] =
                               [body |-> [Blank EXCEPT !.data = d], len |-> n]]
             /\ pc' = [pc EXCEPT !["send-level-5"] = "have"]
             /\ UNCHANGED <<setting, network_dat, carried, receiver_dat, seg>>
    <3>1. PICK n \in datalen, d \in Payload :
             /\ sender_dat' = [len |-> n, data |-> d]
             /\ buf' = [buf EXCEPT !["send-level-5"] =
                          [body |-> [Blank EXCEPT !.data = d], len |-> n]]
      BY <2>2
    <3>4. d \in Int /\ n \in Int
      BY LengthIs, PayloadIs
    <3>5. [Blank EXCEPT !.data = d] \in Body
      BY <3>4, BlankType, SMT DEF Body
    <3>6. buf' \in [Levels -> [body : Body, len : Int]]
      <4>1. [body |-> [Blank EXCEPT !.data = d], len |-> n] \in [body : Body, len : Int]
        BY <3>4, <3>5
      <4> QED BY <3>1, <4>1 DEF TypeOK
    <3>7. sender_dat' \in [len : datalen, data : Payload]
      BY <3>1
    <3>8. pc' \in [Levels -> States]
      BY <2>2, SMT DEF TypeOK, States
    <3> QED BY <2>2, <3>6, <3>7, <3>8 DEF TypeOK, setting
  <2> QED BY <1>1, <2>1, <2>2 DEF SendLevel5
<1>2. CASE SendLevel4
  <2>1. CASE Attach("send-level-4") \/ Puts("send-level-4")
    BY <2>1, TypeAttach, TypeChainPuts
  <2>0. seg[54].body \in Body /\ seg[54].len \in Int /\ off \in Int
    BY SegmentTypes, DataTypes
  <2> DEFINE s == seg[54]
             b == WithTcp(s.body, off, s.len)
             n == s.len + TcpLen + extern_len(off)
  <2>2. b \in Body /\ n \in Int
    <3>1. b \in Body
      BY <2>0, FrameTypes
    <3>2. s.len \in Int /\ extern_len(off) \in Int /\ TcpLen \in Int /\ IpLen \in Int
      BY <2>0, HeaderTypes
    <3>3. n \in Int
      BY <3>2, SMT
    <3> QED BY <3>1, <3>3
  <2> HIDE DEF b, n
  <2>3. CASE Takes("send-level-4", b, n)
    BY <2>2, <2>3, TypeTakes
  <2> QED BY <1>2, <2>1, <2>3 DEF SendLevel4, b, n
<1>3. CASE SendLevel3
  <2>1. CASE Attach("send-level-3") \/ Puts("send-level-3")
    BY <2>1, TypeAttach, TypeChainPuts
  <2>0. seg[43].body \in Body /\ seg[43].len \in Int /\ off \in Int
    BY SegmentTypes, DataTypes
  <2> DEFINE s == seg[43]
             b == WithIp(s.body, s.len)
             n == s.len + IpLen
  <2>2. b \in Body /\ n \in Int
    <3>1. b \in Body
      BY <2>0, FrameTypes
    <3>2. s.len \in Int /\ extern_len(off) \in Int /\ TcpLen \in Int /\ IpLen \in Int
      BY <2>0, HeaderTypes
    <3>3. n \in Int
      BY <3>2, SMT
    <3> QED BY <3>1, <3>3
  <2> HIDE DEF b, n
  <2>3. CASE Takes("send-level-3", b, n)
    BY <2>2, <2>3, TypeTakes
  <2> QED BY <1>3, <2>1, <2>3 DEF SendLevel3, b, n
<1>4. CASE SendLevel2
  <2>1. CASE Attach("send-level-2") \/ Puts("send-level-2")
    BY <2>1, TypeAttach, TypeChainPuts
  <2>0. seg[32].body \in Body /\ seg[32].len \in Int
    BY SegmentTypes
  <2> DEFINE s == seg[32]
             b == WithEth(s.body)
             n == AtLeastShortest(s.len + EthLen)
  <2>2. b \in Body /\ n \in Int
    <3>1. s.len + EthLen \in Int
      BY <2>0, HeaderTypes
    <3>2. \A c \in Body, m \in Int : WithEth(c) \in Body /\ AtLeastShortest(m) \in Int
      BY FrameTypes
    <3> QED BY <2>0, <3>1, <3>2
  <2> HIDE DEF b, n
  <2>3. CASE Takes("send-level-2", b, n)
    BY <2>2, <2>3, TypeTakes
  <2> QED BY <1>4, <2>1, <2>3 DEF SendLevel2, b, n
<1>5. CASE SendLevel1
  <2>1. CASE Attach("send-level-1")
    BY <2>1, TypeAttach
  <2>2. CASE /\ Ready("send-level-1")
             /\ network_dat' = [len |-> seg[21].len, body |-> seg[21].body]
             /\ Deleted(21, "send-level-1", "done")
             /\ UNCHANGED <<setting, sender_dat, carried, receiver_dat, buf>>
    <3>1. seg' \in [Keys -> Segment] /\ pc' \in [Levels -> States]
      BY <2>2, DeletedType DEF TypeOK, States
    <3>2. network_dat' \in [len : Int, body : Body]
      BY <2>2, SegmentTypes
    <3> QED BY <2>2, <3>1, <3>2 DEF TypeOK, setting
  <2> QED BY <1>5, <2>1, <2>2 DEF SendLevel1
<1> QED BY <1>1, <1>2, <1>3, <1>4, <1>5 DEF ChainSend

LEMMA TypeChainReceive == ASSUME TypeOK, ChainReceive PROVE TypeOK'
<1> USE Levels10
<1>1. CASE RecvLevel1
  <2>1. CASE Puts("recv-level-1")
    BY <2>1, TypeChainPuts
  <2>2. CASE /\ MayStart("recv-level-1")
             /\ buf' = [buf EXCEPT !["recv-level-1"] = network_dat]
             /\ pc' = [pc EXCEPT !["recv-level-1"] = "have"]
             /\ UNCHANGED <<setting, files, seg>>
    <3>1. network_dat \in [body : Body, len : Int]
      BY SMT DEF TypeOK
    <3>2. buf' \in [Levels -> [body : Body, len : Int]] /\ pc' \in [Levels -> States]
      BY <2>2, <3>1 DEF TypeOK, States
    <3> QED BY <2>2, <3>2 DEF TypeOK, setting, files
  <2> QED BY <1>1, <2>1, <2>2 DEF RecvLevel1
<1>2. CASE RecvLevel2
  <2>1. CASE Attach("recv-level-2") \/ Puts("recv-level-2")
    BY <2>1, TypeAttach, TypeChainPuts
  <2>2. seg[12].body \in Body /\ seg[12].len - EthLen \in Int
    BY SegmentTypes, HeaderTypes
  <2>3. CASE Takes("recv-level-2", seg[12].body, seg[12].len - EthLen)
    BY <2>2, <2>3, TypeTakes
  <2>4. CASE Exit1("recv-level-2") /\ UNCHANGED <<setting, files, buf>>
    BY <2>4, TypeExit
  <2> QED BY <1>2, <2>1, <2>3, <2>4 DEF RecvLevel2
<1>3. CASE RecvLevel3
  <2>1. CASE Attach("recv-level-3") \/ Puts("recv-level-3")
    BY <2>1, TypeAttach, TypeChainPuts
  <2>2. seg[23].body \in Body /\ seg[23].body.iplen \in Int
    BY SegmentTypes
  <2>3. CASE Takes("recv-level-3", seg[23].body, seg[23].body.iplen)
    BY <2>2, <2>3, TypeTakes
  <2>4. CASE Exit1("recv-level-3") /\ UNCHANGED <<setting, files, buf>>
    BY <2>4, TypeExit
  <2> QED BY <1>3, <2>1, <2>3, <2>4 DEF RecvLevel3
<1>4. CASE RecvLevel4
  <2>1. CASE Attach("recv-level-4") \/ Puts("recv-level-4")
    BY <2>1, TypeAttach, TypeChainPuts
  <2> DEFINE n == seg[34].len - IpLen - TcpLen - extern_len(seg[34].body.off)
  <2>2. seg[34].body \in Body /\ n \in Int
    BY SegmentTypes, HeaderTypes
  <2> HIDE DEF n
  <2>3. CASE Takes("recv-level-4", seg[34].body, n)
    BY <2>2, <2>3, TypeTakes
  <2>4. CASE (Exit1("recv-level-4") \/ Deleted(34, "recv-level-4", "failed"))
             /\ UNCHANGED <<setting, files, buf>>
    BY <2>4, TypeExit
  <2> QED BY <1>4, <2>1, <2>3, <2>4 DEF RecvLevel4, n
<1>5. CASE RecvLevel5
  <2>1. CASE Attach("recv-level-5")
    BY <2>1, TypeAttach
  <2>2. CASE /\ Ready("recv-level-5")
             /\ receiver_dat' = [len |-> seg[45].len, data |-> seg[45].body.data]
             /\ Deleted(45, "recv-level-5", "done")
             /\ UNCHANGED <<setting, sender_dat, network_dat, carried, buf>>
    <3>1. seg' \in [Keys -> Segment] /\ pc' \in [Levels -> States]
      BY <2>2, DeletedType DEF TypeOK, States
    <3>2. receiver_dat' \in [len : Int, data : Int]
      BY <2>2, SegmentTypes DEF Body
    <3> QED BY <2>2, <3>1, <3>2 DEF TypeOK, setting
  <2> QED BY <1>5, <2>1, <2>2 DEF RecvLevel5
<1> QED BY <1>1, <1>2, <1>3, <1>4, <1>5 DEF ChainReceive
LEMMA TypeInPlaceLevel ==
    ASSUME TypeOK,
           NEW l \in Readers \ {"send-level-1", "recv-level-5"}, NEW b \in Body, NEW n \in Int,
           InPlace(l, b, n)
    PROVE  TypeOK'
<1>1. Given[l] \in Int
  BY GivenIs, SMT DEF Readers, Senders, Receivers
<1> QED BY <1>1, TypeInPlace

\* One segment is written into.
LEMMA HandedOn ==
    ASSUME TypeOK, NEW k \in Keys, NEW b \in Body, NEW n \in Int, NEW d \in Int, NEW r \in Int,
           seg' = [seg EXCEPT ![k] = Handed(seg[k], b, n, d, r)]
    PROVE  /\ seg' \in [Keys -> Segment]
           /\ seg'[k].ready = r /\ seg'[k].body = b /\ seg'[k].len = n /\ seg'[k].datalen = d
           /\ seg'[k].there = seg[k].there
           /\ \A j \in Keys : j # k => seg'[j] = seg[j]
<1> DEFINE t == Handed(seg[k], b, n, d, r)
<1>1. seg \in [Keys -> Segment] /\ seg[k] \in Segment
  BY DEF TypeOK
<1>2. seg' = [seg EXCEPT ![k] = t]
  OBVIOUS
<1>3. /\ t \in Segment /\ t.ready = r /\ t.body = b /\ t.len = n /\ t.datalen = d
      /\ t.there = seg[k].there
  BY <1>1, HandedType
<1> HIDE DEF t
<1>4. seg' \in [Keys -> Segment] /\ seg'[k] = t /\ \A j \in Keys : j # k => seg'[j] = seg[j]
  BY <1>1, <1>2, <1>3
<1> QED BY <1>3, <1>4

LEMMA TypeInPlaceSend == ASSUME TypeOK, InPlaceSend PROVE TypeOK'
<1> USE Levels10
<1>1. CASE InPlaceSend5
  <2>1. CASE /\ MayStart("send-level-5")
             /\ seg' = [seg EXCEPT ![1] = Created(1)]
             /\ pc' = [pc EXCEPT !["send-level-5"] = "made"]
             /\ UNCHANGED <<setting, files, buf>>
    <3>1. seg' \in [Keys -> Segment]
      BY <2>1, CreatedIs DEF TypeOK
    <3>2. pc' \in [Levels -> States]
      BY <2>1 DEF TypeOK, States
    <3> QED BY <2>1, <3>1, <3>2 DEF TypeOK, setting, files
  <2>2. CASE /\ pc["send-level-5"] = "made"
             /\ \E n \in datalen, d \in Payload :
                  /\ sender_dat' = [len |-> n, data |-> d]
                  /\ seg' = [seg EXCEPT ![1] =
                               Handed(@, [@.body EXCEPT !.data = d], n, @.datalen, 5)]
             /\ pc' = [pc EXCEPT !["send-level-5"] = "done"]
             /\ UNCHANGED <<setting, network_dat, carried, receiver_dat, buf>>
    <3>1. PICK n \in datalen, d \in Payload :
             /\ sender_dat' = [len |-> n, data |-> d]
             /\ seg' = [seg EXCEPT ![1] =
                          Handed(@, [@.body EXCEPT !.data = d], n, @.datalen, 5)]
      BY <2>2
    <3> DEFINE b == [seg[1].body EXCEPT !.data = d]
    <3>2. d \in Int /\ n \in Int
      BY LengthIs, PayloadIs
    <3>3. b \in Body
      <4>1. seg[1].body \in Body
        BY SegmentTypes
      <4> QED BY <3>2, <4>1, SMT DEF Body
    <3>4. seg[1].datalen \in Int
      BY SegmentTypes
    <3>5. seg' = [seg EXCEPT ![1] = Handed(seg[1], b, n, seg[1].datalen, 5)]
      BY <3>1
    <3> HIDE DEF b
    <3>6. seg' \in [Keys -> Segment]
      <4>1. 1 \in Keys /\ 5 \in Int
        OBVIOUS
      <4> QED BY <3>2, <3>3, <3>4, <3>5, <4>1, HandedOn
    <3>8. pc' \in [Levels -> States]
      BY <2>2 DEF TypeOK, States
    <3>7. sender_dat' \in [len : datalen, data : Payload]
      BY <3>1
    <3> QED BY <2>2, <3>6, <3>7, <3>8 DEF TypeOK, setting
  <2> QED BY <1>1, <2>1, <2>2 DEF InPlaceSend5
<1>2. CASE InPlaceSend4
  <2>1. CASE Attach("send-level-4")
    BY <2>1, TypeAttach
  <2>0. seg[1].body \in Body /\ seg[1].len \in Int /\ off \in Int
    BY SegmentTypes, DataTypes
  <2> DEFINE s == seg[1]
             b == WithTcp(s.body, off, s.len)
             n == s.len + TcpLen + extern_len(off)
  <2>2. b \in Body /\ n \in Int
    <3>1. b \in Body
      BY <2>0, FrameTypes
    <3>2. s.len \in Int /\ extern_len(off) \in Int /\ TcpLen \in Int
      BY <2>0, HeaderTypes
    <3>3. n \in Int
      BY <3>2, SMT
    <3> QED BY <3>1, <3>3
  <2> HIDE DEF b, n
  <2>3. CASE InPlace("send-level-4", b, n)
    BY <2>2, <2>3, TypeInPlaceLevel
  <2> QED BY <1>2, <2>1, <2>3 DEF InPlaceSend4, b, n
<1>3. CASE InPlaceSend3
  <2>1. CASE Attach("send-level-3")
    BY <2>1, TypeAttach
  <2>0. seg[1].body \in Body /\ seg[1].len \in Int /\ off \in Int
    BY SegmentTypes, DataTypes
  <2> DEFINE s == seg[1]
             b == WithIp(s.body, s.len)
             n == s.len + IpLen
  <2>2. b \in Body /\ n \in Int
    <3>1. b \in Body
      BY <2>0, FrameTypes
    <3>2. s.len \in Int /\ IpLen \in Int
      BY <2>0, HeaderTypes
    <3>3. n \in Int
      BY <3>2, SMT
    <3> QED BY <3>1, <3>3
  <2> HIDE DEF b, n
  <2>3. CASE InPlace("send-level-3", b, n)
    BY <2>2, <2>3, TypeInPlaceLevel
  <2> QED BY <1>3, <2>1, <2>3 DEF InPlaceSend3, b, n
<1>4. CASE InPlaceSend2
  <2>1. CASE Attach("send-level-2")
    BY <2>1, TypeAttach
  <2>0. seg[1].body \in Body /\ seg[1].len \in Int
    BY SegmentTypes
  <2> DEFINE s == seg[1]
             b == WithEth(s.body)
             n == AtLeastShortest(s.len + EthLen)
  <2>2. b \in Body /\ n \in Int
    <3>1. s.len + EthLen \in Int
      BY <2>0, HeaderTypes
    <3>2. \A c \in Body, m \in Int : WithEth(c) \in Body /\ AtLeastShortest(m) \in Int
      BY FrameTypes
    <3> QED BY <2>0, <3>1, <3>2
  <2> HIDE DEF b, n
  <2>3. CASE InPlace("send-level-2", b, n)
    BY <2>2, <2>3, TypeInPlaceLevel
  <2> QED BY <1>4, <2>1, <2>3 DEF InPlaceSend2, b, n
<1>5. CASE InPlaceSend1
  <2>1. CASE Attach("send-level-1")
    BY <2>1, TypeAttach
  <2>2. CASE /\ Ready("send-level-1")
             /\ network_dat' = [len |-> seg[1].len, body |-> seg[1].body]
             /\ Deleted(1, "send-level-1", "done")
             /\ UNCHANGED <<setting, sender_dat, carried, receiver_dat, buf>>
    <3>1. seg' \in [Keys -> Segment] /\ pc' \in [Levels -> States]
      BY <2>2, DeletedType DEF TypeOK, States
    <3>2. network_dat' \in [len : Int, body : Body]
      BY <2>2, SegmentTypes
    <3> QED BY <2>2, <3>1, <3>2 DEF TypeOK, setting
  <2> QED BY <1>5, <2>1, <2>2 DEF InPlaceSend1
<1> QED BY <1>1, <1>2, <1>3, <1>4, <1>5 DEF InPlaceSend

LEMMA TypeInPlaceReceive == ASSUME TypeOK, InPlaceReceive PROVE TypeOK'
<1> USE Levels10
<1>0. \A l \in Levels : Rejects(l) => TypeOK'
  <2> SUFFICES ASSUME NEW l \in Levels, Rejects(l) PROVE TypeOK'
    OBVIOUS
  <2> QED BY TypeExit DEF Rejects
<1>1. CASE InPlaceRecv1
  <2>1. CASE /\ MayStart("recv-level-1")
             /\ seg' = [seg EXCEPT ![2] = Created(2)]
             /\ pc' = [pc EXCEPT !["recv-level-1"] = "made"]
             /\ UNCHANGED <<setting, files, buf>>
    <3>1. seg' \in [Keys -> Segment]
      BY <2>1, CreatedIs DEF TypeOK
    <3>2. pc' \in [Levels -> States]
      BY <2>1 DEF TypeOK, States
    <3> QED BY <2>1, <3>1, <3>2 DEF TypeOK, setting, files
  <2>2. CASE /\ pc["recv-level-1"] = "made"
             /\ seg' = [seg EXCEPT ![2] =
                          Handed(@, network_dat.body, network_dat.len, @.datalen, 1)]
             /\ pc' = [pc EXCEPT !["recv-level-1"] = "done"]
             /\ UNCHANGED <<setting, files, buf>>
    <3>1. network_dat.body \in Body /\ network_dat.len \in Int /\ seg[2].datalen \in Int
      BY SegmentTypes DEF TypeOK
    <3>2. seg' = [seg EXCEPT ![2] =
                    Handed(seg[2], network_dat.body, network_dat.len, seg[2].datalen, 1)]
      BY <2>2
    <3>3. seg' \in [Keys -> Segment]
      <4>1. 2 \in Keys /\ 1 \in Int
        OBVIOUS
      <4> QED BY <3>1, <3>2, <4>1, HandedOn
    <3>4. pc' \in [Levels -> States]
      BY <2>2 DEF TypeOK, States
    <3> QED BY <2>2, <3>3, <3>4 DEF TypeOK, setting, files
  <2> QED BY <1>1, <2>1, <2>2 DEF InPlaceRecv1
<1>2. CASE InPlaceRecv2
  <2>1. CASE Attach("recv-level-2")
    BY <2>1, TypeAttach
  <2>2. CASE InPlace("recv-level-2", seg[2].body, seg[2].len)
    BY <2>2, SegmentTypes, TypeInPlaceLevel
  <2> QED BY <1>0, <1>2, <2>1, <2>2 DEF InPlaceRecv2
<1>3. CASE InPlaceRecv3
  <2>1. CASE Attach("recv-level-3")
    BY <2>1, TypeAttach
  <2> DEFINE n == EthLen + seg[2].body.iplen
  <2>2. seg[2].body \in Body /\ n \in Int
    BY SegmentTypes, HeaderTypes
  <2> HIDE DEF n
  <2>3. CASE InPlace("recv-level-3", seg[2].body, n)
    BY <2>2, <2>3, TypeInPlaceLevel
  <2> QED BY <1>0, <1>3, <2>1, <2>3 DEF InPlaceRecv3, n
<1>4. CASE InPlaceRecv4
  <2>1. CASE Attach("recv-level-4")
    BY <2>1, TypeAttach
  <2> DEFINE s == seg[2]
             extern == extern_len(s.body.off)
             d == s.len - EthLen - IpLen - TcpLen - extern
  <2>2. s.body \in Body /\ extern \in Int /\ d \in Int
    BY SegmentTypes, HeaderTypes
  <2> HIDE DEF extern, d
  <2>3. CASE /\ seg' = [seg EXCEPT ![2] = Handed(@, s.body, extern, d, 4)]
             /\ pc' = [pc EXCEPT !["recv-level-4"] = "done"]
             /\ UNCHANGED <<setting, files, buf>>
    <3>1. seg' \in [Keys -> Segment]
      <4>1. 2 \in Keys /\ 4 \in Int
        OBVIOUS
      <4> QED BY <2>2, <2>3, <4>1, HandedOn
    <3>2. pc' \in [Levels -> States]
      BY <2>3 DEF TypeOK, States
    <3> QED BY <2>3, <3>1, <3>2 DEF TypeOK, setting, files
  <2>4. CASE Exit1("recv-level-4") /\ UNCHANGED <<setting, files, buf>>
    BY <2>4, TypeExit
  <2> QED BY <1>0, <1>4, <2>1, <2>3, <2>4 DEF InPlaceRecv4, extern, d
<1>5. CASE InPlaceRecv5
  <2>1. CASE Attach("recv-level-5")
    BY <2>1, TypeAttach
  <2>2. CASE /\ Ready("recv-level-5")
             /\ receiver_dat' = [len |-> seg[2].datalen, data |-> seg[2].body.data]
             /\ Deleted(2, "recv-level-5", "done")
             /\ UNCHANGED <<setting, sender_dat, network_dat, carried, buf>>
    <3>1. seg' \in [Keys -> Segment] /\ pc' \in [Levels -> States]
      BY <2>2, DeletedType DEF TypeOK, States
    <3>2. receiver_dat' \in [len : Int, data : Int]
      BY <2>2, SegmentTypes DEF Body
    <3> QED BY <2>2, <3>1, <3>2 DEF TypeOK, setting
  <2> QED BY <1>5, <2>1, <2>2 DEF InPlaceRecv5
<1> QED BY <1>1, <1>2, <1>3, <1>4, <1>5 DEF InPlaceReceive

\* A frame with a word altered has the fields it had.
LEMMA AlteredType ==
    ASSUME NEW f \in [len : Int, body : Body]
    PROVE  Altered(f) \subseteq [len : Int, body : Body]
<1>1. f.body \in Body /\ f.len \in Int
  OBVIOUS
<1>2. ASSUME NEW b \in Body, NEW c \in AlteredBody(b)
      PROVE  c \in Body
  <2>1. b.iplen + 1 \in Int /\ b.off + 1 \in Int
        /\ (b.ipck + 1) % Word \in Int /\ (b.tcpck + 1) % Word \in Int
    BY SMT DEF Body, Word
  <2>2. ASSUME NEW v \in Int
        PROVE  /\ [b EXCEPT !.type = v] \in Body /\ [b EXCEPT !.iplen = v] \in Body
               /\ [b EXCEPT !.addr = v] \in Body /\ [b EXCEPT !.ipck = v] \in Body
               /\ [b EXCEPT !.tcpck = v] \in Body /\ [b EXCEPT !.off = v] \in Body
               /\ [b EXCEPT !.data = v] \in Body
    <3>1. /\ [b EXCEPT !.type = v] \in Body /\ [b EXCEPT !.iplen = v] \in Body
          /\ [b EXCEPT !.addr = v] \in Body
      BY SMT DEF Body
    <3>2. /\ [b EXCEPT !.ipck = v] \in Body /\ [b EXCEPT !.tcpck = v] \in Body
      BY SMT DEF Body
    <3>3. /\ [b EXCEPT !.off = v] \in Body /\ [b EXCEPT !.data = v] \in Body
      BY SMT DEF Body
    <3> QED BY <3>1, <3>2, <3>3
  <2>3. CASE c = [b EXCEPT !.type = 2054]
    <3>1. PICK v \in Int : v = 2054
      BY SMT
    <3>2. c = [b EXCEPT !.type = v]
      BY <2>3, <3>1
    <3>3. [b EXCEPT !.type = v] \in Body
      BY <2>2
    <3> QED BY <3>2, <3>3
  <2>7. CASE c = [b EXCEPT !.addr = 2]
    <3>1. 2 \in Int
      OBVIOUS
    <3> QED BY <2>2, <2>7, <3>1
  <2>8. CASE c = [b EXCEPT !.iplen = b.iplen + 1]
    BY <2>1, <2>2, <2>8
  <2>9. CASE c = [b EXCEPT !.ipck = (b.ipck + 1) % Word]
    BY <2>1, <2>2, <2>9
  <2>10. CASE c = [b EXCEPT !.tcpck = (b.tcpck + 1) % Word]
    BY <2>1, <2>2, <2>10
  <2>4. CASE \E v \in Int : c = [b EXCEPT !.off = v] \/ c = [b EXCEPT !.data = v]
    BY <2>2, <2>4
  <2>5. CASE c \in {[b EXCEPT !.off = v] : v \in {4, b.off + 1} \cap 0 .. 15}
    <3>1. PICK v \in {4, b.off + 1} : c = [b EXCEPT !.off = v]
      BY <2>5
    <3>2. v \in Int
      BY <2>1
    <3> QED BY <2>4, <3>1, <3>2
  <2>6. CASE c \in {[b EXCEPT !.data = v] : v \in {0, 2, 65535} \ {b.data}}
    <3>1. PICK v \in {0, 2, 65535} : c = [b EXCEPT !.data = v]
      BY <2>6
    <3>2. v \in Int
      OBVIOUS
    <3> QED BY <2>4, <3>1, <3>2
  <2> QED BY <2>3, <2>5, <2>6, <2>7, <2>8, <2>9, <2>10 DEF AlteredBody
<1>3. ASSUME NEW g \in Altered(f)
      PROVE  g \in [len : Int, body : Body]
  <2>1. PICK c \in AlteredBody(f.body) : g = [len |-> f.len, body |-> c]
    BY DEF Altered
  <2>2. c \in Body
    BY <1>1, <1>2
  <2> QED BY <1>1, <2>1, <2>2
<1> QED BY <1>3

LEMMA TypeRest ==
    ASSUME TypeOK, Carry("whole") \/ Carry("altered") \/ Interrupt \/ NextRun
    PROVE  TypeOK'
<1>1. CASE Carry("whole")
  <2>1. network_dat' = network_dat
    BY <1>1 DEF Carry
  <2> QED BY <1>1, <2>1 DEF TypeOK, Carry, setting
<1>2. CASE Carry("altered")
  <2>1. network_dat' \in Altered(network_dat)
    BY <1>2 DEF Carry
  <2>2. network_dat' \in [len : Int, body : Body]
    BY <2>1, AlteredType DEF TypeOK
  <2> QED BY <1>2, <2>2 DEF TypeOK, Carry, setting
<1>3. CASE Interrupt
  <2>1. pc' \in [Levels -> States]
    BY <1>3, SMT DEF TypeOK, Interrupt, States
  <2> QED BY <1>3, <2>1 DEF TypeOK, Interrupt, setting, files
<1>4. CASE NextRun
  <2>1. pc' \in [Levels -> States]
    BY <1>4 DEF NextRun, States
  <2>2. buf' \in [Levels -> [body : Body, len : Int]]
    BY <1>4, BlankType, SMT DEF NextRun
  <2>3. run' \in Nat \ {0}
    BY <1>4, SMT DEF NextRun, TypeOK
  <2>4. receiver_dat' \in [len : Int, data : Int]
    BY <1>4, SMT DEF NextRun, NoFile
  <2> QED BY <1>4, <2>1, <2>2, <2>3, <2>4 DEF TypeOK, NextRun
<1> QED BY <1>1, <1>2, <1>3, <1>4

LEMMA InitIsTyped == Init => TypeOK
<1> SUFFICES ASSUME Init PROVE TypeOK
  OBVIOUS
<1>1. seg \in [Keys -> Segment] /\ buf \in [Levels -> [body : Body, len : Int]]
  BY BlankType, SMT DEF Init
<1>2. network_dat \in [len : Int, body : Body] /\ receiver_dat \in [len : Int, data : Int]
  BY BlankType, SMT DEF Init, NoFile
<1>3. pc \in [Levels -> States]
  BY DEF Init, States
<1>4. run \in Nat \ {0}
  BY DEF Init
<1> QED BY <1>1, <1>2, <1>3, <1>4 DEF Init, TypeOK

LEMMA StepIsTyped == ASSUME TypeOK, [Next]_vars PROVE TypeOK'
<1>1. CASE ChainNext
  BY <1>1, TypeChainSend, TypeChainReceive DEF ChainNext
<1>2. CASE InPlaceNext
  BY <1>2, TypeInPlaceSend, TypeInPlaceReceive DEF InPlaceNext
<1>3. CASE UNCHANGED vars
  BY <1>3 DEF TypeOK, vars, setting, files
<1> QED BY <1>1, <1>2, <1>3, TypeRest DEF Next

\* Segments, frames and files hold what they may, in every step of both versions.
THEOREM TypeCorrect == Spec => []TypeOK
<1>1. Init => TypeOK
  BY InitIsTyped
<1>2. TypeOK /\ [Next]_vars => TypeOK'
  BY StepIsTyped
<1> QED BY <1>1, <1>2, PTL DEF Spec
-----------------------------------------------------------------------------
(* One level goes on *)

\* The level l goes on to st, as the order of the levels allows it; others that wait
\* in a segment of the receiver may lose it.
Goes(l, st) ==
    /\ l \in Levels /\ pc[l] \notin Ended
    /\ st \in {"wait", "have", "made", "done", "failed"}
    /\ pc'[l] = st
    /\ \A x \in Levels \ {l} :
          \/ pc'[x] = pc[x]
          \/ x \in Receivers /\ pc[x] = "wait" /\ pc'[x] = "orphan"
    /\ l \in Receivers => carried # "no" /\ (st \in Taken => Accepts(l, network_dat.body))
    /\ l \in Senders => st # "failed"
    /\ l = "send-level-5" => st # "wait"
    /\ l = "send-level-1" => st \notin {"have", "made"}
    /\ l = "recv-level-1" => st \notin {"wait", "failed"}
    /\ l = "recv-level-5" => st \notin {"have", "made"}
    /\ l \in Readers =>
          /\ scripted => pc[Writer(l)] \in Ended
          /\ st \in Taken => pc[Writer(l)] = "done"
          /\ st = "failed" /\ (scripted \/ run = 1) =>
                carried = "altered" /\ pc[Writer(l)] \in Ended

\* Each level but the first of a side has one writer, on its side.
LEMMA Distinct ==
    /\ Senders \cap Receivers = {} /\ Senders \subseteq Levels /\ Receivers \subseteq Levels
    /\ \A r \in Readers : Writer(r) \in Levels /\ Writer(r) # r
    /\ \A r \in Readers : r \in Receivers => Writer(r) \in Receivers
    /\ \A r \in Readers : r \in Senders => Writer(r) \in Senders
    /\ "send-level-5" \notin Readers /\ "recv-level-1" \notin Readers
    /\ \A l \in Senders : l # "send-level-5" => l \in Readers
    /\ \A l \in Receivers : l # "recv-level-1" => l \in Readers
    /\ \A r, q \in Readers : Writer(r) = Writer(q) => r = q
    /\ \A r \in Readers : r \in Senders \/ r \in Receivers
<1>1. /\ Senders \cap Receivers = {} /\ Senders \subseteq Levels /\ Receivers \subseteq Levels
      /\ "send-level-5" \notin Readers /\ "recv-level-1" \notin Readers
      /\ \A l \in Senders : l # "send-level-5" => l \in Readers
      /\ \A l \in Receivers : l # "recv-level-1" => l \in Readers
      /\ \A r \in Readers : r \in Senders \/ r \in Receivers
  BY LevelSets, SMT DEF Senders, Receivers, Readers
<1>2. /\ \A r \in Readers : Writer(r) \in Levels /\ Writer(r) # r
      /\ \A r \in Readers : r \in Receivers => Writer(r) \in Receivers
      /\ \A r \in Readers : r \in Senders => Writer(r) \in Senders
  BY LevelSets, Writers, SMT DEF Senders, Receivers, Readers
<1>3. \A r, q \in Readers : Writer(r) = Writer(q) => r = q
  BY Writers, SMT DEF Senders, Receivers, Readers
<1> QED BY <1>1, <1>2, <1>3

\* The order of the levels is kept whenever one of them goes on as it may.
LEMMA InOrderStep ==
    ASSUME TypeOK, InOrder, FilesInv, NEW l, NEW st, Goes(l, st),
           scripted' = scripted, run' = run, carried' = carried,
           network_dat' = network_dat \/ carried = "no"
    PROVE  InOrder'
<1> USE Distinct
<1>0. /\ l \in Levels /\ pc[l] \notin Ended /\ pc'[l] = st
      /\ st \in {"wait", "have", "made", "done", "failed"}
      /\ \A x \in Levels \ {l} :
            \/ pc'[x] = pc[x]
            \/ x \in Receivers /\ pc[x] = "wait" /\ pc'[x] = "orphan"
  BY DEF Goes
<1>1. \A x \in Senders : pc'[x] \in {"off", "wait", "have", "made", "done"}
  <2> SUFFICES ASSUME NEW x \in Senders
               PROVE  pc'[x] \in {"off", "wait", "have", "made", "done"}
    OBVIOUS
  <2>1. CASE x = l
    BY <1>0, <2>1 DEF Goes
  <2>2. CASE x # l
    BY <1>0, <2>2 DEF InOrder
  <2> QED BY <2>1, <2>2
<1>2. /\ pc'["send-level-5"] # "wait" /\ pc'["send-level-1"] \in {"off", "wait", "done"}
      /\ pc'["recv-level-1"] \in {"off", "have", "made", "done"}
      /\ pc'["recv-level-5"] \notin {"have", "made"}
  <2>1. /\ "send-level-5" \in Senders /\ "send-level-1" \in Senders
        /\ "recv-level-1" \in Receivers /\ "recv-level-5" \in Receivers
    BY DEF Senders, Receivers
  <2>2. pc'["send-level-5"] # "wait"
    BY <1>0, <2>1 DEF InOrder, Goes
  <2>3. pc'["send-level-1"] \in {"off", "wait", "done"}
    BY <1>0, <2>1 DEF InOrder, Goes
  <2>4. pc'["recv-level-1"] \in {"off", "have", "made", "done"}
    BY <1>0, <2>1 DEF InOrder, Goes
  <2>5. pc'["recv-level-5"] \notin {"have", "made"}
    BY <1>0, <2>1 DEF InOrder, Goes
  <2> QED BY <2>2, <2>3, <2>4, <2>5
<1>3. ASSUME NEW r \in Readers, scripted, pc'[r] # "off"
      PROVE  pc'[Writer(r)] \in Ended
  <2>1. pc[Writer(r)] \in Ended
    <3>1. CASE r = l
      BY <1>3, <3>1 DEF Goes
    <3>2. CASE r # l
      BY <1>0, <1>3, <3>2 DEF InOrder
    <3> QED BY <3>1, <3>2
  <2> QED BY <1>0, <2>1 DEF Ended
<1>4. (\E x \in Receivers : pc'[x] = "killed") => \A x \in Receivers : pc'[x] \in Ended
  <2> SUFFICES ASSUME NEW x \in Receivers, pc'[x] = "killed", NEW y \in Receivers
               PROVE  pc'[y] \in Ended
    OBVIOUS
  <2>1. x # l /\ pc[x] = "killed"
    BY <1>0
  <2>2. pc[y] \in Ended
    BY <2>1 DEF InOrder
  <2> QED BY <1>0, <2>2 DEF Ended
<1>5. ASSUME NEW r \in Readers, pc'[r] \in Taken
      PROVE  pc'[Writer(r)] = "done"
  <2>1. pc[Writer(r)] = "done"
    <3>1. CASE r = l
      BY <1>0, <1>5, <3>1 DEF Goes
    <3>2. CASE r # l
      BY <1>0, <1>5, <3>2 DEF InOrder, Taken
    <3> QED BY <3>1, <3>2
  <2> QED BY <1>0, <2>1 DEF Ended
<1>6. ASSUME NEW x \in Receivers, pc'[x] \in Taken
      PROVE  Accepts(x, network_dat.body) /\ network_dat' = network_dat
  <2>1. Accepts(x, network_dat.body)
    BY <1>0, <1>6 DEF Goes, InOrder, Taken
  <2>2. carried # "no"
    BY <1>0, <1>6 DEF Goes, FilesInv, Taken
  <2> QED BY <2>1, <2>2
<1>7. ASSUME NEW r \in Readers, pc'[r] = "failed", scripted \/ run = 1
      PROVE  carried = "altered" /\ pc'[Writer(r)] \in Ended
  <2>1. carried = "altered" /\ pc[Writer(r)] \in Ended
    BY <1>0, <1>7 DEF Goes, InOrder
  <2> QED BY <1>0, <2>1 DEF Ended
<1>8. ASSUME NEW r \in Readers, pc'[r] = "killed"
      PROVE  pc'[Writer(r)] # "done"
  <2>1. r # l /\ pc[r] = "killed"
    BY <1>0, <1>8
  <2>2. r \in Receivers
    BY <2>1 DEF InOrder
  <2>3. pc[Writer(r)] \in Ended /\ pc[Writer(r)] # "done"
    BY <2>1, <2>2 DEF InOrder
  <2> QED BY <1>0, <2>3 DEF Ended
<1>9. (\A x \in Receivers : pc[x] \in Taken => Accepts(x, network_dat.body))'
  BY <1>6
<1> QED BY <1>1, <1>2, <1>3, <1>4, <1>5, <1>6, <1>7, <1>8, <1>9 DEF InOrder

\* A level that goes on leaves the files alone.
LEMMA FilesStep ==
    ASSUME TypeOK, InOrder, FilesInv, NEW l, NEW st, Goes(l, st),
           l = "send-level-1" => st # "done",
           off' = off, sender_dat' = sender_dat, network_dat' = network_dat,
           carried' = carried, receiver_dat' = receiver_dat
    PROVE  FilesInv'
<1> USE Distinct, Levels10
<1>0. /\ l \in Levels /\ pc[l] \notin Ended /\ pc'[l] = st
      /\ \A x \in Levels \ {l} :
            \/ pc'[x] = pc[x]
            \/ x \in Receivers /\ pc[x] = "wait" /\ pc'[x] = "orphan"
  BY DEF Goes
<1>1. carried = "no" => \A x \in Receivers : pc'[x] = "off"
  BY <1>0 DEF Goes, FilesInv
<1>2. pc'["send-level-1"] = "done" <=> pc["send-level-1"] = "done"
  <2>1. "send-level-1" \in Senders
    BY DEF Senders
  <2> QED BY <1>0, <2>1 DEF Ended
<1>3. pc["recv-level-5"] = "done" => pc'["recv-level-5"] = "done"
  BY <1>0 DEF Ended
<1>4. Frame' = Frame
  BY DEF Frame, Sent2, Sent3, Sent4, Sent5
<1>5. carried # "no" => pc'["send-level-1"] = "done"
  BY <1>2 DEF FilesInv
<1>6. pc'["send-level-1"] = "done" /\ carried # "altered" => network_dat = Frame
  BY <1>2 DEF FilesInv
<1>7. carried = "altered" => network_dat \in Altered(Frame)
  BY DEF FilesInv
<1>8. receiver_dat # NoFile =>
          /\ pc'["recv-level-5"] = "done"
          /\ receiver_dat = [len  |-> PayloadLen(network_dat.body),
                             data |-> network_dat.body.data]
  BY <1>3 DEF FilesInv
<1> QED BY <1>1, <1>4, <1>5, <1>6, <1>7, <1>8 DEF FilesInv
-----------------------------------------------------------------------------
(* What is accepted *)

LEMMA GivenBodyIs ==
    /\ GivenBody("send-level-5") = Sent5.body /\ GivenBody("send-level-4") = Sent4.body
    /\ GivenBody("send-level-3") = Sent3.body /\ GivenBody("send-level-2") = Sent2.body
    /\ \A l \in Receivers : GivenBody(l) = network_dat.body
  BY SMT DEF GivenBody, Receivers

LEMMA GivenLenIs ==
    /\ GivenLen("send-level-5") = Sent5.len /\ GivenLen("send-level-4") = Sent4.len
    /\ GivenLen("send-level-3") = Sent3.len /\ GivenLen("send-level-2") = Sent2.len
    /\ GivenLen("recv-level-1") = network_dat.len
    /\ GivenLen("recv-level-2") = IF version = "01" THEN network_dat.len - EthLen
                                  ELSE network_dat.len
    /\ GivenLen("recv-level-3") = IF version = "01" THEN network_dat.body.iplen
                                  ELSE EthLen + network_dat.body.iplen
    /\ GivenLen("recv-level-4") = IF version = "01" THEN PayloadLen(network_dat.body)
                                  ELSE extern_len(network_dat.body.off)
  BY SMT DEF GivenLen

\* What the levels hand on depends on the files and the configuration alone.
LEMMA GivenSame ==
    ASSUME version' = version, off' = off, sender_dat' = sender_dat, network_dat' = network_dat,
           NEW l
    PROVE  GivenBody(l)' = GivenBody(l) /\ GivenLen(l)' = GivenLen(l)
  BY DEF GivenBody, GivenLen, Sent2, Sent3, Sent4, Sent5, PayloadLen

LEMMA AcceptsIs ==
    ASSUME NEW b
    PROVE  /\ Accepts("recv-level-1", b) /\ Accepts("recv-level-5", b)
           /\ Accepts("recv-level-2", b) <=> b.type = IPv4
           /\ Accepts("recv-level-3", b) <=> b.ipck = IpChecksum(b)
           /\ Accepts("recv-level-4", b) <=>
                 b.off >= 5 /\ b.tcpck = TcpChecksum(b, b.iplen - IpLen)
  BY SMT DEF Accepts

LEMMA StaleIs ==
    ASSUME NEW s
    PROVE  /\ Stale("recv-level-2", s) <=> s.body.type # IPv4
           /\ Stale("recv-level-3", s) <=> s.body.ipck # IpChecksum(s.body)
           /\ Stale("recv-level-4", s) <=>
                 s.body.off < 5 \/ s.body.tcpck # TcpChecksum(s.body, s.len - IpLen)
           /\ ~Stale("recv-level-5", s)
           /\ \A r \in Senders : ~Stale(r, s)
<1>1. Senders \cap Receivers = {} /\ "recv-level-2" \in Receivers /\ "recv-level-3" \in Receivers
      /\ "recv-level-4" \in Receivers /\ "recv-level-5" \in Receivers
  BY Distinct DEF Receivers
<1> QED BY <1>1, SMT DEF Stale

\* The fields of the frame that is sent.
LEMMA SentIs ==
    ASSUME TypeOK
    PROVE  LET b == Sent2.body
               total == sender_dat.len + TcpLen + extern_len(off) + IpLen IN
           /\ b \in Body /\ Sent2.len \in Int
           /\ b.type = IPv4 /\ b.iplen = total /\ b.addr = Address
           /\ b.off = off /\ b.data = sender_dat.data
           /\ b.ipck = Checksum(17664 + total + Address + 6)
           /\ b.tcpck = Checksum(Address + 6 + (TcpLen + extern_len(off) + sender_dat.len)
                                 + off * 4096 + sender_dat.data)
<1> DEFINE n == sender_dat.len
           d == sender_dat.data
           m == TcpLen + extern_len(off) + n
           total == n + TcpLen + extern_len(off) + IpLen
<1>1. n \in Int /\ d \in Int /\ off \in Int /\ m \in Int /\ total \in Int
      /\ n + TcpLen + extern_len(off) \in Int
  BY DataTypes, SMT DEF TcpLen, IpLen, extern_len
<1>2. Sent5.body \in Body /\ Sent5.len = n /\ Sent5.body.data = d
  <2>1. [Blank EXCEPT !.data = d] \in Body /\ [Blank EXCEPT !.data = d].data = d
    BY <1>1, BlankType, SMT DEF Body
  <2> QED BY <2>1 DEF Sent5
<1> HIDE DEF n, d, m, total
<1>3. /\ Sent4.body \in Body /\ Sent4.len = n + TcpLen + extern_len(off)
      /\ Sent4.body.off = off /\ Sent4.body.data = d
      /\ Sent4.body.tcpck = Checksum(Address + 6 + m + off * 4096 + d)
  <2> DEFINE h == [Sent5.body EXCEPT !.off = off, !.addr = Address]
             h1 == [Sent5.body EXCEPT !.off = off]
  <2>1. h1 \in Body /\ h1.off = off /\ h1.data = d
    BY <1>1, <1>2, SMT DEF Body
  <2>2. h.addr = Address /\ h.off = off /\ h.data = d
    <3>1. h = [h1 EXCEPT !.addr = Address]
      OBVIOUS
    <3> HIDE DEF h, h1
    <3> QED BY <2>1, <3>1, SMT DEF Body
  <2>3. TcpChecksum(h, m) = Checksum(Address + 6 + m + off * 4096 + d)
    <3> HIDE DEF h
    <3> QED BY <2>2 DEF TcpChecksum
  <2>4. Sent4.body = [h1 EXCEPT !.tcpck = TcpChecksum(h, m)]
    BY <1>2 DEF Sent4, WithTcp, m
  <2>5. Sent4.body \in Body
    BY <1>1, <1>2, FrameTypes DEF Sent4
  <2>6. Sent4.len = n + TcpLen + extern_len(off)
    BY <1>2 DEF Sent4
  <2> HIDE DEF h, h1
  <2>7. /\ Sent4.body.off = off /\ Sent4.body.data = d
        /\ Sent4.body.tcpck = TcpChecksum(h, m)
    BY <2>1, <2>4, SMT DEF Body
  <2> QED BY <2>3, <2>5, <2>6, <2>7
<1>4. /\ Sent3.body \in Body /\ Sent3.len \in Int
      /\ Sent3.body.off = off /\ Sent3.body.data = d
      /\ Sent3.body.tcpck = Sent4.body.tcpck
      /\ Sent3.body.addr = Address /\ Sent3.body.iplen = total
      /\ Sent3.body.ipck = Checksum(17664 + total + Address + 6)
  <2> DEFINE h == [Sent4.body EXCEPT !.iplen = Sent4.len + IpLen, !.addr = Address]
             h1 == [Sent4.body EXCEPT !.iplen = Sent4.len + IpLen]
  <2>0. Sent4.len + IpLen = total
    BY <1>1, <1>3 DEF total
  <2>1. /\ h1 \in Body /\ h1.off = off /\ h1.data = d /\ h1.tcpck = Sent4.body.tcpck
        /\ h1.iplen = total
    BY <1>1, <1>3, <2>0, SMT DEF Body
  <2>2. /\ h \in Body /\ h.addr = Address /\ h.off = off /\ h.data = d
        /\ h.tcpck = Sent4.body.tcpck /\ h.iplen = total
    <3>1. h = [h1 EXCEPT !.addr = Address]
      OBVIOUS
    <3> HIDE DEF h, h1
    <3> QED BY <2>1, <3>1, SMT DEF Body, Address
  <2>3. IpChecksum(h) = Checksum(17664 + total + Address + 6)
    <3> HIDE DEF h
    <3> QED BY <2>2 DEF IpChecksum
  <2>4. Sent3.body = [h EXCEPT !.ipck = IpChecksum(h)]
    BY DEF Sent3, WithIp
  <2>5. Sent3.body \in Body
    <3>1. Sent4.body \in Body /\ Sent4.len \in Int /\ off \in Int
      BY <1>1, <1>3 DEF n
    <3> QED BY <3>1, FrameTypes DEF Sent3
  <2>6. Sent3.len \in Int
    BY <1>1, <2>0 DEF Sent3
  <2> HIDE DEF h, h1
  <2>7. /\ Sent3.body.off = off /\ Sent3.body.data = d
        /\ Sent3.body.tcpck = Sent4.body.tcpck
        /\ Sent3.body.addr = Address /\ Sent3.body.iplen = total
        /\ Sent3.body.ipck = IpChecksum(h)
    BY <2>2, <2>4, SMT DEF Body
  <2> QED BY <2>3, <2>5, <2>6, <2>7
<1>5. Sent2.body = [Sent3.body EXCEPT !.type = IPv4]
  BY DEF Sent2, WithEth
<1>6. Sent2.body \in Body
  BY <1>4, FrameTypes DEF Sent2
<1>7. Sent2.len \in Int
  BY <1>4, HeaderTypes, SMT DEF Sent2, AtLeastShortest, Shortest
<1>8. /\ Sent2.body.type = IPv4 /\ Sent2.body.iplen = Sent3.body.iplen
      /\ Sent2.body.addr = Sent3.body.addr /\ Sent2.body.off = Sent3.body.off
      /\ Sent2.body.data = Sent3.body.data /\ Sent2.body.ipck = Sent3.body.ipck
      /\ Sent2.body.tcpck = Sent3.body.tcpck
  BY <1>4, <1>5, SMT DEF Body
<1> QED BY <1>3, <1>4, <1>6, <1>7, <1>8 DEF n, d, m, total

-----------------------------------------------------------------------------
(* The checksum *)

Words == {n \in Nat : n =< 65535}
Partial == {n \in Nat : n =< 1000000}   \* what the words of one header can add up to
Sums == {n \in Nat : n =< 4294967295}

\* Two words that a sum of words in ones' complement does not tell apart.
Same(w, v) == w = v \/ (w = 0 /\ v = 65535) \/ (w = 65535 /\ v = 0)

LEMMA Parts ==
    ASSUME NEW s \in Nat, s =< 4294967295
    PROVE  /\ s \div 65536 \in Nat /\ s \div 65536 =< 65535
           /\ s % 65536 \in Nat /\ s % 65536 =< 65535
           /\ s = 65536 * (s \div 65536) + (s % 65536)
  BY SMT

\* Adding the carries in twice is enough for any sum of 32 bits: what is left has
\* 16 bits, differs from the sum by a multiple of 65535, and is 0 for 0 only.
THEOREM FoldedIsOnesComplement ==
    ASSUME NEW s \in Nat, s =< 4294967295
    PROVE  /\ Folded(s) \in Nat /\ Folded(s) =< 65535
           /\ \E k \in Nat : s = 65535 * k + Folded(s)
           /\ Folded(s) = 0 <=> s = 0
<1> DEFINE q == s \div 65536
           r == s % 65536
           once == q + r
<1>1. q \in Nat /\ q =< 65535 /\ r \in Nat /\ r =< 65535 /\ s = 65536 * q + r
  BY Parts, SMT
<1>2. Folded(s) = (once + (once \div 65536)) % 65536
  BY SMT DEF Folded, Word
<1> HIDE DEF q, r
<1>3. CASE once < 65536
  <2>1. Folded(s) = once
    BY <1>1, <1>2, <1>3, SMT
  <2>2. s = 65535 * q + Folded(s)
    BY <1>1, <2>1, SMT
  <2> QED BY <1>1, <1>3, <2>1, <2>2, SMT
<1>4. CASE once >= 65536
  <2>1. once \div 65536 = 1
    BY <1>1, <1>4, SMT
  <2>2. Folded(s) = once - 65535
    BY <1>1, <1>2, <1>4, <2>1, SMT
  <2>3. PICK k \in Nat : k = q + 1
    BY <1>1, SMT
  <2>4. s = 65535 * k + Folded(s)
    BY <1>1, <2>2, <2>3, SMT
  <2>5. /\ Folded(s) \in Nat /\ Folded(s) =< 65535
        /\ Folded(s) # 0 /\ s # 0
    BY <1>1, <1>4, <2>2, SMT
  <2> QED BY <2>4, <2>5, SMT
<1> QED BY <1>1, <1>3, <1>4, SMT

\* One word altered changes the checksum, wherever it is and whatever the others
\* are, but for 0 that becomes 65535 or 65535 that becomes 0.
THEOREM AlteredWordIsDetected ==
    ASSUME NEW others \in Nat, NEW w \in Words, NEW v \in Words,
           others + w \in Sums, others + v \in Sums, ~Same(w, v)
    PROVE  Folded(others + w) # Folded(others + v)
<1> SUFFICES ASSUME Folded(others + w) = Folded(others + v)
             PROVE  FALSE
  OBVIOUS
<1>0. /\ others + w \in Nat /\ others + w =< 4294967295
      /\ others + v \in Nat /\ others + v =< 4294967295
  BY SMT DEF Sums
<1>1. /\ Folded(others + w) \in Nat
      /\ \E k \in Nat : others + w = 65535 * k + Folded(others + w)
  BY <1>0, FoldedIsOnesComplement, SMT
<1>2. \E m \in Nat : others + v = 65535 * m + Folded(others + v)
  BY <1>0, FoldedIsOnesComplement, SMT
<1>3. PICK f \in Nat : f = Folded(others + w)
  BY <1>1, SMT
<1>4. PICK k \in Nat : others + w = 65535 * k + f
  BY <1>1, <1>3, SMT
<1>5. PICK m \in Nat : others + v = 65535 * m + f
  BY <1>2, <1>3, SMT
<1>6. /\ w - v = 65535 * (k - m)
      /\ w \in Nat /\ w =< 65535 /\ v \in Nat /\ v =< 65535
  BY <1>4, <1>5, SMT DEF Words
<1>7. k - m \in {-1, 0, 1}
  BY <1>6, SMT
<1> QED BY <1>6, <1>7, SMT DEF Same

\* The same, of the checksum that lies in a header.
LEMMA ChecksumDiffers ==
    ASSUME NEW others \in Partial, NEW w \in Words, NEW v \in Words, ~Same(w, v)
    PROVE  Checksum(others + w) # Checksum(others + v)
<1>0. others \in Nat
  BY SMT DEF Partial
<1>1. others + w \in Sums /\ others + v \in Sums
  BY SMT DEF Words, Sums, Partial
<1>2. others + w \in Int /\ others + v \in Int
  BY <1>0, SMT DEF Words
<1>3. Folded(others + w) # Folded(others + v)
  <2> HIDE DEF Words
  <2> QED BY <1>0, <1>1, AlteredWordIsDetected
<1>4. Folded(others + w) \in Int /\ Folded(others + v) \in Int
  BY <1>2, FoldedType
<1> QED BY <1>3, <1>4, SMT DEF Checksum

\* All levels of the receiver accept the frame that was sent.
LEMMA WholeIsAccepted ==
    ASSUME TypeOK
    PROVE  \A l \in Receivers : Accepts(l, Frame.body)
<1> DEFINE b == Sent2.body
           total == sender_dat.len + TcpLen + extern_len(off) + IpLen
<1>1. b.type = IPv4
  BY SentIs, SMT
<1>2. b.ipck = IpChecksum(b)
  BY SentIs, SMT DEF IpChecksum
<1>3. b.off >= 5 /\ b.tcpck = TcpChecksum(b, b.iplen - IpLen)
  <2>1. b.iplen - IpLen = TcpLen + extern_len(off) + sender_dat.len
    <3>1. sender_dat.len \in Int /\ extern_len(off) \in Int
      BY DataTypes, HeaderTypes, SMT
    <3>2. b.iplen = sender_dat.len + TcpLen + extern_len(off) + IpLen
      BY SentIs, SMT
    <3> HIDE DEF b
    <3> QED BY <3>1, <3>2, SMT DEF TcpLen, IpLen
  <2>2. b.off = off /\ b.data = sender_dat.data /\ b.addr = Address
    BY SentIs, SMT
  <2>3. TcpChecksum(b, b.iplen - IpLen) =
           Checksum(Address + 6 + (TcpLen + extern_len(off) + sender_dat.len)
                    + off * 4096 + sender_dat.data)
    BY <2>1, <2>2, SMT DEF TcpChecksum
  <2> QED BY <2>2, <2>3, SentIs, DataTypes, SMT
<1>4. Frame.body = b
  BY SMT DEF Frame
<1> HIDE DEF b
<1> QED BY <1>1, <1>2, <1>3, <1>4, AcceptsIs, SMT DEF Receivers

\* What of an altered frame passes all three levels is the payload that was sent, or
\* one that the sum of the words does not tell from it.
LEMMA WhatIsAccepted ==
    ASSUME TypeOK, NEW f \in Altered(Frame), \A l \in Receivers : Accepts(l, f.body)
    PROVE  /\ PayloadLen(f.body) = sender_dat.len
           /\ Same(sender_dat.data, f.body.data)
<1> DEFINE b == Sent2.body
           c == f.body
           d == sender_dat.data
           m == TcpLen + extern_len(off) + sender_dat.len
           total == sender_dat.len + TcpLen + extern_len(off) + IpLen
<1>1. /\ c.type = IPv4 /\ c.ipck = IpChecksum(c)
      /\ c.off >= 5 /\ c.tcpck = TcpChecksum(c, c.iplen - IpLen)
  BY AcceptsIs, SMT DEF Receivers
<1>2. c \in AlteredBody(b)
  BY SMT DEF Altered, Frame
<1>3. /\ b \in Body /\ b.type = IPv4 /\ b.iplen = total /\ b.addr = 1
      /\ b.off = off /\ b.data = d
      /\ b.ipck = Checksum(17664 + total + 1 + 6)
      /\ b.tcpck = Checksum(1 + 6 + m + off * 4096 + d)
  BY SentIs, SMT DEF Address
<1>4. /\ m \in Nat /\ m =< 2000 /\ total \in Nat /\ total =< 2000 /\ total - IpLen = m
      /\ d \in Nat /\ d =< 65535 /\ off \in Nat /\ off >= 5 /\ off =< 15
      /\ total - IpLen - TcpLen - extern_len(off) = sender_dat.len
  BY DataTypes, SMT DEF TcpLen, IpLen, extern_len
<1> HIDE DEF b, c, d, m, total
<1>5. CASE c = [b EXCEPT !.type = 2054]
  <2>1. c.type = 2054
    BY <1>3, <1>5, SMT DEF Body
  <2> QED BY <1>1, <2>1, SMT DEF IPv4
<1>6. CASE c = [b EXCEPT !.iplen = b.iplen + 1]
  <2>1. c.iplen = total + 1 /\ c.addr = 1 /\ c.ipck = b.ipck
    BY <1>3, <1>6, SMT DEF Body
  <2> DEFINE w == total + 1
             others == 17671
  <2>2. Checksum(others + total) # Checksum(others + w)
    <3>1. total \in Words /\ w \in Words /\ ~Same(total, w)
      BY <1>4, SMT DEF Words, Same
    <3>2. others \in Partial
      BY SMT DEF Partial
    <3> HIDE DEF others, w
    <3> QED BY <3>1, <3>2, ChecksumDiffers
  <2>3. IpChecksum(c) = Checksum(others + w)
    <3>1. 17664 + (total + 1) + 1 + 6 = others + w
      BY <1>4, SMT
    <3> QED BY <2>1, <3>1, SMT DEF IpChecksum
  <2>4. b.ipck = Checksum(others + total)
    <3>1. 17664 + total + 1 + 6 = others + total
      BY <1>4, SMT
    <3> QED BY <1>3, <3>1, SMT
  <2>5. c.ipck = b.ipck /\ c.ipck = IpChecksum(c)
    BY <1>1, <2>1, SMT
  <2> HIDE DEF others, w
  <2> QED BY <2>2, <2>3, <2>4, <2>5, SMT
<1>7. CASE c = [b EXCEPT !.addr = 2]
  <2>1. c.iplen = total /\ c.addr = 2 /\ c.ipck = b.ipck
    BY <1>3, <1>7, SMT DEF Body
  <2> DEFINE others == 17670 + total
  <2>2. Checksum(others + 1) # Checksum(others + 2)
    <3>1. others \in Partial
      BY <1>4, SMT DEF Partial
    <3>2. 1 \in Words /\ 2 \in Words /\ ~Same(1, 2)
      BY SMT DEF Words, Same
    <3> HIDE DEF others
    <3> QED BY <3>1, <3>2, ChecksumDiffers
  <2>3. IpChecksum(c) = Checksum(others + 2)
    <3>1. 17664 + total + 2 + 6 = others + 2
      BY <1>4, SMT
    <3> QED BY <2>1, <3>1, SMT DEF IpChecksum
  <2>4. b.ipck = Checksum(others + 1)
    <3>1. 17664 + total + 1 + 6 = others + 1
      BY <1>4, SMT
    <3> QED BY <1>3, <3>1, SMT
  <2>5. c.ipck = b.ipck /\ c.ipck = IpChecksum(c)
    BY <1>1, <2>1, SMT
  <2> HIDE DEF others
  <2> QED BY <2>2, <2>3, <2>4, <2>5, SMT
<1>8. CASE c = [b EXCEPT !.ipck = (b.ipck + 1) % Word]
  <2>1. c.iplen = b.iplen /\ c.addr = b.addr /\ c.ipck = (b.ipck + 1) % Word
    BY <1>3, <1>8, SMT DEF Body, Word
  <2>2. b.ipck = IpChecksum(c)
    BY <1>3, <2>1, SMT DEF IpChecksum
  <2>3. b.ipck \in Int
    BY <1>3, SMT DEF Body
  <2>4. (b.ipck + 1) % Word # b.ipck
    BY <2>3, SMT DEF Word
  <2> QED BY <1>1, <2>1, <2>2, <2>4, SMT
<1>9. CASE c = [b EXCEPT !.tcpck = (b.tcpck + 1) % Word]
  <2>1. /\ c.iplen = b.iplen /\ c.addr = b.addr /\ c.off = b.off /\ c.data = b.data
        /\ c.tcpck = (b.tcpck + 1) % Word
    BY <1>3, <1>9, SMT DEF Body, Word
  <2>2. b.tcpck = TcpChecksum(c, c.iplen - IpLen)
    BY <1>3, <1>4, <2>1, SMT DEF TcpChecksum
  <2>3. b.tcpck \in Int
    BY <1>3, SMT DEF Body
  <2>4. (b.tcpck + 1) % Word # b.tcpck
    BY <2>3, SMT DEF Word
  <2> QED BY <1>1, <2>1, <2>2, <2>4, SMT
<1>10. CASE \E v \in {4, b.off + 1} \cap 0 .. 15 : c = [b EXCEPT !.off = v]
  <2>1. PICK v \in {4, b.off + 1} \cap 0 .. 15 : c = [b EXCEPT !.off = v]
    BY <1>10, SMT
  <2>2. v \in Int /\ v =< 15
    BY SMT
  <2>3. c.iplen = total /\ c.addr = 1 /\ c.off = v /\ c.data = d /\ c.tcpck = b.tcpck
    BY <1>3, <2>1, <2>2, SMT DEF Body
  <2>4. v = off + 1
    BY <1>1, <1>3, <2>3, SMT
  <2> DEFINE others == 7 + m + d
             w == off * 4096
             u == (off + 1) * 4096
  <2>5. Checksum(others + w) # Checksum(others + u)
    <3>1. others \in Partial
      BY <1>4, SMT DEF Partial
    <3>2. w \in Words /\ u \in Words /\ ~Same(w, u)
      BY <1>4, <2>2, <2>4, SMT DEF Words, Same
    <3> HIDE DEF others, w, u
    <3> QED BY <3>1, <3>2, ChecksumDiffers
  <2>6. TcpChecksum(c, c.iplen - IpLen) = Checksum(others + u)
    <3>1. 1 + 6 + m + (off + 1) * 4096 + d = others + u
      BY <1>4, SMT
    <3> QED BY <1>4, <2>3, <2>4, <3>1, SMT DEF TcpChecksum
  <2>7. b.tcpck = Checksum(others + w)
    <3>1. 1 + 6 + m + off * 4096 + d = others + w
      BY <1>4, SMT
    <3> QED BY <1>3, <3>1, SMT
  <2> QED BY <1>1, <2>3, <2>5, <2>6, <2>7, SMT
<1>11. CASE \E v \in {0, 2, 65535} \ {b.data} : c = [b EXCEPT !.data = v]
  <2>1. PICK v \in {0, 2, 65535} \ {b.data} : c = [b EXCEPT !.data = v]
    BY <1>11, SMT
  <2>2. v \in Nat /\ v =< 65535
    BY <1>3, SMT
  <2>3. c.iplen = total /\ c.addr = 1 /\ c.off = off /\ c.data = v /\ c.tcpck = b.tcpck
    BY <1>3, <2>1, <2>2, SMT DEF Body
  <2>4. PayloadLen(c) = sender_dat.len
    BY <1>4, <2>3, SMT DEF PayloadLen
  <2> DEFINE others == 7 + m + off * 4096
  <2>5. CASE ~Same(d, v)
    <3>1. Checksum(others + d) # Checksum(others + v)
      <4>1. others \in Partial
        BY <1>4, SMT DEF Partial
      <4>2. d \in Words /\ v \in Words /\ ~Same(d, v)
        BY <1>4, <2>2, <2>5, SMT DEF Words
      <4> HIDE DEF others
      <4> QED BY <4>1, <4>2, ChecksumDiffers
    <3>2. TcpChecksum(c, c.iplen - IpLen) = Checksum(others + v)
      <4>1. 1 + 6 + m + off * 4096 + v = others + v
        BY <1>4, <2>2, SMT
      <4> QED BY <1>4, <2>3, <4>1, SMT DEF TcpChecksum
    <3>3. b.tcpck = Checksum(others + d)
      <4>1. 1 + 6 + m + off * 4096 + d = others + d
        BY <1>4, SMT
      <4> QED BY <1>3, <4>1, SMT
    <3> QED BY <1>1, <2>3, <3>1, <3>2, <3>3, SMT
  <2> QED BY <2>3, <2>4, <2>5, SMT DEF c, d
<1> QED BY <1>2, <1>5, <1>6, <1>7, <1>8, <1>9, <1>10, <1>11, SMT DEF AlteredBody
-----------------------------------------------------------------------------
(* What the steps of both versions share *)

\* A level that has taken the frame has had it from one that is done.
LEMMA Before ==
    ASSUME InOrder
    PROVE  /\ pc["send-level-4"] \in Taken => pc["send-level-5"] = "done"
           /\ pc["send-level-3"] \in Taken => pc["send-level-4"] = "done"
           /\ pc["send-level-2"] \in Taken => pc["send-level-3"] = "done"
           /\ pc["send-level-1"] \in Taken => pc["send-level-2"] = "done"
           /\ pc["recv-level-2"] \in Taken => pc["recv-level-1"] = "done"
           /\ pc["recv-level-3"] \in Taken => pc["recv-level-2"] = "done"
           /\ pc["recv-level-4"] \in Taken => pc["recv-level-3"] = "done"
           /\ pc["recv-level-5"] \in Taken => pc["recv-level-4"] = "done"
<1>1. \A r \in Readers : pc[r] \in Taken => pc[Writer(r)] = "done"
  BY DEF InOrder
<1> QED BY <1>1, Writers, Levels10

\* A level is done only after the first one of its side.
LEMMA FirstIsFirst ==
    ASSUME InOrder, NEW r \in Readers, pc[Writer(r)] \in Taken
    PROVE  /\ r \in Senders => pc["send-level-5"] \in Taken
           /\ r \in Receivers => pc["recv-level-1"] \in Taken
<1>1. "done" \in Taken
  BY DEF Taken
<1>2. r \in {"send-level-4", "send-level-3", "send-level-2", "send-level-1",
             "recv-level-2", "recv-level-3", "recv-level-4", "recv-level-5"}
  BY DEF Readers, Senders, Receivers
<1>3. ASSUME r \in Senders PROVE pc["send-level-5"] \in Taken
  <2>1. r \in {"send-level-4", "send-level-3", "send-level-2", "send-level-1"}
    BY <1>3 DEF Readers, Senders
  <2> QED BY <1>1, <2>1, Before, Writers
<1>4. ASSUME r \in Receivers PROVE pc["recv-level-1"] \in Taken
  <2>1. r \in {"recv-level-2", "recv-level-3", "recv-level-4", "recv-level-5"}
    BY <1>4 DEF Readers, Receivers
  <2> QED BY <1>1, <2>1, Before, Writers
<1> QED BY <1>3, <1>4

LEMMA Sides ==
    /\ Sending[1] = "send-level-5" /\ Sending[2] = "send-level-4" /\ Sending[3] = "send-level-3"
    /\ Sending[4] = "send-level-2" /\ Sending[5] = "send-level-1"
    /\ Receiving[1] = "recv-level-1" /\ Receiving[2] = "recv-level-2"
    /\ Receiving[3] = "recv-level-3" /\ Receiving[4] = "recv-level-4"
    /\ Receiving[5] = "recv-level-5"
  BY SMT DEF Sending, Receiving

\* The scripts start a level when the one before it has ended.
LEMMA MayStartIs ==
    ASSUME NEW r \in Readers
    PROVE  MayStart(r) <=> /\ pc[r] = "off"
                           /\ r \in Receivers => carried # "no"
                           /\ scripted => pc[Writer(r)] \in Ended
<1>1. \A i \in 2 .. 5 : i \in {2, 3, 4, 5}
  BY SMT
<1>2. /\ 2 \in 2 .. 5 /\ 3 \in 2 .. 5 /\ 4 \in 2 .. 5 /\ 5 \in 2 .. 5
      /\ 2 - 1 = 1 /\ 3 - 1 = 2 /\ 4 - 1 = 3 /\ 5 - 1 = 4
  BY SMT
<1>3. r \in {"send-level-4", "send-level-3", "send-level-2", "send-level-1",
             "recv-level-2", "recv-level-3", "recv-level-4", "recv-level-5"}
  BY DEF Readers, Senders, Receivers
<1>4. ASSUME NEW side \in {Sending, Receiving}, NEW i \in 2 .. 5, side[i] = r
      PROVE  side[i - 1] = Writer(r)
  <2>1. i \in {2, 3, 4, 5}
    BY <1>1
  <2> QED BY <1>2, <1>3, <1>4, <2>1, Sides, Writers, SMT
<1>5. \E side \in {Sending, Receiving} : \E i \in 2 .. 5 : side[i] = r
  BY <1>2, <1>3, Sides
<1>6. (\A side \in {Sending, Receiving} : \A i \in 2 .. 5 :
          side[i] = r => pc[side[i - 1]] \in Ended)
      <=> pc[Writer(r)] \in Ended
  BY <1>4, <1>5
<1>7. r \in Range(Receiving) <=> r \in Receivers
  BY LevelSets
<1> QED BY <1>6, <1>7 DEF MayStart

\* A level that is at work: the file has come to the receiver, the script has gone on.
LEMMA AtWork ==
    ASSUME InOrder, FilesInv, NEW l \in Levels, pc[l] \in {"wait", "have", "made"}
    PROVE  /\ pc[l] \notin Ended
           /\ l \in Receivers => carried # "no"
           /\ l \in Readers /\ scripted => pc[Writer(l)] \in Ended
           /\ \A x \in Receivers : l \in Receivers => pc[x] # "killed"
<1>1. pc[l] \notin Ended /\ pc[l] # "off"
  BY DEF Ended
<1> QED BY <1>1 DEF InOrder, FilesInv

\* A level that fails where it must not find an old frame has an altered one.
LEMMA FailsOnlyAltered ==
    ASSUME TypeOK, InOrder, FilesInv, NEW l \in Readers, l \in Receivers, pc[l] = "wait",
           scripted \/ run = 1,
           pc[Writer(l)] = "done" => ~Accepts(l, network_dat.body),
           pc[Writer(l)] # "done" => run > 1
    PROVE  carried = "altered" /\ pc[Writer(l)] \in Ended
<1>0. Writer(l) \in Receivers
  BY Distinct
<1>1. l \in Levels /\ carried # "no" /\ pc["send-level-1"] = "done"
      /\ (scripted => pc[Writer(l)] \in Ended) /\ pc[Writer(l)] # "killed"
  BY <1>0, Levels10, AtWork DEF FilesInv
<1>2. CASE pc[Writer(l)] = "done"
  <2>1. network_dat # Frame
    BY <1>2, WholeIsAccepted
  <2>2. carried = "altered"
    BY <1>1, <2>1 DEF FilesInv
  <2> QED BY <1>2, <2>2 DEF Ended
<1>3. CASE pc[Writer(l)] # "done"
  <2>1. run # 1
    BY <1>3, SMT
  <2>2. pc[Writer(l)] = "failed"
    BY <1>1, <1>3, <2>1 DEF Ended
  <2>3. Writer(l) # "recv-level-1"
    BY <2>2 DEF InOrder
  <2>4. Writer(l) \in Readers
    BY <1>0, <2>3, Distinct
  <2>5. carried = "altered"
    BY <2>2, <2>4 DEF InOrder
  <2> QED BY <2>2, <2>5 DEF Ended
<1> QED BY <1>2, <1>3

-----------------------------------------------------------------------------
(* Version 01: one segment between two levels *)

ChainKey == {54, 43, 32, 21, 12, 23, 34, 45}

\* Each level has a segment of its own to wait in.
LEMMA ChainTable ==
    ASSUME version = "01"
    PROVE  /\ \A r \in Readers : From(r) \in ChainKey /\ To(Writer(r)) = From(r)
           /\ \A r \in Readers :
                 Given[Writer(r)] = Awaited[r] /\ Awaited[r] \in Int /\ Awaited[r] # 0
           /\ \A r, q \in Readers : From(r) = From(q) => r = q
           /\ \A l \in Levels : l \notin Readers => From(l) = 0
           /\ ChainKey \subseteq Keys /\ 0 \notin ChainKey /\ 1 \notin ChainKey /\ 2 \notin ChainKey
           /\ \A k \in Keys : k \in ChainKey \/ k \in {1, 2}
           /\ \A k \in ChainKey : \E r \in Readers : k = From(r)
<1>1. \A r \in Readers : r \in {"send-level-4", "send-level-3", "send-level-2", "send-level-1",
             "recv-level-2", "recv-level-3", "recv-level-4", "recv-level-5"}
  BY DEF Readers, Senders, Receivers
<1>2. \A r \in Readers : From(r) \in ChainKey /\ To(Writer(r)) = From(r)
  BY <1>1, ChainKeys, ToIs, Writers DEF ChainKey
<1>3. \A r \in Readers : Given[Writer(r)] = Awaited[r] /\ Awaited[r] \in Int /\ Awaited[r] # 0
  BY <1>1, AwaitedIs, GivenIs, Writers, SMT
<1>4. \A r, q \in Readers : From(r) = From(q) => r = q
  BY <1>1, ChainKeys, SMT
<1>5. \A l \in Levels : l \notin Readers => From(l) = 0
  BY LevelSets, ChainKeys DEF Readers
<1>6. ChainKey \subseteq Keys /\ 0 \notin ChainKey /\ 1 \notin ChainKey /\ 2 \notin ChainKey
      /\ \A k \in Keys : k \in ChainKey \/ k \in {1, 2}
  BY SMT DEF ChainKey, Keys
<1>7. \A k \in ChainKey : \E r \in Readers : k = From(r)
  BY Levels10, ChainKeys DEF ChainKey
<1> QED BY <1>2, <1>3, <1>4, <1>5, <1>6, <1>7

LEMMA FromPrime == ASSUME version' = version, NEW l PROVE From(l)' = From(l)
  BY DEF From

\* The segment of l is deleted: nobody else waits in it.
LEMMA ChainDeleted ==
    ASSUME TypeOK, InOrder, version = "01", NEW l \in Readers, NEW st, Deleted(From(l), l, st)
    PROVE  pc' = [pc EXCEPT ![l] = st] /\ seg' = [seg EXCEPT ![From(l)] = Absent]
<1>1. \A x \in Levels : pc[x] = "wait" => x \in Readers
  BY LevelSets DEF Readers, InOrder
<1>2. \A x \in Levels : x # l => ~(pc[x] = "wait" /\ From(x) = From(l))
  BY <1>1, ChainTable
<1>3. pc' = [x \in Levels |-> IF x = l THEN st ELSE pc[x]]
  BY <1>2 DEF Deleted
<1>4. pc' = [pc EXCEPT ![l] = st]
  BY <1>3 DEF TypeOK
<1> QED BY <1>4 DEF Deleted

\* A level finds what the one before it has brought, or what an earlier transfer left.
LEMMA ChainReady ==
    ASSUME ChainInv, NEW l \in Readers, Ready(l)
    PROVE  \/ pc[Writer(l)] = "done" /\ Fresh(l, seg[From(l)])
           \/ pc[Writer(l)] # "done" /\ run > 1 /\ Stale(l, seg[From(l)])
<1>1. pc[l] = "wait" /\ seg[From(l)].ready = Awaited[l] /\ ChainLink(l)
  BY DEF Ready, ChainInv
<1> QED BY <1>1 DEF ChainLink

\* A level goes on: the links that it is no part of stay as they are.
LEMMA ChainStep ==
    ASSUME version' = version, run' = run, scripted' = scripted, TypeOK, InOrder, ChainInv,
           NEW l \in Levels, NEW st, pc' = [pc EXCEPT ![l] = st], st # "orphan",
           \A r \in Readers : r # l /\ Writer(r) # l => seg'[From(r)] = seg[From(r)],
           \A x \in Levels : x # l => buf'[x] = buf[x],
           \A x \in Levels : x # l /\ pc[x] \in Taken =>
               GivenBody(x)' = GivenBody(x) /\ GivenLen(x)' = GivenLen(x),
           st \in {"have", "made"} => buf'[l] = [body |-> GivenBody(l)', len |-> GivenLen(l)'],
           l \in Readers => ChainLink(l)',
           \A r \in Readers : Writer(r) = l => ChainLink(r)'
    PROVE  ChainInv'
<1>0. pc'[l] = st /\ \A x \in Levels : x # l => pc'[x] = pc[x]
  BY DEF TypeOK
<1>1. \A x \in Levels : pc'[x] # "orphan"
  BY <1>0 DEF ChainInv
<1>2. ASSUME NEW x \in Levels, pc'[x] \in {"have", "made"}
      PROVE  buf'[x] = [body |-> GivenBody(x)', len |-> GivenLen(x)']
  <2>1. CASE x = l
    BY <1>0, <1>2, <2>1
  <2>2. CASE x # l
    <3>1. pc[x] \in {"have", "made"} /\ pc[x] \in Taken
      BY <1>0, <1>2, <2>2 DEF Taken
    <3>2. buf[x] = [body |-> GivenBody(x), len |-> GivenLen(x)]
      BY <3>1 DEF ChainInv
    <3> QED BY <2>2, <3>1, <3>2
  <2> QED BY <2>1, <2>2
<1>3. ASSUME NEW r \in Readers PROVE ChainLink(r)'
  <2>1. CASE r # l /\ Writer(r) # l
    <3>1. r \in Levels /\ Writer(r) \in Levels
      BY Levels10, Distinct
    <3>2. pc'[r] = pc[r] /\ pc'[Writer(r)] = pc[Writer(r)] /\ seg'[From(r)] = seg[From(r)]
      BY <1>0, <2>1, <3>1
    <3>3. pc[Writer(r)] = "done" => /\ GivenBody(Writer(r))' = GivenBody(Writer(r))
                                   /\ GivenLen(Writer(r))' = GivenLen(Writer(r))
      BY <2>1, <3>1 DEF Taken
    <3>4. ChainLink(r) /\ From(r)' = From(r)
      BY FromPrime DEF ChainInv
    <3>5. Stale(r, seg[From(r)])' <=> Stale(r, seg[From(r)])
      BY <3>2, <3>4 DEF Stale
    <3> QED BY <3>2, <3>3, <3>4, <3>5 DEF ChainLink, Fresh
  <2> QED BY <2>1
<1> QED BY <1>1, <1>2, <1>3 DEF ChainInv

\* The next link, when l has not yet put anything there.
LEMMA NextLinkKeeps ==
    ASSUME version' = version, run' = run, scripted' = scripted, TypeOK, InOrder, ChainInv,
           NEW l \in Levels, NEW st, pc' = [pc EXCEPT ![l] = st], pc[l] \notin Ended,
           st \notin {"made", "done"},
           NEW r \in Readers, Writer(r) = l, seg'[From(r)] = seg[From(r)]
    PROVE  ChainLink(r)'
<1>1. r # l /\ r \in Levels
  BY Distinct, Levels10
<1>2. pc'[l] = st /\ pc'[r] = pc[r]
  BY <1>1 DEF TypeOK
<1>3. ChainLink(r) /\ From(r)' = From(r)
  BY FromPrime DEF ChainInv
<1>4. Stale(r, seg[From(r)])' <=> Stale(r, seg[From(r)])
  BY <1>3 DEF Stale
<1>5. pc[l] # "done"
  BY DEF Ended
<1> QED BY <1>2, <1>3, <1>4, <1>5 DEF ChainLink

\* The own link of a level that is at work on what it took.
LEMMA OwnLinkKeeps ==
    ASSUME version' = version, run' = run, scripted' = scripted, TypeOK, InOrder, ChainInv,
           NEW l \in Readers, NEW st, pc' = [pc EXCEPT ![l] = st], pc[l] \in {"have", "made"},
           st \in {"made", "done"}, seg'[From(l)] = seg[From(l)]
    PROVE  ChainLink(l)'
<1>1. Writer(l) # l /\ Writer(l) \in Levels /\ l \in Levels
  BY Distinct, Levels10
<1>2. pc'[l] = st /\ pc'[Writer(l)] = pc[Writer(l)]
  BY <1>1 DEF TypeOK
<1>3. ChainLink(l) /\ From(l)' = From(l)
  BY FromPrime DEF ChainInv
<1>4. pc[l] \in Taken
  BY DEF Taken
<1>5. pc[Writer(l)] = "done" /\ seg[From(l)] = Absent
  BY <1>3, <1>4 DEF InOrder, ChainLink
<1> QED BY <1>2, <1>3, <1>5 DEF ChainLink, Taken

\* Only the segments of the version that runs are ever made.
LEMMA SegmentsStep ==
    ASSUME SegmentsInv, version' = version, NEW k,
           (k \in ChainKey /\ version = "01") \/ (k \in {1, 2} /\ version = "02"),
           \A j \in Keys : j # k => seg'[j] = seg[j],
           ~seg'[k].there => seg'[k] = Absent
    PROVE  SegmentsInv'
<1> SUFFICES ASSUME NEW j \in Keys
             PROVE  /\ ~seg'[j].there => seg'[j] = Absent
                    /\ (version = "02" <=> j \notin {1, 2}) => seg'[j] = Absent
  BY DEF SegmentsInv, Absent, Zeroed
<1>1. CASE j # k
  BY <1>1 DEF SegmentsInv
<1>2. CASE j = k
  <2>1. ~(version = "02" <=> k \notin {1, 2})
    BY SMT DEF ChainKey
  <2> QED BY <1>2, <2>1
<1> QED BY <1>1, <1>2

\* What a level finds at its turn is stale just when it does not accept it.
LEMMA FreshStale ==
    ASSUME version = "01", NEW l \in Readers, l \in Receivers, NEW s \in Segment, Fresh(l, s)
    PROVE  Stale(l, s) <=> ~Accepts(l, network_dat.body)
<1>1. l \in {"recv-level-2", "recv-level-3", "recv-level-4", "recv-level-5"}
  BY DEF Readers, Receivers
<1>2. s.body = network_dat.body
  <2>1. Writer(l) \in Receivers
    BY Distinct
  <2> QED BY <2>1, GivenBodyIs DEF Fresh
<1>3. CASE l = "recv-level-4"
  <2>1. s.len = network_dat.body.iplen
    BY <1>3, GivenLenIs, Writers DEF Fresh
  <2>2. s.body.off \in Int
    BY DEF Segment, Body
  <2>3. s.body.off < 5 <=> ~(s.body.off >= 5)
    BY <2>2, SMT
  <2> QED BY <1>2, <1>3, <2>1, <2>3, StaleIs, AcceptsIs
<1>4. CASE l \in {"recv-level-2", "recv-level-3", "recv-level-5"}
  BY <1>2, <1>4, StaleIs, AcceptsIs
<1> QED BY <1>1, <1>3, <1>4

LEMMA GoesAttach ==
    ASSUME TypeOK, InOrder, NEW l \in Readers, Attach(l)
    PROVE  Goes(l, "wait")
<1>1. l \in Levels /\ l # "send-level-5" /\ l # "recv-level-1"
  BY Levels10 DEF Readers
<1>2. /\ pc[l] = "off" /\ (l \in Receivers => carried # "no")
      /\ scripted => pc[Writer(l)] \in Ended
      /\ pc' = [pc EXCEPT ![l] = "wait"]
  BY MayStartIs DEF Attach
<1>3. pc'[l] = "wait" /\ \A x \in Levels \ {l} : pc'[x] = pc[x]
  BY <1>1, <1>2 DEF TypeOK
<1> QED BY <1>1, <1>2, <1>3 DEF Goes, Ended, Taken

\* A level attaches to its segment, or makes it.
LEMMA ChainAttach ==
    ASSUME TypeOK, version = "01", InOrder, FilesInv, SegmentsInv, ChainInv,
           NEW l \in Readers, Attach(l)
    PROVE  InOrder' /\ FilesInv' /\ SegmentsInv' /\ ChainInv'
<1> DEFINE k == From(l)
           t == IF seg[k].there THEN seg[k] ELSE New
<1>1. /\ UNCHANGED <<setting, files, buf>> /\ pc' = [pc EXCEPT ![l] = "wait"]
      /\ seg' = [seg EXCEPT ![k] = t] /\ pc[l] = "off"
  BY MayStartIs DEF Attach
<1>2. /\ version' = version /\ scripted' = scripted /\ off' = off /\ run' = run
      /\ sender_dat' = sender_dat /\ network_dat' = network_dat /\ carried' = carried
      /\ receiver_dat' = receiver_dat /\ buf' = buf
  BY <1>1 DEF setting, files
<1>3. InOrder'
  BY <1>2, GoesAttach, InOrderStep
<1>4. FilesInv'
  BY <1>2, GoesAttach, FilesStep
<1>5. /\ t.there /\ t.ready = seg[k].ready /\ t.body = seg[k].body /\ t.len = seg[k].len
      /\ k \in Keys /\ k \in ChainKey
  <2>1. k \in Keys /\ k \in ChainKey
    BY KeyOf, ChainTable
  <2>2. CASE seg[k].there
    BY <2>1, <2>2
  <2>3. CASE ~seg[k].there
    <3>1. seg[k] = Absent
      BY <2>1, <2>3 DEF SegmentsInv
    <3>2. t = New
      BY <2>3
    <3> QED BY <2>1, <3>1, <3>2 DEF New, Absent, Zeroed
  <2> QED BY <2>2, <2>3
<1>6. seg'[k] = t /\ \A j \in Keys : j # k => seg'[j] = seg[j]
  BY <1>1, <1>5 DEF TypeOK
<1>7. SegmentsInv'
  <2> HIDE DEF k, t
  <2>1. (k \in ChainKey /\ version = "01") \/ (k \in {1, 2} /\ version = "02")
    BY <1>5
  <2>2. ~seg'[k].there => seg'[k] = Absent
    BY <1>5, <1>6
  <2> QED BY <1>2, <1>6, <2>1, <2>2, SegmentsStep
<1>8. ChainLink(l)'
  <2> HIDE DEF t
  <2>1. Writer(l) # l /\ Writer(l) \in Levels /\ l \in Levels
    BY Distinct, Levels10
  <2>2. pc'[l] = "wait" /\ pc'[Writer(l)] = pc[Writer(l)]
    BY <1>1, <2>1 DEF TypeOK
  <2>3. ChainLink(l) /\ From(l)' = k
    BY <1>2, FromPrime DEF ChainInv
  <2>4. Stale(l, seg[From(l)])' <=> Stale(l, seg[k])
    BY <1>5, <1>6, <2>3 DEF Stale
  <2>5. pc[Writer(l)] = "made" => t.there /\ t.ready = 0
    BY <1>5, <2>3 DEF ChainLink
  <2>6. pc[Writer(l)] = "done" => Fresh(l, seg[From(l)])'
    <3>1. GivenBody(Writer(l))' = GivenBody(Writer(l)) /\ GivenLen(Writer(l))' = GivenLen(Writer(l))
      BY <1>2, GivenSame
    <3> QED BY <1>1, <1>5, <1>6, <2>3, <3>1 DEF ChainLink, Fresh
  <2>7. pc[Writer(l)] # "done" /\ t.ready = Awaited[l] => run > 1 /\ Stale(l, seg[From(l)])'
    BY <1>5, <2>3, <2>4 DEF ChainLink
  <2> QED BY <1>2, <1>6, <2>2, <2>3, <2>5, <2>6, <2>7 DEF ChainLink, Taken
<1>9. ChainInv'
  <2>1. \A r \in Readers : r # l => seg'[From(r)] = seg[From(r)]
    BY <1>6, ChainTable, KeyOf
  <2>2. \A x \in Levels : GivenBody(x)' = GivenBody(x) /\ GivenLen(x)' = GivenLen(x)
    BY <1>2, GivenSame
  <2>3. ASSUME NEW r \in Readers, Writer(r) = l PROVE ChainLink(r)'
    <3>1. l \in Levels /\ r # l /\ pc[l] \notin Ended
      BY <1>1, <2>3, Levels10, Distinct DEF Ended
    <3>2. seg'[From(r)] = seg[From(r)] /\ "wait" \notin {"made", "done"}
      BY <2>1, <3>1
    <3> QED BY <1>1, <1>2, <2>3, <3>1, <3>2, NextLinkKeeps
  <2> HIDE DEF t
  <2> QED BY <1>1, <1>2, <1>8, <2>1, <2>2, <2>3, Levels10, ChainStep
<1> QED BY <1>3, <1>4, <1>7, <1>9

\* A level takes what the one before it has brought.
LEMMA ChainTakes ==
    ASSUME TypeOK, version = "01", InOrder, FilesInv, SegmentsInv, ChainInv,
           NEW l \in Readers, l # "send-level-1", l # "recv-level-5",
           NEW b, NEW n, Takes(l, b, n), ~Stale(l, seg[From(l)]),
           Fresh(l, seg[From(l)]) => b = GivenBody(l) /\ n = GivenLen(l)
    PROVE  InOrder' /\ FilesInv' /\ SegmentsInv' /\ ChainInv'
<1>1. /\ pc' = [pc EXCEPT ![l] = "have"] /\ seg' = [seg EXCEPT ![From(l)] = Absent]
      /\ buf' = [buf EXCEPT ![l] = [body |-> b, len |-> n]]
      /\ pc[l] = "wait" /\ l \in Levels /\ From(l) \in Keys /\ From(l) \in ChainKey
  BY ChainDeleted, Levels10, KeyOf, ChainTable DEF Takes, Ready
<1>2. /\ version' = version /\ scripted' = scripted /\ off' = off /\ run' = run
      /\ sender_dat' = sender_dat /\ network_dat' = network_dat /\ carried' = carried
      /\ receiver_dat' = receiver_dat
  BY DEF Takes, setting, files
<1>3. pc[Writer(l)] = "done" /\ Fresh(l, seg[From(l)])
  BY ChainReady DEF Takes
<1>4. l \in Receivers => Accepts(l, network_dat.body)
  <2>1. seg[From(l)] \in Segment
    BY <1>1 DEF TypeOK
  <2> QED BY <1>3, <2>1, FreshStale
<1>5. pc'[l] = "have" /\ \A x \in Levels : x # l => pc'[x] = pc[x]
  BY <1>1 DEF TypeOK
<1>6. Goes(l, "have")
  <2>1. /\ pc[l] \notin Ended /\ (l \in Receivers => carried # "no")
        /\ scripted => pc[Writer(l)] \in Ended
    BY <1>1, AtWork
  <2>2. l # "send-level-5" /\ l # "recv-level-1"
    BY DEF Readers
  <2> QED BY <1>1, <1>3, <1>4, <1>5, <2>1, <2>2 DEF Goes
<1>7. InOrder' /\ FilesInv'
  BY <1>2, <1>6, InOrderStep, FilesStep
<1>8. seg'[From(l)] = Absent /\ \A j \in Keys : j # From(l) => seg'[j] = seg[j]
  BY <1>1 DEF TypeOK
<1>9. SegmentsInv'
  <2>1. (From(l) \in ChainKey /\ version = "01") \/ (From(l) \in {1, 2} /\ version = "02")
    BY <1>1
  <2> QED BY <1>2, <1>8, <2>1, SegmentsStep
<1>10. ChainLink(l)'
  <2>1. Writer(l) # l /\ Writer(l) \in Levels
    BY Distinct
  <2>2. pc'[l] = "have" /\ pc'[Writer(l)] = "done" /\ From(l)' = From(l)
    BY <1>2, <1>3, <1>5, <2>1, FromPrime
  <2>3. Absent' = Absent
    BY DEF Absent, Zeroed, Blank
  <2> QED BY <1>8, <2>2, <2>3 DEF ChainLink
<1>11. ChainInv'
  <2>1. \A r \in Readers : r # l => seg'[From(r)] = seg[From(r)]
    BY <1>8, ChainTable, KeyOf
  <2>2. \A x \in Levels : GivenBody(x)' = GivenBody(x) /\ GivenLen(x)' = GivenLen(x)
    BY <1>2, GivenSame
  <2>3. ASSUME NEW r \in Readers, Writer(r) = l PROVE ChainLink(r)'
    <3>1. r # l /\ pc[l] \notin Ended
      BY <1>1, <2>3, Distinct DEF Ended
    <3>2. seg'[From(r)] = seg[From(r)] /\ "have" \notin {"made", "done"}
      BY <2>1, <3>1
    <3> QED BY <1>1, <1>2, <2>3, <3>1, <3>2, NextLinkKeeps
  <2>4. /\ \A x \in Levels : x # l => buf'[x] = buf[x]
        /\ buf'[l] = [body |-> b, len |-> n]
    BY <1>1 DEF TypeOK
  <2>5. buf'[l] = [body |-> GivenBody(l)', len |-> GivenLen(l)']
    BY <1>1, <1>3, <2>2, <2>4
  <2> QED BY <1>1, <1>2, <1>10, <2>1, <2>2, <2>3, <2>4, <2>5, ChainStep
<1> QED BY <1>7, <1>9, <1>11

\* A level that gives up has an altered frame or an old one.
LEMMA ChainFails ==
    ASSUME TypeOK, version = "01", InOrder, FilesInv, SegmentsInv, ChainInv,
           NEW l \in Readers, l \in Receivers, Ready(l), Stale(l, seg[From(l)]),
           UNCHANGED <<setting, files, buf>>,
           Exit1(l) \/ Deleted(From(l), l, "failed")
    PROVE  InOrder' /\ FilesInv' /\ SegmentsInv' /\ ChainInv'
<1>0. pc[l] = "wait" /\ l \in Levels /\ From(l) \in Keys /\ From(l) \in ChainKey
  BY Levels10, KeyOf, ChainTable DEF Ready
<1>1. /\ pc' = [pc EXCEPT ![l] = "failed"]
      /\ seg' = seg \/ seg' = [seg EXCEPT ![From(l)] = Absent]
  BY ChainDeleted DEF Exit1
<1>2. /\ version' = version /\ scripted' = scripted /\ off' = off /\ run' = run
      /\ sender_dat' = sender_dat /\ network_dat' = network_dat /\ carried' = carried
      /\ receiver_dat' = receiver_dat /\ buf' = buf
  BY DEF setting, files
<1>3. /\ pc[Writer(l)] = "done" => ~Accepts(l, network_dat.body)
      /\ pc[Writer(l)] # "done" => run > 1
  <2>1. seg[From(l)] \in Segment
    BY <1>0 DEF TypeOK
  <2> QED BY <2>1, ChainReady, FreshStale
<1>4. scripted \/ run = 1 => carried = "altered" /\ pc[Writer(l)] \in Ended
  BY <1>0, <1>3, FailsOnlyAltered
<1>5. pc'[l] = "failed" /\ \A x \in Levels : x # l => pc'[x] = pc[x]
  BY <1>0, <1>1 DEF TypeOK
<1>6. Goes(l, "failed")
  <2>1. /\ pc[l] \notin Ended /\ carried # "no"
        /\ scripted => pc[Writer(l)] \in Ended
    BY <1>0, AtWork
  <2>2. l # "send-level-5" /\ l # "recv-level-1" /\ l \notin Senders
    BY Distinct DEF Readers
  <2>3. l # "send-level-1"
    BY <2>2 DEF Senders
  <2> QED BY <1>0, <1>4, <1>5, <2>1, <2>2, <2>3 DEF Goes, Taken
<1>7. InOrder' /\ FilesInv'
  BY <1>2, <1>6, InOrderStep, FilesStep
<1>8. /\ seg'[From(l)] \in {seg[From(l)], Absent}
      /\ \A j \in Keys : j # From(l) => seg'[j] = seg[j]
  BY <1>0, <1>1 DEF TypeOK
<1>9. SegmentsInv'
  <2>1. (From(l) \in ChainKey /\ version = "01") \/ (From(l) \in {1, 2} /\ version = "02")
    BY <1>0
  <2>2. ~seg'[From(l)].there => seg'[From(l)] = Absent
    BY <1>0, <1>8 DEF SegmentsInv
  <2> QED BY <1>2, <1>8, <2>1, <2>2, SegmentsStep
<1>10. ChainLink(l)'
  <2>1. Writer(l) # l /\ Writer(l) \in Levels
    BY Distinct
  <2>2. pc'[l] = "failed" /\ pc'[Writer(l)] = pc[Writer(l)] /\ From(l)' = From(l)
    BY <1>2, <1>5, <2>1, FromPrime
  <2>3. ChainLink(l)
    BY DEF ChainInv
  <2>4. CASE seg'[From(l)] = Absent
    <3>1. Absent.ready # Awaited[l] /\ Absent.ready = 0
      BY NewIs, ChainTable
    <3>2. pc[Writer(l)] # "made"
      <4>1. pc[Writer(l)] = "made" => seg[From(l)].ready = 0
        BY <2>3 DEF ChainLink
      <4> QED BY <4>1, ChainTable DEF Ready
    <3> QED BY <1>2, <2>2, <2>4, <3>1, <3>2 DEF ChainLink, Taken
  <2>5. CASE seg'[From(l)] = seg[From(l)]
    <3>1. Stale(l, seg[From(l)])'
      BY <2>2, <2>5 DEF Stale
    <3> QED BY <1>2, <2>2, <2>3, <2>5, <3>1 DEF ChainLink, Taken
  <2> QED BY <1>8, <2>4, <2>5
<1>11. ChainInv'
  <2>1. \A r \in Readers : r # l => seg'[From(r)] = seg[From(r)]
    BY <1>8, ChainTable, KeyOf
  <2>2. \A x \in Levels : GivenBody(x)' = GivenBody(x) /\ GivenLen(x)' = GivenLen(x)
    BY <1>2, GivenSame
  <2>3. ASSUME NEW r \in Readers, Writer(r) = l PROVE ChainLink(r)'
    <3>1. r # l /\ pc[l] \notin Ended
      BY <1>0, <2>3, Distinct DEF Ended
    <3>2. seg'[From(r)] = seg[From(r)] /\ "failed" \notin {"made", "done"}
      BY <2>1, <3>1
    <3> QED BY <1>0, <1>1, <1>2, <2>3, <3>1, <3>2, NextLinkKeeps
  <2>4. "failed" \notin {"have", "made"} /\ "failed" # "orphan"
    OBVIOUS
  <2> QED BY <1>0, <1>1, <1>2, <1>10, <2>1, <2>2, <2>3, <2>4, ChainStep
<1> QED BY <1>7, <1>9, <1>11

LEMMA GoesOn ==
    ASSUME TypeOK, InOrder, FilesInv, NEW l \in Levels \ {"send-level-1", "recv-level-5"},
           NEW st \in {"made", "done"}, pc[l] \in {"have", "made"}, pc' = [pc EXCEPT ![l] = st]
    PROVE  Goes(l, st)
<1>1. pc'[l] = st /\ \A x \in Levels : x # l => pc'[x] = pc[x]
  BY DEF TypeOK
<1>2. /\ pc[l] \notin Ended /\ (l \in Receivers => carried # "no")
      /\ l \in Readers /\ scripted => pc[Writer(l)] \in Ended
  BY AtWork
<1>3. pc[l] \in Taken
  BY DEF Taken
<1>4. /\ l \in Receivers => Accepts(l, network_dat.body)
      /\ l \in Readers => pc[Writer(l)] = "done"
  BY <1>3 DEF InOrder
<1> QED BY <1>1, <1>2, <1>4 DEF Goes

LEMMA NextOf ==
    ASSUME NEW l \in Levels \ {"send-level-1", "recv-level-5"}
    PROVE  \E r \in Readers : Writer(r) = l /\ r # l
<1>1. l \in {"send-level-5", "send-level-4", "send-level-3", "send-level-2",
             "recv-level-1", "recv-level-2", "recv-level-3", "recv-level-4"}
  BY LevelSets DEF Senders, Receivers
<1> QED BY <1>1, Writers, Levels10, Distinct

\* A level makes the next segment, and then fills it.
LEMMA ChainPuts ==
    ASSUME TypeOK, version = "01", InOrder, FilesInv, SegmentsInv, ChainInv,
           NEW l \in Levels \ {"send-level-1", "recv-level-5"}, Puts(l)
    PROVE  InOrder' /\ FilesInv' /\ SegmentsInv' /\ ChainInv'
<1>0. PICK r \in Readers : Writer(r) = l /\ r # l
  BY NextOf
<1> DEFINE k == From(r)
<1>1. /\ version' = version /\ scripted' = scripted /\ off' = off /\ run' = run
      /\ sender_dat' = sender_dat /\ network_dat' = network_dat /\ carried' = carried
      /\ receiver_dat' = receiver_dat /\ buf' = buf
  BY DEF Puts, setting, files
<1>2. /\ k \in Keys /\ k \in ChainKey /\ To(l) = k /\ r \in Levels /\ l \in Levels
      /\ \A q \in Readers : q # r => From(q) # k
      /\ \A q \in Readers : From(q) \in Keys
  BY <1>0, ChainTable, KeyOf, Levels10
<1>3. ChainLink(r) /\ From(r)' = k
  BY <1>1, FromPrime DEF ChainInv
<1>4. ASSUME NEW st \in {"made", "done"}, pc[l] \in {"have", "made"},
             pc' = [pc EXCEPT ![l] = st], NEW t, seg' = [seg EXCEPT ![k] = t],
             t.there, ChainLink(r)'
      PROVE  InOrder' /\ FilesInv' /\ SegmentsInv' /\ ChainInv'
  <2>1. InOrder' /\ FilesInv'
    BY <1>1, <1>4, GoesOn, InOrderStep, FilesStep
  <2>2. seg'[k] = t /\ \A j \in Keys : j # k => seg'[j] = seg[j]
    BY <1>2, <1>4 DEF TypeOK
  <2>3. SegmentsInv'
    <3>1. (k \in ChainKey /\ version = "01") \/ (k \in {1, 2} /\ version = "02")
      BY <1>2
    <3>2. ~seg'[k].there => seg'[k] = Absent
      BY <1>4, <2>2
    <3> HIDE DEF k
    <3> QED BY <1>1, <2>2, <3>1, <3>2, SegmentsStep
  <2>4. \A q \in Readers : q # r => seg'[From(q)] = seg[From(q)]
    BY <1>2, <2>2
  <2>5. ASSUME l \in Readers PROVE ChainLink(l)'
    <3>1. seg'[From(l)] = seg[From(l)]
      BY <1>0, <2>4, <2>5
    <3> QED BY <1>1, <1>4, <2>5, <3>1, OwnLinkKeeps
  <2>6. ASSUME NEW q \in Readers, Writer(q) = l PROVE ChainLink(q)'
    BY <1>0, <1>4, <2>6, Distinct
  <2>7. \A x \in Levels : GivenBody(x)' = GivenBody(x) /\ GivenLen(x)' = GivenLen(x)
    BY <1>1, GivenSame
  <2>8. buf'[l] = [body |-> GivenBody(l)', len |-> GivenLen(l)']
    BY <1>1, <1>2, <1>4, <2>7 DEF ChainInv
  <2>9. /\ st # "orphan" /\ \A x \in Levels : x # l => buf'[x] = buf[x]
        /\ \A q \in Readers : q # l /\ Writer(q) # l => seg'[From(q)] = seg[From(q)]
    BY <1>0, <1>1, <2>4
  <2>10. ChainInv'
    BY <1>1, <1>2, <1>4, <2>5, <2>6, <2>7, <2>8, <2>9, ChainStep
  <2> QED BY <2>1, <2>3, <2>10
<1>5. CASE /\ pc[l] = "have"
           /\ seg' = [seg EXCEPT ![To(l)] = Created(To(l))]
           /\ pc' = [pc EXCEPT ![l] = "made"]
  <2>1. Created(k).there /\ Created(k).ready = 0
    BY <1>2, CreatedIs DEF TypeOK
  <2>2. seg' = [seg EXCEPT ![k] = Created(k)] /\ seg'[k] = Created(k)
        /\ pc'[l] = "made" /\ pc'[r] = pc[r]
    BY <1>0, <1>2, <1>5 DEF TypeOK
  <2>3. pc[r] \notin Taken
    BY <1>0, <1>5 DEF InOrder
  <2>4. 0 # Awaited[r]
    BY ChainTable
  <2>5. ChainLink(r)'
    BY <1>0, <1>3, <2>1, <2>2, <2>3, <2>4 DEF ChainLink
  <2> QED BY <1>4, <1>5, <2>1, <2>2, <2>5
<1>6. CASE /\ pc[l] = "made"
           /\ seg' = [seg EXCEPT ![To(l)] =
                         Handed(@, buf[l].body, buf[l].len, @.datalen, Given[l])]
           /\ pc' = [pc EXCEPT ![l] = "done"]
  <2> DEFINE t == Handed(seg[k], buf[l].body, buf[l].len, seg[k].datalen, Given[l])
  <2>1. buf[l] = [body |-> GivenBody(l), len |-> GivenLen(l)]
    BY <1>2, <1>6 DEF ChainInv
  <2>2. /\ t.there = seg[k].there /\ t.ready = Given[l]
        /\ t.body = buf[l].body /\ t.len = buf[l].len
    BY DEF Handed
  <2>3. seg' = [seg EXCEPT ![k] = t] /\ pc'[l] = "done" /\ pc'[r] = pc[r]
    BY <1>0, <1>2, <1>6 DEF TypeOK
  <2>4. seg'[k] = t
    <3> HIDE DEF t
    <3> QED BY <1>2, <2>3 DEF TypeOK
  <2> HIDE DEF t
  <2>5. seg[k].there
    BY <1>0, <1>3, <1>6 DEF ChainLink
  <2>6. pc[r] \notin Taken
    BY <1>0, <1>6 DEF InOrder
  <2>7. Given[l] = Awaited[r] /\ "done" \notin {"made"}
    BY <1>0, ChainTable
  <2>8. Fresh(r, seg[From(r)])'
    <3>1. GivenBody(l)' = GivenBody(l) /\ GivenLen(l)' = GivenLen(l)
      BY <1>1, GivenSame
    <3> QED BY <1>0, <1>3, <2>1, <2>2, <2>4, <2>7, <3>1 DEF Fresh
  <2>9. scripted \/ run = 1 => pc[r] # "failed"
    <3>1. pc[l] \notin Ended
      BY <1>6 DEF Ended
    <3> QED BY <1>0, <3>1 DEF InOrder
  <2>10. ChainLink(r)'
    BY <1>0, <1>1, <1>3, <2>3, <2>6, <2>8, <2>9 DEF ChainLink
  <2> QED BY <1>4, <1>6, <2>2, <2>3, <2>5, <2>10
<1> QED BY <1>2, <1>5, <1>6 DEF Puts

\* Until the last sender is done the receivers have not begun.
LEMMA BeforeTheFile ==
    ASSUME FilesInv, pc["send-level-1"] # "done"
    PROVE  /\ carried = "no" /\ \A l \in Receivers : pc[l] = "off"
           /\ receiver_dat = NoFile
<1>1. carried = "no" /\ \A l \in Receivers : pc[l] = "off"
  BY DEF FilesInv
<1>2. "recv-level-5" \in Receivers
  BY DEF Receivers
<1> QED BY <1>1, <1>2 DEF FilesInv

LEMMA GivenBySenders ==
    ASSUME off' = off, sender_dat' = sender_dat, NEW l \in Senders, l # "send-level-1"
    PROVE  GivenBody(l)' = GivenBody(l) /\ GivenLen(l)' = GivenLen(l)
<1>0. Sent5' = Sent5 /\ Sent4' = Sent4 /\ Sent3' = Sent3 /\ Sent2' = Sent2
  BY DEF Sent2, Sent3, Sent4, Sent5
<1>1. CASE l = "send-level-5"
  BY <1>0, <1>1, SMT DEF GivenBody, GivenLen
<1>2. CASE l = "send-level-4"
  BY <1>0, <1>2, SMT DEF GivenBody, GivenLen
<1>3. CASE l = "send-level-3"
  BY <1>0, <1>3, SMT DEF GivenBody, GivenLen
<1>4. CASE l = "send-level-2"
  BY <1>0, <1>4, SMT DEF GivenBody, GivenLen
<1> QED BY <1>1, <1>2, <1>3, <1>4 DEF Senders

\* send-level-5 takes the payload, and puts it into its segment.
LEMMA ChainSend5 ==
    ASSUME TypeOK, version = "01", InOrder, FilesInv, SegmentsInv, ChainInv, SendLevel5
    PROVE  InOrder' /\ FilesInv' /\ SegmentsInv' /\ ChainInv'
<1> DEFINE l == "send-level-5"
<1>0. l \in Levels /\ l \in Senders /\ l \notin Readers /\ l \notin Receivers
  BY Levels10, Distinct DEF Senders
<1>1. CASE Puts(l)
  BY <1>0, <1>1, ChainPuts
<1>2. ASSUME MayStart(l), NEW n \in datalen, NEW d \in Payload,
             sender_dat' = [len |-> n, data |-> d],
             buf' = [buf EXCEPT ![l] = [body |-> [Blank EXCEPT !.data = d], len |-> n]],
             pc' = [pc EXCEPT ![l] = "have"],
             UNCHANGED <<setting, network_dat, carried, receiver_dat, seg>>
      PROVE  InOrder' /\ FilesInv' /\ SegmentsInv' /\ ChainInv'
  <2>1. /\ version' = version /\ scripted' = scripted /\ off' = off /\ run' = run
        /\ network_dat' = network_dat /\ carried' = carried
        /\ receiver_dat' = receiver_dat /\ seg' = seg
    BY <1>2 DEF setting
  <2>2. pc[l] = "off" /\ pc'[l] = "have" /\ \A x \in Levels : x # l => pc'[x] = pc[x]
    BY <1>0, <1>2 DEF TypeOK, MayStart
  <2>3. \A r \in Readers \cap Senders : pc[Writer(r)] \notin Taken /\ pc[r] \notin Taken
    <3>1. \A r \in Readers \cap Senders : pc[Writer(r)] \notin Taken
      BY <2>2, FirstIsFirst DEF Taken
    <3>2. \A r \in Readers \cap Senders : pc[Writer(r)] # "done"
      BY <3>1 DEF Taken
    <3> QED BY <3>1, <3>2 DEF InOrder
  <2>4. pc["send-level-1"] # "done" /\ pc'["send-level-1"] # "done"
    <3>1. "send-level-1" \in Readers \cap Senders /\ "send-level-1" \in Levels
      BY Levels10 DEF Senders
    <3> QED BY <2>2, <2>3, <3>1 DEF Taken
  <2>5. carried = "no" /\ (\A x \in Receivers : pc[x] = "off") /\ receiver_dat = NoFile
    BY <2>4, BeforeTheFile
  <2>6. Goes(l, "have")
    BY <1>0, <2>2 DEF Goes, Ended
  <2>7. InOrder'
    BY <2>1, <2>6, InOrderStep
  <2>8. \A x \in Receivers : pc'[x] = "off"
    BY <1>0, <2>2, <2>5, Distinct
  <2>9. FilesInv'
    BY <2>1, <2>4, <2>5, <2>8 DEF FilesInv
  <2>10. SegmentsInv'
    BY <2>1 DEF SegmentsInv, Absent, Zeroed
  <2>11. \A x \in Levels : x # l => pc[x] \notin Taken
    <3>1. \A x \in Levels : x # l => x \in Receivers \/ x \in Readers \cap Senders
      BY LevelSets, Distinct
    <3> QED BY <2>3, <2>5, <3>1 DEF Taken
  <2>12. buf'[l] = [body |-> GivenBody(l)', len |-> GivenLen(l)']
    <3>1. GivenBody(l)' = Sent5'.body /\ GivenLen(l)' = Sent5'.len
      BY SMT DEF GivenBody, GivenLen
    <3>2. Sent5' = [body |-> [Blank EXCEPT !.data = d], len |-> n]
      BY <1>2 DEF Sent5, Blank
    <3>3. buf'[l] = [body |-> [Blank EXCEPT !.data = d], len |-> n]
      BY <1>0, <1>2 DEF TypeOK
    <3> QED BY <3>1, <3>2, <3>3
  <2>13. ASSUME NEW r \in Readers, Writer(r) = l PROVE ChainLink(r)'
    <3>1. seg'[From(r)] = seg[From(r)] /\ "have" \notin {"made", "done"} /\ pc[l] \notin Ended
      BY <2>1, <2>2 DEF Ended
    <3> QED BY <1>0, <1>2, <2>1, <2>13, <3>1, NextLinkKeeps
  <2>14. /\ \A x \in Levels : x # l => buf'[x] = buf[x]
         /\ \A r \in Readers : seg'[From(r)] = seg[From(r)]
    BY <1>2, <2>1 DEF TypeOK
  <2>15. ChainInv'
    BY <1>0, <1>2, <2>1, <2>11, <2>12, <2>13, <2>14, ChainStep
  <2> QED BY <2>7, <2>9, <2>10, <2>15
<1> QED BY <1>1, <1>2 DEF SendLevel5

\* recv-level-1 takes network.dat.
LEMMA ChainReceive1 ==
    ASSUME TypeOK, version = "01", InOrder, FilesInv, SegmentsInv, ChainInv, RecvLevel1
    PROVE  InOrder' /\ FilesInv' /\ SegmentsInv' /\ ChainInv'
<1> DEFINE l == "recv-level-1"
<1>0. l \in Levels /\ l \in Receivers /\ l \notin Readers /\ l \notin Senders
  BY Levels10, Distinct DEF Receivers
<1>1. CASE Puts(l)
  BY <1>0, <1>1, ChainPuts
<1>2. CASE /\ MayStart(l)
           /\ buf' = [buf EXCEPT ![l] = network_dat]
           /\ pc' = [pc EXCEPT ![l] = "have"]
           /\ UNCHANGED <<setting, files, seg>>
  <2>1. /\ version' = version /\ scripted' = scripted /\ off' = off /\ run' = run
        /\ sender_dat' = sender_dat /\ network_dat' = network_dat /\ carried' = carried
        /\ receiver_dat' = receiver_dat /\ seg' = seg
    BY <1>2 DEF setting, files
  <2>2. pc[l] = "off" /\ pc'[l] = "have" /\ \A x \in Levels : x # l => pc'[x] = pc[x]
    BY <1>0, <1>2 DEF TypeOK, MayStart
  <2>3. carried # "no"
    BY <1>0, <1>2, LevelSets DEF MayStart
  <2>4. Goes(l, "have")
    BY <1>0, <2>2, <2>3, AcceptsIs DEF Goes, Ended
  <2>5. InOrder' /\ FilesInv'
    BY <2>1, <2>4, InOrderStep, FilesStep
  <2>6. SegmentsInv'
    BY <2>1 DEF SegmentsInv, Absent, Zeroed
  <2>7. \A x \in Levels : GivenBody(x)' = GivenBody(x) /\ GivenLen(x)' = GivenLen(x)
    BY <2>1, GivenSame
  <2>8. buf'[l] = [body |-> GivenBody(l)', len |-> GivenLen(l)']
    <3>1. GivenBody(l) = network_dat.body /\ GivenLen(l) = network_dat.len
      BY <1>0, GivenBodyIs, GivenLenIs
    <3>2. network_dat = [body |-> network_dat.body, len |-> network_dat.len]
      BY SMT DEF TypeOK
    <3>3. buf'[l] = network_dat
      BY <1>0, <1>2 DEF TypeOK
    <3> QED BY <1>0, <2>7, <3>1, <3>2, <3>3
  <2>9. ASSUME NEW r \in Readers, Writer(r) = l PROVE ChainLink(r)'
    <3>1. seg'[From(r)] = seg[From(r)] /\ "have" \notin {"made", "done"} /\ pc[l] \notin Ended
      BY <2>1, <2>2 DEF Ended
    <3> QED BY <1>0, <1>2, <2>1, <2>9, <3>1, NextLinkKeeps
  <2>10. /\ \A x \in Levels : x # l => buf'[x] = buf[x]
         /\ \A r \in Readers : seg'[From(r)] = seg[From(r)]
    BY <1>2, <2>1 DEF TypeOK
  <2>11. ChainInv'
    BY <1>0, <1>2, <2>1, <2>7, <2>8, <2>9, <2>10, ChainStep
  <2> QED BY <2>5, <2>6, <2>11
<1> QED BY <1>1, <1>2 DEF RecvLevel1

\* The last level of a side: its segment is the only one it touches.
LEMMA ChainLast ==
    ASSUME TypeOK, version = "01", version' = version, run' = run, scripted' = scripted,
           InOrder, SegmentsInv, ChainInv,
           NEW l \in {"send-level-1", "recv-level-5"}, Ready(l), Deleted(From(l), l, "done"),
           pc[Writer(l)] = "done", buf' = buf,
           \A x \in Levels : x # l /\ pc[x] \in Taken =>
               GivenBody(x)' = GivenBody(x) /\ GivenLen(x)' = GivenLen(x)
    PROVE  SegmentsInv' /\ ChainInv'
<1>0. l \in Readers /\ l \in Levels /\ From(l) \in Keys /\ From(l) \in ChainKey /\ pc[l] = "wait"
  BY Levels10, KeyOf, ChainTable DEF Ready
<1>1. pc' = [pc EXCEPT ![l] = "done"] /\ seg' = [seg EXCEPT ![From(l)] = Absent]
  BY <1>0, ChainDeleted
<1>2. seg'[From(l)] = Absent /\ \A j \in Keys : j # From(l) => seg'[j] = seg[j]
  BY <1>0, <1>1 DEF TypeOK
<1>3. SegmentsInv'
  <2>1. (From(l) \in ChainKey /\ version = "01") \/ (From(l) \in {1, 2} /\ version = "02")
    BY <1>0
  <2> QED BY <1>2, <2>1, SegmentsStep
<1>4. ChainLink(l)'
  <2>1. Writer(l) # l /\ Writer(l) \in Levels
    BY <1>0, Distinct
  <2>2. pc'[l] = "done" /\ pc'[Writer(l)] = "done" /\ From(l)' = From(l)
    BY <1>0, <1>1, <2>1, FromPrime DEF TypeOK
  <2>3. Absent' = Absent
    BY DEF Absent, Zeroed, Blank
  <2> QED BY <1>2, <2>2, <2>3 DEF ChainLink
<1>5. \A r \in Readers : Writer(r) # l
  <2>1. \A r \in Readers : r \in {"send-level-4", "send-level-3", "send-level-2",
             "send-level-1", "recv-level-2", "recv-level-3", "recv-level-4", "recv-level-5"}
    BY DEF Readers, Senders, Receivers
  <2> QED BY <2>1, Writers
<1>6. \A r \in Readers : r # l => seg'[From(r)] = seg[From(r)]
  BY <1>0, <1>2, ChainTable, KeyOf
<1>7. "done" \notin {"have", "made"} /\ "done" # "orphan"
  OBVIOUS
<1>8. ChainInv'
  BY <1>0, <1>1, <1>4, <1>5, <1>6, <1>7, ChainStep
<1> QED BY <1>3, <1>8

\* The frame is written to network.dat as the levels have built it.
LEMMA ChainSend1 ==
    ASSUME TypeOK, version = "01", InOrder, FilesInv, SegmentsInv, ChainInv, SendLevel1
    PROVE  InOrder' /\ FilesInv' /\ SegmentsInv' /\ ChainInv'
<1> DEFINE l == "send-level-1"
<1>0. l \in Levels /\ l \in Senders /\ l \in Readers /\ l \notin Receivers /\ From(l) = 21
  BY Levels10, Distinct, ChainKeys DEF Senders
<1>1. CASE Attach(l)
  BY <1>0, <1>1, ChainAttach
<1>2. CASE /\ Ready(l)
           /\ network_dat' = [len |-> seg[21].len, body |-> seg[21].body]
           /\ Deleted(21, l, "done")
           /\ UNCHANGED <<setting, sender_dat, carried, receiver_dat, buf>>
  <2>1. /\ version' = version /\ scripted' = scripted /\ off' = off /\ run' = run
        /\ sender_dat' = sender_dat /\ carried' = carried
        /\ receiver_dat' = receiver_dat /\ buf' = buf
    BY <1>2 DEF setting
  <2>2. pc' = [pc EXCEPT ![l] = "done"] /\ pc[l] = "wait"
    BY <1>0, <1>2, ChainDeleted DEF Ready
  <2>3. pc'[l] = "done" /\ \A x \in Levels : x # l => pc'[x] = pc[x]
    BY <1>0, <2>2 DEF TypeOK
  <2>4. pc[Writer(l)] = "done" /\ Fresh(l, seg[21])
    <3>1. ~Stale(l, seg[From(l)])
      BY <1>0, StaleIs
    <3> QED BY <1>0, <1>2, <3>1, ChainReady
  <2>5. network_dat' = Frame
    <3>1. seg[21].body = Sent2.body /\ seg[21].len = Sent2.len
      BY <2>4, GivenBodyIs, GivenLenIs, Writers DEF Fresh
    <3> QED BY <1>2, <3>1 DEF Frame
  <2>6. carried = "no" /\ (\A x \in Receivers : pc[x] = "off") /\ receiver_dat = NoFile
    BY <2>2, BeforeTheFile
  <2>7. Goes(l, "done")
    <3>1. pc[l] \notin Ended /\ (scripted => pc[Writer(l)] \in Ended)
      BY <1>0, <2>2, AtWork
    <3> QED BY <1>0, <2>3, <2>4, <3>1 DEF Goes
  <2>8. InOrder'
    BY <2>1, <2>6, <2>7, InOrderStep
  <2>9. FilesInv'
    <3>1. Frame' = Frame
      BY <2>1 DEF Frame, Sent2, Sent3, Sent4, Sent5
    <3>2. \A x \in Receivers : pc'[x] = "off"
      BY <1>0, <2>3, <2>6, Distinct
    <3> QED BY <2>1, <2>3, <2>5, <2>6, <3>1, <3>2 DEF FilesInv
  <2>10. ASSUME NEW x \in Levels, x # l, pc[x] \in Taken
         PROVE  GivenBody(x)' = GivenBody(x) /\ GivenLen(x)' = GivenLen(x)
    <3>1. x \in Senders
      BY <2>6, <2>10, LevelSets DEF Taken
    <3> QED BY <2>1, <2>10, <3>1, GivenBySenders
  <2>11. SegmentsInv' /\ ChainInv'
    BY <1>0, <1>2, <2>1, <2>4, <2>10, ChainLast
  <2> QED BY <2>8, <2>9, <2>11
<1> QED BY <1>1, <1>2 DEF SendLevel1

\* receiver.dat is what is accepted of network.dat.
LEMMA ChainReceive5 ==
    ASSUME TypeOK, version = "01", InOrder, FilesInv, SegmentsInv, ChainInv, RecvLevel5
    PROVE  InOrder' /\ FilesInv' /\ SegmentsInv' /\ ChainInv'
<1> DEFINE l == "recv-level-5"
<1>0. l \in Levels /\ l \in Receivers /\ l \in Readers /\ l \notin Senders /\ From(l) = 45
  BY Levels10, Distinct, ChainKeys DEF Receivers
<1>1. CASE Attach(l)
  BY <1>0, <1>1, ChainAttach
<1>2. CASE /\ Ready(l)
           /\ receiver_dat' = [len |-> seg[45].len, data |-> seg[45].body.data]
           /\ Deleted(45, l, "done")
           /\ UNCHANGED <<setting, sender_dat, network_dat, carried, buf>>
  <2>1. /\ version' = version /\ scripted' = scripted /\ off' = off /\ run' = run
        /\ sender_dat' = sender_dat /\ network_dat' = network_dat /\ carried' = carried
        /\ buf' = buf
    BY <1>2 DEF setting
  <2>2. pc' = [pc EXCEPT ![l] = "done"] /\ pc[l] = "wait"
    BY <1>0, <1>2, ChainDeleted DEF Ready
  <2>3. pc'[l] = "done" /\ \A x \in Levels : x # l => pc'[x] = pc[x]
    BY <1>0, <2>2 DEF TypeOK
  <2>4. pc[Writer(l)] = "done" /\ Fresh(l, seg[45])
    <3>1. ~Stale(l, seg[From(l)])
      BY <1>0, StaleIs
    <3> QED BY <1>0, <1>2, <3>1, ChainReady
  <2>5. receiver_dat' = [len |-> PayloadLen(network_dat.body), data |-> network_dat.body.data]
    <3>1. "recv-level-4" \in Receivers
      BY DEF Receivers
    <3>2. seg[45].body = network_dat.body /\ seg[45].len = PayloadLen(network_dat.body)
      BY <2>4, <3>1, GivenBodyIs, GivenLenIs, Writers DEF Fresh
    <3> QED BY <1>2, <3>2
  <2>6. carried # "no" /\ pc[l] \notin Ended /\ (scripted => pc[Writer(l)] \in Ended)
    BY <1>0, <2>2, AtWork
  <2>7. Goes(l, "done")
    BY <1>0, <2>3, <2>4, <2>6, AcceptsIs DEF Goes
  <2>8. InOrder'
    BY <2>1, <2>6, <2>7, InOrderStep
  <2>9. FilesInv'
    <3>1. Frame' = Frame /\ PayloadLen(network_dat.body)' = PayloadLen(network_dat.body)
      BY <2>1 DEF Frame, Sent2, Sent3, Sent4, Sent5, PayloadLen
    <3>2. pc'["send-level-1"] = pc["send-level-1"]
      BY <2>3, Levels10
    <3> QED BY <2>1, <2>3, <2>5, <2>6, <3>1, <3>2 DEF FilesInv
  <2>10. \A x \in Levels : GivenBody(x)' = GivenBody(x) /\ GivenLen(x)' = GivenLen(x)
    BY <2>1, GivenSame
  <2>11. SegmentsInv' /\ ChainInv'
    BY <1>0, <1>2, <2>1, <2>4, <2>10, ChainLast
  <2> QED BY <2>8, <2>9, <2>11
<1> QED BY <1>1, <1>2 DEF RecvLevel5

LEMMA ChainMiddleSenders ==
    ASSUME TypeOK, version = "01", InOrder, FilesInv, SegmentsInv, ChainInv,
           SendLevel4 \/ SendLevel3 \/ SendLevel2
    PROVE  InOrder' /\ FilesInv' /\ SegmentsInv' /\ ChainInv'
<1> USE Levels10
<1>0. \A l \in Readers : Attach(l) => InOrder' /\ FilesInv' /\ SegmentsInv' /\ ChainInv'
  BY ChainAttach
<1>1. \A l \in Levels \ {"send-level-1", "recv-level-5"} :
        Puts(l) => InOrder' /\ FilesInv' /\ SegmentsInv' /\ ChainInv'
  BY ChainPuts
<1>2. CASE SendLevel4
  <2>1. CASE Takes("send-level-4", WithTcp(seg[54].body, off, seg[54].len),
                   seg[54].len + TcpLen + extern_len(off))
    <3>1. From("send-level-4") = 54 /\ ~Stale("send-level-4", seg[54])
      BY ChainKeys, StaleIs DEF Senders
    <3>2. Fresh("send-level-4", seg[54]) =>
             /\ WithTcp(seg[54].body, off, seg[54].len) = GivenBody("send-level-4")
             /\ seg[54].len + TcpLen + extern_len(off) = GivenLen("send-level-4")
      <4> SUFFICES ASSUME Fresh("send-level-4", seg[54])
                   PROVE  /\ WithTcp(seg[54].body, off, seg[54].len) = GivenBody("send-level-4")
                          /\ seg[54].len + TcpLen + extern_len(off) = GivenLen("send-level-4")
        OBVIOUS
      <4>1. seg[54].body = Sent5.body /\ seg[54].len = Sent5.len
        BY GivenBodyIs, GivenLenIs, Writers DEF Fresh
      <4> QED BY <4>1, GivenBodyIs, GivenLenIs DEF Sent4
    <3> QED BY <2>1, <3>1, <3>2, ChainTakes
  <2> QED BY <1>0, <1>1, <1>2, <2>1 DEF SendLevel4
<1>3. CASE SendLevel3
  <2>1. CASE Takes("send-level-3", WithIp(seg[43].body, seg[43].len),
                   seg[43].len + IpLen)
    <3>1. From("send-level-3") = 43 /\ ~Stale("send-level-3", seg[43])
      BY ChainKeys, StaleIs DEF Senders
    <3>2. Fresh("send-level-3", seg[43]) =>
             /\ WithIp(seg[43].body, seg[43].len) = GivenBody("send-level-3")
             /\ seg[43].len + IpLen = GivenLen("send-level-3")
      <4> SUFFICES ASSUME Fresh("send-level-3", seg[43])
                   PROVE  /\ WithIp(seg[43].body, seg[43].len) = GivenBody("send-level-3")
                          /\ seg[43].len + IpLen = GivenLen("send-level-3")
        OBVIOUS
      <4>1. seg[43].body = Sent4.body /\ seg[43].len = Sent4.len
        BY GivenBodyIs, GivenLenIs, Writers DEF Fresh
      <4> QED BY <4>1, GivenBodyIs, GivenLenIs DEF Sent3
    <3> QED BY <2>1, <3>1, <3>2, ChainTakes
  <2> QED BY <1>0, <1>1, <1>3, <2>1 DEF SendLevel3
<1>4. CASE SendLevel2
  <2>1. CASE Takes("send-level-2", WithEth(seg[32].body),
                   AtLeastShortest(seg[32].len + EthLen))
    <3>1. From("send-level-2") = 32 /\ ~Stale("send-level-2", seg[32])
      BY ChainKeys, StaleIs DEF Senders
    <3>2. Fresh("send-level-2", seg[32]) =>
             /\ WithEth(seg[32].body) = GivenBody("send-level-2")
             /\ AtLeastShortest(seg[32].len + EthLen) = GivenLen("send-level-2")
      <4> SUFFICES ASSUME Fresh("send-level-2", seg[32])
                   PROVE  /\ WithEth(seg[32].body) = GivenBody("send-level-2")
                          /\ AtLeastShortest(seg[32].len + EthLen) = GivenLen("send-level-2")
        OBVIOUS
      <4>1. seg[32].body = Sent3.body /\ seg[32].len = Sent3.len
        BY GivenBodyIs, GivenLenIs, Writers DEF Fresh
      <4> QED BY <4>1, GivenBodyIs, GivenLenIs DEF Sent2
    <3> QED BY <2>1, <3>1, <3>2, ChainTakes
  <2> QED BY <1>0, <1>1, <1>4, <2>1 DEF SendLevel2
<1> QED BY <1>2, <1>3, <1>4

LEMMA ChainMiddleReceivers ==
    ASSUME TypeOK, version = "01", InOrder, FilesInv, SegmentsInv, ChainInv,
           RecvLevel2 \/ RecvLevel3 \/ RecvLevel4
    PROVE  InOrder' /\ FilesInv' /\ SegmentsInv' /\ ChainInv'
<1> USE Levels10
<1>0. \A l \in Readers : Attach(l) => InOrder' /\ FilesInv' /\ SegmentsInv' /\ ChainInv'
  BY ChainAttach
<1>1. \A l \in Levels \ {"send-level-1", "recv-level-5"} :
        Puts(l) => InOrder' /\ FilesInv' /\ SegmentsInv' /\ ChainInv'
  BY ChainPuts
<1>2. /\ "recv-level-2" \in Receivers /\ "recv-level-3" \in Receivers
      /\ "recv-level-4" \in Receivers /\ "recv-level-1" \in Receivers
  BY DEF Receivers
<1>3. /\ From("recv-level-2") = 12 /\ From("recv-level-3") = 23 /\ From("recv-level-4") = 34
  BY ChainKeys
<1>4. \A l \in {"recv-level-2", "recv-level-3", "recv-level-4"} :
        Fresh(l, seg[From(l)]) =>
           /\ seg[From(l)].body = network_dat.body /\ GivenBody(l) = network_dat.body
           /\ seg[From(l)].len = GivenLen(Writer(l))
  BY <1>2, GivenBodyIs, Writers DEF Fresh
<1>5. CASE RecvLevel2
  <2>1. CASE /\ seg[12].body.type = IPv4
             /\ Takes("recv-level-2", seg[12].body, seg[12].len - EthLen)
    <3>1. ~Stale("recv-level-2", seg[12])
      BY <2>1, StaleIs
    <3>2. Fresh("recv-level-2", seg[12]) =>
             /\ seg[12].body = GivenBody("recv-level-2")
             /\ seg[12].len - EthLen = GivenLen("recv-level-2")
      BY <1>3, <1>4, GivenLenIs, Writers
    <3> QED BY <1>3, <2>1, <3>1, <3>2, ChainTakes
  <2>2. CASE /\ Ready("recv-level-2") /\ ~(seg[12].body.type = IPv4)
             /\ Exit1("recv-level-2") /\ UNCHANGED <<setting, files, buf>>
    <3>1. Stale("recv-level-2", seg[12])
      BY <2>2, StaleIs
    <3> QED BY <1>2, <1>3, <2>2, <3>1, ChainFails
  <2> QED BY <1>0, <1>1, <1>5, <2>1, <2>2 DEF RecvLevel2
<1>6. CASE RecvLevel3
  <2>1. CASE /\ seg[23].body.ipck = IpChecksum(seg[23].body)
             /\ Takes("recv-level-3", seg[23].body, seg[23].body.iplen)
    <3>1. ~Stale("recv-level-3", seg[23])
      BY <2>1, StaleIs
    <3>2. Fresh("recv-level-3", seg[23]) =>
             /\ seg[23].body = GivenBody("recv-level-3")
             /\ seg[23].body.iplen = GivenLen("recv-level-3")
      BY <1>3, <1>4, GivenLenIs, Writers
    <3> QED BY <1>3, <2>1, <3>1, <3>2, ChainTakes
  <2>2. CASE /\ Ready("recv-level-3") /\ ~(seg[23].body.ipck = IpChecksum(seg[23].body))
             /\ Exit1("recv-level-3") /\ UNCHANGED <<setting, files, buf>>
    <3>1. Stale("recv-level-3", seg[23])
      BY <2>2, StaleIs
    <3> QED BY <1>2, <1>3, <2>2, <3>1, ChainFails
  <2> QED BY <1>0, <1>1, <1>6, <2>1, <2>2 DEF RecvLevel3
<1>7. CASE RecvLevel4
  <2> DEFINE s == seg[34]
             len == s.len - IpLen
             good == s.body.tcpck = TcpChecksum(s.body, len)
             n == len - TcpLen - extern_len(s.body.off)
  <2>0. s.body.off >= 5 <=> ~(s.body.off < 5)
    <3>1. s.body.off \in Int
      BY DEF TypeOK, Segment, Body
    <3> QED BY <3>1, SMT
  <2>1. CASE /\ s.body.off >= 5 /\ good
             /\ Takes("recv-level-4", s.body, n)
    <3>1. ~Stale("recv-level-4", s)
      BY <2>0, <2>1, StaleIs
    <3>2. Fresh("recv-level-4", s) =>
             s.body = GivenBody("recv-level-4") /\ n = GivenLen("recv-level-4")
      BY <1>3, <1>4, GivenLenIs, Writers DEF PayloadLen
    <3> QED BY <1>3, <2>1, <3>1, <3>2, ChainTakes
  <2>2. CASE /\ Ready("recv-level-4") /\ ~(s.body.off >= 5 /\ good)
             /\ Deleted(34, "recv-level-4", "failed") \/ Exit1("recv-level-4")
             /\ UNCHANGED <<setting, files, buf>>
    <3>1. Stale("recv-level-4", s)
      BY <2>0, <2>2, StaleIs
    <3> QED BY <1>2, <1>3, <2>2, <3>1, ChainFails
  <2>3. \/ Attach("recv-level-4") \/ Puts("recv-level-4")
        \/ /\ s.body.off >= 5 /\ good
           /\ Takes("recv-level-4", s.body, n)
        \/ /\ Ready("recv-level-4") /\ s.body.off >= 5 /\ ~good
           /\ Deleted(34, "recv-level-4", "failed") /\ UNCHANGED <<setting, files, buf>>
        \/ /\ Ready("recv-level-4") /\ s.body.off < 5
           /\ Exit1("recv-level-4") /\ UNCHANGED <<setting, files, buf>>
    BY <1>7 DEF RecvLevel4
  <2> HIDE DEF s, good, n
  <2> QED BY <1>0, <1>1, <2>0, <2>1, <2>2, <2>3
<1> QED BY <1>5, <1>6, <1>7

\* Version 01 keeps the invariant.
LEMMA ChainKeeps ==
    ASSUME TypeOK, InOrder, FilesInv, SegmentsInv, version = "01" => ChainInv, ChainNext
    PROVE  InOrder' /\ FilesInv' /\ SegmentsInv' /\ ChainInv'
<1>1. version = "01" /\ ChainInv
  BY DEF ChainNext
<1>2. ChainSend \/ ChainReceive
  BY DEF ChainNext
<1>3. CASE ChainSend
  BY <1>1, <1>3, ChainSend5, ChainSend1, ChainMiddleSenders DEF ChainSend
<1>4. CASE ChainReceive
  BY <1>1, <1>4, ChainReceive1, ChainReceive5, ChainMiddleReceivers DEF ChainReceive
<1> QED BY <1>2, <1>3, <1>4
-----------------------------------------------------------------------------
(* Version 02: one segment on each side *)

SendReaders == Readers \cap Senders
ReceiveReaders == Readers \cap Receivers

\* All levels of a side wait in one segment, each for a value of its own.
LEMMA InPlaceTable ==
    ASSUME version = "02"
    PROVE  /\ \A r \in SendReaders : From(r) = 1
           /\ \A r \in ReceiveReaders : From(r) = 2
           /\ \A r \in Readers :
                 Given[Writer(r)] = Awaited[r] /\ Awaited[r] \in Int /\ Awaited[r] # 0
           /\ \A r, q \in SendReaders : Awaited[r] = Awaited[q] => r = q
           /\ \A r, q \in ReceiveReaders : Awaited[r] = Awaited[q] => r = q
           /\ 1 \in Keys /\ 2 \in Keys
<1>1. \A r \in Readers : r \in {"send-level-4", "send-level-3", "send-level-2", "send-level-1",
             "recv-level-2", "recv-level-3", "recv-level-4", "recv-level-5"}
  BY DEF Readers, Senders, Receivers
<1>2. \A r \in SendReaders : From(r) = 1
  BY InPlaceKeys DEF SendReaders
<1>3. \A r \in ReceiveReaders : From(r) = 2
  BY InPlaceKeys DEF ReceiveReaders
<1>4. \A r \in Readers : Given[Writer(r)] = Awaited[r] /\ Awaited[r] \in Int /\ Awaited[r] # 0
  BY <1>1, AwaitedIs, GivenIs, Writers, SMT
<1>5. \A r \in SendReaders : r \in {"send-level-4", "send-level-3", "send-level-2", "send-level-1"}
  BY DEF SendReaders, Readers, Senders
<1>6. \A r \in ReceiveReaders :
          r \in {"recv-level-2", "recv-level-3", "recv-level-4", "recv-level-5"}
  BY DEF ReceiveReaders, Readers, Receivers
<1>7. \A r, q \in SendReaders : Awaited[r] = Awaited[q] => r = q
  BY <1>5, AwaitedIs, SMT
<1>8. \A r, q \in ReceiveReaders : Awaited[r] = Awaited[q] => r = q
  BY <1>6, AwaitedIs, SMT
<1> QED BY <1>2, <1>3, <1>4, <1>7, <1>8, Levels10

\* A level has its turn only after the first one of its side.
LEMMA FirstIsDone ==
    ASSUME InOrder, NEW r \in Readers, pc[Writer(r)] = "done"
    PROVE  /\ r \in Senders => pc["send-level-5"] = "done"
           /\ r \in Receivers => pc["recv-level-1"] = "done"
<1>1. "done" \in Taken
  BY DEF Taken
<1>2. r \in {"send-level-4", "send-level-3", "send-level-2", "send-level-1",
             "recv-level-2", "recv-level-3", "recv-level-4", "recv-level-5"}
  BY DEF Readers, Senders, Receivers
<1>3. ASSUME r \in Senders PROVE pc["send-level-5"] = "done"
  <2>1. r \in {"send-level-4", "send-level-3", "send-level-2", "send-level-1"}
    BY <1>3 DEF Readers, Senders
  <2> QED BY <1>1, <2>1, Before, Writers
<1>4. ASSUME r \in Receivers PROVE pc["recv-level-1"] = "done"
  <2>1. r \in {"recv-level-2", "recv-level-3", "recv-level-4", "recv-level-5"}
    BY <1>4 DEF Readers, Receivers
  <2> QED BY <1>1, <2>1, Before, Writers
<1> QED BY <1>3, <1>4

LEMMA AllDone ==
    ASSUME InOrder
    PROVE  /\ pc["send-level-2"] = "done" =>
                 \A x \in Senders : x # "send-level-1" => pc[x] = "done"
           /\ pc["recv-level-4"] = "done" =>
                 \A x \in Receivers : x # "recv-level-5" => pc[x] = "done"
           /\ pc["send-level-1"] = "done" => \A x \in Senders : pc[x] = "done"
           /\ pc["recv-level-5"] = "done" => \A x \in Receivers : pc[x] = "done"
<1>1. "done" \in Taken
  BY DEF Taken
<1> QED BY <1>1, Before DEF Senders, Receivers

\* The level that finds the frame ready is the only one whose turn it is.
LEMMA InPlaceReady ==
    ASSUME NEW l \in Readers, Ready(l), InPlaceLink(l)
    PROVE  \/ pc[Writer(l)] = "done" /\ Fresh(l, seg[From(l)])
           \/ /\ l = "recv-level-4" /\ run > 1 /\ pc["recv-level-1"] = "off"
              /\ seg[From(l)].body.off < 5
  BY DEF Ready, InPlaceLink

\* No two levels have their turn at once.
LEMMA OneAtATime ==
    ASSUME NEW Q, NEW l \in Q, Ready(l), \A r, q \in Q : Awaited[r] = Awaited[q] => r = q,
           \A q \in Q : InPlaceLink(q) /\ From(q) = From(l)
    PROVE  \A q \in Q : pc[Writer(q)] = "done" /\ pc[q] \in {"off", "wait"} => q = l
<1> SUFFICES ASSUME NEW q \in Q, pc[Writer(q)] = "done", pc[q] \in {"off", "wait"}
             PROVE  q = l
  OBVIOUS
<1>1. seg[From(l)].ready = Awaited[q]
  BY DEF InPlaceLink, Fresh
<1> QED BY <1>1 DEF Ready

\* The frame is handed on by l to r, and q is one of the levels in the same segment.
LEMMA HandsOn ==
    ASSUME version = "02", version' = version, run' = run, scripted' = scripted,
           TypeOK, InOrder,
           NEW l \in Levels, NEW r \in Readers, Writer(r) = l,
           pc' = [pc EXCEPT ![l] = "done"], pc[l] \notin Ended,
           seg'[From(r)].ready = Given[l],
           seg'[From(r)].body = GivenBody(l)', seg'[From(r)].len = GivenLen(l)',
           pc[r] \in {"off", "wait", "failed"},
           NEW q \in Readers, From(q) = From(r), Awaited[q] = Awaited[r] => q = r,
           pc[Writer(q)] = "done" /\ pc[q] \in {"off", "wait"} => q = l
    PROVE  InPlaceLink(q)'
<1>0. q \in Levels /\ Writer(q) \in Levels /\ Writer(q) # q /\ r \in Levels /\ r # l
  BY Distinct, Levels10
<1>1. pc'[l] = "done" /\ \A x \in Levels : x # l => pc'[x] = pc[x]
  BY DEF TypeOK
<1>2. From(q)' = From(r)
  BY FromPrime
<1>3. Given[l] = Awaited[r]
  BY InPlaceTable
<1>4. CASE q = r
  <2>1. Fresh(q, seg[From(q)])'
    BY <1>2, <1>3, <1>4 DEF Fresh
  <2>2. pc'[q] = pc[q] /\ pc'[Writer(q)] = "done"
    BY <1>0, <1>1, <1>4
  <2>3. pc[q] = "failed" => ~(scripted \/ run = 1)
    BY <1>4 DEF InOrder
  <2> QED BY <1>4, <2>1, <2>2, <2>3 DEF InPlaceLink
<1>5. CASE q # r
  <2>1. seg'[From(r)].ready # Awaited[q]
    BY <1>3, <1>5
  <2>2. ~(pc'[Writer(q)] = "done" /\ pc'[q] \in {"off", "wait"})
    <3>1. Writer(q) # l
      BY <1>5, <1>0, Distinct
    <3> QED BY <1>0, <1>1, <3>1
  <2> QED BY <1>2, <2>1, <2>2 DEF InPlaceLink
<1> QED BY <1>4, <1>5

\* The segment is empty, or made anew, and it is nobody's turn.
LEMMA NobodysTurn ==
    ASSUME version = "02", version' = version, NEW k, seg'[k].ready = 0,
           NEW Q, Q \subseteq Readers, \A q \in Q : From(q) = k,
           \A q \in Q : ~(pc'[Writer(q)] = "done" /\ pc'[q] \in {"off", "wait"})
    PROVE  \A q \in Q : InPlaceLink(q)'
<1> SUFFICES ASSUME NEW q \in Q PROVE InPlaceLink(q)'
  OBVIOUS
<1>1. From(q)' = k /\ Awaited[q] # 0
  BY FromPrime, InPlaceTable
<1> QED BY <1>1 DEF InPlaceLink

\* Attaching changes nothing for the others.
LEMMA AttachLinks ==
    ASSUME version = "02", UNCHANGED <<setting, files>>, TypeOK,
           NEW l \in Readers, pc[l] = "off", pc' = [pc EXCEPT ![l] = "wait"],
           NEW q \in Readers, InPlaceLink(q),
           seg'[From(q)].ready = seg[From(q)].ready,
           seg'[From(q)].body = seg[From(q)].body, seg'[From(q)].len = seg[From(q)].len
    PROVE  InPlaceLink(q)'
<1>0. /\ version' = version /\ scripted' = scripted /\ off' = off /\ run' = run
      /\ sender_dat' = sender_dat /\ network_dat' = network_dat
  BY DEF setting, files
<1>1. pc'[l] = "wait" /\ \A x \in Levels : x # l => pc'[x] = pc[x]
  BY Levels10 DEF TypeOK
<1>2. l # "recv-level-1" /\ q \in Levels /\ Writer(q) \in Levels /\ "recv-level-1" \in Levels
  BY Levels10, Distinct
<1>3. From(q)' = From(q)
  BY <1>0, FromPrime
<1>4. /\ pc'[q] \in {"off", "wait"} <=> pc[q] \in {"off", "wait"}
      /\ pc'[q] = "failed" <=> pc[q] = "failed"
      /\ pc'[Writer(q)] = "done" <=> pc[Writer(q)] = "done"
      /\ pc'["recv-level-1"] = pc["recv-level-1"]
  BY <1>1, <1>2
<1>5. Fresh(q, seg[From(q)])' <=> Fresh(q, seg[From(q)])
  <2>1. GivenBody(Writer(q))' = GivenBody(Writer(q)) /\ GivenLen(Writer(q))' = GivenLen(Writer(q))
    BY <1>0, GivenSame
  <2> QED BY <1>3, <2>1 DEF Fresh
<1> QED BY <1>0, <1>3, <1>4, <1>5 DEF InPlaceLink

\* What is said of the links does not change with what the other side does.
LEMMA GivenByReceivers ==
    ASSUME version' = version, network_dat' = network_dat,
           NEW l \in Receivers, l # "recv-level-5"
    PROVE  GivenBody(l)' = GivenBody(l) /\ GivenLen(l)' = GivenLen(l)
<1>1. GivenBody(l)' = network_dat'.body /\ GivenBody(l) = network_dat.body
  BY SMT DEF GivenBody, Receivers
<1>2. CASE l = "recv-level-1"
  BY <1>1, <1>2, SMT DEF GivenLen, PayloadLen
<1>3. CASE l = "recv-level-2"
  BY <1>1, <1>3, SMT DEF GivenLen, PayloadLen
<1>4. CASE l = "recv-level-3"
  BY <1>1, <1>4, SMT DEF GivenLen, PayloadLen
<1>5. CASE l = "recv-level-4"
  BY <1>1, <1>5, SMT DEF GivenLen, PayloadLen
<1> QED BY <1>1, <1>2, <1>3, <1>4, <1>5 DEF Receivers

\* What the sender does leaves the segment of the receiver as it was, and the reverse.
LEMMA ReceivingKeeps ==
    ASSUME version = "02", version' = version, run' = run, scripted' = scripted,
           InPlaceReceiving, seg'[2] = seg[2], \A x \in Receivers : pc'[x] = pc[x],
           network_dat' = network_dat \/ \A x \in Receivers : pc[x] = "off"
    PROVE  InPlaceReceiving'
<1>0. Absent' = Absent
  BY DEF Absent, Zeroed, Blank
<1>1. /\ "recv-level-5" \in Receivers /\ "recv-level-4" \in Receivers
      /\ "recv-level-1" \in Receivers
  BY DEF Receivers
<1>2. ASSUME NEW r \in Readers \cap Receivers PROVE InPlaceLink(r)'
  <2>1. InPlaceLink(r) /\ Writer(r) \in Receivers /\ Writer(r) # "recv-level-5"
    <3>1. r \in {"recv-level-2", "recv-level-3", "recv-level-4", "recv-level-5"}
      BY DEF Readers, Receivers
    <3> QED BY <3>1, Distinct, Writers DEF InPlaceReceiving
  <2>2. From(r)' = 2 /\ From(r) = 2
    BY FromPrime, InPlaceTable DEF ReceiveReaders
  <2>3. pc'[r] = pc[r] /\ pc'[Writer(r)] = pc[Writer(r)]
        /\ pc'["recv-level-1"] = pc["recv-level-1"]
    BY <1>1, <2>1
  <2>4. pc[Writer(r)] = "done" => /\ GivenBody(Writer(r))' = GivenBody(Writer(r))
                                 /\ GivenLen(Writer(r))' = GivenLen(Writer(r))
    BY <2>1, GivenByReceivers
  <2>5. pc[Writer(r)] = "done" => (Fresh(r, seg[From(r)])' <=> Fresh(r, seg[From(r)]))
    BY <2>2, <2>4 DEF Fresh
  <2> QED BY <2>1, <2>2, <2>3, <2>5 DEF InPlaceLink
<1>3. pc["recv-level-4"] = "done" => PayloadLen(network_dat.body)' = PayloadLen(network_dat.body)
  BY <1>1 DEF PayloadLen
<1>4. \A r \in Readers \cap Receivers : pc'[Writer(r)] = pc[Writer(r)]
  BY Distinct
<1>5. (\A r \in Readers \cap Receivers : pc[r] = "orphan" => pc[Writer(r)] # "done")'
  BY <1>4 DEF InPlaceReceiving
<1>6. ((\E l \in Receivers : pc[l] = "orphan") => seg[2].ready = 0 /\ pc["recv-level-1"] = "done")'
  BY <1>1 DEF InPlaceReceiving
<1>7. pc'["recv-level-5"] = "done" => seg'[2] = Absent
  BY <1>1 DEF InPlaceReceiving
<1>8. pc'["recv-level-1"] = "made" => seg'[2].there /\ seg'[2].ready = 0
  BY <1>1 DEF InPlaceReceiving
<1>9. pc'["recv-level-4"] = "done" /\ pc'["recv-level-5"] # "done" =>
          seg'[2].datalen = PayloadLen(network_dat.body)'
  BY <1>1, <1>3 DEF InPlaceReceiving
<1> QED BY <1>0, <1>2, <1>5, <1>6, <1>7, <1>8, <1>9 DEF InPlaceReceiving

LEMMA SendingKeeps ==
    ASSUME version = "02", version' = version, run' = run, scripted' = scripted,
           off' = off, sender_dat' = sender_dat,
           InPlaceSending, seg'[1] = seg[1], \A x \in Senders : pc'[x] = pc[x]
    PROVE  InPlaceSending'
<1>0. Absent' = Absent /\ Blank' = Blank
  BY DEF Absent, Zeroed, Blank
<1>1. "send-level-5" \in Senders /\ "send-level-1" \in Senders
  BY DEF Senders
<1>2. ASSUME NEW r \in Readers \cap Senders PROVE InPlaceLink(r)'
  <2>1. /\ InPlaceLink(r) /\ Writer(r) \in Senders /\ Writer(r) # "send-level-1"
        /\ r # "recv-level-4"
    <3>1. r \in {"send-level-4", "send-level-3", "send-level-2", "send-level-1"}
      BY DEF Readers, Senders
    <3> QED BY <3>1, Distinct, Writers DEF InPlaceSending
  <2>2. From(r)' = 1 /\ From(r) = 1
    BY FromPrime, InPlaceTable DEF SendReaders
  <2>3. pc'[r] = pc[r] /\ pc'[Writer(r)] = pc[Writer(r)]
    BY <2>1
  <2>4. GivenBody(Writer(r))' = GivenBody(Writer(r)) /\ GivenLen(Writer(r))' = GivenLen(Writer(r))
    BY <2>1, GivenBySenders
  <2>5. Fresh(r, seg[From(r)])' <=> Fresh(r, seg[From(r)])
    BY <2>2, <2>4 DEF Fresh
  <2> QED BY <2>1, <2>2, <2>3, <2>5 DEF InPlaceLink
<1> QED BY <1>0, <1>1, <1>2 DEF InPlaceSending

\* A level attaches to the segment of its side, or makes it.
LEMMA InPlaceAttach ==
    ASSUME TypeOK, version = "02", InOrder, FilesInv, SegmentsInv, InPlaceInv,
           NEW l \in Readers, Attach(l)
    PROVE  InOrder' /\ FilesInv' /\ SegmentsInv' /\ InPlaceInv'
<1> DEFINE k == From(l)
           t == IF seg[k].there THEN seg[k] ELSE New
<1>1. /\ UNCHANGED <<setting, files, buf>> /\ pc' = [pc EXCEPT ![l] = "wait"]
      /\ seg' = [seg EXCEPT ![k] = t] /\ pc[l] = "off"
  BY MayStartIs DEF Attach
<1>2. /\ version' = version /\ scripted' = scripted /\ off' = off /\ run' = run
      /\ sender_dat' = sender_dat /\ network_dat' = network_dat /\ carried' = carried
      /\ receiver_dat' = receiver_dat /\ buf' = buf
  BY <1>1 DEF setting, files
<1>3. InOrder' /\ FilesInv'
  BY <1>2, GoesAttach, InOrderStep, FilesStep
<1>4. /\ k \in Keys /\ k \in {1, 2}
      /\ l \in Senders => k = 1
      /\ l \in Receivers => k = 2
  BY KeyOf, InPlaceKeys, Distinct
<1>5. /\ t.there /\ t.ready = seg[k].ready /\ t.body = seg[k].body /\ t.len = seg[k].len
      /\ t.datalen = seg[k].datalen
  <2>1. CASE seg[k].there
    BY <2>1
  <2>2. CASE ~seg[k].there
    <3>1. seg[k] = Absent
      BY <1>4, <2>2 DEF SegmentsInv
    <3>2. t = New
      BY <2>2
    <3> QED BY <3>1, <3>2 DEF New, Absent, Zeroed
  <2> QED BY <2>1, <2>2
<1> HIDE DEF t
<1>6. seg'[k] = t /\ \A j \in Keys : j # k => seg'[j] = seg[j]
  BY <1>1, <1>4 DEF TypeOK
<1>7. SegmentsInv'
  <2>1. (k \in ChainKey /\ version = "01") \/ (k \in {1, 2} /\ version = "02")
    BY <1>4
  <2>2. ~seg'[k].there => seg'[k] = Absent
    BY <1>5, <1>6
  <2> HIDE DEF k
  <2> QED BY <1>2, <1>6, <2>1, <2>2, SegmentsStep
<1>8. pc'[l] = "wait" /\ \A x \in Levels : x # l => pc'[x] = pc[x]
  BY <1>1, Levels10 DEF TypeOK
<1>9. ASSUME NEW q \in Readers, InPlaceLink(q) PROVE InPlaceLink(q)'
  <2>1. /\ seg'[From(q)].ready = seg[From(q)].ready /\ seg'[From(q)].body = seg[From(q)].body
        /\ seg'[From(q)].len = seg[From(q)].len
    <3>1. From(q) \in Keys
      BY KeyOf
    <3> QED BY <1>5, <1>6, <3>1
  <2> QED BY <1>1, <1>9, <2>1, AttachLinks
<1>10. CASE l \in Senders
  <2>1. k = 1 /\ seg'[2] = seg[2] /\ l # "send-level-5" /\ l \in Levels
        /\ l \notin Receivers
    BY <1>4, <1>6, <1>10, Levels10, Distinct
  <2>2. InPlaceReceiving'
    <3>1. \A x \in Receivers : pc'[x] = pc[x]
      BY <1>8, <2>1, Distinct
    <3> QED BY <1>2, <2>1, <3>1, ReceivingKeeps DEF InPlaceInv
  <2>3. pc'["send-level-5"] = pc["send-level-5"] /\ pc'["send-level-1"] # "done"
    <3>1. pc["send-level-1"] # "done"
      BY <1>1, <1>10, AllDone
    <3> QED BY <1>8, <2>1, <3>1, Levels10
  <2>4. \A x \in Senders : pc'[x] # "orphan"
    BY <1>8, Distinct DEF InPlaceInv, InPlaceSending
  <2>5. \A r \in Readers \cap Senders : InPlaceLink(r)'
    BY <1>9 DEF InPlaceInv, InPlaceSending
  <2>6. /\ pc["send-level-5"] \in {"off", "made"} =>
              seg'[1].body = Blank /\ seg'[1].ready = 0
        /\ pc["send-level-5"] = "made" => seg'[1].there
    BY <1>5, <1>6, <2>1 DEF InPlaceInv, InPlaceSending
  <2>7. InPlaceSending'
    BY <2>3, <2>4, <2>5, <2>6 DEF InPlaceSending, Blank
  <2> QED BY <1>3, <1>7, <2>2, <2>7 DEF InPlaceInv
<1>11. CASE l \in Receivers
  <2>1. k = 2 /\ seg'[1] = seg[1] /\ l # "recv-level-1" /\ l \in Levels
        /\ l \notin Senders
    BY <1>4, <1>6, <1>11, Levels10, Distinct
  <2>2. InPlaceSending'
    <3>1. \A x \in Senders : pc'[x] = pc[x]
      BY <1>8, <2>1, Distinct
    <3> QED BY <1>2, <2>1, <3>1, SendingKeeps DEF InPlaceInv
  <2>3. pc'["recv-level-1"] = pc["recv-level-1"]
    BY <1>8, <2>1, Levels10
  <2>4. pc'["recv-level-5"] # "done" /\ pc["recv-level-5"] # "done"
    <3>1. pc["recv-level-5"] # "done"
      BY <1>1, <1>11, AllDone
    <3> QED BY <1>8, <3>1, Levels10
  <2>5. ((\E x \in Receivers : pc[x] = "orphan") =>
             seg[2].ready = 0 /\ pc["recv-level-1"] = "done")'
    <3>1. (\E x \in Receivers : pc'[x] = "orphan") => (\E x \in Receivers : pc[x] = "orphan")
      BY <1>8, Distinct
    <3> QED BY <1>5, <1>6, <2>1, <2>3, <3>1 DEF InPlaceInv, InPlaceReceiving
  <2>6. ASSUME NEW r \in Readers \cap Receivers, pc'[r] = "orphan"
        PROVE  pc'[Writer(r)] # "done"
    <3>1. pc[r] = "orphan" /\ Writer(r) \in Levels
      BY <1>8, <2>6, Distinct
    <3>2. pc[Writer(r)] # "done"
      BY <3>1 DEF InPlaceInv, InPlaceReceiving
    <3> QED BY <1>8, <3>1, <3>2
  <2>7. pc["recv-level-1"] = "made" => seg'[2].there /\ seg'[2].ready = 0
    BY <1>5, <1>6, <2>1 DEF InPlaceInv, InPlaceReceiving
  <2>8. pc'["recv-level-4"] = "done" => seg'[2].datalen = PayloadLen(network_dat.body)'
    <3>1. pc'["recv-level-4"] = "done" => pc["recv-level-4"] = "done"
      BY <1>8, Levels10
    <3> QED BY <1>2, <1>5, <1>6, <2>1, <2>4, <3>1 DEF InPlaceInv, InPlaceReceiving, PayloadLen
  <2>9. \A r \in Readers \cap Receivers : InPlaceLink(r)'
    BY <1>9 DEF InPlaceInv, InPlaceReceiving
  <2>10. InPlaceReceiving'
    BY <2>3, <2>4, <2>5, <2>6, <2>7, <2>8, <2>9 DEF InPlaceReceiving
  <2> QED BY <1>3, <1>7, <2>2, <2>10 DEF InPlaceInv
<1> QED BY <1>10, <1>11, Distinct

\* send-level-5 makes the segment, ready = 0.
LEMMA InPlaceMakes5 ==
    ASSUME TypeOK, version = "02", InOrder, FilesInv, SegmentsInv, InPlaceInv,
           MayStart("send-level-5"), seg' = [seg EXCEPT ![1] = Created(1)],
           pc' = [pc EXCEPT !["send-level-5"] = "made"], UNCHANGED <<setting, files, buf>>
    PROVE  InOrder' /\ FilesInv' /\ SegmentsInv' /\ InPlaceInv'
<1> DEFINE l == "send-level-5"
<1>0. /\ l \in Levels /\ l \in Senders /\ l \notin Readers /\ l \notin Receivers
      /\ "send-level-1" \in Levels /\ 1 \in Keys
  BY Levels10, Distinct DEF Senders
<1>1. /\ version' = version /\ scripted' = scripted /\ off' = off /\ run' = run
      /\ sender_dat' = sender_dat /\ network_dat' = network_dat /\ carried' = carried
      /\ receiver_dat' = receiver_dat
  BY DEF setting, files
<1>2. pc[l] = "off" /\ pc'[l] = "made" /\ \A x \in Levels : x # l => pc'[x] = pc[x]
  BY <1>0 DEF TypeOK, MayStart
<1>3. Goes(l, "made")
  BY <1>0, <1>2 DEF Goes, Ended
<1>4. InOrder' /\ FilesInv'
  BY <1>1, <1>3, InOrderStep, FilesStep
<1>5. /\ Created(1).ready = 0 /\ Created(1).there
      /\ seg[1].there => Created(1).body = seg[1].body
      /\ ~seg[1].there => Created(1) = New
  BY <1>0, CreatedIs DEF TypeOK
<1>6. seg'[1] = Created(1) /\ \A j \in Keys : j # 1 => seg'[j] = seg[j]
  BY <1>0 DEF TypeOK
<1>7. SegmentsInv'
  <2>1. (1 \in ChainKey /\ version = "01") \/ (1 \in {1, 2} /\ version = "02")
    OBVIOUS
  <2> QED BY <1>1, <1>5, <1>6, <2>1, SegmentsStep
<1>8. seg'[1].body = Blank /\ seg'[1].ready = 0 /\ seg'[1].there
  BY <1>2, <1>5, <1>6, NewIs DEF InPlaceInv, InPlaceSending
<1>9. \A r \in SendReaders : pc[Writer(r)] # "done" /\ Writer(r) \in Levels
  BY <1>2, FirstIsDone, Distinct DEF SendReaders
<1>10. \A r \in SendReaders : InPlaceLink(r)'
  <2>1. \A r \in SendReaders : pc'[Writer(r)] # "done"
    BY <1>2, <1>9
  <2>2. SendReaders \subseteq Readers /\ \A r \in SendReaders : From(r) = 1
    BY InPlaceTable DEF SendReaders
  <2> QED BY <1>1, <1>8, <2>1, <2>2, NobodysTurn
<1>11. pc'["send-level-1"] # "done"
  <2>1. pc["send-level-1"] # "done"
    BY <1>0, <1>2, AllDone
  <2> QED BY <1>0, <1>2, <2>1
<1>12. \A x \in Senders : pc'[x] # "orphan"
  BY <1>2, Distinct DEF InPlaceInv, InPlaceSending
<1>13. InPlaceSending'
  BY <1>2, <1>8, <1>10, <1>11, <1>12 DEF InPlaceSending, SendReaders, Blank
<1>14. InPlaceReceiving'
  <2>1. \A x \in Receivers : pc'[x] = pc[x]
    BY <1>0, <1>2, Distinct
  <2>2. seg'[2] = seg[2]
    BY <1>6, InPlaceTable
  <2> QED BY <1>1, <2>1, <2>2, ReceivingKeeps DEF InPlaceInv
<1> QED BY <1>4, <1>7, <1>13, <1>14 DEF InPlaceInv

\* send-level-5 writes the payload and hands it on.
LEMMA InPlaceFills5 ==
    ASSUME TypeOK, version = "02", InOrder, FilesInv, SegmentsInv, InPlaceInv,
           pc["send-level-5"] = "made", NEW n \in datalen, NEW d \in Payload,
           sender_dat' = [len |-> n, data |-> d],
           seg' = [seg EXCEPT ![1] = Handed(@, [@.body EXCEPT !.data = d], n, @.datalen, 5)],
           pc' = [pc EXCEPT !["send-level-5"] = "done"],
           UNCHANGED <<setting, network_dat, carried, receiver_dat, buf>>
    PROVE  InOrder' /\ FilesInv' /\ SegmentsInv' /\ InPlaceInv'
<1> DEFINE l == "send-level-5"
           r == "send-level-4"
           t == Handed(seg[1], [seg[1].body EXCEPT !.data = d], n, seg[1].datalen, 5)
<1>0. /\ l \in Levels /\ l \in Senders /\ l \notin Readers /\ l \notin Receivers
      /\ "send-level-1" \in Levels /\ 1 \in Keys /\ r \in SendReaders /\ r \in Readers
      /\ Writer(r) = l /\ r \in Levels
  BY Levels10, Distinct, Writers DEF Senders, SendReaders
<1>1. /\ version' = version /\ scripted' = scripted /\ off' = off /\ run' = run
      /\ network_dat' = network_dat /\ carried' = carried
      /\ receiver_dat' = receiver_dat
  BY DEF setting
<1>2. pc'[l] = "done" /\ \A x \in Levels : x # l => pc'[x] = pc[x]
  BY <1>0 DEF TypeOK
<1>3. Goes(l, "done")
  BY <1>0, <1>2 DEF Goes, Ended
<1>4. InOrder'
  BY <1>1, <1>3, InOrderStep
<1>5. pc["send-level-1"] # "done" /\ pc'["send-level-1"] # "done"
  <2>1. pc["send-level-1"] # "done"
    BY <1>0, AllDone
  <2> QED BY <1>0, <1>2, <2>1
<1>6. carried = "no" /\ (\A x \in Receivers : pc[x] = "off") /\ receiver_dat = NoFile
  BY <1>5, BeforeTheFile
<1>7. \A x \in Receivers : pc'[x] = "off"
  BY <1>0, <1>2, <1>6, Distinct
<1>8. FilesInv'
  BY <1>1, <1>5, <1>6, <1>7 DEF FilesInv
<1>9. /\ t.there = seg[1].there /\ t.ready = 5 /\ t.len = n
      /\ t.body = [seg[1].body EXCEPT !.data = d]
  BY DEF Handed
<1>10. seg' = [seg EXCEPT ![1] = t]
  OBVIOUS
<1> HIDE DEF t
<1>11. seg'[1] = t /\ \A j \in Keys : j # 1 => seg'[j] = seg[j]
  BY <1>0, <1>10 DEF TypeOK
<1>12. seg[1].there /\ seg[1].body = Blank
  BY DEF InPlaceInv, InPlaceSending
<1>13. SegmentsInv'
  <2>1. (1 \in ChainKey /\ version = "01") \/ (1 \in {1, 2} /\ version = "02")
    OBVIOUS
  <2> QED BY <1>1, <1>9, <1>11, <1>12, <2>1, SegmentsStep
<1>14. \A q \in SendReaders : InPlaceLink(q)'
  <2>1. SendReaders \subseteq Readers /\ \A q \in SendReaders : From(q) = 1
    BY InPlaceTable DEF SendReaders
  <2>2. \A q \in SendReaders : pc[Writer(q)] # "done"
    BY FirstIsDone DEF SendReaders
  <2>3. \A p, q \in SendReaders : Awaited[p] = Awaited[q] => p = q
    BY InPlaceTable
  <2>4. pc[r] \in {"off", "wait", "failed"}
    <3>1. pc[r] \notin Taken
      BY <1>0 DEF InOrder
    <3>2. pc[r] \in {"off", "wait", "have", "made", "done"}
      BY <1>0 DEF InOrder, SendReaders
    <3> QED BY <3>1, <3>2 DEF Taken
  <2>5. /\ seg'[1].ready = Given[l]
        /\ seg'[1].body = GivenBody(l)' /\ seg'[1].len = GivenLen(l)'
    <3>1. GivenBody(l)' = Sent5'.body /\ GivenLen(l)' = Sent5'.len
      BY SMT DEF GivenBody, GivenLen
    <3>2. Sent5' = [body |-> [Blank EXCEPT !.data = d], len |-> n]
      BY DEF Sent5, Blank
    <3>3. Given[l] = 5
      BY GivenIs
    <3> QED BY <1>9, <1>11, <1>12, <3>1, <3>2, <3>3
  <2>6. pc[l] \notin Ended
    BY DEF Ended
  <2>7. /\ version = "02" /\ version' = version /\ run' = run /\ scripted' = scripted
        /\ TypeOK /\ InOrder /\ l \in Levels /\ r \in Readers /\ Writer(r) = l
        /\ pc' = [pc EXCEPT ![l] = "done"] /\ pc[l] \notin Ended
        /\ r \in SendReaders
    BY <1>0, <1>1, <2>6
  <2>8. \A q \in SendReaders : pc[Writer(q)] = "done" /\ pc[q] \in {"off", "wait"} => q = l
    BY <2>2
  <2> HIDE DEF l, r
  <2>9. From(r) = 1
    BY <2>1, <2>7
  <2>10. ASSUME NEW q \in SendReaders PROVE InPlaceLink(q)'
    <3>1. /\ q \in Readers /\ From(q) = From(r) /\ (Awaited[q] = Awaited[r] => q = r)
          /\ pc[Writer(q)] = "done" /\ pc[q] \in {"off", "wait"} => q = l
      BY <2>1, <2>3, <2>7, <2>8
    <3> QED BY <2>4, <2>5, <2>7, <2>9, <3>1, HandsOn
  <2> QED BY <2>10
<1>15. \A x \in Senders : pc'[x] # "orphan"
  BY <1>2, Distinct DEF InPlaceInv, InPlaceSending
<1>16. InPlaceSending'
  BY <1>2, <1>5, <1>14, <1>15 DEF InPlaceSending, SendReaders
<1>17. InPlaceReceiving'
  <2>1. \A x \in Receivers : pc'[x] = pc[x]
    BY <1>0, <1>2, Distinct
  <2>2. seg'[2] = seg[2]
    BY <1>11, InPlaceTable
  <2> QED BY <1>1, <2>1, <2>2, ReceivingKeeps DEF InPlaceInv
<1> QED BY <1>4, <1>8, <1>13, <1>16, <1>17 DEF InPlaceInv

\* A level of the sender writes its header in place.
LEMMA InPlaceSends ==
    ASSUME TypeOK, version = "02", InOrder, FilesInv, SegmentsInv, InPlaceInv,
           NEW l \in SendReaders, l # "send-level-1", NEW b, NEW n, InPlace(l, b, n),
           Fresh(l, seg[1]) => b = GivenBody(l) /\ n = GivenLen(l)
    PROVE  InOrder' /\ FilesInv' /\ SegmentsInv' /\ InPlaceInv'
<1> DEFINE t == Handed(seg[1], b, n, seg[1].datalen, Given[l])
<1>0. /\ l \in Levels /\ l \in Senders /\ l \in Readers /\ l \notin Receivers
      /\ l # "send-level-5" /\ l # "recv-level-5" /\ l # "recv-level-4"
      /\ "send-level-1" \in Levels /\ "send-level-5" \in Levels /\ 1 \in Keys /\ From(l) = 1
  BY Levels10, Distinct, InPlaceTable DEF SendReaders, Receivers
<1>1. /\ version' = version /\ scripted' = scripted /\ off' = off /\ run' = run
      /\ sender_dat' = sender_dat /\ network_dat' = network_dat /\ carried' = carried
      /\ receiver_dat' = receiver_dat
  BY DEF InPlace, setting, files
<1>2. /\ pc[l] = "wait" /\ seg[1].ready = Awaited[l] /\ Ready(l)
      /\ pc' = [pc EXCEPT ![l] = "done"] /\ seg' = [seg EXCEPT ![1] = t]
  BY <1>0 DEF InPlace, Ready
<1>3. pc'[l] = "done" /\ \A x \in Levels : x # l => pc'[x] = pc[x]
  BY <1>0, <1>2 DEF TypeOK
<1>4. pc[Writer(l)] = "done" /\ Fresh(l, seg[1])
  <2>1. InPlaceLink(l)
    BY DEF InPlaceInv, InPlaceSending, SendReaders
  <2> QED BY <1>0, <1>2, <2>1, InPlaceReady
<1>5. PICK r \in Readers : Writer(r) = l /\ r # l
  BY <1>0, NextOf
<1>6. r \in SendReaders /\ r \in Levels
  BY <1>0, <1>5, Distinct DEF SendReaders
<1>7. Goes(l, "done")
  <2>1. pc[l] \notin Ended /\ (scripted => pc[Writer(l)] \in Ended)
    BY <1>0, <1>2, AtWork
  <2> QED BY <1>0, <1>3, <1>4, <2>1 DEF Goes
<1>8. InOrder' /\ FilesInv'
  BY <1>0, <1>1, <1>7, InOrderStep, FilesStep
<1>9. /\ t.there = seg[1].there /\ t.ready = Given[l] /\ t.len = n /\ t.body = b
  BY DEF Handed
<1> HIDE DEF t
<1>10. seg'[1] = t /\ \A j \in Keys : j # 1 => seg'[j] = seg[j]
  BY <1>0, <1>2 DEF TypeOK
<1>11. seg[1] # Absent
  BY <1>0, <1>2, NewIs, InPlaceTable
<1>12. SegmentsInv'
  <2>1. (1 \in ChainKey /\ version = "01") \/ (1 \in {1, 2} /\ version = "02")
    OBVIOUS
  <2>2. seg[1].there
    BY <1>0, <1>11 DEF SegmentsInv
  <2> QED BY <1>1, <1>9, <1>10, <2>1, <2>2, SegmentsStep
<1>13. \A q \in SendReaders : InPlaceLink(q)'
  <2>1. SendReaders \subseteq Readers /\ \A q \in SendReaders : From(q) = 1
    BY InPlaceTable DEF SendReaders
  <2>2. \A p, q \in SendReaders : Awaited[p] = Awaited[q] => p = q
    BY InPlaceTable
  <2>3. \A q \in SendReaders : pc[Writer(q)] = "done" /\ pc[q] \in {"off", "wait"} => q = l
    <3>1. \A q \in SendReaders : InPlaceLink(q) /\ From(q) = From(l)
      BY <1>0, <2>1 DEF InPlaceInv, InPlaceSending, SendReaders
    <3> QED BY <1>2, <2>2, <3>1, OneAtATime
  <2>4. pc[r] \in {"off", "wait", "failed"}
    <3>1. pc[r] \notin Taken
      BY <1>2, <1>5 DEF InOrder
    <3>2. pc[r] \in {"off", "wait", "have", "made", "done"}
      BY <1>6 DEF InOrder, SendReaders
    <3> QED BY <3>1, <3>2 DEF Taken
  <2>5. /\ seg'[1].ready = Given[l]
        /\ seg'[1].body = GivenBody(l)' /\ seg'[1].len = GivenLen(l)'
    <3>1. GivenBody(l)' = GivenBody(l) /\ GivenLen(l)' = GivenLen(l)
      BY <1>1, GivenSame
    <3> QED BY <1>4, <1>9, <1>10, <3>1
  <2>6. pc[l] \notin Ended
    BY <1>2 DEF Ended
  <2>7. /\ version = "02" /\ version' = version /\ run' = run /\ scripted' = scripted
        /\ TypeOK /\ InOrder /\ l \in Levels /\ r \in Readers /\ Writer(r) = l
        /\ pc' = [pc EXCEPT ![l] = "done"] /\ pc[l] \notin Ended
        /\ r \in SendReaders
    BY <1>0, <1>1, <1>2, <1>5, <1>6, <2>6
  <2>8. From(r) = 1
    BY <2>1, <2>7
  <2>9. ASSUME NEW q \in SendReaders PROVE InPlaceLink(q)'
    <3>1. /\ q \in Readers /\ From(q) = From(r) /\ (Awaited[q] = Awaited[r] => q = r)
          /\ pc[Writer(q)] = "done" /\ pc[q] \in {"off", "wait"} => q = l
      BY <2>1, <2>2, <2>3, <2>7
    <3> QED BY <2>4, <2>5, <2>7, <2>8, <3>1, HandsOn
  <2> QED BY <2>9
<1>14. \A x \in Senders : pc'[x] # "orphan"
  BY <1>3, Distinct DEF InPlaceInv, InPlaceSending
<1>15. pc'["send-level-5"] = "done" /\ pc'["send-level-1"] # "done"
  <2>1. pc["send-level-5"] = "done"
    BY <1>0, <1>4, FirstIsDone
  <2>2. pc["send-level-1"] # "done"
    BY <1>11 DEF InPlaceInv, InPlaceSending
  <2> QED BY <1>0, <1>3, <2>1, <2>2
<1>16. InPlaceSending'
  BY <1>13, <1>14, <1>15 DEF InPlaceSending, SendReaders
<1>17. InPlaceReceiving'
  <2>1. \A x \in Receivers : pc'[x] = pc[x]
    BY <1>0, <1>3, Distinct
  <2>2. seg'[2] = seg[2]
    BY <1>10, InPlaceTable
  <2> QED BY <1>1, <2>1, <2>2, ReceivingKeeps DEF InPlaceInv
<1> QED BY <1>8, <1>12, <1>16, <1>17 DEF InPlaceInv

\* send-level-1 writes network.dat and deletes the segment.
LEMMA InPlaceLastSend ==
    ASSUME TypeOK, version = "02", InOrder, FilesInv, SegmentsInv, InPlaceInv,
           Ready("send-level-1"),
           network_dat' = [len |-> seg[1].len, body |-> seg[1].body],
           Deleted(1, "send-level-1", "done"),
           UNCHANGED <<setting, sender_dat, carried, receiver_dat, buf>>
    PROVE  InOrder' /\ FilesInv' /\ SegmentsInv' /\ InPlaceInv'
<1> DEFINE l == "send-level-1"
<1>0. /\ l \in Levels /\ l \in Senders /\ l \in Readers /\ l \notin Receivers
      /\ l \in SendReaders /\ l # "recv-level-4"
      /\ 1 \in Keys /\ From(l) = 1
  BY Levels10, Distinct, InPlaceTable DEF Senders, SendReaders, Receivers
<1>1. /\ version' = version /\ scripted' = scripted /\ off' = off /\ run' = run
      /\ sender_dat' = sender_dat /\ carried' = carried
      /\ receiver_dat' = receiver_dat
  BY DEF setting
<1>2. pc[l] = "wait" /\ seg[1].ready = Awaited[l] /\ seg' = [seg EXCEPT ![1] = Absent]
  BY <1>0 DEF Ready, Deleted
<1>3. pc[Writer(l)] = "done" /\ Fresh(l, seg[1])
  <2>1. InPlaceLink(l)
    BY <1>0 DEF InPlaceInv, InPlaceSending, SendReaders
  <2> QED BY <1>0, <2>1, InPlaceReady
<1>4. \A x \in Senders : x # l => pc[x] = "done"
  BY <1>3, AllDone, Writers
<1>5. pc'[l] = "done" /\ \A x \in Levels : x # l => pc'[x] = pc[x]
  <2>1. \A x \in Levels : x # l => ~(pc[x] = "wait" /\ From(x) = 1)
    <3>1. \A x \in Receivers : From(x) # 1
      BY InPlaceKeys
    <3> QED BY <1>4, <3>1, LevelSets
  <2>2. pc' = [x \in Levels |-> IF x = l THEN "done" ELSE pc[x]]
    BY <2>1 DEF Deleted
  <2> QED BY <1>0, <2>2
<1>6. network_dat' = Frame
  <2>1. seg[1].body = Sent2.body /\ seg[1].len = Sent2.len
    BY <1>3, GivenBodyIs, GivenLenIs, Writers DEF Fresh
  <2> QED BY <2>1 DEF Frame
<1>7. carried = "no" /\ (\A x \in Receivers : pc[x] = "off") /\ receiver_dat = NoFile
  BY <1>2, BeforeTheFile
<1>8. Goes(l, "done")
  <2>1. pc[l] \notin Ended /\ (scripted => pc[Writer(l)] \in Ended)
    BY <1>0, <1>2, AtWork
  <2> QED BY <1>0, <1>3, <1>5, <2>1 DEF Goes
<1>9. InOrder'
  BY <1>1, <1>7, <1>8, InOrderStep
<1>10. \A x \in Receivers : pc'[x] = pc[x]
  BY <1>0, <1>5, Distinct
<1>11. FilesInv'
  <2>1. Frame' = Frame
    BY <1>1 DEF Frame, Sent2, Sent3, Sent4, Sent5
  <2> QED BY <1>1, <1>5, <1>6, <1>7, <1>10, <2>1 DEF FilesInv
<1>12. seg'[1] = Absent /\ \A j \in Keys : j # 1 => seg'[j] = seg[j]
  BY <1>0, <1>2 DEF TypeOK
<1>13. SegmentsInv'
  <2>1. (1 \in ChainKey /\ version = "01") \/ (1 \in {1, 2} /\ version = "02")
    OBVIOUS
  <2> QED BY <1>1, <1>12, <2>1, SegmentsStep
<1>14. \A x \in Senders : pc'[x] = "done"
  BY <1>4, <1>5, Distinct
<1>15. \A r \in SendReaders : InPlaceLink(r)'
  <2>1. \A r \in SendReaders : pc'[r] \notin {"off", "wait"}
    BY <1>14 DEF SendReaders
  <2>2. SendReaders \subseteq Readers /\ \A r \in SendReaders : From(r) = 1
    BY InPlaceTable DEF SendReaders
  <2> QED BY <1>1, <1>12, <2>1, <2>2, NewIs, NobodysTurn
<1>16. InPlaceSending'
  <2>1. pc'["send-level-5"] = "done" /\ Absent' = Absent
    BY <1>14 DEF Senders, Absent, Zeroed, Blank
  <2> QED BY <1>12, <1>14, <1>15, <2>1 DEF InPlaceSending, SendReaders
<1>17. InPlaceReceiving'
  <2>1. seg'[2] = seg[2]
    BY <1>12, InPlaceTable
  <2> QED BY <1>1, <1>7, <1>10, <2>1, ReceivingKeeps DEF InPlaceInv
<1> QED BY <1>9, <1>11, <1>13, <1>16, <1>17 DEF InPlaceInv

LEMMA InPlaceSendKeeps ==
    ASSUME TypeOK, version = "02", InOrder, FilesInv, SegmentsInv, InPlaceInv, InPlaceSend
    PROVE  InOrder' /\ FilesInv' /\ SegmentsInv' /\ InPlaceInv'
<1> USE Levels10
<1>0. \A l \in Readers : Attach(l) => InOrder' /\ FilesInv' /\ SegmentsInv' /\ InPlaceInv'
  BY InPlaceAttach
<1>1. /\ "send-level-4" \in SendReaders /\ "send-level-3" \in SendReaders
      /\ "send-level-2" \in SendReaders
  BY DEF SendReaders, Senders
<1>2. CASE InPlaceSend5
  <2>1. CASE /\ MayStart("send-level-5")
             /\ seg' = [seg EXCEPT ![1] = Created(1)]
             /\ pc' = [pc EXCEPT !["send-level-5"] = "made"]
             /\ UNCHANGED <<setting, files, buf>>
    BY <2>1, InPlaceMakes5
  <2>2. ASSUME pc["send-level-5"] = "made", NEW n \in datalen, NEW d \in Payload,
               sender_dat' = [len |-> n, data |-> d],
               seg' = [seg EXCEPT ![1] = Handed(@, [@.body EXCEPT !.data = d], n, @.datalen, 5)],
               pc' = [pc EXCEPT !["send-level-5"] = "done"],
               UNCHANGED <<setting, network_dat, carried, receiver_dat, buf>>
        PROVE  InOrder' /\ FilesInv' /\ SegmentsInv' /\ InPlaceInv'
    BY <2>2, InPlaceFills5
  <2> QED BY <1>2, <2>1, <2>2 DEF InPlaceSend5
<1>3. CASE InPlaceSend4
  <2>1. Fresh("send-level-4", seg[1]) =>
           /\ WithTcp(seg[1].body, off, seg[1].len) = GivenBody("send-level-4")
           /\ seg[1].len + TcpLen + extern_len(off) = GivenLen("send-level-4")
    <3> SUFFICES ASSUME Fresh("send-level-4", seg[1])
                 PROVE  /\ WithTcp(seg[1].body, off, seg[1].len) = GivenBody("send-level-4")
                        /\ seg[1].len + TcpLen + extern_len(off) = GivenLen("send-level-4")
      OBVIOUS
    <3>1. seg[1].body = Sent5.body /\ seg[1].len = Sent5.len
      BY GivenBodyIs, GivenLenIs, Writers DEF Fresh
    <3> QED BY <3>1, GivenBodyIs, GivenLenIs DEF Sent4
  <2> QED BY <1>0, <1>1, <1>3, <2>1, InPlaceSends DEF InPlaceSend4
<1>4. CASE InPlaceSend3
  <2>1. Fresh("send-level-3", seg[1]) =>
           /\ WithIp(seg[1].body, seg[1].len) = GivenBody("send-level-3")
           /\ seg[1].len + IpLen = GivenLen("send-level-3")
    <3> SUFFICES ASSUME Fresh("send-level-3", seg[1])
                 PROVE  /\ WithIp(seg[1].body, seg[1].len) = GivenBody("send-level-3")
                        /\ seg[1].len + IpLen = GivenLen("send-level-3")
      OBVIOUS
    <3>1. seg[1].body = Sent4.body /\ seg[1].len = Sent4.len
      BY GivenBodyIs, GivenLenIs, Writers DEF Fresh
    <3> QED BY <3>1, GivenBodyIs, GivenLenIs DEF Sent3
  <2> QED BY <1>0, <1>1, <1>4, <2>1, InPlaceSends DEF InPlaceSend3
<1>5. CASE InPlaceSend2
  <2>1. Fresh("send-level-2", seg[1]) =>
           /\ WithEth(seg[1].body) = GivenBody("send-level-2")
           /\ AtLeastShortest(seg[1].len + EthLen) = GivenLen("send-level-2")
    <3> SUFFICES ASSUME Fresh("send-level-2", seg[1])
                 PROVE  /\ WithEth(seg[1].body) = GivenBody("send-level-2")
                        /\ AtLeastShortest(seg[1].len + EthLen) = GivenLen("send-level-2")
      OBVIOUS
    <3>1. seg[1].body = Sent3.body /\ seg[1].len = Sent3.len
      BY GivenBodyIs, GivenLenIs, Writers DEF Fresh
    <3> QED BY <3>1, GivenBodyIs, GivenLenIs DEF Sent2
  <2> QED BY <1>0, <1>1, <1>5, <2>1, InPlaceSends DEF InPlaceSend2
<1>6. CASE InPlaceSend1
  BY <1>0, <1>6, InPlaceLastSend DEF InPlaceSend1
<1> QED BY <1>2, <1>3, <1>4, <1>5, <1>6 DEF InPlaceSend

\* recv-level-1 makes the segment; what a transfer before has left there is off.
LEMMA InPlaceMakes1 ==
    ASSUME TypeOK, version = "02", InOrder, FilesInv, SegmentsInv, InPlaceInv,
           MayStart("recv-level-1"), seg' = [seg EXCEPT ![2] = Created(2)],
           pc' = [pc EXCEPT !["recv-level-1"] = "made"], UNCHANGED <<setting, files, buf>>
    PROVE  InOrder' /\ FilesInv' /\ SegmentsInv' /\ InPlaceInv'
<1> DEFINE l == "recv-level-1"
<1>0. /\ l \in Levels /\ l \in Receivers /\ l \notin Readers /\ l \notin Senders
      /\ "recv-level-4" \in Levels /\ "recv-level-5" \in Levels /\ 2 \in Keys
  BY Levels10, Distinct DEF Receivers
<1>1. /\ version' = version /\ scripted' = scripted /\ off' = off /\ run' = run
      /\ sender_dat' = sender_dat /\ network_dat' = network_dat /\ carried' = carried
      /\ receiver_dat' = receiver_dat
  BY DEF setting, files
<1>2. pc[l] = "off" /\ pc'[l] = "made" /\ \A x \in Levels : x # l => pc'[x] = pc[x]
  BY <1>0 DEF TypeOK, MayStart
<1>3. Goes(l, "made")
  <2>1. carried # "no"
    BY <1>0, LevelSets DEF MayStart
  <2> QED BY <1>0, <1>2, <2>1, AcceptsIs DEF Goes, Ended
<1>4. InOrder' /\ FilesInv'
  BY <1>1, <1>3, InOrderStep, FilesStep
<1>5. Created(2).ready = 0 /\ Created(2).there
  BY <1>0, CreatedIs DEF TypeOK
<1>6. seg'[2] = Created(2) /\ \A j \in Keys : j # 2 => seg'[j] = seg[j]
  BY <1>0 DEF TypeOK
<1>7. SegmentsInv'
  <2>1. (2 \in ChainKey /\ version = "01") \/ (2 \in {1, 2} /\ version = "02")
    OBVIOUS
  <2> QED BY <1>1, <1>5, <1>6, <2>1, SegmentsStep
<1>8. \A r \in ReceiveReaders : pc[Writer(r)] # "done" /\ Writer(r) \in Levels
  BY <1>2, FirstIsDone, Distinct DEF ReceiveReaders
<1>9. \A r \in ReceiveReaders : InPlaceLink(r)'
  <2>1. \A r \in ReceiveReaders : pc'[Writer(r)] # "done"
    BY <1>2, <1>8
  <2>2. ReceiveReaders \subseteq Readers /\ \A r \in ReceiveReaders : From(r) = 2
    BY InPlaceTable DEF ReceiveReaders
  <2> QED BY <1>1, <1>5, <1>6, <2>1, <2>2, NobodysTurn
<1>10. pc'["recv-level-5"] # "done" /\ pc'["recv-level-4"] # "done"
  <2>1. pc["recv-level-5"] # "done" /\ pc["recv-level-4"] # "done"
    BY <1>0, <1>2, AllDone
  <2> QED BY <1>0, <1>2, <2>1
<1>11. \A x \in Receivers : pc'[x] # "orphan"
  BY <1>2, Distinct DEF InPlaceInv, InPlaceReceiving
<1>12. InPlaceReceiving'
  <2>1. \A r \in Readers \cap Receivers : InPlaceLink(r)'
    BY <1>9 DEF ReceiveReaders
  <2>2. seg'[2].there /\ seg'[2].ready = 0
    BY <1>5, <1>6
  <2> QED BY <1>2, <1>10, <1>11, <2>1, <2>2 DEF InPlaceReceiving
<1>13. InPlaceSending'
  <2>1. \A x \in Senders : pc'[x] = pc[x]
    BY <1>0, <1>2, Distinct
  <2>2. seg'[1] = seg[1]
    BY <1>6, InPlaceTable
  <2> QED BY <1>1, <2>1, <2>2, SendingKeeps DEF InPlaceInv
<1> QED BY <1>4, <1>7, <1>12, <1>13 DEF InPlaceInv

\* A level of the receiver hands the frame on, l being the first or one whose turn it is.
LEMMA InPlaceHands ==
    ASSUME TypeOK, version = "02", InOrder, FilesInv, SegmentsInv, InPlaceInv,
           UNCHANGED <<setting, files, buf>>,
           NEW l \in Receivers, l # "recv-level-5", pc[l] \in {"wait", "made"},
           l = "recv-level-1" \/ (l \in Readers /\ pc[Writer(l)] = "done" /\ Ready(l)),
           l = "recv-level-1" => pc[l] = "made",
           Accepts(l, network_dat.body),
           NEW n, NEW d, n = GivenLen(l), l = "recv-level-4" => d = PayloadLen(network_dat.body),
           seg' = [seg EXCEPT ![2] = Handed(seg[2], network_dat.body, n, d, Given[l])],
           pc' = [pc EXCEPT ![l] = "done"]
    PROVE  InOrder' /\ FilesInv' /\ SegmentsInv' /\ InPlaceInv'
<1> DEFINE t == Handed(seg[2], network_dat.body, n, d, Given[l])
<1>0. /\ l \in Levels /\ l \notin Senders /\ l # "send-level-1" /\ l # "send-level-5"
      /\ "recv-level-1" \in Receivers /\ "recv-level-4" \in Receivers
      /\ "recv-level-5" \in Receivers /\ 2 \in Keys /\ Receivers \subseteq Levels
      /\ l \in Readers => l \in ReceiveReaders /\ From(l) = 2
  BY Levels10, Distinct, InPlaceTable DEF Receivers, Senders, ReceiveReaders
<1>1. /\ version' = version /\ scripted' = scripted /\ off' = off /\ run' = run
      /\ sender_dat' = sender_dat /\ network_dat' = network_dat /\ carried' = carried
      /\ receiver_dat' = receiver_dat
  BY DEF setting, files
<1>2. pc'[l] = "done" /\ \A x \in Levels : x # l => pc'[x] = pc[x]
  BY <1>0 DEF TypeOK
<1>3. PICK r \in Readers : Writer(r) = l /\ r # l
  BY <1>0, NextOf
<1>4. r \in ReceiveReaders /\ r \in Levels /\ r \in Receivers
  BY <1>0, <1>3, Distinct DEF ReceiveReaders
<1>5. /\ pc[l] \notin Ended /\ carried # "no"
      /\ l \in Readers /\ scripted => pc[Writer(l)] \in Ended
      /\ \A x \in Receivers : pc[x] # "killed"
  BY <1>0, AtWork
<1>6. Goes(l, "done")
  BY <1>0, <1>2, <1>5, Distinct DEF Goes
<1>7. InOrder' /\ FilesInv'
  BY <1>0, <1>1, <1>6, InOrderStep, FilesStep
<1>8. /\ t.there = seg[2].there /\ t.ready = Given[l] /\ t.len = n /\ t.datalen = d
      /\ t.body = network_dat.body
  BY DEF Handed
<1>9. seg' = [seg EXCEPT ![2] = t]
  OBVIOUS
<1> HIDE DEF t
<1>10. seg'[2] = t /\ \A j \in Keys : j # 2 => seg'[j] = seg[j]
  BY <1>0, <1>9 DEF TypeOK
<1>11. /\ seg[2].there /\ seg[2] # Absent
       /\ \A x \in Receivers : pc[x] # "orphan"
  <2>1. CASE l = "recv-level-1"
    <3>1. pc["recv-level-1"] = "made"
      BY <2>1
    <3> QED BY <3>1, NewIs DEF InPlaceInv, InPlaceReceiving
  <2>2. CASE l \in Readers /\ Ready(l)
    <3>1. seg[2].ready # 0
      BY <1>0, <2>2, InPlaceTable DEF Ready
    <3> QED BY <1>0, <3>1, NewIs DEF InPlaceInv, InPlaceReceiving, SegmentsInv
  <2> QED BY <2>1, <2>2
<1>12. SegmentsInv'
  <2>1. (2 \in ChainKey /\ version = "01") \/ (2 \in {1, 2} /\ version = "02")
    OBVIOUS
  <2> QED BY <1>1, <1>8, <1>10, <1>11, <2>1, SegmentsStep
<1>13. \A q \in ReceiveReaders : pc[Writer(q)] = "done" /\ pc[q] \in {"off", "wait"} => q = l
  <2>1. CASE l = "recv-level-1"
    <3>1. pc["recv-level-1"] # "done"
      BY <2>1
    <3> QED BY <3>1, FirstIsDone DEF ReceiveReaders
  <2>2. CASE l \in Readers /\ Ready(l)
    <3>1. \A q \in ReceiveReaders : InPlaceLink(q) /\ From(q) = From(l)
      BY <1>0, <2>2, InPlaceTable DEF InPlaceInv, InPlaceReceiving, ReceiveReaders
    <3>2. \A p, q \in ReceiveReaders : Awaited[p] = Awaited[q] => p = q
      BY InPlaceTable
    <3> QED BY <1>0, <2>2, <3>1, <3>2, OneAtATime
  <2> QED BY <2>1, <2>2
<1>14. \A q \in ReceiveReaders : InPlaceLink(q)'
  <2>1. pc[r] \in {"off", "wait", "failed"}
    <3>1. pc[r] \notin Taken
      BY <1>3, <1>5 DEF InOrder, Ended
    <3>2. pc[r] \in States /\ pc[r] # "orphan" /\ pc[r] # "killed"
      BY <1>4, <1>5, <1>11 DEF TypeOK
    <3> QED BY <3>1, <3>2 DEF Taken, States
  <2>2. From(r) = 2
    BY <1>4, InPlaceTable
  <2>3. /\ seg'[2].ready = Given[l]
        /\ seg'[2].body = GivenBody(l)' /\ seg'[2].len = GivenLen(l)'
    <3>1. GivenBody(l)' = GivenBody(l) /\ GivenLen(l)' = GivenLen(l)
      BY <1>1, GivenSame
    <3> QED BY <1>8, <1>10, <3>1, GivenBodyIs
  <2>4. ASSUME NEW q \in ReceiveReaders PROVE InPlaceLink(q)'
    <3>1. /\ q \in Readers /\ From(q) = From(r) /\ (Awaited[q] = Awaited[r] => q = r)
          /\ pc[Writer(q)] = "done" /\ pc[q] \in {"off", "wait"} => q = l
      BY <1>4, <1>13, InPlaceTable DEF ReceiveReaders
    <3>2. /\ version = "02" /\ version' = version /\ run' = run /\ scripted' = scripted
          /\ l \in Levels /\ r \in Readers /\ Writer(r) = l
          /\ pc' = [pc EXCEPT ![l] = "done"] /\ pc[l] \notin Ended
      BY <1>0, <1>1, <1>3, <1>5
    <3> QED BY <2>1, <2>2, <2>3, <3>1, <3>2, HandsOn
  <2> QED BY <2>4
<1>15. \A x \in Receivers : pc'[x] # "orphan"
  BY <1>0, <1>2, <1>11
<1>16. pc'["recv-level-1"] = "done"
  <2>1. CASE l = "recv-level-1"
    BY <1>2, <2>1
  <2>2. CASE l \in Readers /\ pc[Writer(l)] = "done"
    <3>1. pc["recv-level-1"] = "done"
      BY <2>2, FirstIsDone
    <3> QED BY <1>0, <1>2, <3>1
  <2> QED BY <2>1, <2>2
<1>17. pc'["recv-level-5"] # "done"
  <2>1. pc["recv-level-5"] # "done"
    BY <1>11 DEF InPlaceInv, InPlaceReceiving
  <2> QED BY <1>0, <1>2, <2>1
<1>18. pc'["recv-level-4"] = "done" => seg'[2].datalen = PayloadLen(network_dat.body)'
  <2>1. CASE l = "recv-level-4"
    BY <1>1, <1>8, <1>10, <2>1 DEF PayloadLen
  <2>2. CASE l # "recv-level-4"
    <3>1. pc["recv-level-4"] # "done"
      BY AllDone
    <3> QED BY <1>0, <1>2, <2>2, <3>1
  <2> QED BY <2>1, <2>2
<1>19. InPlaceReceiving'
  <2>1. \A q \in Readers \cap Receivers : InPlaceLink(q)'
    BY <1>14 DEF ReceiveReaders
  <2> QED BY <1>15, <1>16, <1>17, <1>18, <2>1 DEF InPlaceReceiving
<1>20. InPlaceSending'
  <2>1. \A x \in Senders : pc'[x] = pc[x]
    BY <1>0, <1>2, Distinct
  <2>2. seg'[1] = seg[1]
    BY <1>10, InPlaceTable
  <2> QED BY <1>1, <2>1, <2>2, SendingKeeps DEF InPlaceInv
<1> QED BY <1>7, <1>12, <1>19, <1>20 DEF InPlaceInv

\* A level that does not accept the frame deletes the segment and ends.
LEMMA InPlaceRejects ==
    ASSUME TypeOK, version = "02", InOrder, FilesInv, SegmentsInv, InPlaceInv,
           NEW l \in Readers, l \in Receivers, l # "recv-level-5", Rejects(l),
           Fresh(l, seg[2]) => ~Accepts(l, network_dat.body),
           l = "recv-level-4" => ~(seg[2].body.off < 5)
    PROVE  InOrder' /\ FilesInv' /\ SegmentsInv' /\ InPlaceInv'
<1>0. /\ l \in Levels /\ l \notin Senders /\ l # "send-level-1" /\ l # "send-level-5"
      /\ l \in ReceiveReaders /\ From(l) = 2 /\ l # "recv-level-1" /\ 2 \in Keys
      /\ "recv-level-1" \in Levels /\ "recv-level-4" \in Levels /\ "recv-level-5" \in Levels
      /\ Receivers \subseteq Levels /\ Writer(l) \in Receivers
  BY Levels10, Distinct, InPlaceTable DEF Senders, ReceiveReaders, Readers
<1>1. /\ version' = version /\ scripted' = scripted /\ off' = off /\ run' = run
      /\ sender_dat' = sender_dat /\ network_dat' = network_dat /\ carried' = carried
      /\ receiver_dat' = receiver_dat
  BY DEF Rejects, setting, files
<1>2. /\ pc[l] = "wait" /\ seg[2].ready = Awaited[l] /\ seg' = [seg EXCEPT ![2] = Absent]
      /\ Ready(l)
  BY <1>0 DEF Rejects, Ready, Deleted
<1>3. pc[Writer(l)] = "done" /\ Fresh(l, seg[2])
  <2>1. InPlaceLink(l)
    BY <1>0 DEF InPlaceInv, InPlaceReceiving, ReceiveReaders
  <2> QED BY <1>0, <1>2, <2>1, InPlaceReady
<1>4. \A x \in Levels : pc'[x] = IF x = l THEN "failed"
                                 ELSE IF pc[x] = "wait" /\ From(x) = 2 THEN "orphan" ELSE pc[x]
  BY DEF Rejects, Deleted
<1>5. /\ \A x \in Senders : pc'[x] = pc[x]
      /\ pc'[l] = "failed"
      /\ \A x \in Receivers : x # l => pc'[x] = IF pc[x] = "wait" THEN "orphan" ELSE pc[x]
  <2>1. (\A x \in Senders : From(x) = 1 /\ x # l) /\ (\A x \in Receivers : From(x) = 2)
    BY <1>0, InPlaceKeys
  <2> QED BY <1>0, <1>4, <2>1, Distinct
<1>6. scripted \/ run = 1 => carried = "altered" /\ pc[Writer(l)] \in Ended
  BY <1>2, <1>3, FailsOnlyAltered
<1>7. Goes(l, "failed")
  <2>1. pc[l] \notin Ended /\ carried # "no" /\ (scripted => pc[Writer(l)] \in Ended)
    BY <1>0, <1>2, AtWork
  <2>2. \A x \in Levels \ {l} :
           \/ pc'[x] = pc[x]
           \/ x \in Receivers /\ pc[x] = "wait" /\ pc'[x] = "orphan"
    BY <1>5, LevelSets
  <2> QED BY <1>0, <1>5, <1>6, <2>1, <2>2 DEF Goes, Taken
<1>8. InOrder' /\ FilesInv'
  BY <1>0, <1>1, <1>7, InOrderStep, FilesStep
<1>9. seg'[2] = Absent /\ \A j \in Keys : j # 2 => seg'[j] = seg[j]
  BY <1>0, <1>2 DEF TypeOK
<1>10. SegmentsInv'
  <2>1. (2 \in ChainKey /\ version = "01") \/ (2 \in {1, 2} /\ version = "02")
    OBVIOUS
  <2> QED BY <1>1, <1>9, <2>1, SegmentsStep
<1>11. \A q \in ReceiveReaders : pc[Writer(q)] = "done" /\ pc[q] \in {"off", "wait"} => q = l
  <2>1. \A q \in ReceiveReaders : InPlaceLink(q) /\ From(q) = From(l)
    BY <1>0, InPlaceTable DEF InPlaceInv, InPlaceReceiving, ReceiveReaders
  <2>2. \A p, q \in ReceiveReaders : Awaited[p] = Awaited[q] => p = q
    BY InPlaceTable
  <2> QED BY <1>0, <1>2, <2>1, <2>2, OneAtATime
<1>12. \A x \in Receivers : pc[x] # "orphan"
  <2>1. seg[2].ready # 0
    BY <1>0, <1>2, InPlaceTable
  <2> QED BY <2>1 DEF InPlaceInv, InPlaceReceiving
<1>13. \A x \in Receivers : pc'[x] = "done" => pc[x] = "done"
  BY <1>5
<1>14. \A q \in ReceiveReaders : pc'[q] \in {"off", "wait", "orphan"} => pc'[Writer(q)] # "done"
  <2> SUFFICES ASSUME NEW q \in ReceiveReaders, pc'[q] \in {"off", "wait", "orphan"},
                      pc'[Writer(q)] = "done"
               PROVE  FALSE
    OBVIOUS
  <2>1. q \in Receivers /\ q # l /\ Writer(q) \in Receivers
    BY <1>5, Distinct DEF ReceiveReaders
  <2>2. pc[Writer(q)] = "done" /\ pc[q] \in {"off", "wait"}
    BY <1>5, <1>12, <1>13, <2>1
  <2> QED BY <1>11, <2>1, <2>2
<1>15. \A q \in ReceiveReaders : InPlaceLink(q)'
  <2>1. ReceiveReaders \subseteq Readers /\ \A r \in ReceiveReaders : From(r) = 2
    BY InPlaceTable DEF ReceiveReaders
  <2> QED BY <1>1, <1>9, <1>14, <2>1, NewIs, NobodysTurn
<1>16. pc'["recv-level-1"] = "done"
  <2>1. pc["recv-level-1"] = "done" /\ "recv-level-1" \in Receivers
    BY <1>3, FirstIsDone DEF Receivers
  <2> QED BY <1>0, <1>5, <2>1
<1>17. pc'["recv-level-4"] # "done"
  <2>1. pc["recv-level-4"] = "done" => l = "recv-level-5" \/ pc[l] = "done"
    BY <1>0, AllDone
  <2>2. "recv-level-4" \in Receivers
    BY DEF Receivers
  <2> QED BY <1>2, <1>13, <2>1, <2>2
<1>18. InPlaceReceiving'
  <2>1. \A q \in Readers \cap Receivers : InPlaceLink(q)'
    BY <1>15 DEF ReceiveReaders
  <2>2. \A q \in Readers \cap Receivers : pc'[q] = "orphan" => pc'[Writer(q)] # "done"
    BY <1>14 DEF ReceiveReaders
  <2>3. Absent' = Absent /\ Absent.ready = 0
    BY NewIs DEF Absent, Zeroed, Blank
  <2> QED BY <1>9, <1>16, <1>17, <2>1, <2>2, <2>3 DEF InPlaceReceiving
<1>19. InPlaceSending'
  <2>1. seg'[1] = seg[1]
    BY <1>9, InPlaceTable
  <2> QED BY <1>1, <1>5, <2>1, SendingKeeps DEF InPlaceInv
<1> QED BY <1>8, <1>10, <1>18, <1>19 DEF InPlaceInv

\* Level 4 ends in the first memcpy(), and leaves the segment as it is.
LEMMA InPlaceCrash ==
    ASSUME TypeOK, version = "02", InOrder, FilesInv, SegmentsInv, InPlaceInv,
           Ready("recv-level-4"), seg[2].body.off < 5, Exit1("recv-level-4"),
           UNCHANGED <<setting, files, buf>>
    PROVE  InOrder' /\ FilesInv' /\ SegmentsInv' /\ InPlaceInv'
<1> DEFINE l == "recv-level-4"
<1>0. /\ l \in Levels /\ l \in Receivers /\ l \in Readers /\ l \notin Senders
      /\ l \in ReceiveReaders /\ From(l) = 2 /\ 2 \in Keys
      /\ "recv-level-1" \in Levels /\ "recv-level-5" \in Levels
      /\ Receivers \subseteq Levels /\ Writer(l) \in Receivers
  BY Levels10, Distinct, InPlaceTable DEF Receivers, ReceiveReaders
<1>1. /\ version' = version /\ scripted' = scripted /\ off' = off /\ run' = run
      /\ sender_dat' = sender_dat /\ network_dat' = network_dat /\ carried' = carried
      /\ receiver_dat' = receiver_dat
  BY DEF setting, files
<1>2. pc[l] = "wait" /\ seg[2].ready = Awaited[l] /\ seg' = seg
  BY <1>0 DEF Ready, Exit1
<1>3. \/ pc[Writer(l)] = "done" /\ Fresh(l, seg[2])
      \/ run > 1 /\ pc["recv-level-1"] = "off"
  <2>1. InPlaceLink(l)
    BY <1>0 DEF InPlaceInv, InPlaceReceiving, ReceiveReaders
  <2> QED BY <1>0, <2>1, InPlaceReady
<1>4. pc'[l] = "failed" /\ \A x \in Levels : x # l => pc'[x] = pc[x]
  BY <1>0 DEF Exit1, TypeOK
<1>5. Writer(l) = "recv-level-3" /\ Writer(l) # "recv-level-1"
  BY Writers
<1>6. pc[Writer(l)] # "done" => run > 1
  BY <1>3
<1>7. pc[Writer(l)] = "done" => ~Accepts(l, network_dat.body)
  <2> SUFFICES ASSUME pc[Writer(l)] = "done" PROVE ~Accepts(l, network_dat.body)
    OBVIOUS
  <2>1. Fresh(l, seg[2])
    <3>1. pc["recv-level-1"] = "done"
      BY <1>0, FirstIsDone
    <3> QED BY <1>3, <3>1
  <2>2. seg[2].body = network_dat.body
    BY <1>0, <2>1, GivenBodyIs DEF Fresh
  <2>3. ~(seg[2].body.off >= 5)
    <3>1. seg[2].body.off \in Int
      BY <1>0 DEF TypeOK, Segment, Body
    <3> QED BY <3>1, SMT
  <2> QED BY <2>2, <2>3, AcceptsIs
<1>8. scripted \/ run = 1 => carried = "altered" /\ pc[Writer(l)] \in Ended
  BY <1>0, <1>2, <1>6, <1>7, FailsOnlyAltered
<1>9. Goes(l, "failed")
  <2>1. pc[l] \notin Ended /\ carried # "no" /\ (scripted => pc[Writer(l)] \in Ended)
    BY <1>0, <1>2, AtWork
  <2> QED BY <1>0, <1>4, <1>8, <2>1 DEF Goes, Taken
<1>10. InOrder' /\ FilesInv'
  BY <1>1, <1>9, InOrderStep, FilesStep
<1>11. SegmentsInv'
  BY <1>1, <1>2 DEF SegmentsInv, Absent, Zeroed
<1>12. \A q \in ReceiveReaders : pc[Writer(q)] = "done" /\ pc[q] \in {"off", "wait"} => q = l
  <2>1. \A q \in ReceiveReaders : InPlaceLink(q) /\ From(q) = From(l)
    BY <1>0, InPlaceTable DEF InPlaceInv, InPlaceReceiving, ReceiveReaders
  <2>2. \A p, q \in ReceiveReaders : Awaited[p] = Awaited[q] => p = q
    BY InPlaceTable
  <2> QED BY <1>0, <2>1, <2>2, OneAtATime
<1>13. \A x \in Receivers : pc[x] # "orphan"
  <2>1. seg[2].ready # 0
    BY <1>0, <1>2, InPlaceTable
  <2> QED BY <2>1 DEF InPlaceInv, InPlaceReceiving
<1>14. ASSUME NEW q \in ReceiveReaders PROVE InPlaceLink(q)'
  <2>0. /\ From(q)' = 2 /\ From(q) = 2 /\ q \in Readers /\ q \in Receivers /\ q \in Levels
        /\ Writer(q) \in Receivers /\ Writer(q) # q
    BY <1>0, <1>1, FromPrime, InPlaceTable, Distinct DEF ReceiveReaders
  <2>1. CASE q = l
    <3>1. pc'[q] = "failed" /\ pc'[Writer(q)] = pc[Writer(q)]
          /\ pc'["recv-level-1"] = pc["recv-level-1"]
      BY <1>0, <1>4, <2>0, <2>1
    <3> QED BY <1>1, <1>2, <1>3, <2>0, <2>1, <3>1 DEF InPlaceLink
  <2>2. CASE q # l
    <3>1. seg'[2].ready # Awaited[q]
      BY <1>0, <1>2, <2>2, InPlaceTable
    <3>2. ~(pc'[Writer(q)] = "done" /\ pc'[q] \in {"off", "wait"})
      BY <1>0, <1>4, <1>12, <2>0, <2>2
    <3> QED BY <2>0, <3>1, <3>2 DEF InPlaceLink
  <2> QED BY <2>1, <2>2
<1>15. InPlaceReceiving'
  <2>1. \A q \in Readers \cap Receivers : InPlaceLink(q)'
    BY <1>14 DEF ReceiveReaders
  <2>2. \A x \in Receivers : pc'[x] # "orphan"
    BY <1>0, <1>4, <1>13
  <2>3. Absent' = Absent
    BY DEF Absent, Zeroed, Blank
  <2>4. pc'["recv-level-1"] = pc["recv-level-1"] /\ pc'["recv-level-5"] = pc["recv-level-5"]
        /\ pc'["recv-level-4"] = "failed"
    BY <1>0, <1>4
  <2> QED BY <1>2, <2>1, <2>2, <2>3, <2>4 DEF InPlaceReceiving, InPlaceInv
<1>16. InPlaceSending'
  <2>1. \A x \in Senders : pc'[x] = pc[x]
    BY <1>0, <1>4, Distinct
  <2> QED BY <1>1, <1>2, <2>1, SendingKeeps DEF InPlaceInv
<1> QED BY <1>10, <1>11, <1>15, <1>16 DEF InPlaceInv

\* receiver.dat is what is accepted of network.dat, and the segment is gone.
LEMMA InPlaceLastReceive ==
    ASSUME TypeOK, version = "02", InOrder, FilesInv, SegmentsInv, InPlaceInv,
           Ready("recv-level-5"),
           receiver_dat' = [len |-> seg[2].datalen, data |-> seg[2].body.data],
           Deleted(2, "recv-level-5", "done"),
           UNCHANGED <<setting, sender_dat, network_dat, carried, buf>>
    PROVE  InOrder' /\ FilesInv' /\ SegmentsInv' /\ InPlaceInv'
<1> DEFINE l == "recv-level-5"
<1>0. /\ l \in Levels /\ l \in Receivers /\ l \in Readers /\ l \notin Senders
      /\ l \in ReceiveReaders /\ From(l) = 2 /\ 2 \in Keys
      /\ "recv-level-4" \in Receivers /\ "recv-level-1" \in Receivers
  BY Levels10, Distinct, InPlaceTable DEF Receivers, ReceiveReaders
<1>1. /\ version' = version /\ scripted' = scripted /\ off' = off /\ run' = run
      /\ sender_dat' = sender_dat /\ network_dat' = network_dat /\ carried' = carried
  BY DEF setting
<1>2. pc[l] = "wait" /\ seg[2].ready = Awaited[l] /\ seg' = [seg EXCEPT ![2] = Absent]
  BY <1>0 DEF Ready, Deleted
<1>3. pc[Writer(l)] = "done" /\ Fresh(l, seg[2])
  <2>1. InPlaceLink(l)
    BY <1>0 DEF InPlaceInv, InPlaceReceiving, ReceiveReaders
  <2> QED BY <1>0, <2>1, InPlaceReady
<1>4. pc["recv-level-4"] = "done" /\ \A x \in Receivers : x # l => pc[x] = "done"
  BY <1>3, AllDone, Writers
<1>5. pc'[l] = "done" /\ \A x \in Levels : x # l => pc'[x] = pc[x]
  <2>1. \A x \in Levels : x # l => ~(pc[x] = "wait" /\ From(x) = 2)
    <3>1. \A x \in Senders : From(x) # 2
      BY InPlaceKeys
    <3> QED BY <1>4, <3>1, LevelSets
  <2>2. pc' = [x \in Levels |-> IF x = l THEN "done" ELSE pc[x]]
    BY <2>1 DEF Deleted
  <2> QED BY <1>0, <2>2
<1>6. receiver_dat' = [len |-> PayloadLen(network_dat.body), data |-> network_dat.body.data]
  <2>1. seg[2].body = network_dat.body
    BY <1>0, <1>3, GivenBodyIs, Writers DEF Fresh
  <2>2. seg[2].datalen = PayloadLen(network_dat.body)
    BY <1>2, <1>4 DEF InPlaceInv, InPlaceReceiving
  <2> QED BY <2>1, <2>2
<1>7. carried # "no" /\ pc[l] \notin Ended /\ (scripted => pc[Writer(l)] \in Ended)
  BY <1>0, <1>2, AtWork
<1>8. Goes(l, "done")
  BY <1>0, <1>3, <1>5, <1>7, AcceptsIs DEF Goes
<1>9. InOrder'
  BY <1>1, <1>7, <1>8, InOrderStep
<1>10. FilesInv'
  <2>1. Frame' = Frame /\ PayloadLen(network_dat.body)' = PayloadLen(network_dat.body)
    BY <1>1 DEF Frame, Sent2, Sent3, Sent4, Sent5, PayloadLen
  <2>2. pc'["send-level-1"] = pc["send-level-1"]
    BY <1>5, Levels10
  <2> QED BY <1>1, <1>5, <1>6, <1>7, <2>1, <2>2 DEF FilesInv
<1>11. seg'[2] = Absent /\ \A j \in Keys : j # 2 => seg'[j] = seg[j]
  BY <1>0, <1>2 DEF TypeOK
<1>12. SegmentsInv'
  <2>1. (2 \in ChainKey /\ version = "01") \/ (2 \in {1, 2} /\ version = "02")
    OBVIOUS
  <2> QED BY <1>1, <1>11, <2>1, SegmentsStep
<1>13. \A x \in Receivers : pc'[x] = "done"
  BY <1>4, <1>5, Distinct
<1>14. \A r \in ReceiveReaders : InPlaceLink(r)'
  <2>1. \A r \in ReceiveReaders : pc'[r] \notin {"off", "wait"}
    BY <1>13 DEF ReceiveReaders
  <2>2. ReceiveReaders \subseteq Readers /\ \A r \in ReceiveReaders : From(r) = 2
    BY InPlaceTable DEF ReceiveReaders
  <2> QED BY <1>1, <1>11, <2>1, <2>2, NewIs, NobodysTurn
<1>15. InPlaceReceiving'
  <2>1. Absent' = Absent
    BY DEF Absent, Zeroed, Blank
  <2> QED BY <1>0, <1>11, <1>13, <1>14, <2>1 DEF InPlaceReceiving, ReceiveReaders
<1>16. InPlaceSending'
  <2>1. \A x \in Senders : pc'[x] = pc[x]
    BY <1>0, <1>5, Distinct
  <2>2. seg'[1] = seg[1]
    BY <1>11, InPlaceTable
  <2> QED BY <1>1, <2>1, <2>2, SendingKeeps DEF InPlaceInv
<1> QED BY <1>9, <1>10, <1>12, <1>15, <1>16 DEF InPlaceInv

\* Levels 2 and 3 of the receiver hand the frame on as they find it.
LEMMA InPlacePasses ==
    ASSUME TypeOK, version = "02", InOrder, FilesInv, SegmentsInv, InPlaceInv,
           NEW l \in {"recv-level-2", "recv-level-3"}, NEW n, InPlace(l, seg[2].body, n),
           Fresh(l, seg[2]) => Accepts(l, seg[2].body) /\ n = GivenLen(l)
    PROVE  InOrder' /\ FilesInv' /\ SegmentsInv' /\ InPlaceInv'
<1>0. /\ l \in Receivers /\ l \in Readers /\ l \in ReceiveReaders /\ From(l) = 2
      /\ Writer(l) \in Receivers /\ l # "recv-level-4" /\ l # "recv-level-5"
      /\ l # "recv-level-1"
  BY Distinct, InPlaceTable DEF Receivers, ReceiveReaders
<1>1. /\ Ready(l) /\ UNCHANGED <<setting, files, buf>> /\ pc' = [pc EXCEPT ![l] = "done"]
      /\ seg' = [seg EXCEPT ![2] = Handed(seg[2], seg[2].body, n, seg[2].datalen, Given[l])]
  BY <1>0 DEF InPlace
<1>2. pc[Writer(l)] = "done" /\ Fresh(l, seg[2])
  <2>1. InPlaceLink(l)
    BY <1>0 DEF InPlaceInv, InPlaceReceiving, ReceiveReaders
  <2> QED BY <1>0, <1>1, <2>1, InPlaceReady
<1>3. seg[2].body = network_dat.body
  BY <1>0, <1>2, GivenBodyIs DEF Fresh
<1>4. pc[l] = "wait"
  BY <1>1 DEF Ready
<1> QED BY <1>0, <1>1, <1>2, <1>3, <1>4, InPlaceHands

\* recv-level-4: what it hands on, rejects or ends at.
LEMMA InPlaceReceive4 ==
    ASSUME TypeOK, version = "02", InOrder, FilesInv, SegmentsInv, InPlaceInv, InPlaceRecv4
    PROVE  InOrder' /\ FilesInv' /\ SegmentsInv' /\ InPlaceInv'
<1> DEFINE l == "recv-level-4"
           s == seg[2]
           good == s.body.tcpck = TcpChecksum(s.body, s.len - EthLen - IpLen)
           extern == extern_len(s.body.off)
           d == s.len - EthLen - IpLen - TcpLen - extern
<1>0. /\ l \in Receivers /\ l \in Readers /\ l \in ReceiveReaders /\ From(l) = 2 /\ 2 \in Keys
      /\ Writer(l) = "recv-level-3" /\ "recv-level-3" \in Receivers
  BY Distinct, InPlaceTable, Writers DEF Receivers, ReceiveReaders
<1>1. s.body.off \in Int /\ (s.body.off >= 5 <=> ~(s.body.off < 5))
  <2>1. s.body.off \in Int
    BY <1>0 DEF TypeOK, Segment, Body
  <2> QED BY <2>1, SMT
<1>2. Ready(l) /\ ~(s.body.off < 5) => pc[Writer(l)] = "done" /\ Fresh(l, s)
  <2>1. InPlaceLink(l)
    BY <1>0 DEF InPlaceInv, InPlaceReceiving, ReceiveReaders
  <2> QED BY <1>0, <2>1, InPlaceReady
<1>3. Fresh(l, s) => /\ s.body = network_dat.body
                     /\ s.len - EthLen - IpLen = network_dat.body.iplen - IpLen
                     /\ d = PayloadLen(network_dat.body)
                     /\ good /\ s.body.off >= 5 <=> Accepts(l, network_dat.body)
  <2> SUFFICES ASSUME Fresh(l, s)
               PROVE  /\ s.body = network_dat.body
                      /\ s.len - EthLen - IpLen = network_dat.body.iplen - IpLen
                      /\ d = PayloadLen(network_dat.body)
                      /\ good /\ s.body.off >= 5 <=> Accepts(l, network_dat.body)
    OBVIOUS
  <2>1. s.body = network_dat.body
    BY <1>0, GivenBodyIs DEF Fresh
  <2>2. s.len = EthLen + network_dat.body.iplen
    BY <1>0, GivenLenIs DEF Fresh
  <2>3. network_dat.body.iplen \in Int
    BY DEF TypeOK, Body
  <2>4. s.len - EthLen - IpLen = network_dat.body.iplen - IpLen
    BY <2>2, <2>3, SMT DEF EthLen, IpLen
  <2>5. d = PayloadLen(network_dat.body)
    BY <2>1, <2>4 DEF PayloadLen
  <2> QED BY <2>1, <2>4, <2>5, AcceptsIs
<1>4. \/ Attach(l)
      \/ /\ Ready(l) /\ s.body.off >= 5 /\ good
         /\ seg' = [seg EXCEPT ![2] = Handed(s, s.body, extern, d, 4)]
         /\ pc' = [pc EXCEPT ![l] = "done"]
         /\ UNCHANGED <<setting, files, buf>>
      \/ s.body.off >= 5 /\ ~good /\ Rejects(l)
      \/ Ready(l) /\ s.body.off < 5 /\ Exit1(l) /\ UNCHANGED <<setting, files, buf>>
  BY DEF InPlaceRecv4
<1> HIDE DEF good, d
<1>5. CASE /\ Ready(l) /\ s.body.off >= 5 /\ good
           /\ seg' = [seg EXCEPT ![2] = Handed(s, s.body, extern, d, 4)]
           /\ pc' = [pc EXCEPT ![l] = "done"]
           /\ UNCHANGED <<setting, files, buf>>
  <2>1. /\ pc[Writer(l)] = "done" /\ s.body = network_dat.body
        /\ Accepts(l, network_dat.body) /\ d = PayloadLen(network_dat.body)
    BY <1>1, <1>2, <1>3, <1>5
  <2>2. extern = GivenLen(l) /\ Given[l] = 4
    BY <2>1, GivenLenIs, GivenIs, InPlaceTable
  <2>3. pc[l] \in {"wait", "made"}
    BY <1>5 DEF Ready
  <2>4. seg' = [seg EXCEPT ![2] = Handed(seg[2], network_dat.body, extern, d, Given[l])]
    BY <1>5, <2>1, <2>2
  <2> HIDE DEF extern, s
  <2> QED BY <1>0, <1>5, <2>1, <2>2, <2>3, <2>4, InPlaceHands
<1>6. CASE s.body.off >= 5 /\ ~good /\ Rejects(l)
  BY <1>0, <1>1, <1>3, <1>6, InPlaceRejects
<1>7. CASE Ready(l) /\ s.body.off < 5 /\ Exit1(l) /\ UNCHANGED <<setting, files, buf>>
  BY <1>7, InPlaceCrash
<1> QED BY <1>0, <1>4, <1>5, <1>6, <1>7, InPlaceAttach

LEMMA InPlaceReceiveKeeps ==
    ASSUME TypeOK, version = "02", InOrder, FilesInv, SegmentsInv, InPlaceInv, InPlaceReceive
    PROVE  InOrder' /\ FilesInv' /\ SegmentsInv' /\ InPlaceInv'
<1> USE Levels10
<1>0. \A l \in Readers : Attach(l) => InOrder' /\ FilesInv' /\ SegmentsInv' /\ InPlaceInv'
  BY InPlaceAttach
<1>1. /\ "recv-level-1" \in Receivers /\ "recv-level-2" \in Receivers
      /\ "recv-level-3" \in Receivers
  BY DEF Receivers
<1>2. CASE InPlaceRecv1
  <2>1. CASE /\ MayStart("recv-level-1")
             /\ seg' = [seg EXCEPT ![2] = Created(2)]
             /\ pc' = [pc EXCEPT !["recv-level-1"] = "made"]
             /\ UNCHANGED <<setting, files, buf>>
    BY <2>1, InPlaceMakes1
  <2>2. CASE /\ pc["recv-level-1"] = "made"
             /\ seg' = [seg EXCEPT ![2] =
                           Handed(@, network_dat.body, network_dat.len, @.datalen, 1)]
             /\ pc' = [pc EXCEPT !["recv-level-1"] = "done"]
             /\ UNCHANGED <<setting, files, buf>>
    <3> DEFINE n == network_dat.len
               d == seg[2].datalen
    <3>1. n = GivenLen("recv-level-1") /\ Given["recv-level-1"] = 1
      BY GivenLenIs, GivenIs
    <3>2. Accepts("recv-level-1", network_dat.body)
      BY AcceptsIs
    <3>3. seg' = [seg EXCEPT ![2] = Handed(seg[2], network_dat.body, n, d, Given["recv-level-1"])]
      BY <2>2, <3>1
    <3> HIDE DEF n, d
    <3> QED BY <1>1, <2>2, <3>1, <3>2, <3>3, InPlaceHands
  <2> QED BY <1>2, <2>1, <2>2 DEF InPlaceRecv1
<1>3. ASSUME NEW l \in {"recv-level-2", "recv-level-3"}, Fresh(l, seg[2])
      PROVE  seg[2].body = network_dat.body /\ seg[2].len = GivenLen(Writer(l))
  BY <1>1, <1>3, GivenBodyIs, Writers DEF Fresh
<1>4. CASE InPlaceRecv2
  <2>1. Fresh("recv-level-2", seg[2]) =>
           /\ Accepts("recv-level-2", seg[2].body) <=> seg[2].body.type = IPv4
           /\ Accepts("recv-level-2", network_dat.body) <=> seg[2].body.type = IPv4
           /\ seg[2].len = GivenLen("recv-level-2")
    <3>1. /\ GivenLen("recv-level-2") = network_dat.len
          /\ GivenLen(Writer("recv-level-2")) = network_dat.len
      BY GivenLenIs, Writers
    <3> QED BY <1>3, <3>1, AcceptsIs
  <2>2. CASE seg[2].body.type = IPv4 /\ InPlace("recv-level-2", seg[2].body, seg[2].len)
    BY <2>1, <2>2, InPlacePasses
  <2>3. CASE seg[2].body.type # IPv4 /\ Rejects("recv-level-2")
    BY <1>1, <2>1, <2>3, InPlaceRejects
  <2> QED BY <1>0, <1>4, <2>2, <2>3 DEF InPlaceRecv2
<1>5. CASE InPlaceRecv3
  <2>1. Fresh("recv-level-3", seg[2]) =>
           /\ Accepts("recv-level-3", seg[2].body) <=> seg[2].body.ipck = IpChecksum(seg[2].body)
           /\ Accepts("recv-level-3", network_dat.body)
                 <=> seg[2].body.ipck = IpChecksum(seg[2].body)
           /\ EthLen + seg[2].body.iplen = GivenLen("recv-level-3")
    <3>1. GivenLen("recv-level-3") = EthLen + network_dat.body.iplen
      BY GivenLenIs
    <3> QED BY <1>3, <3>1, AcceptsIs
  <2>2. CASE /\ seg[2].body.ipck = IpChecksum(seg[2].body)
             /\ InPlace("recv-level-3", seg[2].body, EthLen + seg[2].body.iplen)
    BY <2>1, <2>2, InPlacePasses
  <2>3. CASE seg[2].body.ipck # IpChecksum(seg[2].body) /\ Rejects("recv-level-3")
    BY <1>1, <2>1, <2>3, InPlaceRejects
  <2> QED BY <1>0, <1>5, <2>2, <2>3 DEF InPlaceRecv3
<1>6. CASE InPlaceRecv4
  BY <1>6, InPlaceReceive4
<1>7. CASE InPlaceRecv5
  BY <1>0, <1>7, InPlaceLastReceive DEF InPlaceRecv5
<1> QED BY <1>2, <1>4, <1>5, <1>6, <1>7 DEF InPlaceReceive

\* Version 02 keeps the invariant.
LEMMA InPlaceKeeps ==
    ASSUME TypeOK, InOrder, FilesInv, SegmentsInv, version = "02" => InPlaceInv, InPlaceNext
    PROVE  InOrder' /\ FilesInv' /\ SegmentsInv' /\ InPlaceInv'
  BY InPlaceSendKeeps, InPlaceReceiveKeeps DEF InPlaceNext
-----------------------------------------------------------------------------
(* The steps that are not a level's *)

\* network.dat is carried over, whole or altered, before the receiver begins.
LEMMA CarryKeeps ==
    ASSUME TypeOK, InOrder, FilesInv, SegmentsInv, version = "01" => ChainInv,
           version = "02" => InPlaceInv, Carry("whole") \/ Carry("altered")
    PROVE  /\ InOrder' /\ FilesInv' /\ SegmentsInv'
           /\ version = "01" => ChainInv'
           /\ version = "02" => InPlaceInv'
<1>1. /\ version' = version /\ scripted' = scripted /\ off' = off /\ run' = run
      /\ sender_dat' = sender_dat /\ receiver_dat' = receiver_dat /\ seg' = seg
      /\ pc' = pc /\ buf' = buf /\ pc["send-level-1"] = "done" /\ carried = "no"
  BY DEF Carry, setting
<1>2. /\ carried' \in {"whole", "altered"}
      /\ carried' = "whole" => network_dat' = network_dat
      /\ carried' = "altered" => network_dat' \in Altered(network_dat)
  BY DEF Carry
<1>3. (\A x \in Receivers : pc[x] = "off") /\ receiver_dat = NoFile /\ network_dat = Frame
  <2>1. \A x \in Receivers : pc[x] = "off"
    BY <1>1 DEF FilesInv
  <2>2. "recv-level-5" \in Receivers
    BY DEF Receivers
  <2> QED BY <1>1, <2>1, <2>2 DEF FilesInv
<1>4. Frame' = Frame
  BY <1>1 DEF Frame, Sent2, Sent3, Sent4, Sent5
<1>5. FilesInv'
  BY <1>1, <1>2, <1>3, <1>4 DEF FilesInv
<1>6. InOrder'
  <2>1. \A r \in Readers : pc[r] # "failed"
    BY <1>3, Distinct DEF InOrder
  <2>2. \A l \in Receivers : pc[l] \notin Taken
    BY <1>3 DEF Taken
  <2> QED BY <1>1, <2>1, <2>2 DEF InOrder
<1>7. SegmentsInv'
  BY <1>1 DEF SegmentsInv, Absent, Zeroed
<1>8. ASSUME version = "01" PROVE ChainInv'
  <2>1. \A l \in Senders : l # "send-level-1" =>
           GivenBody(l)' = GivenBody(l) /\ GivenLen(l)' = GivenLen(l)
    BY <1>1, GivenBySenders
  <2>2. ASSUME NEW l \in Levels, pc[l] \in {"have", "made"}
        PROVE  buf[l] = [body |-> GivenBody(l)', len |-> GivenLen(l)']
    <3>1. l \in Senders /\ l # "send-level-1"
      BY <1>1, <1>3, <2>2, LevelSets
    <3> QED BY <1>8, <2>1, <2>2, <3>1 DEF ChainInv
  <2>3. ASSUME NEW r \in Readers PROVE ChainLink(r)'
    <3>1. From(r)' = From(r) /\ ChainLink(r)
      BY <1>1, <1>8, FromPrime DEF ChainInv
    <3>2. pc[Writer(r)] = "done" =>
             /\ GivenBody(Writer(r))' = GivenBody(Writer(r))
             /\ GivenLen(Writer(r))' = GivenLen(Writer(r))
      <4>1. pc[Writer(r)] = "done" => Writer(r) \in Senders
        BY <1>3, Distinct
      <4>2. Writer(r) # "send-level-1"
        BY Writers, SMT DEF Readers, Senders, Receivers
      <4> QED BY <2>1, <4>1, <4>2
    <3>3. pc[Writer(r)] = "done" => (Fresh(r, seg[From(r)])' <=> Fresh(r, seg[From(r)]))
      BY <1>1, <3>1, <3>2 DEF Fresh
    <3>4. Stale(r, seg[From(r)])' <=> Stale(r, seg[From(r)])
      BY <1>1, <3>1 DEF Stale
    <3>5. pc[r] = "failed" => FALSE
      BY <1>3, Distinct DEF InOrder
    <3>6. Absent' = Absent
      BY DEF Absent, Zeroed, Blank
    <3> QED BY <1>1, <3>1, <3>3, <3>4, <3>5, <3>6 DEF ChainLink
  <2> QED BY <1>1, <1>8, <2>2, <2>3 DEF ChainInv
<1>9. ASSUME version = "02" PROVE InPlaceInv'
  <2>1. InPlaceSending'
    BY <1>1, <1>9, SendingKeeps DEF InPlaceInv
  <2>2. InPlaceReceiving'
    BY <1>1, <1>3, <1>9, ReceivingKeeps DEF InPlaceInv
  <2> QED BY <2>1, <2>2 DEF InPlaceInv
<1> QED BY <1>5, <1>6, <1>7, <1>8, <1>9

\* A level of the receiver whose writer is done goes on.
LEMMA NotHung ==
    ASSUME TypeOK, InOrder, FilesInv, version = "01" => ChainInv,
           version = "02" => InPlaceInv, carried # "no", Hung
    PROVE  /\ pc["recv-level-1"] = "done"
           /\ \A l \in Receivers : pc[l] \notin {"have", "made"}
           /\ \A r \in ReceiveReaders : pc[Writer(r)] = "done" => pc[r] \in Ended
<1>0. \A l \in Receivers : ~Ready(l) /\ ~MayStart(l) /\ pc[l] \notin {"have", "made"}
  BY LevelSets DEF Hung
<1>1. pc["recv-level-1"] = "done"
  <2>1. "recv-level-1" \in Receivers
    BY DEF Receivers
  <2>2. pc["recv-level-1"] # "off"
    <3>1. \A side \in {Sending, Receiving} : \A i \in 2 .. 5 : side[i] # "recv-level-1"
      <4>1. \A i \in 2 .. 5 : i \in {2, 3, 4, 5}
        BY SMT
      <4> QED BY <4>1, Sides
    <3> QED BY <1>0, <2>1, <3>1 DEF MayStart
  <2> QED BY <1>0, <2>1, <2>2 DEF InOrder
<1>2. ASSUME NEW r \in ReceiveReaders, pc[Writer(r)] = "done" PROVE pc[r] \in Ended
  <2>0. r \in Readers /\ r \in Receivers /\ r \in Levels
    BY Distinct DEF ReceiveReaders
  <2>1. pc[r] # "off"
    <3>1. pc[r] = "off" => MayStart(r)
      BY <1>2, <2>0, MayStartIs DEF Ended
    <3> QED BY <1>0, <2>0, <3>1
  <2>2. pc[r] # "orphan" /\ (pc[r] = "wait" => seg[From(r)].ready = Awaited[r])
    <3>1. version \in {"01", "02"}
      BY VersionsAssumption DEF TypeOK
    <3>2. CASE version = "01"
      BY <1>2, <2>0, <3>2 DEF ChainInv, ChainLink, Fresh
    <3>3. CASE version = "02"
      BY <1>2, <2>0, <3>3 DEF InPlaceInv, InPlaceReceiving, InPlaceLink, Fresh
    <3> QED BY <3>1, <3>2, <3>3
  <2>3. pc[r] # "wait"
    BY <1>0, <2>0, <2>2 DEF Ready
  <2>4. pc[r] \in States /\ pc[r] \notin {"have", "made"}
    BY <1>0, <2>0 DEF TypeOK
  <2> QED BY <2>1, <2>2, <2>3, <2>4 DEF States, Ended
<1> QED BY <1>0, <1>1, <1>2

\* The user ends the levels that wait for what will not come.
LEMMA InterruptKeeps ==
    ASSUME TypeOK, InOrder, FilesInv, SegmentsInv, version = "01" => ChainInv,
           version = "02" => InPlaceInv, Interrupt
    PROVE  /\ InOrder' /\ FilesInv' /\ SegmentsInv'
           /\ version = "01" => ChainInv'
           /\ version = "02" => InPlaceInv'
<1>1. /\ version' = version /\ scripted' = scripted /\ off' = off /\ run' = run
      /\ sender_dat' = sender_dat /\ receiver_dat' = receiver_dat /\ network_dat' = network_dat
      /\ carried' = carried /\ seg' = seg /\ buf' = buf /\ carried # "no" /\ Hung
  BY DEF Interrupt, setting, files
<1>2. /\ pc["recv-level-1"] = "done"
      /\ \A l \in Receivers : pc[l] \notin {"have", "made"}
      /\ \A r \in ReceiveReaders : pc[Writer(r)] = "done" => pc[r] \in Ended
  BY <1>1, NotHung
<1>3. /\ \A x \in Senders : pc'[x] = pc[x]
      /\ \A x \in Receivers : pc'[x] = IF pc[x] \in Ended THEN pc[x] ELSE "killed"
  <2>1. \A x \in Levels : pc'[x] = IF x \in Receivers /\ pc[x] \notin Ended
                                   THEN "killed" ELSE pc[x]
    BY LevelSets DEF Interrupt
  <2> QED BY <2>1, Distinct
<1>4. /\ \A x \in Receivers : pc'[x] \in Ended
      /\ \A x \in Receivers : pc'[x] = "done" <=> pc[x] = "done"
      /\ \A x \in Receivers : pc'[x] = "failed" <=> pc[x] = "failed"
      /\ pc'["recv-level-1"] = "done"
  <2>1. "recv-level-1" \in Receivers
    BY DEF Receivers
  <2> QED BY <1>2, <1>3, <2>1 DEF Ended
<1>5. /\ "recv-level-1" \in Receivers /\ "recv-level-4" \in Receivers
      /\ "recv-level-5" \in Receivers /\ "send-level-1" \in Senders /\ "send-level-5" \in Senders
  BY DEF Receivers, Senders
<1>6. InOrder'
  <2>1. (\A l \in Senders : pc[l] \in {"off", "wait", "have", "made", "done"})'
    BY <1>3 DEF InOrder
  <2>2. pc'["send-level-5"] # "wait" /\ pc'["send-level-1"] \in {"off", "wait", "done"}
    BY <1>3, <1>5 DEF InOrder
  <2>3. pc'["recv-level-1"] \in {"off", "have", "made", "done"}
    BY <1>4
  <2>4. pc'["recv-level-5"] \notin {"have", "made"}
    BY <1>4, <1>5 DEF Ended
  <2>5. ASSUME NEW r \in Readers
        PROVE  /\ scripted /\ pc'[r] # "off" => pc'[Writer(r)] \in Ended
               /\ pc'[r] \in Taken => pc'[Writer(r)] = "done"
               /\ pc'[r] = "failed" /\ (scripted \/ run = 1) =>
                     carried = "altered" /\ pc'[Writer(r)] \in Ended
               /\ pc'[r] = "killed" => pc'[Writer(r)] # "done"
    <3>1. CASE r \in Senders
      <4>1. pc'[r] = pc[r] /\ pc'[Writer(r)] = pc[Writer(r)]
        BY <1>3, <3>1, Distinct
      <4> QED BY <4>1 DEF InOrder
    <3>2. CASE r \in Receivers
      <4>1. Writer(r) \in Receivers /\ r \in ReceiveReaders
        BY <3>2, Distinct DEF ReceiveReaders
      <4>2. pc'[r] \in Taken => pc[r] = "done"
        BY <1>4, <3>2 DEF Taken, Ended
      <4>3. pc'[r] = "killed" => pc[r] = "killed" \/ pc[r] \notin Ended
        BY <1>3, <3>2
      <4> QED BY <1>2, <1>4, <3>2, <4>1, <4>2, <4>3 DEF InOrder, Taken
    <3> QED BY <3>1, <3>2, Distinct
  <2>6. ASSUME NEW l \in Receivers, pc'[l] \in Taken PROVE Accepts(l, network_dat.body)
    <3>1. pc[l] = "done"
      BY <1>4, <2>6 DEF Taken, Ended
    <3> QED BY <3>1 DEF InOrder, Taken
  <2>7. (\A l \in Receivers : pc[l] \in Taken => Accepts(l, network_dat.body))'
    BY <1>1, <2>6 DEF Accepts, IpChecksum, TcpChecksum
  <2> QED BY <1>1, <1>4, <2>1, <2>2, <2>3, <2>4, <2>5, <2>7 DEF InOrder
<1>7. FilesInv'
  <2>1. Frame' = Frame /\ PayloadLen(network_dat.body)' = PayloadLen(network_dat.body)
    BY <1>1 DEF Frame, Sent2, Sent3, Sent4, Sent5, PayloadLen
  <2> QED BY <1>1, <1>3, <1>4, <1>5, <2>1 DEF FilesInv
<1>8. SegmentsInv'
  BY <1>1 DEF SegmentsInv, Absent, Zeroed
<1>9. \A l \in Levels : GivenBody(l)' = GivenBody(l) /\ GivenLen(l)' = GivenLen(l)
  BY <1>1, GivenSame
<1>10. Absent' = Absent /\ Blank' = Blank
  BY DEF Absent, Zeroed, Blank
<1>11. ASSUME version = "01" PROVE ChainInv'
  <2>1. \A l \in Levels : pc'[l] # "orphan"
    BY <1>3, <1>4, <1>11, LevelSets DEF ChainInv, Ended
  <2>2. \A l \in Levels : pc'[l] \in {"have", "made"} => pc'[l] = pc[l]
    BY <1>3, <1>4, LevelSets DEF Ended
  <2>3. (\A l \in Levels : pc[l] \in {"have", "made"} =>
            buf[l] = [body |-> GivenBody(l), len |-> GivenLen(l)])'
    BY <1>1, <1>9, <1>11, <2>2 DEF ChainInv
  <2>4. ASSUME NEW r \in Readers PROVE ChainLink(r)'
    <3>1. From(r)' = From(r) /\ ChainLink(r) /\ Writer(r) \in Levels
      BY <1>1, <1>11, FromPrime, Distinct DEF ChainInv
    <3>2. Fresh(r, seg[From(r)])' <=> Fresh(r, seg[From(r)])
      BY <1>1, <1>9, <3>1 DEF Fresh
    <3>3. Stale(r, seg[From(r)])' <=> Stale(r, seg[From(r)])
      BY <1>1, <3>1 DEF Stale
    <3>4. CASE r \in Senders
      <4>1. pc'[r] = pc[r] /\ pc'[Writer(r)] = pc[Writer(r)]
        BY <1>3, <3>4, Distinct
      <4> QED BY <1>1, <1>10, <3>1, <3>2, <3>3, <4>1 DEF ChainLink
    <3>5. CASE r \in Receivers
      <4>1. Writer(r) \in Receivers
        BY <3>5, Distinct
      <4>2. /\ pc'[r] \in Taken => pc[r] \in Taken
            /\ pc'[Writer(r)] # "made" /\ pc'[r] \notin {"off", "wait"}
            /\ pc'[Writer(r)] # "done" => pc[Writer(r)] # "done"
            /\ pc'[r] = "failed" => pc[r] = "failed"
        BY <1>4, <3>5, <4>1 DEF Taken, Ended
      <4> QED BY <1>1, <1>10, <3>1, <3>3, <4>2 DEF ChainLink
    <3> QED BY <3>4, <3>5, Distinct
  <2> QED BY <2>1, <2>3, <2>4 DEF ChainInv
<1>12. ASSUME version = "02" PROVE InPlaceInv'
  <2>1. InPlaceSending'
    BY <1>1, <1>3, <1>12, SendingKeeps DEF InPlaceInv
  <2>2. ASSUME NEW r \in Readers \cap Receivers PROVE InPlaceLink(r)'
    <3>1. /\ From(r)' = From(r) /\ InPlaceLink(r) /\ Writer(r) \in Receivers
          /\ r \in ReceiveReaders
      BY <1>1, <1>12, FromPrime, Distinct DEF InPlaceInv, InPlaceReceiving, ReceiveReaders
    <3>2. pc'[r] \notin {"off", "wait"}
      BY <1>4 DEF Ended
    <3>3. ~(pc[Writer(r)] = "done" /\ pc[r] \in {"off", "wait"})
      BY <1>2, <3>1 DEF Ended
    <3> QED BY <1>1, <1>2, <1>4, <3>1, <3>2, <3>3 DEF InPlaceLink
  <2>3. \A x \in Receivers : pc'[x] # "orphan" /\ pc'[x] # "made"
    BY <1>4 DEF Ended
  <2>4. PayloadLen(network_dat.body)' = PayloadLen(network_dat.body)
    BY <1>1 DEF PayloadLen
  <2>5. InPlaceReceiving'
    BY <1>1, <1>4, <1>5, <1>10, <1>12, <2>2, <2>3, <2>4 DEF InPlaceReceiving, InPlaceInv
  <2> QED BY <2>1, <2>5 DEF InPlaceInv
<1> QED BY <1>6, <1>7, <1>8, <1>11, <1>12

\* What a transfer leaves behind: nothing, or what a level would give up at once.
LEMMA NextRunKeeps ==
    ASSUME TypeOK, InOrder, FilesInv, SegmentsInv, version = "01" => ChainInv,
           version = "02" => InPlaceInv, NextRun, scripted \/ run = 1
    PROVE  /\ InOrder' /\ FilesInv' /\ SegmentsInv'
           /\ version = "01" => ChainInv'
           /\ version = "02" => InPlaceInv'
<1>1. /\ version' = version /\ scripted' = scripted /\ off' = off /\ run' = run + 1
      /\ sender_dat' = sender_dat /\ network_dat' = network_dat /\ seg' = seg
      /\ carried' = "no" /\ receiver_dat' = NoFile
      /\ \A l \in Levels : pc[l] \in Ended /\ pc'[l] = "off"
  BY DEF NextRun
<1>2. run' > 1
  BY <1>1, SMT DEF TypeOK
<1>3. /\ "recv-level-1" \in Levels /\ "recv-level-4" \in Levels /\ "recv-level-5" \in Levels
      /\ "send-level-1" \in Levels /\ "send-level-5" \in Levels
      /\ Senders \subseteq Levels /\ Receivers \subseteq Levels
      /\ \A r \in Readers : r \in Levels /\ Writer(r) \in Levels
  BY Levels10, Distinct
<1>4. InOrder'
  BY <1>1, <1>3 DEF InOrder, Taken, Ended
<1>5. FilesInv'
  BY <1>1, <1>3 DEF FilesInv, NoFile
<1>6. SegmentsInv'
  BY <1>1 DEF SegmentsInv, Absent, Zeroed
<1>7. \A l \in Senders : pc[l] = "done"
  BY <1>1, <1>3 DEF InOrder, Ended
<1>8. ASSUME version = "01" PROVE ChainInv'
  <2>1. ASSUME NEW r \in Readers PROVE ChainLink(r)'
    <3>1. From(r)' = From(r) /\ ChainLink(r) /\ pc[r] \in Ended
      BY <1>1, <1>3, <1>8, FromPrime DEF ChainInv
    <3>2. pc'[r] = "off" /\ pc'[Writer(r)] = "off"
      BY <1>1, <1>3
    <3>3. seg[From(r)].ready = Awaited[r] => Stale(r, seg[From(r)])
      <4>1. CASE pc[r] = "done"
        <5>1. seg[From(r)].ready = 0 /\ Awaited[r] # 0
          BY <1>8, <3>1, <4>1, NewIs, ChainTable DEF ChainLink, Taken
        <5> QED BY <5>1
      <4>2. CASE pc[r] = "failed"
        BY <3>1, <4>2 DEF ChainLink
      <4>3. CASE pc[r] = "killed"
        <5>1. pc[Writer(r)] # "done"
          BY <4>3 DEF InOrder
        <5> QED BY <3>1, <5>1 DEF ChainLink
      <4> QED BY <3>1, <4>1, <4>2, <4>3 DEF Ended
    <3>4. Stale(r, seg[From(r)])' <=> Stale(r, seg[From(r)])
      BY <1>1, <3>1 DEF Stale
    <3> QED BY <1>1, <1>2, <3>1, <3>2, <3>3, <3>4 DEF ChainLink, Taken
  <2> QED BY <1>1, <2>1 DEF ChainInv
<1>9. ASSUME version = "02" PROVE InPlaceInv'
  <2>0. seg[1] = Absent /\ Absent.ready = 0 /\ Absent.body = Blank /\ Blank' = Blank
        /\ Absent' = Absent
    <3>1. pc["send-level-1"] = "done"
      BY <1>7 DEF Senders
    <3> QED BY <1>9, <3>1, NewIs DEF InPlaceInv, InPlaceSending, Blank, Absent, Zeroed
  <2>1. \A r \in Readers : From(r)' = From(r) /\ pc'[r] = "off" /\ pc'[Writer(r)] = "off"
    BY <1>1, <1>3, FromPrime
  <2>2. ASSUME NEW r \in Readers \cap Senders PROVE InPlaceLink(r)'
    <3>1. seg'[From(r)].ready # Awaited[r]
      BY <1>1, <1>9, <2>0, InPlaceTable DEF SendReaders
    <3> QED BY <2>1, <3>1 DEF InPlaceLink
  <2>3. InPlaceSending'
    BY <1>1, <1>3, <2>0, <2>2 DEF InPlaceSending
  <2>4. ASSUME NEW r \in Readers \cap Receivers PROVE InPlaceLink(r)'
    <3>1. InPlaceLink(r) /\ pc[r] \notin {"off", "wait"} /\ pc["recv-level-1"] # "off"
      BY <1>1, <1>3, <1>9 DEF InPlaceInv, InPlaceReceiving, Ended
    <3>2. seg[From(r)].ready = Awaited[r] => r = "recv-level-4" /\ seg[From(r)].body.off < 5
      BY <3>1 DEF InPlaceLink
    <3> QED BY <1>1, <1>2, <1>3, <2>1, <3>2 DEF InPlaceLink
  <2>5. InPlaceReceiving'
    BY <1>1, <1>3, <2>4 DEF InPlaceReceiving
  <2> QED BY <2>3, <2>5 DEF InPlaceInv
<1> QED BY <1>4, <1>5, <1>6, <1>8, <1>9

\* At first nothing is there.
LEMMA InitIsIInv == Init => IInv
<1> SUFFICES ASSUME Init PROVE IInv
  OBVIOUS
<1>1. TypeOK
  BY InitIsTyped
<1>2. /\ \A l \in Levels : pc[l] = "off"
      /\ \A k \in Keys : seg[k] = Absent
      /\ run = 1 /\ carried = "no" /\ receiver_dat = NoFile
  BY DEF Init
<1>3. /\ "recv-level-1" \in Levels /\ "recv-level-4" \in Levels /\ "recv-level-5" \in Levels
      /\ "send-level-1" \in Levels /\ "send-level-5" \in Levels
      /\ Senders \subseteq Levels /\ Receivers \subseteq Levels
      /\ \A r \in Readers : r \in Levels /\ Writer(r) \in Levels
  BY Levels10, Distinct
<1>4. InOrder
  BY <1>2, <1>3 DEF InOrder, Taken, Ended
<1>5. FilesInv /\ SegmentsInv
  BY <1>2, <1>3 DEF FilesInv, SegmentsInv
<1>6. ASSUME version = "01" PROVE ChainInv
  <2>1. \A r \in Readers : seg[From(r)] = Absent /\ Absent.ready # Awaited[r]
    <3> TAKE r \in Readers
    <3>1. From(r) \in Keys /\ Awaited[r] # 0
      BY <1>1, <1>6, KeyOf, ChainTable
    <3> QED BY <1>2, <3>1, NewIs
  <2> QED BY <1>2, <1>3, <2>1 DEF ChainInv, ChainLink, Taken
<1>7. ASSUME version = "02" PROVE InPlaceInv
  <2>1. \A r \in Readers : seg[From(r)] = Absent /\ Absent.ready # Awaited[r]
    <3> TAKE r \in Readers
    <3>1. From(r) \in Keys /\ Awaited[r] # 0
      BY <1>1, <1>7, KeyOf, InPlaceTable
    <3> QED BY <1>2, <3>1, NewIs
  <2>2. 1 \in Keys
    BY <1>7, InPlaceTable
  <2> QED BY <1>2, <1>3, <2>1, <2>2, NewIs
          DEF InPlaceInv, InPlaceSending, InPlaceReceiving, InPlaceLink
<1> QED BY <1>1, <1>4, <1>5, <1>6, <1>7 DEF IInv

LEMMA ChainSetting ==
    ASSUME ChainNext
    PROVE  version' = version /\ scripted' = scripted /\ run' = run
  BY DEF ChainNext, ChainSend, ChainReceive, SendLevel5, SendLevel4, SendLevel3, SendLevel2,
         SendLevel1, RecvLevel1, RecvLevel2, RecvLevel3, RecvLevel4, RecvLevel5,
         Attach, Puts, Takes, setting

LEMMA InPlaceSetting ==
    ASSUME InPlaceNext
    PROVE  version' = version /\ scripted' = scripted /\ run' = run
  BY DEF InPlaceNext, InPlaceSend, InPlaceReceive, InPlaceSend5, InPlaceSend4, InPlaceSend3,
         InPlaceSend2, InPlaceSend1, InPlaceRecv1, InPlaceRecv2, InPlaceRecv3, InPlaceRecv4,
         InPlaceRecv5, Attach, InPlace, Rejects, setting

\* Every step keeps the invariant; a transfer begins on what the one before has left.
LEMMA StepKeeps == ASSUME IInv, [Next]_vars PROVE IInv'
<1> USE DEF IInv
<1>0. TypeOK' /\ version \in {"01", "02"}
  BY StepIsTyped, VersionsAssumption DEF TypeOK
<1> DEFINE Held == /\ InOrder /\ FilesInv /\ SegmentsInv
                   /\ version = "01" => ChainInv
                   /\ version = "02" => InPlaceInv
<1>1. ASSUME scripted' = scripted, run' = run, version' = version,
             Held => InOrder' /\ FilesInv' /\ SegmentsInv'
                     /\ (version = "01" => ChainInv') /\ (version = "02" => InPlaceInv')
      PROVE  IInv'
  BY <1>0, <1>1
<1>2. CASE ChainNext
  <2>1. version' = version /\ scripted' = scripted /\ run' = run
    BY <1>2, ChainSetting
  <2>2. version # "02"
    BY <1>2 DEF ChainNext
  <2> QED BY <1>1, <1>2, <2>1, <2>2, ChainKeeps
<1>3. CASE InPlaceNext
  <2>1. version' = version /\ scripted' = scripted /\ run' = run
    BY <1>3, InPlaceSetting
  <2>2. version # "01"
    BY <1>3 DEF InPlaceNext
  <2> QED BY <1>1, <1>3, <2>1, <2>2, InPlaceKeeps
<1>4. CASE Carry("whole") \/ Carry("altered")
  <2>1. version' = version /\ scripted' = scripted /\ run' = run
    BY <1>4 DEF Carry, setting
  <2> QED BY <1>1, <1>4, <2>1, CarryKeeps
<1>5. CASE Interrupt
  <2>1. version' = version /\ scripted' = scripted /\ run' = run
    BY <1>5 DEF Interrupt, setting
  <2> QED BY <1>1, <1>5, <2>1, InterruptKeeps
<1>6. CASE NextRun
  <2>1. version' = version /\ scripted' = scripted /\ run' = run + 1 /\ run \in Nat \ {0}
    BY <1>6 DEF NextRun, TypeOK
  <2>2. run' =< 2 => run = 1 /\ run =< 2
    BY <2>1, SMT
  <2>3. ASSUME scripted \/ run = 1, Held
        PROVE  /\ InOrder' /\ FilesInv' /\ SegmentsInv'
               /\ version = "01" => ChainInv'
               /\ version = "02" => InPlaceInv'
    BY <1>6, <2>3, NextRunKeeps
  <2> QED BY <1>0, <2>1, <2>2, <2>3
<1>7. CASE UNCHANGED vars
  <2>1. /\ version' = version /\ scripted' = scripted /\ off' = off /\ run' = run
        /\ sender_dat' = sender_dat /\ receiver_dat' = receiver_dat
        /\ network_dat' = network_dat /\ carried' = carried
        /\ seg' = seg /\ pc' = pc /\ buf' = buf
    BY <1>7 DEF vars, setting, files
  <2>2. Frame' = Frame /\ Absent' = Absent /\ Blank' = Blank
        /\ PayloadLen(network_dat.body)' = PayloadLen(network_dat.body)
    BY <2>1 DEF Frame, Sent2, Sent3, Sent4, Sent5, Absent, Zeroed, Blank, PayloadLen
  <2>3. \A l \in Receivers : Accepts(l, network_dat.body)' <=> Accepts(l, network_dat.body)
    BY <2>1 DEF Accepts, IpChecksum, TcpChecksum
  <2>4. (InOrder' <=> InOrder) /\ (FilesInv' <=> FilesInv) /\ (SegmentsInv' <=> SegmentsInv)
    BY <2>1, <2>2, <2>3 DEF InOrder, FilesInv, SegmentsInv
  <2>5. \A l \in Levels : GivenBody(l)' = GivenBody(l) /\ GivenLen(l)' = GivenLen(l)
    BY <2>1, GivenSame
  <2>6. \A r \in Readers :
           /\ From(r)' = From(r) /\ Writer(r) \in Levels
           /\ Fresh(r, seg[From(r)])' <=> Fresh(r, seg[From(r)])
           /\ Stale(r, seg[From(r)])' <=> Stale(r, seg[From(r)])
    <3> TAKE r \in Readers
    <3>1. From(r)' = From(r) /\ Writer(r) \in Levels
      BY <2>1, FromPrime, Distinct
    <3> QED BY <2>1, <2>5, <3>1 DEF Fresh, Stale
  <2>7. \A r \in Readers : (ChainLink(r)' <=> ChainLink(r)) /\ (InPlaceLink(r)' <=> InPlaceLink(r))
    BY <2>1, <2>2, <2>6 DEF ChainLink, InPlaceLink
  <2>8. ChainInv' <=> ChainInv
    BY <2>1, <2>5, <2>7 DEF ChainInv
  <2>9. InPlaceInv' <=> InPlaceInv
    BY <2>1, <2>2, <2>7 DEF InPlaceInv, InPlaceSending, InPlaceReceiving
  <2> QED BY <1>0, <2>1, <2>4, <2>8, <2>9
<1> QED BY <1>2, <1>3, <1>4, <1>5, <1>6, <1>7 DEF Next
-----------------------------------------------------------------------------
(* What is proved of every transfer *)

\* Each level works on what the one before it has handed on, the segments hold that or
\* what the next transfer gives up at once, and the files what was sent and accepted:
\* for any number of transfers by the scripts, and for the first two by hand.
THEOREM Inductive == Spec => []IInv
<1>1. IInv /\ [Next]_vars => IInv'
  BY StepKeeps
<1> QED BY <1>1, InitIsIInv, PTL DEF Spec

\* The frame that is sent holds the payload in the length its headers say.
LEMMA FrameIsSent ==
    ASSUME TypeOK
    PROVE  PayloadLen(Frame.body) = sender_dat.len /\ Frame.body.data = sender_dat.data
<1>1. /\ Frame.body.off = off /\ Frame.body.data = sender_dat.data
      /\ Frame.body.iplen = sender_dat.len + TcpLen + extern_len(off) + IpLen
  BY SentIs DEF Frame
<1>2. sender_dat.len \in Int /\ extern_len(off) \in Int
  BY DataTypes, SMT DEF extern_len
<1> QED BY <1>1, <1>2, SMT DEF PayloadLen, TcpLen, IpLen

\* What recv-level-5 writes is what send-level-5 was given, in either version, unless on
\* the way a word 0 of it has become 65535 or a word 65535 has become 0, which the
\* checksum cannot tell.
THEOREM DeliveredIsWhatWasSent == Spec => []DeliveredAsSent
<1>1. IInv => DeliveredAsSent
  <2> DEFINE AsSent == \/ receiver_dat = sender_dat
                       \/ /\ carried = "altered" /\ receiver_dat.len = sender_dat.len
                          /\ {sender_dat.data, receiver_dat.data} = {0, 65535}
  <2> SUFFICES ASSUME IInv, receiver_dat # NoFile, scripted \/ run =< 2
               PROVE  AsSent
    BY DEF DeliveredAsSent
  <2> DEFINE n == PayloadLen(network_dat.body)
             d == network_dat.body.data
  <2>1. /\ TypeOK /\ InOrder /\ FilesInv
        /\ pc["recv-level-5"] = "done" /\ receiver_dat = [len |-> n, data |-> d]
    BY DEF IInv, FilesInv
  <2>2. sender_dat = [len |-> sender_dat.len, data |-> sender_dat.data]
    BY <2>1 DEF TypeOK, NoFile
  <2>3. \A l \in Receivers : Accepts(l, network_dat.body)
    <3>1. \A l \in Receivers : pc[l] = "done"
      BY <2>1, AllDone
    <3> QED BY <2>1, <3>1 DEF InOrder, Taken
  <2>4. carried # "no" /\ pc["send-level-1"] = "done"
    <3>1. "recv-level-5" \in Receivers
      BY DEF Receivers
    <3> QED BY <2>1, <3>1 DEF FilesInv
  <2>5. CASE carried = "altered"
    <3>1. network_dat \in Altered(Frame)
      BY <2>1, <2>5 DEF FilesInv
    <3>2. n = sender_dat.len /\ Same(sender_dat.data, d)
      BY <2>1, <2>3, <3>1, WhatIsAccepted
    <3>3. receiver_dat.len = n /\ receiver_dat.data = d
      BY <2>1
    <3> HIDE DEF n, d
    <3>4. CASE sender_dat.data = d
      <4>1. receiver_dat = sender_dat
        BY <2>1, <2>2, <3>2, <3>4
      <4> QED BY <4>1
    <3>5. CASE {sender_dat.data, d} = {0, 65535}
      BY <2>5, <3>2, <3>3, <3>5
    <3>6. sender_dat.data = d \/ {sender_dat.data, d} = {0, 65535}
      <4>1. CASE sender_dat.data = d
        BY <4>1
      <4>2. CASE sender_dat.data = 0 /\ d = 65535
        BY <4>2
      <4>3. CASE sender_dat.data = 65535 /\ d = 0
        BY <4>3
      <4> QED BY <3>2, <4>1, <4>2, <4>3 DEF Same
    <3> QED BY <3>4, <3>5, <3>6
  <2>6. CASE carried = "whole"
    <3>1. network_dat = Frame
      BY <2>1, <2>4, <2>6 DEF FilesInv
    <3>2. n = sender_dat.len /\ d = sender_dat.data
      BY <2>1, <3>1, FrameIsSent
    <3> HIDE DEF n, d
    <3> QED BY <2>1, <2>2, <3>2
  <2>7. carried = "altered" \/ carried = "whole"
    BY <2>1, <2>4 DEF TypeOK
  <2> HIDE DEF AsSent
  <2> QED BY <2>5, <2>6, <2>7
<1> QED BY <1>1, Inductive, PTL

\* No level of the receiver gives up a frame that was not altered, whatever the
\* transfer before has left in the segments; by hand it may from the second one on.
THEOREM RejectsOnlyAltered == Spec => []OnlyAlteredIsRejected
<1>1. IInv => OnlyAlteredIsRejected
  <2> SUFFICES ASSUME IInv, NEW l \in Levels, pc[l] = "failed", ~(~scripted /\ run > 1)
               PROVE  carried = "altered"
    BY DEF OnlyAlteredIsRejected
  <2>1. scripted \/ run = 1
    <3>1. scripted \in BOOLEAN /\ run \in Nat \ {0}
      BY DEF IInv, TypeOK
    <3> QED BY <3>1, SMT
  <2>2. InOrder
    <3>1. run = 1 => run =< 2
      BY SMT
    <3> QED BY <2>1, <3>1 DEF IInv
  <2>3. l \in Readers
    BY <2>2, LevelSets, Distinct DEF InOrder
  <2> QED BY <2>1, <2>2, <2>3 DEF InOrder
<1> QED BY <1>1, Inductive, PTL

\* When all ten levels have come to their end no segment of shared memory is left.
THEOREM LeavesNothing == Spec => []NothingIsLeft
<1>1. IInv => NothingIsLeft
  <2> SUFFICES ASSUME IInv, \A l \in Levels : pc[l] = "done", scripted \/ run =< 2,
                      NEW k \in Keys
               PROVE  ~seg[k].there
    BY DEF NothingIsLeft
  <2>1. /\ SegmentsInv /\ (version = "01" => ChainInv) /\ (version = "02" => InPlaceInv)
        /\ version \in {"01", "02"}
    BY VersionsAssumption DEF IInv, TypeOK
  <2>2. CASE version = "01"
    <3>1. CASE k \in {1, 2}
      BY <2>1, <2>2, <3>1, NewIs DEF SegmentsInv
    <3>2. CASE k \in ChainKey
      <4>1. PICK r \in Readers : k = From(r)
        BY <2>2, <3>2, ChainTable
      <4>2. pc[r] = "done"
        BY Distinct
      <4> QED BY <2>1, <2>2, <4>1, <4>2, NewIs DEF ChainInv, ChainLink, Taken
    <3> QED BY <2>2, <3>1, <3>2, ChainTable
  <2>3. CASE version = "02"
    <3>1. CASE k \in {1, 2}
      <4>1. pc["send-level-1"] = "done" /\ pc["recv-level-5"] = "done"
        BY Levels10
      <4> QED BY <2>1, <2>3, <3>1, <4>1, NewIs
              DEF InPlaceInv, InPlaceSending, InPlaceReceiving
    <3>2. CASE k \notin {1, 2}
      BY <2>1, <2>3, <3>2, NewIs DEF SegmentsInv
    <3> QED BY <3>1, <3>2
  <2> QED BY <2>1, <2>2, <2>3
<1> QED BY <1>1, Inductive, PTL
=============================================================================
