------------------------- MODULE NetworkShareProofs -------------------------
(***************************************************************************)
(* Proofs, for every number of packets and of share files, of what the     *)
(* marks and the two flags of the hand-off keep: which packet each file    *)
(* holds, that the latest packets are never lost, that without overrun     *)
(* each is fetched once, and in order as long as the processes do not meet *)
(* at a slot.                                                              *)
(***************************************************************************)
EXTENDS NetworkShare, TLAPS

SnlPcs == {"read", "gate", "file", "raise", "mark", "lower"}
SdlPcs == {"scan", "gate", "raise", "clear", "lower", "file"}

\* Packets whose file has been written.
Written == IF snl \in {"gate", "file"} THEN sent - 1 ELSE sent

\* SDL has found the mark of the slot it looks at.
Found == sdl \in {"gate", "raise", "clear", "lower", "file"}

Types == /\ share \in [Slots -> Nat] /\ text \in [Slots -> {0, 1}]
         /\ snl \in SnlPcs /\ sdl \in SdlPcs
         /\ sent \in Nat /\ sent =< Packets /\ (snl # "read" => sent > 0)
         /\ share_file_pointer \in Slots /\ first_readable \in Slots
         /\ fetched \in Seq(Nat)
         /\ overrun \in BOOLEAN /\ met \in BOOLEAN

\* SNL goes round the files one by one, and a file holds the last packet of its slot.
RingInv ==
    /\ share_file_pointer = IF snl = "read" THEN SlotOf(sent + 1) ELSE SlotOf(sent)
    /\ \A p \in 1 .. Written : Written - p < MAX_NETWORK_SHARE => share[SlotOf(p)] = p
    /\ \A i \in Slots : share[i] > 0 => (share[i] =< Written /\ SlotOf(share[i]) = i)

\* A marked file holds a packet, and what was fetched was written.
MarkInv == /\ \A i \in Slots : text[i] = 1 => share[i] > 0
           /\ Found => share[first_readable] > 0
           /\ \A p \in Nat : Fetched(p) => (0 < p /\ p =< Written)

\* As long as no packet is replaced unfetched, the packet of a marked file was not fetched
\* yet, nor the one SNL is about to mark, and the packets replaced were all fetched.
FreshInv == ~overrun =>
    /\ \A i \in Slots : text[i] = 1 => ~Fetched(share[i])
    /\ Found => ~Fetched(share[first_readable])
    /\ sdl \in {"lower", "file"} => text[first_readable] = 0
    /\ \A p \in 1 .. Written : share[SlotOf(p)] # p => Fetched(p)
    /\ snl \in {"raise", "mark", "lower"} => ~Fetched(sent)
    /\ snl \in {"raise", "mark"} => ~Unread(share_file_pointer)
    /\ snl = "lower" /\ Found /\ first_readable = share_file_pointer => sdl = "gate"

\* As long as the processes do not meet either, SDL looks at the slot of the packet it
\* fetched last or of the one after it.
OrderInv == ~overrun /\ ~met =>
    /\ \A i \in 1 .. Len(fetched) : fetched[i] = i
    /\ Found => share[first_readable] = Len(fetched) + 1
    /\ sdl = "scan" /\ Len(fetched) < Packets =>
         \/ first_readable = SlotOf(Len(fetched) + 1)
         \/ /\ Len(fetched) > 0 /\ first_readable = SlotOf(Len(fetched))
            /\ share[first_readable] = Len(fetched)

FlagInv == snl \in {"mark", "lower"} => written2 = 1

ShareInv == /\ Types /\ RingInv /\ MarkInv /\ FreshInv /\ OrderInv /\ FlagInv
            /\ ExactlyOnceUnlessOverrun /\ LatestNeverLost
-----------------------------------------------------------------------------
LEMMA QuotRem ==
    ASSUME NEW n \in Nat, n > 0
    PROVE  /\ \A a \in Nat : /\ a \div n \in Nat /\ a % n \in 0 .. n - 1
                             /\ a = n * (a \div n) + (a % n)
           /\ \A q \in Nat, r \in 0 .. n - 1 : (n * q + r) % n = r
<1>1. ASSUME NEW a \in Nat
      PROVE  /\ a \div n \in Nat /\ a % n \in 0 .. n - 1
             /\ a = n * (a \div n) + (a % n)
  BY Z3
<1>2. ASSUME NEW q \in Nat, NEW r \in 0 .. n - 1 PROVE (n * q + r) % n = r
  BY Z3
<1> QED BY <1>1, <1>2

\* The slot of a packet, and that the slots are used in turn.
LEMMA SlotInTurn ==
    \A p \in Nat : p > 0 => SlotOf(p) \in Slots /\ next(SlotOf(p)) = SlotOf(p + 1)
<1> DEFINE n == MAX_NETWORK_SHARE
<1>0. n \in Nat /\ n > 0
  BY NetworkShareAssumption
<1> HIDE DEF n
<1> SUFFICES ASSUME NEW p \in Nat, p > 0
             PROVE  SlotOf(p) \in Slots /\ next(SlotOf(p)) = SlotOf(p + 1)
  OBVIOUS
<1> DEFINE q == (p - 1) \div n
           r == (p - 1) % n
<1>1. q \in Nat /\ r \in 0 .. n - 1 /\ p - 1 = n * q + r /\ p - 1 \in Nat
  <2>1. p - 1 \in Nat
    OBVIOUS
  <2> QED BY <1>0, <2>1, QuotRem
<1>2. SlotOf(p) = r /\ next(SlotOf(p)) = (r + 1) % n /\ SlotOf(p + 1) = p % n
  BY DEF SlotOf, next, n
<1> HIDE DEF q, r
<1>3. (r + 1) % n = p % n
  <2>1. CASE r = n - 1
    <3>1. p = n * (q + 1) + 0 /\ r + 1 = n * 1 + 0
      BY <1>0, <1>1, <2>1, SMT
    <3>2. (n * (q + 1) + 0) % n = 0 /\ (n * 1 + 0) % n = 0
      BY <1>0, <1>1, QuotRem
    <3> QED BY <3>1, <3>2
  <2>2. CASE r # n - 1
    <3>1. p = n * q + (r + 1) /\ r + 1 = n * 0 + (r + 1) /\ r + 1 \in 0 .. n - 1
      BY <1>0, <1>1, <2>2, SMT
    <3>2. (n * q + (r + 1)) % n = r + 1 /\ (n * 0 + (r + 1)) % n = r + 1
      BY <1>0, <1>1, <3>1, QuotRem
    <3> QED BY <3>1, <3>2
  <2> QED BY <2>1, <2>2
<1>4. r \in Slots
  BY <1>1 DEF Slots, n
<1> QED BY <1>2, <1>3, <1>4

\* Two packets of one slot are a lap apart.
LEMMA LapApart ==
    \A p, q \in Nat : 0 < p /\ p < q /\ SlotOf(p) = SlotOf(q) => q - p >= MAX_NETWORK_SHARE
<1> DEFINE n == MAX_NETWORK_SHARE
<1>0. n \in Nat /\ n > 0
  BY NetworkShareAssumption
<1> HIDE DEF n
<1> SUFFICES ASSUME NEW p \in Nat, NEW q \in Nat, 0 < p, p < q, SlotOf(p) = SlotOf(q)
             PROVE  q - p >= n
  BY DEF n
<1> DEFINE a == (p - 1) \div n
           b == (q - 1) \div n
           r == (p - 1) % n
<1>1. p - 1 \in Nat /\ q - 1 \in Nat /\ (q - 1) % n = r
  BY DEF SlotOf, n
<1>2. /\ a \in Nat /\ b \in Nat /\ r \in 0 .. n - 1
      /\ p - 1 = n * a + r /\ q - 1 = n * b + r
  BY <1>0, <1>1, QuotRem
<1> HIDE DEF a, b, r
<1>3. q - p = n * b - n * a
  BY <1>0, <1>2, SMT
<1>4. CASE b =< a
  <2>1. n * b =< n * a
    BY <1>0, <1>2, <1>4, SMT
  <2> QED BY <1>0, <1>2, <1>3, <2>1, SMT
<1>5. CASE b > a
  <2>1. n * b >= n * (a + 1)
    BY <1>0, <1>2, <1>5, SMT
  <2>2. n * (a + 1) = n * a + n
    BY <1>0, <1>2, SMT
  <2> QED BY <1>0, <1>2, <1>3, <2>1, <2>2, SMT
<1> QED BY <1>2, <1>4, <1>5

\* A sequence that grows by one element.
LEMMA Longer ==
    ASSUME NEW q \in Seq(Nat), NEW x \in Nat
    PROVE  LET r == Append(q, x) IN
           /\ r \in Seq(Nat) /\ Len(r) = Len(q) + 1 /\ Len(q) \in Nat
           /\ \A i \in 1 .. Len(q) : r[i] = q[i]
           /\ r[Len(q) + 1] = x
           /\ Range(r) = Range(q) \cup {x}
           /\ IsInjective(q) /\ x \notin Range(q) => IsInjective(r)
<1> DEFINE r == Append(q, x)
<1>1. /\ r \in Seq(Nat) /\ Len(r) = Len(q) + 1 /\ Len(q) \in Nat
      /\ \A i \in 1 .. Len(q) : r[i] = q[i]
      /\ r[Len(q) + 1] = x
  OBVIOUS
<1>2. DOMAIN r = 1 .. Len(q) + 1 /\ DOMAIN q = 1 .. Len(q)
  BY <1>1
<1> HIDE DEF r
<1>3. \A i \in DOMAIN r : i \in DOMAIN q \/ i = Len(q) + 1
  BY <1>1, <1>2
<1>4. (DOMAIN q) \subseteq DOMAIN r /\ Len(q) + 1 \in DOMAIN r
  BY <1>1, <1>2
<1>5. Range(r) = Range(q) \cup {x}
  BY <1>1, <1>2, <1>3, <1>4 DEF Range
<1>6. ASSUME IsInjective(q), x \notin Range(q) PROVE IsInjective(r)
  <2> SUFFICES ASSUME NEW a \in DOMAIN r, NEW b \in DOMAIN r, r[a] = r[b] PROVE a = b
    BY DEF IsInjective
  <2>1. CASE a \in DOMAIN q /\ b \in DOMAIN q
    BY <1>1, <1>2, <1>6, <2>1 DEF IsInjective
  <2>2. CASE a \in DOMAIN q /\ b = Len(q) + 1
    BY <1>1, <1>2, <1>6, <2>2 DEF Range
  <2>3. CASE a = Len(q) + 1 /\ b \in DOMAIN q
    BY <1>1, <1>2, <1>6, <2>3 DEF Range
  <2> QED BY <1>3, <2>1, <2>2, <2>3
<1> QED BY <1>1, <1>5, <1>6 DEF r
-----------------------------------------------------------------------------
LEMMA ShareInit == Init => ShareInv
<1> SUFFICES ASSUME Init PROVE ShareInv
  OBVIOUS
<1>0. MAX_NETWORK_SHARE \in Nat /\ MAX_NETWORK_SHARE > 0 /\ Packets \in Nat
  BY NetworkShareAssumption
<1>1. Types
  BY <1>0 DEF Init, Types, Slots, SnlPcs, SdlPcs
<1>2. /\ share = [i \in Slots |-> 0] /\ text = [i \in Slots |-> 0] /\ fetched = << >>
      /\ snl = "read" /\ sdl = "scan" /\ sent = 0
      /\ share_file_pointer = 0 /\ first_readable = 0
  BY DEF Init
<1>3. Written = 0 /\ Marked = 0 /\ ~Found /\ Len(fetched) = 0 /\ Range(fetched) = {}
  BY <1>2 DEF Written, Marked, Found, Range
<1>4. SlotOf(0 + 1) = 0
  <2>1. 0 + 1 - 1 = MAX_NETWORK_SHARE * 0 + 0 /\ 0 \in 0 .. MAX_NETWORK_SHARE - 1
    BY <1>0, SMT
  <2> QED BY <1>0, <2>1, QuotRem DEF SlotOf
<1>5. RingInv /\ MarkInv /\ FreshInv /\ FlagInv
  BY <1>2, <1>3, <1>4 DEF RingInv, MarkInv, FreshInv, FlagInv, Fetched
<1>6. OrderInv
  BY <1>2, <1>3, <1>4 DEF OrderInv
<1>7. ExactlyOnceUnlessOverrun /\ LatestNeverLost
  BY <1>2, <1>3 DEF ExactlyOnceUnlessOverrun, LatestNeverLost, IsInjective
<1> QED BY <1>1, <1>5, <1>6, <1>7 DEF ShareInv

\* The packet whose file was written last.
LEMMA LastWritten ==
    ASSUME ShareInv, snl \in {"raise", "mark", "lower"}
    PROVE  /\ share_file_pointer = SlotOf(sent) /\ share[share_file_pointer] = sent
           /\ sent \in Nat /\ sent > 0
<1>1. sent \in Nat /\ sent > 0 /\ Written = sent
  BY DEF ShareInv, Types, Written
<1>2. sent \in 1 .. Written /\ Written - sent < MAX_NETWORK_SHARE
  BY <1>1, NetworkShareAssumption
<1> QED BY <1>1, <1>2 DEF ShareInv, RingInv

\* SNL moves on and touches neither a file nor a mark.
LEMMA SnlQuietStep ==
    ASSUME ShareInv, SnlReadPacket \/ SnlPassGate \/ SnlRaise \/ SnlLower
    PROVE  ShareInv'
<1>0. /\ Types /\ RingInv /\ MarkInv /\ FreshInv /\ OrderInv /\ FlagInv
      /\ ExactlyOnceUnlessOverrun /\ LatestNeverLost
  BY DEF ShareInv
<1>1. /\ UNCHANGED <<share, text, sdl, first_readable, fetched, overrun, met>>
  BY DEF SnlReadPacket, SnlPassGate, SnlRaise, SnlLower, sdlVars
<1>2. /\ sent \in Nat /\ sent =< Packets /\ Packets \in Nat
      /\ share_file_pointer = IF snl = "read" THEN SlotOf(sent + 1) ELSE SlotOf(sent)
  BY <1>0, NetworkShareAssumption DEF Types, RingInv
<1>3. \/ /\ snl = "read" /\ snl' = "gate" /\ sent' = sent + 1 /\ sent < Packets
         /\ share_file_pointer' = share_file_pointer
      \/ /\ snl = "gate" /\ snl' = "file" /\ sent' = sent
         /\ share_file_pointer' = share_file_pointer
      \/ /\ snl = "raise" /\ snl' = "mark" /\ sent' = sent /\ written2' = 1
         /\ share_file_pointer' = share_file_pointer
      \/ /\ snl = "lower" /\ snl' = "read" /\ sent' = sent
         /\ share_file_pointer' = next(share_file_pointer)
  BY DEF SnlReadPacket, SnlPassGate, SnlRaise, SnlLower
<1>4. /\ Written' = Written /\ Marked' = Marked
  BY <1>2, <1>3 DEF Written, Marked
<1>5. share_file_pointer' = IF snl' = "read" THEN SlotOf(sent' + 1) ELSE SlotOf(sent')
  <2>1. CASE snl = "lower" /\ snl' = "read"
    <3>1. sent > 0
      BY <1>0, <2>1 DEF Types
    <3> QED BY <1>2, <1>3, <2>1, <3>1, SlotInTurn
  <2> QED BY <1>2, <1>3, <2>1
<1>6. Types'
  <2>1. sent' \in Nat /\ sent' =< Packets /\ (snl' # "read" => sent' > 0)
    BY <1>0, <1>2, <1>3 DEF Types
  <2>2. share_file_pointer' \in Slots
    BY <1>2, <1>5, <2>1, SlotInTurn
  <2> QED BY <1>0, <1>1, <1>3, <2>1, <2>2 DEF Types, SnlPcs
<1>7. RingInv'
  BY <1>0, <1>1, <1>4, <1>5 DEF RingInv
<1>8. MarkInv'
  BY <1>0, <1>1, <1>4 DEF MarkInv, Found, Fetched
<1>9. FreshInv'
  <2> SUFFICES ASSUME ~overrun PROVE FreshInv'
    BY <1>1 DEF FreshInv
  <2>1. /\ \A i \in Slots : text[i] = 1 => ~Fetched(share[i])
        /\ Found => ~Fetched(share[first_readable])
        /\ sdl \in {"lower", "file"} => text[first_readable] = 0
        /\ \A p \in 1 .. Written : share[SlotOf(p)] # p => Fetched(p)
    BY <1>0 DEF FreshInv
  <2>2. snl' \in {"raise", "mark", "lower"} => ~Fetched(sent')
    BY <1>0, <1>3 DEF FreshInv
  <2>3. snl' \in {"raise", "mark"} => ~Unread(share_file_pointer')
    BY <1>0, <1>3 DEF FreshInv
  <2>4. snl' # "lower"
    BY <1>3
  <2> QED BY <1>1, <1>4, <2>1, <2>2, <2>3, <2>4 DEF FreshInv, Found, Fetched, Unread
<1>10. OrderInv'
  BY <1>0, <1>1 DEF OrderInv, Found
<1>11. FlagInv'
  BY <1>0, <1>3 DEF FlagInv
<1>12. ExactlyOnceUnlessOverrun'
  BY <1>0, <1>1, <1>4 DEF ExactlyOnceUnlessOverrun, Fetched, Unread
<1>13. LatestNeverLost'
  <2>1. \A p \in 1 .. Marked : sent' - p < MAX_NETWORK_SHARE => sent - p < MAX_NETWORK_SHARE
    BY <1>2, <1>3, NetworkShareAssumption
  <2> QED BY <1>0, <1>1, <1>4, <2>1 DEF LatestNeverLost, Fetched, Unread
<1> QED BY <1>6, <1>7, <1>8, <1>9, <1>10, <1>11, <1>12, <1>13 DEF ShareInv

\* SNL writes a file over whatever it holds.
LEMMA WriteStep ==
    ASSUME ShareInv, SnlWriteFile
    PROVE  ShareInv'
<1> DEFINE k == share_file_pointer
<1>0. /\ Types /\ RingInv /\ MarkInv /\ FreshInv /\ OrderInv /\ FlagInv
      /\ ExactlyOnceUnlessOverrun /\ LatestNeverLost
  BY DEF ShareInv
<1>1. /\ UNCHANGED <<text, share_file_pointer, sent, sdl, first_readable, fetched>>
      /\ snl = "file" /\ snl' = "raise"
      /\ share' = [share EXCEPT ![k] = sent]
      /\ overrun' = (overrun \/ Unread(k))
      /\ met' = \/ met
                \/ sdl = "scan" /\ first_readable = k /\ JustFetched
  BY DEF SnlWriteFile, sdlVars
<1>2. /\ sent \in Nat /\ sent > 0 /\ k = SlotOf(sent) /\ k \in Slots
      /\ Written = sent - 1 /\ Written' = sent /\ Marked = sent - 1 /\ Marked' = sent - 1
      /\ share \in [Slots -> Nat] /\ first_readable \in Slots
      /\ MAX_NETWORK_SHARE \in Nat /\ MAX_NETWORK_SHARE > 0
  BY <1>0, <1>1, NetworkShareAssumption DEF Types, RingInv, Written, Marked
<1>3. /\ share'[k] = sent /\ \A i \in Slots : i # k => share'[i] = share[i]
      /\ share' \in [Slots -> Nat]
  BY <1>1, <1>2
<1> HIDE DEF k
<1>4. Types'
  BY <1>0, <1>1, <1>3 DEF Types, SnlPcs, k
<1>5. RingInv'
  <2>1. ASSUME NEW p \in 1 .. sent, sent - p < MAX_NETWORK_SHARE PROVE share'[SlotOf(p)] = p
    <3>1. CASE p = sent
      BY <1>2, <1>3, <3>1
    <3>2. CASE p < sent
      <4>1. SlotOf(p) # k /\ SlotOf(p) \in Slots
        BY <1>2, <2>1, <3>2, LapApart, SlotInTurn
      <4>2. p \in 1 .. Written /\ Written - p < MAX_NETWORK_SHARE
        BY <1>2, <2>1, <3>2
      <4> QED BY <1>0, <1>3, <4>1, <4>2 DEF RingInv
    <3> QED BY <1>2, <3>1, <3>2
  <2>2. ASSUME NEW i \in Slots, share'[i] > 0
        PROVE  share'[i] =< sent /\ SlotOf(share'[i]) = i
    <3>1. CASE i = k
      BY <1>2, <1>3, <3>1
    <3>2. CASE i # k
      <4>1. share[i] =< Written /\ SlotOf(share[i]) = i
        BY <1>0, <1>3, <2>2, <3>2 DEF RingInv
      <4>2. share[i] \in Nat
        BY <1>2
      <4> QED BY <1>2, <1>3, <3>2, <4>1, <4>2
    <3> QED BY <3>1, <3>2
  <2> QED BY <1>1, <1>2, <2>1, <2>2 DEF RingInv, k
<1>6. MarkInv'
  <2>1. ASSUME NEW i \in Slots, share[i] > 0 PROVE share'[i] > 0
    BY <1>2, <1>3, <2>1
  <2>2. ASSUME NEW p \in Nat, Fetched(p) PROVE 0 < p /\ p =< sent
    BY <1>0, <1>2, <2>2 DEF MarkInv
  <2> QED BY <1>0, <1>1, <1>2, <2>1, <2>2 DEF MarkInv, Found, Fetched
<1>7. FreshInv'
  <2> SUFFICES ASSUME ~overrun' PROVE FreshInv'
    BY DEF FreshInv
  <2>1. ~overrun /\ ~Unread(k)
    BY <1>1
  <2>2. text[k] = 0 /\ (Found => first_readable # k)
    BY <1>0, <1>2, <2>1 DEF Unread, Found, Types
  <2>3. ASSUME NEW i \in Slots, text[i] = 1 PROVE ~Fetched(share'[i])
    BY <1>0, <1>3, <2>1, <2>2, <2>3 DEF FreshInv
  <2>4. Found => ~Fetched(share'[first_readable])
    BY <1>0, <1>2, <1>3, <2>1, <2>2 DEF FreshInv
  <2>5. ASSUME NEW p \in 1 .. sent, share'[SlotOf(p)] # p PROVE Fetched(p)
    <3>1. p # sent /\ p \in 1 .. Written /\ p \in 1 .. Marked /\ SlotOf(p) \in Slots
      BY <1>2, <1>3, <2>5, SlotInTurn
    <3>2. CASE SlotOf(p) # k
      BY <1>0, <1>3, <2>1, <2>5, <3>1, <3>2 DEF FreshInv
    <3>3. CASE SlotOf(p) = k
      BY <1>0, <2>1, <3>1, <3>3 DEF ExactlyOnceUnlessOverrun
    <3> QED BY <3>2, <3>3
  <2>6. ~Fetched(sent)
    <3>1. ~(sent =< sent - 1)
      BY <1>2
    <3> QED BY <1>0, <1>2, <3>1 DEF MarkInv
  <2>7. sdl \in {"lower", "file"} => text[first_readable] = 0
    BY <1>0, <2>1 DEF FreshInv
  <2> QED BY <1>1, <1>2, <2>1, <2>3, <2>4, <2>5, <2>6, <2>7 DEF FreshInv, Found, Fetched, Unread, k
<1>8. OrderInv'
  <2> SUFFICES ASSUME ~overrun', ~met' PROVE OrderInv'
    BY DEF OrderInv
  <2>1. /\ ~overrun /\ ~met /\ ~Unread(k)
        /\ ~(sdl = "scan" /\ first_readable = k /\ JustFetched)
    BY <1>1
  <2>2. /\ \A i \in 1 .. Len(fetched) : fetched[i] = i
        /\ Found => share[first_readable] = Len(fetched) + 1
        /\ sdl = "scan" /\ Len(fetched) < Packets =>
             \/ first_readable = SlotOf(Len(fetched) + 1)
             \/ /\ Len(fetched) > 0 /\ first_readable = SlotOf(Len(fetched))
                /\ share[first_readable] = Len(fetched)
    BY <1>0, <2>1 DEF OrderInv
  <2>3. Found => first_readable # k
    BY <2>1 DEF Unread, Found
  <2>4. ASSUME sdl = "scan", Len(fetched) > 0, share[first_readable] = Len(fetched)
        PROVE  first_readable # k
    <3>1. Len(fetched) \in Nat /\ Len(fetched) \in 1 .. Len(fetched)
          /\ DOMAIN fetched = 1 .. Len(fetched)
      BY <1>0, <2>4 DEF Types
    <3>2. fetched[Len(fetched)] = Len(fetched)
      BY <2>2, <3>1
    <3>3. JustFetched
      BY <2>4, <3>1, <3>2 DEF JustFetched, Range
    <3> QED BY <2>1, <2>4, <3>3
  <2> QED BY <1>1, <1>2, <1>3, <2>2, <2>3, <2>4 DEF OrderInv, Found
<1>9. FlagInv'
  BY <1>1 DEF FlagInv
<1>10. ExactlyOnceUnlessOverrun'
  BY <1>0, <1>1, <1>2 DEF ExactlyOnceUnlessOverrun, Fetched, Unread
<1>11. LatestNeverLost'
  BY <1>0, <1>1, <1>2 DEF LatestNeverLost, Fetched, Unread
<1> QED BY <1>4, <1>5, <1>6, <1>7, <1>8, <1>9, <1>10, <1>11 DEF ShareInv

\* SNL marks the slot.
LEMMA MarkStep ==
    ASSUME ShareInv, SnlMark
    PROVE  ShareInv'
<1> DEFINE k == share_file_pointer
<1>0. /\ Types /\ RingInv /\ MarkInv /\ FreshInv /\ OrderInv /\ FlagInv
      /\ ExactlyOnceUnlessOverrun /\ LatestNeverLost
  BY DEF ShareInv
<1>1. /\ UNCHANGED <<share, written2, share_file_pointer, sent, sdl, first_readable, fetched,
                     overrun, met>>
      /\ snl = "mark" /\ snl' = "lower" /\ text' = [text EXCEPT ![k] = 1]
  BY DEF SnlMark, sdlVars
<1>2. /\ k = SlotOf(sent) /\ share[k] = sent /\ sent \in Nat /\ sent > 0 /\ k \in Slots
      /\ Written = sent /\ Written' = sent /\ Marked = sent - 1 /\ Marked' = sent
      /\ text \in [Slots -> {0, 1}] /\ first_readable \in Slots
  BY <1>0, <1>1, LastWritten DEF Types, Written, Marked
<1>3. /\ text'[k] = 1 /\ \A i \in Slots : i # k => text'[i] = text[i]
      /\ text' \in [Slots -> {0, 1}]
  BY <1>1, <1>2
<1>4. Types'
  BY <1>0, <1>1, <1>3 DEF Types, SnlPcs, k
<1> HIDE DEF k
<1>5. RingInv'
  BY <1>0, <1>1, <1>2 DEF RingInv, k
<1>6. MarkInv'
  <2>1. ASSUME NEW i \in Slots, text'[i] = 1 PROVE share[i] > 0
    BY <1>0, <1>2, <1>3, <2>1 DEF MarkInv
  <2> QED BY <1>0, <1>1, <1>2, <2>1 DEF MarkInv, Found, Fetched
<1>7. FreshInv'
  <2> SUFFICES ASSUME ~overrun PROVE FreshInv'
    BY <1>1 DEF FreshInv
  <2>1. ~Fetched(sent) /\ ~Unread(k)
    BY <1>0, <1>1 DEF FreshInv, k
  <2>2. Found => first_readable # k
    BY <2>1 DEF Unread, Found
  <2>3. ASSUME NEW i \in Slots, text'[i] = 1 PROVE ~Fetched(share[i])
    BY <1>0, <1>2, <1>3, <2>1, <2>3 DEF FreshInv
  <2>4. Found => ~Fetched(share[first_readable])
    BY <1>0 DEF FreshInv
  <2>5. sdl \in {"lower", "file"} => text'[first_readable] = 0
    BY <1>0, <1>2, <1>3, <2>2 DEF FreshInv, Found
  <2>6. \A p \in 1 .. Written : share[SlotOf(p)] # p => Fetched(p)
    BY <1>0 DEF FreshInv
  <2> QED BY <1>1, <1>2, <2>1, <2>2, <2>3, <2>4, <2>5, <2>6 DEF FreshInv, Found, Fetched, k
<1>8. OrderInv'
  BY <1>0, <1>1 DEF OrderInv, Found
<1>9. FlagInv'
  BY <1>0, <1>1 DEF FlagInv
<1>10. \A i \in Slots : Unread(i) => Unread(i)'
  <2>1. \A i \in Slots : text[i] = 1 => text'[i] = 1
    BY <1>3
  <2> QED BY <1>1, <2>1 DEF Unread
<1>11. Unread(SlotOf(sent))'
  BY <1>1, <1>2, <1>3 DEF Unread
<1>12. \A p \in 1 .. Marked' : p = sent \/ (p \in 1 .. Marked /\ SlotOf(p) \in Slots)
  BY <1>2, SlotInTurn
<1>13. ExactlyOnceUnlessOverrun'
  <2> SUFFICES ASSUME ~overrun PROVE ExactlyOnceUnlessOverrun'
    BY <1>1 DEF ExactlyOnceUnlessOverrun
  <2>1. IsInjective(fetched) /\ \A p \in 1 .. Marked : Fetched(p) \/ Unread(SlotOf(p))
    BY <1>0 DEF ExactlyOnceUnlessOverrun
  <2>2. ASSUME NEW p \in 1 .. Marked' PROVE Fetched(p)' \/ Unread(SlotOf(p))'
    <3>1. CASE p = sent
      BY <1>1, <1>11, <3>1
    <3>2. CASE p \in 1 .. Marked /\ SlotOf(p) \in Slots
      BY <1>1, <1>10, <2>1, <3>2 DEF Fetched
    <3> QED BY <1>12, <3>1, <3>2
  <2> QED BY <1>1, <2>1, <2>2 DEF ExactlyOnceUnlessOverrun
<1>14. LatestNeverLost'
  <2>1. ASSUME NEW p \in 1 .. Marked', sent - p < MAX_NETWORK_SHARE
        PROVE  Fetched(p)' \/ Unread(SlotOf(p))'
    <3>1. CASE p = sent
      BY <1>1, <1>11, <3>1
    <3>2. CASE p \in 1 .. Marked /\ SlotOf(p) \in Slots
      BY <1>0, <1>1, <1>10, <2>1, <3>2 DEF LatestNeverLost, Fetched
    <3> QED BY <1>12, <3>1, <3>2
  <2> QED BY <1>1, <2>1 DEF LatestNeverLost
<1> QED BY <1>4, <1>5, <1>6, <1>7, <1>8, <1>9, <1>13, <1>14 DEF ShareInv

\* SDL finds a marked slot and goes on to clear the mark.
LEMMA SdlQuietStep ==
    ASSUME ShareInv, SdlPassGate \/ SdlRaise \/ SdlLower
    PROVE  ShareInv'
<1>0. /\ Types /\ RingInv /\ MarkInv /\ FreshInv /\ OrderInv /\ FlagInv
      /\ ExactlyOnceUnlessOverrun /\ LatestNeverLost
  BY DEF ShareInv
<1>1. /\ UNCHANGED <<share, text, written2, snlVars, first_readable, fetched, overrun, met>>
      /\ UNCHANGED <<snl, share_file_pointer, sent>>
      /\ \/ sdl = "gate" /\ sdl' = "raise" /\ written2 = 0
         \/ sdl = "raise" /\ sdl' = "clear"
         \/ sdl = "lower" /\ sdl' = "file"
  BY DEF SdlPassGate, SdlRaise, SdlLower, snlVars
<1>2. Found /\ Found' /\ sdl # "scan" /\ sdl' # "scan"
  BY <1>1 DEF Found
<1>3. Types' /\ RingInv' /\ MarkInv' /\ FlagInv'
  BY <1>0, <1>1, <1>2 DEF Types, SdlPcs, RingInv, MarkInv, FlagInv, Written, Fetched
<1>4. \A i \in Slots : Unread(i)' <=> Unread(i)
  BY <1>1 DEF Unread
<1>5. FreshInv'
  <2> SUFFICES ASSUME ~overrun PROVE FreshInv'
    BY <1>1 DEF FreshInv
  <2>1. snl = "lower" /\ first_readable = share_file_pointer => FALSE
    BY <1>0, <1>1, <1>2 DEF FreshInv, FlagInv
  <2>2. share_file_pointer \in Slots
    BY <1>0 DEF Types
  <2>3. /\ \A i \in Slots : text[i] = 1 => ~Fetched(share[i])
        /\ ~Fetched(share[first_readable])
        /\ sdl \in {"lower", "file"} => text[first_readable] = 0
        /\ \A p \in 1 .. Written : share[SlotOf(p)] # p => Fetched(p)
        /\ snl \in {"raise", "mark", "lower"} => ~Fetched(sent)
        /\ snl \in {"raise", "mark"} => ~Unread(share_file_pointer)
    BY <1>0, <1>2 DEF FreshInv
  <2>4. sdl' \in {"lower", "file"} => text[first_readable] = 0
    BY <1>1, <2>3
  <2>5. snl \in {"raise", "mark"} => ~Unread(share_file_pointer)'
    BY <1>1, <1>4, <2>2, <2>3
  <2> QED BY <1>1, <2>1, <2>3, <2>4, <2>5 DEF FreshInv, Fetched, Written
<1>6. OrderInv'
  BY <1>0, <1>1, <1>2 DEF OrderInv
<1>7. ExactlyOnceUnlessOverrun' /\ LatestNeverLost'
  <2>1. Marked' = Marked
    BY <1>1 DEF Marked
  <2>2. \A p \in 1 .. Marked : SlotOf(p) \in Slots
    <3>1. Marked \in Nat
      BY <1>0 DEF Types, Marked
    <3> QED BY <3>1, SlotInTurn
  <2>3. \A p \in 1 .. Marked : Unread(SlotOf(p))' <=> Unread(SlotOf(p))
    BY <1>4, <2>2
  <2> QED BY <1>0, <1>1, <2>1, <2>3 DEF ExactlyOnceUnlessOverrun, LatestNeverLost, Fetched
<1> QED BY <1>3, <1>5, <1>6, <1>7 DEF ShareInv

\* SDL clears the mark of the slot it has found.
LEMMA ClearStep ==
    ASSUME ShareInv, SdlClearMark
    PROVE  ShareInv'
<1> DEFINE f == first_readable
<1>0. /\ Types /\ RingInv /\ MarkInv /\ FreshInv /\ OrderInv /\ FlagInv
      /\ ExactlyOnceUnlessOverrun /\ LatestNeverLost
  BY DEF ShareInv
<1>1. /\ UNCHANGED <<share, written2, snl, share_file_pointer, sent, first_readable, fetched,
                     overrun, met>>
      /\ sdl = "clear" /\ sdl' = "lower" /\ text' = [text EXCEPT ![f] = 0]
  BY DEF SdlClearMark, snlVars
<1>2. /\ text \in [Slots -> {0, 1}] /\ f \in Slots /\ share_file_pointer \in Slots
      /\ Found /\ Found'
  BY <1>0, <1>1 DEF Types, Found
<1>3. /\ text'[f] = 0 /\ \A i \in Slots : i # f => text'[i] = text[i]
      /\ text' \in [Slots -> {0, 1}]
  BY <1>1, <1>2
<1>4. Types'
  BY <1>0, <1>1, <1>3 DEF Types, SdlPcs, f
<1> HIDE DEF f
<1>5. RingInv' /\ FlagInv'
  BY <1>0, <1>1 DEF RingInv, FlagInv, Written
<1>6. \A i \in Slots : text'[i] = 1 => text[i] = 1
  BY <1>3
<1>7. MarkInv'
  BY <1>0, <1>1, <1>2, <1>6 DEF MarkInv, Fetched, Written
<1>8. \A i \in Slots : Unread(i)' <=> Unread(i)
  BY <1>1, <1>3 DEF Unread, f
<1>9. FreshInv'
  <2> SUFFICES ASSUME ~overrun PROVE FreshInv'
    BY <1>1 DEF FreshInv
  <2>1. /\ \A i \in Slots : text[i] = 1 => ~Fetched(share[i])
        /\ ~Fetched(share[first_readable])
        /\ \A p \in 1 .. Written : share[SlotOf(p)] # p => Fetched(p)
        /\ snl \in {"raise", "mark", "lower"} => ~Fetched(sent)
        /\ snl \in {"raise", "mark"} => ~Unread(share_file_pointer)
        /\ snl = "lower" /\ first_readable = share_file_pointer => sdl = "gate"
    BY <1>0, <1>2 DEF FreshInv
  <2>2. snl \in {"raise", "mark"} => ~Unread(share_file_pointer)'
    BY <1>1, <1>2, <1>8, <2>1
  <2>3. ~(snl = "lower" /\ first_readable = share_file_pointer)
    BY <1>1, <2>1
  <2>4. text'[first_readable] = 0
    BY <1>3 DEF f
  <2> QED BY <1>1, <1>6, <2>1, <2>2, <2>3, <2>4 DEF FreshInv, Fetched, Written
<1>10. OrderInv'
  BY <1>0, <1>1, <1>2 DEF OrderInv
<1>11. ExactlyOnceUnlessOverrun' /\ LatestNeverLost'
  <2>1. Marked' = Marked
    BY <1>1 DEF Marked
  <2>2. \A p \in 1 .. Marked : SlotOf(p) \in Slots
    <3>1. Marked \in Nat
      BY <1>0 DEF Types, Marked
    <3> QED BY <3>1, SlotInTurn
  <2>3. \A p \in 1 .. Marked : Unread(SlotOf(p))' <=> Unread(SlotOf(p))
    BY <1>8, <2>2
  <2> QED BY <1>0, <1>1, <2>1, <2>3 DEF ExactlyOnceUnlessOverrun, LatestNeverLost, Fetched
<1> QED BY <1>4, <1>5, <1>7, <1>9, <1>10, <1>11 DEF ShareInv

\* In order so far: exactly the first packets have been fetched.
LEMMA FirstFetched ==
    ASSUME Types, MarkInv, \A i \in 1 .. Len(fetched) : fetched[i] = i
    PROVE  /\ \A p \in Nat : Fetched(p) <=> p \in 1 .. Len(fetched)
           /\ Len(fetched) \in Nat /\ Written \in Nat /\ Len(fetched) =< Written
           /\ Written =< sent
<1>1. Len(fetched) \in Nat /\ DOMAIN fetched = 1 .. Len(fetched)
  BY DEF Types
<1>2. \A p \in Nat : Fetched(p) <=> p \in 1 .. Len(fetched)
  BY <1>1 DEF Fetched, Range
<1>3. Written \in Nat /\ Written =< sent
  BY DEF Types, Written
<1>4. Len(fetched) =< Written
  <2>1. CASE Len(fetched) = 0
    BY <1>3, <2>1
  <2>2. CASE Len(fetched) # 0
    <3>1. Fetched(Len(fetched))
      BY <1>1, <1>2, <2>2
    <3> QED BY <1>1, <3>1 DEF MarkInv
  <2> QED BY <2>1, <2>2
<1> QED BY <1>1, <1>2, <1>3, <1>4

\* SDL skips a slot that is not marked.
LEMMA SkipStep ==
    ASSUME ShareInv, SdlSkip
    PROVE  ShareInv'
<1> DEFINE f == first_readable
           c == Len(fetched)
<1>0. /\ Types /\ RingInv /\ MarkInv /\ FreshInv /\ OrderInv /\ FlagInv
      /\ ExactlyOnceUnlessOverrun /\ LatestNeverLost
  BY DEF ShareInv
<1>1. /\ UNCHANGED <<share, text, written2, snl, share_file_pointer, sent, sdl, fetched, overrun>>
      /\ sdl = "scan" /\ text[f] = 0 /\ f' = next(f)
      /\ met' = \/ met
                \/ f = share_file_pointer /\ (sent < Packets \/ snl # "read")
  BY DEF SdlSkip, snlVars
<1>2. ~Found /\ ~Found' /\ Written' = Written /\ Marked' = Marked
  BY <1>1 DEF Found, Written, Marked
<1>3. next(f) \in Slots
  <2>1. MAX_NETWORK_SHARE \in Nat /\ MAX_NETWORK_SHARE > 0 /\ f + 1 \in Nat
    BY <1>0, NetworkShareAssumption DEF Types, Slots
  <2> QED BY <2>1, QuotRem DEF next, Slots
<1>4. Types'
  BY <1>0, <1>1, <1>3 DEF Types
<1>5. RingInv' /\ MarkInv' /\ FlagInv'
  BY <1>0, <1>1, <1>2 DEF RingInv, MarkInv, FlagInv, Fetched
<1>6. \A i : (Unread(i) <=> text[i] = 1) /\ (Unread(i)' <=> text[i] = 1)
  BY <1>1 DEF Unread
<1>7. FreshInv'
  BY <1>0, <1>1, <1>2, <1>6 DEF FreshInv, Fetched
<1>8. ExactlyOnceUnlessOverrun' /\ LatestNeverLost'
  BY <1>0, <1>1, <1>2, <1>6 DEF ExactlyOnceUnlessOverrun, LatestNeverLost, Fetched
<1>9. OrderInv'
  <2> SUFFICES ASSUME ~overrun, ~met' PROVE OrderInv'
    BY <1>1 DEF OrderInv
  <2>1. ~met /\ ~(f = share_file_pointer /\ (sent < Packets \/ snl # "read"))
    BY <1>1
  <2>2. /\ \A i \in 1 .. c : fetched[i] = i
        /\ c < Packets => \/ f = SlotOf(c + 1)
                          \/ c > 0 /\ f = SlotOf(c) /\ share[f] = c
    BY <1>0, <1>1, <2>1 DEF OrderInv
  <2>3. /\ \A p \in Nat : Fetched(p) <=> p \in 1 .. c
        /\ c \in Nat /\ Written \in Nat /\ c =< Written /\ Written =< sent
    BY <1>0, <2>2, FirstFetched
  <2> HIDE DEF c, f
  <2>4. ASSUME c < Packets, f = SlotOf(c + 1) PROVE FALSE
    <3>1. sent \in Nat /\ Marked \in Nat /\ snl \in SnlPcs /\ (snl # "read" => sent > 0)
      BY <1>0 DEF Types, Marked
    <3>2. ~Fetched(c + 1) /\ c + 1 > 0
      BY <2>3
    <3>3. Marked =< c
      <4>1. ~Unread(SlotOf(c + 1))
        BY <1>1, <1>6, <2>4
      <4>2. c + 1 \notin 1 .. Marked
        BY <1>0, <3>2, <4>1 DEF ExactlyOnceUnlessOverrun
      <4> QED BY <2>3, <3>1, <4>2
    <3>4. snl \in {"raise", "mark", "lower"} => ~Fetched(sent)
      BY <1>0 DEF FreshInv
    <3>5. snl \in {"raise", "mark", "lower"} => sent \notin 1 .. c
      BY <2>3, <3>1, <3>4
    <3>6. CASE snl = "read"
      <4>1. c = sent
        BY <2>3, <3>1, <3>3, <3>6 DEF Marked
      <4>2. share_file_pointer = SlotOf(c + 1)
        BY <1>0, <3>6, <4>1 DEF RingInv
      <4> QED BY <2>1, <2>4, <4>1, <4>2
    <3>7. CASE snl \in {"gate", "file", "raise", "mark"}
      <4>1. c + 1 = sent
        BY <2>3, <3>1, <3>3, <3>5, <3>7 DEF Marked, Written
      <4>2. share_file_pointer = SlotOf(c + 1)
        BY <1>0, <3>7, <4>1 DEF RingInv
      <4> QED BY <2>1, <2>4, <3>7, <4>2
    <3>8. CASE snl = "lower"
      <4>1. c = sent
        BY <2>3, <3>1, <3>3, <3>8 DEF Marked
      <4> QED BY <2>3, <3>1, <3>5, <3>8, <4>1
    <3> QED BY <3>1, <3>6, <3>7, <3>8 DEF SnlPcs
  <2>5. c < Packets => f' = SlotOf(c + 1)
    <3>1. ASSUME c < Packets, c > 0, f = SlotOf(c) PROVE f' = SlotOf(c + 1)
      BY <1>1, <2>3, <3>1, SlotInTurn DEF f
    <3> QED BY <2>2, <2>4, <3>1
  <2> QED BY <1>1, <1>2, <2>2, <2>5 DEF OrderInv, c, f
<1> QED BY <1>4, <1>5, <1>7, <1>8, <1>9 DEF ShareInv

\* SDL stops at a marked slot.
LEMMA FindStep ==
    ASSUME ShareInv, SdlFind
    PROVE  ShareInv'
<1> DEFINE f == first_readable
           c == Len(fetched)
<1>0. /\ Types /\ RingInv /\ MarkInv /\ FreshInv /\ OrderInv /\ FlagInv
      /\ ExactlyOnceUnlessOverrun /\ LatestNeverLost
  BY DEF ShareInv
<1>1. /\ UNCHANGED <<share, text, written2, snl, share_file_pointer, sent, f, fetched,
                     overrun, met>>
      /\ sdl = "scan" /\ text[f] = 1 /\ sdl' = "gate"
  BY DEF SdlFind, snlVars
<1>2. ~Found /\ Found' /\ Written' = Written /\ Marked' = Marked
  BY <1>1 DEF Found, Written, Marked
<1>3. f \in Slots /\ share[f] \in Nat /\ share[f] > 0 /\ share[f] =< Written
  BY <1>0, <1>1 DEF Types, MarkInv, RingInv
<1>4. Types'
  BY <1>0, <1>1 DEF Types, SdlPcs
<1>5. RingInv' /\ MarkInv' /\ FlagInv'
  BY <1>0, <1>1, <1>2, <1>3 DEF RingInv, MarkInv, FlagInv, Fetched
<1>6. \A i : (Unread(i) <=> text[i] = 1) /\ (Unread(i)' <=> text[i] = 1)
  BY <1>1 DEF Unread
<1>7. FreshInv'
  BY <1>0, <1>1, <1>2, <1>3, <1>6 DEF FreshInv, Fetched
<1>8. ExactlyOnceUnlessOverrun' /\ LatestNeverLost'
  BY <1>0, <1>1, <1>2, <1>6 DEF ExactlyOnceUnlessOverrun, LatestNeverLost, Fetched
<1>9. OrderInv'
  <2> SUFFICES ASSUME ~overrun, ~met PROVE OrderInv'
    BY <1>1 DEF OrderInv
  <2>1. /\ \A i \in 1 .. c : fetched[i] = i
        /\ c < Packets => \/ f = SlotOf(c + 1)
                          \/ c > 0 /\ f = SlotOf(c) /\ share[f] = c
    BY <1>0, <1>1 DEF OrderInv
  <2>2. /\ \A p \in Nat : Fetched(p) <=> p \in 1 .. c
        /\ c \in Nat /\ Written \in Nat /\ c =< Written /\ Written =< sent
    BY <1>0, <2>1, FirstFetched
  <2>3. ~Fetched(share[f]) /\ \A p \in 1 .. Written : share[SlotOf(p)] # p => Fetched(p)
    BY <1>0, <1>1, <1>3 DEF FreshInv
  <2>4. sent =< Packets /\ sent \in Nat /\ Packets \in Nat
    BY <1>0, NetworkShareAssumption DEF Types
  <2> HIDE DEF c, f
  <2>5. c < share[f] /\ c < Packets /\ c + 1 \in 1 .. Written /\ ~Fetched(c + 1)
    BY <1>3, <2>2, <2>3, <2>4
  <2>6. share[f] = c + 1
    <3>1. CASE f = SlotOf(c + 1)
      BY <2>3, <2>5, <3>1
    <3>2. CASE share[f] = c
      BY <2>2, <2>5, <3>2
    <3> QED BY <2>1, <2>5, <3>1, <3>2
  <2> QED BY <1>1, <2>1, <2>6 DEF OrderInv, c, f
<1> QED BY <1>4, <1>5, <1>7, <1>8, <1>9 DEF ShareInv

\* SDL reads the file, whose mark it has cleared: the packet is fetched.
LEMMA ReadStep ==
    ASSUME ShareInv, SdlReadFile
    PROVE  ShareInv'
<1> DEFINE f == first_readable
           c == Len(fetched)
           x == share[f]
<1>0. /\ Types /\ RingInv /\ MarkInv /\ FreshInv /\ OrderInv /\ FlagInv
      /\ ExactlyOnceUnlessOverrun /\ LatestNeverLost
  BY DEF ShareInv
<1>1. /\ UNCHANGED <<share, text, written2, snl, share_file_pointer, sent, f, overrun, met>>
      /\ sdl = "file" /\ sdl' = "scan" /\ fetched' = Append(fetched, x)
  BY DEF SdlReadFile, snlVars
<1>2. Found /\ ~Found' /\ Written' = Written /\ Marked' = Marked
  BY <1>1 DEF Found, Written, Marked
<1>3. f \in Slots /\ x \in Nat /\ x > 0 /\ x =< Written /\ SlotOf(x) = f /\ fetched \in Seq(Nat)
  BY <1>0, <1>2 DEF Types, MarkInv, RingInv
<1> HIDE DEF x
<1>4. /\ fetched' \in Seq(Nat) /\ Len(fetched') = c + 1 /\ c \in Nat
      /\ \A i \in 1 .. c : fetched'[i] = fetched[i]
      /\ fetched'[c + 1] = x
      /\ Range(fetched') = Range(fetched) \cup {x}
      /\ IsInjective(fetched) /\ x \notin Range(fetched) => IsInjective(fetched')
  BY <1>1, <1>3, Longer
<1>5. \A p : Fetched(p)' <=> (Fetched(p) \/ p = x)
  BY <1>4 DEF Fetched
<1>6. Types'
  BY <1>0, <1>1, <1>4 DEF Types, SdlPcs
<1>7. RingInv' /\ FlagInv'
  BY <1>0, <1>1, <1>2 DEF RingInv, FlagInv
<1>8. MarkInv'
  BY <1>0, <1>1, <1>2, <1>3, <1>5 DEF MarkInv
<1>9. \A i : (Unread(i)' <=> text[i] = 1) /\ (Unread(i) <=> text[i] = 1 \/ f = i)
  BY <1>1 DEF Unread
<1>10. FreshInv'
  <2> SUFFICES ASSUME ~overrun PROVE FreshInv'
    BY <1>1 DEF FreshInv
  <2>1. /\ \A i \in Slots : text[i] = 1 => ~Fetched(share[i])
        /\ text[f] = 0
        /\ \A p \in 1 .. Written : share[SlotOf(p)] # p => Fetched(p)
        /\ snl \in {"raise", "mark", "lower"} => ~Fetched(sent)
        /\ snl \in {"raise", "mark"} => ~Unread(share_file_pointer)
        /\ ~(snl = "lower" /\ f = share_file_pointer)
    BY <1>0, <1>1, <1>2 DEF FreshInv
  <2>2. ASSUME NEW i \in Slots, text[i] = 1 PROVE ~Fetched(share[i])'
    <3>1. i # f /\ share[i] > 0
      BY <1>0, <2>1, <2>2 DEF MarkInv
    <3>2. SlotOf(share[i]) = i
      BY <1>0, <3>1 DEF RingInv
    <3> QED BY <1>1, <1>3, <1>5, <2>1, <2>2, <3>1, <3>2
  <2>3. snl \in {"raise", "mark", "lower"} => ~Fetched(sent)'
    <3> SUFFICES ASSUME snl \in {"raise", "mark", "lower"}, x = sent PROVE FALSE
      BY <1>1, <1>5, <2>1
    <3>1. share_file_pointer = f
      BY <1>3, LastWritten
    <3> QED BY <1>9, <2>1, <3>1
  <2>4. snl \in {"raise", "mark"} => ~Unread(share_file_pointer)'
    BY <1>1, <1>9, <2>1
  <2>5. \A p \in 1 .. Written : share[SlotOf(p)] # p => Fetched(p)'
    BY <1>5, <2>1
  <2> QED BY <1>1, <1>2, <2>2, <2>3, <2>4, <2>5 DEF FreshInv
<1>11. OrderInv'
  <2> SUFFICES ASSUME ~overrun, ~met PROVE OrderInv'
    BY <1>1 DEF OrderInv
  <2>1. x = c + 1 /\ \A i \in 1 .. c : fetched[i] = i
    BY <1>0, <1>2 DEF OrderInv, x
  <2> HIDE DEF c, f
  <2>2. \A i \in 1 .. c + 1 : fetched'[i] = i
    BY <1>4, <2>1
  <2>3. f = SlotOf(c + 1) /\ share[f] = c + 1 /\ c + 1 > 0
    BY <1>3, <1>4, <2>1 DEF x
  <2> QED BY <1>1, <1>2, <1>4, <2>2, <2>3 DEF OrderInv, f
<1>12. 1 .. Marked \subseteq 1 .. Written
  BY <1>0 DEF Types, Marked, Written
<1>13. ExactlyOnceUnlessOverrun'
  <2> SUFFICES ASSUME ~overrun PROVE ExactlyOnceUnlessOverrun'
    BY <1>1 DEF ExactlyOnceUnlessOverrun
  <2>1. /\ ~Fetched(x) /\ \A p \in 1 .. Written : share[SlotOf(p)] # p => Fetched(p)
    BY <1>0, <1>2 DEF FreshInv, x
  <2>2. IsInjective(fetched')
    BY <1>0, <1>4, <2>1 DEF ExactlyOnceUnlessOverrun, Fetched
  <2>3. ASSUME NEW p \in 1 .. Marked PROVE Fetched(p)' \/ Unread(SlotOf(p))'
    <3>1. Fetched(p) \/ text[SlotOf(p)] = 1 \/ f = SlotOf(p)
      BY <1>0, <1>9 DEF ExactlyOnceUnlessOverrun
    <3>2. f = SlotOf(p) => p = x \/ Fetched(p)
      BY <1>12, <2>1 DEF x
    <3> QED BY <1>5, <1>9, <3>1, <3>2
  <2> QED BY <1>2, <2>2, <2>3 DEF ExactlyOnceUnlessOverrun
<1>14. LatestNeverLost'
  <2>1. ASSUME NEW p \in 1 .. Marked, sent - p < MAX_NETWORK_SHARE
        PROVE  Fetched(p)' \/ Unread(SlotOf(p))'
    <3>1. Fetched(p) \/ text[SlotOf(p)] = 1 \/ f = SlotOf(p)
      BY <1>0, <1>9, <2>1 DEF LatestNeverLost
    <3>2. Written =< sent /\ Written \in Nat /\ sent \in Nat
      BY <1>0 DEF Types, Written
    <3>3. p \in 1 .. Written /\ Written - p < MAX_NETWORK_SHARE
      BY <1>12, <2>1, <3>2, NetworkShareAssumption
    <3>4. f = SlotOf(p) => p = x
      BY <1>0, <3>3 DEF RingInv, x
    <3> QED BY <1>5, <1>9, <3>1, <3>4
  <2> QED BY <1>1, <1>2, <2>1 DEF LatestNeverLost
<1> QED BY <1>6, <1>7, <1>8, <1>10, <1>11, <1>13, <1>14 DEF ShareInv
-----------------------------------------------------------------------------
LEMMA ShareStep ==
    ASSUME ShareInv, [Next]_vars
    PROVE  ShareInv'
<1>1. CASE Snl
  BY <1>1, SnlQuietStep, WriteStep, MarkStep DEF Snl
<1>2. CASE Sdl
  BY <1>2, SdlQuietStep, ClearStep, SkipStep, FindStep, ReadStep DEF Sdl
<1>3. CASE UNCHANGED vars
  <2>1. UNCHANGED <<share, text, written2, snl, share_file_pointer, sent, sdl, first_readable,
                    fetched, overrun, met>>
    BY <1>3 DEF vars, snlVars, sdlVars
  <2> QED BY <2>1 DEF ShareInv, Types, RingInv, MarkInv, FreshInv, OrderInv, FlagInv, Found,
                      Written, Fetched, Unread, Marked, ExactlyOnceUnlessOverrun, LatestNeverLost
<1> QED BY <1>1, <1>2, <1>3 DEF Next

\* For every number of packets and of share files (03/sender3.c, SNL and from_network_layer):
\* SNL fills the files in turn, what a marked file holds was written and, without overrun, not
\* fetched yet.
THEOREM Inductive == Safety => []ShareInv
  BY ShareInit, ShareStep, PTL DEF Safety

\* A packet that is less than a lap old is fetched or still to be read, overrun or not:
\* from_network_layer clears the mark before it reads the file, never the other way round.
THEOREM LatestKept == Safety => []LatestNeverLost
<1>1. ShareInv => LatestNeverLost
  BY DEF ShareInv
<1> QED BY Inductive, <1>1, PTL

\* While SNL replaces no packet that is still to be read, from_network_layer returns no packet
\* twice and every packet whose file was marked is returned or still to be read.
THEOREM OnceUnlessOverrun == Safety => []ExactlyOnceUnlessOverrun
<1>1. ShareInv => ExactlyOnceUnlessOverrun
  BY DEF ShareInv
<1> QED BY Inductive, <1>1, PTL

\* If moreover neither process passes the other at a slot (from_network_layer walking past the
\* file SNL fills next, SNL refilling the one just read), the packets come in the order of the
\* source file.
THEOREM OrderUnlessMet == Safety => []InOrderUnlessMet
<1>1. ShareInv => InOrderUnlessMet
  BY DEF ShareInv, OrderInv, InOrderUnlessMet
<1> QED BY Inductive, <1>1, PTL
=============================================================================
