--------------------------- MODULE Protocol4Proofs ---------------------------
(***************************************************************************)
(* Proofs, for every number of packets on either side and every socket     *)
(* capacity, that protocol 4 hands the packets of both hosts over exactly  *)
(* once and in order, that each direction implements DataLinkService with  *)
(* a window of one packet, and that the two hosts move on in step.         *)
(***************************************************************************)
EXTENDS Protocol4, TLAPS

Bit == {0, 1}
SdlPcs == {"start", "post", "signal", "wait", "read", "fetch"}

\* A frame of a packet carries the number of the packet: they alternate, 0 for the first.
Frame == {f \in [seq : Bit, ack : Bit, info : Nat \ {0}] : f.seq = (f.info + 1) % 2}
File == Frame \cup {NoFrame}

\* How many packets a frame says its sender has accepted.  A sender is at most one packet
\* ahead of what it has accepted, so the bit of the acknowledgement tells.
Taken(f) == IF f.ack = f.seq THEN f.info ELSE f.info - 1

Types == /\ sdl \in [Hosts -> SdlPcs] /\ buffer \in [Hosts -> Nat]
         /\ next_frame_to_send \in [Hosts -> Bit] /\ frame_expected \in [Hosts -> Bit]
         /\ delivered \in [Hosts -> Seq(Nat)]
         /\ sdl_to_spl_pkg \in [Hosts -> File] /\ spl_to_sdl \in [Hosts -> File]
         /\ frames \in [Hosts -> Seq(File)]

Older(f, g) == f.info =< g.info /\ Taken(f) =< Taken(g)

\* What h has fetched and what its peer was given of it, and the numbers h goes by.
Counts(h) ==
    /\ \A i \in 1 .. Len(delivered[h]) : delivered[h][i] = i
    /\ Len(delivered[Peer(h)]) =< buffer[h] /\ buffer[h] =< Len(delivered[Peer(h)]) + 1
    /\ next_frame_to_send[h] = IF buffer[h] = 0 THEN 0 ELSE (buffer[h] + 1) % 2
    /\ frame_expected[h] = Len(delivered[h]) % 2
    /\ sdl[h] = "start" <=> buffer[h] = 0

\* h has accepted the packet of its peer with the number of its own, or the one before;
\* when its own is acknowledged and the next not fetched, that one or the one after.
Lead(h) ==
    IF sdl[h] = "fetch"
      THEN /\ Len(delivered[h]) - buffer[h] \in Bit
           /\ Taken(spl_to_sdl[h]) = buffer[h]
      ELSE buffer[h] - Len(delivered[h]) \in Bit

\* The frames of h, from the file its peer reads along the socket back to its own file,
\* get younger and no younger than h is; the oldest is of what the peer accepted last, and
\* acknowledges all the peer has sent but the packet it is sending.
Pipe(h) ==
    LET p == Peer(h) IN
    /\ Len(delivered[p]) =< spl_to_sdl[p].info
    /\ buffer[p] =< Taken(spl_to_sdl[p]) + 1
    /\ Older(spl_to_sdl[p], sdl_to_spl_pkg[h])
    /\ \A i \in 1 .. Len(frames[h]) : /\ Older(spl_to_sdl[p], frames[h][i])
                                      /\ Older(frames[h][i], sdl_to_spl_pkg[h])
    /\ \A i, j \in 1 .. Len(frames[h]) : i < j => Older(frames[h][i], frames[h][j])
    /\ sdl_to_spl_pkg[h].info =< buffer[h]
    /\ Taken(sdl_to_spl_pkg[h]) =< Len(delivered[h])

WindowInv == Types /\ \A h \in Hosts : Counts(h) /\ Lead(h) /\ Pipe(h)
-----------------------------------------------------------------------------
LEMMA Peers == \A h \in Hosts : /\ Peer(h) \in Hosts /\ Peer(h) # h /\ Peer(Peer(h)) = h
                                /\ \A g \in Hosts : g = h \/ g = Peer(h)
  BY DEF Hosts, Peer

\* The bits of neighbouring numbers differ.
LEMMA Bits == \A n \in Nat : /\ n % 2 \in Bit /\ (n + 1) % 2 = 1 - (n % 2)
                             /\ (n + 2) % 2 = n % 2
  BY SMT DEF Bit

LEMMA Files ==
    ASSUME NEW f \in File
    PROVE  /\ f.info \in Nat /\ Taken(f) \in Nat
           /\ f.info - Taken(f) \in Bit
           /\ f.seq \in Bit => f.info > 0 /\ f.seq = (f.info + 1) % 2
           /\ f.ack \in Bit => f.info > 0 /\ f.ack = (Taken(f) + 1) % 2
           /\ f.seq \notin Bit => f.info = 0
           /\ f.ack \notin Bit => Taken(f) = 0
<1>1. CASE f = NoFrame
  BY <1>1, SMT DEF NoFrame, Taken, Bit
<1>2. CASE f \in Frame
  <2>1. /\ f.seq \in Bit /\ f.ack \in Bit /\ f.info \in Nat /\ f.info > 0
        /\ f.seq = (f.info + 1) % 2
    BY <1>2 DEF Frame
  <2>2. PICK n \in Nat : f.info = n + 1
    BY <2>1
  <2>3. f.seq = n % 2 /\ (n + 1) % 2 = 1 - (n % 2)
    BY <2>1, <2>2, Bits
  <2>4. CASE f.ack = f.seq
    BY <2>1, <2>4 DEF Taken, Bit
  <2>5. CASE f.ack # f.seq
    <3>1. Taken(f) = n /\ f.ack = 1 - f.seq
      BY <2>1, <2>2, <2>5 DEF Taken, Bit
    <3> QED BY <2>1, <2>2, <2>3, <3>1 DEF Bit
  <2> QED BY <2>4, <2>5
<1> QED BY <1>1, <1>2 DEF File

\* What read() takes off the front of a queue, and what it leaves.
LEMMA FrontAndRest ==
    ASSUME NEW S, NEW q \in Seq(S), q # << >>
    PROVE  /\ Head(q) \in S /\ Head(q) = q[1] /\ Len(q) >= 1 /\ Len(q) \in Nat
           /\ Tail(q) \in Seq(S) /\ Len(Tail(q)) = Len(q) - 1
           /\ \A i \in 1 .. Len(Tail(q)) : Tail(q)[i] = q[i + 1]
  OBVIOUS

\* What write() puts at the end of a queue.
LEMMA Written ==
    ASSUME NEW S, NEW q \in Seq(S), NEW x \in S
    PROVE  /\ Append(q, x) \in Seq(S) /\ Len(Append(q, x)) = Len(q) + 1 /\ Len(q) \in Nat
           /\ \A i \in 1 .. Len(q) : Append(q, x)[i] = q[i]
           /\ Append(q, x)[Len(q) + 1] = x
  OBVIOUS

\* The numbers the arithmetic below is about.
LEMMA Scalars ==
    ASSUME WindowInv, NEW h \in Hosts
    PROVE  /\ buffer[h] \in Nat /\ Len(delivered[h]) \in Nat /\ delivered[h] \in Seq(Nat)
           /\ next_frame_to_send[h] \in Bit /\ frame_expected[h] \in Bit
           /\ sdl_to_spl_pkg[h] \in File /\ spl_to_sdl[h] \in File
           /\ frames[h] \in Seq(File) /\ Len(frames[h]) \in Nat
           /\ \A i \in 1 .. Len(frames[h]) : frames[h][i] \in File
           /\ Counts(h) /\ Lead(h) /\ Pipe(h)
  BY DEF WindowInv, Types
\* A direction whose frames stay where they are.
LEMMA PipeKept ==
    ASSUME NEW h, Pipe(h),
           sdl_to_spl_pkg'[h] = sdl_to_spl_pkg[h], frames'[h] = frames[h],
           spl_to_sdl'[Peer(h)] = spl_to_sdl[Peer(h)],
           Len(delivered'[Peer(h)]) =< spl_to_sdl[Peer(h)].info,
           buffer'[Peer(h)] =< Taken(spl_to_sdl[Peer(h)]) + 1,
           sdl_to_spl_pkg[h].info =< buffer'[h],
           Taken(sdl_to_spl_pkg[h]) =< Len(delivered'[h])
    PROVE  Pipe(h)'
  BY DEF Pipe
-----------------------------------------------------------------------------
\* Steps that only move a process on, or set or clear a flag.
LEMMA LocalStep ==
    ASSUME WindowInv,
           UNCHANGED <<buffer, next_frame_to_send, frame_expected, delivered, sdl_to_spl_pkg,
                       frames, spl_to_sdl>>,
           sdl' \in [Hosts -> SdlPcs],
           \A h \in Hosts : /\ sdl'[h] = "start" <=> sdl[h] = "start"
                            /\ sdl'[h] = "fetch" <=> sdl[h] = "fetch"
    PROVE  WindowInv'
<1>1. Types'
  BY DEF WindowInv, Types
<1>2. ASSUME NEW h \in Hosts PROVE (Counts(h) /\ Lead(h) /\ Pipe(h))'
  <2>1. Counts(h) /\ Lead(h) /\ Pipe(h)
    BY DEF WindowInv
  <2>2. Counts(h)'
    BY <2>1 DEF Counts
  <2>3. Lead(h)'
    BY <2>1 DEF Lead, Taken
  <2>4. Pipe(h)'
    BY <2>1 DEF Pipe
  <2> QED BY <2>2, <2>3, <2>4
<1> QED BY <1>1, <1>2 DEF WindowInv

\* A packet is fetched when the one before it was accepted.
LEMMA FetchStep ==
    ASSUME WindowInv, NEW h \in Hosts, SdlFirstPacket(h) \/ SdlNextPacket(h)
    PROVE  WindowInv' /\ Len(delivered[Peer(h)]) = buffer[h]
<1> DEFINE p == Peer(h)
<1>0. p \in Hosts /\ p # h /\ Peer(p) = h /\ \A g \in Hosts : g = h \/ g = p
  BY Peers
<1>1. /\ buffer' = [buffer EXCEPT ![h] = buffer[h] + 1]
      /\ sdl' = [sdl EXCEPT ![h] = "post"] /\ sdl[h] \in {"start", "fetch"}
      /\ UNCHANGED <<frame_expected, delivered, sdl_to_spl_pkg, frames, spl_to_sdl>>
  BY DEF SdlFirstPacket, SdlNextPacket, SdlGoto
<1>2. next_frame_to_send' = IF sdl[h] = "start" THEN next_frame_to_send
                            ELSE [next_frame_to_send EXCEPT ![h] = 1 - next_frame_to_send[h]]
  BY Scalars DEF SdlFirstPacket, SdlNextPacket, inc, MAX_SEQ, Bit
<1>3. /\ buffer[h] \in Nat /\ Len(delivered[h]) \in Nat /\ Len(delivered[p]) \in Nat
      /\ buffer[p] \in Nat /\ next_frame_to_send[h] \in Bit
      /\ spl_to_sdl[h] \in File /\ spl_to_sdl[p] \in File /\ sdl_to_spl_pkg[p] \in File
      /\ sdl_to_spl_pkg[h] \in File
      /\ Counts(h) /\ Lead(h) /\ Pipe(h) /\ Counts(p) /\ Lead(p) /\ Pipe(p)
  BY <1>0, Scalars
<1>4. /\ Taken(spl_to_sdl[h]) \in Nat /\ Taken(sdl_to_spl_pkg[p]) \in Nat
      /\ sdl_to_spl_pkg[h].info \in Nat
  BY <1>3, Files
<1>5. Len(delivered[p]) = buffer[h] /\ Taken(spl_to_sdl[h]) >= buffer[h]
  <2>1. CASE sdl[h] = "start"
    BY <1>3, <1>4, <2>1 DEF Counts
  <2>2. CASE sdl[h] = "fetch"
    <3>1. Taken(spl_to_sdl[h]) = buffer[h]
      BY <1>3, <2>2 DEF Lead
    <3>2. Taken(spl_to_sdl[h]) =< Len(delivered[p])
      BY <1>0, <1>3, <1>4 DEF Pipe, Older
    <3> QED BY <1>3, <3>1, <3>2 DEF Counts
  <2> QED BY <1>1, <2>1, <2>2
<1>6. buffer[h] + 1 - Len(delivered[h]) \in Bit
  <2>1. CASE sdl[h] = "start"
    <3>1. buffer[h] = 0 /\ buffer[h] - Len(delivered[h]) \in Bit
      BY <1>3, <2>1 DEF Counts, Lead
    <3> QED BY <1>3, <3>1 DEF Bit
  <2>2. CASE sdl[h] = "fetch"
    BY <1>3, <2>2 DEF Lead, Bit
  <2> QED BY <1>1, <2>1, <2>2
<1>7. next_frame_to_send'[h] = ((buffer[h] + 1) + 1) % 2
  <2>0. (buffer[h] + 1) + 1 = buffer[h] + 2
    BY <1>3
  <2>1. CASE sdl[h] = "start"
    <3>1. buffer[h] = 0 /\ next_frame_to_send'[h] = 0
      BY <1>2, <1>3, <2>1 DEF Counts
    <3>2. (0 + 2) % 2 = 0
      BY SMT
    <3> QED BY <2>0, <3>1, <3>2
  <2>2. CASE sdl[h] = "fetch"
    <3>1. /\ next_frame_to_send'[h] = 1 - next_frame_to_send[h]
      BY <1>2, <2>2 DEF WindowInv, Types
    <3>2. next_frame_to_send[h] = (buffer[h] + 1) % 2
      BY <1>3, <2>2 DEF Counts
    <3>3. /\ (buffer[h] + 1) % 2 = 1 - (buffer[h] % 2) /\ buffer[h] % 2 \in Bit
          /\ (buffer[h] + 2) % 2 = buffer[h] % 2
      BY <1>3, Bits
    <3> QED BY <2>0, <3>1, <3>2, <3>3 DEF Bit
  <2> QED BY <1>1, <2>1, <2>2
<1>8. /\ buffer'[h] = buffer[h] + 1 /\ buffer'[p] = buffer[p]
      /\ sdl'[h] = "post" /\ sdl'[p] = sdl[p]
      /\ next_frame_to_send'[p] = next_frame_to_send[p]
  BY <1>0, <1>1, <1>2 DEF WindowInv, Types
<1>9. Types'
  <2>1. /\ sdl' \in [Hosts -> SdlPcs] /\ buffer' \in [Hosts -> Nat]
        /\ next_frame_to_send' \in [Hosts -> Bit]
    BY <1>1, <1>2, <1>3 DEF WindowInv, Types, SdlPcs, Bit
  <2> QED BY <1>1, <2>1 DEF WindowInv, Types
<1>10. Counts(h)' /\ Counts(p)'
  <2>1. Counts(h)'
    <3>1. buffer'[h] # 0 /\ buffer'[h] =< Len(delivered[p]) + 1
          /\ Len(delivered[p]) =< buffer'[h]
      BY <1>3, <1>5, <1>8
    <3>2. /\ \A i \in 1 .. Len(delivered[h]) : delivered[h][i] = i
          /\ frame_expected[h] = Len(delivered[h]) % 2
      BY <1>3 DEF Counts
    <3>3. next_frame_to_send'[h] = (buffer'[h] + 1) % 2
      BY <1>7, <1>8
    <3>4. sdl'[h] # "start"
      BY <1>8
    <3> QED BY <1>1, <3>1, <3>2, <3>3, <3>4 DEF Counts
  <2>2. Counts(p)'
    <3>1. Peer(p) = h /\ Counts(p)
      BY <1>0, <1>3
    <3> HIDE DEF p
    <3> QED BY <1>1, <1>8, <3>1 DEF Counts
  <2> QED BY <2>1, <2>2
<1>11. Lead(h)' /\ Lead(p)'
  BY <1>0, <1>1, <1>3, <1>6, <1>8 DEF Lead, Taken
<1>12. Pipe(h)' /\ Pipe(p)'
  <2>1. Pipe(h)'
    <3>1. /\ Len(delivered[p]) =< spl_to_sdl[p].info /\ buffer[p] =< Taken(spl_to_sdl[p]) + 1
          /\ sdl_to_spl_pkg[h].info =< buffer[h] + 1
          /\ Taken(sdl_to_spl_pkg[h]) =< Len(delivered[h])
      BY <1>3, <1>4 DEF Pipe
    <3> QED BY <1>1, <1>3, <1>8, <3>1, PipeKept
  <2>2. buffer'[h] =< Taken(spl_to_sdl[h]) + 1
    BY <1>3, <1>4, <1>5, <1>8
  <2>3. Pipe(p)'
    <3>1. /\ Len(delivered[h]) =< spl_to_sdl[h].info /\ sdl_to_spl_pkg[p].info =< buffer[p]
          /\ Taken(sdl_to_spl_pkg[p]) =< Len(delivered[p])
      BY <1>0, <1>3 DEF Pipe
    <3> HIDE DEF p
    <3> QED BY <1>0, <1>1, <1>3, <1>8, <2>2, <3>1, PipeKept
  <2> QED BY <2>1, <2>3
<1>13. WindowInv'
  BY <1>0, <1>9, <1>10, <1>11, <1>12 DEF WindowInv
<1> QED BY <1>5, <1>13

\* What SDL posts is of its packet and acknowledges what it has accepted.
LEMMA PostStep ==
    ASSUME WindowInv, NEW h \in Hosts, SdlPost(h)
    PROVE  WindowInv'
<1> DEFINE p == Peer(h)
           b == buffer[h]
           d == Len(delivered[h])
           f == [seq |-> next_frame_to_send[h], ack |-> 1 - frame_expected[h], info |-> b]
<1>0. p = Peer(h) /\ p \in Hosts /\ p # h /\ Peer(p) = h /\ \A g \in Hosts : g = h \/ g = p
  BY Peers
<1>1. /\ sdl_to_spl_pkg' = [sdl_to_spl_pkg EXCEPT ![h] = f]
      /\ sdl' = [sdl EXCEPT ![h] = "signal"] /\ sdl[h] = "post"
      /\ UNCHANGED <<buffer, next_frame_to_send, frame_expected, delivered, frames, spl_to_sdl>>
  BY DEF SdlPost, SdlGoto
<1>2. /\ b \in Nat /\ d \in Nat
      /\ next_frame_to_send[h] \in Bit /\ frame_expected[h] \in Bit
      /\ Counts(h) /\ Lead(h) /\ Pipe(h) /\ Counts(p) /\ Lead(p) /\ Pipe(p)
  BY <1>0, Scalars
<1>3. /\ b # 0 /\ next_frame_to_send[h] = (b + 1) % 2 /\ frame_expected[h] = d % 2
      /\ b - d \in Bit
  BY <1>1, <1>2 DEF Counts, Lead
<1>4. f \in Frame
  <2>1. 1 - frame_expected[h] \in Bit
    BY <1>2 DEF Bit
  <2> QED BY <1>2, <1>3, <2>1 DEF Frame
<1>5. f.info = b /\ Taken(f) = d
  <2>0. f.info = b /\ f.seq = (b + 1) % 2 /\ f.ack = 1 - (d % 2)
    BY <1>3
  <2> HIDE DEF f
  <2>1. /\ (d + 1) % 2 = 1 - (d % 2) /\ (d + 2) % 2 = d % 2 /\ d % 2 \in Bit
    BY <1>2, Bits
  <2>2. CASE b = d
    BY <2>0, <2>1, <2>2 DEF Taken
  <2>3. CASE b = d + 1
    <3> HIDE DEF b, d
    <3>1. b + 1 = d + 2 /\ b - 1 = d
      BY <1>2, <2>3
    <3>2. f.seq = d % 2 /\ f.ack # f.seq
      BY <2>0, <2>1, <3>1 DEF Bit
    <3> QED BY <2>0, <3>1, <3>2 DEF Taken
  <2> QED BY <1>2, <1>3, <2>2, <2>3 DEF Bit
<1> HIDE DEF f, b, d
<1>6. /\ sdl_to_spl_pkg'[h] = f /\ sdl_to_spl_pkg'[p] = sdl_to_spl_pkg[p]
      /\ sdl'[h] = "signal" /\ sdl'[p] = sdl[p]
  BY <1>0, <1>1 DEF WindowInv, Types
<1>7. Types'
  <2>1. sdl_to_spl_pkg' \in [Hosts -> File] /\ sdl' \in [Hosts -> SdlPcs]
    BY <1>1, <1>4 DEF WindowInv, Types, SdlPcs, File
  <2> QED BY <1>1, <2>1 DEF WindowInv, Types
<1>8. Counts(h)' /\ Counts(p)'
  BY <1>0, <1>1, <1>2, <1>6 DEF Counts
<1>9. Lead(h)' /\ Lead(p)'
  BY <1>1, <1>2, <1>6 DEF Lead, Taken
<1>10. ASSUME NEW g \in File, Older(g, sdl_to_spl_pkg[h]) PROVE Older(g, f)
  <2>1. /\ g.info \in Nat /\ Taken(g) \in Nat
        /\ sdl_to_spl_pkg[h].info \in Nat /\ Taken(sdl_to_spl_pkg[h]) \in Nat
    BY Files, Scalars
  <2>2. sdl_to_spl_pkg[h].info =< b /\ Taken(sdl_to_spl_pkg[h]) =< d
    BY <1>2 DEF Pipe, b, d
  <2> QED BY <1>2, <1>5, <1>10, <2>1, <2>2 DEF Older
<1>11. Pipe(h)'
  <2>1. spl_to_sdl[p] \in File /\ \A i \in 1 .. Len(frames[h]) : frames[h][i] \in File
    BY <1>0, Scalars
  <2>2. /\ Older(spl_to_sdl[p], f)
        /\ \A i \in 1 .. Len(frames[h]) : Older(frames[h][i], f)
    BY <1>0, <1>2, <1>10, <2>1 DEF Pipe
  <2>3. f.info =< b /\ Taken(f) =< d
    BY <1>2, <1>5
  <2>4. /\ Len(delivered[p]) =< spl_to_sdl[p].info /\ buffer[p] =< Taken(spl_to_sdl[p]) + 1
        /\ \A i \in 1 .. Len(frames[h]) : Older(spl_to_sdl[p], frames[h][i])
        /\ \A i, j \in 1 .. Len(frames[h]) : i < j => Older(frames[h][i], frames[h][j])
    BY <1>0, <1>2 DEF Pipe
  <2> QED BY <1>0, <1>1, <1>6, <2>2, <2>3, <2>4 DEF Pipe, b, d
<1>12. Pipe(p)'
  <2>1. /\ Len(delivered[h]) =< spl_to_sdl[h].info /\ buffer[h] =< Taken(spl_to_sdl[h]) + 1
        /\ sdl_to_spl_pkg[p].info =< buffer[p]
        /\ Taken(sdl_to_spl_pkg[p]) =< Len(delivered[p])
    BY <1>0, <1>2 DEF Pipe
  <2> HIDE DEF p
  <2> QED BY <1>0, <1>1, <1>2, <1>6, <2>1, PipeKept
<1> QED BY <1>0, <1>7, <1>8, <1>9, <1>11, <1>12 DEF WindowInv

\* A packet is accepted only if it is the next one of the peer, and the acknowledgement
\* taken only if it is that of the packet being sent.
LEMMA ReadStep ==
    ASSUME WindowInv, NEW h \in Hosts, SdlRead(h)
    PROVE  /\ WindowInv'
           /\ delivered' # delivered =>
                 /\ Len(delivered[h]) < buffer[Peer(h)]
                 /\ delivered' = [delivered EXCEPT ![h] = Append(delivered[h],
                                                                 Len(delivered[h]) + 1)]
<1> DEFINE p == Peer(h)
           b == buffer[h]
           d == Len(delivered[h])
           r == spl_to_sdl[h]
           accept == r.seq = frame_expected[h]
           acked == r.ack = next_frame_to_send[h]
<1>0. p = Peer(h) /\ p \in Hosts /\ p # h /\ Peer(p) = h /\ \A g \in Hosts : g = h \/ g = p
  BY Peers
<1>1. /\ b \in Nat /\ d \in Nat /\ delivered[h] \in Seq(Nat)
      /\ buffer[p] \in Nat /\ Len(delivered[p]) \in Nat
      /\ next_frame_to_send[h] \in Bit /\ frame_expected[h] \in Bit
      /\ r \in File /\ sdl_to_spl_pkg[p] \in File
      /\ Counts(h) /\ Lead(h) /\ Pipe(h) /\ Counts(p) /\ Lead(p) /\ Pipe(p)
  BY <1>0, Scalars
<1>2. /\ b # 0 /\ sdl[h] = "read"
      /\ next_frame_to_send[h] = (b + 1) % 2 /\ frame_expected[h] = d % 2
      /\ b - d \in Bit /\ \A i \in 1 .. d : delivered[h][i] = i
  BY <1>1 DEF SdlRead, Counts, Lead
<1>3. /\ r.info \in Nat /\ Taken(r) \in Nat /\ r.info - Taken(r) \in Bit
      /\ sdl_to_spl_pkg[p].info \in Nat /\ Taken(sdl_to_spl_pkg[p]) \in Nat
      /\ r.seq \in Bit => r.info > 0 /\ r.seq = (r.info + 1) % 2
      /\ r.ack \in Bit => r.info > 0 /\ r.ack = (Taken(r) + 1) % 2
      /\ r.seq \notin Bit => r.info = 0
      /\ r.ack \notin Bit => Taken(r) = 0
  BY <1>1, Files
<1> HIDE DEF p, b, d, r
<1>4. /\ d =< r.info /\ r.info =< buffer[p] /\ buffer[p] =< d + 1
      /\ b =< Taken(r) + 1 /\ Taken(r) =< Len(delivered[p]) /\ Len(delivered[p]) =< b
  <2>1. /\ d =< r.info /\ b =< Taken(r) + 1 /\ Older(r, sdl_to_spl_pkg[p])
        /\ sdl_to_spl_pkg[p].info =< buffer[p]
        /\ Taken(sdl_to_spl_pkg[p]) =< Len(delivered[p])
    BY <1>0, <1>1 DEF Pipe, r, d, b
  <2>2. buffer[p] =< d + 1 /\ Len(delivered[p]) =< b
    BY <1>0, <1>1 DEF Counts, d, b
  <2>3. r.info =< sdl_to_spl_pkg[p].info /\ Taken(r) =< Taken(sdl_to_spl_pkg[p])
    BY <2>1 DEF Older
  <2>4. /\ d \in Nat /\ b \in Nat /\ buffer[p] \in Nat /\ Len(delivered[p]) \in Nat
        /\ r.info \in Nat /\ Taken(r) \in Nat
        /\ sdl_to_spl_pkg[p].info \in Nat /\ Taken(sdl_to_spl_pkg[p]) \in Nat
    BY <1>1, <1>3
  <2> QED BY <2>1, <2>2, <2>3, <2>4
<1>5. /\ accept => r.info = d + 1
      /\ ~accept => r.info = d
  <2>1. r.info = d \/ r.info = d + 1
    BY <1>1, <1>3, <1>4
  <2>2. ASSUME accept PROVE r.info # d
    <3>1. r.info > 0 /\ (r.info + 1) % 2 = d % 2
      BY <1>1, <1>2, <1>3, <2>2
    <3>2. (d + 1) % 2 # d % 2
      BY <1>1, Bits DEF Bit
    <3> QED BY <3>1, <3>2
  <2>3. ASSUME r.info = d + 1 PROVE accept
    <3>1. r.seq = ((d + 1) + 1) % 2
      BY <1>1, <1>3, <2>3
    <3>2. (d + 1) + 1 = d + 2
      BY <1>1
    <3>3. (d + 2) % 2 = d % 2
      BY <1>1, Bits
    <3> QED BY <1>2, <3>1, <3>2, <3>3
  <2> QED BY <2>1, <2>2, <2>3
<1>6. /\ acked => Taken(r) = b
      /\ ~acked => Taken(r) = b - 1
  <2>1. Taken(r) = b \/ Taken(r) = b - 1
    <3>1. b \in Nat /\ Taken(r) \in Nat /\ Len(delivered[p]) \in Nat
      BY <1>1, <1>3
    <3> QED BY <1>4, <3>1
  <2>2. ASSUME acked PROVE Taken(r) # b - 1
    <3>1. (Taken(r) + 1) % 2 = (b + 1) % 2
      BY <1>1, <1>2, <1>3, <2>2
    <3>2. (b + 1) % 2 # b % 2
      BY <1>1, Bits DEF Bit
    <3>3. ASSUME Taken(r) = b - 1 PROVE Taken(r) + 1 = b
      BY <1>1, <3>3
    <3> QED BY <3>1, <3>2, <3>3
  <2>3. ASSUME Taken(r) = b PROVE acked
    BY <1>1, <1>2, <1>3, <2>3
  <2> QED BY <2>1, <2>2, <2>3
<1>7. /\ sdl' = [sdl EXCEPT ![h] = IF acked THEN "fetch" ELSE "post"]
      /\ UNCHANGED <<buffer, next_frame_to_send, sdl_to_spl_pkg, frames, spl_to_sdl>>
      /\ IF accept
           THEN /\ delivered' = [delivered EXCEPT ![h] = Append(delivered[h], r.info)]
                /\ frame_expected' = [frame_expected EXCEPT ![h] = inc(frame_expected[h])]
           ELSE UNCHANGED <<delivered, frame_expected>>
  BY DEF SdlRead, SdlGoto, r
<1> HIDE DEF accept, acked
<1>8. /\ delivered' \in [Hosts -> Seq(Nat)] /\ delivered'[p] = delivered[p]
      /\ Len(delivered'[h]) = r.info /\ \A i \in 1 .. r.info : delivered'[h][i] = i
  <2>1. CASE accept
    <3> DEFINE q == Append(delivered[h], r.info)
    <3>1. /\ q \in Seq(Nat) /\ Len(q) = d + 1
          /\ \A i \in 1 .. d : q[i] = delivered[h][i]
          /\ q[d + 1] = r.info
      <4>1. delivered[h] \in Seq(Nat) /\ r.info \in Nat
        BY <1>1, <1>3
      <4> QED BY <4>1, Written DEF d
    <3> HIDE DEF q
    <3>2. delivered' = [delivered EXCEPT ![h] = q]
      BY <1>7, <2>1 DEF q
    <3>3. /\ delivered' \in [Hosts -> Seq(Nat)] /\ delivered'[p] = delivered[p]
          /\ delivered'[h] = q
      BY <1>0, <3>1, <3>2 DEF WindowInv, Types
    <3>4. ASSUME NEW i \in 1 .. d + 1 PROVE q[i] = i
      <4>1. d \in Nat /\ r.info = d + 1
        BY <1>1, <1>5, <2>1
      <4>2. CASE i \in 1 .. d
        BY <1>2, <3>1, <4>2
      <4>3. CASE i = d + 1
        BY <3>1, <4>1, <4>3
      <4> QED BY <4>1, <4>2, <4>3
    <3> QED BY <1>5, <2>1, <3>1, <3>3, <3>4
  <2>2. CASE ~accept
    BY <1>2, <1>5, <1>7, <2>2 DEF WindowInv, Types, d
  <2> QED BY <2>1, <2>2
<1>9. /\ frame_expected' \in [Hosts -> Bit] /\ frame_expected'[p] = frame_expected[p]
      /\ frame_expected'[h] = r.info % 2
  <2>1. CASE accept
    <3>1. /\ (d + 1) % 2 = 1 - (d % 2)
      BY <1>1, Bits
    <3>2. inc(frame_expected[h]) = 1 - (d % 2) /\ inc(frame_expected[h]) \in Bit
      BY <1>1, <1>2 DEF inc, MAX_SEQ, Bit
    <3> QED BY <1>0, <1>5, <1>7, <2>1, <3>1, <3>2 DEF WindowInv, Types
  <2>2. CASE ~accept
    BY <1>2, <1>5, <1>7, <2>2 DEF WindowInv, Types
  <2> QED BY <2>1, <2>2
<1>10. /\ sdl' \in [Hosts -> SdlPcs] /\ sdl'[p] = sdl[p]
       /\ sdl'[h] = IF acked THEN "fetch" ELSE "post"
  BY <1>0, <1>7 DEF WindowInv, Types, SdlPcs
<1>11. Types'
  BY <1>7, <1>8, <1>9, <1>10 DEF WindowInv, Types
<1>12. Counts(h)'
  <2>1. /\ Len(delivered[p]) =< buffer[h] /\ buffer[h] =< Len(delivered[p]) + 1
        /\ next_frame_to_send[h] = IF buffer[h] = 0 THEN 0 ELSE (buffer[h] + 1) % 2
    BY <1>0, <1>1 DEF Counts
  <2>2. sdl'[h] # "start" /\ buffer[h] # 0
    BY <1>2, <1>10 DEF b
  <2> QED BY <1>0, <1>7, <1>8, <1>9, <2>1, <2>2 DEF Counts
<1>13. Counts(p)'
  <2>1. r.info =< buffer[p] /\ buffer[p] =< r.info + 1
    <3>1. d \in Nat /\ buffer[p] \in Nat /\ r.info \in Nat
      BY <1>1, <1>3
    <3> QED BY <1>4, <3>1
  <2>2. /\ \A i \in 1 .. Len(delivered[p]) : delivered[p][i] = i
        /\ next_frame_to_send[p] = IF buffer[p] = 0 THEN 0 ELSE (buffer[p] + 1) % 2
        /\ frame_expected[p] = Len(delivered[p]) % 2
        /\ sdl[p] = "start" <=> buffer[p] = 0
    BY <1>1 DEF Counts
  <2> QED BY <1>0, <1>7, <1>8, <1>9, <1>10, <2>1, <2>2 DEF Counts
<1>14. Lead(h)'
  <2>1. acked => r.info - b \in Bit /\ Taken(r) = b
    BY <1>3, <1>6
  <2>2. ~acked => b - r.info \in Bit
    <3>1. b \in Nat /\ r.info \in Nat /\ r.info - Taken(r) \in Bit /\ Taken(r) \in Nat
      BY <1>1, <1>3
    <3> QED BY <1>6, <3>1 DEF Bit
  <2>3. Taken(spl_to_sdl[h])' = Taken(r)
    BY <1>7 DEF Taken, r
  <2> QED BY <1>7, <1>8, <1>10, <2>1, <2>2, <2>3 DEF Lead, b
<1>15. Lead(p)'
  BY <1>1, <1>7, <1>8, <1>10 DEF Lead, Taken
<1>16. Pipe(h)'
  <2>1. Taken(sdl_to_spl_pkg[h]) =< r.info
    <3>1. Taken(sdl_to_spl_pkg[h]) =< d /\ Taken(sdl_to_spl_pkg[h]) \in Nat
      BY <1>1, Scalars, Files DEF Pipe, d
    <3> QED BY <1>1, <1>3, <1>4, <3>1
  <2>2. /\ Len(delivered[p]) =< spl_to_sdl[p].info /\ buffer[p] =< Taken(spl_to_sdl[p]) + 1
        /\ sdl_to_spl_pkg[h].info =< buffer[h]
    BY <1>0, <1>1 DEF Pipe
  <2> QED BY <1>0, <1>1, <1>7, <1>8, <2>1, <2>2, PipeKept
<1>17. Pipe(p)'
  <2>1. Len(delivered'[h]) =< spl_to_sdl[h].info
    BY <1>3, <1>8 DEF r
  <2>2. /\ buffer[h] =< Taken(spl_to_sdl[h]) + 1
        /\ sdl_to_spl_pkg[p].info =< buffer[p]
        /\ Taken(sdl_to_spl_pkg[p]) =< Len(delivered[p])
    BY <1>0, <1>1 DEF Pipe
  <2> QED BY <1>0, <1>1, <1>7, <1>8, <2>1, <2>2, PipeKept
<1>18. WindowInv'
  BY <1>0, <1>11, <1>12, <1>13, <1>14, <1>15, <1>16, <1>17 DEF WindowInv
<1>19. accept => d < buffer[p]
  BY <1>1, <1>3, <1>4, <1>5
<1> QED BY <1>0, <1>5, <1>7, <1>18, <1>19 DEF d

\* SPL sends the frame of the file: it becomes the youngest of the socket.
LEMMA SendStep ==
    ASSUME WindowInv, NEW h \in Hosts, SplSend(h)
    PROVE  WindowInv'
<1> DEFINE p == Peer(h)
           f == sdl_to_spl_pkg[h]
           q == Append(frames[h], f)
<1>0. p = Peer(h) /\ p \in Hosts /\ p # h /\ Peer(p) = h /\ \A g \in Hosts : g = h \/ g = p
  BY Peers
<1>1. /\ frames' = [frames EXCEPT ![h] = q]
      /\ UNCHANGED <<sdlVars, sdl_to_spl_pkg, spl_to_sdl>>
  BY DEF SplSend
<1>2. /\ f \in File /\ frames[h] \in Seq(File) /\ Pipe(h) /\ Pipe(p)
  BY <1>0, Scalars
<1>3. /\ q \in Seq(File) /\ Len(q) = Len(frames[h]) + 1 /\ Len(frames[h]) \in Nat
      /\ \A i \in 1 .. Len(frames[h]) : q[i] = frames[h][i]
      /\ q[Len(frames[h]) + 1] = f
  BY <1>2, Written
<1>4. f.info \in Nat /\ Taken(f) \in Nat
  BY <1>2, Files
<1> HIDE DEF p, f, q
<1>5. frames'[h] = q /\ frames'[p] = frames[p] /\ frames' \in [Hosts -> Seq(File)]
  BY <1>0, <1>1, <1>3 DEF WindowInv, Types
<1>6. Types'
  BY <1>1, <1>5 DEF WindowInv, Types, sdlVars
<1>7. ASSUME NEW g \in Hosts PROVE Counts(g)' /\ Lead(g)'
  <2>1. Counts(g) /\ Lead(g)
    BY DEF WindowInv
  <2> QED BY <1>1, <2>1 DEF Counts, Lead, Taken, sdlVars
<1>8. \A i \in 1 .. Len(q) : Older(spl_to_sdl[p], q[i]) /\ Older(q[i], f)
  <2>1. /\ Older(spl_to_sdl[p], f)
        /\ \A i \in 1 .. Len(frames[h]) : /\ Older(spl_to_sdl[p], frames[h][i])
                                          /\ Older(frames[h][i], f)
    BY <1>0, <1>2 DEF Pipe, f
  <2>2. Older(f, f)
    BY <1>4 DEF Older
  <2>3. \A i \in 1 .. Len(q) : i \in 1 .. Len(frames[h]) \/ i = Len(frames[h]) + 1
    BY <1>3
  <2> QED BY <1>3, <2>1, <2>2, <2>3
<1>9. \A i, j \in 1 .. Len(q) : i < j => Older(q[i], q[j])
  <2> SUFFICES ASSUME NEW i \in 1 .. Len(q), NEW j \in 1 .. Len(q), i < j
               PROVE  Older(q[i], q[j])
    OBVIOUS
  <2>1. i \in 1 .. Len(frames[h])
    BY <1>3
  <2>2. CASE j \in 1 .. Len(frames[h])
    BY <1>2, <1>3, <2>1, <2>2 DEF Pipe
  <2>3. CASE j = Len(frames[h]) + 1
    BY <1>3, <1>8, <2>3
  <2> QED BY <1>3, <2>2, <2>3
<1>10. Pipe(h)'
  BY <1>0, <1>1, <1>2, <1>5, <1>8, <1>9 DEF Pipe, sdlVars, f
<1>11. Pipe(p)'
  BY <1>0, <1>1, <1>2, <1>5 DEF Pipe, sdlVars
<1> QED BY <1>0, <1>6, <1>7, <1>10, <1>11 DEF WindowInv

\* SPL of the peer takes the oldest frame off the socket: it is lost, or replaces an older
\* one in the file.
LEMMA TakeStep ==
    ASSUME WindowInv, NEW h \in Hosts, SplLostFrame(h) \/ SplDamagedFrame(h) \/ SplPassFrame(h)
    PROVE  WindowInv'
<1> DEFINE p == Peer(h)
           f == Head(frames[p])
           q == Tail(frames[p])
<1>0. p = Peer(h) /\ p \in Hosts /\ p # h /\ Peer(p) = h /\ \A g \in Hosts : g = h \/ g = p
  BY Peers
<1>1. /\ frames' = [frames EXCEPT ![p] = q] /\ frames[p] # << >>
      /\ \/ spl_to_sdl' = [spl_to_sdl EXCEPT ![h] = f]
         \/ spl_to_sdl' = spl_to_sdl
      /\ UNCHANGED <<sdlVars, sdl_to_spl_pkg>>
  BY DEF SplLostFrame, SplDamagedFrame, SplPassFrame, SplTakesFrame
<1>2. /\ frames[p] \in Seq(File) /\ Pipe(h) /\ Pipe(p)
      /\ Counts(h) /\ Lead(h) /\ Counts(p) /\ Lead(p)
      /\ buffer[h] \in Nat /\ Len(delivered[h]) \in Nat /\ Len(delivered[p]) \in Nat
      /\ spl_to_sdl[h] \in File /\ sdl_to_spl_pkg[p] \in File
  BY <1>0, Scalars
<1>3. /\ f \in File /\ f = frames[p][1] /\ q \in Seq(File)
      /\ Len(q) = Len(frames[p]) - 1 /\ Len(frames[p]) \in Nat /\ Len(frames[p]) >= 1
      /\ \A i \in 1 .. Len(q) : q[i] = frames[p][i + 1]
  BY <1>1, <1>2, FrontAndRest
<1> HIDE DEF p, f, q
<1>4. /\ frames'[p] = q /\ frames'[h] = frames[h] /\ frames' \in [Hosts -> Seq(File)]
      /\ spl_to_sdl'[h] \in {f, spl_to_sdl[h]} /\ spl_to_sdl'[p] = spl_to_sdl[p]
      /\ spl_to_sdl' \in [Hosts -> File]
  BY <1>0, <1>1, <1>3 DEF WindowInv, Types
<1>5. Types'
  BY <1>1, <1>4 DEF WindowInv, Types, sdlVars
<1>6. Counts(h)' /\ Counts(p)'
  BY <1>1, <1>2 DEF Counts, sdlVars
<1>7. /\ Older(spl_to_sdl[h], f) /\ Older(f, sdl_to_spl_pkg[p])
      /\ \A i \in 1 .. Len(q) : Older(f, q[i])
  BY <1>0, <1>2, <1>3 DEF Pipe
<1>8. /\ f.info \in Nat /\ Taken(f) \in Nat
      /\ spl_to_sdl[h].info \in Nat /\ Taken(spl_to_sdl[h]) \in Nat
      /\ Taken(sdl_to_spl_pkg[p]) \in Nat
  BY <1>2, <1>3, Files
<1>9. Lead(h)'
  <2>1. ASSUME sdl[h] = "fetch" PROVE Taken(spl_to_sdl'[h]) = buffer[h]
    <3>1. Taken(spl_to_sdl[h]) = buffer[h]
      BY <1>2, <2>1 DEF Lead
    <3>2. Taken(spl_to_sdl[h]) =< Taken(f) /\ Taken(f) =< Taken(sdl_to_spl_pkg[p])
      BY <1>7 DEF Older
    <3>3. /\ Taken(sdl_to_spl_pkg[p]) =< Len(delivered[p]) /\ Len(delivered[p]) =< buffer[h]
      BY <1>0, <1>2 DEF Pipe, Counts
    <3>4. Taken(f) = buffer[h]
      BY <1>2, <1>8, <3>1, <3>2, <3>3
    <3> QED BY <1>4, <3>1, <3>4
  <2>2. Taken(spl_to_sdl[h])' = Taken(spl_to_sdl'[h])
    BY DEF Taken
  <2> QED BY <1>1, <1>2, <2>1, <2>2 DEF Lead, sdlVars
<1>10. Lead(p)'
  BY <1>1, <1>2, <1>4 DEF Lead, Taken, sdlVars
<1>11. Pipe(h)'
  BY <1>0, <1>1, <1>2, <1>4 DEF Pipe, sdlVars
<1>12. Pipe(p)'
  <2> DEFINE g == spl_to_sdl'[h]
  <2>1. /\ Len(delivered[h]) =< spl_to_sdl[h].info
        /\ buffer[h] =< Taken(spl_to_sdl[h]) + 1
        /\ Older(spl_to_sdl[h], sdl_to_spl_pkg[p])
        /\ sdl_to_spl_pkg[p].info =< buffer[p]
        /\ Taken(sdl_to_spl_pkg[p]) =< Len(delivered[p])
    BY <1>0, <1>2 DEF Pipe
  <2>2. \A i \in 1 .. Len(q) : /\ Older(spl_to_sdl[h], q[i])
                               /\ Older(q[i], sdl_to_spl_pkg[p])
    BY <1>0, <1>2, <1>3 DEF Pipe
  <2>3. \A i, j \in 1 .. Len(q) : i < j => Older(q[i], q[j])
    <3> SUFFICES ASSUME NEW i \in 1 .. Len(q), NEW j \in 1 .. Len(q), i < j
                 PROVE  Older(q[i], q[j])
      OBVIOUS
    <3>1. i + 1 \in 1 .. Len(frames[p]) /\ j + 1 \in 1 .. Len(frames[p]) /\ i + 1 < j + 1
      BY <1>3
    <3>2. Older(frames[p][i + 1], frames[p][j + 1])
      BY <1>2, <3>1 DEF Pipe
    <3> QED BY <1>3, <3>2
  <2>4. /\ Len(delivered[h]) =< f.info /\ buffer[h] =< Taken(f) + 1
    BY <1>2, <1>7, <1>8, <2>1 DEF Older
  <2>5. /\ Len(delivered[h]) =< g.info /\ buffer[h] =< Taken(g) + 1
        /\ Older(g, sdl_to_spl_pkg[p])
        /\ \A i \in 1 .. Len(q) : Older(g, q[i])
    BY <1>4, <1>7, <2>1, <2>2, <2>4
  <2> QED BY <1>0, <1>1, <1>4, <2>1, <2>2, <2>3, <2>5 DEF Pipe, sdlVars
<1> QED BY <1>0, <1>5, <1>6, <1>9, <1>10, <1>11, <1>12 DEF WindowInv
-----------------------------------------------------------------------------
LEMMA WindowInit == Init => WindowInv
<1> SUFFICES ASSUME Init PROVE WindowInv
  OBVIOUS
<1>1. Types
  BY DEF Init, Types, SdlPcs, Bit, File
<1>2. Taken(NoFrame) = 0 /\ NoFrame.info = 0
  BY DEF Taken, NoFrame
<1>3. ASSUME NEW h \in Hosts PROVE Counts(h) /\ Lead(h) /\ Pipe(h)
  <2>1. /\ sdl[h] = "start" /\ buffer[h] = 0 /\ next_frame_to_send[h] = 0
        /\ frame_expected[h] = 0 /\ sdl_to_spl_pkg[h] = NoFrame /\ frames[h] = << >>
        /\ \A g \in Hosts : delivered[g] = << >> /\ spl_to_sdl[g] = NoFrame /\ buffer[g] = 0
    BY DEF Init
  <2>2. Len(<< >>) = 0 /\ 0 % 2 = 0
    BY SMT
  <2>3. Peer(h) \in Hosts
    BY Peers
  <2>4. /\ Len(delivered[h]) = 0 /\ Len(delivered[Peer(h)]) = 0 /\ Len(frames[h]) = 0
        /\ spl_to_sdl[h] = NoFrame /\ spl_to_sdl[Peer(h)] = NoFrame /\ buffer[Peer(h)] = 0
    BY <2>1, <2>2, <2>3
  <2>5. Counts(h)
    BY <2>1, <2>2, <2>4 DEF Counts
  <2>6. Lead(h)
    BY <2>1, <2>4 DEF Lead, Bit
  <2>7. Pipe(h)
    BY <1>2, <2>1, <2>4 DEF Pipe, Older
  <2> QED BY <2>5, <2>6, <2>7
<1> QED BY <1>1, <1>3 DEF WindowInv

\* Every step but fetching a packet, posting one, reading a frame and moving one.
LEMMA OtherStep ==
    ASSUME WindowInv, NEW h \in Hosts,
           \/ SdlSignal(h) \/ SdlTimeout(h) \/ SdlFrameArrival(h) \/ SdlCksumErr(h)
           \/ SplClearFlag(h) \/ SplSignal(h)
    PROVE  WindowInv'
<1>1. UNCHANGED <<buffer, next_frame_to_send, frame_expected, delivered, sdl_to_spl_pkg,
                  frames, spl_to_sdl>>
  BY DEF SdlSignal, SdlTimeout, SdlFrameArrival, SdlCksumErr, SplClearFlag, SplSignal, sdlVars
<1>2. \/ sdl' = sdl
      \/ sdl[h] \in {"signal", "wait"} /\ \E pc \in {"wait", "post", "read"} :
             sdl' = [sdl EXCEPT ![h] = pc]
  BY DEF SdlSignal, SdlTimeout, SdlFrameArrival, SdlCksumErr, SplClearFlag, SplSignal, sdlVars,
         SdlGoto
<1>3. sdl \in [Hosts -> SdlPcs]
  BY DEF WindowInv, Types
<1>4. sdl' \in [Hosts -> SdlPcs]
  BY <1>2, <1>3 DEF SdlPcs
<1>5. \A g \in Hosts : /\ sdl'[g] = "start" <=> sdl[g] = "start"
                       /\ sdl'[g] = "fetch" <=> sdl[g] = "fetch"
  BY <1>2, <1>3
<1> QED BY <1>1, <1>4, <1>5, LocalStep

LEMMA WindowNext ==
    ASSUME WindowInv, [Next]_vars
    PROVE  WindowInv'
<1>1. ASSUME NEW h \in Hosts, Sdl(h) PROVE WindowInv'
  BY <1>1, FetchStep, PostStep, ReadStep, OtherStep DEF Sdl
<1>2. ASSUME NEW h \in Hosts, Spl(h) PROVE WindowInv'
  BY <1>2, SendStep, TakeStep, OtherStep DEF Spl
<1>3. CASE UNCHANGED vars
  <2>1. UNCHANGED <<sdl, buffer, next_frame_to_send, frame_expected, delivered,
                    sdl_to_spl_pkg, frames, spl_to_sdl>>
    BY <1>3 DEF vars, sdlVars
  <2>2. sdl \in [Hosts -> SdlPcs]
    BY DEF WindowInv, Types
  <2> QED BY <2>1, <2>2, LocalStep
<1> QED BY <1>1, <1>2, <1>3 DEF Next

\* WindowInv is an invariant of protocol 4: which packet and which acknowledgement the files
\* and the socket hold, one direction serving the other (04/sender4.c, Datalink_Layer).
THEOREM Inductive == Safety => []WindowInv
<1> QED BY WindowInit, WindowNext, PTL DEF Safety

\* In both directions to_network_layer is given the packets of the other host, each once and
\* in order, whatever is lost, damaged, sent again or overwritten in a file.
THEOREM Delivery == Safety => []InOrderExactlyOnce
<1>1. WindowInv => InOrderExactlyOnce
  <2> SUFFICES ASSUME WindowInv, NEW h \in Hosts
               PROVE  /\ \A i \in 1 .. Len(delivered[h]) : delivered[h][i] = i
                      /\ Len(delivered[h]) \in {buffer[Peer(h)] - 1, buffer[Peer(h)]}
    BY DEF InOrderExactlyOnce
  <2>1. Peer(h) \in Hosts /\ Peer(Peer(h)) = h
    BY Peers
  <2>2. Counts(h) /\ Counts(Peer(h)) /\ buffer[Peer(h)] \in Nat /\ Len(delivered[h]) \in Nat
    BY <2>1, Scalars
  <2> QED BY <2>1, <2>2 DEF Counts
<1> QED BY <1>1, Inductive, PTL

\* Neither host fetches a packet from its network layer before the other is within one of it,
\* although each waits only for acknowledgements of its own packets.
THEOREM Together == Safety => []InStep
<1>1. WindowInv => InStep
  <2> SUFFICES ASSUME WindowInv PROVE InStep
    OBVIOUS
  <2>1. "sender" \in Hosts /\ "receiver" \in Hosts /\ Peer("sender") = "receiver"
        /\ Peer("receiver") = "sender"
    BY DEF Hosts, Peer
  <2>2. /\ buffer["sender"] \in Nat /\ buffer["receiver"] \in Nat
        /\ Len(delivered["sender"]) \in Nat /\ Len(delivered["receiver"]) \in Nat
        /\ Counts("sender") /\ Lead("sender") /\ Counts("receiver") /\ Lead("receiver")
    BY <2>1, Scalars
  <2>3. ASSUME NEW h \in Hosts PROVE /\ buffer[h] =< Len(delivered[h]) + 1
                                     /\ Len(delivered[h]) =< buffer[h] + 1
                                     /\ sdl[h] # "fetch" => Len(delivered[h]) =< buffer[h]
                                     /\ sdl[h] = "fetch" => buffer[h] =< Len(delivered[h])
    <3>1. buffer[h] \in Nat /\ Len(delivered[h]) \in Nat /\ Lead(h)
      BY Scalars
    <3> QED BY <3>1 DEF Lead, Bit
  <2>4. /\ Len(delivered["receiver"]) =< buffer["sender"]
        /\ buffer["sender"] =< Len(delivered["receiver"]) + 1
        /\ Len(delivered["sender"]) =< buffer["receiver"]
        /\ buffer["receiver"] =< Len(delivered["sender"]) + 1
    BY <2>1, <2>2 DEF Counts
  <2>5. /\ buffer["sender"] =< buffer["receiver"] + 1
        /\ buffer["receiver"] =< buffer["sender"] + 1
    BY <2>1, <2>2, <2>3, <2>4
  <2> QED BY <2>2, <2>5 DEF InStep
<1> QED BY <1>1, Inductive, PTL

\* A host that blocks in from_network_layer for ever, its file exhausted, has had all of that
\* file accepted: what is cut off is never the direction that ends first.
THEOREM LastIsDelivered == Safety => []StopsAfterLast
<1>1. WindowInv => StopsAfterLast
  <2> SUFFICES ASSUME WindowInv, NEW h \in Hosts, sdl[h] = "fetch", buffer[h] = PacketsOf(h)
               PROVE  Len(delivered[Peer(h)]) = PacketsOf(h)
    BY DEF StopsAfterLast
  <2> DEFINE p == Peer(h)
  <2>1. p \in Hosts /\ Peer(p) = h
    BY Peers
  <2>2. /\ buffer[h] \in Nat /\ Len(delivered[p]) \in Nat /\ Counts(h) /\ Lead(h) /\ Pipe(p)
        /\ spl_to_sdl[h] \in File /\ sdl_to_spl_pkg[p] \in File
    BY <2>1, Scalars
  <2>3. Taken(spl_to_sdl[h]) = buffer[h] /\ Taken(sdl_to_spl_pkg[p]) \in Nat
    BY <2>2, Files DEF Lead
  <2>4. /\ Taken(spl_to_sdl[h]) =< Taken(sdl_to_spl_pkg[p])
        /\ Taken(sdl_to_spl_pkg[p]) =< Len(delivered[p])
        /\ Len(delivered[p]) =< buffer[h]
    BY <2>1, <2>2 DEF Pipe, Older, Counts
  <2> QED BY <2>2, <2>3, <2>4
<1> QED BY <1>1, Inductive, PTL

\* One direction: what a step fetches and what it hands over.
LEMMA Serves ==
    ASSUME WindowInv, [Next]_vars, NEW h \in Hosts
    PROVE  LET d == delivered[Peer(h)]  dNext == delivered'[Peer(h)] IN
           \/ /\ buffer[h] < PacketsOf(h) /\ buffer[h] < Len(d) + 1
              /\ buffer'[h] = buffer[h] + 1 /\ dNext = d
           \/ /\ Len(d) < buffer[h]
              /\ dNext = Append(d, Len(d) + 1) /\ buffer'[h] = buffer[h]
           \/ buffer'[h] = buffer[h] /\ dNext = d
<1> DEFINE p == Peer(h)
<1>0. p = Peer(h) /\ p \in Hosts /\ p # h /\ Peer(p) = h /\ \A g \in Hosts : g = h \/ g = p
  BY Peers
<1>1. buffer[h] \in Nat /\ Len(delivered[p]) \in Nat
  BY <1>0, Scalars
<1> HIDE DEF p
<1>2. ASSUME NEW g \in Hosts, SdlFirstPacket(g) \/ SdlNextPacket(g)
      PROVE  /\ buffer[g] < PacketsOf(g) /\ Len(delivered[Peer(g)]) = buffer[g]
             /\ buffer' = [buffer EXCEPT ![g] = buffer[g] + 1] /\ delivered' = delivered
  BY <1>2, FetchStep DEF SdlFirstPacket, SdlNextPacket
<1>3. CASE \E g \in Hosts : SdlFirstPacket(g) \/ SdlNextPacket(g)
  <2>1. PICK g \in Hosts : SdlFirstPacket(g) \/ SdlNextPacket(g)
    BY <1>3
  <2>2. CASE g = h
    BY <1>0, <1>1, <1>2, <2>1, <2>2 DEF WindowInv, Types
  <2>3. CASE g # h
    BY <1>0, <1>2, <2>1, <2>3 DEF WindowInv, Types
  <2> QED BY <2>2, <2>3
<1>4. CASE \E g \in Hosts : SdlRead(g)
  <2>1. PICK g \in Hosts : SdlRead(g)
    BY <1>4
  <2>2. buffer' = buffer
    BY <2>1 DEF SdlRead
  <2>3. \/ delivered' = delivered
        \/ /\ Len(delivered[g]) < buffer[Peer(g)]
           /\ delivered' = [delivered EXCEPT ![g] = Append(delivered[g], Len(delivered[g]) + 1)]
    BY <2>1, ReadStep
  <2>4. delivered = [k \in Hosts |-> delivered[k]]
    BY DEF WindowInv, Types
  <2>5. CASE g = p
    BY <1>0, <2>2, <2>3, <2>4, <2>5
  <2>6. CASE g # p
    BY <1>0, <2>2, <2>3, <2>4, <2>6
  <2> QED BY <2>5, <2>6
<1>5. CASE \E g \in Hosts : \/ SdlPost(g) \/ SdlSignal(g) \/ SdlTimeout(g)
                            \/ SdlFrameArrival(g) \/ SdlCksumErr(g) \/ Spl(g)
  <2>1. buffer' = buffer /\ delivered' = delivered
    BY <1>5 DEF SdlPost, SdlSignal, SdlTimeout, SdlFrameArrival, SdlCksumErr, Spl, SplSend,
                SplClearFlag, SplLostFrame, SplDamagedFrame, SplPassFrame, SplSignal,
                SplTakesFrame, sdlVars
  <2> QED BY <2>1
<1>6. CASE UNCHANGED vars
  BY <1>6 DEF vars, sdlVars
<1> QED BY <1>3, <1>4, <1>5, <1>6 DEF Next, Sdl

\* Protocol 4 implements the data-link service in both directions at once: every step is a
\* Fetch, a HandOver or a stutter of each.
THEOREM Refinement == Safety => RefinesBothServices
<1>1. Init => ToReceiver!Init /\ ToSender!Init
  BY DEF Init, Hosts, ToReceiver!Init, ToSender!Init
<1>2. WindowInv /\ [Next]_vars => /\ [ToReceiver!Next]_(ToReceiver!vars)
                                  /\ [ToSender!Next]_(ToSender!vars)
  <2> SUFFICES ASSUME WindowInv, [Next]_vars
               PROVE  /\ [ToReceiver!Next]_(ToReceiver!vars)
                      /\ [ToSender!Next]_(ToSender!vars)
    OBVIOUS
  <2>1. /\ "sender" \in Hosts /\ Peer("sender") = "receiver"
        /\ PacketsOf("sender") = SenderPackets
        /\ "receiver" \in Hosts /\ Peer("receiver") = "sender"
        /\ PacketsOf("receiver") = ReceiverPackets
    BY DEF Hosts, Peer, PacketsOf
  <2>2. [ToReceiver!Next]_(ToReceiver!vars)
    BY <2>1, Serves DEF ToReceiver!Next, ToReceiver!Fetch, ToReceiver!HandOver, ToReceiver!vars
  <2>3. [ToSender!Next]_(ToSender!vars)
    BY <2>1, Serves DEF ToSender!Next, ToSender!Fetch, ToSender!HandOver, ToSender!vars
  <2> QED BY <2>2, <2>3
<1> QED BY <1>1, <1>2, Inductive, PTL
        DEF Safety, RefinesBothServices, ToReceiver!Safety, ToSender!Safety
=============================================================================
