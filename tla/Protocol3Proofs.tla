--------------------------- MODULE Protocol3Proofs ---------------------------
(***************************************************************************)
(* Proofs, for every number of packets and every socket capacity, that     *)
(* protocol 3 hands the packets over exactly once and in order and that it *)
(* implements DataLinkService with a window of one packet.                 *)
(***************************************************************************)
EXTENDS Protocol3, TLAPS

\* A frame of the packet being sent carries next_frame_to_send, one of the
\* packet before it the other number; older frames are not under way any more.
Numbered(f) == /\ f.info = buffer /\ f.info > 0 => f.seq = next_frame_to_send
               /\ f.info = buffer - 1 /\ f.info > 0 => f.seq = 1 - next_frame_to_send

\* Frames under way are of the packet being sent or of the one before it, and
\* get no older from RDL's file, along the socket, back to SDL's file.
FramesInv ==
    /\ Numbered(sdl_to_spl_pkg) /\ Numbered(rpl_to_rdl)
    /\ \A i \in 1 .. Len(frames) : Numbered(frames[i])
    /\ Len(delivered) =< rpl_to_rdl.info
    /\ rpl_to_rdl.info =< sdl_to_spl_pkg.info
    /\ sdl_to_spl_pkg.info =< buffer
    /\ \A i \in 1 .. Len(frames) : /\ rpl_to_rdl.info =< frames[i].info
                                   /\ frames[i].info =< sdl_to_spl_pkg.info
    /\ \A i, j \in 1 .. Len(frames) : i < j => frames[i].info =< frames[j].info

\* RDL is in to_network_layer.
HandingOver == rdl \in {"fill", "handover"}

\* RDL has handed over the packet being sent, and has counted it.
Accepted == Len(delivered) = buffer /\ buffer > 0 /\ ~HandingOver

\* frame_expected is the number of the next packet RDL has not accepted.
ExpectedInv ==
    /\ HandingOver => Len(delivered) = buffer /\ buffer > 0
    /\ frame_expected = IF Accepted THEN 1 - next_frame_to_send ELSE next_frame_to_send

\* The acknowledgement SDL waits for appears in RDL's file when the packet is
\* accepted, and everything written behind it is that acknowledgement again.
AcksInv ==
    /\ ~Accepted => /\ spl_to_sdl # next_frame_to_send
                    /\ rdl_to_rpl_pkg # next_frame_to_send
                    /\ \A i \in 1 .. Len(acks) : acks[i] # next_frame_to_send
    /\ spl_to_sdl = next_frame_to_send =>
          /\ rdl_to_rpl_pkg = next_frame_to_send
          /\ \A i \in 1 .. Len(acks) : acks[i] = next_frame_to_send
    /\ \A i \in 1 .. Len(acks) : acks[i] = next_frame_to_send =>
          /\ rdl_to_rpl_pkg = next_frame_to_send
          /\ \A j \in i .. Len(acks) : acks[j] = next_frame_to_send

SdlInv == /\ sdl = "start" <=> buffer = 0
          /\ sdl = "fetch" => spl_to_sdl = next_frame_to_send

ArqInv == InOrderExactlyOnce /\ FramesInv /\ ExpectedInv /\ AcksInv /\ SdlInv

IndInv == TypeOK /\ ArqInv
-----------------------------------------------------------------------------
\* A queue loses its front and keeps the rest in order: what SplTakesAcks leaves.
LEMMA DropFront ==
    ASSUME NEW S, NEW q \in Seq(S), NEW n \in 1 .. Len(q)
    PROVE  LET r == SubSeq(q, n + 1, Len(q))
           IN  /\ r \in Seq(S)
               /\ Len(r) = Len(q) - n
               /\ \A i \in 1 .. Len(r) : r[i] = q[i + n]
OBVIOUS

\* What read() takes off the front of a queue, and what it leaves.
LEMMA HeadAndTail ==
    ASSUME NEW S, NEW q \in Seq(S), q # << >>
    PROVE  /\ Head(q) \in S /\ Head(q) = q[1]
           /\ Tail(q) \in Seq(S)
           /\ Len(Tail(q)) = Len(q) - 1
           /\ \A i \in 1 .. Len(Tail(q)) : Tail(q)[i] = q[i + 1]
OBVIOUS

\* The buffer of RNL holds a packet or nothing in particular.
LEMMA Received ==
    ASSUME Packets \in Nat, recv_test \in Seq(0 .. Packets), NEW f \in 0 .. Packets
    PROVE  recvbuf(f) \in 0 .. Packets
BY DEF recvbuf, Garbage, Empty

\* The variables hold values of the types the C declarations give them.
THEOREM TypeCorrect == Safety => []TypeOK
<1>1. Init => TypeOK
  BY Protocol3Assumption DEF Init, TypeOK, SeqNr, MAX_SEQ, Flag, Empty
<1>2. TypeOK /\ [Next]_vars => TypeOK'
  <2> SUFFICES ASSUME TypeOK, [Next]_vars PROVE TypeOK'
    OBVIOUS
  <2> USE DEF TypeOK, sdlVars, splVars, toSpl, toSdl, rplVars, rdlVars, rnlVars,
              senderVars, receiverVars
  <2>1. ASSUME NEW k \in SeqNr PROVE inc(k) \in SeqNr /\ 1 - k \in SeqNr
    BY <2>1 DEF SeqNr, MAX_SEQ, inc
  <2>2. 0 \in Flag /\ 1 \in Flag
    BY DEF Flag
  <2>3. CASE SdlFirstPacket \/ SdlNextPacket
    BY <2>1, <2>3, Protocol3Assumption DEF SdlFirstPacket, SdlNextPacket
  <2>4. CASE SdlPost
    BY <2>4 DEF SdlPost, Frame
  <2>5. CASE SdlSignal \/ SdlTimeout \/ SdlFrameArrival \/ SdlCksumErr \/ SdlRead
    BY <2>2, <2>5 DEF SdlSignal, SdlTimeout, SdlFrameArrival, SdlCksumErr, SdlRead
  <2>6. CASE SplSend
    BY <2>6, Protocol3Assumption DEF SplSend
  <2>7. CASE SplClearFlag \/ SplSignal
    BY <2>2, <2>7 DEF SplClearFlag, SplSignal
  <2>8. CASE SplDamagedAck \/ SplLostAck \/ SplPassAck
    <3>1. ASSUME NEW a \in SeqNr, SplTakesAcks(a)
          PROVE  acks' \in Seq(SeqNr \cup {NoAck}) /\ Len(acks') =< NetCap
      <4>1. PICK n \in 1 .. Len(acks) : acks' = SubSeq(acks, n + 1, Len(acks))
        BY <3>1 DEF SplTakesAcks
      <4>2. acks \in Seq(SeqNr \cup {NoAck}) /\ Len(acks) =< NetCap /\ Len(acks) \in Nat
        OBVIOUS
      <4>3. acks' \in Seq(SeqNr \cup {NoAck}) /\ Len(acks') = Len(acks) - n
        BY <4>1, <4>2, DropFront
      <4>4. QED
        BY <4>2, <4>3, Protocol3Assumption
    <3>2. QED
      BY <2>2, <2>8, <3>1 DEF SplDamagedAck, SplLostAck, SplPassAck
  <2>9. CASE RplDropFrame \/ RplPassFrame
    <3>1. /\ Head(frames) \in Frame \cup {NoFrame}
          /\ frames' \in Seq(Frame \cup {NoFrame})
          /\ Len(frames') =< NetCap
      <4>1. frames # << >> /\ frames' = Tail(frames)
        BY <2>9 DEF RplDropFrame, RplPassFrame
      <4>2. Len(frames) =< NetCap /\ Len(frames) \in Nat \ {0} /\ NetCap \in Nat
        BY <4>1, Protocol3Assumption
      <4>3. QED
        BY <4>1, <4>2, HeadAndTail
    <3>2. CASE RplDropFrame
      BY <3>1, <3>2 DEF RplDropFrame
    <3>3. CASE RplPassFrame
      BY <3>1, <3>3 DEF RplPassFrame
    <3>4. QED
      BY <2>9, <3>2, <3>3
  <2>10. CASE RplSendAck
    BY <2>10, Protocol3Assumption DEF RplSendAck
  <2>11. CASE RplSignal \/ RplClearFlag
    BY <2>2, <2>11 DEF RplSignal, RplClearFlag
  <2>12. CASE RdlAccept \/ RdlFill
    <3>1. CASE RdlAccept
      BY <3>1, Protocol3Assumption DEF RdlAccept, Frame, NoFrame, SeqNr, Empty
    <3>2. CASE RdlFill
      BY <3>2, Protocol3Assumption DEF RdlFill
    <3>3. QED
      BY <2>12, <3>1, <3>2
  <2>13. CASE RdlFrameArrival \/ RdlIgnore \/ RdlSignalRnl \/ RdlAck \/ RdlSignalRpl
    BY <2>1, <2>2, <2>13 DEF RdlFrameArrival, RdlIgnore, RdlSignalRnl, RdlAck, RdlSignalRpl
  <2>14. CASE Rnl
    <3>1. CASE RnlAppend
      <4>1. recv_test \in Seq(0 .. Packets) /\ recvbuf(rdl_to_rnl) \in 0 .. Packets
        BY Received, Protocol3Assumption
      <4>2. recv_test' \in Seq(0 .. Packets)
        BY <3>1, <4>1 DEF RnlAppend
      <4>3. QED
        BY <3>1, <4>2 DEF RnlAppend
    <3>2. CASE RnlClearFlag
      BY <2>2, <3>2 DEF RnlClearFlag
    <3>3. QED
      BY <2>14, <3>1, <3>2 DEF Rnl
  <2>15. CASE UNCHANGED vars
    BY <2>15 DEF vars
  <2>16. QED
    BY <2>3, <2>4, <2>5, <2>6, <2>7, <2>8, <2>9, <2>10, <2>11, <2>12, <2>13, <2>14, <2>15
       DEF Next, Sdl, Spl, Rpl, Rdl
<1>3. QED
  BY <1>1, <1>2, PTL DEF Safety
-----------------------------------------------------------------------------
\* Sequence numbers are the two values of one bit.
LEMMA Bits ==
    ASSUME NEW k \in SeqNr
    PROVE  /\ inc(k) = 1 - k /\ 1 - k \in SeqNr /\ 1 - k # k /\ 1 - (1 - k) = k
           /\ \A a \in SeqNr \cup {NoAck} : a # k /\ a # 1 - k => a = NoAck
BY DEF SeqNr, MAX_SEQ, inc, NoAck

\* The part of the type invariant the arithmetic below needs.
LEMMA Numbers ==
    ASSUME TypeOK
    PROVE  /\ buffer \in Nat /\ (buffer = 0 <=> sdl = "start")
           /\ Len(delivered) \in Nat
           /\ next_frame_to_send \in SeqNr /\ frame_expected \in SeqNr
           /\ sdl_to_spl_pkg.info \in Nat /\ rpl_to_rdl.info \in Nat
           /\ Len(frames) \in Nat /\ \A i \in 1 .. Len(frames) : frames[i].info \in Nat
           /\ rpl_to_rdl.seq \in SeqNr => rpl_to_rdl.info > 0
<1>1. \A f \in Frame \cup {NoFrame} : f.info \in Nat /\ (f.seq \in SeqNr => f.info > 0)
  BY Protocol3Assumption DEF Frame, NoFrame, SeqNr, MAX_SEQ
<1>2. \A i \in 1 .. Len(frames) : frames[i] \in Frame \cup {NoFrame}
  BY DEF TypeOK
<1>3. buffer \in Nat /\ (buffer = 0 <=> sdl = "start")
  BY Protocol3Assumption DEF TypeOK
<1>4. QED
  BY <1>1, <1>2, <1>3 DEF TypeOK

\* SDL fetches a packet: what was the packet being sent becomes the one before.
LEMMA NewPacketStep ==
    ASSUME TypeOK, ArqInv, SdlFirstPacket \/ SdlNextPacket
    PROVE  ArqInv'
<1> USE DEF ArqInv, splVars, toSpl, toSdl, rplVars, rdlVars, rnlVars, receiverVars
<1>1. Len(delivered) = buffer /\ ~HandingOver
  <2>1. CASE SdlFirstPacket
    BY <2>1, Numbers DEF SdlFirstPacket, InOrderExactlyOnce, ExpectedInv, HandingOver
  <2>2. CASE SdlNextPacket
    BY <2>2, Numbers DEF SdlNextPacket, SdlInv, AcksInv, Accepted, HandingOver
  <2>3. QED
    BY <2>1, <2>2
<1>2. buffer' = buffer + 1 /\ sdl' = "post"
  BY DEF SdlFirstPacket, SdlNextPacket
<1>3. UNCHANGED <<sdl_to_spl_pkg, rpl_to_rdl, frames, delivered, rdl, frame_expected,
                  spl_to_sdl, rdl_to_rpl_pkg, acks>>
  BY DEF SdlFirstPacket, SdlNextPacket
<1>4. InOrderExactlyOnce'
  BY <1>1, <1>2, <1>3, Numbers DEF InOrderExactlyOnce
<1>5. next_frame_to_send' = IF buffer = 0 THEN next_frame_to_send
                                          ELSE 1 - next_frame_to_send
  BY Bits, Numbers DEF SdlFirstPacket, SdlNextPacket
<1>6. FramesInv'
  <2>1. ASSUME NEW f, Numbered(f), f.info \in Nat, f.info =< buffer,
               Len(delivered) =< f.info
        PROVE  Numbered(f)'
    BY <2>1, <1>1, <1>2, <1>5, Bits, Numbers DEF Numbered
  <2>2. QED
    BY <2>1, <1>1, <1>2, <1>3, Numbers DEF FramesInv
<1>7. ~Accepted'
  BY <1>1, <1>2, <1>3, Numbers DEF Accepted, HandingOver
<1>8. ExpectedInv'
  BY <1>1, <1>2, <1>3, <1>5, <1>7, Bits, Numbers DEF ExpectedInv, Accepted, HandingOver
<1>9. AcksInv'
  BY <1>1, <1>2, <1>3, <1>5, <1>7, Bits, Numbers DEF AcksInv, Accepted, HandingOver, SdlInv, SdlNextPacket, SdlFirstPacket
<1>10. SdlInv'
  BY <1>2, Numbers DEF SdlInv
<1>11. QED
  BY <1>4, <1>6, <1>8, <1>9, <1>10

\* RDL accepts a frame only if it is of the packet being sent, not yet accepted.
LEMMA AcceptStep ==
    ASSUME TypeOK, ArqInv, RdlAccept
    PROVE  /\ ArqInv' /\ Len(delivered) < buffer
           /\ delivered' = Append(delivered, Len(delivered) + 1)
<1> USE DEF ArqInv, sdlVars, splVars, toSpl, rplVars, senderVars
<1>1. rpl_to_rdl.seq = frame_expected /\ rpl_to_rdl.info > 0 /\ rdl = "read"
  BY Numbers DEF RdlAccept
<1>2. Len(delivered) = buffer - 1 /\ rpl_to_rdl.info = buffer /\ buffer > 0
  <2>1. rpl_to_rdl.info =< buffer /\ Len(delivered) =< rpl_to_rdl.info
    BY Numbers DEF FramesInv
  <2>2. Len(delivered) # buffer
    BY <1>1, <2>1, Bits, Numbers DEF FramesInv, Numbered, ExpectedInv, Accepted, HandingOver
  <2>3. Len(delivered) = buffer - 1
    BY <2>2, Numbers DEF InOrderExactlyOnce
  <2>4. rpl_to_rdl.info # buffer - 1
    BY <1>1, <2>3, Bits, Numbers DEF FramesInv, Numbered, ExpectedInv, Accepted, HandingOver
  <2>5. QED
    BY <1>1, <2>1, <2>3, <2>4, Numbers
<1>3. /\ delivered' = Append(delivered, buffer) /\ rdl' = "fill"
      /\ UNCHANGED <<sdl, buffer, next_frame_to_send, sdl_to_spl_pkg, rpl_to_rdl, frames,
                     frame_expected, spl_to_sdl, rdl_to_rpl_pkg, acks>>
  BY <1>2 DEF RdlAccept
<1>4. /\ Len(delivered') = buffer
      /\ \A i \in 1 .. Len(delivered) : delivered'[i] = delivered[i]
      /\ delivered'[buffer] = buffer
  BY <1>2, <1>3, Numbers DEF TypeOK
<1>5. InOrderExactlyOnce'
  BY <1>2, <1>3, <1>4, Numbers DEF InOrderExactlyOnce
<1>6. FramesInv'
  <2>1. \A f : Numbered(f)' <=> Numbered(f)
    BY <1>3 DEF Numbered
  <2>2. QED
    BY <2>1, <1>2, <1>3, <1>4 DEF FramesInv, Numbered
<1>7. ~Accepted /\ ~Accepted'
  BY <1>2, <1>3, Numbers DEF Accepted, HandingOver
<1>8. ExpectedInv' /\ AcksInv' /\ SdlInv'
  BY <1>2, <1>3, <1>4, <1>7 DEF ExpectedInv, HandingOver, AcksInv, SdlInv
<1>9. QED
  BY <1>2, <1>3, <1>5, <1>6, <1>8, Numbers

\* A frame enters or leaves the files and the socket between SDL and RDL.
LEMMA FrameStep ==
    ASSUME TypeOK, ArqInv, SdlPost \/ SplSend \/ RplDropFrame \/ RplPassFrame
    PROVE  ArqInv'
<1> USE DEF ArqInv, sdlVars, splVars, toSpl, rplVars, rdlVars, senderVars, receiverVars
<1>1. UNCHANGED <<buffer, next_frame_to_send, delivered, rdl, frame_expected,
                  spl_to_sdl, rdl_to_rpl_pkg, acks>>
  BY DEF SdlPost, SplSend, RplDropFrame, RplPassFrame
<1>2. InOrderExactlyOnce' /\ ExpectedInv' /\ AcksInv'
  BY <1>1 DEF InOrderExactlyOnce, ExpectedInv, AcksInv, Accepted, HandingOver
<1>3. SdlInv'
  BY <1>1, Numbers DEF SdlInv, SdlPost, SplSend, RplDropFrame, RplPassFrame
<1>4. \A f : Numbered(f)' <=> Numbered(f)
  BY <1>1 DEF Numbered
<1>5. CASE SdlPost
  <2>1. Numbered([seq |-> next_frame_to_send, info |-> buffer])
    BY Numbers DEF Numbered
  <2>2. FramesInv'
    BY <1>1, <1>4, <1>5, <2>1, Numbers DEF FramesInv, SdlPost
  <2>3. QED
    BY <1>2, <1>3, <2>2
<1>6. CASE SplSend
  <2>1. /\ frames' = Append(frames, sdl_to_spl_pkg)
        /\ UNCHANGED <<sdl_to_spl_pkg, rpl_to_rdl>>
    BY <1>6 DEF SplSend
  <2>2. /\ Len(frames') = Len(frames) + 1
        /\ \A i \in 1 .. Len(frames) : frames'[i] = frames[i]
        /\ frames'[Len(frames) + 1] = sdl_to_spl_pkg
    BY <2>1 DEF TypeOK
  <2>3. FramesInv'
    BY <1>1, <1>4, <2>1, <2>2, Numbers DEF FramesInv
  <2>4. QED
    BY <1>2, <1>3, <2>3
<1>7. CASE RplDropFrame \/ RplPassFrame
  <2>1. /\ frames # << >> /\ frames' = Tail(frames) /\ sdl_to_spl_pkg' = sdl_to_spl_pkg
        /\ rpl_to_rdl' \in {rpl_to_rdl, Head(frames)}
    BY <1>7 DEF RplDropFrame, RplPassFrame
  <2>2. /\ Len(frames) > 0 /\ Head(frames) = frames[1] /\ Len(frames') = Len(frames) - 1
        /\ \A i \in 1 .. Len(frames') : frames'[i] = frames[i + 1]
    BY <2>1, HeadAndTail DEF TypeOK
  <2>3. \A i \in 1 .. Len(frames') : i + 1 \in 1 .. Len(frames)
    BY <2>2, Numbers
  <2>4. /\ Numbered(rpl_to_rdl') /\ Len(delivered) =< rpl_to_rdl'.info
        /\ rpl_to_rdl'.info =< sdl_to_spl_pkg.info
        /\ \A i \in 1 .. Len(frames') : rpl_to_rdl'.info =< frames'[i].info
    <3>1. CASE rpl_to_rdl' = rpl_to_rdl
      BY <2>2, <2>3, <3>1 DEF FramesInv
    <3>2. CASE rpl_to_rdl' = frames[1]
      <4>1. 1 \in 1 .. Len(frames) /\ \A i \in 1 .. Len(frames') : 1 < i + 1
        BY <2>2, Numbers
      <4>2. Len(delivered) =< frames[1].info
        BY <4>1, Numbers DEF FramesInv
      <4>3. QED
        BY <2>2, <2>3, <3>2, <4>1, <4>2 DEF FramesInv
    <3>3. QED
      BY <2>1, <2>2, <3>1, <3>2
  <2>5. \A i \in 1 .. Len(frames') :
           Numbered(frames'[i]) /\ frames'[i].info =< sdl_to_spl_pkg.info
    BY <2>2, <2>3 DEF FramesInv
  <2>6. \A i, j \in 1 .. Len(frames') : i < j => frames'[i].info =< frames'[j].info
    <3>1. TAKE i, j \in 1 .. Len(frames')
    <3>2. HAVE i < j
    <3>3. i + 1 \in 1 .. Len(frames) /\ j + 1 \in 1 .. Len(frames) /\ i + 1 < j + 1
      BY <2>3, <3>2
    <3>4. frames[i + 1].info =< frames[j + 1].info
      BY <3>3 DEF FramesInv
    <3>5. QED
      BY <2>2, <3>4
  <2>7. FramesInv'
    BY <1>1, <1>4, <2>1, <2>4, <2>5, <2>6 DEF FramesInv
  <2>8. QED
    BY <1>2, <1>3, <2>7
<1>8. QED
  BY <1>5, <1>6, <1>7

\* RDL counts the packet it has handed over: from now on its acknowledgement counts.
LEMMA CountStep ==
    ASSUME TypeOK, ArqInv, RdlSignalRnl
    PROVE  ArqInv'
<1> USE DEF ArqInv, sdlVars, splVars, toSpl, rplVars, senderVars
<1>1. /\ rdl = "handover" /\ rdl' = "ack" /\ frame_expected' = 1 - frame_expected
      /\ UNCHANGED <<sdl, buffer, next_frame_to_send, sdl_to_spl_pkg, rpl_to_rdl, frames,
                     delivered, spl_to_sdl, rdl_to_rpl_pkg, acks>>
  BY Bits, Numbers DEF RdlSignalRnl
<1>2. ~Accepted /\ Accepted'
  BY <1>1, Numbers DEF ExpectedInv, Accepted, HandingOver
<1>3. InOrderExactlyOnce' /\ FramesInv' /\ SdlInv'
  BY <1>1 DEF InOrderExactlyOnce, FramesInv, Numbered, SdlInv
<1>4. ExpectedInv'
  BY <1>1, <1>2 DEF ExpectedInv, HandingOver
<1>5. AcksInv'
  BY <1>1, <1>2 DEF AcksInv
<1>6. QED
  BY <1>3, <1>4, <1>5

\* An acknowledgement enters RDL's file, the socket or SDL's file.
LEMMA AckStep ==
    ASSUME TypeOK, ArqInv, RdlAck \/ RplSendAck \/ SplDamagedAck \/ SplLostAck \/ SplPassAck
    PROVE  ArqInv'
<1> USE DEF ArqInv, sdlVars, splVars, toSpl, rplVars, rdlVars, senderVars, receiverVars
<1>1. /\ UNCHANGED <<sdl, buffer, next_frame_to_send, sdl_to_spl_pkg, rpl_to_rdl, frames,
                     delivered, frame_expected>>
      /\ Accepted' = Accepted /\ HandingOver' = HandingOver
  BY DEF RdlAck, RplSendAck, SplDamagedAck, SplLostAck, SplPassAck, Accepted, HandingOver
<1>2. InOrderExactlyOnce' /\ FramesInv' /\ ExpectedInv'
  BY <1>1 DEF InOrderExactlyOnce, FramesInv, Numbered, ExpectedInv, HandingOver
<1>3. CASE RdlAck
  <2>1. rdl_to_rpl_pkg' = 1 - frame_expected /\ rdl = "ack" /\ UNCHANGED <<acks, spl_to_sdl>>
    BY <1>3 DEF RdlAck
  <2>2. 1 - frame_expected = next_frame_to_send <=> Accepted
    BY <2>1, Bits, Numbers DEF ExpectedInv, HandingOver
  <2>3. AcksInv' /\ SdlInv'
    BY <1>1, <2>1, <2>2 DEF AcksInv, SdlInv
  <2>4. QED
    BY <1>2, <2>3
<1>4. CASE RplSendAck
  <2>1. acks' = Append(acks, rdl_to_rpl_pkg) /\ UNCHANGED <<rdl_to_rpl_pkg, spl_to_sdl>>
    BY <1>4 DEF RplSendAck
  <2>2. /\ Len(acks') = Len(acks) + 1 /\ Len(acks) \in Nat
        /\ \A i \in 1 .. Len(acks) : acks'[i] = acks[i]
        /\ acks'[Len(acks) + 1] = rdl_to_rpl_pkg
    BY <2>1 DEF TypeOK
  <2>3. AcksInv' /\ SdlInv'
    BY <1>1, <2>1, <2>2 DEF AcksInv, SdlInv
  <2>4. QED
    BY <1>2, <2>3
<1>5. CASE SplDamagedAck \/ SplLostAck \/ SplPassAck
  <2>1. PICK n \in 1 .. Len(acks) :
            /\ acks' = SubSeq(acks, n + 1, Len(acks))
            /\ rdl_to_rpl_pkg' = rdl_to_rpl_pkg
            /\ spl_to_sdl' \in {spl_to_sdl, acks[1]}
    BY <1>5 DEF SplDamagedAck, SplLostAck, SplPassAck, SplTakesAcks
  <2>2. /\ Len(acks') = Len(acks) - n /\ Len(acks) \in Nat /\ n \in Nat
        /\ \A i \in 1 .. Len(acks') : acks'[i] = acks[i + n]
        /\ 1 \in 1 .. Len(acks)
    <3>1. acks \in Seq(SeqNr \cup {NoAck})
      BY DEF TypeOK
    <3>2. /\ Len(acks') = Len(acks) - n
          /\ \A i \in 1 .. Len(acks') : acks'[i] = acks[i + n]
      BY <2>1, <3>1, DropFront
    <3>3. QED
      BY <3>1, <3>2
  <2>3. ~Accepted' => /\ spl_to_sdl' # next_frame_to_send'
                      /\ rdl_to_rpl_pkg' # next_frame_to_send'
                      /\ \A i \in 1 .. Len(acks') : acks'[i] # next_frame_to_send'
    BY <1>1, <2>1, <2>2 DEF AcksInv
  <2>4. spl_to_sdl' = next_frame_to_send =>
          /\ rdl_to_rpl_pkg = next_frame_to_send
          /\ \A i \in 1 .. Len(acks') : acks'[i] = next_frame_to_send
    BY <2>1, <2>2 DEF AcksInv
  <2>5. ASSUME NEW i \in 1 .. Len(acks'), acks'[i] = next_frame_to_send
        PROVE  /\ rdl_to_rpl_pkg = next_frame_to_send
               /\ \A j \in i .. Len(acks') : acks'[j] = next_frame_to_send
    <3>1. i + n \in 1 .. Len(acks) /\ acks[i + n] = next_frame_to_send
      BY <2>2, <2>5
    <3>2. rdl_to_rpl_pkg = next_frame_to_send
      BY <3>1 DEF AcksInv
    <3>3. ASSUME NEW j \in i .. Len(acks') PROVE acks'[j] = next_frame_to_send
      <4>1. j \in 1 .. Len(acks') /\ j + n \in i + n .. Len(acks)
        BY <2>2
      <4>2. acks[j + n] = next_frame_to_send
        BY <3>1, <4>1 DEF AcksInv
      <4>3. QED
        BY <2>2, <4>1, <4>2
    <3>4. QED
      BY <3>2, <3>3
  <2>6. AcksInv'
    BY <1>1, <2>1, <2>3, <2>4, <2>5 DEF AcksInv
  <2>7. SdlInv'
    BY <1>1, <2>1, <2>2 DEF SdlInv, AcksInv
  <2>8. QED
    BY <1>2, <2>6, <2>7
<1>6. QED
  BY <1>3, <1>4, <1>5

\* Every other step moves program counters and flags only.
LEMMA OtherStep ==
    ASSUME TypeOK, ArqInv,
           \/ SdlSignal \/ SdlTimeout \/ SdlFrameArrival \/ SdlCksumErr \/ SdlRead
           \/ SplClearFlag \/ SplSignal \/ RplSignal \/ RplClearFlag
           \/ RdlFrameArrival \/ RdlFill \/ RdlIgnore \/ RdlSignalRpl
           \/ Rnl \/ UNCHANGED vars
    PROVE  ArqInv'
<1> USE DEF ArqInv, sdlVars, splVars, toSpl, rplVars, rdlVars, senderVars, receiverVars
<1>1. /\ UNCHANGED <<buffer, next_frame_to_send, sdl_to_spl_pkg, rpl_to_rdl, frames,
                     delivered, frame_expected, acks, spl_to_sdl, rdl_to_rpl_pkg>>
      /\ \/ rdl' = rdl
         \/ {rdl, rdl'} \subseteq {"wait", "read", "ack", "signal"}
         \/ {rdl, rdl'} \subseteq {"fill", "handover"}
      /\ \/ sdl' = sdl
         \/ {sdl, sdl'} \subseteq {"post", "signal", "wait", "read"}
         \/ sdl = "read" /\ sdl' = "fetch" /\ spl_to_sdl = next_frame_to_send
  BY DEF SdlSignal, SdlTimeout, SdlFrameArrival, SdlCksumErr, SdlRead, SplClearFlag,
         SplSignal, RplSignal, RplClearFlag, RdlFrameArrival, RdlFill, RdlIgnore,
         RdlSignalRpl, Rnl, RnlAppend, RnlClearFlag, vars
<1>2. Accepted' = Accepted /\ HandingOver' = HandingOver
  BY <1>1 DEF Accepted, HandingOver
<1>3. InOrderExactlyOnce' /\ FramesInv' /\ ExpectedInv' /\ AcksInv'
  BY <1>1, <1>2 DEF InOrderExactlyOnce, FramesInv, Numbered, ExpectedInv, HandingOver, AcksInv
<1>4. SdlInv'
  BY <1>1, Numbers DEF SdlInv
<1>5. QED
  BY <1>3, <1>4
-----------------------------------------------------------------------------
\* The strengthening above holds in every reachable state.
THEOREM Inductive == Safety => []IndInv
<1>1. Init => ArqInv
  BY DEF Init, ArqInv, InOrderExactlyOnce, FramesInv, Numbered, ExpectedInv, Accepted, HandingOver,
         AcksInv, SdlInv, NoFrame, NoAck
<1>2. TypeOK /\ ArqInv /\ [Next]_vars => ArqInv'
  BY NewPacketStep, AcceptStep, FrameStep, CountStep, AckStep, OtherStep
     DEF Next, Sdl, Spl, Rpl, Rdl
<1>3. QED
  BY <1>1, <1>2, TypeCorrect, PTL DEF Safety, IndInv

\* Whatever is damaged, lost, repeated or overwritten between the files, and
\* whatever the timer does, to_network_layer gets every packet once and in order.
THEOREM Delivery == Safety => []InOrderExactlyOnce
<1>1. IndInv => InOrderExactlyOnce
  BY DEF IndInv, ArqInv
<1>2. QED
  BY <1>1, Inductive, PTL

\* SDL never takes an old acknowledgement for that of the packet it is sending.
THEOREM NoFalseAck == Safety => []RightAckMeansDelivered
<1>1. IndInv => RightAckMeansDelivered
  BY DEF IndInv, ArqInv, AcksInv, Accepted, HandingOver, RightAckMeansDelivered
<1>2. QED
  BY <1>1, Inductive, PTL

\* Every step of the processes is a step of the service of window 1, or none.
THEOREM Refinement == Safety => RefinesService
<1>1. Init => Service!Init
  BY DEF Init, Service!Init
<1>2. IndInv /\ [Next]_vars => [Service!Next]_(Service!vars)
  <2> SUFFICES ASSUME IndInv, [Next]_vars PROVE [Service!Next]_(Service!vars)
    OBVIOUS
  <2> USE DEF IndInv, sdlVars, splVars, toSpl, rplVars, rdlVars, rnlVars,
              senderVars, receiverVars
  <2>1. CASE SdlFirstPacket \/ SdlNextPacket
    <3>1. Len(delivered) = buffer
      BY <2>1, Numbers DEF ArqInv, SdlFirstPacket, SdlNextPacket, InOrderExactlyOnce,
                           SdlInv, AcksInv, Accepted
    <3>2. Service!Fetch
      BY <2>1, <3>1, Numbers DEF SdlFirstPacket, SdlNextPacket, Service!Fetch
    <3>3. QED
      BY <3>2 DEF Service!Next
  <2>2. CASE RdlAccept
    <3>1. Service!HandOver
      BY <2>2, AcceptStep DEF Service!HandOver, RdlAccept
    <3>2. QED
      BY <3>1 DEF Service!Next
  <2>3. CASE UNCHANGED <<buffer, delivered>>
    BY <2>3 DEF Service!vars
  <2>4. CASE SdlPost \/ SdlSignal \/ SdlTimeout \/ SdlFrameArrival \/ SdlCksumErr \/ SdlRead
    BY <2>3, <2>4 DEF SdlPost, SdlSignal, SdlTimeout, SdlFrameArrival, SdlCksumErr, SdlRead
  <2>5. CASE Spl
    BY <2>3, <2>5 DEF Spl, SplSend, SplClearFlag, SplDamagedAck, SplLostAck, SplPassAck,
                      SplSignal
  <2>6. CASE Rpl
    BY <2>3, <2>6 DEF Rpl, RplDropFrame, RplPassFrame, RplSignal, RplSendAck, RplClearFlag
  <2>7. CASE RdlFrameArrival \/ RdlFill \/ RdlIgnore \/ RdlSignalRnl \/ RdlAck \/ RdlSignalRpl
    BY <2>3, <2>7 DEF RdlFrameArrival, RdlFill, RdlIgnore, RdlSignalRnl, RdlAck, RdlSignalRpl
  <2>8. CASE Rnl \/ UNCHANGED vars
    BY <2>3, <2>8 DEF Rnl, RnlAppend, RnlClearFlag, vars
  <2>9. QED
    BY <2>1, <2>2, <2>4, <2>5, <2>6, <2>7, <2>8 DEF Next, Sdl, Rdl
<1>3. QED
  BY <1>1, <1>2, Inductive, PTL DEF Safety, RefinesService, Service!Safety
-----------------------------------------------------------------------------
(* What is read was written *)

\* From SDL's file to RNL's, and back to SDL's: where a flag is set, or a process
\* is about to set or to read it, the file it speaks of was written.
WrittenInv ==
    /\ sdl \in {"signal", "wait", "read", "fetch"} \/ spl_should_read = 1
          => sdl_to_spl_pkg # NoFrame
    /\ \A i \in 1 .. Len(frames) : frames[i] # NoFrame
    /\ rpl = "signal" \/ rpl_flag = 1 \/ rdl = "read" => rpl_to_rdl # NoFrame
    /\ HandingOver \/ rdl_flag = 1 => delivered # << >>
    /\ rdl = "signal" \/ rpl_send_flag = 1 => rdl_to_rpl_pkg # NoAck
    /\ spl = "signal" \/ spl_ack_flag = 1 \/ sdl = "read" => spl_to_sdl # NoAck

LEMMA WrittenStep ==
    ASSUME TypeOK, WrittenInv, [Next]_vars
    PROVE  WrittenInv'
<1> USE DEF WrittenInv, HandingOver, sdlVars, splVars, toSpl, toSdl, rplVars, rdlVars,
            rnlVars, senderVars, receiverVars
<1>0. \A n \in SeqNr : \A p : n # NoAck /\ [seq |-> n, info |-> p] # NoFrame
  BY DEF SeqNr, MAX_SEQ, NoAck, NoFrame
<1>1. CASE SdlPost
  <2>1. sdl_to_spl_pkg' # NoFrame
    BY <1>0, <1>1 DEF SdlPost, TypeOK
  <2>2. QED
    BY <1>1, <2>1 DEF SdlPost
<1>2. CASE SplSend
  <2>1. /\ Len(frames') = Len(frames) + 1 /\ frames'[Len(frames) + 1] # NoFrame
        /\ \A i \in 1 .. Len(frames) : frames'[i] = frames[i]
    BY <1>2 DEF SplSend, TypeOK
  <2>2. Len(frames) \in Nat
    BY DEF TypeOK
  <2>3. \A i \in 1 .. Len(frames') : frames'[i] # NoFrame
    BY <2>1, <2>2
  <2>4. QED
    BY <1>2, <2>3 DEF SplSend
<1>3. CASE SplPassAck
  BY <1>0, <1>3 DEF SplPassAck
<1>4. CASE RplDropFrame \/ RplPassFrame
  <2>1. frames # << >> /\ frames' = Tail(frames) /\ frames \in Seq(Frame \cup {NoFrame})
    BY <1>4 DEF RplDropFrame, RplPassFrame, TypeOK
  <2>2. /\ Head(frames) = frames[1] /\ Len(frames') = Len(frames) - 1
        /\ Len(frames) \in Nat \ {0}
        /\ \A i \in 1 .. Len(frames') : frames'[i] = frames[i + 1]
    BY <2>1, HeadAndTail
  <2>3. Head(frames) # NoFrame /\ \A i \in 1 .. Len(frames') : frames'[i] # NoFrame
    BY <2>2
  <2>4. QED
    BY <1>4, <2>3 DEF RplDropFrame, RplPassFrame
<1>5. CASE RdlAccept \/ RdlFill
  <2>1. delivered' # << >>
    BY <1>5 DEF RdlAccept, RdlFill, HandingOver, TypeOK
  <2>2. QED
    BY <1>5, <2>1 DEF RdlAccept, RdlFill
<1>6. CASE RdlAck
  <2>1. 1 - frame_expected \in SeqNr
    BY DEF TypeOK, SeqNr, MAX_SEQ
  <2>2. QED
    BY <1>0, <1>6, <2>1 DEF RdlAck
<1>7. CASE \/ SdlFirstPacket \/ SdlNextPacket \/ SdlSignal \/ SdlTimeout
           \/ SdlFrameArrival \/ SdlCksumErr \/ SdlRead
  BY <1>7 DEF SdlFirstPacket, SdlNextPacket, SdlSignal, SdlTimeout, SdlFrameArrival,
              SdlCksumErr, SdlRead
<1>8. CASE SplClearFlag \/ SplDamagedAck \/ SplLostAck \/ SplSignal
  BY <1>8 DEF SplClearFlag, SplDamagedAck, SplLostAck, SplSignal
<1>9. CASE RplSignal \/ RplSendAck \/ RplClearFlag
  BY <1>9 DEF RplSignal, RplSendAck, RplClearFlag
<1>10. CASE RdlFrameArrival \/ RdlIgnore \/ RdlSignalRnl \/ RdlSignalRpl
  BY <1>10 DEF RdlFrameArrival, RdlIgnore, RdlSignalRnl, RdlSignalRpl
<1>11. CASE Rnl \/ UNCHANGED vars
  BY <1>11 DEF Rnl, RnlAppend, RnlClearFlag, vars
<1>12. QED
  BY <1>1, <1>2, <1>3, <1>4, <1>5, <1>6, <1>7, <1>8, <1>9, <1>10, <1>11
     DEF Next, Sdl, Spl, Rpl, Rdl

\* No process is signalled to read, or reads, a file that does not exist.
THEOREM WrittenBeforeRead == Safety => []FilesAreWrittenBeforeRead
<1>1. Init => WrittenInv
  BY DEF Init, WrittenInv, HandingOver, NoFrame
<1>2. TypeOK /\ WrittenInv /\ [Next]_vars => WrittenInv'
  BY WrittenStep
<1>3. TypeOK /\ WrittenInv => FilesAreWrittenBeforeRead
  BY DEF WrittenInv, FilesAreWrittenBeforeRead
<1>4. QED
  BY <1>1, <1>2, <1>3, TypeCorrect, PTL DEF Safety
-----------------------------------------------------------------------------
(* recv_test.txt *)

\* A signal RNL will act on, or that RDL has still to send.
Pending == (IF rdl_flag = 1 /\ rnl = "poll" THEN 1 ELSE 0) + (IF HandingOver THEN 1 ELSE 0)

\* The file holds the packet handed over last, or is empty; and RNL has appended at most
\* once for each signal of RDL.
RecvInv ==
    /\ rdl_to_rnl \in {Empty, Len(delivered)}
    /\ RecvTestNeverReordered
    /\ Len(recv_test) + Pending =< Len(delivered)

LEMMA RecvStep ==
    ASSUME IndInv, RecvInv, [Next]_vars
    PROVE  RecvInv'
<1> USE DEF sdlVars, splVars, toSpl, toSdl, rplVars, rdlVars, rnlVars,
            senderVars, receiverVars
<1>0. /\ Len(recv_test) \in Nat /\ Len(delivered) \in Nat /\ recv_test \in Seq(0 .. Packets)
      /\ Pending \in Nat
  BY DEF IndInv, TypeOK, Pending
<1>1. CASE RnlAppend
  <2>1. /\ rnl = "poll" /\ rdl_flag = 1 /\ rnl' = "clear"
        /\ recv_test' = Append(recv_test, recvbuf(rdl_to_rnl))
        /\ UNCHANGED <<delivered, rdl, rdl_flag, rdl_to_rnl>>
    BY <1>1 DEF RnlAppend
  <2>2. /\ Len(recv_test') = Len(recv_test) + 1
        /\ recv_test'[Len(recv_test) + 1] = recvbuf(rdl_to_rnl)
        /\ \A i \in 1 .. Len(recv_test) : recv_test'[i] = recv_test[i]
    BY <1>0, <2>1
  <2>3. /\ recvbuf(rdl_to_rnl) \in 0 .. Len(delivered)
        /\ \A i \in 1 .. Len(recv_test) : recv_test[i] =< recvbuf(rdl_to_rnl)
    <3>1. CASE rdl_to_rnl # Empty
      <4>1. recvbuf(rdl_to_rnl) = Len(delivered)
        BY <3>1 DEF recvbuf, RecvInv
      <4>2. QED
        BY <1>0, <4>1 DEF RecvInv, RecvTestNeverReordered
    <3>2. CASE rdl_to_rnl = Empty /\ recv_test = << >>
      BY <1>0, <3>2 DEF recvbuf, Garbage
    <3>3. CASE rdl_to_rnl = Empty /\ recv_test # << >>
      <4>1. Len(recv_test) \in 1 .. Len(recv_test)
        BY <1>0, <3>3
      <4>2. recvbuf(rdl_to_rnl) = recv_test[Len(recv_test)]
        BY <3>3 DEF recvbuf
      <4>3. ASSUME NEW i \in 1 .. Len(recv_test)
            PROVE  recv_test[i] =< recv_test[Len(recv_test)]
        <5>1. CASE i = Len(recv_test)
          BY <4>1, <5>1 DEF RecvInv, RecvTestNeverReordered
        <5>2. CASE i < Len(recv_test)
          BY <4>1, <5>2 DEF RecvInv, RecvTestNeverReordered
        <5>3. QED
          BY <1>0, <5>1, <5>2
      <4>4. QED
        BY <4>1, <4>2, <4>3 DEF RecvInv, RecvTestNeverReordered
    <3>4. QED
      BY <3>1, <3>2, <3>3
  <2>4. Len(recv_test') + Pending' =< Len(delivered')
    BY <1>0, <2>1, <2>2 DEF RecvInv, Pending, HandingOver
  <2>5. RecvTestNeverReordered'
    <3>1. \A i \in 1 .. Len(recv_test') : recv_test'[i] \in 0 .. Len(delivered')
      BY <1>0, <2>1, <2>2, <2>3 DEF RecvInv, RecvTestNeverReordered
    <3>2. \A i, j \in 1 .. Len(recv_test') : i < j => recv_test'[i] =< recv_test'[j]
      BY <1>0, <2>2, <2>3 DEF RecvInv, RecvTestNeverReordered
    <3>3. Pending' \in Nat
      BY DEF Pending
    <3>4. QED
      BY <1>0, <2>1, <2>2, <2>4, <3>1, <3>2, <3>3 DEF RecvTestNeverReordered
  <2>6. QED
    BY <2>1, <2>4, <2>5 DEF RecvInv
<1>2. CASE RdlAccept
  <2>1. delivered' = Append(delivered, Len(delivered) + 1)
    BY <1>2, AcceptStep DEF IndInv
  <2>2. /\ Len(delivered') = Len(delivered) + 1 /\ rdl = "read" /\ rdl' = "fill"
        /\ rdl_to_rnl' = Empty /\ UNCHANGED <<recv_test, rnl, rdl_flag>>
    BY <1>2, <2>1 DEF RdlAccept, IndInv, TypeOK
  <2>3. Len(recv_test') + Pending' =< Len(delivered')
    BY <1>0, <2>2 DEF RecvInv, Pending, HandingOver
  <2>4. RecvTestNeverReordered'
    BY <1>0, <2>2 DEF RecvInv, RecvTestNeverReordered
  <2>5. QED
    BY <2>2, <2>3, <2>4 DEF RecvInv
<1>3. CASE RdlFill
  <2>1. delivered[Len(delivered)] = Len(delivered)
    BY <1>0, <1>3 DEF RdlFill, HandingOver, IndInv, ArqInv, ExpectedInv, InOrderExactlyOnce
  <2>2. /\ rdl_to_rnl' = Len(delivered) /\ rdl = "fill" /\ rdl' = "handover"
        /\ UNCHANGED <<delivered, recv_test, rnl, rdl_flag>>
    BY <1>3, <2>1 DEF RdlFill
  <2>3. QED
    BY <2>2 DEF RecvInv, RecvTestNeverReordered, Pending, HandingOver
<1>4. CASE RdlSignalRnl
  <2>1. /\ rdl = "handover" /\ rdl' = "ack" /\ rdl_flag' = 1
        /\ UNCHANGED <<delivered, rdl_to_rnl, recv_test, rnl>>
    BY <1>4 DEF RdlSignalRnl
  <2>2. Pending' =< Pending
    BY <2>1 DEF Pending, HandingOver
  <2>3. Pending' \in Nat
    BY DEF Pending
  <2>4. QED
    BY <1>0, <2>1, <2>2, <2>3 DEF RecvInv, RecvTestNeverReordered
<1>5. CASE RnlClearFlag
  <2>1. /\ rnl = "clear" /\ rdl_flag' = 0
        /\ UNCHANGED <<delivered, rdl_to_rnl, recv_test, rdl>>
    BY <1>5 DEF RnlClearFlag
  <2>2. Pending' = Pending
    BY <2>1 DEF Pending, HandingOver
  <2>3. QED
    BY <2>1, <2>2 DEF RecvInv, RecvTestNeverReordered
<1>6. CASE /\ UNCHANGED <<delivered, rdl_to_rnl, recv_test, rdl_flag, rnl>>
           /\ HandingOver' = HandingOver
  BY <1>6 DEF RecvInv, RecvTestNeverReordered, Pending
<1>7. CASE Sdl
  BY <1>6, <1>7 DEF Sdl, SdlFirstPacket, SdlNextPacket, SdlPost, SdlSignal, SdlTimeout,
                    SdlFrameArrival, SdlCksumErr, SdlRead, HandingOver
<1>8. CASE Spl
  BY <1>6, <1>8 DEF Spl, SplSend, SplClearFlag, SplDamagedAck, SplLostAck, SplPassAck,
                    SplSignal, HandingOver
<1>9. CASE Rpl
  BY <1>6, <1>9 DEF Rpl, RplDropFrame, RplPassFrame, RplSignal, RplSendAck, RplClearFlag,
                    HandingOver
<1>10. CASE RdlFrameArrival \/ RdlIgnore \/ RdlAck \/ RdlSignalRpl \/ UNCHANGED vars
  BY <1>6, <1>10 DEF RdlFrameArrival, RdlIgnore, RdlAck, RdlSignalRpl, vars, HandingOver
<1>11. QED
  BY <1>1, <1>2, <1>3, <1>4, <1>5, <1>7, <1>8, <1>9, <1>10 DEF Next, Rdl, Rnl

\* Whatever RNL misses, reads early or finds empty, recv_test.txt is never out of order,
\* and never holds more packets than were handed over.
THEOREM RecvTestOrder == Safety => []RecvTestNeverReordered
<1>1. Init => RecvInv
  BY DEF Init, RecvInv, RecvTestNeverReordered, Pending, HandingOver, Empty
<1>2. IndInv /\ RecvInv /\ [Next]_vars => RecvInv'
  BY RecvStep
<1>3. RecvInv => RecvTestNeverReordered
  BY DEF RecvInv
<1>4. QED
  BY <1>1, <1>2, <1>3, Inductive, PTL DEF Safety
=============================================================================
