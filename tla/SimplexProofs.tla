---------------------------- MODULE SimplexProofs ----------------------------
(***************************************************************************)
(* Proofs about the two simplex protocols, for every number of packets and *)
(* every socket capacity.  First protocol 2: a frame or its                *)
(* acknowledgement is in exactly one place, and the protocol implements    *)
(* DataLinkService with a window of one.  Then protocol 1, where nothing   *)
(* waits for anything: packets arrive in order, and no more of them than   *)
(* were fetched.                                                           *)
(***************************************************************************)
EXTENDS Protocol2, TLAPS

\* SPL has a frame to read only while SDL waits, and clears its flag before it can
\* have read the acknowledgement that lets SDL set it again.
SplInv == /\ spl_should_read = 1 => sdl = "wait"
          /\ spl = "sent" => spl_should_read = 1 /\ spl_ack_flag = 0

\* The frame's packet, in every file and queue it passes through.
FrameInv ==
    /\ sdl \in {"signal", "wait"} => sdl_to_spl_pkg = buffer
    /\ \A i \in 1 .. Len(frames) : frames[i] = buffer
    /\ rpl = "signal" \/ rpl_flag = 1 \/ rdl = "read" => rpl_to_rdl = buffer

\* The packet is handed over when its frame turns into an acknowledgement.
Handed == IF Back = 1 THEN buffer ELSE buffer - 1

DeliveredInv == /\ Len(delivered) = Handed
                /\ sdl # "fetch" => buffer > 0

TurnInv == OneFrameUnderWay /\ SplInv /\ FrameInv /\ DeliveredInv

IndInv == TypeOK /\ TurnInv
-----------------------------------------------------------------------------
\* The buffer of RNL holds a packet or nothing in particular.
LEMMA Received ==
    ASSUME Packets \in Nat, recv_test \in Seq(0 .. Packets), NEW f \in 0 .. Packets
    PROVE  recvbuf(f) \in 0 .. Packets
BY DEF recvbuf, Garbage, Empty

\* The variables hold values of the types the C declarations give them.
THEOREM TypeCorrect == Safety => []TypeOK
<1> USE Protocol2Assumption DEF Flag
<1>1. Init => TypeOK
  BY DEF Init, TypeOK, Empty
<1>2. TypeOK /\ [Next]_vars => TypeOK'
  <2> SUFFICES ASSUME TypeOK, [Next]_vars PROVE TypeOK'
    OBVIOUS
  <2> USE DEF TypeOK, sdlVars, splVars, rplVars, rdlVars, rnlVars
  <2>1. CASE SdlFetch
    BY <2>1 DEF SdlFetch
  <2>2. CASE SdlPost
    BY <2>2 DEF SdlPost
  <2>3. CASE SdlSignal
    BY <2>3 DEF SdlSignal
  <2>4. CASE SdlAcknowledged
    BY <2>4 DEF SdlAcknowledged
  <2>5. CASE SplSend
    BY <2>5 DEF SplSend
  <2>6. CASE SplClearFlag
    BY <2>6 DEF SplClearFlag
  <2>7. CASE SplAck
    BY <2>7 DEF SplAck
  <2>8. CASE RplReceive
    BY <2>8 DEF RplReceive
  <2>9. CASE RplSignal
    BY <2>9 DEF RplSignal
  <2>10. CASE RplHandler
    BY <2>10 DEF RplHandler
  <2>11. CASE RdlFrameArrival
    BY <2>11 DEF RdlFrameArrival
  <2>12. CASE RdlHandOver \/ RdlFill
    <3>1. CASE RdlHandOver
      BY <3>1 DEF RdlHandOver, Empty
    <3>2. CASE RdlFill
      BY <3>2 DEF RdlFill
    <3>3. QED
      BY <2>12, <3>1, <3>2
  <2>13. CASE RdlSignalRnl
    BY <2>13 DEF RdlSignalRnl
  <2>14. CASE RdlAck
    BY <2>14 DEF RdlAck
  <2>15. CASE RnlAppend
    BY <2>15, Received DEF RnlAppend
  <2>16. CASE RnlClearFlag
    BY <2>16 DEF RnlClearFlag
  <2>17. CASE UNCHANGED vars
    BY <2>17 DEF vars
  <2>18. QED
    BY <2>1, <2>2, <2>3, <2>4, <2>5, <2>6, <2>7, <2>8, <2>9, <2>10, <2>11, <2>12, <2>13,
       <2>14, <2>15, <2>16, <2>17
       DEF Next, Sdl, Spl, Rpl, Rdl, Rnl
<1>3. QED
  BY <1>1, <1>2, PTL DEF Safety

\* When SDL is not waiting, or has just been signalled, nothing is under way.
Quiet == /\ Len(frames) = 0 /\ rpl = "read" /\ rpl_flag = 0 /\ rdl = "wait"
         /\ handlers = 0 /\ acks = 0
         /\ spl_should_read = 0 \/ spl = "sent"

LEMMA Alone ==
    ASSUME TypeOK, OneFrameUnderWay
    PROVE  /\ sdl # "wait" => Quiet /\ spl_ack_flag = 0
           /\ spl_ack_flag = 1 => Quiet /\ sdl = "wait"
           /\ acks > 0 => spl_ack_flag = 0
<1> DEFINE a == Count(sdl \in {"post", "signal"})
           b == Count(spl_should_read = 1 /\ spl = "select")
           c == Count(rpl = "signal")
           d == Count(rdl = "read")
           e == Count(rdl \in {"fill", "handover", "ack"})
           f == Count(sdl = "fetch")
<1>1. /\ a \in Nat /\ b \in Nat /\ c \in Nat /\ d \in Nat /\ e \in Nat /\ f \in Nat
      /\ Len(frames) \in Nat /\ rpl_flag \in Nat /\ handlers \in Nat /\ acks \in Nat
      /\ spl_ack_flag \in Nat
  BY DEF TypeOK, Count, Flag
<1>2. a + b + Len(frames) + c + rpl_flag + d + (e + handlers + acks + spl_ack_flag + f) = 1
  BY DEF OneFrameUnderWay, Forward, Back
<1>3. /\ sdl # "wait" => a + f = 1
      /\ a = 0 /\ f = 0 => sdl = "wait"
      /\ b = 0 => spl_should_read = 0 \/ spl = "sent"
      /\ c = 0 => rpl = "read"
      /\ d = 0 /\ e = 0 => rdl = "wait"
  BY DEF TypeOK, Count, Flag
<1> HIDE DEF a, b, c, d, e, f
<1>4. /\ a + f = 1 => b = 0 /\ c = 0 /\ d = 0 /\ e = 0 /\ Len(frames) = 0 /\ rpl_flag = 0
                      /\ handlers = 0 /\ acks = 0 /\ spl_ack_flag = 0
      /\ spl_ack_flag = 1 => a = 0 /\ f = 0 /\ b = 0 /\ c = 0 /\ d = 0 /\ e = 0 /\ Len(frames) = 0
                             /\ rpl_flag = 0 /\ handlers = 0 /\ acks = 0
      /\ acks > 0 => spl_ack_flag = 0
  BY <1>1, <1>2
<1>5. QED
  BY <1>3, <1>4 DEF Quiet

\* One frame under way, in the right place with the right packet, always.
THEOREM Inductive == Safety => []IndInv
<1>1. Init => TurnInv
  BY DEF Init, TurnInv, OneFrameUnderWay, SplInv, FrameInv, DeliveredInv, Handed,
         Forward, Back, Count
<1>2. TypeOK /\ TurnInv /\ [Next]_vars => TurnInv'
  <2> SUFFICES ASSUME TypeOK, TurnInv, [Next]_vars PROVE TurnInv'
    OBVIOUS
  <2>0. /\ sdl # "wait" => Quiet /\ spl_ack_flag = 0
        /\ spl_ack_flag = 1 => Quiet /\ sdl = "wait"
        /\ acks > 0 => spl_ack_flag = 0
    BY Alone DEF TurnInv
  <2> USE Protocol2Assumption
      DEF TypeOK, TurnInv, OneFrameUnderWay, SplInv, FrameInv, DeliveredInv, Handed,
          Forward, Back, Count, Flag, sdlVars, splVars, rplVars, rdlVars, rnlVars
  <2>1. CASE SdlFetch
    <3>1. OneFrameUnderWay'
      BY <2>1, <2>0 DEF SdlFetch, Quiet
    <3>2. SplInv'
      BY <2>1, <2>0 DEF SdlFetch, Quiet
    <3>3. FrameInv'
      BY <2>1, <2>0 DEF SdlFetch, Quiet
    <3>4. DeliveredInv'
      BY <2>1, <2>0 DEF SdlFetch, Quiet
    <3>5. QED
      BY <3>1, <3>2, <3>3, <3>4
  <2>2. CASE SdlPost
    BY <2>2 DEF SdlPost
  <2>3. CASE SdlSignal
    <3>1. OneFrameUnderWay'
      BY <2>3, <2>0 DEF SdlSignal, Quiet
    <3>2. SplInv'
      BY <2>3, <2>0 DEF SdlSignal, Quiet
    <3>3. FrameInv'
      BY <2>3, <2>0 DEF SdlSignal, Quiet
    <3>4. DeliveredInv'
      BY <2>3, <2>0 DEF SdlSignal, Quiet
    <3>5. QED
      BY <3>1, <3>2, <3>3, <3>4
  <2>4. CASE SdlAcknowledged
    <3>1. OneFrameUnderWay'
      BY <2>4, <2>0 DEF SdlAcknowledged, Quiet
    <3>2. SplInv'
      BY <2>4, <2>0 DEF SdlAcknowledged, Quiet
    <3>3. FrameInv'
      BY <2>4, <2>0 DEF SdlAcknowledged, Quiet
    <3>4. DeliveredInv'
      BY <2>4, <2>0 DEF SdlAcknowledged, Quiet
    <3>5. QED
      BY <3>1, <3>2, <3>3, <3>4
  <2>5. CASE SplSend
    BY <2>5 DEF SplSend
  <2>6. CASE SplClearFlag
    BY <2>6 DEF SplClearFlag
  <2>7. CASE SplAck
    <3>1. OneFrameUnderWay'
      BY <2>7, <2>0 DEF SplAck, Quiet
    <3>2. SplInv'
      BY <2>7, <2>0 DEF SplAck, Quiet
    <3>3. FrameInv'
      BY <2>7, <2>0 DEF SplAck, Quiet
    <3>4. DeliveredInv'
      BY <2>7, <2>0 DEF SplAck, Quiet
    <3>5. QED
      BY <3>1, <3>2, <3>3, <3>4
  <2>8. CASE RplReceive
    BY <2>8 DEF RplReceive
  <2>9. CASE RplSignal
    BY <2>9 DEF RplSignal
  <2>10. CASE RplHandler
    <3>1. Back' = Back /\ Forward' = Forward
      BY <2>10 DEF RplHandler
    <3>2. SplInv' /\ FrameInv'
      BY <2>10 DEF RplHandler
    <3>3. QED
      BY <2>10, <3>1, <3>2 DEF RplHandler
  <2>11. CASE RdlFrameArrival
    BY <2>11 DEF RdlFrameArrival
  <2>12. CASE RdlHandOver \/ RdlFill
    <3>1. CASE RdlHandOver
      BY <3>1 DEF RdlHandOver
    <3>2. CASE RdlFill
      BY <3>2 DEF RdlFill
    <3>3. QED
      BY <2>12, <3>1, <3>2
  <2>13. CASE RdlSignalRnl
    BY <2>13 DEF RdlSignalRnl
  <2>14. CASE RdlAck
    BY <2>14 DEF RdlAck
  <2>15. CASE Rnl
    <3>1. CASE RnlAppend
      BY <3>1 DEF RnlAppend
    <3>2. CASE RnlClearFlag
      BY <3>2 DEF RnlClearFlag
    <3>3. QED
      BY <2>15, <3>1, <3>2 DEF Rnl
  <2>16. CASE UNCHANGED vars
    BY <2>16 DEF vars
  <2>17. QED
    BY <2>1, <2>2, <2>3, <2>4, <2>5, <2>6, <2>7, <2>8, <2>9, <2>10, <2>11, <2>12,
       <2>13, <2>14, <2>15, <2>16 DEF Next, Sdl, Spl, Rpl, Rdl
<1>3. QED
  BY <1>1, <1>2, TypeCorrect, PTL DEF Safety, IndInv

\* A frame or its acknowledgement is in exactly one place, whatever the number of
\* packets and the capacity of the socket.
THEOREM OneFrame == Safety => []OneFrameUnderWay
<1>1. IndInv => OneFrameUnderWay
  BY DEF IndInv, TurnInv
<1>2. QED
  BY <1>1, Inductive, PTL

\* from_network_layer of SDL is Fetch, to_network_layer of RDL is HandOver, and no
\* other statement of any process changes what the network layers see.
THEOREM Refinement == Safety => RefinesService
<1> USE Protocol2Assumption DEF Flag
<1>1. Init => Service!Init
  BY DEF Init, Service!Init
<1>2. IndInv /\ [Next]_vars => [Service!Next]_Service!vars
  <2> SUFFICES ASSUME IndInv, [Next]_vars PROVE [Service!Next]_Service!vars
    OBVIOUS
  <2> USE DEF Service!vars, Service!Next, sdlVars, splVars, rplVars, rdlVars, rnlVars
  <2>1. TypeOK /\ OneFrameUnderWay /\ FrameInv /\ DeliveredInv
    BY DEF IndInv, TurnInv
  <2>2. CASE SdlFetch
    <3>1. buffer < Packets /\ buffer' = buffer + 1 /\ UNCHANGED delivered
      BY <2>2 DEF SdlFetch
    <3>2. Quiet /\ spl_ack_flag = 0 /\ sdl = "fetch"
      BY <2>1, <2>2, Alone DEF SdlFetch
    <3>3. Len(delivered) = buffer
      BY <2>1, <3>2 DEF Quiet, DeliveredInv, Handed, Back, Count
    <3>4. buffer < Len(delivered) + 1
      BY <2>1, <3>3 DEF TypeOK
    <3>5. QED
      BY <3>1, <3>4 DEF Service!Fetch
  <2>3. CASE RdlHandOver
    <3>1. delivered' = Append(delivered, buffer) /\ UNCHANGED buffer
      BY <2>1, <2>3 DEF RdlHandOver, FrameInv
    <3>2. Back # 1
      BY <2>1, <2>3 DEF RdlHandOver, TypeOK, OneFrameUnderWay, Forward, Back, Count
    <3>3. Len(delivered) = buffer - 1 /\ buffer \in Nat
      BY <2>1, <3>2 DEF DeliveredInv, Handed, TypeOK
    <3>4. QED
      BY <3>1, <3>3 DEF Service!HandOver
  <2>4. CASE SdlPost \/ SdlSignal \/ SdlAcknowledged \/ Spl \/ Rpl
    BY <2>4 DEF SdlPost, SdlSignal, SdlAcknowledged, Spl, SplSend, SplClearFlag, SplAck,
                Rpl, RplReceive, RplSignal, RplHandler
  <2>5. CASE RdlFrameArrival \/ RdlFill \/ RdlSignalRnl \/ RdlAck \/ Rnl
    BY <2>5 DEF RdlFrameArrival, RdlFill, RdlSignalRnl, RdlAck, Rnl, RnlAppend, RnlClearFlag
  <2>6. CASE UNCHANGED vars
    BY <2>6 DEF vars
  <2>7. QED
    BY <2>2, <2>3, <2>4, <2>5, <2>6 DEF Next, Sdl, Rdl
<1>3. QED
  BY <1>1, <1>2, Inductive, PTL DEF Safety, RefinesService, Service!Safety
-----------------------------------------------------------------------------
(* recv_test.txt *)

\* RDL is in to_network_layer.
HandingOver == rdl \in {"fill", "handover"}

\* A signal RNL will act on, or that RDL has still to send.
Pending == (IF rdl_flag = 1 /\ rnl = "poll" THEN 1 ELSE 0) + (IF HandingOver THEN 1 ELSE 0)

\* The file holds the packet handed over last, or is empty, and RNL has appended at most
\* once for each signal of RDL.
RecvInv ==
    /\ rdl_to_rnl \in {Empty, Len(delivered)}
    /\ delivered # << >> => delivered[Len(delivered)] = Len(delivered)
    /\ RecvTestNeverReordered
    /\ Len(recv_test) + Pending =< Len(delivered)

\* What is read off the file for RDL is the packet after those handed over.
LEMMA HandOverStep ==
    ASSUME IndInv, RdlHandOver
    PROVE  /\ Len(delivered) \in Nat
           /\ delivered' = Append(delivered, Len(delivered) + 1)
<1>1. TypeOK /\ OneFrameUnderWay /\ FrameInv /\ DeliveredInv
  BY DEF IndInv, TurnInv
<1>2. rpl_to_rdl = buffer /\ rdl = "read"
  BY <1>1 DEF RdlHandOver, FrameInv
<1>3. Back # 1
  BY <1>1, <1>2 DEF TypeOK, Flag, OneFrameUnderWay, Forward, Back, Count
<1>4. Len(delivered) = buffer - 1 /\ buffer \in Nat /\ Len(delivered) \in Nat
  BY <1>1, <1>3, Protocol2Assumption DEF DeliveredInv, Handed, TypeOK
<1>5. QED
  BY <1>2, <1>4 DEF RdlHandOver

\* RNL appends the newest packet delivered, or what it has appended before.
LEMMA RecvStep ==
    ASSUME IndInv, RecvInv, [Next]_vars
    PROVE  RecvInv'
<1> USE DEF sdlVars, splVars, rplVars, rdlVars, rnlVars
<1>0. /\ Len(recv_test) \in Nat /\ Len(delivered) \in Nat /\ recv_test \in Seq(0 .. Packets)
      /\ Pending \in Nat
  BY DEF IndInv, TypeOK, Pending
<1>1. CASE RnlAppend
  <2>1. /\ rnl = "poll" /\ rdl_flag = 1 /\ rnl' = "clear"
        /\ recv_test' = Append(recv_test, recvbuf(rdl_to_rnl))
        /\ UNCHANGED <<delivered, rdl, rdl_flag, rdl_to_rnl>>
    BY <1>1 DEF RnlAppend
  <2>2. /\ Len(recv_test') = Len(recv_test) + 1
        /\ recv_test'[Len(recv_test) + 1] = recvbuf(rdl_to_rnl)
        /\ \A i \in 1 .. Len(recv_test) : recv_test'[i] = recv_test[i]
    BY <1>0, <2>1
  <2>3. /\ recvbuf(rdl_to_rnl) \in 0 .. Len(delivered)
        /\ \A i \in 1 .. Len(recv_test) : recv_test[i] =< recvbuf(rdl_to_rnl)
    <3>1. CASE rdl_to_rnl # Empty
      <4>1. recvbuf(rdl_to_rnl) = Len(delivered)
        BY <3>1 DEF recvbuf, RecvInv
      <4>2. QED
        BY <1>0, <4>1 DEF RecvInv, RecvTestNeverReordered
    <3>2. CASE rdl_to_rnl = Empty /\ recv_test = << >>
      BY <1>0, <3>2 DEF recvbuf, Garbage
    <3>3. CASE rdl_to_rnl = Empty /\ recv_test # << >>
      <4>1. Len(recv_test) \in 1 .. Len(recv_test)
        BY <1>0, <3>3
      <4>2. recvbuf(rdl_to_rnl) = recv_test[Len(recv_test)]
        BY <3>3 DEF recvbuf
      <4>3. ASSUME NEW i \in 1 .. Len(recv_test)
            PROVE  recv_test[i] =< recv_test[Len(recv_test)]
        <5>1. CASE i = Len(recv_test)
          BY <4>1, <5>1 DEF RecvInv, RecvTestNeverReordered
        <5>2. CASE i < Len(recv_test)
          BY <4>1, <5>2 DEF RecvInv, RecvTestNeverReordered
        <5>3. QED
          BY <1>0, <5>1, <5>2
      <4>4. QED
        BY <4>1, <4>2, <4>3 DEF RecvInv, RecvTestNeverReordered
    <3>4. QED
      BY <3>1, <3>2, <3>3
  <2>4. Len(recv_test') + Pending' =< Len(delivered')
    BY <1>0, <2>1, <2>2 DEF RecvInv, Pending, HandingOver
  <2>5. RecvTestNeverReordered'
    <3>1. \A i \in 1 .. Len(recv_test') : recv_test'[i] \in 0 .. Len(delivered')
      BY <1>0, <2>1, <2>2, <2>3 DEF RecvInv, RecvTestNeverReordered
    <3>2. \A i, j \in 1 .. Len(recv_test') : i < j => recv_test'[i] =< recv_test'[j]
      <4>1. SUFFICES ASSUME NEW i \in 1 .. Len(recv_test'), NEW k \in 1 .. Len(recv_test'),
                            i < k
                     PROVE  recv_test'[i] =< recv_test'[k]
        OBVIOUS
      <4>2. CASE k = Len(recv_test')
        BY <1>0, <2>2, <2>3, <4>1, <4>2
      <4>3. CASE k # Len(recv_test')
        <5>1. i \in 1 .. Len(recv_test) /\ k \in 1 .. Len(recv_test)
          BY <1>0, <2>2, <4>1, <4>3
        <5>2. QED
          BY <1>0, <2>2, <4>1, <5>1 DEF RecvInv, RecvTestNeverReordered
      <4>4. QED
        BY <4>2, <4>3
    <3>3. Pending' \in Nat
      BY DEF Pending
    <3>4. QED
      BY <1>0, <2>1, <2>2, <2>4, <3>1, <3>2, <3>3 DEF RecvTestNeverReordered
  <2>6. QED
    BY <2>1, <2>4, <2>5 DEF RecvInv
<1>2. CASE RdlHandOver
  <2>1. delivered' = Append(delivered, Len(delivered) + 1)
    BY <1>2, HandOverStep
  <2>2. /\ Len(delivered') = Len(delivered) + 1 /\ rdl = "read" /\ rdl' = "fill"
        /\ delivered'[Len(delivered')] = Len(delivered')
        /\ rdl_to_rnl' = Empty /\ UNCHANGED <<recv_test, rnl, rdl_flag>>
    BY <1>2, <2>1 DEF RdlHandOver, IndInv, TypeOK
  <2>3. Len(recv_test') + Pending' =< Len(delivered')
    BY <1>0, <2>2 DEF RecvInv, Pending, HandingOver
  <2>4. RecvTestNeverReordered'
    BY <1>0, <2>2 DEF RecvInv, RecvTestNeverReordered
  <2>5. QED
    BY <2>2, <2>3, <2>4 DEF RecvInv
<1>3. CASE RdlFill
  <2>1. delivered[Len(delivered)] = Len(delivered)
    BY <1>3 DEF RdlFill, IndInv, TypeOK, RecvInv
  <2>2. /\ rdl_to_rnl' = Len(delivered) /\ rdl = "fill" /\ rdl' = "handover"
        /\ UNCHANGED <<delivered, recv_test, rnl, rdl_flag>>
    BY <1>3, <2>1 DEF RdlFill
  <2>3. QED
    BY <2>2 DEF RecvInv, RecvTestNeverReordered, Pending, HandingOver
<1>4. CASE RdlSignalRnl
  <2>1. /\ rdl = "handover" /\ rdl' = "ack" /\ rdl_flag' = 1
        /\ UNCHANGED <<delivered, rdl_to_rnl, recv_test, rnl>>
    BY <1>4 DEF RdlSignalRnl
  <2>2. Pending' =< Pending
    BY <2>1 DEF Pending, HandingOver
  <2>3. Pending' \in Nat
    BY DEF Pending
  <2>4. QED
    BY <1>0, <2>1, <2>2, <2>3 DEF RecvInv, RecvTestNeverReordered
<1>5. CASE RnlClearFlag
  <2>1. /\ rnl = "clear" /\ rdl_flag' = 0
        /\ UNCHANGED <<delivered, rdl_to_rnl, recv_test, rdl>>
    BY <1>5 DEF RnlClearFlag
  <2>2. Pending' = Pending
    BY <2>1 DEF Pending, HandingOver
  <2>3. QED
    BY <2>1, <2>2 DEF RecvInv, RecvTestNeverReordered
<1>6. CASE /\ UNCHANGED <<delivered, rdl_to_rnl, recv_test, rdl_flag, rnl>>
           /\ HandingOver' = HandingOver
  BY <1>6 DEF RecvInv, RecvTestNeverReordered, Pending
<1>7. CASE Sdl
  BY <1>6, <1>7 DEF Sdl, SdlFetch, SdlPost, SdlSignal, SdlAcknowledged, HandingOver
<1>8. CASE Spl
  BY <1>6, <1>8 DEF Spl, SplSend, SplClearFlag, SplAck, HandingOver
<1>9. CASE Rpl
  BY <1>6, <1>9 DEF Rpl, RplReceive, RplSignal, RplHandler, HandingOver
<1>10. CASE RdlFrameArrival \/ RdlAck \/ UNCHANGED vars
  BY <1>6, <1>10 DEF RdlFrameArrival, RdlAck, vars, HandingOver
<1>11. QED
  BY <1>1, <1>2, <1>3, <1>4, <1>5, <1>7, <1>8, <1>9, <1>10 DEF Next, Rdl, Rnl

\* Stop and wait does not reach RNL: it may miss a packet, read one early or find the file
\* empty; but recv_test.txt is never out of order and never longer than what was handed over.
THEOREM RecvTestOrder == Safety => []RecvTestNeverReordered
<1>1. Init => RecvInv
  BY DEF Init, RecvInv, RecvTestNeverReordered, Pending, HandingOver, Empty
<1>2. IndInv /\ RecvInv /\ [Next]_vars => RecvInv'
  BY RecvStep
<1>3. RecvInv => RecvTestNeverReordered
  BY DEF RecvInv
<1>4. QED
  BY <1>1, <1>2, <1>3, Inductive, PTL DEF Safety
-----------------------------------------------------------------------------
(* Protocol 1: its files and signals *)

VARIABLES file, flag, spl_buffer, rpl_buffer, rdl_buffer

\* sdl, buffer, spl, frames, rpl, rdl, rnl and recv_test are as in protocol 2.
P1 == INSTANCE Protocol1

SplFile == file["sdl_to_spl_pkg"]
RdlFile == file["rpl_to_rdl"]
RnlFile == file["rdl_to_rnl"]
SplFlag == flag["sdl_to_spl_pkg"]
RdlFlag == flag["rpl_to_rdl"]
RnlFlag == flag["rdl_to_rnl"]

Content == 0 .. Packets

MailTypes ==
    /\ file \in [P1!Files -> Content] /\ flag \in [P1!Files -> {0, 1}]
    /\ buffer \in Content /\ spl_buffer \in Content
    /\ rpl_buffer \in Content /\ rdl_buffer \in Content
    /\ frames \in Seq(Content) /\ recv_test \in Seq(Content)
    /\ sdl \in {"fetch", "open", "close", "kill"}
    /\ spl \in {"poll", "write", "clear"}
    /\ rpl \in {"receive", "open", "close", "kill"}
    /\ rdl \in {"wait", "read", "open", "close", "kill"}
    /\ rnl \in {"poll", "clear"}

\* The packet that SDL has last filled its file with.
Posted == IF sdl \in {"open", "close"} THEN buffer - 1 ELSE buffer

FileInv ==
    /\ SplFile \in {P1!Empty, Posted} /\ (sdl = "close" => SplFile = P1!Empty)
    /\ sdl \in {"fetch", "kill"} => SplFile = Posted
    /\ sdl \in {"open", "close"} => buffer > 0
    /\ rpl = "close" => RdlFile = P1!Empty
    /\ rdl = "close" => RnlFile = P1!Empty
-----------------------------------------------------------------------------
(* The order of packets, and what lies between them *)

Values(s) == {s[i] : i \in 1 .. Len(s)}

\* The values at one place and below it, where a packet goes from SDL down to RNL.
Appended1 == {0} \cup Values(recv_test)
ToRnl == Appended1 \cup {RnlFile}
InRdl == ToRnl \cup {rdl_buffer}
ToRdl == InRdl \cup {RdlFile}
InRpl == ToRdl \cup {rpl_buffer}
OnWire == InRpl \cup Values(frames)
InSpl == OnWire \cup {spl_buffer}

\* A packet x is not older than any of S; is newer than any of S.
NotOlder(x, S) == x # Garbage => \A a \in S : a =< x
Newer(x, S) == x # Garbage => \A a \in S : a < x

Sorted(s) == \A i, j \in 1 .. Len(s) : i < j => NotOlder(s[j], {s[i]})

OrderInv ==
    /\ Sorted(recv_test) /\ Sorted(frames)
    /\ NotOlder(RnlFile, Appended1) /\ NotOlder(rdl_buffer, ToRnl)
    /\ NotOlder(RdlFile, InRdl) /\ NotOlder(rpl_buffer, ToRdl)
    /\ \A i \in 1 .. Len(frames) : NotOlder(frames[i], InRpl)
    /\ NotOlder(spl_buffer, OnWire) /\ NotOlder(SplFile, InSpl)
    /\ \A a \in InSpl : a =< Posted

MailInv == MailTypes /\ FileInv /\ OrderInv

\* Of a signal and of what it stands for, what has still to lead to an append.
SignalsLeft ==
    Count(sdl \in {"open", "close", "kill"}) + Count(SplFlag = 1 /\ spl = "poll")
    + Count(spl = "write") + Len(frames) + Count(rpl \in {"open", "close", "kill"})
    + Count(RdlFlag = 1) + Count(rdl \in {"read", "open", "close", "kill"})
    + Count(RnlFlag = 1 /\ rnl = "poll")

\* Every append, and every one to come, stands for a packet fetched.
CountInv == Len(recv_test) + SignalsLeft =< buffer
-----------------------------------------------------------------------------
(* What Append and Tail do to the values of a sequence *)

\* A sequence with one element more, index by index.
LEMMA AppendedAt ==
    ASSUME NEW s \in Seq(Content), NEW x \in Content
    PROVE  /\ Len(Append(s, x)) = Len(s) + 1 /\ Len(s) \in Nat
           /\ Append(s, x)[Len(s) + 1] = x
           /\ \A i \in 1 .. Len(s) : Append(s, x)[i] = s[i]
           /\ Append(s, x) \in Seq(Content)
<1>1. Len(s) \in Nat /\ Append(s, x) \in Seq(Content)
  OBVIOUS
<1>2. Len(Append(s, x)) = Len(s) + 1 /\ Append(s, x)[Len(s) + 1] = x
  OBVIOUS
<1>3. \A i \in 1 .. Len(s) : Append(s, x)[i] = s[i]
  OBVIOUS
<1> QED BY <1>1, <1>2, <1>3

\* A sequence without its first element, index by index.
LEMMA TailAt ==
    ASSUME NEW s \in Seq(Content), s # << >>
    PROVE  /\ Len(Tail(s)) = Len(s) - 1 /\ Len(s) \in Nat /\ Len(s) > 0
           /\ Head(s) = s[1] /\ Head(s) \in Content
           /\ \A i \in 1 .. Len(s) - 1 : Tail(s)[i] = s[i + 1]
           /\ Tail(s) \in Seq(Content)
<1>1. Len(s) \in Nat /\ Len(s) > 0 /\ Tail(s) \in Seq(Content) /\ Len(Tail(s)) = Len(s) - 1
  OBVIOUS
<1>2. Head(s) = s[1] /\ Head(s) \in Content
  BY <1>1
<1>3. \A i \in 1 .. Len(s) - 1 : Tail(s)[i] = s[i + 1]
  BY <1>1
<1> QED BY <1>1, <1>2, <1>3

\* The values of a sequence with one element more.
LEMMA ValuesAppend ==
    ASSUME NEW s \in Seq(Content), NEW x \in Content
    PROVE  Values(Append(s, x)) = Values(s) \cup {x}
<1> DEFINE t == Append(s, x)
<1>1. /\ Len(t) = Len(s) + 1 /\ Len(s) \in Nat /\ t[Len(s) + 1] = x
      /\ \A i \in 1 .. Len(s) : t[i] = s[i]
  BY AppendedAt
<1> HIDE DEF t
<1>2. ASSUME NEW v \in Values(t) PROVE v \in Values(s) \cup {x}
  <2>1. PICK i \in 1 .. Len(t) : v = t[i]
    BY <1>2 DEF Values
  <2>2. i \in 1 .. Len(s) \/ i = Len(s) + 1
    BY <1>1
  <2> QED BY <1>1, <2>1, <2>2 DEF Values
<1>3. ASSUME NEW v \in Values(s) PROVE v \in Values(t)
  <2>1. PICK i \in 1 .. Len(s) : v = s[i]
    BY <1>3 DEF Values
  <2>2. i \in 1 .. Len(t)
    BY <1>1
  <2> QED BY <1>1, <2>1, <2>2 DEF Values
<1>4. x \in Values(t)
  <2>1. Len(s) + 1 \in 1 .. Len(t)
    BY <1>1
  <2> QED BY <1>1, <2>1 DEF Values
<1> QED BY <1>2, <1>3, <1>4 DEF t

\* The values of a sequence without its first element.
LEMMA ValuesTail ==
    ASSUME NEW s \in Seq(Content), s # << >>
    PROVE  Values(s) = Values(Tail(s)) \cup {Head(s)}
<1> DEFINE t == Tail(s)
<1>1. /\ Len(t) = Len(s) - 1 /\ Len(s) \in Nat /\ Len(s) > 0 /\ Head(s) = s[1]
      /\ \A i \in 1 .. Len(s) - 1 : t[i] = s[i + 1]
  BY TailAt
<1> HIDE DEF t
<1>2. ASSUME NEW v \in Values(t) PROVE v \in Values(s)
  <2>1. PICK i \in 1 .. Len(t) : v = t[i]
    BY <1>2 DEF Values
  <2>2. i + 1 \in 1 .. Len(s) /\ v = s[i + 1]
    BY <1>1, <2>1
  <2> QED BY <2>2 DEF Values
<1>3. ASSUME NEW v \in Values(s) PROVE v \in Values(t) \cup {Head(s)}
  <2>1. PICK i \in 1 .. Len(s) : v = s[i]
    BY <1>3 DEF Values
  <2>2. CASE i = 1
    BY <1>1, <2>1, <2>2
  <2>3. CASE i # 1
    <3>1. i - 1 \in 1 .. Len(t) /\ i - 1 \in 1 .. Len(s) - 1 /\ (i - 1) + 1 = i
      BY <1>1, <2>3
    <3>2. t[i - 1] = v
      BY <1>1, <2>1, <3>1
    <3> QED BY <3>1, <3>2 DEF Values
  <2> QED BY <2>2, <2>3
<1>4. Head(s) \in Values(s)
  <2>1. 1 \in 1 .. Len(s)
    BY <1>1
  <2> QED BY <1>1, <2>1 DEF Values
<1> QED BY <1>2, <1>3, <1>4 DEF t

-----------------------------------------------------------------------------
(* What each statement of protocol 1 changes, file by file *)

SdlFetches ==
    /\ sdl = "fetch" /\ buffer < Packets /\ sdl' = "open" /\ buffer' = buffer + 1
    /\ UNCHANGED <<SplFile, SplFlag, spl, spl_buffer, frames, rpl, rpl_buffer, RdlFile,
                   RdlFlag, rdl, rdl_buffer, RnlFile, RnlFlag, rnl, recv_test>>

SdlOpens ==
    /\ sdl = "open" /\ sdl' = "close" /\ SplFile' = P1!Empty
    /\ UNCHANGED <<buffer, SplFlag, spl, spl_buffer, frames, rpl, rpl_buffer, RdlFile,
                   RdlFlag, rdl, rdl_buffer, RnlFile, RnlFlag, rnl, recv_test>>

SdlFills ==
    /\ sdl = "close" /\ sdl' = "kill" /\ SplFile' = buffer
    /\ UNCHANGED <<buffer, SplFlag, spl, spl_buffer, frames, rpl, rpl_buffer, RdlFile,
                   RdlFlag, rdl, rdl_buffer, RnlFile, RnlFlag, rnl, recv_test>>

SdlSignals ==
    /\ sdl = "kill" /\ sdl' = "fetch" /\ SplFlag' = 1
    /\ UNCHANGED <<buffer, SplFile, spl, spl_buffer, frames, rpl, rpl_buffer, RdlFile,
                   RdlFlag, rdl, rdl_buffer, RnlFile, RnlFlag, rnl, recv_test>>

SplReads ==
    /\ spl = "poll" /\ SplFlag = 1 /\ spl' = "write"
    /\ spl_buffer' = IF SplFile = P1!Empty THEN spl_buffer ELSE SplFile
    /\ UNCHANGED <<sdl, buffer, SplFile, SplFlag, frames, rpl, rpl_buffer, RdlFile, RdlFlag,
                   rdl, rdl_buffer, RnlFile, RnlFlag, rnl, recv_test>>

SplWrites ==
    /\ spl = "write" /\ spl' = "clear" /\ frames' = Append(frames, spl_buffer)
    /\ UNCHANGED <<sdl, buffer, SplFile, SplFlag, spl_buffer, rpl, rpl_buffer, RdlFile,
                   RdlFlag, rdl, rdl_buffer, RnlFile, RnlFlag, rnl, recv_test>>

SplClears ==
    /\ spl = "clear" /\ spl' = "poll" /\ SplFlag' = 0
    /\ UNCHANGED <<sdl, buffer, SplFile, spl_buffer, frames, rpl, rpl_buffer, RdlFile,
                   RdlFlag, rdl, rdl_buffer, RnlFile, RnlFlag, rnl, recv_test>>

RplReceives ==
    /\ rpl = "receive" /\ frames # << >> /\ rpl' = "open"
    /\ rpl_buffer' = Head(frames) /\ frames' = Tail(frames)
    /\ UNCHANGED <<sdl, buffer, SplFile, SplFlag, spl, spl_buffer, RdlFile, RdlFlag, rdl,
                   rdl_buffer, RnlFile, RnlFlag, rnl, recv_test>>

RplOpens ==
    /\ rpl = "open" /\ rpl' = "close" /\ RdlFile' = P1!Empty
    /\ UNCHANGED <<sdl, buffer, SplFile, SplFlag, spl, spl_buffer, frames, rpl_buffer,
                   RdlFlag, rdl, rdl_buffer, RnlFile, RnlFlag, rnl, recv_test>>

RplFills ==
    /\ rpl = "close" /\ rpl' = "kill" /\ RdlFile' = rpl_buffer
    /\ UNCHANGED <<sdl, buffer, SplFile, SplFlag, spl, spl_buffer, frames, rpl_buffer,
                   RdlFlag, rdl, rdl_buffer, RnlFile, RnlFlag, rnl, recv_test>>

RplSignals ==
    /\ rpl = "kill" /\ rpl' = "receive" /\ RdlFlag' = 1
    /\ UNCHANGED <<sdl, buffer, SplFile, SplFlag, spl, spl_buffer, frames, rpl_buffer,
                   RdlFile, rdl, rdl_buffer, RnlFile, RnlFlag, rnl, recv_test>>

RdlWakes ==
    /\ rdl = "wait" /\ RdlFlag = 1 /\ rdl' = "read" /\ RdlFlag' = 0
    /\ UNCHANGED <<sdl, buffer, SplFile, SplFlag, spl, spl_buffer, frames, rpl, rpl_buffer,
                   RdlFile, rdl_buffer, RnlFile, RnlFlag, rnl, recv_test>>

RdlReads ==
    /\ rdl = "read" /\ rdl' = "open"
    /\ rdl_buffer' = RdlFile \/ rdl_buffer' = rdl_buffer \/ rdl_buffer' = Garbage
    /\ UNCHANGED <<sdl, buffer, SplFile, SplFlag, spl, spl_buffer, frames, rpl, rpl_buffer,
                   RdlFile, RdlFlag, RnlFile, RnlFlag, rnl, recv_test>>

RdlOpens ==
    /\ rdl = "open" /\ rdl' = "close" /\ RnlFile' = P1!Empty
    /\ UNCHANGED <<sdl, buffer, SplFile, SplFlag, spl, spl_buffer, frames, rpl, rpl_buffer,
                   RdlFile, RdlFlag, rdl_buffer, RnlFlag, rnl, recv_test>>

RdlFills ==
    /\ rdl = "close" /\ rdl' = "kill" /\ RnlFile' = rdl_buffer
    /\ UNCHANGED <<sdl, buffer, SplFile, SplFlag, spl, spl_buffer, frames, rpl, rpl_buffer,
                   RdlFile, RdlFlag, rdl_buffer, RnlFlag, rnl, recv_test>>

RdlSignals ==
    /\ rdl = "kill" /\ rdl' = "wait" /\ RnlFlag' = 1
    /\ UNCHANGED <<sdl, buffer, SplFile, SplFlag, spl, spl_buffer, frames, rpl, rpl_buffer,
                   RdlFile, RdlFlag, rdl_buffer, RnlFile, rnl, recv_test>>

RnlAppends ==
    /\ rnl = "poll" /\ RnlFlag = 1 /\ rnl' = "clear"
    /\ recv_test' = Append(recv_test, recvbuf(RnlFile))
    /\ UNCHANGED <<sdl, buffer, SplFile, SplFlag, spl, spl_buffer, frames, rpl, rpl_buffer,
                   RdlFile, RdlFlag, rdl, rdl_buffer, RnlFile, RnlFlag>>

RnlClears ==
    /\ rnl = "clear" /\ rnl' = "poll" /\ RnlFlag' = 0
    /\ UNCHANGED <<sdl, buffer, SplFile, SplFlag, spl, spl_buffer, frames, rpl, rpl_buffer,
                   RdlFile, RdlFlag, rdl, rdl_buffer, RnlFile, recv_test>>

Idle ==
    UNCHANGED <<sdl, buffer, SplFile, SplFlag, spl, spl_buffer, frames, rpl, rpl_buffer,
                RdlFile, RdlFlag, rdl, rdl_buffer, RnlFile, RnlFlag, rnl, recv_test>>

MailStep ==
    \/ SdlFetches \/ SdlOpens \/ SdlFills \/ SdlSignals
    \/ SplReads \/ SplWrites \/ SplClears
    \/ RplReceives \/ RplOpens \/ RplFills \/ RplSignals
    \/ RdlWakes \/ RdlReads \/ RdlOpens \/ RdlFills \/ RdlSignals
    \/ RnlAppends \/ RnlClears \/ Idle

\* Every step of protocol 1 is one of these.
LEMMA StepIs ==
    ASSUME MailTypes, [P1!Next]_P1!vars
    PROVE  MailStep
<1> USE DEF MailTypes, P1!Files, P1!sdlVars, P1!splVars, P1!rplVars, P1!rdlVars, P1!rnlVars,
            P1!Truncate, P1!Fill, P1!Signal, P1!Clear,
            SplFile, RdlFile, RnlFile, SplFlag, RdlFlag, RnlFlag
<1>1. P1!SdlFetch => SdlFetches
  BY DEF P1!SdlFetch, SdlFetches
<1>2. P1!SdlPost => SdlOpens \/ SdlFills \/ SdlSignals
  <2> SUFFICES ASSUME P1!SdlPost PROVE SdlOpens \/ SdlFills \/ SdlSignals
    OBVIOUS
  <2>1. CASE sdl = "open"
    BY <2>1 DEF P1!SdlPost, SdlOpens
  <2>2. CASE sdl = "close"
    BY <2>2 DEF P1!SdlPost, SdlFills
  <2>3. CASE sdl = "kill"
    BY <2>3 DEF P1!SdlPost, SdlSignals
  <2> QED BY <2>1, <2>2, <2>3 DEF P1!SdlPost
<1>3. P1!SplRead => SplReads
  BY DEF P1!SplRead, SplReads
<1>4. P1!SplWrite => SplWrites
  BY DEF P1!SplWrite, SplWrites
<1>5. P1!SplClearFlag => SplClears
  BY DEF P1!SplClearFlag, SplClears
<1>6. P1!RplReceive => RplReceives
  BY DEF P1!RplReceive, RplReceives
<1>7. P1!RplPost => RplOpens \/ RplFills \/ RplSignals
  <2> SUFFICES ASSUME P1!RplPost PROVE RplOpens \/ RplFills \/ RplSignals
    OBVIOUS
  <2>1. CASE rpl = "open"
    BY <2>1 DEF P1!RplPost, RplOpens
  <2>2. CASE rpl = "close"
    BY <2>2 DEF P1!RplPost, RplFills
  <2>3. CASE rpl = "kill"
    BY <2>3 DEF P1!RplPost, RplSignals
  <2> QED BY <2>1, <2>2, <2>3 DEF P1!RplPost
<1>8. P1!RdlFrameArrival => RdlWakes
  BY DEF P1!RdlFrameArrival, RdlWakes
<1>9. P1!RdlRead => RdlReads
  BY DEF P1!RdlRead, RdlReads, P1!Garbage, Garbage
<1>10. P1!RdlPost => RdlOpens \/ RdlFills \/ RdlSignals
  <2> SUFFICES ASSUME P1!RdlPost PROVE RdlOpens \/ RdlFills \/ RdlSignals
    OBVIOUS
  <2>1. CASE rdl = "open"
    BY <2>1 DEF P1!RdlPost, RdlOpens
  <2>2. CASE rdl = "close"
    BY <2>2 DEF P1!RdlPost, RdlFills
  <2>3. CASE rdl = "kill"
    BY <2>3 DEF P1!RdlPost, RdlSignals
  <2> QED BY <2>1, <2>2, <2>3 DEF P1!RdlPost
<1>11. P1!RnlAppend => RnlAppends
  BY DEF P1!RnlAppend, RnlAppends, P1!recvbuf, recvbuf, P1!Garbage, Garbage, P1!Empty, Empty
<1>12. P1!RnlClearFlag => RnlClears
  BY DEF P1!RnlClearFlag, RnlClears
<1>13. UNCHANGED P1!vars => Idle
  BY DEF P1!vars, Idle
<1> QED
  BY <1>1, <1>2, <1>3, <1>4, <1>5, <1>6, <1>7, <1>8, <1>9, <1>10, <1>11, <1>12, <1>13
     DEF P1!Next, P1!Sdl, P1!Spl, P1!Rpl, P1!Rdl, P1!Rnl, MailStep

\* The variables hold values of the types the C declarations give them.
LEMMA MailTyped ==
    ASSUME MailTypes, [P1!Next]_P1!vars
    PROVE  MailTypes'
<1> USE DEF MailTypes, Content, P1!Files, P1!Empty, P1!sdlVars, P1!splVars, P1!rplVars,
            P1!rdlVars,
            P1!rnlVars, P1!Truncate, P1!Fill, P1!Signal, P1!Clear
<1>0. Packets \in Nat
  BY Protocol2Assumption
<1>1. CASE P1!SdlFetch
  BY <1>0, <1>1 DEF P1!SdlFetch
<1>2. CASE P1!SdlPost
  BY <1>0, <1>2 DEF P1!SdlPost
<1>3. CASE P1!SplRead
  BY <1>0, <1>3 DEF P1!SplRead
<1>4. CASE P1!SplWrite
  BY <1>0, <1>4 DEF P1!SplWrite
<1>5. CASE P1!SplClearFlag
  BY <1>0, <1>5 DEF P1!SplClearFlag
<1>6. CASE P1!RplReceive
  BY <1>0, <1>6 DEF P1!RplReceive
<1>7. CASE P1!RplPost
  BY <1>0, <1>7 DEF P1!RplPost
<1>8. CASE P1!RdlFrameArrival
  BY <1>0, <1>8 DEF P1!RdlFrameArrival
<1>9. CASE P1!RdlRead
  BY <1>0, <1>9 DEF P1!RdlRead, P1!Garbage
<1>10. CASE P1!RdlPost
  BY <1>0, <1>10 DEF P1!RdlPost
<1>11. CASE P1!RnlAppend
  <2>1. recv_test' = Append(recv_test, recvbuf(RnlFile)) /\ RnlFile \in Content
    BY <1>11 DEF P1!RnlAppend, RnlFile, P1!recvbuf, recvbuf, P1!Garbage, Garbage, Empty
  <2>2. recvbuf(RnlFile) \in Content
    BY <1>0, <2>1, Received
  <2>3. recv_test' \in Seq(Content)
    BY <2>1, <2>2, AppendedAt
  <2> QED BY <1>11, <2>3 DEF P1!RnlAppend
<1>12. CASE P1!RnlClearFlag
  BY <1>0, <1>12 DEF P1!RnlClearFlag
<1>13. CASE UNCHANGED P1!vars
  BY <1>13 DEF P1!vars
<1> QED
  BY <1>1, <1>2, <1>3, <1>4, <1>5, <1>6, <1>7, <1>8, <1>9, <1>10, <1>11, <1>12, <1>13
     DEF P1!Next, P1!Sdl, P1!Spl, P1!Rpl, P1!Rdl, P1!Rnl
-----------------------------------------------------------------------------
(* Order *)

\* The numbers that stand for contents.
LEMMA ContentIs ==
    /\ Content \subseteq Nat /\ 0 \in Content /\ Packets \in Nat
    /\ Garbage = 0 /\ P1!Empty = 0
<1>1. Packets \in Nat
  BY Protocol2Assumption
<1> QED BY <1>1 DEF Content, Garbage, P1!Empty

\* Each file and each flag by itself.
LEMMA FileTypes ==
    ASSUME MailTypes
    PROVE  /\ SplFile \in Content /\ RdlFile \in Content /\ RnlFile \in Content
           /\ SplFlag \in {0, 1} /\ RdlFlag \in {0, 1} /\ RnlFlag \in {0, 1}
BY DEF MailTypes, P1!Files, SplFile, RdlFile, RnlFile, SplFlag, RdlFlag, RnlFlag

\* The values of a sequence of packets are packets.
LEMMA ValuesType ==
    ASSUME NEW s \in Seq(Content)
    PROVE  Values(s) \subseteq Content /\ \A i \in 1 .. Len(s) : s[i] \in Values(s)
BY DEF Values

\* A queue stays in order when nothing older is put at its end.
LEMMA SortedAppend ==
    ASSUME NEW s \in Seq(Content), NEW x \in Content, Sorted(s), NotOlder(x, Values(s))
    PROVE  Sorted(Append(s, x))
<1> DEFINE t == Append(s, x)
<1>1. /\ Len(t) = Len(s) + 1 /\ Len(s) \in Nat /\ t[Len(s) + 1] = x
      /\ \A i \in 1 .. Len(s) : t[i] = s[i]
  BY AppendedAt
<1> HIDE DEF t
<1>2. SUFFICES ASSUME NEW i \in 1 .. Len(t), NEW k \in 1 .. Len(t), i < k
               PROVE  NotOlder(t[k], {t[i]})
  BY DEF Sorted, t
<1>3. i \in 1 .. Len(s) /\ t[i] = s[i] /\ s[i] \in Values(s)
  BY <1>1, <1>2, ValuesType
<1>4. CASE k = Len(s) + 1
  BY <1>1, <1>3, <1>4 DEF NotOlder
<1>5. CASE k \in 1 .. Len(s)
  BY <1>1, <1>2, <1>3, <1>5 DEF Sorted
<1> QED BY <1>1, <1>4, <1>5

\* A queue stays in order when its head is taken, and that is the oldest.
LEMMA SortedTail ==
    ASSUME NEW s \in Seq(Content), s # << >>, Sorted(s)
    PROVE  /\ Sorted(Tail(s))
           /\ \A i \in 1 .. Len(Tail(s)) : NotOlder(Tail(s)[i], {Head(s)})
<1> DEFINE t == Tail(s)
<1>1. /\ Len(t) = Len(s) - 1 /\ Len(s) \in Nat /\ Len(s) > 0 /\ Head(s) = s[1]
      /\ \A i \in 1 .. Len(s) - 1 : t[i] = s[i + 1]
  BY TailAt
<1> HIDE DEF t
<1>2. ASSUME NEW i \in 1 .. Len(t), NEW k \in 1 .. Len(t), i < k
      PROVE  NotOlder(t[k], {t[i]})
  <2>1. i + 1 \in 1 .. Len(s) /\ k + 1 \in 1 .. Len(s) /\ i + 1 < k + 1
        /\ t[i] = s[i + 1] /\ t[k] = s[k + 1]
    BY <1>1, <1>2
  <2> QED BY <2>1 DEF Sorted
<1>3. ASSUME NEW i \in 1 .. Len(t) PROVE NotOlder(t[i], {Head(s)})
  <2>1. i + 1 \in 1 .. Len(s) /\ 1 \in 1 .. Len(s) /\ 1 < i + 1 /\ t[i] = s[i + 1]
    BY <1>1
  <2> QED BY <1>1, <2>1 DEF Sorted
<1> QED BY <1>2, <1>3 DEF Sorted, t

-----------------------------------------------------------------------------
\* No file holds a packet while its writer is between fopen and fclose.
LEMMA FileStep ==
    ASSUME MailTypes, FileInv, MailStep
    PROVE  FileInv' /\ (Posted' = Posted \/ (sdl = "close" /\ Posted' = Posted + 1))
<1>0. /\ buffer \in Nat /\ sdl \in {"fetch", "open", "close", "kill"}
      /\ SplFile \in Nat /\ RdlFile \in Nat /\ RnlFile \in Nat /\ P1!Empty = 0
  BY FileTypes, ContentIs DEF MailTypes
<1> USE <1>0 DEF FileInv, Posted
<1>1. CASE SdlFetches
  BY <1>1 DEF SdlFetches
<1>2. CASE SdlOpens
  BY <1>2 DEF SdlOpens
<1>3. CASE SdlFills
  BY <1>3 DEF SdlFills
<1>4. CASE SdlSignals
  BY <1>4 DEF SdlSignals
<1>5. CASE SplReads
  BY <1>5 DEF SplReads
<1>6. CASE SplWrites
  BY <1>6 DEF SplWrites
<1>7. CASE SplClears
  BY <1>7 DEF SplClears
<1>8. CASE RplReceives
  BY <1>8 DEF RplReceives
<1>9. CASE RplOpens
  BY <1>9 DEF RplOpens
<1>10. CASE RplFills
  BY <1>10 DEF RplFills
<1>11. CASE RplSignals
  BY <1>11 DEF RplSignals
<1>12. CASE RdlWakes
  BY <1>12 DEF RdlWakes
<1>13. CASE RdlReads
  BY <1>13 DEF RdlReads
<1>14. CASE RdlOpens
  BY <1>14 DEF RdlOpens
<1>15. CASE RdlFills
  BY <1>15 DEF RdlFills
<1>16. CASE RdlSignals
  BY <1>16 DEF RdlSignals
<1>17. CASE RnlAppends
  BY <1>17 DEF RnlAppends
<1>18. CASE RnlClears
  BY <1>18 DEF RnlClears
<1>19. CASE Idle
  BY <1>19 DEF Idle
<1> QED BY <1>1, <1>2, <1>3, <1>4, <1>5, <1>6, <1>7, <1>8, <1>9, <1>10, <1>11, <1>12, <1>13,
          <1>14, <1>15, <1>16, <1>17, <1>18, <1>19 DEF MailStep

\* Everything above packets is a packet.
LEMMA PlacesType ==
    ASSUME MailTypes
    PROVE  /\ Values(recv_test) \subseteq Content /\ Values(frames) \subseteq Content
           /\ InSpl \subseteq Content
           /\ Appended1 \subseteq ToRnl /\ ToRnl \subseteq InRdl /\ InRdl \subseteq ToRdl
           /\ ToRdl \subseteq InRpl /\ InRpl \subseteq OnWire /\ OnWire \subseteq InSpl
           /\ \A i \in 1 .. Len(frames) : frames[i] \in Values(frames)
<1>1. Values(recv_test) \subseteq Content /\ Values(frames) \subseteq Content
  BY ValuesType DEF MailTypes
<1>2. \A i \in 1 .. Len(frames) : frames[i] \in Values(frames)
  BY ValuesType DEF MailTypes
<1> QED BY <1>1, <1>2, FileTypes, ContentIs
           DEF MailTypes, Appended1, ToRnl, InRdl, ToRdl, InRpl, OnWire, InSpl

\* What a read of RNL's file leaves in its buffer is not older than anything appended.
LEMMA BufferOrder ==
    ASSUME MailTypes, OrderInv
    PROVE  /\ recvbuf(RnlFile) \in Content
           /\ NotOlder(recvbuf(RnlFile), Values(recv_test))
           /\ recvbuf(RnlFile) \in ToRnl
<1>1. /\ RnlFile \in Content /\ Len(recv_test) \in Nat
      /\ \A i \in 1 .. Len(recv_test) : recv_test[i] \in Content
  BY FileTypes DEF MailTypes
<1>2. CASE RnlFile # Empty
  BY <1>1, <1>2 DEF recvbuf, OrderInv, NotOlder, Appended1, ToRnl
<1>3. CASE RnlFile = Empty /\ recv_test = << >>
  BY <1>3, ContentIs DEF recvbuf, Garbage, NotOlder, Appended1, ToRnl
<1>4. CASE RnlFile = Empty /\ recv_test # << >>
  <2> DEFINE x == recv_test[Len(recv_test)]
  <2>1. recvbuf(RnlFile) = x /\ Len(recv_test) \in 1 .. Len(recv_test)
    BY <1>1, <1>4 DEF recvbuf, MailTypes
  <2>2. x \in Content /\ x \in Values(recv_test)
    BY <1>1, <2>1 DEF Values
  <2>3. \A i \in 1 .. Len(recv_test) : x # Garbage => recv_test[i] =< x
    <3>1. SUFFICES ASSUME NEW i \in 1 .. Len(recv_test), x # Garbage
                   PROVE  recv_test[i] =< x
      OBVIOUS
    <3>2. CASE i = Len(recv_test)
      <4>1. x \in Nat /\ recv_test[i] = x
        BY <2>2, <3>2, ContentIs
      <4> HIDE DEF x
      <4> QED BY <4>1
    <3>3. CASE i < Len(recv_test)
      BY <2>1, <3>1, <3>3 DEF OrderInv, Sorted, NotOlder
    <3> QED BY <1>1, <3>2, <3>3
  <2>4. NotOlder(x, Values(recv_test))
    BY <2>3 DEF NotOlder, Values
  <2> QED BY <2>1, <2>2, <2>4 DEF ToRnl, Appended1
<1> QED BY <1>2, <1>3, <1>4

\* From one place to the next a packet never overtakes another.
LEMMA OrderStep ==
    ASSUME MailTypes, FileInv, OrderInv, MailStep
    PROVE  OrderInv'
<1>0. /\ Posted \in Nat /\ Posted' \in Nat /\ Posted =< Posted'
      /\ SplFile \in {P1!Empty, Posted}
  BY FileStep, FileTypes, ContentIs DEF MailTypes, FileInv, Posted
<1>1. CASE SdlFetches
  BY <1>0, <1>1, FileTypes, ContentIs, PlacesType
     DEF SdlFetches, OrderInv, NotOlder, MailTypes,
         Appended1, ToRnl, InRdl, ToRdl, InRpl, OnWire, InSpl
<1>2. CASE SdlOpens
  BY <1>0, <1>2, FileTypes, ContentIs, PlacesType
     DEF SdlOpens, OrderInv, NotOlder, MailTypes,
         Appended1, ToRnl, InRdl, ToRdl, InRpl, OnWire, InSpl
<1>3. CASE SdlFills
  <2>1. UNCHANGED <<recv_test, frames, RnlFile, rdl_buffer, RdlFile, rpl_buffer, spl_buffer>>
    BY <1>3 DEF SdlFills
  <2>2. SplFile' = Posted + 1 /\ Posted' = Posted + 1
    BY <1>3, FileStep, FileTypes, ContentIs DEF SdlFills, Posted, MailTypes, FileInv
  <2>3. /\ UNCHANGED <<Appended1, ToRnl, InRdl, ToRdl, InRpl, OnWire, InSpl>>
    BY <2>1 DEF Appended1, ToRnl, InRdl, ToRdl, InRpl, OnWire, InSpl
  <2>4. \A a \in InSpl : a \in Nat /\ a =< Posted
    BY PlacesType, ContentIs DEF OrderInv
  <2>5. NotOlder(Posted + 1, InSpl) /\ \A a \in InSpl : a =< Posted + 1
    BY <1>0, <2>4 DEF NotOlder
  <2> QED BY <2>1, <2>2, <2>3, <2>5 DEF OrderInv
<1>4. CASE SdlSignals
  BY <1>0, <1>4, FileTypes, ContentIs, PlacesType
     DEF SdlSignals, OrderInv, NotOlder, MailTypes,
         Appended1, ToRnl, InRdl, ToRdl, InRpl, OnWire, InSpl
<1>5. CASE SplReads
  <2>1. CASE SplFile = P1!Empty
    BY <1>0, <1>5, <2>1
       DEF SplReads, OrderInv, Posted, Appended1, ToRnl, InRdl, ToRdl, InRpl, OnWire, InSpl
  <2>2. CASE SplFile # P1!Empty
    BY <1>0, <1>5, <2>2, FileTypes, ContentIs, PlacesType
       DEF SplReads, OrderInv, NotOlder, MailTypes,
           Appended1, ToRnl, InRdl, ToRdl, InRpl, OnWire, InSpl
  <2> QED BY <2>1, <2>2
<1>6. CASE SplWrites
  <2>1. /\ frames' = Append(frames, spl_buffer)
        /\ UNCHANGED <<recv_test, RnlFile, rdl_buffer, RdlFile, rpl_buffer, spl_buffer, SplFile,
                       Posted>>
    BY <1>6 DEF SplWrites, Posted
  <2>2. Values(frames') = Values(frames) \cup {spl_buffer}
    BY <2>1, ValuesAppend DEF MailTypes
  <2>3. /\ UNCHANGED <<Appended1, ToRnl, InRdl, ToRdl, InRpl, InSpl>>
        /\ OnWire' = OnWire \cup {spl_buffer}
    BY <2>1, <2>2 DEF Appended1, ToRnl, InRdl, ToRdl, InRpl, OnWire, InSpl
  <2>4. NotOlder(spl_buffer, Values(frames)) /\ NotOlder(spl_buffer, InRpl)
    BY DEF OrderInv, NotOlder, OnWire
  <2>5. Sorted(frames')
    BY <2>1, <2>4, SortedAppend DEF OrderInv, MailTypes
  <2>6. \A i \in 1 .. Len(frames') : NotOlder(frames'[i], InRpl)
    <3>1. TAKE i \in 1 .. Len(frames')
    <3>2. /\ Len(frames') = Len(frames) + 1 /\ Len(frames) \in Nat
          /\ frames'[Len(frames) + 1] = spl_buffer
          /\ \A k \in 1 .. Len(frames) : frames'[k] = frames[k]
      BY <2>1, AppendedAt DEF MailTypes
    <3>3. i \in 1 .. Len(frames) \/ i = Len(frames) + 1
      BY <3>2
    <3> QED BY <2>4, <3>2, <3>3 DEF OrderInv
  <2>7. NotOlder(spl_buffer, OnWire')
    BY <2>3, ContentIs DEF OrderInv, NotOlder, MailTypes
  <2> QED BY <2>1, <2>3, <2>5, <2>6, <2>7 DEF OrderInv
<1>7. CASE SplClears
  BY <1>0, <1>7, FileTypes, ContentIs, PlacesType
     DEF SplClears, OrderInv, NotOlder, MailTypes,
         Appended1, ToRnl, InRdl, ToRdl, InRpl, OnWire, InSpl
<1>8. CASE RplReceives
  <2>1. /\ frames # << >> /\ frames' = Tail(frames) /\ rpl_buffer' = Head(frames)
        /\ UNCHANGED <<recv_test, RnlFile, rdl_buffer, RdlFile, spl_buffer, SplFile, Posted>>
    BY <1>8 DEF RplReceives, Posted
  <2>2. Values(frames) = Values(frames') \cup {Head(frames)}
    BY <2>1, ValuesTail DEF MailTypes
  <2>3. /\ UNCHANGED <<Appended1, ToRnl, InRdl, ToRdl>> /\ ToRdl \subseteq InRpl
        /\ InRpl' = ToRdl \cup {Head(frames)}
        /\ OnWire' \subseteq OnWire /\ InSpl' \subseteq InSpl
    BY <2>1, <2>2 DEF Appended1, ToRnl, InRdl, ToRdl, InRpl, OnWire, InSpl
  <2>4. /\ Len(frames') = Len(frames) - 1 /\ Len(frames) \in Nat /\ Len(frames) > 0
        /\ Head(frames) = frames[1]
        /\ \A i \in 1 .. Len(frames) - 1 : frames'[i] = frames[i + 1]
    BY <2>1, TailAt DEF MailTypes
  <2>5. NotOlder(Head(frames), ToRdl)
    <3>1. 1 \in 1 .. Len(frames)
      BY <2>4
    <3> QED BY <2>3, <2>4, <3>1 DEF OrderInv, NotOlder
  <2>6. /\ Sorted(frames')
        /\ \A i \in 1 .. Len(frames') : NotOlder(frames'[i], {Head(frames)})
    BY <2>1, SortedTail DEF OrderInv, MailTypes
  <2>7. \A i \in 1 .. Len(frames') : NotOlder(frames'[i], InRpl')
    <3>1. TAKE i \in 1 .. Len(frames')
    <3>2. i + 1 \in 1 .. Len(frames) /\ frames'[i] = frames[i + 1]
      BY <2>4
    <3>3. NotOlder(frames'[i], InRpl)
      BY <3>2 DEF OrderInv
    <3> QED BY <2>3, <2>6, <3>3 DEF NotOlder
  <2>8. NotOlder(spl_buffer, OnWire') /\ NotOlder(SplFile, InSpl')
    BY <2>3 DEF OrderInv, NotOlder
  <2> QED BY <2>1, <2>3, <2>5, <2>6, <2>7, <2>8 DEF OrderInv
<1>9. CASE RplOpens
  BY <1>0, <1>9, FileTypes, ContentIs, PlacesType
     DEF RplOpens, OrderInv, NotOlder, MailTypes,
         Appended1, ToRnl, InRdl, ToRdl, InRpl, OnWire, InSpl
<1>10. CASE RplFills
  BY <1>0, <1>10, FileTypes, ContentIs, PlacesType
     DEF RplFills, OrderInv, NotOlder, MailTypes,
         Appended1, ToRnl, InRdl, ToRdl, InRpl, OnWire, InSpl
<1>11. CASE RplSignals
  BY <1>0, <1>11, FileTypes, ContentIs, PlacesType
     DEF RplSignals, OrderInv, NotOlder, MailTypes,
         Appended1, ToRnl, InRdl, ToRdl, InRpl, OnWire, InSpl
<1>12. CASE RdlWakes
  BY <1>0, <1>12, FileTypes, ContentIs, PlacesType
     DEF RdlWakes, OrderInv, NotOlder, MailTypes,
         Appended1, ToRnl, InRdl, ToRdl, InRpl, OnWire, InSpl
<1>13. CASE RdlReads
  <2>1. CASE rdl_buffer' = RdlFile
    BY <1>0, <1>13, <2>1, FileTypes, ContentIs, PlacesType
       DEF RdlReads, OrderInv, NotOlder, MailTypes,
           Appended1, ToRnl, InRdl, ToRdl, InRpl, OnWire, InSpl
  <2>2. CASE rdl_buffer' \in {rdl_buffer, Garbage}
    BY <1>0, <1>13, <2>2, FileTypes, ContentIs, PlacesType
       DEF RdlReads, OrderInv, NotOlder, MailTypes,
           Appended1, ToRnl, InRdl, ToRdl, InRpl, OnWire, InSpl
  <2> QED BY <1>13, <2>1, <2>2 DEF RdlReads
<1>14. CASE RdlOpens
  BY <1>0, <1>14, FileTypes, ContentIs, PlacesType
     DEF RdlOpens, OrderInv, NotOlder, MailTypes,
         Appended1, ToRnl, InRdl, ToRdl, InRpl, OnWire, InSpl
<1>15. CASE RdlFills
  BY <1>0, <1>15, FileTypes, ContentIs, PlacesType
     DEF RdlFills, OrderInv, NotOlder, MailTypes,
         Appended1, ToRnl, InRdl, ToRdl, InRpl, OnWire, InSpl
<1>16. CASE RdlSignals
  BY <1>0, <1>16, FileTypes, ContentIs, PlacesType
     DEF RdlSignals, OrderInv, NotOlder, MailTypes,
         Appended1, ToRnl, InRdl, ToRdl, InRpl, OnWire, InSpl
<1>17. CASE RnlAppends
  <2> DEFINE x == recvbuf(RnlFile)
  <2>0. x \in Content /\ NotOlder(x, Values(recv_test)) /\ x \in ToRnl
    BY BufferOrder
  <2>1. /\ recv_test' = Append(recv_test, x)
        /\ UNCHANGED <<frames, RnlFile, rdl_buffer, RdlFile, rpl_buffer, spl_buffer, SplFile,
                       Posted>>
    BY <1>17 DEF RnlAppends, Posted
  <2> HIDE DEF x
  <2>2. Values(recv_test') = Values(recv_test) \cup {x}
    BY <2>0, <2>1, ValuesAppend DEF MailTypes
  <2>3. /\ UNCHANGED <<ToRnl, InRdl, ToRdl, InRpl, OnWire, InSpl>>
        /\ Appended1' = Appended1 \cup {x} /\ Appended1' \subseteq ToRnl
    BY <2>0, <2>1, <2>2 DEF Appended1, ToRnl, InRdl, ToRdl, InRpl, OnWire, InSpl
  <2>4. Sorted(recv_test')
    BY <2>0, <2>1, SortedAppend DEF OrderInv, MailTypes
  <2>5. NotOlder(RnlFile, Appended1')
    <3>1. NotOlder(RnlFile, Appended1) /\ RnlFile \in Nat
      BY FileTypes, ContentIs DEF OrderInv
    <3>2. NotOlder(RnlFile, ToRnl)
      BY <3>1 DEF NotOlder, ToRnl
    <3> QED BY <2>3, <3>2 DEF NotOlder
  <2> QED BY <2>1, <2>3, <2>4, <2>5 DEF OrderInv
<1>18. CASE RnlClears
  BY <1>0, <1>18, FileTypes, ContentIs, PlacesType
     DEF RnlClears, OrderInv, NotOlder, MailTypes,
         Appended1, ToRnl, InRdl, ToRdl, InRpl, OnWire, InSpl
<1>19. CASE Idle
  BY <1>0, <1>19, FileTypes, ContentIs, PlacesType
     DEF Idle, OrderInv, NotOlder, MailTypes,
         Appended1, ToRnl, InRdl, ToRdl, InRpl, OnWire, InSpl
<1> QED BY <1>1, <1>2, <1>3, <1>4, <1>5, <1>6, <1>7, <1>8, <1>9, <1>10, <1>11, <1>12, <1>13,
          <1>14, <1>15, <1>16, <1>17, <1>18, <1>19 DEF MailStep
-----------------------------------------------------------------------------
(* Number *)

\* A condition counts one or nothing.
LEMMA CountIs == \A c : Count(c) \in {0, 1}
BY DEF Count

\* Whatever is appended, written or signalled takes the place of a signal or a frame.
LEMMA CountStep ==
    ASSUME MailTypes, CountInv, MailStep
    PROVE  CountInv'
<1>1. /\ buffer \in Nat /\ Len(frames) \in Nat /\ Len(recv_test) \in Nat
      /\ SplFlag \in {0, 1} /\ RdlFlag \in {0, 1} /\ RnlFlag \in {0, 1}
  BY FileTypes, ContentIs DEF MailTypes
<1> USE <1>1 DEF CountInv, SignalsLeft, Count
<1>2. CASE SdlFetches
  BY <1>2 DEF SdlFetches
<1>3. CASE SdlOpens
  BY <1>3 DEF SdlOpens
<1>4. CASE SdlFills
  BY <1>4 DEF SdlFills
<1>5. CASE SdlSignals
  BY <1>5 DEF SdlSignals
<1>6. CASE SplReads
  <2>1. Count(spl = "write") = 0 /\ Count(spl' = "write") = 1
    BY <1>6 DEF SplReads
  <2>2. Count(SplFlag = 1 /\ spl = "poll") = 1 /\ Count(SplFlag' = 1 /\ spl' = "poll") = 0
    BY <1>6 DEF SplReads
  <2> HIDE DEF Count
  <2> QED BY <1>6, <2>1, <2>2, CountIs DEF SplReads
<1>7. CASE SplWrites
  <2>1. Len(frames') = Len(frames) + 1
    BY <1>7, AppendedAt DEF SplWrites, MailTypes
  <2>2. Count(spl = "write") = 1 /\ Count(spl' = "write") = 0
    BY <1>7 DEF SplWrites
  <2>3. Count(SplFlag = 1 /\ spl = "poll") = 0 /\ Count(SplFlag' = 1 /\ spl' = "poll") = 0
    BY <1>7 DEF SplWrites
  <2> HIDE DEF Count
  <2> QED BY <1>7, <2>1, <2>2, <2>3, CountIs DEF SplWrites
<1>8. CASE SplClears
  BY <1>8 DEF SplClears
<1>9. CASE RplReceives
  <2>1. Len(frames') = Len(frames) - 1
    BY <1>9, TailAt DEF RplReceives, MailTypes
  <2> QED BY <1>9, <2>1 DEF RplReceives
<1>10. CASE RplOpens
  BY <1>10 DEF RplOpens
<1>11. CASE RplFills
  BY <1>11 DEF RplFills
<1>12. CASE RplSignals
  BY <1>12 DEF RplSignals
<1>13. CASE RdlWakes
  BY <1>13 DEF RdlWakes
<1>14. CASE RdlReads
  BY <1>14 DEF RdlReads
<1>15. CASE RdlOpens
  BY <1>15 DEF RdlOpens
<1>16. CASE RdlFills
  BY <1>16 DEF RdlFills
<1>17. CASE RdlSignals
  BY <1>17 DEF RdlSignals
<1>18. CASE RnlAppends
  <2>1. RnlFile \in 0 .. Packets /\ recv_test \in Seq(0 .. Packets) /\ Packets \in Nat
    BY FileTypes, ContentIs DEF MailTypes, Content
  <2>2. recvbuf(RnlFile) \in Content
    BY <2>1, Received DEF Content
  <2>3. Len(recv_test') = Len(recv_test) + 1
    BY <1>18, <2>2, AppendedAt DEF RnlAppends, MailTypes
  <2> QED BY <1>18, <2>3 DEF RnlAppends
<1>19. CASE RnlClears
  BY <1>19 DEF RnlClears
<1>20. CASE Idle
  BY <1>20 DEF Idle
<1> QED BY <1>2, <1>3, <1>4, <1>5, <1>6, <1>7, <1>8, <1>9, <1>10, <1>11, <1>12,
          <1>13, <1>14, <1>15, <1>16, <1>17, <1>18, <1>19, <1>20 DEF MailStep
-----------------------------------------------------------------------------
(* The theorems *)

\* At first nothing is anywhere.
LEMMA MailStart ==
    ASSUME P1!Init
    PROVE  MailInv /\ CountInv
<1> USE DEF P1!Init
<1>1. MailTypes
  BY ContentIs DEF MailTypes, P1!Files, P1!Empty, P1!Garbage
<1>2. /\ SplFile = 0 /\ RdlFile = 0 /\ RnlFile = 0 /\ SplFlag = 0 /\ RdlFlag = 0 /\ RnlFlag = 0
      /\ Posted = 0 /\ Garbage = 0 /\ P1!Empty = 0 /\ Len(frames) = 0 /\ Len(recv_test) = 0
  BY DEF P1!Files, P1!Empty, P1!Garbage, Garbage, SplFile, RdlFile, RnlFile, SplFlag, RdlFlag, RnlFlag,
     Posted
<1>3. FileInv
  BY <1>2 DEF FileInv
<1>4. Values(frames) = {} /\ Values(recv_test) = {}
  BY <1>2 DEF Values
<1>5. \A a \in InSpl : a = 0
  BY <1>2, <1>4 DEF InSpl, OnWire, InRpl, ToRdl, InRdl, ToRnl, Appended1, P1!Garbage
<1>6. OrderInv
  BY <1>2, <1>5 DEF P1!Garbage, OrderInv, Sorted, NotOlder
<1>7. CountInv
  BY <1>2 DEF CountInv, SignalsLeft, Count
<1> QED BY <1>1, <1>3, <1>6, <1>7 DEF MailInv

\* What is in the files, buffers and flags of protocol 1, in which order, and how many
\* appends can still come of it.
THEOREM MailAlways == P1!Safety => [](MailInv /\ CountInv)
<1>1. P1!Init => MailInv /\ CountInv
  BY MailStart
<1>2. MailInv /\ CountInv /\ [P1!Next]_P1!vars => (MailInv /\ CountInv)'
  <2> SUFFICES ASSUME MailInv, CountInv, [P1!Next]_P1!vars
               PROVE  (MailInv /\ CountInv)'
    OBVIOUS
  <2>1. MailStep /\ MailTypes'
    BY StepIs, MailTyped DEF MailInv
  <2>2. FileInv' /\ OrderInv'
    BY <2>1, FileStep, OrderStep DEF MailInv
  <2>3. CountInv'
    BY <2>1, CountStep DEF MailInv
  <2> QED BY <2>1, <2>2, <2>3 DEF MailInv
<1> QED BY <1>1, <1>2, PTL DEF P1!Safety

\* Packets arrive in recv_test.txt in order, those whose bytes are packets, and no more
\* is appended there than SDL has fetched.
THEOREM ArrivesInOrderNoneAdded == P1!Safety => []InOrderNoneAdded
<1>1. MailInv /\ CountInv => InOrderNoneAdded
  <2> SUFFICES ASSUME MailInv, CountInv PROVE InOrderNoneAdded
    OBVIOUS
  <2>1. InOrder
    BY ContentIs DEF MailInv, OrderInv, Sorted, NotOlder, InOrder, Garbage
  <2>2. /\ buffer \in Nat /\ Len(recv_test) \in Nat /\ Len(frames) \in Nat
    BY ContentIs DEF MailInv, MailTypes
  <2>3. Len(recv_test) =< buffer
    BY <2>2 DEF CountInv, SignalsLeft, Count
  <2> QED BY <2>1, <2>3 DEF InOrderNoneAdded
<1> QED BY <1>1, MailAlways, PTL
=============================================================================
