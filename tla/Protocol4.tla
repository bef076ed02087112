------------------------------ MODULE Protocol4 ------------------------------
(***************************************************************************)
(* Protocol 4 of linux-data-link-layer (04/sender4.c, 04/receiver4.c): the *)
(* one-bit sliding window.  Both hosts run the same code under two sets of *)
(* names, each with packets to send, and every frame carries a packet of   *)
(* its own and the acknowledgement of the other host's.  A host that has   *)
(* no packet left blocks in from_network_layer and answers nothing more.   *)
(*                                                                         *)
(* A host is a data-link process (SDL, RDL) and a physical one (SPL, RPL); *)
(* the names here are the sender's.  Files, signals and grain are those of *)
(* Protocol3; the file to the network layer, read as in protocol 3, is     *)
(* left out.                                                               *)
(***************************************************************************)
EXTENDS Naturals, Integers, Sequences

CONSTANTS SenderPackets,    \* packets in the source file of the sender ...
          ReceiverPackets,  \* ... and of the receiver
          NetCap            \* frames the socket holds before select() calls it unwritable

ASSUME Protocol4Assumption == /\ SenderPackets \in Nat /\ ReceiverPackets \in Nat
                              /\ NetCap \in Nat \ {0}

Hosts == {"sender", "receiver"}
Peer(h) == IF h = "sender" THEN "receiver" ELSE "sender"
PacketsOf(h) == IF h = "sender" THEN SenderPackets ELSE ReceiverPackets

MAX_SEQ == 1
inc(k) == IF k < MAX_SEQ THEN k + 1 ELSE 0

NoFrame == [seq |-> -1, ack |-> -1, info |-> 0]    \* a file nobody has written

VARIABLES
    sdl,                  \* program counter of the data-link process
    buffer,               \* the packet it is sending
    next_frame_to_send,
    frame_expected,
    delivered,            \* packets given to to_network_layer, in order
    sdl_to_spl_pkg,       \* file: the last frame posted
    spl_should_read,      \* flag in the physical process
    spl,                  \* program counter of the physical process
    frames,               \* frames on their way to the peer
    spl_to_sdl,           \* file: the last frame received
    spl_ack_flag,         \* flag in the data-link process: a frame is there
    spl_cksum_err         \* flag in the data-link process: a frame was damaged

sdlVars == <<sdl, buffer, next_frame_to_send, frame_expected, delivered>>
vars == <<sdlVars, sdl_to_spl_pkg, spl_should_read, spl, frames, spl_to_sdl,
          spl_ack_flag, spl_cksum_err>>

Init ==
    /\ sdl = [h \in Hosts |-> "start"]
    /\ buffer = [h \in Hosts |-> 0]
    /\ next_frame_to_send = [h \in Hosts |-> 0]
    /\ frame_expected = [h \in Hosts |-> 0]
    /\ delivered = [h \in Hosts |-> << >>]
    /\ sdl_to_spl_pkg = [h \in Hosts |-> NoFrame]
    /\ spl_should_read = [h \in Hosts |-> 0]
    /\ spl = [h \in Hosts |-> "select"]
    /\ frames = [h \in Hosts |-> << >>]
    /\ spl_to_sdl = [h \in Hosts |-> NoFrame]
    /\ spl_ack_flag = [h \in Hosts |-> 0]
    /\ spl_cksum_err = [h \in Hosts |-> 0]
-----------------------------------------------------------------------------
(* The data-link process *)

SdlGoto(h, pc) == sdl' = [sdl EXCEPT ![h] = pc]

\* from_network_layer before the loop.
SdlFirstPacket(h) ==
    /\ sdl[h] = "start" /\ buffer[h] < PacketsOf(h)
    /\ buffer' = [buffer EXCEPT ![h] = @ + 1]
    /\ SdlGoto(h, "post")
    /\ UNCHANGED <<next_frame_to_send, frame_expected, delivered, sdl_to_spl_pkg,
                   spl_should_read, spl, frames, spl_to_sdl, spl_ack_flag, spl_cksum_err>>

\* Build the frame and write the file of to_physical_layer.
SdlPost(h) ==
    /\ sdl[h] = "post"
    /\ sdl_to_spl_pkg' = [sdl_to_spl_pkg EXCEPT ![h] =
            [seq |-> next_frame_to_send[h], ack |-> 1 - frame_expected[h], info |-> buffer[h]]]
    /\ SdlGoto(h, "signal")
    /\ UNCHANGED <<buffer, next_frame_to_send, frame_expected, delivered,
                   spl_should_read, spl, frames, spl_to_sdl, spl_ack_flag, spl_cksum_err>>

\* The kill() of to_physical_layer, then start_timer.
SdlSignal(h) ==
    /\ sdl[h] = "signal"
    /\ spl_should_read' = [spl_should_read EXCEPT ![h] = 1]
    /\ SdlGoto(h, "wait")
    /\ UNCHANGED <<buffer, next_frame_to_send, frame_expected, delivered, sdl_to_spl_pkg,
                   spl, frames, spl_to_sdl, spl_ack_flag, spl_cksum_err>>

\* Mutant of SdlTimeout: the timer is never started.
SdlNoTimer(h) == FALSE /\ UNCHANGED vars

\* wait_for_event returns timeout, at any moment.
SdlTimeout(h) ==
    /\ sdl[h] = "wait"
    /\ SdlGoto(h, "post")
    /\ UNCHANGED <<buffer, next_frame_to_send, frame_expected, delivered, sdl_to_spl_pkg,
                   spl_should_read, spl, frames, spl_to_sdl, spl_ack_flag, spl_cksum_err>>

\* wait_for_event returns frame_arrival, having cleared the flag.
SdlFrameArrival(h) ==
    /\ sdl[h] = "wait" /\ spl_ack_flag[h] = 1
    /\ spl_ack_flag' = [spl_ack_flag EXCEPT ![h] = 0]
    /\ SdlGoto(h, "read")
    /\ UNCHANGED <<buffer, next_frame_to_send, frame_expected, delivered, sdl_to_spl_pkg,
                   spl_should_read, spl, frames, spl_to_sdl, spl_cksum_err>>

\* wait_for_event returns cksum_err, which is only looked at without a frame.
SdlCksumErr(h) ==
    /\ sdl[h] = "wait" /\ spl_ack_flag[h] = 0 /\ spl_cksum_err[h] = 1
    /\ spl_cksum_err' = [spl_cksum_err EXCEPT ![h] = 0]
    /\ SdlGoto(h, "post")
    /\ UNCHANGED <<buffer, next_frame_to_send, frame_expected, delivered, sdl_to_spl_pkg,
                   spl_should_read, spl, frames, spl_to_sdl, spl_ack_flag>>

\* Mutant of SdlRead: the sequence number is not compared.
SdlReadAny(h) ==
    LET r == spl_to_sdl[h] IN
    /\ sdl[h] = "read"
    /\ delivered' = [delivered EXCEPT ![h] = Append(@, r.info)]
    /\ frame_expected' = [frame_expected EXCEPT ![h] = inc(@)]
    /\ SdlGoto(h, IF r.ack = next_frame_to_send[h] THEN "fetch" ELSE "post")
    /\ UNCHANGED <<buffer, next_frame_to_send, sdl_to_spl_pkg, spl_should_read, spl,
                   frames, spl_to_sdl, spl_ack_flag, spl_cksum_err>>

\* from_physical_layer; the packet, if it is the one expected; the acknowledgement.
SdlRead(h) ==
    LET r == spl_to_sdl[h] IN
    /\ sdl[h] = "read"
    /\ IF r.seq = frame_expected[h]
         THEN /\ delivered' = [delivered EXCEPT ![h] = Append(@, r.info)]
              /\ frame_expected' = [frame_expected EXCEPT ![h] = inc(@)]
         ELSE UNCHANGED <<delivered, frame_expected>>
    /\ SdlGoto(h, IF r.ack = next_frame_to_send[h] THEN "fetch" ELSE "post")
    /\ UNCHANGED <<buffer, next_frame_to_send, sdl_to_spl_pkg, spl_should_read, spl,
                   frames, spl_to_sdl, spl_ack_flag, spl_cksum_err>>

\* Mutant of SdlNextPacket: the next packet goes out under the same number.
SdlNextPacketSameNr(h) ==
    /\ sdl[h] = "fetch" /\ buffer[h] < PacketsOf(h)
    /\ buffer' = [buffer EXCEPT ![h] = @ + 1]
    /\ SdlGoto(h, "post")
    /\ UNCHANGED <<next_frame_to_send, frame_expected, delivered, sdl_to_spl_pkg,
                   spl_should_read, spl, frames, spl_to_sdl, spl_ack_flag, spl_cksum_err>>

\* from_network_layer after the right acknowledgement.  When the source file is
\* exhausted it blocks, before the packet just delivered has been acknowledged.
SdlNextPacket(h) ==
    /\ sdl[h] = "fetch" /\ buffer[h] < PacketsOf(h)
    /\ buffer' = [buffer EXCEPT ![h] = @ + 1]
    /\ next_frame_to_send' = [next_frame_to_send EXCEPT ![h] = inc(@)]
    /\ SdlGoto(h, "post")
    /\ UNCHANGED <<frame_expected, delivered, sdl_to_spl_pkg, spl_should_read, spl,
                   frames, spl_to_sdl, spl_ack_flag, spl_cksum_err>>

Sdl(h) == \/ SdlFirstPacket(h) \/ SdlPost(h) \/ SdlSignal(h) \/ SdlTimeout(h)
          \/ SdlFrameArrival(h) \/ SdlCksumErr(h) \/ SdlRead(h) \/ SdlNextPacket(h)
-----------------------------------------------------------------------------
(* The physical process: one select() loop *)

SplSend(h) ==
    /\ spl[h] = "select" /\ spl_should_read[h] = 1 /\ Len(frames[h]) < NetCap
    /\ frames' = [frames EXCEPT ![h] = Append(@, sdl_to_spl_pkg[h])]
    /\ spl' = [spl EXCEPT ![h] = "sent"]
    /\ UNCHANGED <<sdlVars, sdl_to_spl_pkg, spl_should_read, spl_to_sdl, spl_ack_flag,
                   spl_cksum_err>>

\* Only after write() is the flag cleared, whatever was signalled meanwhile.
SplClearFlag(h) ==
    /\ spl[h] = "sent"
    /\ spl_should_read' = [spl_should_read EXCEPT ![h] = 0]
    /\ spl' = [spl EXCEPT ![h] = "select"]
    /\ UNCHANGED <<sdlVars, sdl_to_spl_pkg, frames, spl_to_sdl, spl_ack_flag, spl_cksum_err>>

SplTakesFrame(h) == /\ spl[h] = "select" /\ frames[Peer(h)] # << >>
                    /\ frames' = [frames EXCEPT ![Peer(h)] = Tail(@)]

\* 3%: the frame is lost.
SplLostFrame(h) ==
    /\ SplTakesFrame(h)
    /\ UNCHANGED <<sdlVars, sdl_to_spl_pkg, spl_should_read, spl, spl_to_sdl, spl_ack_flag,
                   spl_cksum_err>>

\* 3%: the frame is damaged; on the receiver the handler of that signal assigns a
\* local variable, so there this is a lost frame.
SplDamagedFrame(h) ==
    /\ SplTakesFrame(h)
    /\ spl_cksum_err' = IF h = "sender" THEN [spl_cksum_err EXCEPT ![h] = 1] ELSE spl_cksum_err
    /\ UNCHANGED <<sdlVars, sdl_to_spl_pkg, spl_should_read, spl, spl_to_sdl, spl_ack_flag>>

\* The frame is written to the file for the data-link process ...
SplPassFrame(h) ==
    /\ SplTakesFrame(h)
    /\ spl_to_sdl' = [spl_to_sdl EXCEPT ![h] = Head(frames[Peer(h)])]
    /\ spl' = [spl EXCEPT ![h] = "signal"]
    /\ UNCHANGED <<sdlVars, sdl_to_spl_pkg, spl_should_read, spl_ack_flag, spl_cksum_err>>

\* ... and that process is signalled.
SplSignal(h) ==
    /\ spl[h] = "signal"
    /\ spl_ack_flag' = [spl_ack_flag EXCEPT ![h] = 1]
    /\ spl' = [spl EXCEPT ![h] = "select"]
    /\ UNCHANGED <<sdlVars, sdl_to_spl_pkg, spl_should_read, frames, spl_to_sdl, spl_cksum_err>>

Spl(h) == \/ SplSend(h) \/ SplClearFlag(h) \/ SplLostFrame(h)
          \/ SplDamagedFrame(h) \/ SplPassFrame(h) \/ SplSignal(h)
-----------------------------------------------------------------------------
Next == \E h \in Hosts : Sdl(h) \/ Spl(h)

Safety == Init /\ [][Next]_vars

\* As in Protocol3: scheduling, both directions of select(), and rand().
Spec == /\ Safety
        /\ \A h \in Hosts :
              /\ WF_vars(Sdl(h)) /\ WF_vars(Spl(h))
              /\ SF_vars(SdlFrameArrival(h))
              /\ SF_vars(SplSend(h)) /\ SF_vars(SplPassFrame(h))
-----------------------------------------------------------------------------
\* In both directions to_network_layer is given the packets of the other host's file,
\* each one once and in order, and no host is more than one packet ahead.
InOrderExactlyOnce ==
    \A h \in Hosts :
        /\ \A i \in 1 .. Len(delivered[h]) : delivered[h][i] = i
        /\ Len(delivered[h]) \in {buffer[Peer(h)] - 1, buffer[Peer(h)]}

\* A frame with a new packet acknowledges what its sender had accepted when it
\* fetched that packet, so the two hosts move on in step: neither is more than one
\* packet ahead of the other, however the frames are lost, damaged and repeated.
InStep == buffer["sender"] - buffer["receiver"] \in -1 .. 1

\* The host whose file is exhausted first falls silent; the other one has by then
\* received all of that file ...
StopsAfterLast ==
    \A h \in Hosts : sdl[h] = "fetch" /\ buffer[h] = PacketsOf(h)
                        => Len(delivered[Peer(h)]) = PacketsOf(h)

\* ... and the exchange always gets that far.
OneFileArrives == <>(\E h \in Hosts : Len(delivered[Peer(h)]) = PacketsOf(h))

\* Each direction is a data-link service of its own, with a window of one packet.
ToReceiver == INSTANCE DataLinkService WITH Packets <- SenderPackets, Window <- 1,
                  fetched <- buffer["sender"], delivered <- delivered["receiver"]
ToSender == INSTANCE DataLinkService WITH Packets <- ReceiverPackets, Window <- 1,
                  fetched <- buffer["receiver"], delivered <- delivered["sender"]
RefinesBothServices == ToReceiver!Safety /\ ToSender!Safety
=============================================================================
