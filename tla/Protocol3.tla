------------------------------ MODULE Protocol3 ------------------------------
(***************************************************************************)
(* Protocol 3 of linux-data-link-layer (03/sender3.c, 03/receiver3.c): the *)
(* simplex stop-and-wait protocol with positive acknowledgement and        *)
(* retransmission, for a channel that damages and loses frames.            *)
(*                                                                         *)
(* The sender is the processes SDL (data link) and SPL (physical), the     *)
(* receiver the processes RPL (physical), RDL (data link) and RNL          *)
(* (network).  Two processes of one host exchange a frame through a file   *)
(* that holds only the last frame written and a real-time signal whose     *)
(* handler sets an int to 1; SPL and RPL share one TCP connection.         *)
(*                                                                         *)
(* A step is at most one access to a file or a flag that another process   *)
(* uses.  Reading a frame from a file and writing it to the socket (SPL),  *)
(* reading the socket and writing the file (SPL, RPL), and reading one     *)
(* file and writing the next one (RDL) are one step: no process sees both  *)
(* sides.  The file RDL hands packets over in is emptied and filled in two *)
(* steps, as it is in the code (fopen "w", fclose), since nothing protects *)
(* RNL from what it finds there; the files with frames are replaced in one *)
(* step.  Frames and acknowledgements are never split by TCP.              *)
(***************************************************************************)
EXTENDS RecvTest, Integers

CONSTANTS NetCap,    \* frames the socket holds before select() calls it unwritable
          RnlRuns    \* whether RNL is scheduled at all: no other process waits for it

ASSUME Protocol3Assumption == /\ Packets \in Nat
                              /\ NetCap \in Nat \ {0}
                              /\ RnlRuns \in BOOLEAN

MAX_SEQ == 1
SeqNr == 0 .. MAX_SEQ
inc(k) == IF k < MAX_SEQ THEN k + 1 ELSE 0

Frame == [seq : SeqNr, info : 1 .. Packets]
NoFrame == [seq |-> -1, info |-> 0]      \* a mailbox file nobody has written
NoAck == -1

Flag == {0, 1}                           \* an int that a signal handler sets to 1

VARIABLES
    sdl,                  \* program counter of SDL
    next_frame_to_send,
    sdl_to_spl_pkg,       \* file: the last frame SDL posted
    spl_should_read,      \* flag in SPL
    spl,                  \* program counter of SPL
    frames,               \* TCP, sender to receiver
    acks,                 \* TCP, receiver to sender
    spl_to_sdl,           \* file: the last acknowledgement SPL received
    spl_ack_flag,         \* flag in SDL
    spl_cksum_err,        \* flag in SDL
    rpl,                  \* program counter of RPL
    rpl_to_rdl,           \* file: the last frame RPL received
    rpl_flag,             \* flag in RDL
    rdl,                  \* program counter of RDL
    frame_expected,
    delivered,            \* packets given to to_network_layer, in order
    rdl_to_rpl_pkg,       \* file: the last acknowledgement RDL posted
    rpl_send_flag,        \* flag in RPL
    rdl_to_rnl,           \* file: the last packet RDL handed over, or Empty
    rdl_flag,             \* flag in RNL
    rnl                   \* program counter of RNL; recv_test and buffer are in RecvTest

sdlVars == <<sdl, buffer, next_frame_to_send>>
splVars == <<spl, acks, spl_to_sdl>>
toSpl   == <<sdl_to_spl_pkg, spl_should_read>>
toSdl   == <<spl_ack_flag, spl_cksum_err>>
rplVars == <<rpl, rpl_to_rdl>>
rdlVars == <<rdl, frame_expected, delivered, rdl_to_rnl, rdl_to_rpl_pkg>>
rnlVars == <<rnl, recv_test>>
vars == <<sdlVars, splVars, toSpl, toSdl, frames, rplVars, rpl_flag,
          rdlVars, rpl_send_flag, rdl_flag, rnlVars>>

senderVars == <<sdlVars, splVars, toSpl, toSdl>>
receiverVars == <<rplVars, rpl_flag, rdlVars, rpl_send_flag, rdl_flag, rnlVars>>

Init ==
    /\ sdl = "start" /\ buffer = 0 /\ next_frame_to_send = 0
    /\ sdl_to_spl_pkg = NoFrame /\ spl_should_read = 0
    /\ spl = "select" /\ frames = << >> /\ acks = << >>
    /\ spl_to_sdl = NoAck /\ spl_ack_flag = 0 /\ spl_cksum_err = 0
    /\ rpl = "select" /\ rpl_to_rdl = NoFrame /\ rpl_flag = 0
    /\ rdl = "wait" /\ frame_expected = 0 /\ delivered = << >>
    /\ rdl_to_rpl_pkg = NoAck /\ rpl_send_flag = 0
    /\ rdl_to_rnl = Empty /\ rdl_flag = 0
    /\ rnl = "poll" /\ recv_test = << >>

-----------------------------------------------------------------------------
(* SDL, the sender's data-link process *)

\* Mutant of SdlFirstPacket: SPL is signalled before the file exists.
SdlSignalsBeforePost ==
    /\ sdl = "start" /\ buffer < Packets
    /\ buffer' = buffer + 1
    /\ sdl' = "signal"
    /\ UNCHANGED <<next_frame_to_send, splVars, toSpl, toSdl, frames, receiverVars>>

\* from_network_layer before the loop: the first packet.
SdlFirstPacket ==
    /\ sdl = "start" /\ buffer < Packets
    /\ buffer' = buffer + 1
    /\ sdl' = "post"
    /\ UNCHANGED <<next_frame_to_send, splVars, toSpl, toSdl, frames, receiverVars>>

\* Top of the loop: build the frame and write the file of to_physical_layer.
SdlPost ==
    /\ sdl = "post"
    /\ sdl_to_spl_pkg' = [seq |-> next_frame_to_send, info |-> buffer]
    /\ sdl' = "signal"
    /\ UNCHANGED <<buffer, next_frame_to_send, splVars, spl_should_read, toSdl,
                   frames, receiverVars>>

\* The kill() of to_physical_layer, then start_timer.
SdlSignal ==
    /\ sdl = "signal"
    /\ spl_should_read' = 1
    /\ sdl' = "wait"
    /\ UNCHANGED <<buffer, next_frame_to_send, splVars, sdl_to_spl_pkg, toSdl,
                   frames, receiverVars>>

\* Mutant of SdlTimeout: the timer is never started.
SdlNoTimer == FALSE /\ UNCHANGED vars

\* wait_for_event returns timeout: clock() has passed the timer, at any moment.
SdlTimeout ==
    /\ sdl = "wait"
    /\ sdl' = "post"
    /\ UNCHANGED <<buffer, next_frame_to_send, splVars, toSpl, toSdl, frames, receiverVars>>

\* wait_for_event returns frame_arrival, having cleared the flag.
SdlFrameArrival ==
    /\ sdl = "wait" /\ spl_ack_flag = 1
    /\ spl_ack_flag' = 0
    /\ sdl' = "read"
    /\ UNCHANGED <<buffer, next_frame_to_send, splVars, toSpl, spl_cksum_err,
                   frames, receiverVars>>

\* wait_for_event returns cksum_err, which is only looked at without an ack.
SdlCksumErr ==
    /\ sdl = "wait" /\ spl_ack_flag = 0 /\ spl_cksum_err = 1
    /\ spl_cksum_err' = 0
    /\ sdl' = "post"
    /\ UNCHANGED <<buffer, next_frame_to_send, splVars, toSpl, spl_ack_flag,
                   frames, receiverVars>>

\* from_physical_layer and the comparison of s.ack.
SdlRead ==
    /\ sdl = "read"
    /\ sdl' = IF spl_to_sdl = next_frame_to_send THEN "fetch" ELSE "post"
    /\ UNCHANGED <<buffer, next_frame_to_send, splVars, toSpl, toSdl, frames, receiverVars>>

\* Mutant of SdlNextPacket: the next packet goes out under the same number.
SdlNextPacketSameNr ==
    /\ sdl = "fetch" /\ buffer < Packets
    /\ buffer' = buffer + 1
    /\ sdl' = "post"
    /\ UNCHANGED <<next_frame_to_send, splVars, toSpl, toSdl, frames, receiverVars>>

\* from_network_layer after the right acknowledgement; it blocks for ever
\* when the source file is exhausted.
SdlNextPacket ==
    /\ sdl = "fetch" /\ buffer < Packets
    /\ buffer' = buffer + 1
    /\ next_frame_to_send' = inc(next_frame_to_send)
    /\ sdl' = "post"
    /\ UNCHANGED <<splVars, toSpl, toSdl, frames, receiverVars>>

Sdl == \/ SdlFirstPacket \/ SdlPost \/ SdlSignal \/ SdlTimeout
       \/ SdlFrameArrival \/ SdlCksumErr \/ SdlRead \/ SdlNextPacket
-----------------------------------------------------------------------------
(* SPL, the sender's physical process: one select() loop *)

\* The socket is writable and the flag is set: send the frame in the file.
SplSend ==
    /\ spl = "select" /\ spl_should_read = 1 /\ Len(frames) < NetCap
    /\ frames' = Append(frames, sdl_to_spl_pkg)
    /\ spl' = "sent"
    /\ UNCHANGED <<sdlVars, acks, spl_to_sdl, toSpl, toSdl, receiverVars>>

\* Only after write() is the flag cleared, whatever was signalled meanwhile.
SplClearFlag ==
    /\ spl = "sent"
    /\ spl_should_read' = 0
    /\ spl' = "select"
    /\ UNCHANGED <<sdlVars, acks, spl_to_sdl, sdl_to_spl_pkg, toSdl, frames, receiverVars>>

\* One read() of 1036 bytes takes any number of 12-byte acknowledgements off
\* the stream; only the first of them is looked at.
SplTakesAcks(first) ==
    \E n \in 1 .. Len(acks) : /\ first = acks[1]
                              /\ acks' = SubSeq(acks, n + 1, Len(acks))

\* 3%: the acknowledgement is reported as damaged.
SplDamagedAck ==
    /\ spl = "select"
    /\ \E a \in SeqNr : SplTakesAcks(a)
    /\ spl_cksum_err' = 1
    /\ UNCHANGED <<sdlVars, spl, spl_to_sdl, toSpl, spl_ack_flag, frames, receiverVars>>

\* 3%: the acknowledgement is lost.
SplLostAck ==
    /\ spl = "select"
    /\ \E a \in SeqNr : SplTakesAcks(a)
    /\ UNCHANGED <<sdlVars, spl, spl_to_sdl, toSpl, toSdl, frames, receiverVars>>

\* The acknowledgement is written to the file for SDL ...
SplPassAck ==
    /\ spl = "select"
    /\ \E a \in SeqNr : SplTakesAcks(a) /\ spl_to_sdl' = a
    /\ spl' = "signal"
    /\ UNCHANGED <<sdlVars, toSpl, toSdl, frames, receiverVars>>

\* ... and SDL is signalled.
SplSignal ==
    /\ spl = "signal"
    /\ spl_ack_flag' = 1
    /\ spl' = "select"
    /\ UNCHANGED <<sdlVars, acks, spl_to_sdl, toSpl, spl_cksum_err, frames, receiverVars>>

Spl == SplSend \/ SplClearFlag \/ SplDamagedAck \/ SplLostAck \/ SplPassAck \/ SplSignal
-----------------------------------------------------------------------------
(* RPL, the receiver's physical process: one select() loop *)

\* Damaged (3%) and lost (3%) frames are one case: the handler of the signal
\* for a damaged frame assigns a local variable, so RDL never learns of it.
RplDropFrame ==
    /\ rpl = "select" /\ frames # << >>
    /\ frames' = Tail(frames)
    /\ UNCHANGED <<senderVars, receiverVars>>

\* The frame is written to the file for RDL ...
RplPassFrame ==
    /\ rpl = "select" /\ frames # << >>
    /\ frames' = Tail(frames)
    /\ rpl_to_rdl' = Head(frames)
    /\ rpl' = "signal"
    /\ UNCHANGED <<senderVars, rpl_flag, rdlVars, rpl_send_flag, rdl_flag, rnlVars>>

\* ... and RDL is signalled.
RplSignal ==
    /\ rpl = "signal"
    /\ rpl_flag' = 1
    /\ rpl' = "select"
    /\ UNCHANGED <<senderVars, frames, rpl_to_rdl, rdlVars, rpl_send_flag, rdl_flag, rnlVars>>

\* The socket is writable and the flag is set: send the acknowledgement in the file.
RplSendAck ==
    /\ rpl = "select" /\ rpl_send_flag = 1 /\ Len(acks) < NetCap
    /\ acks' = Append(acks, rdl_to_rpl_pkg)
    /\ rpl' = "sent"
    /\ UNCHANGED <<sdlVars, spl, spl_to_sdl, toSpl, toSdl, frames, rpl_to_rdl, rpl_flag,
                   rdlVars, rpl_send_flag, rdl_flag, rnlVars>>

RplClearFlag ==
    /\ rpl = "sent"
    /\ rpl_send_flag' = 0
    /\ rpl' = "select"
    /\ UNCHANGED <<senderVars, frames, rpl_to_rdl, rpl_flag, rdlVars, rdl_flag, rnlVars>>

Rpl == RplDropFrame \/ RplPassFrame \/ RplSignal \/ RplSendAck \/ RplClearFlag
-----------------------------------------------------------------------------
(* RDL, the receiver's data-link process *)

\* wait_for_event returns frame_arrival, having cleared the flag.
RdlFrameArrival ==
    /\ rdl = "wait" /\ rpl_flag = 1
    /\ rpl_flag' = 0
    /\ rdl' = "read"
    /\ UNCHANGED <<senderVars, frames, rplVars, frame_expected, delivered, rdl_to_rnl,
                   rdl_to_rpl_pkg, rpl_send_flag, rdl_flag, rnlVars>>

\* Mutant of RdlAccept: the sequence number is not compared.
RdlAcceptAny ==
    /\ rdl = "read"
    /\ rdl_to_rnl' = Empty
    /\ delivered' = Append(delivered, rpl_to_rdl.info)
    /\ rdl' = "fill"
    /\ UNCHANGED <<senderVars, frames, rplVars, rpl_flag, frame_expected, rdl_to_rpl_pkg,
                   rpl_send_flag, rdl_flag, rnlVars>>

\* from_physical_layer reads the frame expected, and to_network_layer empties its file ...
RdlAccept ==
    /\ rdl = "read" /\ rpl_to_rdl.seq = frame_expected
    /\ rdl_to_rnl' = Empty
    /\ delivered' = Append(delivered, rpl_to_rdl.info)
    /\ rdl' = "fill"
    /\ UNCHANGED <<senderVars, frames, rplVars, rpl_flag, frame_expected, rdl_to_rpl_pkg,
                   rpl_send_flag, rdl_flag, rnlVars>>

\* ... fills it with the packet ...
RdlFill ==
    /\ rdl = "fill"
    /\ rdl_to_rnl' = delivered[Len(delivered)]
    /\ rdl' = "handover"
    /\ UNCHANGED <<senderVars, frames, rplVars, rpl_flag, frame_expected, delivered,
                   rdl_to_rpl_pkg, rpl_send_flag, rdl_flag, rnlVars>>

\* ... and signals RNL; then inc(frame_expected).
RdlSignalRnl ==
    /\ rdl = "handover"
    /\ rdl_flag' = 1
    /\ frame_expected' = inc(frame_expected)
    /\ rdl' = "ack"
    /\ UNCHANGED <<senderVars, frames, rplVars, rpl_flag, delivered, rdl_to_rnl,
                   rdl_to_rpl_pkg, rpl_send_flag, rnlVars>>

\* Mutant of RdlIgnore: a frame received before is not acknowledged again.
RdlIgnoreSilently ==
    /\ rdl = "read" /\ rpl_to_rdl.seq # frame_expected
    /\ rdl' = "wait"
    /\ UNCHANGED <<senderVars, frames, rplVars, rpl_flag, frame_expected, delivered,
                   rdl_to_rnl, rdl_to_rpl_pkg, rpl_send_flag, rdl_flag, rnlVars>>

\* from_physical_layer: any other frame is only acknowledged.
RdlIgnore ==
    /\ rdl = "read" /\ rpl_to_rdl.seq # frame_expected
    /\ rdl' = "ack"
    /\ UNCHANGED <<senderVars, frames, rplVars, rpl_flag, frame_expected, delivered,
                   rdl_to_rnl, rdl_to_rpl_pkg, rpl_send_flag, rdl_flag, rnlVars>>

\* The file of to_physical_layer; RNL may not have read its packet yet.
RdlAck ==
    /\ rdl = "ack"
    /\ rdl_to_rpl_pkg' = 1 - frame_expected
    /\ rdl' = "signal"
    /\ UNCHANGED <<senderVars, frames, rplVars, rpl_flag, frame_expected, delivered,
                   rdl_to_rnl, rpl_send_flag, rdl_flag, rnlVars>>

\* The kill() of to_physical_layer.
RdlSignalRpl ==
    /\ rdl = "signal"
    /\ rpl_send_flag' = 1
    /\ rdl' = "wait"
    /\ UNCHANGED <<senderVars, frames, rplVars, rpl_flag, frame_expected, delivered,
                   rdl_to_rnl, rdl_to_rpl_pkg, rdl_flag, rnlVars>>

Rdl == \/ RdlFrameArrival \/ RdlAccept \/ RdlFill \/ RdlSignalRnl \/ RdlIgnore \/ RdlAck
       \/ RdlSignalRpl
-----------------------------------------------------------------------------
(* RNL, the receiver's network process *)

\* Read the file, filled or not, and append the buffer to recv_test.txt ...
RnlAppend ==
    /\ RnlRuns /\ rnl = "poll" /\ rdl_flag = 1
    /\ recv_test' = Append(recv_test, recvbuf(rdl_to_rnl))
    /\ rnl' = "clear"
    /\ UNCHANGED <<senderVars, frames, rplVars, rpl_flag, rdlVars, rpl_send_flag, rdl_flag>>

\* Mutant of RnlClearFlag: the flag is not reset.
RnlKeepsFlag ==
    /\ rnl = "clear"
    /\ rnl' = "poll"
    /\ UNCHANGED <<senderVars, frames, rplVars, rpl_flag, rdlVars, rpl_send_flag, rdl_flag,
                   recv_test>>

\* ... and only then clear the flag, whatever was signalled meanwhile.
RnlClearFlag ==
    /\ rnl = "clear"
    /\ rdl_flag' = 0
    /\ rnl' = "poll"
    /\ UNCHANGED <<senderVars, frames, rplVars, rpl_flag, rdlVars, rpl_send_flag, recv_test>>

Rnl == RnlAppend \/ RnlClearFlag
-----------------------------------------------------------------------------
Next == Sdl \/ Spl \/ Rpl \/ Rdl \/ Rnl

Safety == Init /\ [][Next]_vars

(* Every process is scheduled for ever (weak fairness of its steps).  An SPL *)
(* or RPL that goes round its loop looks at both directions each time, a     *)
(* restarted timer lets wait_for_event look at the ack flag first, and       *)
(* rand() does not drop every frame: strong fairness of those choices.       *)
Fairness ==
    /\ WF_vars(Sdl) /\ WF_vars(Spl) /\ WF_vars(Rpl) /\ WF_vars(Rdl) /\ WF_vars(Rnl)
    /\ SF_vars(SdlFrameArrival)
    /\ SF_vars(SplSend) /\ SF_vars(SplPassAck)
    /\ SF_vars(RplPassFrame) /\ SF_vars(RplSendAck)

Spec == Safety /\ Fairness
-----------------------------------------------------------------------------
TypeOK ==
    /\ sdl \in {"start", "post", "signal", "wait", "read", "fetch"}
    /\ buffer \in IF sdl = "start" THEN {0} ELSE 1 .. Packets
    /\ next_frame_to_send \in SeqNr
    /\ sdl_to_spl_pkg \in Frame \cup {NoFrame}
    /\ rpl_to_rdl \in Frame \cup {NoFrame}
    /\ frames \in Seq(Frame \cup {NoFrame}) /\ Len(frames) =< NetCap
    /\ acks \in Seq(SeqNr \cup {NoAck}) /\ Len(acks) =< NetCap
    /\ spl_to_sdl \in SeqNr \cup {NoAck} /\ rdl_to_rpl_pkg \in SeqNr \cup {NoAck}
    /\ spl_should_read \in Flag /\ spl_ack_flag \in Flag /\ spl_cksum_err \in Flag
    /\ rpl_flag \in Flag /\ rpl_send_flag \in Flag /\ rdl_flag \in Flag
    /\ spl \in {"select", "sent", "signal"}
    /\ rpl \in {"select", "sent", "signal"}
    /\ rdl \in {"wait", "read", "fill", "handover", "ack", "signal"}
    /\ rnl \in {"poll", "clear"}
    /\ frame_expected \in SeqNr
    /\ delivered \in Seq(1 .. Packets) /\ (rdl = "fill" => delivered # << >>)
    /\ rdl_to_rnl \in 0 .. Packets
    /\ recv_test \in Seq(0 .. Packets)

\* to_network_layer is given the packets of the source file, each one once and
\* in order, and SDL is never more than the one packet it is sending ahead:
\* frame_expected and next_frame_to_send tell a retransmission from a new frame.
InOrderExactlyOnce ==
    /\ \A i \in 1 .. Len(delivered) : delivered[i] = i
    /\ buffer - 1 =< Len(delivered) /\ Len(delivered) =< buffer

\* Wherever it is between RDL and SDL, an acknowledgement that SDL would take for
\* the one it waits for is there because its packet has been handed over.
RightAckMeansDelivered ==
    next_frame_to_send \in {acks[i] : i \in 1 .. Len(acks)} \cup {spl_to_sdl, rdl_to_rpl_pkg}
        => Len(delivered) = buffer

\* fopen(.., "r") of a file that does not exist ends the process (perror_exit):
\* a process is only signalled, and only reads, after the file was written.
FilesAreWrittenBeforeRead ==
    /\ spl_should_read = 1 => sdl_to_spl_pkg # NoFrame
    /\ spl_ack_flag = 1 \/ sdl = "read" => spl_to_sdl # NoAck
    /\ rpl_flag = 1 \/ rdl = "read" => rpl_to_rdl # NoFrame
    /\ rpl_send_flag = 1 => rdl_to_rpl_pkg # NoAck
    /\ rdl_flag = 1 => delivered # << >>

\* What the unpaced hand-over to RNL can and cannot do to recv_test.txt.  RNL misses
\* packets, and appends one again that it finds there early or still has in its buffer.
\* But packets never change places, what is no packet comes before the first, and RNL
\* appends once per signal at most: whatever is there once more, another is missing for it.
RecvTestNeverReordered ==
    /\ \A i \in 1 .. Len(recv_test) : recv_test[i] \in 0 .. Len(delivered)
    /\ \A i, j \in 1 .. Len(recv_test) : i < j => recv_test[i] =< recv_test[j]
    /\ Len(recv_test) =< Len(delivered)

\* The four processes and two mailboxes between the network layers give the
\* data-link service with a window of one packet ...
Service == INSTANCE DataLinkService WITH Window <- 1, fetched <- buffer
RefinesService == Service!Safety

\* ... and, under the fairness above, make progress until the file is handed over.
RefinesFairService == Service!Spec

\* SDL gets the acknowledgement of the last packet too, and stops retransmitting.
AllAcknowledged == <>[](sdl = "fetch" /\ buffer = Packets)
=============================================================================
