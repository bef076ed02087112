------------------------------ MODULE Protocol2 ------------------------------
(***************************************************************************)
(* Protocol 2 of linux-data-link-layer (02/sender2.c, 02/receiver2.c): the *)
(* simplex stop-and-wait protocol for a channel that loses nothing.  There *)
(* are no sequence numbers and no timer; what keeps the sender from        *)
(* flooding the receiver is that SDL waits for an acknowledgement, any     *)
(* acknowledgement, before it fetches the next packet.  RPL sends it from  *)
(* inside its signal handler, whatever it was doing.                       *)
(* Processes, files and signals are those of Protocol3; so is the grain.   *)
(***************************************************************************)
EXTENDS RecvTest, Integers

CONSTANT NetCap      \* frames the socket holds before select() calls it unwritable

ASSUME Protocol2Assumption == Packets \in Nat /\ NetCap \in Nat \ {0}

Flag == {0, 1}                  \* an int that a signal handler sets to 1

VARIABLES
    sdl,                        \* SDL: program counter; buffer, the packet sent, is in RecvTest
    sdl_to_spl_pkg,             \* file: the last frame SDL posted, 0 if none
    spl, spl_should_read,       \* SPL: program counter, flag
    frames,                     \* TCP, sender to receiver
    acks,                       \* TCP, receiver to sender: how many acknowledgements
    spl_ack_flag,               \* flag in SDL
    rpl, rpl_to_rdl,            \* RPL: program counter; file for RDL
    handlers,                   \* SIG_RPL_SHOULD_READ signals RPL has yet to handle
    rdl, rpl_flag,              \* RDL: program counter, flag
    delivered,                  \* packets given to to_network_layer, in order
    rdl_to_rnl,                 \* file: the last packet RDL handed over, or Empty
    rnl, rdl_flag               \* RNL: program counter, flag; recv_test is in RecvTest

sdlVars == <<sdl, buffer, sdl_to_spl_pkg>>
splVars == <<spl, frames>>
rplVars == <<rpl, rpl_to_rdl>>
rdlVars == <<rdl, delivered, rdl_to_rnl>>
rnlVars == <<rnl, recv_test>>
vars == <<sdlVars, splVars, rplVars, rdlVars, rnlVars, spl_should_read, acks,
          spl_ack_flag, handlers, rpl_flag, rdl_flag>>

Init ==
    /\ sdl = "fetch" /\ buffer = 0 /\ sdl_to_spl_pkg = 0
    /\ spl = "select" /\ spl_should_read = 0 /\ frames = << >> /\ acks = 0
    /\ spl_ack_flag = 0
    /\ rpl = "read" /\ rpl_to_rdl = 0 /\ handlers = 0
    /\ rdl = "wait" /\ rpl_flag = 0 /\ delivered = << >> /\ rdl_to_rnl = Empty
    /\ rnl = "poll" /\ rdl_flag = 0 /\ recv_test = << >>
-----------------------------------------------------------------------------
(* SDL *)

\* from_network_layer; it blocks for ever when the source file is exhausted.
SdlFetch ==
    /\ sdl = "fetch" /\ buffer < Packets
    /\ buffer' = buffer + 1
    /\ sdl' = "post"
    /\ UNCHANGED <<sdl_to_spl_pkg, splVars, rplVars, rdlVars, rnlVars, spl_should_read,
                   acks, spl_ack_flag, handlers, rpl_flag, rdl_flag>>

\* to_physical_layer: the file ...
SdlPost ==
    /\ sdl = "post"
    /\ sdl_to_spl_pkg' = buffer
    /\ sdl' = "signal"
    /\ UNCHANGED <<buffer, splVars, rplVars, rdlVars, rnlVars, spl_should_read,
                   acks, spl_ack_flag, handlers, rpl_flag, rdl_flag>>

\* ... and the kill().
SdlSignal ==
    /\ sdl = "signal"
    /\ spl_should_read' = 1
    /\ sdl' = "wait"
    /\ UNCHANGED <<buffer, sdl_to_spl_pkg, splVars, rplVars, rdlVars, rnlVars,
                   acks, spl_ack_flag, handlers, rpl_flag, rdl_flag>>

\* Mutant of SdlAcknowledged: the flag is not reset.
SdlKeepsAckFlag ==
    /\ sdl = "wait" /\ spl_ack_flag = 1
    /\ sdl' = "fetch"
    /\ UNCHANGED <<buffer, sdl_to_spl_pkg, splVars, rplVars, rdlVars, rnlVars,
                   spl_should_read, acks, spl_ack_flag, handlers, rpl_flag, rdl_flag>>

\* wait_for_event: the acknowledgement is not even read.
SdlAcknowledged ==
    /\ sdl = "wait" /\ spl_ack_flag = 1
    /\ spl_ack_flag' = 0
    /\ sdl' = "fetch"
    /\ UNCHANGED <<buffer, sdl_to_spl_pkg, splVars, rplVars, rdlVars, rnlVars,
                   spl_should_read, acks, handlers, rpl_flag, rdl_flag>>

Sdl == SdlFetch \/ SdlPost \/ SdlSignal \/ SdlAcknowledged
-----------------------------------------------------------------------------
(* SPL: one select() loop *)

SplSend ==
    /\ spl = "select" /\ spl_should_read = 1 /\ Len(frames) < NetCap
    /\ frames' = Append(frames, sdl_to_spl_pkg)
    /\ spl' = "sent"
    /\ UNCHANGED <<sdlVars, rplVars, rdlVars, rnlVars, spl_should_read, acks,
                   spl_ack_flag, handlers, rpl_flag, rdl_flag>>

\* The flag is cleared after write(); a signal in between would be forgotten.
SplClearFlag ==
    /\ spl = "sent"
    /\ spl_should_read' = 0
    /\ spl' = "select"
    /\ UNCHANGED <<sdlVars, frames, rplVars, rdlVars, rnlVars, acks,
                   spl_ack_flag, handlers, rpl_flag, rdl_flag>>

\* One read() takes all the acknowledgements there are, and SDL is signalled once.
SplAck ==
    /\ spl = "select" /\ acks > 0
    /\ acks' = 0
    /\ spl_ack_flag' = 1
    /\ UNCHANGED <<sdlVars, splVars, rplVars, rdlVars, rnlVars, spl_should_read,
                   handlers, rpl_flag, rdl_flag>>

Spl == SplSend \/ SplClearFlag \/ SplAck
-----------------------------------------------------------------------------
(* RPL: a blocking read() loop, and a signal handler that writes to the socket *)

RplReceive ==
    /\ rpl = "read" /\ frames # << >>
    /\ frames' = Tail(frames)
    /\ rpl_to_rdl' = Head(frames)
    /\ rpl' = "signal"
    /\ UNCHANGED <<sdlVars, spl, rdlVars, rnlVars, spl_should_read, acks,
                   spl_ack_flag, handlers, rpl_flag, rdl_flag>>

RplSignal ==
    /\ rpl = "signal"
    /\ rpl_flag' = 1
    /\ rpl' = "read"
    /\ UNCHANGED <<sdlVars, splVars, rpl_to_rdl, rdlVars, rnlVars, spl_should_read, acks,
                   spl_ack_flag, handlers, rdl_flag>>

\* sigroutine, after a sleep(2) now and then: one acknowledgement per signal.
RplHandler ==
    /\ handlers > 0
    /\ handlers' = handlers - 1
    /\ acks' = acks + 1
    /\ UNCHANGED <<sdlVars, splVars, rplVars, rdlVars, rnlVars, spl_should_read,
                   spl_ack_flag, rpl_flag, rdl_flag>>

Rpl == RplReceive \/ RplSignal \/ RplHandler
-----------------------------------------------------------------------------
(* RDL *)

RdlFrameArrival ==
    /\ rdl = "wait" /\ rpl_flag = 1
    /\ rpl_flag' = 0
    /\ rdl' = "read"
    /\ UNCHANGED <<sdlVars, splVars, rplVars, delivered, rdl_to_rnl, rnlVars,
                   spl_should_read, acks, spl_ack_flag, handlers, rdl_flag>>

\* from_physical_layer, and no check of any kind; to_network_layer empties its file ...
RdlHandOver ==
    /\ rdl = "read"
    /\ rdl_to_rnl' = Empty
    /\ delivered' = Append(delivered, rpl_to_rdl)
    /\ rdl' = "fill"
    /\ UNCHANGED <<sdlVars, splVars, rplVars, rnlVars, spl_should_read, acks,
                   spl_ack_flag, handlers, rpl_flag, rdl_flag>>

\* ... fills it ...
RdlFill ==
    /\ rdl = "fill"
    /\ rdl_to_rnl' = delivered[Len(delivered)]
    /\ rdl' = "handover"
    /\ UNCHANGED <<sdlVars, splVars, rplVars, delivered, rnlVars, spl_should_read, acks,
                   spl_ack_flag, handlers, rpl_flag, rdl_flag>>

\* ... and signals RNL.
RdlSignalRnl ==
    /\ rdl = "handover"
    /\ rdl_flag' = 1
    /\ rdl' = "ack"
    /\ UNCHANGED <<sdlVars, splVars, rplVars, delivered, rdl_to_rnl, rnlVars,
                   spl_should_read, acks, spl_ack_flag, handlers, rpl_flag>>

\* Mutant of RdlAck: RPL is not told to acknowledge.
RdlNoAck ==
    /\ rdl = "ack"
    /\ rdl' = "wait"
    /\ UNCHANGED <<sdlVars, splVars, rplVars, delivered, rdl_to_rnl, rnlVars,
                   spl_should_read, acks, spl_ack_flag, handlers, rpl_flag, rdl_flag>>

\* to_physical_layer: nobody reads the file, the signal is the acknowledgement.
\* RNL may not have read its packet yet.
RdlAck ==
    /\ rdl = "ack"
    /\ handlers' = handlers + 1
    /\ rdl' = "wait"
    /\ UNCHANGED <<sdlVars, splVars, rplVars, delivered, rdl_to_rnl, rnlVars,
                   spl_should_read, acks, spl_ack_flag, rpl_flag, rdl_flag>>

Rdl == RdlFrameArrival \/ RdlHandOver \/ RdlFill \/ RdlSignalRnl \/ RdlAck
-----------------------------------------------------------------------------
(* RNL, as in protocol 3 *)

RnlAppend ==
    /\ rnl = "poll" /\ rdl_flag = 1
    /\ recv_test' = Append(recv_test, recvbuf(rdl_to_rnl))
    /\ rnl' = "clear"
    /\ UNCHANGED <<sdlVars, splVars, rplVars, rdlVars, spl_should_read, acks,
                   spl_ack_flag, handlers, rpl_flag, rdl_flag>>

\* Mutant of RnlClearFlag: the flag is not reset.
RnlKeepsFlag ==
    /\ rnl = "clear"
    /\ rnl' = "poll"
    /\ UNCHANGED <<sdlVars, splVars, rplVars, rdlVars, recv_test, spl_should_read, acks,
                   spl_ack_flag, handlers, rpl_flag, rdl_flag>>

RnlClearFlag ==
    /\ rnl = "clear"
    /\ rdl_flag' = 0
    /\ rnl' = "poll"
    /\ UNCHANGED <<sdlVars, splVars, rplVars, rdlVars, recv_test, spl_should_read, acks,
                   spl_ack_flag, handlers, rpl_flag>>

Rnl == RnlAppend \/ RnlClearFlag
-----------------------------------------------------------------------------
Next == Sdl \/ Spl \/ Rpl \/ Rdl \/ Rnl

Safety == Init /\ [][Next]_vars

\* Every process is scheduled for ever; SPL looks at both directions in each round
\* of its loop, and a pending signal interrupts RPL wherever it is.
Spec == /\ Safety
        /\ WF_vars(Sdl) /\ WF_vars(Rdl) /\ WF_vars(Rnl)
        /\ WF_vars(SplSend) /\ WF_vars(SplClearFlag) /\ WF_vars(SplAck)
        /\ WF_vars(RplReceive \/ RplSignal) /\ WF_vars(RplHandler)
-----------------------------------------------------------------------------
TypeOK ==
    /\ sdl \in {"fetch", "post", "signal", "wait"}
    /\ spl \in {"select", "sent"}
    /\ rpl \in {"read", "signal"}
    /\ rdl \in {"wait", "read", "fill", "handover", "ack"}
    /\ rnl \in {"poll", "clear"}
    /\ buffer \in 0 .. Packets /\ sdl_to_spl_pkg \in 0 .. Packets
    /\ rpl_to_rdl \in 0 .. Packets /\ rdl_to_rnl \in 0 .. Packets
    /\ frames \in Seq(0 .. Packets) /\ Len(frames) =< NetCap
    /\ acks \in Nat /\ handlers \in Nat
    /\ spl_should_read \in Flag /\ spl_ack_flag \in Flag
    /\ rpl_flag \in Flag /\ rdl_flag \in Flag
    /\ delivered \in Seq(0 .. Packets) /\ (rdl = "fill" => delivered # << >>)
    /\ recv_test \in Seq(0 .. Packets)

Count(condition) == IF condition THEN 1 ELSE 0

\* The places where a frame can be on its way from SDL to RDL ...
Forward == Count(sdl \in {"post", "signal"}) + Count(spl_should_read = 1 /\ spl = "select")
           + Len(frames) + Count(rpl = "signal") + rpl_flag + Count(rdl = "read")

\* ... and its acknowledgement on the way back.
Back == Count(rdl \in {"fill", "handover", "ack"}) + handlers + acks + spl_ack_flag
        + Count(sdl = "fetch")

\* Stop and wait: the frame, or its acknowledgement, is in exactly one place.  So
\* no file is overwritten before it is read, and no signal is cleared unseen, on
\* the way from SDL to RDL and back.
OneFrameUnderWay == Forward + Back = 1

\* With a channel that loses nothing that is enough for the service of window 1 ...
Service == INSTANCE DataLinkService WITH Window <- 1, fetched <- buffer
RefinesService == Service!Safety

\* ... and for its progress.
RefinesFairService == Service!Spec

\* The turn-taking does not extend to RNL: it may still miss what it is handed, find the
\* file empty and append what it has in its buffer.  What is left is the order, and that a
\* packet repeated is one that is missing.
RecvTestNeverReordered ==
    /\ \A i \in 1 .. Len(recv_test) : recv_test[i] \in 0 .. Len(delivered)
    /\ \A i, j \in 1 .. Len(recv_test) : i < j => recv_test[i] =< recv_test[j]
    /\ Len(recv_test) =< Len(delivered)
=============================================================================
