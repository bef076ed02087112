------------------------------ MODULE Protocol1 ------------------------------
(***************************************************************************)
(* Protocol 1 of linux-data-link-layer (01/sender1.c, 01/receiver1.c): the *)
(* unrestricted simplex protocol.  Nothing slows the sender down, and no   *)
(* frame is numbered or acknowledged, so everything rests on the three     *)
(* files through which two processes of a host pass a frame on.  This      *)
(* module looks into a file: write_share_file empties it (fopen "w"),      *)
(* fills it (fclose writes the stdio buffer with one write()), and the     *)
(* kill() comes after that.  A reader that finds the file empty goes on    *)
(* with what its buffer holds: SPL and RNL with what they read before, RDL *)
(* with bytes that other calls may have written over.                      *)
(***************************************************************************)
EXTENDS RecvTest

CONSTANT NetCap      \* frames the socket holds before write() blocks

ASSUME Protocol1Assumption == Packets \in Nat /\ NetCap \in Nat \ {0}

Files == {"sdl_to_spl_pkg", "rpl_to_rdl", "rdl_to_rnl"}

VARIABLES
    file,             \* the content of each file
    flag,             \* spl_should_read, rpl_flag, rdl_flag: the signal of each file
    sdl,              \* SDL: program counter; buffer, the packet it is sending, is in RecvTest
    spl, spl_buffer,  \* SPL: program counter, the frame it has read
    frames,           \* the TCP connection
    rpl, rpl_buffer,  \* RPL: program counter, the frame it has received
    rdl, rdl_buffer,  \* RDL: program counter, the frame it has read
    rnl               \* RNL: program counter; recv_test is there too

sdlVars == <<sdl, buffer>>
splVars == <<spl, spl_buffer>>
rplVars == <<rpl, rpl_buffer>>
rdlVars == <<rdl, rdl_buffer>>
rnlVars == <<rnl, recv_test>>
vars == <<file, flag, sdlVars, splVars, frames, rplVars, rdlVars, rnlVars>>

Init ==
    /\ file = [f \in Files |-> Empty] /\ flag = [f \in Files |-> 0]
    /\ sdl = "fetch" /\ buffer = 0
    /\ spl = "poll" /\ spl_buffer = Garbage
    /\ frames = << >>
    /\ rpl = "receive" /\ rpl_buffer = Garbage
    /\ rdl = "wait" /\ rdl_buffer = Garbage
    /\ rnl = "poll" /\ recv_test = << >>
-----------------------------------------------------------------------------
(* write_share_file and kill(), one step of the writer each *)

Truncate(f) == file' = [file EXCEPT ![f] = Empty] /\ UNCHANGED flag
Fill(f, content) == file' = [file EXCEPT ![f] = content] /\ UNCHANGED flag
Signal(f) == flag' = [flag EXCEPT ![f] = 1] /\ UNCHANGED file
Clear(f) == flag' = [flag EXCEPT ![f] = 0] /\ UNCHANGED file
-----------------------------------------------------------------------------
(* SDL: from_network_layer and to_physical_layer, for ever *)

SdlFetch ==
    /\ sdl = "fetch" /\ buffer < Packets
    /\ buffer' = buffer + 1
    /\ sdl' = "open"
    /\ UNCHANGED <<file, flag, splVars, frames, rplVars, rdlVars, rnlVars>>

SdlPost ==
    /\ \/ sdl = "open" /\ Truncate("sdl_to_spl_pkg") /\ sdl' = "close"
       \/ sdl = "close" /\ Fill("sdl_to_spl_pkg", buffer) /\ sdl' = "kill"
       \/ sdl = "kill" /\ Signal("sdl_to_spl_pkg") /\ sdl' = "fetch"
    /\ UNCHANGED <<buffer, splVars, frames, rplVars, rdlVars, rnlVars>>

Sdl == SdlFetch \/ SdlPost
-----------------------------------------------------------------------------
(* SPL: polls its flag; the socket is a blocking one *)

\* An empty file leaves the buffer as it is: the frame before goes out again.
SplRead ==
    /\ spl = "poll" /\ flag["sdl_to_spl_pkg"] = 1
    /\ spl_buffer' = IF file["sdl_to_spl_pkg"] = Empty THEN spl_buffer
                                                       ELSE file["sdl_to_spl_pkg"]
    /\ spl' = "write"
    /\ UNCHANGED <<file, flag, sdlVars, frames, rplVars, rdlVars, rnlVars>>

SplWrite ==
    /\ spl = "write" /\ Len(frames) < NetCap
    /\ frames' = Append(frames, spl_buffer)
    /\ spl' = "clear"
    /\ UNCHANGED <<file, flag, sdlVars, spl_buffer, rplVars, rdlVars, rnlVars>>

\* The flag is cleared last, so the signal of a newer frame can go unnoticed.
SplClearFlag ==
    /\ spl = "clear"
    /\ Clear("sdl_to_spl_pkg")
    /\ spl' = "poll"
    /\ UNCHANGED <<sdlVars, spl_buffer, frames, rplVars, rdlVars, rnlVars>>

Spl == SplRead \/ SplWrite \/ SplClearFlag
-----------------------------------------------------------------------------
(* RPL: a blocking read(), write_share_file and kill() *)

RplReceive ==
    /\ rpl = "receive" /\ frames # << >>
    /\ rpl_buffer' = Head(frames)
    /\ frames' = Tail(frames)
    /\ rpl' = "open"
    /\ UNCHANGED <<file, flag, sdlVars, splVars, rdlVars, rnlVars>>

\* Mutant of RplPost: RDL is signalled before the file is filled.
RplSignalsFirst ==
    /\ \/ rpl = "open" /\ Truncate("rpl_to_rdl") /\ rpl' = "kill"
       \/ rpl = "kill" /\ Signal("rpl_to_rdl") /\ rpl' = "close"
       \/ rpl = "close" /\ Fill("rpl_to_rdl", rpl_buffer) /\ rpl' = "receive"
    /\ UNCHANGED <<rpl_buffer, sdlVars, splVars, frames, rdlVars, rnlVars>>

RplPost ==
    /\ \/ rpl = "open" /\ Truncate("rpl_to_rdl") /\ rpl' = "close"
       \/ rpl = "close" /\ Fill("rpl_to_rdl", rpl_buffer) /\ rpl' = "kill"
       \/ rpl = "kill" /\ Signal("rpl_to_rdl") /\ rpl' = "receive"
    /\ UNCHANGED <<rpl_buffer, sdlVars, splVars, frames, rdlVars, rnlVars>>

Rpl == RplReceive \/ RplPost
-----------------------------------------------------------------------------
(* RDL: wait_for_event, from_physical_layer, to_network_layer *)

\* wait_for_event clears the flag before the file is read.
RdlFrameArrival ==
    /\ rdl = "wait" /\ flag["rpl_to_rdl"] = 1
    /\ Clear("rpl_to_rdl")
    /\ rdl' = "read"
    /\ UNCHANGED <<rdl_buffer, sdlVars, splVars, frames, rplVars, rnlVars>>

\* The buffer of from_physical_layer is not initialised: an empty file gives the frame
\* before or what the calls made since have left there.
RdlRead ==
    /\ rdl = "read"
    /\ rdl_buffer' \in IF file["rpl_to_rdl"] = Empty THEN {rdl_buffer, Garbage}
                                                     ELSE {file["rpl_to_rdl"]}
    /\ rdl' = "open"
    /\ UNCHANGED <<file, flag, sdlVars, splVars, frames, rplVars, rnlVars>>

RdlPost ==
    /\ \/ rdl = "open" /\ Truncate("rdl_to_rnl") /\ rdl' = "close"
       \/ rdl = "close" /\ Fill("rdl_to_rnl", rdl_buffer) /\ rdl' = "kill"
       \/ rdl = "kill" /\ Signal("rdl_to_rnl") /\ rdl' = "wait"
    /\ UNCHANGED <<rdl_buffer, sdlVars, splVars, frames, rplVars, rnlVars>>

Rdl == RdlFrameArrival \/ RdlRead \/ RdlPost
-----------------------------------------------------------------------------
(* RNL: polls its flag; its test for the final packet never succeeds *)

RnlAppend ==
    /\ rnl = "poll" /\ flag["rdl_to_rnl"] = 1
    /\ recv_test' = Append(recv_test, recvbuf(file["rdl_to_rnl"]))
    /\ rnl' = "clear"
    /\ UNCHANGED <<file, flag, sdlVars, splVars, frames, rplVars, rdlVars>>

\* Mutant of RnlClearFlag: the flag is not reset.
RnlKeepsFlag ==
    /\ rnl = "clear"
    /\ rnl' = "poll"
    /\ UNCHANGED <<file, flag, recv_test, sdlVars, splVars, frames, rplVars, rdlVars>>

RnlClearFlag ==
    /\ rnl = "clear"
    /\ Clear("rdl_to_rnl")
    /\ rnl' = "poll"
    /\ UNCHANGED <<recv_test, sdlVars, splVars, frames, rplVars, rdlVars>>

Rnl == RnlAppend \/ RnlClearFlag
-----------------------------------------------------------------------------
Next == Sdl \/ Spl \/ Rpl \/ Rdl \/ Rnl

Safety == Init /\ [][Next]_vars

\* Every process is scheduled for ever.
Spec == /\ Safety
        /\ WF_vars(Sdl) /\ WF_vars(Spl) /\ WF_vars(Rpl) /\ WF_vars(Rdl) /\ WF_vars(Rnl)
-----------------------------------------------------------------------------
\* RDL clears its flag before it reads.  A read that came too early is repeated, so
\* what RDL has read last is in the end what RPL received last.  SPL and RNL clear
\* their flags after reading: nothing of the kind holds of the first and last file.
LastFrameReachesRdl == <>[](rdl_buffer = rpl_buffer)
=============================================================================
