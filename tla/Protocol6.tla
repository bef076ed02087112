------------------------------ MODULE Protocol6 ------------------------------
(***************************************************************************)
(* Protocol 6 of linux-data-link-layer (06/sender6.c, 06/receiver6.c):     *)
(* selective repeat as it is written.  Both hosts run the same code; only  *)
(* the network layer of the sender has packets.  wait_for_event does not   *)
(* wait: when nothing has happened it leaves the event as it was, at first *)
(* uninitialised, and the loop of Datalink_Layer handles it again.         *)
(*                                                                         *)
(* A host is a data-link process (SDL) and a physical one (SPL), the names *)
(* being the sender's, and on the sender the network layer (SNL).  The     *)
(* socket is left out: a frame is in the file its host posted or in that   *)
(* of the peer.  Packets are numbered as SDL takes them from the share     *)
(* files, the subject of NetworkShare; packet 0 is memory nobody wrote.    *)
(***************************************************************************)
EXTENDS Naturals, FiniteSets

CONSTANTS Packets,      \* packets in the source file of the sender
          MAX_SEQ,      \* the last sequence number
          FirstEvents,  \* what an uninitialised event may be
          MaxNoise      \* bound on the frames lost or damaged

Hosts == {"sender", "receiver"}
Peer(h) == IF h = "sender" THEN "receiver" ELSE "sender"
NR_BUFS == (MAX_SEQ + 1) \div 2
Slots == 0 .. NR_BUFS - 1
Events == {"frame_arrival", "cksum_err", "timeout", "network_layer_ready", "ack_timeout"}

ASSUME Protocol6Assumption == /\ Packets \in Nat /\ MaxNoise \in Nat
                              /\ MAX_SEQ \in Nat /\ MAX_SEQ >= 3 /\ MAX_SEQ % 2 = 1
                              /\ FirstEvents \subseteq Events \cup {"none"}

inc(k) == (k + 1) % (MAX_SEQ + 1)
between(a, b, c) == \/ a =< b /\ b < c
                    \/ c < a /\ a =< b
                    \/ b < c /\ c < a

NoFrame == [kind |-> "none", seq |-> 0, ack |-> 0, info |-> 0]

VARIABLES
    \* Network_Layer of the sender and its gate
    snl,              \* its program counter: "loop", or "go" while it waits for network_go
    network_write,    \* flag in SNL: it may write a packet
    network_go,       \* flag in SNL: it may go on
    unfetched,        \* packets in the share files
    fetched,          \* packets SDL has taken
    \* Datalink_Layer
    sdl,              \* its program counter: "loop", "fetch" in from_network_layer, "exited"
    event, oldest_frame,
    ack_expected, next_frame_to_send, nbuffered, out_buf, timer,
    frame_expected, in_buf, arrived,
    no_nak,
    ack_time,         \* whether the acknowledgement timer runs
    ready, err, frame_ar,   \* flags set by signals
    \* the files between Datalink_Layer and Physics_Layer
    sdl_to_spl,       \* the frame posted and not yet sent, or NoFrame
    spl_to_sdl,       \* the frame received last
    \* history: what to_network_layer was given last, and the frames lost or damaged
    delivered, noise

snlVars == <<snl, network_write, network_go, unfetched, fetched>>
sendVars == <<ack_expected, next_frame_to_send, nbuffered, out_buf, timer>>
recvVars == <<frame_expected, in_buf, arrived, delivered>>
sdlVars == <<sdl, event, oldest_frame, sendVars, recvVars, no_nak, ack_time>>
flags == <<ready, err, frame_ar>>
vars == <<snlVars, sdlVars, flags, sdl_to_spl, spl_to_sdl, noise>>

too_far(h) == (frame_expected[h] + NR_BUFS) % (MAX_SEQ + 1)

All(v) == [h \in Hosts |-> v]

\* SDL starts with whatever its stack holds in event, in_buf and out_buf.
Init ==
    /\ snl = "loop" /\ network_write = TRUE /\ network_go = FALSE
    /\ unfetched = 0 /\ fetched = 0
    /\ sdl = All("loop")
    /\ event \in [Hosts -> FirstEvents] /\ oldest_frame = All(MAX_SEQ + 1)
    /\ ack_expected = All(0) /\ next_frame_to_send = All(0) /\ frame_expected = All(0)
    /\ nbuffered = All(0)
    /\ out_buf = All([k \in Slots |-> 0]) /\ in_buf = All([k \in Slots |-> 0])
    /\ timer = All({}) /\ arrived = All({})
    /\ no_nak = All(TRUE) /\ ack_time = All(FALSE)
    /\ ready = All(FALSE) /\ err = All(FALSE) /\ frame_ar = All(FALSE)
    /\ sdl_to_spl = All(NoFrame) /\ spl_to_sdl = All(NoFrame)
    /\ delivered = All(0) /\ noise = 0
-----------------------------------------------------------------------------
(* The network layer of the sender *)

\* A packet goes into a share file and SDL is told (signal 37).
SnlWrites ==
    /\ snl = "loop" /\ network_write /\ fetched + unfetched < Packets
    /\ unfetched' = unfetched + 1
    /\ ready' = [ready EXCEPT !["sender"] = TRUE]
    /\ snl' = "go"
    /\ UNCHANGED <<network_write, network_go, fetched, sdlVars, err, frame_ar, sdl_to_spl,
                   spl_to_sdl, noise>>

SnlGoes ==
    /\ snl = "go" /\ network_go
    /\ network_go' = FALSE /\ snl' = "loop"
    /\ UNCHANGED <<network_write, unfetched, fetched, sdlVars, flags, sdl_to_spl, spl_to_sdl,
                   noise>>
-----------------------------------------------------------------------------
(* The data-link process.  Its loop is cut before the call of              *)
(* enable_network_layer or disable_network_layer that ends a round; the    *)
(* one before the loop is then that of the first round.                    *)

SdlGoto(h, pc) == sdl' = [sdl EXCEPT ![h] = pc]

\* Mutant of Gate: the gate closes one packet early.
GateEarly(h) ==
    IF h = "sender"
      THEN /\ network_write' = (nbuffered[h] < NR_BUFS - 1)
           /\ network_go' = (network_go \/ nbuffered[h] < NR_BUFS - 1)
      ELSE UNCHANGED <<network_write, network_go>>

\* enable_network_layer or disable_network_layer: a signal to SNL, which has
\* nothing to send on the receiver.
Gate(h) ==
    IF h = "sender"
      THEN /\ network_write' = (nbuffered[h] < NR_BUFS)
           /\ network_go' = (network_go \/ nbuffered[h] < NR_BUFS)
      ELSE UNCHANGED <<network_write, network_go>>

\* wait_for_event returns e.  A running timer may have expired or not.  oldest_frame is
\* read in a timeout only, and not kept beyond it.
wait_for_event(h, e) ==
    /\ event' = [event EXCEPT ![h] = e]
    /\ oldest_frame' \in {[oldest_frame EXCEPT ![h] = k] : k \in
            IF e # "timeout" THEN {MAX_SEQ + 1}
            ELSE timer[h] \cup IF event[h] = e /\ ~ready[h] /\ ~frame_ar[h]
                               THEN {oldest_frame[h]} ELSE {}}
    /\ \/ /\ err[h] /\ e = "cksum_err"
          /\ err' = [err EXCEPT ![h] = FALSE]
          /\ UNCHANGED <<ready, frame_ar>>
       \/ /\ ~err[h]
          /\ \/ e = "timeout" /\ timer[h] # {}
             \/ e = "ack_timeout" /\ ack_time[h]
             \/ e = event[h] /\ ~ready[h] /\ ~frame_ar[h]
          /\ UNCHANGED flags
       \/ /\ ~err[h] /\ ready[h] /\ e = "network_layer_ready"
          /\ ready' = [ready EXCEPT ![h] = FALSE]
          /\ UNCHANGED <<err, frame_ar>>
       \/ /\ ~err[h] /\ ~ready[h] /\ frame_ar[h] /\ e = "frame_arrival"
          /\ frame_ar' = [frame_ar EXCEPT ![h] = FALSE]
          /\ UNCHANGED <<ready, err>>

\* A round of the loop that handles e.
Round(h, e) == /\ sdl[h] = "loop"
               /\ Gate(h)
               /\ wait_for_event(h, e)
               /\ UNCHANGED <<snl, unfetched, fetched, out_buf, next_frame_to_send, spl_to_sdl,
                              noise>>

\* Writes the file for SPL and signals it.
to_physical_layer(h, f) == sdl_to_spl' = [sdl_to_spl EXCEPT ![h] = f]

\* Mutant of send_frame: every kind of frame starts a timer.
send_frameTimed(h, kind, nr, info) ==
    /\ to_physical_layer(h, [kind |-> kind, seq |-> nr, info |-> info,
                             ack |-> (frame_expected[h] + MAX_SEQ) % (MAX_SEQ + 1)])
    /\ timer' = [timer EXCEPT ![h] = @ \cup {nr % NR_BUFS}]

\* A data frame starts the timer of its slot, which is what names it in a timeout.
send_frame(h, kind, nr, info) ==
    /\ to_physical_layer(h, [kind |-> kind, seq |-> nr, info |-> info,
                             ack |-> (frame_expected[h] + MAX_SEQ) % (MAX_SEQ + 1)])
    /\ timer' = [timer EXCEPT ![h] = IF kind = "data" THEN @ \cup {nr % NR_BUFS} ELSE @]

\* network_layer_ready: from_network_layer ends the receiver, whose
\* network_write is 0, and waits on the sender for a packet.
SdlReady(h) ==
    /\ Round(h, "network_layer_ready")
    /\ nbuffered' = [nbuffered EXCEPT ![h] = @ + 1]
    /\ SdlGoto(h, IF h = "sender" THEN "fetch" ELSE "exited")
    /\ UNCHANGED <<ack_expected, timer, recvVars, no_nak, ack_time, sdl_to_spl>>

\* from_network_layer finds a packet and lets SNL go on; the packet is sent.
SdlFetch ==
    LET h == "sender"  s == next_frame_to_send[h] IN
    /\ sdl[h] = "fetch" /\ unfetched > 0
    /\ unfetched' = unfetched - 1 /\ fetched' = fetched + 1
    /\ network_write' = TRUE /\ network_go' = TRUE
    /\ out_buf' = [out_buf EXCEPT ![h][s % NR_BUFS] = fetched']
    /\ send_frame(h, "data", s, fetched')
    /\ ack_time' = [ack_time EXCEPT ![h] = FALSE]
    /\ next_frame_to_send' = [next_frame_to_send EXCEPT ![h] = inc(s)]
    /\ SdlGoto(h, "loop")
    /\ UNCHANGED <<snl, event, ack_expected, nbuffered, oldest_frame, recvVars, no_nak, flags,
                   spl_to_sdl, noise>>

\* Mutant of SlotOf: a frame ahead of the one expected is stored in its place.
SlotOfExpected(h, f) == frame_expected[h] % NR_BUFS

SlotOf(h, f) == f.seq % NR_BUFS

\* A data frame of the window is stored in its slot, and as long as the slot expected
\* is full a packet is delivered: in_buf[arrived[..]], where arrived[..] is true.
AcceptData(h, f) ==
    LET k == SlotOf(h, f)
        stored == between(frame_expected[h], f.seq, too_far(h)) /\ k \notin arrived[h]
        full == IF stored THEN arrived[h] \cup {k} ELSE arrived[h]
        slot(i) == (frame_expected[h] + i) % NR_BUFS
        run == IF stored THEN {i \in Slots : \A j \in 0 .. i : slot(j) \in full} ELSE {}
    IN
    /\ in_buf' = IF stored THEN [in_buf EXCEPT ![h][k] = f.info] ELSE in_buf
    /\ arrived' = [arrived EXCEPT ![h] = full \ {slot(i) : i \in run}]
    /\ delivered' = [delivered EXCEPT ![h] = IF run = {} THEN @ ELSE in_buf'[h][1]]
    /\ frame_expected' = [frame_expected EXCEPT ![h] = (@ + Cardinality(run)) % (MAX_SEQ + 1)]

\* The frames up to the one acknowledged leave the window and their timers stop.
TakeAck(h, a) ==
    LET count == (a + MAX_SEQ + 2 - ack_expected[h]) % (MAX_SEQ + 1)
        acked == {((ack_expected[h] + i) % (MAX_SEQ + 1)) % NR_BUFS : i \in 0 .. count - 1}
    IN IF between(ack_expected[h], a, next_frame_to_send[h])
         THEN /\ ack_expected' = [ack_expected EXCEPT ![h] = inc(a)]
              /\ nbuffered' = [nbuffered EXCEPT ![h] = @ - count]
              /\ timer' = [timer EXCEPT ![h] = @ \ acked]
         ELSE UNCHANGED <<ack_expected, nbuffered, timer>>

\* frame_arrival of a data frame: one that is not the one expected is answered with a
\* nak, once per delivery.
SdlDataArrival(h) ==
    LET f == spl_to_sdl[h]
        nak == f.seq # frame_expected[h] /\ no_nak[h]
        delivers == frame_expected' # frame_expected
    IN
    /\ Round(h, "frame_arrival") /\ f.kind = "data"
    /\ AcceptData(h, f) /\ TakeAck(h, f.ack)
    /\ IF nak THEN to_physical_layer(h, [kind |-> "nak", seq |-> 0, info |-> 0,
                             ack |-> (frame_expected[h] + MAX_SEQ) % (MAX_SEQ + 1)])
              ELSE UNCHANGED sdl_to_spl
    /\ no_nak' = [no_nak EXCEPT ![h] = delivers \/ (@ /\ ~nak)]
    /\ ack_time' = [ack_time EXCEPT ![h] = delivers \/ ~nak]
    /\ UNCHANGED sdl

\* frame_arrival of another frame: the branches for a nak and for an acknowledgement
\* are inside the one for data frames.  Without a file SDL ends.
SdlOtherArrival(h) ==
    /\ Round(h, "frame_arrival") /\ spl_to_sdl[h].kind # "data"
    /\ SdlGoto(h, IF spl_to_sdl[h] = NoFrame THEN "exited" ELSE "loop")
    /\ UNCHANGED <<ack_expected, nbuffered, timer, recvVars, no_nak, ack_time, sdl_to_spl>>

SdlCksumErr(h) ==
    /\ Round(h, "cksum_err")
    /\ IF no_nak[h]
         THEN /\ send_frame(h, "nak", 0, 0)
              /\ no_nak' = [no_nak EXCEPT ![h] = FALSE]
              /\ ack_time' = [ack_time EXCEPT ![h] = FALSE]
         ELSE UNCHANGED <<timer, no_nak, ack_time, sdl_to_spl>>
    /\ UNCHANGED <<sdl, ack_expected, nbuffered, recvVars>>

\* Mutant of SdlTimeout: the packet of the slot after the one that expired.
SdlTimeoutNext(h) ==
    /\ Round(h, "timeout")
    /\ send_frame(h, "data", oldest_frame'[h], out_buf[h][(oldest_frame'[h] + 1) % NR_BUFS])
    /\ ack_time' = [ack_time EXCEPT ![h] = FALSE]
    /\ UNCHANGED <<sdl, ack_expected, nbuffered, recvVars, no_nak>>

\* The number sent again is that of the timer, not that of the frame.
SdlTimeout(h) ==
    /\ Round(h, "timeout")
    /\ send_frame(h, "data", oldest_frame'[h], out_buf[h][oldest_frame'[h] % NR_BUFS])
    /\ ack_time' = [ack_time EXCEPT ![h] = FALSE]
    /\ UNCHANGED <<sdl, ack_expected, nbuffered, recvVars, no_nak>>

SdlAckTimeout(h) ==
    /\ Round(h, "ack_timeout")
    /\ send_frame(h, "ack", 0, 0)
    /\ ack_time' = [ack_time EXCEPT ![h] = FALSE]
    /\ UNCHANGED <<sdl, ack_expected, nbuffered, recvVars, no_nak>>

\* An event that is none of the five.
SdlOtherEvent(h) ==
    /\ Round(h, "none")
    /\ UNCHANGED <<sdl, ack_expected, nbuffered, timer, recvVars, no_nak, ack_time, sdl_to_spl>>

Sdl(h) == \/ SdlReady(h) \/ SdlDataArrival(h) \/ SdlOtherArrival(h) \/ SdlCksumErr(h)
          \/ SdlTimeout(h) \/ SdlAckTimeout(h) \/ SdlOtherEvent(h)
-----------------------------------------------------------------------------
(* The physical processes: the frame one has posted is sent and the other   *)
(* receives it.  A frame posted before the one before it was sent replaces  *)
(* that one.                                                                *)

SplTakesFrame(h) == /\ sdl_to_spl[Peer(h)] # NoFrame
                    /\ sdl_to_spl' = [sdl_to_spl EXCEPT ![Peer(h)] = NoFrame]
                    /\ UNCHANGED <<snlVars, sdlVars, ready>>

Noise == noise < MaxNoise /\ noise' = noise + 1

\* 3%: the frame is lost; the ack_time set here is that of the physical process.
SplLostFrame(h) == SplTakesFrame(h) /\ Noise /\ UNCHANGED <<err, frame_ar, spl_to_sdl>>

\* 3%: the frame is damaged.
SplDamagedFrame(h) == /\ SplTakesFrame(h) /\ Noise
                      /\ err' = [err EXCEPT ![h] = TRUE]
                      /\ UNCHANGED <<frame_ar, spl_to_sdl>>

\* The frame is written to the file and the data-link process is signalled.
SplPassFrame(h) == /\ SplTakesFrame(h)
                   /\ spl_to_sdl' = [spl_to_sdl EXCEPT ![h] = sdl_to_spl[Peer(h)]]
                   /\ frame_ar' = [frame_ar EXCEPT ![h] = TRUE]
                   /\ UNCHANGED <<err, noise>>

Spl(h) == SplLostFrame(h) \/ SplDamagedFrame(h) \/ SplPassFrame(h)
-----------------------------------------------------------------------------
Next == \/ SnlWrites \/ SnlGoes \/ SdlFetch
        \/ \E h \in Hosts : Sdl(h) \/ Spl(h)

Spec == Init /\ [][Next]_vars
-----------------------------------------------------------------------------
\* A frame sent again goes out under the number of its timer, which is that of its slot
\* and not its own (send_frame, timeout), and the window of the sender does not hold
\* packets back.  Packets can be stored in place of others, but only of their slot: the
\* packet in in_buf[k] is one that was sent with a number of slot k.
RightSlot ==
    \A h \in Hosts, k \in Slots :
        in_buf[h][k] # 0 => (in_buf[h][k] - 1) % NR_BUFS = k

\* A packet goes out again and again under numbers of an earlier window, and the receiver
\* takes it for a new one; but what it stores in a slot, and what it delivers, is never
\* older than what it stored there or delivered before.
NeverGoesBack ==
    [][\A h \in Hosts : /\ delivered[h] =< delivered'[h]
                        /\ \A k \in Slots : in_buf[h][k] =< in_buf'[h][k]]_vars

\* SDL waits in from_network_layer with no packet to come, and SNL behind its closed
\* gate for SDL, for ever; that is only so with more packets buffered than the window
\* holds.
StopsOnlyBeyondWindow ==
    sdl["sender"] = "fetch" /\ unfetched = 0 /\ snl = "loop" /\ ~network_write
        => nbuffered["sender"] > NR_BUFS

\* With data one way, acknowledgements and naks have no effect: the window of the sender
\* never moves and the timer of every slot used runs for ever.
OneWayIsNeverAcknowledged ==
    /\ ack_expected["sender"] = 0
    /\ timer["sender"] = {k \in Slots : k < fetched}
=============================================================================
