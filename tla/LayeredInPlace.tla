--------------------------- MODULE LayeredInPlace ---------------------------
(***************************************************************************)
(* Version 02 of linux-data-transfer: one segment on each side, in which   *)
(* the frame stays; the levels write their headers into it or skip them,   *)
(* and hand it on by the value of ready.                                   *)
(***************************************************************************)
EXTENDS LayeredFrame

\* The frame is ready for l and l has done with it: ready, len and the bytes.
\* Between ready = 0 and its own value of ready no other level moves.
InPlace(l, body, len) ==
    LET key == From(l) IN
    /\ Ready(l)
    /\ seg' = [seg EXCEPT ![key] = Handed(@, body, len, @.datalen, Given[l])]
    /\ pc' = [pc EXCEPT ![l] = "done"]
    /\ UNCHANGED <<setting, files, buf>>

\* exit(1) after the segment is deleted.
Rejects(l) ==
    /\ Ready(l)
    /\ Deleted(2, l, "failed")
    /\ UNCHANGED <<setting, files, buf>>

\* The data goes where it will lie in the frame.
InPlaceSend5 ==
    \/ /\ MayStart("send-level-5")
       /\ seg' = [seg EXCEPT ![1] = Created(1)]
       /\ pc' = [pc EXCEPT !["send-level-5"] = "made"]
       /\ UNCHANGED <<setting, files, buf>>
    \/ /\ pc["send-level-5"] = "made"
       /\ \E n \in datalen, d \in Payload :
            /\ sender_dat' = [len |-> n, data |-> d]
            /\ seg' = [seg EXCEPT ![1] = Handed(@, [@.body EXCEPT !.data = d], n, @.datalen, 5)]
       /\ pc' = [pc EXCEPT !["send-level-5"] = "done"]
       /\ UNCHANGED <<setting, network_dat, carried, receiver_dat, buf>>

InPlaceSend4 ==
    LET s == seg[1] IN
    \/ Attach("send-level-4")
    \/ InPlace("send-level-4", WithTcp(s.body, off, s.len), s.len + TcpLen + extern_len(off))

InPlaceSend3 ==
    LET s == seg[1] IN
    Attach("send-level-3") \/ InPlace("send-level-3", WithIp(s.body, s.len), s.len + IpLen)

InPlaceSend2 ==
    LET s == seg[1] IN
    \/ Attach("send-level-2")
    \/ InPlace("send-level-2", WithEth(s.body), AtLeastShortest(s.len + EthLen))

InPlaceSend1 ==
    \/ Attach("send-level-1")
    \/ /\ Ready("send-level-1")
       /\ network_dat' = [len |-> seg[1].len, body |-> seg[1].body]
       /\ Deleted(1, "send-level-1", "done")
       /\ UNCHANGED <<setting, sender_dat, carried, receiver_dat, buf>>

InPlaceRecv1 ==
    \/ /\ MayStart("recv-level-1")
       /\ seg' = [seg EXCEPT ![2] = Created(2)]
       /\ pc' = [pc EXCEPT !["recv-level-1"] = "made"]
       /\ UNCHANGED <<setting, files, buf>>
    \/ /\ pc["recv-level-1"] = "made"
       /\ seg' = [seg EXCEPT ![2] =
                     Handed(@, network_dat.body, network_dat.len, @.datalen, 1)]
       /\ pc' = [pc EXCEPT !["recv-level-1"] = "done"]
       /\ UNCHANGED <<setting, files, buf>>

InPlaceRecv2 ==
    LET s == seg[2] IN
    \/ Attach("recv-level-2")
    \/ s.body.type = IPv4 /\ InPlace("recv-level-2", s.body, s.len)
    \/ s.body.type # IPv4 /\ Rejects("recv-level-2")

\* len leaves out what fills the frame up.
InPlaceRecv3 ==
    LET s == seg[2] IN
    \/ Attach("recv-level-3")
    \/ s.body.ipck = IpChecksum(s.body) /\ InPlace("recv-level-3", s.body, EthLen + s.body.iplen)
    \/ s.body.ipck # IpChecksum(s.body) /\ Rejects("recv-level-3")

\* len and datalen tell level 5 where the data lies.  An offset below 5 ends the
\* level in the first memcpy().
InPlaceRecv4 ==
    LET s == seg[2]
        good == s.body.tcpck = TcpChecksum(s.body, s.len - EthLen - IpLen)
        extern == extern_len(s.body.off)
    IN
    \/ Attach("recv-level-4")
    \/ /\ Ready("recv-level-4") /\ s.body.off >= 5 /\ good
       /\ seg' = [seg EXCEPT ![2] =
                     Handed(@, s.body, extern, s.len - EthLen - IpLen - TcpLen - extern, 4)]
       /\ pc' = [pc EXCEPT !["recv-level-4"] = "done"]
       /\ UNCHANGED <<setting, files, buf>>
    \/ s.body.off >= 5 /\ ~good /\ Rejects("recv-level-4")
    \/ /\ Ready("recv-level-4") /\ s.body.off < 5
       /\ Exit1("recv-level-4") /\ UNCHANGED <<setting, files, buf>>

InPlaceRecv5 ==
    \/ Attach("recv-level-5")
    \/ /\ Ready("recv-level-5")
       /\ receiver_dat' = [len |-> seg[2].datalen, data |-> seg[2].body.data]
       /\ Deleted(2, "recv-level-5", "done")
       /\ UNCHANGED <<setting, sender_dat, network_dat, carried, buf>>

InPlaceSend == InPlaceSend5 \/ InPlaceSend4 \/ InPlaceSend3 \/ InPlaceSend2 \/ InPlaceSend1
InPlaceReceive == \/ InPlaceRecv1 \/ InPlaceRecv2 \/ InPlaceRecv3
                  \/ InPlaceRecv4 \/ InPlaceRecv5

InPlaceNext == version = "02" /\ (InPlaceSend \/ InPlaceReceive)
=============================================================================
