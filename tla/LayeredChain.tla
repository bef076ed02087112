---------------------------- MODULE LayeredChain ----------------------------
(***************************************************************************)
(* Version 01 of linux-data-transfer: a segment of shared memory between   *)
(* any two levels.  A level takes the frame out of the one, deletes it,    *)
(* makes the next one and puts the frame, with its header or without it,   *)
(* in there.                                                               *)
(***************************************************************************)
EXTENDS LayeredFrame

To(l) == CASE l = "send-level-5" -> 54 [] l = "send-level-4" -> 43
           [] l = "send-level-3" -> 32 [] l = "send-level-2" -> 21
           [] l = "recv-level-1" -> 12 [] l = "recv-level-2" -> 23
           [] l = "recv-level-3" -> 34 [] l = "recv-level-4" -> 45

\* Once the input is ready: copied with a header more or less, and deleted.
Takes(l, body, len) ==
    /\ Ready(l)
    /\ buf' = [buf EXCEPT ![l] = [body |-> body, len |-> len]]
    /\ Deleted(From(l), l, "have")
    /\ UNCHANGED <<setting, files>>

\* The next segment is made with ready = 0, then filled and ready.
Puts(l) ==
    /\ \/ /\ pc[l] = "have"
          /\ seg' = [seg EXCEPT ![To(l)] = Created(To(l))]
          /\ pc' = [pc EXCEPT ![l] = "made"]
       \/ /\ pc[l] = "made"
          /\ seg' = [seg EXCEPT ![To(l)] =
                        Handed(@, buf[l].body, buf[l].len, @.datalen, Given[l])]
          /\ pc' = [pc EXCEPT ![l] = "done"]
    /\ UNCHANGED <<setting, files, buf>>

SendLevel5 ==
    \/ /\ MayStart("send-level-5")
       /\ \E n \in datalen, d \in Payload :
            /\ sender_dat' = [len |-> n, data |-> d]
            /\ buf' = [buf EXCEPT !["send-level-5"] = [body |-> [Blank EXCEPT !.data = d],
                                                      len |-> n]]
       /\ pc' = [pc EXCEPT !["send-level-5"] = "have"]
       /\ UNCHANGED <<setting, network_dat, carried, receiver_dat, seg>>
    \/ Puts("send-level-5")

SendLevel4 ==
    LET s == seg[54] IN
    \/ Attach("send-level-4") \/ Puts("send-level-4")
    \/ Takes("send-level-4", WithTcp(s.body, off, s.len), s.len + TcpLen + extern_len(off))

SendLevel3 ==
    LET s == seg[43] IN
    \/ Attach("send-level-3") \/ Puts("send-level-3")
    \/ Takes("send-level-3", WithIp(s.body, s.len), s.len + IpLen)

SendLevel2 ==
    LET s == seg[32] IN
    \/ Attach("send-level-2") \/ Puts("send-level-2")
    \/ Takes("send-level-2", WithEth(s.body), AtLeastShortest(s.len + EthLen))

SendLevel1 ==
    \/ Attach("send-level-1")
    \/ /\ Ready("send-level-1")
       /\ network_dat' = [len |-> seg[21].len, body |-> seg[21].body]
       /\ Deleted(21, "send-level-1", "done")
       /\ UNCHANGED <<setting, sender_dat, carried, receiver_dat, buf>>

RecvLevel1 ==
    \/ /\ MayStart("recv-level-1")
       /\ buf' = [buf EXCEPT !["recv-level-1"] = network_dat]
       /\ pc' = [pc EXCEPT !["recv-level-1"] = "have"]
       /\ UNCHANGED <<setting, files, seg>>
    \/ Puts("recv-level-1")

RecvLevel2 ==
    LET s == seg[12] IN
    \/ Attach("recv-level-2") \/ Puts("recv-level-2")
    \/ s.body.type = IPv4 /\ Takes("recv-level-2", s.body, s.len - EthLen)
    \/ /\ Ready("recv-level-2") /\ s.body.type # IPv4
       /\ Exit1("recv-level-2") /\ UNCHANGED <<setting, files, buf>>

\* Mutant of RecvLevel3: what fills the frame up is kept.
RecvLevel3Padded ==
    LET s == seg[23] IN
    \/ Attach("recv-level-3") \/ Puts("recv-level-3")
    \/ s.body.ipck = IpChecksum(s.body) /\ Takes("recv-level-3", s.body, s.len)
    \/ /\ Ready("recv-level-3") /\ s.body.ipck # IpChecksum(s.body)
       /\ Exit1("recv-level-3") /\ UNCHANGED <<setting, files, buf>>

\* Only iplen bytes are kept, without what fills the frame up.
RecvLevel3 ==
    LET s == seg[23] IN
    \/ Attach("recv-level-3") \/ Puts("recv-level-3")
    \/ s.body.ipck = IpChecksum(s.body) /\ Takes("recv-level-3", s.body, s.body.iplen)
    \/ /\ Ready("recv-level-3") /\ s.body.ipck # IpChecksum(s.body)
       /\ Exit1("recv-level-3") /\ UNCHANGED <<setting, files, buf>>

\* A data offset below 5 makes the length of the first memcpy() negative, and the
\* level ends there, before it has looked at the checksum.
RecvLevel4 ==
    LET s == seg[34]
        len == s.len - IpLen
        good == s.body.tcpck = TcpChecksum(s.body, len)
    IN
    \/ Attach("recv-level-4") \/ Puts("recv-level-4")
    \/ /\ s.body.off >= 5 /\ good
       /\ Takes("recv-level-4", s.body, len - TcpLen - extern_len(s.body.off))
    \/ /\ Ready("recv-level-4") /\ s.body.off >= 5 /\ ~good
       /\ Deleted(34, "recv-level-4", "failed") /\ UNCHANGED <<setting, files, buf>>
    \/ /\ Ready("recv-level-4") /\ s.body.off < 5
       /\ Exit1("recv-level-4") /\ UNCHANGED <<setting, files, buf>>

\* Mutant of RecvLevel5: the last segment is not deleted.
RecvLevel5Keeps ==
    \/ Attach("recv-level-5")
    \/ /\ Ready("recv-level-5")
       /\ receiver_dat' = [len |-> seg[45].len, data |-> seg[45].body.data]
       /\ pc' = [pc EXCEPT !["recv-level-5"] = "done"]
       /\ UNCHANGED <<setting, sender_dat, network_dat, carried, seg, buf>>

RecvLevel5 ==
    \/ Attach("recv-level-5")
    \/ /\ Ready("recv-level-5")
       /\ receiver_dat' = [len |-> seg[45].len, data |-> seg[45].body.data]
       /\ Deleted(45, "recv-level-5", "done")
       /\ UNCHANGED <<setting, sender_dat, network_dat, carried, buf>>

ChainSend == SendLevel5 \/ SendLevel4 \/ SendLevel3 \/ SendLevel2 \/ SendLevel1
ChainReceive == RecvLevel1 \/ RecvLevel2 \/ RecvLevel3 \/ RecvLevel4 \/ RecvLevel5

ChainNext == version = "01" /\ (ChainSend \/ ChainReceive)
=============================================================================
