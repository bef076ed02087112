--------------------------- MODULE Protocol6Proofs ---------------------------
(***************************************************************************)
(* Protocol 6 for any number of packets, any odd MAX_SEQ from 3 on and any *)
(* noise: what the sender makes of acknowledgements it never takes, and    *)
(* which slot the packets end up in that it sends under other numbers.     *)
(***************************************************************************)
EXTENDS Protocol6, Integers, FiniteSetTheorems, TLAPS

\* A function on the hosts.
OnHosts(f) == f = [h \in Hosts |-> f[h]]

Domains == /\ OnHosts(event) /\ OnHosts(oldest_frame) /\ OnHosts(timer)
           /\ OnHosts(ack_expected) /\ OnHosts(next_frame_to_send)
           /\ OnHosts(sdl_to_spl) /\ OnHosts(spl_to_sdl)

\* Nothing the receiver sends is a data frame.
ReceiverInv == /\ event["receiver"] # "timeout" /\ timer["receiver"] = {}
               /\ sdl_to_spl["receiver"].kind # "data" /\ spl_to_sdl["sender"].kind # "data"

\* As long as slots are used for the first time the numbers are those of the packets, and
\* a timeout names a slot whose timer runs.
SenderInv == /\ fetched \in Nat /\ next_frame_to_send["sender"] \in Nat
             /\ fetched < NR_BUFS => next_frame_to_send["sender"] = fetched
             /\ event["sender"] = "timeout" => oldest_frame["sender"] \in timer["sender"]

OneWayInv == Domains /\ ReceiverInv /\ SenderInv /\ OneWayIsNeverAcknowledged

LEMMA Window == /\ NR_BUFS \in Nat /\ NR_BUFS >= 2 /\ 2 * NR_BUFS = MAX_SEQ + 1
                /\ MAX_SEQ \in Nat
  BY Protocol6Assumption, SMT DEF NR_BUFS

LEMMA SlotMod == /\ \A k \in Slots : k \in Nat /\ k % NR_BUFS = k
                 /\ \A s \in Nat : s % NR_BUFS \in Slots
  BY Window, SMT DEF Slots

LEMMA IncNat == \A s \in Nat : inc(s) \in Nat /\ (s < MAX_SEQ => inc(s) = s + 1)
  BY Window, SMT DEF inc
-----------------------------------------------------------------------------
LEMMA OneWayInit ==
    ASSUME "timeout" \notin FirstEvents, Init
    PROVE  OneWayInv
<1>1. Domains
  BY DEF Init, All, Domains, OnHosts
<1>2. ReceiverInv
  BY DEF Init, All, ReceiverInv, NoFrame, Hosts
<1>3. SenderInv
  BY DEF Init, All, SenderInv, Hosts
<1>4. OneWayIsNeverAcknowledged
  BY SMT DEF Init, All, OneWayIsNeverAcknowledged, Hosts, Slots
<1> QED BY <1>1, <1>2, <1>3, <1>4 DEF OneWayInv

\* What wait_for_event leaves of the invariant, whatever it returns.
LEMMA Waits ==
    ASSUME OneWayInv, NEW h \in Hosts, NEW e, wait_for_event(h, e)
    PROVE  /\ OnHosts(event') /\ OnHosts(oldest_frame')
           /\ event' = [event EXCEPT ![h] = e]
           /\ e = "timeout" => h = "sender" /\ oldest_frame'[h] \in timer[h]
           /\ event'["receiver"] # "timeout"
           /\ event'["sender"] = "timeout" => oldest_frame'["sender"] \in timer["sender"]
<1>1. event' = [event EXCEPT ![h] = e]
  BY DEF wait_for_event
<1>2. PICK k : oldest_frame' = [oldest_frame EXCEPT ![h] = k]
  BY DEF wait_for_event
<1>3. OnHosts(event') /\ OnHosts(oldest_frame')
  BY <1>1, <1>2 DEF OneWayInv, Domains, OnHosts
<1>4. h = "sender" \/ h = "receiver"
  BY DEF Hosts
<1>5. ASSUME e = "timeout" PROVE h = "sender" /\ k \in timer[h]
  <2>1. timer[h] # {} \/ event[h] = "timeout"
    BY <1>5 DEF wait_for_event
  <2>2. h = "sender"
    BY <2>1, <1>4 DEF OneWayInv, ReceiverInv
  <2>3. oldest_frame'[h] = k
    BY <1>2 DEF OneWayInv, Domains, OnHosts
  <2>4. PICK x \in timer[h] \cup IF event[h] = e /\ ~ready[h] /\ ~frame_ar[h]
                                  THEN {oldest_frame[h]} ELSE {} :
             oldest_frame' = [oldest_frame EXCEPT ![h] = x]
    BY <1>5 DEF wait_for_event
  <2>5. x = k /\ (x \in timer[h] \/ (event[h] = "timeout" /\ x = oldest_frame[h]))
    <3>1. x = k
      BY <2>3, <2>4 DEF OneWayInv, Domains, OnHosts
    <3>2. x \in timer[h] \/ (event[h] = "timeout" /\ x = oldest_frame[h])
      BY <1>5, <2>4
    <3> QED BY <3>1, <3>2
  <2> QED BY <2>2, <2>5 DEF OneWayInv, SenderInv
<1>6. event'[h] = e /\ oldest_frame'[h] = k
  BY <1>1, <1>2 DEF OneWayInv, Domains, OnHosts
<1>7. \A g \in Hosts : g # h => event'[g] = event[g] /\ oldest_frame'[g] = oldest_frame[g]
  BY <1>1, <1>2 DEF OneWayInv, Domains, OnHosts
<1>8. event'["receiver"] # "timeout"
  BY <1>4, <1>5, <1>6, <1>7 DEF Hosts, OneWayInv, ReceiverInv
<1>9. event'["sender"] = "timeout" => oldest_frame'["sender"] \in timer["sender"]
  BY <1>4, <1>5, <1>6, <1>7 DEF Hosts, OneWayInv, SenderInv
<1> QED BY <1>1, <1>3, <1>5, <1>6, <1>8, <1>9

\* A round of the loop keeps the invariant if it stops no timer of the sender and starts
\* none, and posts no data frame on the receiver.
LEMMA RoundKeeps ==
    ASSUME OneWayInv, NEW h \in Hosts, NEW e, Round(h, e),
           OnHosts(timer'), timer'["sender"] = timer["sender"], timer'["receiver"] = {},
           OnHosts(ack_expected'), ack_expected'["sender"] = 0,
           OnHosts(sdl_to_spl'), sdl_to_spl'["receiver"].kind # "data"
    PROVE  OneWayInv'
<1>1. /\ wait_for_event(h, e)
      /\ UNCHANGED <<fetched, next_frame_to_send, spl_to_sdl>>
  BY DEF Round
<1>2. /\ OnHosts(event') /\ OnHosts(oldest_frame')
      /\ event'["receiver"] # "timeout"
      /\ event'["sender"] = "timeout" => oldest_frame'["sender"] \in timer["sender"]
  BY <1>1, Waits
<1>3. Domains'
  BY <1>1, <1>2 DEF OneWayInv, Domains, OnHosts
<1>4. ReceiverInv'
  BY <1>1, <1>2 DEF OneWayInv, ReceiverInv
<1>5. SenderInv'
  BY <1>1, <1>2 DEF OneWayInv, SenderInv
<1>6. OneWayIsNeverAcknowledged'
  BY <1>1 DEF OneWayInv, OneWayIsNeverAcknowledged
<1> QED BY <1>3, <1>4, <1>5, <1>6 DEF OneWayInv

\* Posting a frame that is not a data frame starts no timer.
LEMMA PostsOther ==
    ASSUME OneWayInv, NEW h \in Hosts, NEW kind \in {"ack", "nak"}, NEW nr, NEW info,
           send_frame(h, kind, nr, info)
    PROVE  /\ OnHosts(timer') /\ timer' = timer
           /\ OnHosts(sdl_to_spl') /\ sdl_to_spl'["receiver"].kind # "data"
<1> DEFINE f == [kind |-> kind, seq |-> nr, info |-> info,
                 ack |-> (frame_expected[h] + MAX_SEQ) % (MAX_SEQ + 1)]
<1>1. timer' = [timer EXCEPT ![h] = timer[h]]
  BY DEF send_frame
<1>2. sdl_to_spl' = [sdl_to_spl EXCEPT ![h] = f] /\ f.kind # "data"
  <2>1. sdl_to_spl' = [sdl_to_spl EXCEPT ![h] = f]
    BY DEF send_frame, to_physical_layer
  <2>2. f.kind = kind
    OBVIOUS
  <2> QED BY <2>1, <2>2
<1> HIDE DEF f
<1>3. OnHosts(timer') /\ timer' = timer
  BY <1>1 DEF OneWayInv, Domains, OnHosts
<1>4. OnHosts(sdl_to_spl')
  BY <1>2 DEF OneWayInv, Domains, OnHosts
<1>5. sdl_to_spl'["receiver"] = f \/ sdl_to_spl'["receiver"] = sdl_to_spl["receiver"]
  BY <1>2 DEF OneWayInv, Domains, OnHosts, Hosts
<1> QED BY <1>2, <1>3, <1>4, <1>5 DEF OneWayInv, ReceiverInv

LEMMA SdlStep ==
    ASSUME OneWayInv, NEW h \in Hosts, Sdl(h)
    PROVE  OneWayInv'
<1>0. /\ OnHosts(timer) /\ OnHosts(ack_expected) /\ OnHosts(sdl_to_spl)
      /\ timer["receiver"] = {} /\ ack_expected["sender"] = 0
      /\ sdl_to_spl["receiver"].kind # "data"
  BY DEF OneWayInv, Domains, ReceiverInv, OneWayIsNeverAcknowledged
<1>1. CASE SdlReady(h)
  BY <1>0, <1>1, RoundKeeps DEF SdlReady
<1>2. CASE SdlDataArrival(h)
  <2>1. /\ Round(h, "frame_arrival") /\ spl_to_sdl[h].kind = "data"
        /\ TakeAck(h, spl_to_sdl[h].ack)
    BY <1>2 DEF SdlDataArrival
  <2>2. h = "receiver"
    BY <2>1 DEF OneWayInv, ReceiverInv, Hosts
  <2>3. /\ OnHosts(ack_expected') /\ ack_expected'["sender"] = 0
    <3>1. PICK v : ack_expected' = [ack_expected EXCEPT ![h] = v] \/ ack_expected' = ack_expected
      BY <2>1 DEF TakeAck
    <3> QED BY <1>0, <2>2, <3>1 DEF OnHosts, Hosts
  <2>4. /\ OnHosts(timer') /\ timer'["sender"] = timer["sender"] /\ timer'["receiver"] = {}
    <3>1. PICK acked : timer' = [timer EXCEPT ![h] = @ \ acked] \/ timer' = timer
      BY <2>1 DEF TakeAck
    <3> QED BY <1>0, <2>2, <3>1 DEF OnHosts, Hosts
  <2>5. /\ OnHosts(sdl_to_spl') /\ sdl_to_spl'["receiver"].kind # "data"
    <3>1. PICK f : /\ sdl_to_spl' = [sdl_to_spl EXCEPT ![h] = f] \/ sdl_to_spl' = sdl_to_spl
                   /\ f.kind = "nak"
      <4> DEFINE g == [kind |-> "nak", seq |-> 0, info |-> 0,
                       ack |-> (frame_expected[h] + MAX_SEQ) % (MAX_SEQ + 1)]
      <4>1. sdl_to_spl' = [sdl_to_spl EXCEPT ![h] = g] \/ sdl_to_spl' = sdl_to_spl
        BY <1>2 DEF SdlDataArrival, to_physical_layer
      <4>2. g.kind = "nak"
        OBVIOUS
      <4> QED BY <4>1, <4>2
    <3> QED BY <1>0, <3>1 DEF OnHosts, Hosts
  <2> QED BY <2>1, <2>3, <2>4, <2>5, RoundKeeps
<1>3. CASE SdlOtherArrival(h)
  BY <1>0, <1>3, RoundKeeps DEF SdlOtherArrival
<1>4. CASE SdlCksumErr(h)
  <2>1. Round(h, "cksum_err") /\ UNCHANGED ack_expected
    BY <1>4 DEF SdlCksumErr
  <2>2. send_frame(h, "nak", 0, 0) \/ UNCHANGED <<timer, sdl_to_spl>>
    BY <1>4 DEF SdlCksumErr
  <2>3. /\ OnHosts(timer') /\ timer' = timer
        /\ OnHosts(sdl_to_spl') /\ sdl_to_spl'["receiver"].kind # "data"
    BY <1>0, <2>2, PostsOther
  <2> QED BY <1>0, <2>1, <2>3, RoundKeeps
<1>5. CASE SdlTimeout(h)
  <2>1. Round(h, "timeout") /\ wait_for_event(h, "timeout") /\ UNCHANGED ack_expected
    BY <1>5 DEF SdlTimeout, Round
  <2>2. h = "sender" /\ oldest_frame'[h] \in timer[h]
    BY <2>1, Waits
  <2>3. oldest_frame'[h] % NR_BUFS \in timer[h]
    BY <2>2, SlotMod DEF OneWayInv, OneWayIsNeverAcknowledged
  <2>4. timer' = [timer EXCEPT ![h] = timer[h] \cup {oldest_frame'[h] % NR_BUFS}]
    BY <1>0, <1>5 DEF SdlTimeout, send_frame
  <2>5. OnHosts(timer') /\ timer'["sender"] = timer["sender"] /\ timer'["receiver"] = {}
    BY <1>0, <2>2, <2>3, <2>4 DEF OnHosts, Hosts
  <2>6. OnHosts(sdl_to_spl') /\ sdl_to_spl'["receiver"].kind # "data"
    BY <1>0, <1>5, <2>2 DEF SdlTimeout, send_frame, to_physical_layer, OnHosts, Hosts
  <2> QED BY <1>0, <2>1, <2>5, <2>6, RoundKeeps
<1>6. CASE SdlAckTimeout(h)
  <2>1. Round(h, "ack_timeout") /\ send_frame(h, "ack", 0, 0) /\ UNCHANGED ack_expected
    BY <1>6 DEF SdlAckTimeout
  <2> QED BY <1>0, <2>1, PostsOther, RoundKeeps
<1>7. CASE SdlOtherEvent(h)
  BY <1>0, <1>7, RoundKeeps DEF SdlOtherEvent
<1> QED BY <1>1, <1>2, <1>3, <1>4, <1>5, <1>6, <1>7 DEF Sdl
\* A packet is sent: in a slot used before its timer runs already.
LEMMA FetchStep ==
    ASSUME OneWayInv, SdlFetch
    PROVE  OneWayInv'
<1> DEFINE s == next_frame_to_send["sender"]
           f == [kind |-> "data", seq |-> s, info |-> fetched',
                 ack |-> (frame_expected["sender"] + MAX_SEQ) % (MAX_SEQ + 1)]
<1>0. /\ Domains /\ ReceiverInv /\ SenderInv /\ OneWayIsNeverAcknowledged
      /\ "sender" \in Hosts /\ "receiver" \in Hosts
  BY DEF OneWayInv, Hosts
<1>1. /\ fetched' = fetched + 1
      /\ next_frame_to_send' = [next_frame_to_send EXCEPT !["sender"] = inc(s)]
      /\ timer' = [timer EXCEPT !["sender"] = timer["sender"] \cup {s % NR_BUFS}]
      /\ sdl_to_spl' = [sdl_to_spl EXCEPT !["sender"] = f]
      /\ UNCHANGED <<event, oldest_frame, ack_expected, spl_to_sdl>>
  BY DEF SdlFetch, send_frame, to_physical_layer
<1> HIDE DEF f
<1>2. Domains'
  BY <1>0, <1>1 DEF Domains, OnHosts
<1>3. ReceiverInv'
  BY <1>0, <1>1 DEF ReceiverInv, Domains, OnHosts
<1>4. /\ timer'["sender"] = timer["sender"] \cup {s % NR_BUFS}
      /\ next_frame_to_send'["sender"] = inc(s)
  BY <1>0, <1>1 DEF Domains, OnHosts
<1>5. s \in Nat /\ fetched \in Nat /\ (fetched < NR_BUFS => s = fetched)
  BY <1>0 DEF SenderInv
<1>6. SenderInv'
  <2>1. inc(s) \in Nat /\ fetched' \in Nat
    BY <1>1, <1>5, IncNat
  <2>2. fetched' < NR_BUFS => inc(s) = fetched'
    BY <1>1, <1>5, IncNat, Window
  <2>3. event'["sender"] = "timeout" => oldest_frame'["sender"] \in timer'["sender"]
    BY <1>0, <1>1, <1>4 DEF SenderInv
  <2> QED BY <1>4, <2>1, <2>2, <2>3 DEF SenderInv
<1>7. timer'["sender"] = {k \in Slots : k < fetched'}
  <2>1. timer["sender"] = {k \in Slots : k < fetched}
    BY <1>0 DEF OneWayIsNeverAcknowledged
  <2>2. s % NR_BUFS \in Slots
    BY <1>5, SlotMod
  <2>3. CASE fetched < NR_BUFS
    <3>1. s % NR_BUFS = fetched
      BY <1>5, <2>3, SlotMod, Window DEF Slots
    <3>2. \A k \in Slots : k < fetched' <=> (k < fetched \/ k = fetched)
      BY <1>1, <1>5, SlotMod
    <3> QED BY <1>4, <2>1, <2>2, <3>1, <3>2
  <2>4. CASE ~(fetched < NR_BUFS)
    <3>1. \A k \in Slots : k < fetched /\ k < fetched'
      BY <1>1, <1>5, <2>4, Window DEF Slots
    <3> QED BY <1>4, <2>1, <2>2, <3>1
  <2> QED BY <2>3, <2>4
<1>8. OneWayIsNeverAcknowledged'
  BY <1>0, <1>1, <1>7 DEF OneWayIsNeverAcknowledged
<1> QED BY <1>2, <1>3, <1>6, <1>8 DEF OneWayInv

LEMMA SnlStep ==
    ASSUME OneWayInv, SnlWrites \/ SnlGoes
    PROVE  OneWayInv'
<1>1. UNCHANGED <<fetched, sdlVars, sdl_to_spl, spl_to_sdl>>
  BY DEF SnlWrites, SnlGoes
<1> QED BY <1>1 DEF sdlVars, sendVars, OneWayInv, Domains, OnHosts, ReceiverInv, SenderInv,
                    OneWayIsNeverAcknowledged

\* The sender is passed only what the receiver posted.
LEMMA SplStep ==
    ASSUME OneWayInv, NEW h \in Hosts, Spl(h)
    PROVE  OneWayInv'
<1>0. /\ OnHosts(sdl_to_spl) /\ OnHosts(spl_to_sdl)
      /\ sdl_to_spl["receiver"].kind # "data" /\ spl_to_sdl["sender"].kind # "data"
      /\ Peer(h) \in Hosts /\ (h = "sender" => Peer(h) = "receiver")
  BY DEF OneWayInv, Domains, ReceiverInv, Peer, Hosts
<1>1. /\ sdl_to_spl' = [sdl_to_spl EXCEPT ![Peer(h)] = NoFrame]
      /\ UNCHANGED <<fetched, event, oldest_frame, timer, ack_expected, next_frame_to_send>>
  BY DEF Spl, SplLostFrame, SplDamagedFrame, SplPassFrame, SplTakesFrame, snlVars, sdlVars,
         sendVars
<1>2. \/ spl_to_sdl' = spl_to_sdl
      \/ spl_to_sdl' = [spl_to_sdl EXCEPT ![h] = sdl_to_spl[Peer(h)]]
  BY DEF Spl, SplLostFrame, SplDamagedFrame, SplPassFrame
<1>3. NoFrame.kind # "data"
  BY DEF NoFrame
<1>4. OnHosts(sdl_to_spl') /\ sdl_to_spl'["receiver"].kind # "data"
  BY <1>0, <1>1, <1>3 DEF OnHosts, Hosts
<1>5. OnHosts(spl_to_sdl') /\ spl_to_sdl'["sender"].kind # "data"
  BY <1>0, <1>2 DEF OnHosts, Hosts
<1>6. Domains'
  BY <1>1, <1>4, <1>5 DEF OneWayInv, Domains, OnHosts
<1>7. ReceiverInv'
  BY <1>1, <1>4, <1>5 DEF OneWayInv, ReceiverInv
<1>8. SenderInv' /\ OneWayIsNeverAcknowledged'
  BY <1>1 DEF OneWayInv, SenderInv, OneWayIsNeverAcknowledged
<1> QED BY <1>6, <1>7, <1>8 DEF OneWayInv
-----------------------------------------------------------------------------
\* OneWayInv is an invariant of the protocol if the event that SDL never initialises
\* (sender6.c, Datalink_Layer) is not a timeout by chance: that one would start the timer
\* of a slot nobody has used.
THEOREM Inductive ==
    ASSUME "timeout" \notin FirstEvents
    PROVE  Spec => []OneWayInv
<1>1. Init => OneWayInv
  BY OneWayInit
<1>2. ASSUME OneWayInv, [Next]_vars PROVE OneWayInv'
  <2>1. CASE SnlWrites \/ SnlGoes
    BY <1>2, <2>1, SnlStep
  <2>2. CASE SdlFetch
    BY <1>2, <2>2, FetchStep
  <2>3. CASE \E h \in Hosts : Sdl(h) \/ Spl(h)
    BY <1>2, <2>3, SdlStep, SplStep
  <2>4. CASE UNCHANGED vars
    BY <1>2, <2>4 DEF vars, snlVars, sdlVars, sendVars, OneWayInv, Domains, OnHosts,
                      ReceiverInv, SenderInv, OneWayIsNeverAcknowledged
  <2> QED BY <1>2, <2>1, <2>2, <2>3, <2>4 DEF Next
<1> QED BY <1>1, <1>2, PTL DEF Spec

\* Whatever is lost, damaged or overtaken, and however many packets there are, the window of
\* a sender with data one way never moves and the timer of every slot used runs for ever
\* (sender6.c, where the branches for naks and acknowledgements are inside that for data).
THEOREM NeverAcknowledged ==
    ASSUME "timeout" \notin FirstEvents
    PROVE  Spec => []OneWayIsNeverAcknowledged
<1>1. OneWayInv => OneWayIsNeverAcknowledged
  BY DEF OneWayInv
<1> QED BY <1>1, Inductive, PTL
-----------------------------------------------------------------------------
\* Packet p, or memory nobody wrote, belongs in slot k.
Fits(p, k) == p \in Nat /\ (p # 0 => (p - 1) % NR_BUFS = k)

FrameFits(f) == f.seq \in Nat /\ Fits(f.info, f.seq % NR_BUFS)

\* Every packet is in its slot, in the buffers and under way, and every number that can be
\* sent is one of the slot that holds the packet.
SlotInv == /\ in_buf \in [Hosts -> [Slots -> Nat]] /\ out_buf \in [Hosts -> [Slots -> Nat]]
           /\ timer \in [Hosts -> SUBSET Slots] /\ oldest_frame \in [Hosts -> Nat]
           /\ OnHosts(sdl_to_spl) /\ OnHosts(spl_to_sdl) /\ OnHosts(delivered)
           /\ OnHosts(next_frame_to_send)
           /\ fetched \in Nat /\ next_frame_to_send["sender"] \in 0 .. MAX_SEQ
           /\ next_frame_to_send["sender"] % NR_BUFS = fetched % NR_BUFS
           /\ \A h \in Hosts, k \in Slots : Fits(in_buf[h][k], k) /\ Fits(out_buf[h][k], k)
           /\ \A h \in Hosts : FrameFits(sdl_to_spl[h]) /\ FrameFits(spl_to_sdl[h])
           /\ \A h \in Hosts : Fits(delivered[h], 1)

LEMMA QuotRem ==
    ASSUME NEW n \in Nat, n > 0
    PROVE  /\ \A a \in Nat : /\ a \div n \in Nat /\ a % n \in 0 .. n - 1
                             /\ a = n * (a \div n) + (a % n)
           /\ \A q \in Nat, r \in 0 .. n - 1 : (n * q + r) % n = r
<1>1. ASSUME NEW a \in Nat
      PROVE  /\ a \div n \in Nat /\ a % n \in 0 .. n - 1
             /\ a = n * (a \div n) + (a % n)
  BY Z3
<1>2. ASSUME NEW q \in Nat, NEW r \in 0 .. n - 1 PROVE (n * q + r) % n = r
  BY Z3
<1> QED BY <1>1, <1>2

LEMMA ModSucc == \A a, b \in Nat : a % NR_BUFS = b % NR_BUFS
                                       => (a + 1) % NR_BUFS = (b + 1) % NR_BUFS
<1> DEFINE n == NR_BUFS
<1>0. n \in Nat /\ n > 0
  BY Window
<1> HIDE DEF n
<1>1. ASSUME NEW a \in Nat
      PROVE  (a + 1) % n = IF a % n = n - 1 THEN 0 ELSE (a % n) + 1
  <2> DEFINE q == a \div n
             r == a % n
  <2>1. q \in Nat /\ r \in 0 .. n - 1 /\ a = n * q + r
    BY <1>0, QuotRem
  <2> HIDE DEF q, r
  <2>2. CASE r = n - 1
    <3>1. a + 1 = n * (q + 1) + 0
      BY <1>0, <2>1, <2>2, SMT
    <3>2. (n * (q + 1) + 0) % n = 0
      BY <1>0, <2>1, QuotRem
    <3> QED BY <2>2, <3>1, <3>2 DEF r
  <2>3. CASE r # n - 1
    <3>1. a + 1 = n * q + (r + 1) /\ r + 1 \in 0 .. n - 1
      BY <1>0, <2>1, <2>3, SMT
    <3>2. (n * q + (r + 1)) % n = r + 1
      BY <1>0, <2>1, <3>1, QuotRem
    <3> QED BY <2>3, <3>1, <3>2 DEF r
  <2> QED BY <2>2, <2>3
<1> QED BY <1>1 DEF n

LEMMA IncMod == \A s \in 0 .. MAX_SEQ : /\ inc(s) \in 0 .. MAX_SEQ
                                        /\ inc(s) % NR_BUFS = (s + 1) % NR_BUFS
<1> TAKE s \in 0 .. MAX_SEQ
<1>1. CASE s < MAX_SEQ
  BY <1>1, Window, IncNat
<1>2. CASE s = MAX_SEQ
  <2>1. inc(s) = 0
    BY <1>2, Window, SMT DEF inc
  <2>2. s + 1 = 2 * NR_BUFS
    BY <1>2, Window
  <2>3. (2 * NR_BUFS) % NR_BUFS = 0 /\ 0 % NR_BUFS = 0
    BY Window, SMT
  <2> QED BY <2>1, <2>2, <2>3, Window
<1> QED BY <1>1, <1>2, Window

LEMMA ZeroFits == \A k : Fits(0, k)
  BY DEF Fits

LEMMA NoFrameFits == FrameFits(NoFrame)
  BY ZeroFits DEF FrameFits, NoFrame

LEMMA SlotInit ==
    ASSUME Init
    PROVE  SlotInv
<1>1. /\ in_buf = [h \in Hosts |-> [k \in Slots |-> 0]]
      /\ out_buf = [h \in Hosts |-> [k \in Slots |-> 0]]
      /\ timer = [h \in Hosts |-> {}] /\ oldest_frame = [h \in Hosts |-> MAX_SEQ + 1]
      /\ sdl_to_spl = [h \in Hosts |-> NoFrame] /\ spl_to_sdl = [h \in Hosts |-> NoFrame]
      /\ delivered = [h \in Hosts |-> 0] /\ next_frame_to_send = [h \in Hosts |-> 0]
      /\ fetched = 0
  BY DEF Init, All
<1>2. "sender" \in Hosts /\ MAX_SEQ + 1 \in Nat /\ 0 \in 0 .. MAX_SEQ
  BY Window DEF Hosts
<1>3. /\ in_buf \in [Hosts -> [Slots -> Nat]] /\ out_buf \in [Hosts -> [Slots -> Nat]]
      /\ timer \in [Hosts -> SUBSET Slots] /\ oldest_frame \in [Hosts -> Nat]
  BY <1>1, <1>2
<1>4. /\ OnHosts(sdl_to_spl) /\ OnHosts(spl_to_sdl) /\ OnHosts(delivered)
      /\ OnHosts(next_frame_to_send)
  BY <1>1 DEF OnHosts
<1>5. /\ \A h \in Hosts, k \in Slots : Fits(in_buf[h][k], k) /\ Fits(out_buf[h][k], k)
      /\ \A h \in Hosts : FrameFits(sdl_to_spl[h]) /\ FrameFits(spl_to_sdl[h])
      /\ \A h \in Hosts : Fits(delivered[h], 1)
  BY <1>1, ZeroFits, NoFrameFits
<1>6. /\ fetched \in Nat /\ next_frame_to_send["sender"] \in 0 .. MAX_SEQ
      /\ next_frame_to_send["sender"] % NR_BUFS = fetched % NR_BUFS
  BY <1>1, <1>2
<1> QED BY <1>3, <1>4, <1>5, <1>6 DEF SlotInv

\* A round keeps the invariant if what it posts, stores and delivers fits.
LEMMA RoundFits ==
    ASSUME SlotInv, NEW h \in Hosts, NEW e, Round(h, e),
           timer' \in [Hosts -> SUBSET Slots],
           OnHosts(sdl_to_spl'), \A g \in Hosts : FrameFits(sdl_to_spl'[g]),
           in_buf' \in [Hosts -> [Slots -> Nat]],
           \A g \in Hosts, k \in Slots : Fits(in_buf'[g][k], k),
           OnHosts(delivered'), \A g \in Hosts : Fits(delivered'[g], 1)
    PROVE  SlotInv'
<1>1. UNCHANGED <<fetched, out_buf, next_frame_to_send, spl_to_sdl>> /\ wait_for_event(h, e)
  BY DEF Round
<1>2. oldest_frame' \in [Hosts -> Nat]
  <2>1. PICK k \in {MAX_SEQ + 1} \cup timer[h] \cup {oldest_frame[h]} :
            oldest_frame' = [oldest_frame EXCEPT ![h] = k]
    BY <1>1 DEF wait_for_event
  <2>2. k \in Nat
    <3>1. timer[h] \subseteq Slots /\ oldest_frame[h] \in Nat
      BY DEF SlotInv
    <3>2. MAX_SEQ + 1 \in Nat
      BY Window
    <3> QED BY <2>1, <3>1, <3>2, SlotMod
  <2> QED BY <2>1, <2>2 DEF SlotInv
<1> QED BY <1>1, <1>2 DEF SlotInv

\* A frame that is posted fits if its packet fits the slot of its number.
LEMMA Posts ==
    ASSUME SlotInv, NEW h \in Hosts, NEW kind, NEW nr \in Nat, NEW info,
           Fits(info, nr % NR_BUFS), send_frame(h, kind, nr, info)
    PROVE  /\ timer' \in [Hosts -> SUBSET Slots]
           /\ OnHosts(sdl_to_spl') /\ \A g \in Hosts : FrameFits(sdl_to_spl'[g])
<1> DEFINE f == [kind |-> kind, seq |-> nr, info |-> info,
                 ack |-> (frame_expected[h] + MAX_SEQ) % (MAX_SEQ + 1)]
<1>1. FrameFits(f)
  BY DEF FrameFits
<1>2. sdl_to_spl' = [sdl_to_spl EXCEPT ![h] = f]
  BY DEF send_frame, to_physical_layer
<1> HIDE DEF f
<1>3. OnHosts(sdl_to_spl') /\ \A g \in Hosts : FrameFits(sdl_to_spl'[g])
  BY <1>1, <1>2 DEF SlotInv, OnHosts
<1>4. nr % NR_BUFS \in Slots
  BY SlotMod
<1>5. timer' = [timer EXCEPT ![h] = IF kind = "data" THEN timer[h] \cup {nr % NR_BUFS}
                                                     ELSE timer[h]]
  BY DEF send_frame, SlotInv
<1>6. timer' \in [Hosts -> SUBSET Slots]
  BY <1>4, <1>5 DEF SlotInv
<1> QED BY <1>3, <1>6

\* A data frame is stored in the slot of its number and slot 1 is what is delivered.
LEMMA Accepts ==
    ASSUME SlotInv, NEW h \in Hosts, AcceptData(h, spl_to_sdl[h])
    PROVE  /\ in_buf' \in [Hosts -> [Slots -> Nat]]
           /\ \A g \in Hosts, k \in Slots : Fits(in_buf'[g][k], k)
           /\ OnHosts(delivered') /\ \A g \in Hosts : Fits(delivered'[g], 1)
<1> DEFINE f == spl_to_sdl[h]
           i == f.seq % NR_BUFS
<1>1. i \in Slots /\ f.info \in Nat /\ Fits(f.info, i)
  BY SlotMod DEF SlotInv, FrameFits, Fits
<1>2. in_buf' = in_buf \/ in_buf' = [in_buf EXCEPT ![h][i] = f.info]
  BY DEF AcceptData, SlotOf
<1> HIDE DEF f, i
<1>3. in_buf' \in [Hosts -> [Slots -> Nat]]
  <2>1. in_buf \in [Hosts -> [Slots -> Nat]] /\ [in_buf[h] EXCEPT ![i] = f.info] \in [Slots -> Nat]
    BY <1>1 DEF SlotInv
  <2> QED BY <1>2, <2>1
<1>4. \A g \in Hosts, k \in Slots : Fits(in_buf'[g][k], k)
  <2> TAKE g \in Hosts, k \in Slots
  <2>1. in_buf \in [Hosts -> [Slots -> Nat]] /\ Fits(in_buf[g][k], k)
    BY DEF SlotInv
  <2>2. \/ in_buf'[g][k] = in_buf[g][k]
        \/ in_buf'[g][k] = f.info /\ k = i
    BY <1>2, <2>1
  <2> QED BY <1>1, <2>1, <2>2
<1>5. Fits(in_buf'[h][1], 1)
  BY <1>4, Window DEF Slots
<1>6. \/ delivered' = [delivered EXCEPT ![h] = delivered[h]]
      \/ delivered' = [delivered EXCEPT ![h] = in_buf'[h][1]]
  BY DEF AcceptData
<1>7. OnHosts(delivered) /\ \A g \in Hosts : Fits(delivered[g], 1)
  BY DEF SlotInv
<1>8. PICK p : delivered' = [delivered EXCEPT ![h] = p] /\ Fits(p, 1)
  BY <1>5, <1>6, <1>7
<1>9. OnHosts(delivered') /\ \A g \in Hosts : Fits(delivered'[g], 1)
  BY <1>7, <1>8 DEF OnHosts
<1> QED BY <1>3, <1>4, <1>9

LEMMA SdlFits ==
    ASSUME SlotInv, NEW h \in Hosts, Sdl(h)
    PROVE  SlotInv'
<1>0. /\ timer \in [Hosts -> SUBSET Slots]
      /\ OnHosts(sdl_to_spl) /\ \A g \in Hosts : FrameFits(sdl_to_spl[g])
      /\ in_buf \in [Hosts -> [Slots -> Nat]]
      /\ \A g \in Hosts, k \in Slots : Fits(in_buf[g][k], k)
      /\ OnHosts(delivered) /\ \A g \in Hosts : Fits(delivered[g], 1)
  BY DEF SlotInv
<1>1. CASE SdlReady(h)
  BY <1>0, <1>1, RoundFits DEF SdlReady, recvVars
<1>2. CASE SdlDataArrival(h)
  <2>1. /\ Round(h, "frame_arrival") /\ TakeAck(h, spl_to_sdl[h].ack)
        /\ AcceptData(h, spl_to_sdl[h])
    BY <1>2 DEF SdlDataArrival
  <2>2. timer' \in [Hosts -> SUBSET Slots]
    <3>1. PICK acked : timer' = [timer EXCEPT ![h] = timer[h] \ acked] \/ timer' = timer
      BY <2>1 DEF TakeAck
    <3> QED BY <1>0, <3>1
  <2>3. OnHosts(sdl_to_spl') /\ \A g \in Hosts : FrameFits(sdl_to_spl'[g])
    <3> DEFINE f == [kind |-> "nak", seq |-> 0, info |-> 0,
                     ack |-> (frame_expected[h] + MAX_SEQ) % (MAX_SEQ + 1)]
    <3>1. sdl_to_spl' = [sdl_to_spl EXCEPT ![h] = f] \/ sdl_to_spl' = sdl_to_spl
      BY <1>2 DEF SdlDataArrival, to_physical_layer
    <3>2. FrameFits(f)
      BY ZeroFits DEF FrameFits
    <3> HIDE DEF f
    <3> QED BY <1>0, <3>1, <3>2 DEF OnHosts
  <2> QED BY <2>1, <2>2, <2>3, Accepts, RoundFits
<1>3. CASE SdlOtherArrival(h)
  BY <1>0, <1>3, RoundFits DEF SdlOtherArrival, recvVars
<1>4. CASE SdlCksumErr(h)
  <2>1. Round(h, "cksum_err") /\ UNCHANGED <<in_buf, delivered>>
    BY <1>4 DEF SdlCksumErr, recvVars
  <2>2. send_frame(h, "nak", 0, 0) \/ UNCHANGED <<timer, sdl_to_spl>>
    BY <1>4 DEF SdlCksumErr
  <2>3. /\ timer' \in [Hosts -> SUBSET Slots]
        /\ OnHosts(sdl_to_spl') /\ \A g \in Hosts : FrameFits(sdl_to_spl'[g])
    BY <1>0, <2>2, Posts, ZeroFits
  <2> QED BY <1>0, <2>1, <2>3, RoundFits
<1>5. CASE SdlTimeout(h)
  <2> DEFINE k == oldest_frame'[h]
  <2>1. Round(h, "timeout") /\ wait_for_event(h, "timeout") /\ UNCHANGED <<in_buf, delivered>>
    BY <1>5 DEF SdlTimeout, Round, recvVars
  <2>2. k \in Nat
    <3>1. PICK x \in timer[h] \cup {oldest_frame[h]} :
              oldest_frame' = [oldest_frame EXCEPT ![h] = x]
      BY <2>1 DEF wait_for_event
    <3>2. x \in Nat
      BY SlotMod DEF SlotInv
    <3> QED BY <3>1, <3>2 DEF SlotInv
  <2>3. Fits(out_buf[h][k % NR_BUFS], k % NR_BUFS)
    BY <2>2, SlotMod DEF SlotInv
  <2>4. send_frame(h, "data", k, out_buf[h][k % NR_BUFS])
    BY <1>5 DEF SdlTimeout
  <2>5. /\ timer' \in [Hosts -> SUBSET Slots]
        /\ OnHosts(sdl_to_spl') /\ \A g \in Hosts : FrameFits(sdl_to_spl'[g])
    <3> HIDE DEF k
    <3> QED BY <2>2, <2>3, <2>4, Posts
  <2> QED BY <1>0, <2>1, <2>5, RoundFits
<1>6. CASE SdlAckTimeout(h)
  <2>1. /\ Round(h, "ack_timeout") /\ UNCHANGED <<in_buf, delivered>>
        /\ send_frame(h, "ack", 0, 0)
    BY <1>6 DEF SdlAckTimeout, recvVars
  <2>2. /\ timer' \in [Hosts -> SUBSET Slots]
        /\ OnHosts(sdl_to_spl') /\ \A g \in Hosts : FrameFits(sdl_to_spl'[g])
    BY <2>1, Posts, ZeroFits
  <2> QED BY <1>0, <2>1, <2>2, RoundFits
<1>7. CASE SdlOtherEvent(h)
  BY <1>0, <1>7, RoundFits DEF SdlOtherEvent, recvVars
<1> QED BY <1>1, <1>2, <1>3, <1>4, <1>5, <1>6, <1>7 DEF Sdl

LEMMA FetchFits ==
    ASSUME SlotInv, SdlFetch
    PROVE  SlotInv'
<1> DEFINE s == next_frame_to_send["sender"]
<1>0. "sender" \in Hosts /\ s \in 0 .. MAX_SEQ /\ s \in Nat /\ fetched \in Nat
  BY Window DEF SlotInv, Hosts
<1>1. /\ fetched' = fetched + 1
      /\ next_frame_to_send' = [next_frame_to_send EXCEPT !["sender"] = inc(s)]
      /\ out_buf' = [out_buf EXCEPT !["sender"][s % NR_BUFS] = fetched']
      /\ send_frame("sender", "data", s, fetched')
      /\ UNCHANGED <<oldest_frame, in_buf, delivered, spl_to_sdl>>
  BY DEF SdlFetch, recvVars
<1>2. Fits(fetched', s % NR_BUFS) /\ s % NR_BUFS \in Slots
  BY <1>0, <1>1, SlotMod DEF SlotInv, Fits
<1>3. /\ timer' \in [Hosts -> SUBSET Slots]
      /\ OnHosts(sdl_to_spl') /\ \A g \in Hosts : FrameFits(sdl_to_spl'[g])
  BY <1>0, <1>1, <1>2, Posts
<1>4. /\ out_buf' \in [Hosts -> [Slots -> Nat]]
      /\ \A h \in Hosts, k \in Slots : Fits(out_buf'[h][k], k)
  BY <1>0, <1>1, <1>2 DEF SlotInv
<1>5. /\ OnHosts(next_frame_to_send') /\ next_frame_to_send'["sender"] = inc(s)
  BY <1>0, <1>1 DEF SlotInv, OnHosts
<1>6. inc(s) \in 0 .. MAX_SEQ /\ inc(s) % NR_BUFS = fetched' % NR_BUFS
  BY <1>0, <1>1, IncMod, ModSucc DEF SlotInv
<1> QED BY <1>0, <1>1, <1>3, <1>4, <1>5, <1>6 DEF SlotInv

LEMMA SplFits ==
    ASSUME SlotInv, NEW h \in Hosts, Spl(h)
    PROVE  SlotInv'
<1>1. /\ sdl_to_spl' = [sdl_to_spl EXCEPT ![Peer(h)] = NoFrame]
      /\ UNCHANGED <<fetched, oldest_frame, timer, next_frame_to_send, out_buf, in_buf,
                     delivered>>
  BY DEF Spl, SplLostFrame, SplDamagedFrame, SplPassFrame, SplTakesFrame, snlVars, sdlVars,
         sendVars, recvVars
<1>2. \/ spl_to_sdl' = spl_to_sdl
      \/ spl_to_sdl' = [spl_to_sdl EXCEPT ![h] = sdl_to_spl[Peer(h)]]
  BY DEF Spl, SplLostFrame, SplDamagedFrame, SplPassFrame
<1>3. Peer(h) \in Hosts
  BY DEF Peer, Hosts
<1>4. OnHosts(sdl_to_spl') /\ \A g \in Hosts : FrameFits(sdl_to_spl'[g])
  BY <1>1, <1>3, NoFrameFits DEF SlotInv, OnHosts
<1>5. OnHosts(spl_to_sdl') /\ \A g \in Hosts : FrameFits(spl_to_sdl'[g])
  BY <1>2, <1>3 DEF SlotInv, OnHosts
<1> QED BY <1>1, <1>4, <1>5 DEF SlotInv

\* SlotInv is an invariant of the protocol, whatever an uninitialised event is: what
\* send_frame and the cases of Datalink_Layer post, store and deliver is of the right slot.
THEOREM SlotInductive == Spec => []SlotInv
<1>1. Init => SlotInv
  BY SlotInit
<1>2. ASSUME SlotInv, [Next]_vars PROVE SlotInv'
  <2>1. CASE SnlWrites \/ SnlGoes \/ UNCHANGED vars
    <3>1. UNCHANGED <<fetched, sdlVars, sdl_to_spl, spl_to_sdl>>
      BY <2>1 DEF SnlWrites, SnlGoes, vars, snlVars
    <3> QED BY <1>2, <3>1 DEF sdlVars, sendVars, recvVars, SlotInv, OnHosts
  <2>2. CASE SdlFetch
    BY <1>2, <2>2, FetchFits
  <2>3. CASE \E h \in Hosts : Sdl(h) \/ Spl(h)
    BY <1>2, <2>3, SdlFits, SplFits
  <2> QED BY <1>2, <2>1, <2>2, <2>3 DEF Next
<1> QED BY <1>1, <1>2, PTL DEF Spec

\* However often frames go out again under the number of their timer instead of their own,
\* and however far the sender runs beyond its window, a packet is stored only in the slot
\* of its number (sender6.c, send_frame and the case timeout).
THEOREM StoredInRightSlot == Spec => []RightSlot
<1>1. SlotInv => RightSlot
  BY DEF SlotInv, Fits, RightSlot
<1> QED BY <1>1, SlotInductive, PTL
-----------------------------------------------------------------------------
(* What is stored and delivered never goes back *)

\* The frame f carries a packet for slot k.
For(f, k) == f.kind = "data" /\ f.seq % NR_BUFS = k

\* Host h posts f, a frame without a packet or with the one of its slot.
Sent(h, f) == /\ sdl_to_spl' = [sdl_to_spl EXCEPT ![h] = f]
              /\ f.kind = "data" => f.info = out_buf[h][f.seq % NR_BUFS]

\* On its way from the buffer of one host to that of the other, slot by slot, no packet
\* is overtaken by an older one.
ChainInv ==
    /\ \A h \in Hosts, k \in Slots : out_buf[h][k] =< fetched
    /\ \A h \in Hosts : delivered[h] =< in_buf[h][1]
    /\ \A h \in Hosts, k \in Slots :
          /\ in_buf[h][k] =< out_buf[Peer(h)][k]
          /\ For(spl_to_sdl[h], k) => /\ in_buf[h][k] =< spl_to_sdl[h].info
                                      /\ spl_to_sdl[h].info =< out_buf[Peer(h)][k]
          /\ For(sdl_to_spl[Peer(h)], k) => /\ in_buf[h][k] =< sdl_to_spl[Peer(h)].info
                                            /\ sdl_to_spl[Peer(h)].info =< out_buf[Peer(h)][k]
          /\ For(spl_to_sdl[h], k) /\ For(sdl_to_spl[Peer(h)], k)
                => spl_to_sdl[h].info =< sdl_to_spl[Peer(h)].info

\* Everything that is compared is a number.
LEMMA ChainTypes ==
    ASSUME SlotInv
    PROVE  /\ fetched \in Nat /\ 1 \in Slots
           /\ \A h \in Hosts, k \in Slots : in_buf[h][k] \in Nat /\ out_buf[h][k] \in Nat
           /\ \A h \in Hosts : /\ delivered[h] \in Nat /\ Peer(h) \in Hosts /\ Peer(Peer(h)) = h
                              /\ spl_to_sdl[h].info \in Nat /\ sdl_to_spl[h].info \in Nat
                              /\ spl_to_sdl[h].seq % NR_BUFS \in Slots
<1>1. 1 \in Slots
  BY Window DEF Slots
<1>2. \A h \in Hosts : Peer(h) \in Hosts /\ Peer(Peer(h)) = h
  BY DEF Hosts, Peer
<1>3. \A h \in Hosts : /\ spl_to_sdl[h].info \in Nat /\ sdl_to_spl[h].info \in Nat
                     /\ spl_to_sdl[h].seq % NR_BUFS \in Slots /\ delivered[h] \in Nat
  BY SlotMod DEF SlotInv, FrameFits, Fits
<1> QED BY <1>1, <1>2, <1>3 DEF SlotInv

\* Every change of sdl_to_spl by a data-link process: nothing, a frame without a packet,
\* or the packet the buffer holds for the slot of its number.
LEMMA PostChain ==
    ASSUME SlotInv, ChainInv, NEW h \in Hosts,
           UNCHANGED <<in_buf, delivered, spl_to_sdl, out_buf, fetched>>,
           sdl_to_spl' = sdl_to_spl \/ \E f : Sent(h, f)
    PROVE  ChainInv'
<1>1. CASE sdl_to_spl' = sdl_to_spl
  BY <1>1 DEF ChainInv, For
<1>2. CASE \E f : Sent(h, f)
  <2>1. PICK f : Sent(h, f)
    BY <1>2
  <2>2. \A g \in Hosts : sdl_to_spl'[g] = IF g = h THEN f ELSE sdl_to_spl[g]
    BY <2>1 DEF Sent, SlotInv, OnHosts
  <2>3. \A k : For(f, k) => f.info = out_buf[h][k]
    BY <2>1 DEF Sent, For
  <2>4. ASSUME NEW g \in Hosts, NEW k \in Slots
        PROVE  /\ For(sdl_to_spl'[Peer(g)], k) => /\ in_buf[g][k] =< sdl_to_spl'[Peer(g)].info
                                                  /\ sdl_to_spl'[Peer(g)].info =< out_buf[Peer(g)][k]
               /\ For(spl_to_sdl[g], k) /\ For(sdl_to_spl'[Peer(g)], k)
                     => spl_to_sdl[g].info =< sdl_to_spl'[Peer(g)].info
    <3>1. CASE Peer(g) = h
      <4>1. sdl_to_spl'[Peer(g)] = f
        BY <2>2, <3>1
      <4>2. For(f, k) => f.info = out_buf[Peer(g)][k]
        BY <2>3, <3>1
      <4>3. out_buf[Peer(g)][k] \in Nat
        BY ChainTypes
      <4> QED BY <4>1, <4>2, <4>3 DEF ChainInv
    <3>2. CASE Peer(g) # h
      <4>1. sdl_to_spl'[Peer(g)] = sdl_to_spl[Peer(g)]
        BY <2>2, <3>2, ChainTypes
      <4> QED BY <4>1 DEF ChainInv
    <3> QED BY <3>1, <3>2
  <2> QED BY <2>4 DEF ChainInv
<1> QED BY <1>1, <1>2

\* What is stored is what spl_to_sdl holds, for its slot.
LEMMA StoreChain ==
    ASSUME SlotInv, ChainInv, NEW h \in Hosts, spl_to_sdl[h].kind = "data",
           AcceptData(h, spl_to_sdl[h]),
           UNCHANGED <<spl_to_sdl, out_buf, fetched>>,
           \/ sdl_to_spl' = sdl_to_spl
           \/ \E f : /\ sdl_to_spl' = [sdl_to_spl EXCEPT ![h] = f] /\ f.kind # "data"
    PROVE  /\ ChainInv'
           /\ \A g \in Hosts : /\ delivered[g] =< delivered'[g]
                              /\ \A k \in Slots : in_buf[g][k] =< in_buf'[g][k]
<1> DEFINE f == spl_to_sdl[h]
           i == f.seq % NR_BUFS
<1>1. i \in Slots /\ f.info \in Nat /\ For(f, i)
  BY ChainTypes DEF For
<1>2. in_buf' = in_buf \/ in_buf' = [in_buf EXCEPT ![h][i] = f.info]
  BY DEF AcceptData, SlotOf
<1>3. \/ delivered' = delivered
      \/ delivered' = [delivered EXCEPT ![h] = in_buf'[h][1]]
  BY DEF AcceptData, SlotInv, OnHosts
<1> HIDE DEF f, i
<1>4. ASSUME NEW g \in Hosts, NEW k \in Slots
      PROVE  /\ in_buf[g][k] =< in_buf'[g][k] /\ in_buf'[g][k] \in Nat
             /\ \/ in_buf'[g][k] = in_buf[g][k]
                \/ g = h /\ k = i /\ in_buf'[g][k] = f.info
  <2>1. in_buf \in [Hosts -> [Slots -> Nat]]
    BY DEF SlotInv
  <2>2. in_buf[h][i] =< f.info
    BY <1>1 DEF ChainInv, f
  <2>3. \/ in_buf'[g][k] = in_buf[g][k]
        \/ g = h /\ k = i /\ in_buf'[g][k] = f.info
    BY <1>2, <2>1
  <2> QED BY <1>1, <2>1, <2>2, <2>3
<1>5. ASSUME NEW g \in Hosts
      PROVE  delivered[g] =< delivered'[g] /\ delivered'[g] =< in_buf'[g][1]
  <2>1. delivered[g] \in Nat /\ in_buf[g][1] \in Nat /\ delivered[g] =< in_buf[g][1]
        /\ in_buf[g][1] =< in_buf'[g][1] /\ in_buf'[g][1] \in Nat
    BY <1>4, ChainTypes DEF ChainInv
  <2>2. delivered'[g] = delivered[g] \/ delivered'[g] = in_buf'[g][1]
    BY <1>3 DEF SlotInv, OnHosts
  <2> QED BY <2>1, <2>2
<1>6. \A g \in Hosts : \A k : For(sdl_to_spl'[g], k) => sdl_to_spl'[g] = sdl_to_spl[g]
  BY DEF For, SlotInv, OnHosts
<1>7. ASSUME NEW g \in Hosts, NEW k \in Slots
      PROVE  /\ in_buf'[g][k] =< out_buf[Peer(g)][k]
             /\ For(spl_to_sdl[g], k) => in_buf'[g][k] =< spl_to_sdl[g].info
             /\ For(sdl_to_spl'[Peer(g)], k) => in_buf'[g][k] =< sdl_to_spl'[Peer(g)].info
  <2>0. Peer(g) \in Hosts
    BY ChainTypes
  <2>1. CASE in_buf'[g][k] = in_buf[g][k]
    BY <1>6, <2>0, <2>1 DEF ChainInv
  <2>2. CASE g = h /\ k = i /\ in_buf'[g][k] = f.info
    <3>1. in_buf'[g][k] = spl_to_sdl[g].info /\ For(spl_to_sdl[g], k)
      BY <1>1, <2>2 DEF f
    <3>2. spl_to_sdl[g].info \in Nat
      BY ChainTypes
    <3>3. For(sdl_to_spl'[Peer(g)], k) => sdl_to_spl'[Peer(g)] = sdl_to_spl[Peer(g)]
      BY <1>6, <2>0
    <3> QED BY <3>1, <3>2, <3>3 DEF ChainInv
  <2> QED BY <1>4, <2>1, <2>2
<1>8. \A g \in Hosts : Peer(g) \in Hosts
  BY ChainTypes
<1>9. ChainInv'
  BY <1>5, <1>6, <1>7, <1>8 DEF ChainInv, For
<1> QED BY <1>4, <1>5, <1>9

\* The packet fetched is newer than all that was.
LEMMA FetchChain ==
    ASSUME SlotInv, ChainInv, SdlFetch
    PROVE  ChainInv'
<1> DEFINE s == next_frame_to_send["sender"]
           i == s % NR_BUFS
           f == [kind |-> "data", seq |-> s, info |-> fetched',
                 ack |-> (frame_expected["sender"] + MAX_SEQ) % (MAX_SEQ + 1)]
<1>0. "sender" \in Hosts /\ i \in Slots /\ fetched \in Nat
  BY SlotMod, Window DEF SlotInv, Hosts
<1>1. /\ fetched' = fetched + 1
      /\ out_buf' = [out_buf EXCEPT !["sender"][i] = fetched']
      /\ sdl_to_spl' = [sdl_to_spl EXCEPT !["sender"] = f]
      /\ UNCHANGED <<in_buf, delivered, spl_to_sdl>>
  BY DEF SdlFetch, recvVars, send_frame, to_physical_layer
<1>2. f.info = fetched' /\ \A k : For(f, k) => k = i
  BY DEF For
<1> HIDE DEF f, i, s
<1>3. ASSUME NEW g \in Hosts, NEW k \in Slots
      PROVE  /\ out_buf'[g][k] \in Nat /\ out_buf[g][k] =< out_buf'[g][k]
             /\ out_buf'[g][k] =< fetched' /\ out_buf[g][k] =< fetched
             /\ g = "sender" /\ k = i => out_buf'[g][k] = fetched'
             /\ out_buf[g][k] \in Nat
  BY <1>0, <1>1 DEF SlotInv, ChainInv
<1>4. \A g \in Hosts : sdl_to_spl'[g] = IF g = "sender" THEN f ELSE sdl_to_spl[g]
  BY <1>1 DEF SlotInv, OnHosts
<1>5. ASSUME NEW g \in Hosts, NEW k \in Slots
      PROVE  /\ in_buf[g][k] =< out_buf'[Peer(g)][k]
             /\ For(spl_to_sdl[g], k) => spl_to_sdl[g].info =< out_buf'[Peer(g)][k]
             /\ For(sdl_to_spl'[Peer(g)], k) => /\ in_buf[g][k] =< sdl_to_spl'[Peer(g)].info
                                                /\ sdl_to_spl'[Peer(g)].info =< out_buf'[Peer(g)][k]
             /\ For(spl_to_sdl[g], k) /\ For(sdl_to_spl'[Peer(g)], k)
                   => spl_to_sdl[g].info =< sdl_to_spl'[Peer(g)].info
  <2> DEFINE o == out_buf[Peer(g)][k]
             o1 == out_buf'[Peer(g)][k]
  <2>1. /\ Peer(g) \in Hosts /\ in_buf[g][k] \in Nat /\ spl_to_sdl[g].info \in Nat
        /\ sdl_to_spl[Peer(g)].info \in Nat
        /\ o \in Nat /\ o1 \in Nat /\ o =< o1 /\ o =< fetched
        /\ in_buf[g][k] =< o /\ (For(spl_to_sdl[g], k) => spl_to_sdl[g].info =< o)
        /\ (For(sdl_to_spl[Peer(g)], k) => sdl_to_spl[Peer(g)].info =< o)
    BY <1>3, ChainTypes DEF ChainInv
  <2>2. /\ For(sdl_to_spl[Peer(g)], k) => in_buf[g][k] =< sdl_to_spl[Peer(g)].info
        /\ For(spl_to_sdl[g], k) /\ For(sdl_to_spl[Peer(g)], k)
               => spl_to_sdl[g].info =< sdl_to_spl[Peer(g)].info
    BY DEF ChainInv
  <2>3. CASE Peer(g) = "sender"
    <3>1. sdl_to_spl'[Peer(g)] = f
      BY <1>4, <2>1, <2>3
    <3>2. For(f, k) => o1 = fetched + 1
      BY <1>1, <1>2, <1>3, <2>1, <2>3
    <3> HIDE DEF o, o1
    <3> QED BY <1>0, <1>1, <1>2, <2>1, <3>1, <3>2 DEF o1
  <2>4. CASE Peer(g) # "sender"
    <3>1. sdl_to_spl'[Peer(g)] = sdl_to_spl[Peer(g)]
      BY <1>4, <2>1, <2>4
    <3> HIDE DEF o, o1
    <3> QED BY <2>1, <2>2, <3>1 DEF o1
  <2> QED BY <2>3, <2>4
<1> QED BY <1>1, <1>3, <1>5 DEF ChainInv

\* A frame goes from one file to the other, or is lost.
LEMMA SplChain ==
    ASSUME SlotInv, ChainInv, NEW h \in Hosts, Spl(h)
    PROVE  ChainInv' /\ UNCHANGED <<in_buf, delivered>>
<1>1. /\ sdl_to_spl' = [sdl_to_spl EXCEPT ![Peer(h)] = NoFrame]
      /\ UNCHANGED <<fetched, out_buf, in_buf, delivered>>
  BY DEF Spl, SplLostFrame, SplDamagedFrame, SplPassFrame, SplTakesFrame, snlVars, sdlVars,
         sendVars, recvVars
<1>2. \/ spl_to_sdl' = spl_to_sdl
      \/ spl_to_sdl' = [spl_to_sdl EXCEPT ![h] = sdl_to_spl[Peer(h)]]
  BY DEF Spl, SplLostFrame, SplDamagedFrame, SplPassFrame
<1>3. \A k : ~For(NoFrame, k)
  BY DEF For, NoFrame
<1>4. ASSUME NEW g \in Hosts
      PROVE  /\ g = h => sdl_to_spl'[Peer(g)] = NoFrame
             /\ g # h => sdl_to_spl'[Peer(g)] = sdl_to_spl[Peer(g)]
             /\ \/ spl_to_sdl'[g] = spl_to_sdl[g]
                \/ g = h /\ spl_to_sdl'[g] = sdl_to_spl[Peer(g)]
  <2>1. Peer(g) \in Hosts /\ Peer(h) \in Hosts /\ (g # h => Peer(g) # Peer(h))
    BY DEF Peer, Hosts
  <2>2. /\ g = h => sdl_to_spl'[Peer(g)] = NoFrame
        /\ g # h => sdl_to_spl'[Peer(g)] = sdl_to_spl[Peer(g)]
    BY <1>1, <2>1 DEF SlotInv, OnHosts
  <2>3. \/ spl_to_sdl'[g] = spl_to_sdl[g]
        \/ g = h /\ spl_to_sdl'[g] = sdl_to_spl[Peer(g)]
    <3>1. CASE spl_to_sdl' = spl_to_sdl
      BY <3>1
    <3>2. CASE spl_to_sdl' = [spl_to_sdl EXCEPT ![h] = sdl_to_spl[Peer(h)]]
      BY <3>2 DEF SlotInv, OnHosts
    <3> QED BY <1>2, <3>1, <3>2
  <2> QED BY <2>2, <2>3, Zenon
<1>5. ASSUME NEW g \in Hosts, NEW k \in Slots
      PROVE  /\ For(spl_to_sdl'[g], k) => /\ in_buf[g][k] =< spl_to_sdl'[g].info
                                          /\ spl_to_sdl'[g].info =< out_buf[Peer(g)][k]
             /\ For(sdl_to_spl'[Peer(g)], k) => /\ in_buf[g][k] =< sdl_to_spl'[Peer(g)].info
                                                /\ sdl_to_spl'[Peer(g)].info =< out_buf[Peer(g)][k]
             /\ For(spl_to_sdl'[g], k) /\ For(sdl_to_spl'[Peer(g)], k)
                   => spl_to_sdl'[g].info =< sdl_to_spl'[Peer(g)].info
  <2>1. CASE g = h
    <3>1. ~For(sdl_to_spl'[Peer(g)], k)
      BY <1>3, <1>4, <2>1
    <3>2. CASE spl_to_sdl'[g] = spl_to_sdl[g]
      BY <3>1, <3>2 DEF ChainInv
    <3>3. CASE spl_to_sdl'[g] = sdl_to_spl[Peer(g)]
      BY <3>1, <3>3 DEF ChainInv
    <3> QED BY <1>4, <3>2, <3>3
  <2>2. CASE g # h
    <3>1. sdl_to_spl'[Peer(g)] = sdl_to_spl[Peer(g)] /\ spl_to_sdl'[g] = spl_to_sdl[g]
      BY <1>4, <2>2
    <3> QED BY <3>1 DEF ChainInv
  <2> QED BY <2>1, <2>2
<1> QED BY <1>1, <1>5 DEF ChainInv

LEMMA SdlChain ==
    ASSUME SlotInv, ChainInv, NEW h \in Hosts, Sdl(h)
    PROVE  /\ ChainInv'
           /\ \A g \in Hosts : /\ delivered[g] =< delivered'[g]
                              /\ \A k \in Slots : in_buf[g][k] =< in_buf'[g][k]
<1> DEFINE Stores == \A g \in Hosts : /\ delivered[g] =< delivered'[g]
                                     /\ \A k \in Slots : in_buf[g][k] =< in_buf'[g][k]
<1>0. UNCHANGED <<in_buf, delivered>> => Stores
  BY ChainTypes
<1>1. UNCHANGED <<fetched, out_buf, spl_to_sdl>>
  BY DEF Sdl, SdlReady, SdlDataArrival, SdlOtherArrival, SdlCksumErr, SdlTimeout, SdlAckTimeout,
         SdlOtherEvent, Round
<1>2. CASE SdlDataArrival(h)
  <2>1. AcceptData(h, spl_to_sdl[h]) /\ spl_to_sdl[h].kind = "data"
    BY <1>2 DEF SdlDataArrival
  <2>2. \/ sdl_to_spl' = sdl_to_spl
        \/ \E f : /\ sdl_to_spl' = [sdl_to_spl EXCEPT ![h] = f] /\ f.kind # "data"
    <3> DEFINE f == [kind |-> "nak", seq |-> 0, info |-> 0,
                     ack |-> (frame_expected[h] + MAX_SEQ) % (MAX_SEQ + 1)]
    <3>1. f.kind # "data"
      OBVIOUS
    <3>2. sdl_to_spl' = sdl_to_spl \/ sdl_to_spl' = [sdl_to_spl EXCEPT ![h] = f]
      BY <1>2 DEF SdlDataArrival, to_physical_layer
    <3> HIDE DEF f
    <3> QED BY <3>1, <3>2
  <2> HIDE DEF Stores
  <2> QED BY <1>1, <2>1, <2>2, StoreChain DEF Stores
<1>3. CASE \/ SdlReady(h) \/ SdlOtherArrival(h) \/ SdlCksumErr(h) \/ SdlTimeout(h)
           \/ SdlAckTimeout(h) \/ SdlOtherEvent(h)
  <2>1. UNCHANGED <<in_buf, delivered>>
    BY <1>3 DEF SdlReady, SdlOtherArrival, SdlCksumErr, SdlTimeout, SdlAckTimeout,
                SdlOtherEvent, recvVars
  <2>2. sdl_to_spl' = sdl_to_spl \/ \E f : Sent(h, f)
    <3>1. ASSUME NEW kind, NEW nr, NEW info, send_frame(h, kind, nr, info),
                 kind = "data" => info = out_buf[h][nr % NR_BUFS]
          PROVE  \E f : Sent(h, f)
      <4> DEFINE f == [kind |-> kind, seq |-> nr, info |-> info,
                       ack |-> (frame_expected[h] + MAX_SEQ) % (MAX_SEQ + 1)]
      <4>1. f.kind = "data" => f.info = out_buf[h][f.seq % NR_BUFS]
        BY <3>1
      <4>2. sdl_to_spl' = [sdl_to_spl EXCEPT ![h] = f]
        BY <3>1 DEF send_frame, to_physical_layer
      <4> HIDE DEF f
      <4> QED BY <4>1, <4>2 DEF Sent
    <3>2. CASE SdlReady(h) \/ SdlOtherArrival(h) \/ SdlOtherEvent(h)
      BY <3>2 DEF SdlReady, SdlOtherArrival, SdlOtherEvent
    <3>3. CASE SdlCksumErr(h)
      BY <3>1, <3>3 DEF SdlCksumErr
    <3>4. CASE SdlTimeout(h)
      BY <3>1, <3>4 DEF SdlTimeout
    <3>5. CASE SdlAckTimeout(h)
      BY <3>1, <3>5 DEF SdlAckTimeout
    <3> QED BY <1>3, <3>2, <3>3, <3>4, <3>5
  <2> HIDE DEF Stores
  <2> QED BY <1>0, <1>1, <2>1, <2>2, PostChain DEF Stores
<1> QED BY <1>2, <1>3 DEF Sdl

\* Whatever is lost, damaged or sent again under another number, what a host stores in a
\* slot and what it delivers never goes back to an older packet (sender6.c, the loop of
\* the case frame_arrival and the case timeout).
THEOREM StoredNeverGoesBack == Spec => NeverGoesBack
<1> DEFINE Stores == \A g \in Hosts : /\ delivered[g] =< delivered'[g]
                                     /\ \A k \in Slots : in_buf[g][k] =< in_buf'[g][k]
<1>1. Init => ChainInv
  <2> SUFFICES ASSUME Init PROVE ChainInv
    OBVIOUS
  <2>1. /\ fetched = 0 /\ delivered = [h \in Hosts |-> 0]
        /\ in_buf = [h \in Hosts |-> [k \in Slots |-> 0]]
        /\ out_buf = [h \in Hosts |-> [k \in Slots |-> 0]]
        /\ sdl_to_spl = [h \in Hosts |-> NoFrame] /\ spl_to_sdl = [h \in Hosts |-> NoFrame]
    BY DEF Init, All
  <2>2. \A k : ~For(NoFrame, k)
    BY DEF For, NoFrame
  <2>3. /\ 1 \in Slots /\ \A h \in Hosts : Peer(h) \in Hosts
    BY SlotInit, ChainTypes
  <2> QED BY <2>1, <2>2, <2>3 DEF ChainInv
<1>2. SlotInv /\ ChainInv /\ [Next]_vars => ChainInv' /\ Stores
  <2> SUFFICES ASSUME SlotInv, ChainInv, [Next]_vars PROVE ChainInv' /\ Stores
    OBVIOUS
  <2>0. UNCHANGED <<in_buf, delivered>> => Stores
    BY ChainTypes
  <2>1. CASE SnlWrites \/ SnlGoes \/ UNCHANGED vars
    <3>1. UNCHANGED <<fetched, in_buf, out_buf, delivered, sdl_to_spl, spl_to_sdl>>
      BY <2>1 DEF SnlWrites, SnlGoes, vars, snlVars, sdlVars, sendVars, recvVars
    <3> QED BY <2>0, <3>1 DEF ChainInv, For
  <2>2. CASE SdlFetch
    <3>1. UNCHANGED <<in_buf, delivered>>
      BY <2>2 DEF SdlFetch, recvVars
    <3> QED BY <2>0, <2>2, <3>1, FetchChain
  <2>3. CASE \E h \in Hosts : Sdl(h)
    BY <2>3, SdlChain
  <2>4. CASE \E h \in Hosts : Spl(h)
    BY <2>0, <2>4, SplChain
  <2> QED BY <2>1, <2>2, <2>3, <2>4 DEF Next
<1>3. Spec => [](SlotInv /\ ChainInv)
  BY <1>1, <1>2, SlotInductive, PTL DEF Spec
<1>4. SlotInv /\ ChainInv /\ [Next]_vars
         => [\A h \in Hosts : /\ delivered[h] =< delivered'[h]
                              /\ \A k \in Slots : in_buf[h][k] =< in_buf'[h][k]]_vars
  BY <1>2
<1> QED BY <1>3, <1>4, PTL DEF Spec, NeverGoesBack
-----------------------------------------------------------------------------
(* Where the sender stops *)

\* The numbers of the window are numbers, whatever the frames acknowledge.
NumbersInv ==
    /\ nbuffered \in [Hosts -> Int]
    /\ ack_expected \in [Hosts -> Int] /\ frame_expected \in [Hosts -> Int]
    /\ OnHosts(sdl) /\ OnHosts(sdl_to_spl) /\ OnHosts(spl_to_sdl)
    /\ \A h \in Hosts : sdl_to_spl[h].ack \in Int /\ spl_to_sdl[h].ack \in Int

\* While SDL waits for a packet the gate is as the round that took the event has left
\* it, or open.
GateInv == sdl["sender"] = "fetch" /\ ~network_write => nbuffered["sender"] > NR_BUFS

StopInv == NumbersInv /\ GateInv

\* The acknowledgement every frame carries.
LEMMA AckIsNumber ==
    ASSUME NEW n \in Int PROVE (n + MAX_SEQ) % (MAX_SEQ + 1) \in Int
  BY Window

\* What is posted has a number for its acknowledgement.
LEMMA PostsNumber ==
    ASSUME NumbersInv, NEW h \in Hosts, NEW f, f.ack \in Int, to_physical_layer(h, f)
    PROVE  OnHosts(sdl_to_spl') /\ \A g \in Hosts : sdl_to_spl'[g].ack \in Int
  BY DEF NumbersInv, OnHosts, to_physical_layer

LEMMA SendsNumber ==
    ASSUME NumbersInv, NEW h \in Hosts, NEW kind, NEW nr, NEW info,
           send_frame(h, kind, nr, info)
    PROVE  OnHosts(sdl_to_spl') /\ \A g \in Hosts : sdl_to_spl'[g].ack \in Int
<1> DEFINE a == (frame_expected[h] + MAX_SEQ) % (MAX_SEQ + 1)
           f == [kind |-> kind, seq |-> nr, info |-> info, ack |-> a]
<1>1. a \in Int
  BY AckIsNumber DEF NumbersInv
<1>2. to_physical_layer(h, f) /\ f.ack = a
  BY DEF send_frame
<1> HIDE DEF f, a
<1>3. QED
  BY <1>1, <1>2, PostsNumber

\* A round that does not leave SDL waiting for a packet keeps the invariant.
LEMMA RoundNumbers ==
    ASSUME StopInv, NEW h \in Hosts, NEW e, Round(h, e),
           sdl' = [sdl EXCEPT ![h] = sdl'[h]], h = "sender" => sdl'[h] # "fetch",
           nbuffered' \in [Hosts -> Int], ack_expected' \in [Hosts -> Int],
           nbuffered' = [nbuffered EXCEPT ![h] = nbuffered'[h]],
           frame_expected' \in [Hosts -> Int],
           OnHosts(sdl_to_spl'), \A g \in Hosts : sdl_to_spl'[g].ack \in Int
    PROVE  StopInv'
<1>1. spl_to_sdl' = spl_to_sdl /\ (h = "receiver" => UNCHANGED network_write)
  BY DEF Round, Gate
<1>2. NumbersInv'
  BY <1>1 DEF StopInv, NumbersInv, OnHosts
<1>3. CASE h = "sender"
  BY <1>2, <1>3 DEF StopInv, NumbersInv, GateInv
<1>4. CASE h = "receiver"
  <2>1. sdl'["sender"] = sdl["sender"] /\ nbuffered'["sender"] = nbuffered["sender"]
    BY <1>4 DEF StopInv, NumbersInv, OnHosts, Hosts
  <2>2. QED
    BY <1>1, <1>2, <1>4, <2>1 DEF StopInv, GateInv
<1>5. QED
  BY <1>3, <1>4 DEF Hosts

\* An acknowledgement takes a number of frames out of the window.
LEMMA TakesNumber ==
    ASSUME NumbersInv, NEW h \in Hosts, NEW a \in Int, TakeAck(h, a)
    PROVE  /\ nbuffered' \in [Hosts -> Int] /\ ack_expected' \in [Hosts -> Int]
           /\ nbuffered' = [nbuffered EXCEPT ![h] = nbuffered'[h]]
<1> DEFINE count == (a + MAX_SEQ + 2 - ack_expected[h]) % (MAX_SEQ + 1)
<1>1. count \in Int /\ inc(a) \in Int /\ nbuffered[h] \in Int
  BY Window DEF NumbersInv, inc
<1>2. \/ /\ ack_expected' = [ack_expected EXCEPT ![h] = inc(a)]
         /\ nbuffered' = [nbuffered EXCEPT ![h] = nbuffered[h] - count]
      \/ UNCHANGED <<ack_expected, nbuffered>>
  BY DEF TakeAck
<1> HIDE DEF count
<1>3. QED
  BY <1>1, <1>2 DEF NumbersInv

LEMMA AcceptsNumber ==
    ASSUME NumbersInv, NEW h \in Hosts, NEW f, AcceptData(h, f)
    PROVE  frame_expected' \in [Hosts -> Int]
<1>1. PICK run \in SUBSET Slots :
          frame_expected' = [frame_expected EXCEPT ![h] = (@ + Cardinality(run)) % (MAX_SEQ + 1)]
  BY DEF AcceptData
<1>2. Cardinality(run) \in Nat
  <2>1. IsFiniteSet(Slots)
    BY Window, FS_Interval DEF Slots
  <2>2. QED
    BY <1>1, <2>1, FS_Subset, FS_CardinalityType
<1>3. frame_expected[h] \in Int /\ (frame_expected[h] + Cardinality(run)) % (MAX_SEQ + 1) \in Int
  BY <1>2, Window DEF NumbersInv
<1>4. QED
  BY <1>1, <1>3 DEF NumbersInv

LEMMA SdlStops ==
    ASSUME StopInv, NEW h \in Hosts, Sdl(h)
    PROVE  StopInv'
<1>0. /\ NumbersInv /\ GateInv
      /\ nbuffered \in [Hosts -> Int] /\ ack_expected \in [Hosts -> Int]
      /\ frame_expected \in [Hosts -> Int]
      /\ sdl = [sdl EXCEPT ![h] = sdl[h]]
      /\ nbuffered = [nbuffered EXCEPT ![h] = nbuffered[h]]
      /\ OnHosts(sdl_to_spl) /\ \A g \in Hosts : sdl_to_spl[g].ack \in Int
  BY DEF StopInv, NumbersInv, OnHosts
<1>1. CASE SdlReady(h)
  <2>1. /\ nbuffered' = [nbuffered EXCEPT ![h] = @ + 1]
        /\ sdl' = [sdl EXCEPT ![h] = IF h = "sender" THEN "fetch" ELSE "exited"]
        /\ UNCHANGED <<ack_expected, frame_expected, sdl_to_spl, spl_to_sdl>>
        /\ Gate(h)
    BY <1>1 DEF SdlReady, SdlGoto, Round, recvVars
  <2>2. nbuffered' \in [Hosts -> Int]
    BY <1>0, <2>1
  <2>3. NumbersInv'
    BY <1>0, <2>1, <2>2 DEF NumbersInv, OnHosts
  <2>4. CASE h = "sender"
    <3>1. nbuffered'[h] = nbuffered[h] + 1 /\ nbuffered[h] \in Int
      BY <1>0, <2>1
    <3>2. ~network_write' => nbuffered'["sender"] > NR_BUFS
      <4>1. ~network_write' => ~(nbuffered[h] < NR_BUFS)
        BY <2>1, <2>4, Zenon DEF Gate
      <4>2. QED
        BY <2>4, <3>1, <4>1, Window
    <3>3. QED
      BY <2>3, <3>2 DEF StopInv, GateInv
  <2>5. CASE h = "receiver"
    <3>1. /\ UNCHANGED network_write /\ sdl'["sender"] = sdl["sender"]
          /\ nbuffered'["sender"] = nbuffered["sender"]
      BY <1>0, <2>1, <2>5 DEF Gate, NumbersInv, OnHosts, Hosts
    <3>2. QED
      BY <1>0, <2>3, <3>1 DEF StopInv, GateInv
  <2>6. QED
    BY <2>4, <2>5 DEF Hosts
<1>2. CASE SdlDataArrival(h)
  <2>1. /\ Round(h, "frame_arrival") /\ TakeAck(h, spl_to_sdl[h].ack)
        /\ AcceptData(h, spl_to_sdl[h]) /\ UNCHANGED sdl /\ sdl[h] = "loop"
    BY <1>2 DEF SdlDataArrival, Round
  <2>2. spl_to_sdl[h].ack \in Int
    BY <1>0 DEF NumbersInv
  <2>3. OnHosts(sdl_to_spl') /\ \A g \in Hosts : sdl_to_spl'[g].ack \in Int
    <3> DEFINE a == (frame_expected[h] + MAX_SEQ) % (MAX_SEQ + 1)
               f == [kind |-> "nak", seq |-> 0, info |-> 0, ack |-> a]
    <3>1. to_physical_layer(h, f) \/ UNCHANGED sdl_to_spl
      BY <1>2 DEF SdlDataArrival
    <3>2. f.ack \in Int
      BY <1>0, AckIsNumber
    <3> HIDE DEF f
    <3>3. QED
      BY <1>0, <3>1, <3>2, PostsNumber
  <2>4. QED
    BY <1>0, <2>1, <2>2, <2>3, TakesNumber, AcceptsNumber, RoundNumbers
<1>3. CASE SdlOtherArrival(h)
  <2>1. /\ Round(h, "frame_arrival")
        /\ sdl' = [sdl EXCEPT ![h] = IF spl_to_sdl[h] = NoFrame THEN "exited" ELSE "loop"]
        /\ UNCHANGED <<ack_expected, nbuffered, frame_expected, sdl_to_spl>>
    BY <1>3 DEF SdlOtherArrival, SdlGoto, recvVars
  <2>2. sdl' = [sdl EXCEPT ![h] = sdl'[h]] /\ sdl'[h] # "fetch"
    BY <1>0, <2>1 DEF NumbersInv, OnHosts
  <2>3. QED
    BY <1>0, <2>1, <2>2, RoundNumbers
<1>4. CASE SdlCksumErr(h) \/ SdlTimeout(h) \/ SdlAckTimeout(h) \/ SdlOtherEvent(h)
  <2>1. /\ \E e : Round(h, e) /\ sdl[h] = "loop"
        /\ UNCHANGED <<sdl, ack_expected, nbuffered, frame_expected>>
        /\ UNCHANGED sdl_to_spl \/ \E kind, nr, info : send_frame(h, kind, nr, info)
    BY <1>4 DEF SdlCksumErr, SdlTimeout, SdlAckTimeout, SdlOtherEvent, Round, recvVars
  <2>2. OnHosts(sdl_to_spl') /\ \A g \in Hosts : sdl_to_spl'[g].ack \in Int
    BY <1>0, <2>1, SendsNumber
  <2>3. QED
    BY <1>0, <2>1, <2>2, RoundNumbers
<1>5. QED
  BY <1>1, <1>2, <1>3, <1>4 DEF Sdl

\* The two processes and the network: SDL leaves the wait, or finds it as it was.
LEMMA OthersStop ==
    ASSUME StopInv, \/ SnlWrites \/ SnlGoes \/ SdlFetch \/ UNCHANGED vars
                    \/ \E h \in Hosts : Spl(h)
    PROVE  StopInv'
<1>0. NumbersInv /\ GateInv /\ "sender" \in Hosts
  BY DEF StopInv, Hosts
<1>1. CASE SnlWrites \/ SnlGoes \/ UNCHANGED vars
  <2>1. UNCHANGED <<network_write, sdlVars, sdl_to_spl, spl_to_sdl>>
    BY <1>1 DEF SnlWrites, SnlGoes, vars, snlVars
  <2>2. QED
    BY <1>0, <2>1 DEF StopInv, NumbersInv, GateInv, OnHosts, sdlVars, sendVars, recvVars
<1>2. CASE SdlFetch
  <2>1. /\ sdl' = [sdl EXCEPT !["sender"] = "loop"]
        /\ UNCHANGED <<ack_expected, nbuffered, frame_expected, spl_to_sdl>>
        /\ send_frame("sender", "data", next_frame_to_send["sender"], fetched')
    BY <1>2 DEF SdlFetch, SdlGoto, recvVars
  <2>2. OnHosts(sdl_to_spl') /\ \A g \in Hosts : sdl_to_spl'[g].ack \in Int
    BY <1>0, <2>1, SendsNumber
  <2>3. QED
    BY <1>0, <2>1, <2>2 DEF StopInv, NumbersInv, GateInv, OnHosts
<1>3. CASE \E h \in Hosts : Spl(h)
  <2>1. PICK h \in Hosts : Spl(h)
    BY <1>3
  <2>2. /\ sdl_to_spl' = [sdl_to_spl EXCEPT ![Peer(h)] = NoFrame]
        /\ UNCHANGED <<network_write, sdl, nbuffered, ack_expected, frame_expected>>
    BY <2>1 DEF Spl, SplLostFrame, SplDamagedFrame, SplPassFrame, SplTakesFrame, snlVars,
                sdlVars, sendVars, recvVars
  <2>3. \/ spl_to_sdl' = spl_to_sdl
        \/ spl_to_sdl' = [spl_to_sdl EXCEPT ![h] = sdl_to_spl[Peer(h)]]
    BY <2>1 DEF Spl, SplLostFrame, SplDamagedFrame, SplPassFrame
  <2>4. Peer(h) \in Hosts /\ NoFrame.ack \in Int
    BY DEF Peer, Hosts, NoFrame
  <2>5. OnHosts(sdl_to_spl') /\ \A g \in Hosts : sdl_to_spl'[g].ack \in Int
    BY <1>0, <2>2, <2>4 DEF NumbersInv, OnHosts
  <2>6. OnHosts(spl_to_sdl') /\ \A g \in Hosts : spl_to_sdl'[g].ack \in Int
    BY <1>0, <2>3, <2>4 DEF NumbersInv, OnHosts
  <2>7. QED
    BY <1>0, <2>2, <2>5, <2>6 DEF StopInv, NumbersInv, GateInv
<1>4. QED
  BY <1>1, <1>2, <1>3

\* SDL and SNL wait for each other only when the gate was open too long: whatever SDL
\* found in its uninitialised event and whatever the network does.
THEOREM StopsBeyondWindow == Spec => []StopsOnlyBeyondWindow
<1>1. Init => StopInv
  BY DEF Init, All, StopInv, NumbersInv, GateInv, OnHosts, Hosts, NoFrame
<1>2. ASSUME StopInv, [Next]_vars PROVE StopInv'
  BY <1>2, SdlStops, OthersStop DEF Next
<1>3. StopInv => StopsOnlyBeyondWindow
  BY DEF StopInv, GateInv, StopsOnlyBeyondWindow
<1>4. QED
  BY <1>1, <1>2, <1>3, PTL DEF Spec
=============================================================================
