---------------------------- MODULE LayeredFrame ----------------------------
(***************************************************************************)
(* What both versions of linux-data-transfer share: the frame that the     *)
(* five levels of the sender build and the five of the receiver take       *)
(* apart, the checksums in it (tcp_ip.h), the segments of shared memory    *)
(* the levels hand it on in (tools.h), and the ten level programs.         *)
(*                                                                         *)
(* Of the headers only what the receiver looks at is kept; the payload is  *)
(* one 16-bit word of content and its length in bytes.  Lengths are in     *)
(* bytes, as in the code.                                                  *)
(***************************************************************************)
EXTENDS InternetChecksum, Sequences, FiniteSets, Functions

CONSTANTS Versions,   \* {"01", "02"}: which of the two programs
          datalen,    \* lengths of the payload that network.conf asks for
          offset,     \* values of the TCP data offset it asks for
          Payload,    \* first words of the payload
          Runs        \* transfers one after the other

ASSUME VersionsAssumption == Versions \subseteq {"01", "02"}
ASSUME LengthAssumption == datalen \subseteq 1 .. 1460
ASSUME OffsetAssumption == offset \subseteq 5 .. 15
ASSUME PayloadAssumption == Payload \subseteq Nat /\ \A d \in Payload : d =< 65535
ASSUME RunsAssumption == Runs \in Nat \ {0}
-----------------------------------------------------------------------------
(* The headers *)

\* checksum() of a buffer whose words add up to sum.
Checksum(sum) == 65535 - Folded(sum)

EthLen == 14
IpLen == 20
TcpLen == 20
Shortest == 60
IPv4 == 2048
Address == 1          \* what the addresses of network.conf add to a sum

Blank == [type |-> 0, iplen |-> 0, addr |-> 0, ipck |-> 0,
          off |-> 0, tcpck |-> 0, data |-> 0]

extern_len(off) == (off - 5) * 4

\* Mutant of TcpChecksum: the sum stops at the header.
TcpChecksumOfHeader(b, tcplen) == Checksum(b.addr + 6 + tcplen + b.off * 4096)

\* tcp_chksum: the pseudo header, the data offset and the content.
TcpChecksum(b, tcplen) == Checksum(b.addr + 6 + tcplen + b.off * 4096 + b.data)

IpChecksum(b) == Checksum(17664 + b.iplen + b.addr + 6)

\* Mutant of WithIp: the length leaves the header itself out.
WithIpOfPayload(b, len) ==
    LET h == [b EXCEPT !.iplen = len, !.addr = Address]
    IN  [h EXCEPT !.ipck = IpChecksum(h)]

\* The header of level 4 over len bytes, that of level 3, that of level 2.
WithTcp(b, off, len) ==
    LET h == [b EXCEPT !.off = off, !.addr = Address]
    IN  [b EXCEPT !.off = off,
                  !.tcpck = TcpChecksum(h, TcpLen + extern_len(off) + len)]
WithIp(b, len) ==
    LET h == [b EXCEPT !.iplen = len + IpLen, !.addr = Address]
    IN  [h EXCEPT !.ipck = IpChecksum(h)]
WithEth(b) == [b EXCEPT !.type = IPv4]

AtLeastShortest(len) == IF len < Shortest THEN Shortest ELSE len

\* The frame on the way, with one of its words another one.
AlteredBody(b) ==
    {[b EXCEPT !.type = 2054], [b EXCEPT !.iplen = @ + 1], [b EXCEPT !.addr = 2],
     [b EXCEPT !.ipck = (@ + 1) % Word], [b EXCEPT !.tcpck = (@ + 1) % Word]}
    \cup {[b EXCEPT !.off = v] : v \in {4, b.off + 1} \cap 0 .. 15}
    \cup {[b EXCEPT !.data = v] : v \in {0, 2, 65535} \ {b.data}}

Altered(f) == {[len |-> f.len, body |-> b] : b \in AlteredBody(f.body)}
-----------------------------------------------------------------------------
(* The segments and the levels *)

Sending   == <<"send-level-5", "send-level-4", "send-level-3", "send-level-2", "send-level-1">>
Receiving == <<"recv-level-1", "recv-level-2", "recv-level-3", "recv-level-4", "recv-level-5">>
Levels == Range(Sending) \cup Range(Receiving)

\* The value of ready a level waits for, and the one it sets.
Awaited == [l \in Levels |->
    CASE l = "send-level-4" -> 5 [] l \in {"send-level-3", "recv-level-5"} -> 4
      [] l \in {"send-level-2", "recv-level-4"} -> 3 [] l \in {"send-level-1", "recv-level-3"} -> 2
      [] l = "recv-level-2" -> 1 [] OTHER -> -1]
Given == [l \in Levels |->
    CASE l = "send-level-5" -> 5 [] l \in {"send-level-4", "recv-level-4"} -> 4
      [] l \in {"send-level-3", "recv-level-3"} -> 3 [] l \in {"send-level-2", "recv-level-2"} -> 2
      [] l = "recv-level-1" -> 1 [] OTHER -> -1]

Zeroed(there) == [there |-> there, ready |-> 0, len |-> 0, datalen |-> 0, body |-> Blank]
Absent == Zeroed(FALSE)
New == Zeroed(TRUE)

\* A segment s after a level has written into it and set ready.
Handed(s, body, len, paylen, ready) ==
    [there |-> s.there, ready |-> ready, len |-> len, datalen |-> paylen, body |-> body]

Keys == {54, 43, 32, 21, 12, 23, 34, 45} \cup {1, 2}
NoFile == [len |-> 0, data |-> 0]

VARIABLES
    version,       \* which of the two programs
    scripted,      \* the levels are run by sender.sh and receiver.sh, in order
    off,           \* tcp_offset in network.conf
    run,           \* transfers begun
    sender_dat,    \* what send-level-5 wrote into sender.dat
    network_dat,   \* what send-level-1 wrote, and then what the receiver finds
    carried,       \* the file is with the receiver: "no", "whole" or "altered"
    receiver_dat,  \* what recv-level-5 wrote into receiver.dat
    seg,           \* per key: its segment
    pc,            \* per level: how far its program has come
    buf            \* per level: its copy of the frame (version 01)

setting == <<version, scripted, off, run>>
files == <<sender_dat, network_dat, carried, receiver_dat>>
vars == <<setting, files, seg, pc, buf>>

From(l) == IF version = "02" THEN IF l \in Range(Sending) THEN 1 ELSE 2
           ELSE CASE l = "send-level-4" -> 54 [] l = "send-level-3" -> 43
                  [] l = "send-level-2" -> 32 [] l = "send-level-1" -> 21
                  [] l = "recv-level-2" -> 12 [] l = "recv-level-3" -> 23
                  [] l = "recv-level-4" -> 34 [] l = "recv-level-5" -> 45 [] OTHER -> 0

Ended == {"done", "failed", "killed"}

\* The scripts run one level after the other; by hand all can be started at once.
MayStart(l) ==
    /\ pc[l] = "off"
    /\ l \in Range(Receiving) => carried # "no"
    /\ scripted => \A side \in {Sending, Receiving} : \A i \in 2 .. 5 :
                      side[i] = l => pc[side[i - 1]] \in Ended

\* get_share_memory() of the level's input: the segment is made if there is none.
Attach(l) ==
    /\ MayStart(l)
    /\ seg' = [seg EXCEPT ![From(l)] = IF @.there THEN @ ELSE New]
    /\ pc' = [pc EXCEPT ![l] = "wait"]
    /\ UNCHANGED <<setting, files, buf>>

\* create_share_memory(key), and ready = 0.
Created(key) == [IF seg[key].there THEN seg[key] ELSE New EXCEPT !.ready = 0]

\* The loop while (ready != n) sleep(1) is left.
Ready(l) == pc[l] = "wait" /\ seg[From(l)].ready = Awaited[l]

\* delete_share_memory(key) by l, which is then at next.  Another level that waits
\* in the segment stays attached to one that nobody else can reach.
Deleted(key, l, next) ==
    /\ seg' = [seg EXCEPT ![key] = Absent]
    /\ pc' = [x \in Levels |-> IF x = l THEN next
                              ELSE IF pc[x] = "wait" /\ From(x) = key THEN "orphan" ELSE pc[x]]

\* exit(1) of l.
Exit1(l) == pc' = [pc EXCEPT ![l] = "failed"] /\ UNCHANGED seg
=============================================================================
