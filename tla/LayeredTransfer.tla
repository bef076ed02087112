--------------------------- MODULE LayeredTransfer ---------------------------
(***************************************************************************)
(* linux-data-transfer as a whole: the sender's levels, the file           *)
(* network.dat carried to the receiver, the receiver's levels, in either   *)
(* version, by the scripts or by hand, several transfers in a row.         *)
(***************************************************************************)
EXTENDS LayeredChain, LayeredInPlace

Init ==
    /\ version \in Versions /\ scripted \in BOOLEAN /\ off \in offset
    /\ run = 1
    /\ sender_dat = NoFile /\ receiver_dat = NoFile
    /\ network_dat = [len |-> 0, body |-> Blank]
    /\ carried = "no"
    /\ seg = [k \in Keys |-> Absent]
    /\ pc = [l \in Levels |-> "off"]
    /\ buf = [l \in Levels |-> [body |-> Blank, len |-> 0]]

\* network.dat is carried to the receiver, where it may arrive with a word altered.
Carry(how) ==
    /\ pc["send-level-1"] = "done" /\ carried = "no"
    /\ carried' = how
    /\ network_dat' \in IF how = "whole" THEN {network_dat} ELSE Altered(network_dat)
    /\ UNCHANGED <<setting, sender_dat, receiver_dat, seg, pc, buf>>

\* After an exit(1) the next level waits for what will not come.
Hung ==
    /\ \E l \in Range(Receiving) : pc[l] \in {"wait", "orphan"}
    /\ \A l \in Range(Receiving) : ~Ready(l) /\ ~MayStart(l) /\ pc[l] \notin {"have", "made"}

\* The user ends it; a script ends with its program.
Interrupt ==
    /\ carried # "no" /\ Hung
    /\ pc' = [l \in Levels |-> IF l \in Range(Receiving) /\ pc[l] \notin Ended
                               THEN "killed" ELSE pc[l]]
    /\ UNCHANGED <<setting, files, seg, buf>>

\* The next transfer; no segment is cleaned up, receiver.dat is taken away.
NextRun ==
    /\ run < Runs /\ \A l \in Levels : pc[l] \in Ended
    /\ run' = run + 1
    /\ carried' = "no" /\ receiver_dat' = NoFile
    /\ pc' = [l \in Levels |-> "off"]
    /\ buf' = [l \in Levels |-> [body |-> Blank, len |-> 0]]
    /\ UNCHANGED <<version, scripted, off, sender_dat, network_dat, seg>>

Next == \/ ChainNext \/ InPlaceNext
        \/ Carry("whole") \/ Carry("altered")
        \/ Interrupt \/ NextRun

\* A level that can go on does.
Spec == Init /\ [][Next]_vars /\ WF_vars(ChainNext \/ InPlaceNext)
-----------------------------------------------------------------------------
\* What the receiver writes is what the sender was given, byte for byte and not
\* one more: what filled a short frame up is gone.  A frame that was altered is
\* not written, unless a word 0 of it has become 65535 or a word 65535 has become
\* 0: to the sum of the words the two are the same.  Levels started by hand may take
\* up in a third transfer what the first has left in a segment and the second has
\* not come to.
DeliveredAsSent ==
    receiver_dat # NoFile /\ (scripted \/ run =< 2) =>
        \/ receiver_dat = sender_dat
        \/ carried = "altered" /\ receiver_dat.len = sender_dat.len
           /\ {sender_dat.data, receiver_dat.data} = {0, 65535}

\* A level gives up only a frame that was altered.  Some that do so leave their
\* segment ready; when the levels of the next transfer are started by hand in
\* another order, one of them finds the old frame there.
OnlyAlteredIsRejected ==
    (\E l \in Levels : pc[l] = "failed")
        => carried = "altered" \/ (~scripted /\ run > 1)

\* A transfer that comes to its end leaves no segment to the next one, even after
\* one that did not; but a third one by hand may end on an old frame, and leave its own.
NothingIsLeft ==
    (\A l \in Levels : pc[l] = "done") /\ (scripted \/ run =< 2)
        => \A k \in Keys : ~seg[k].there

\* A frame that arrives whole is written: in any order of the levels the first
\* time, and in the order of the scripts whatever the transfer before has left.
WholeIsWritten ==
    carried = "whole" /\ (scripted \/ run = 1) ~> receiver_dat = sender_dat
=============================================================================
