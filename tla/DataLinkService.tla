--------------------------- MODULE DataLinkService ---------------------------
(***************************************************************************)
(* What the data-link layer of linux-data-link-layer promises the network  *)
(* layer, whatever the protocol: packets are fetched from the sending      *)
(* network layer one after the other and handed to the receiving network   *)
(* layer exactly once, in the order in which they were fetched, and the    *)
(* sender is never more than one window ahead of the receiver.             *)
(* Packets are identified by their position in the sender's source file.   *)
(***************************************************************************)
EXTENDS Naturals, Sequences

CONSTANTS Packets,  \* number of packets in the sender's source file
          Window    \* packets fetched and not yet handed over: 1 for protocols 1-4

VARIABLES fetched,    \* packets that from_network_layer has returned
          delivered   \* packets that to_network_layer has been given, in order

vars == <<fetched, delivered>>

Init == /\ fetched = 0
        /\ delivered = << >>

Fetch == /\ fetched < Packets
         /\ fetched < Len(delivered) + Window
         /\ fetched' = fetched + 1
         /\ UNCHANGED delivered

HandOver == /\ Len(delivered) < fetched
            /\ delivered' = Append(delivered, Len(delivered) + 1)
            /\ UNCHANGED fetched

Next == Fetch \/ HandOver

Safety == Init /\ [][Next]_vars

Spec == Safety /\ WF_vars(Next)
=============================================================================
