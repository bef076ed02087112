------------------------------ MODULE RecvTest ------------------------------
(***************************************************************************)
(* The file recv_test.txt of linux-data-link-layer, to which RNL appends   *)
(* what it reads from the file RDL hands packets over in.  RDL empties     *)
(* that file, fills it and signals RNL (write_share_file, kill); RNL looks *)
(* at it whenever its flag is set, and appends its buffer whatever fread   *)
(* has put there.  This much is the same in protocols 1, 2 and 3.          *)
(***************************************************************************)
EXTENDS Naturals, Sequences

CONSTANT Packets      \* packets in the source file

VARIABLES buffer,     \* the packet SDL has fetched last
          recv_test   \* what RNL has appended

Garbage == 0          \* the bytes of a buffer that no packet was read into
Empty == 0            \* a file that was not written yet, or between fopen "w" and fclose
-----------------------------------------------------------------------------
\* The buffer of RNL after read_share_file: from an empty file fread gives nothing, and
\* the buffer holds what was read, and appended, before.
recvbuf(file) == IF file # Empty THEN file
                 ELSE IF recv_test = << >> THEN Garbage
                 ELSE recv_test[Len(recv_test)]

\* No packet is appended after a newer one.
InOrder == \A i, j \in 1 .. Len(recv_test) :
              i < j /\ recv_test[i] # Garbage /\ recv_test[j] # Garbage
                 => recv_test[i] =< recv_test[j]

\* Of protocol 1, whose three files without any pacing lose packets, repeat them and hand on
\* garbage: no packet comes after a newer one, and nothing is appended that was not fetched
\* for.  A signal that all three readers have seen stands behind each append, so for
\* whatever is there once more another packet is missing.
InOrderNoneAdded ==
    /\ InOrder
    /\ Len(recv_test) =< buffer
=============================================================================
