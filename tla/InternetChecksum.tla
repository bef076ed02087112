-------------------------- MODULE InternetChecksum --------------------------
(***************************************************************************)
(* The end of checksum() in tcp_ip.h of linux-data-transfer: what becomes  *)
(* of the sum of the words.                                                *)
(***************************************************************************)
EXTENDS Integers

Word == 65536

\* The carries of the sum are added back in, twice.
Folded(cksum) == LET once == (cksum \div Word) + (cksum % Word)
                 IN  (once + (once \div Word)) % Word
=============================================================================
