------------------------------ MODULE MCBitStream ------------------------------
(* A stream of at most four bytes, each 0 or 1, in a buffer that grows by at  *)
(* least two.  The byte order matters only to what is read from a copy.       *)
EXTENDS BitStream

Bits == {0, 1}
OneOrder == {"big"}
ByteOrders == {"big", "little"}
=============================================================================
