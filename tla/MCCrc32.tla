-------------------------------- MODULE MCCrc32 --------------------------------
(* Crc32 on every single byte, every pair of bytes out of seven, and the    *)
(* nine digits whose CRC is published as a check.                           *)
EXTENDS Crc32

MCBuffers ==
  {<<b>> : b \in 0 .. 255}
  \cup {<<a, b>> : a, b \in {0, 1, 2, 85, 127, 128, 255}}
  \cup {<<49, 50, 51, 52, 53, 54, 55, 56, 57>>}

(* The check value of CRC-32. *)
ASSUME CheckValue == Xor(Bits, Register(<<49, 50, 51, 52, 53, 54, 55, 56, 57>>)) = Word(\hCBF4, \h3926)
=============================================================================
