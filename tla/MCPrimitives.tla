------------------------------ MODULE MCPrimitives ------------------------------
(* Primitives with a segment of 6 bytes of one bit, registers of 2 bits for *)
(* the shifts, every number of four of them, and every count; and ints      *)
(* around the powers of three bases and at both ends.                       *)
EXTENDS Primitives

MCCounts == 0 .. SI_SIZE - 1
MCNumbers == {-32768, -1, 0, 1, 9, 10, 15, 16, 99, 100, 255, 256, 4095, 4096, 10000, 16384, 32767}
MCBuffers == {<<>>, <<0>>, <<15, 16>>, <<255, 160, 10>>}
=============================================================================
