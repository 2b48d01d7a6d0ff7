--------------------------------- MODULE MCXts ---------------------------------
(* Xts with the code's block, byte and polynomial, the 28 blocks of a       *)
(* header, one block, none, and a length that is not of whole blocks, under *)
(* up to two calls with two keys of both lengths and two sectors.  The      *)
(* tweaks are of one bit, of which all others are exclusive ors: the        *)
(* lowest, the highest, and some on the way, one of which reaches the top   *)
(* with the last block of a header.                                         *)
EXTENDS Xts

OneBit(e) == [n \in 0 .. blk_sz - 1 |-> IF n = e \div BITS THEN {e % BITS} ELSE {}]
MCFirst(c, v) ==
  OneBit(CASE c = <<1, 32>> -> IF v = 0 THEN 0 ELSE 127
           [] c = <<2, 32>> -> IF v = 0 THEN 54 ELSE 101
           [] OTHER -> 2 + c[1] + 2 * v + 2 * c[2])
=============================================================================
