-------------------------------- MODULE MCAes256 --------------------------------
(* Aes256 with the key and the block of FIPS 197's example (C.3), two keys  *)
(* and two blocks more, and three calls.                                    *)
EXTENDS Aes256

BitsOf(n) == {p \in 0 .. 7 : (n \div 2 ^ p) % 2 = 1}
ExampleKey == [n \in KeyIndex |-> BitsOf(n)]
ExampleBlock == [n \in BlockIndex |-> BitsOf(17 * n)]
ExampleCipher == <<\h8e, \ha2, \hb7, \hca, \h51, \h67, \h45, \hbf,
                   \hea, \hfc, \h49, \h90, \h4b, \h49, \h60, \h89>>

MCKeys == {ExampleKey, [n \in KeyIndex |-> 0 .. 7], [n \in KeyIndex |-> BitsOf(251 - 7 * n)]}
MCBlocks == {ExampleBlock, NoBlock, [n \in BlockIndex |-> BitsOf(255 - 13 * n)]}

(* The example. *)
ASSUME KnownAnswer ==
  CipherOf(ExampleKey, ExampleBlock) = [n \in BlockIndex |-> BitsOf(ExampleCipher[n + 1])]
=============================================================================
