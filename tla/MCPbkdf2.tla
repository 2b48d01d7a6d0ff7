-------------------------------- MODULE MCPbkdf2 --------------------------------
(* Pbkdf2 with blocks of 4 bytes and digests of 2, in keys of up to 3       *)
(* blocks and a half, with bytes of 3 values, so that the fourth block's    *)
(* number takes two bytes.                                                  *)
EXTENDS Pbkdf2
=============================================================================
