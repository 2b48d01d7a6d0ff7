-------------------------------- MODULE BitSets --------------------------------
(* Exclusive or, of words as sets of the bits that are 1. *)
Xor(a, b) == (a \ b) \cup (b \ a)
=============================================================================
