---------------------------------- MODULE Words ---------------------------------
(***************************************************************************)
(* Machine words of W bits.  A word is the set of its bits that are 1.     *)
(***************************************************************************)
EXTENDS Integers, Sequences, BitSets

CONSTANT W

Bits == 0 .. W - 1
Xor3(a, b, c) == Xor(a, Xor(b, c))
Not(a) == Bits \ a

Shr(a, n) == {p - n : p \in {q \in a : q >= n}}
Rotr(a, n) == {(p + W - n) % W : p \in a}
Rol(a, n) == {(p + n) % W : p \in a}

(* Addition modulo 2^W: a carry goes into a place if a lower place makes   *)
(* one and all between them pass it on.                                    *)
Carry(a, b) ==
  LET makes == a \cap b
      passes == Xor(a, b)
  IN  {p \in Bits : \E q \in makes : q < p /\ q + 1 .. p - 1 \subseteq passes}
Plus(a, b) == Xor3(a, b, Carry(a, b))
Sum3(a, b, c) == Plus(a, Plus(b, c))

(* A word from its parts of 16 bits, the highest first. *)
FromLimbs(limbs) ==
  {p \in Bits : (limbs[Len(limbs) - p \div 16] \div 2 ^ (p % 16)) % 2 = 1}

(* A word from its bytes in memory, the lowest first; bytes are sets too.  *)
FromBytes(bytes) == {p \in Bits : p % 8 \in bytes[1 + p \div 8]}
ByteOf(a, n) == {p - 8 * n : p \in {q \in a : q \div 8 = n}}
Bswap(a) == {(W - 8 - 8 * (p \div 8)) + (p % 8) : p \in a}
=============================================================================
