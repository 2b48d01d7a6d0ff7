-------------------------------- MODULE Shift64 --------------------------------
(***************************************************************************)
(* 64-bit shifts and rotations on four 16-bit registers: __U8RS and __U8LS *)
(* of src/boot1/u8shift.s, which the compiler calls for the shifts of      *)
(* sha512.c, and rotr64 of fun.h.  A register is the set of its bits that  *)
(* are 1; AX is the highest and DX the lowest.                             *)
(***************************************************************************)
EXTENDS Integers

CONSTANTS
  W,       \* bits of a register
  Counts,  \* counts of a call
  SI_SIZE  \* values of SI, which counts down

Position == 0 .. 4 * W - 1

VARIABLES
  pc, op,
  ax, bx, cx, dx, si,
  value,   \* history: the number in the registers at the call
  count    \* history: by how much to shift it

regs == <<ax, bx, cx, dx>>
vars == <<pc, op, regs, si, value, count>>

(* The number in four words, as the set of its bits. *)
Number(a, b, c, d) ==
  {p \in Position : p % W \in CASE p \div W = 3 -> a [] p \div W = 2 -> b
                                [] p \div W = 1 -> c [] OTHER -> d}
Registers(v) ==
  /\ ax' = {p \in 0 .. W - 1 : p + 3 * W \in v}
  /\ bx' = {p \in 0 .. W - 1 : p + 2 * W \in v}
  /\ cx' = {p \in 0 .. W - 1 : p + W \in v}
  /\ dx' = {p \in 0 .. W - 1 : p \in v}

(* rcr and rcl by one bit: the carry goes in at one end, and the bit at    *)
(* the other becomes the carry.  shr and shl are those with no carry.      *)
Rcr(w, carry) == {p - 1 : p \in w \ {0}} \cup (IF carry THEN {W - 1} ELSE {})
Rcl(w, carry) == {p + 1 : p \in w \ {W - 1}} \cup (IF carry THEN {0} ELSE {})
Low(w) == 0 \in w
High(w) == W - 1 \in w

Init == /\ pc = "idle" /\ op = "none"
        /\ ax = {} /\ bx = {} /\ cx = {} /\ dx = {}
        /\ si = 0
        /\ value = {} /\ count = 0

(* The shifts look at the count first, rotr64 does not. *)
Enter(o, v, n) ==
  /\ op' = o /\ value' = v /\ count' = n
  /\ Registers(v)
  /\ si' = n
  /\ pc' = IF n = 0 /\ o # "rotr64" THEN "return" ELSE "bit"

Call == /\ pc = "idle"
        /\ \E o \in {"u8rs", "u8ls", "rotr64"}, v \in SUBSET Position, n \in Counts : Enter(o, v, n)

Count == /\ si' = (si - 1) % SI_SIZE
         /\ pc' = IF si' = 0 THEN "return" ELSE pc
         /\ UNCHANGED <<op, value, count>>

RightBit(carry) ==
  /\ ax' = Rcr(ax, carry)
  /\ bx' = Rcr(bx, Low(ax))
  /\ cx' = Rcr(cx, Low(bx))
  /\ dx' = Rcr(dx, Low(cx))

(* Mutant: the order of the registers is that of __U8RS. *)
LeftBitSwapped ==
  /\ ax' = Rcl(ax, FALSE)
  /\ bx' = Rcl(bx, High(ax))
  /\ cx' = Rcl(cx, High(bx))
  /\ dx' = Rcl(dx, High(cx))

LeftBit ==
  /\ dx' = Rcl(dx, FALSE)
  /\ cx' = Rcl(cx, High(dx))
  /\ bx' = Rcl(bx, High(cx))
  /\ ax' = Rcl(ax, High(bx))

U8RS == pc = "bit" /\ op = "u8rs" /\ RightBit(FALSE) /\ Count
U8LS == pc = "bit" /\ op = "u8ls" /\ LeftBit /\ Count

(* mov di, dx; shr di, 1: the carry is what is about to fall out of DX. *)
Rotr64 == pc = "bit" /\ op = "rotr64" /\ RightBit(Low(dx)) /\ Count

(* What the registers hold between calls does not matter. *)
Return == /\ pc = "return"
          /\ pc' = "idle" /\ op' = "none"
          /\ ax' = {} /\ bx' = {} /\ cx' = {} /\ dx' = {}
          /\ si' = 0
          /\ value' = {} /\ count' = 0

Step == U8RS \/ U8LS \/ Rotr64 \/ Return

Next == Step \/ Call

Spec == Init /\ [][Next]_vars
-----------------------------------------------------------------------------
(* Every call returns the number shifted or rotated, for every count: also *)
(* those of the word and beyond, and 0, at which rotr64 goes around as     *)
(* often as SI has values, a multiple of the word.                         *)
ShiftRight ==
  pc = "return" =>
    Number(ax, bx, cx, dx) =
      CASE op = "u8rs" -> {p \in Position : p + count \in value}
        [] op = "u8ls" -> {p \in Position : p - count \in value}
        [] op = "rotr64" -> {p \in Position : (p + count) % (4 * W) \in value}
=============================================================================
