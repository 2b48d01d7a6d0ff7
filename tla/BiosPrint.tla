------------------------------- MODULE BiosPrint -------------------------------
(***************************************************************************)
(* bios_print_hex and bios_print_number of src/boot1/bios.c.  A digit      *)
(* stands for its character in digits[]; bios_print is in Console.         *)
(***************************************************************************)
EXTENDS Integers, Sequences

CONSTANTS
  Numbers,  \* what bios_print_number is called with
  Bases,
  Buffers,  \* what bios_print_hex is called with, sequences of bytes
  BUF_SZ    \* sizeof(buf) in bios_print_number

VARIABLES
  pc,
  n, base,  \* what is left of the number
  bytes,    \* what is left of the buffer
  buf, i,
  out,      \* what inl_bios_putc has been given
  arg       \* history: what the call was given, and the base or 0

vars == <<pc, n, base, bytes, buf, i, out, arg>>

Idle == [n |-> 0, base |-> 0]
Empty == [k \in 0 .. BUF_SZ - 1 |-> -1]

Init == /\ pc = "idle"
        /\ n = 0 /\ base = 0
        /\ bytes = <<>>
        /\ buf = Empty /\ i = 0
        /\ out = <<>>
        /\ arg = <<>>

bios_print_number(v, b) ==
  /\ pc = "idle"
  /\ n' = v /\ base' = b
  /\ arg' = <<v, b>>
  /\ pc' = "divide"
  /\ UNCHANGED <<bytes, buf, i, out>>

(* Mutant: the loop ends a division early. *)
MoreEarly == n >= base

More == n > 0

(* The digits come out of the divisions from the last to the first. *)
DivideDigit ==
  /\ pc = "divide"
  /\ More
  /\ buf' = [buf EXCEPT ![i] = n % base]
  /\ i' = i + 1
  /\ n' = n \div base
  /\ UNCHANGED <<pc, base, bytes, out, arg>>

DivideEnd ==
  /\ pc = "divide"
  /\ ~More
  /\ pc' = "emit"
  /\ UNCHANGED <<n, base, bytes, buf, i, out, arg>>

EmitDigit ==
  /\ pc = "emit"
  /\ i > 0
  /\ out' = Append(out, buf[i - 1])
  /\ i' = i - 1
  /\ UNCHANGED <<pc, n, base, bytes, buf, arg>>

EmitEnd ==
  /\ pc = "emit"
  /\ i = 0
  /\ pc' = "return"
  /\ UNCHANGED <<n, base, bytes, buf, i, out, arg>>

bios_print_hex(b) ==
  /\ pc = "idle"
  /\ bytes' = b
  /\ arg' = <<b, 0>>
  /\ pc' = "hex"
  /\ UNCHANGED <<n, base, buf, i, out>>

HexByte ==
  /\ pc = "hex"
  /\ bytes # <<>>
  /\ out' = out \o <<Head(bytes) \div 16, Head(bytes) % 16>>
  /\ bytes' = Tail(bytes)
  /\ UNCHANGED <<pc, n, base, buf, i, arg>>

HexEnd ==
  /\ pc = "hex"
  /\ bytes = <<>>
  /\ pc' = "return"
  /\ UNCHANGED <<n, base, bytes, buf, i, out, arg>>

(* What the locals hold between calls does not matter. *)
Return ==
  /\ pc = "return"
  /\ pc' = "idle"
  /\ n' = 0 /\ base' = 0 /\ bytes' = <<>> /\ buf' = Empty /\ i' = 0
  /\ out' = <<>> /\ arg' = <<>>

Step == \/ DivideDigit \/ DivideEnd \/ EmitDigit \/ EmitEnd
        \/ HexByte \/ HexEnd \/ Return

Call == \/ \E v \in Numbers, b \in Bases : bios_print_number(v, b)
        \/ \E b \in Buffers : bios_print_hex(b)

Next == Step \/ Call

Spec == Init /\ [][Next]_vars
-----------------------------------------------------------------------------
(* The number that digits say, to the base b. *)
Value(digits, b) ==
  LET upTo[k \in 0 .. Len(digits)] == IF k = 0 THEN 0 ELSE b * upTo[k - 1] + digits[k]
  IN  upTo[Len(digits)]

(* bios_print_number prints the number, with no zero in front and each     *)
(* digit below the base, and nothing for 0 and below; its buffer holds     *)
(* every int in every base from 2 on.  bios_print_hex prints two digits to *)
(* each byte, in the bytes' order.                                         *)
PrintRight ==
  /\ i \in 0 .. BUF_SZ
  /\ pc = "return" =>
       IF arg[2] = 0
         THEN /\ Len(out) = 2 * Len(arg[1])
              /\ \A k \in 1 .. Len(arg[1]) :
                   Value(SubSeq(out, 2 * k - 1, 2 * k), 16) = arg[1][k]
         ELSE /\ arg[1] <= 0 => out = <<>>
              /\ arg[1] > 0 => /\ Value(out, arg[2]) = arg[1]
                               /\ out[1] # 0
                               /\ \A k \in 1 .. Len(out) : out[k] \in 0 .. arg[2] - 1
=============================================================================
