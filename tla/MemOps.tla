-------------------------------- MODULE MemOps --------------------------------
(***************************************************************************)
(* The memory and string primitives of src/boot1/fun.h, which are inline   *)
(* assembly: one action per turn of a loop, on the 8086's registers.       *)
(*                                                                         *)
(* They share memory and the direction flag, which decides which way the   *)
(* string instructions walk and which all of them but memmove take to be   *)
(* clear.  A byte is the set of its bits that are 1.                       *)
(***************************************************************************)
EXTENDS Integers, BitSets

CONSTANTS
  M,     \* bytes of a segment: addresses and 16-bit registers wrap here
  Bits   \* bits of a byte

ASSUME MemOpsAssumption == M \in Nat \ {0, 1}

Address == 0 .. M - 1
Byte == SUBSET Bits
NUL == {}

Bytes(p, n) == p .. p + n - 1
NoMemory == [a \in Address |-> NUL]
NoCall == [op |-> "none", dst |-> 0, src |-> 0, n |-> 0, ah |-> NUL]

VARIABLES
  pc,               \* "idle", a loop, or "return"
  mem,              \* while a call is under way
  si, di, cx,       \* registers
  al, bl,           \* lower halves of AX and BX
  ah,               \* upper half of AX in memcmp, the only call that returns AX
  df,               \* the direction flag: whether it is set
  call,             \* the call under way or the last one
  old               \* memory when it was made

regs == <<si, di, cx, al, bl, ah>>
vars == <<pc, mem, regs, df, call, old>>

Init == /\ pc = "idle"
        /\ mem = NoMemory
        /\ si = 0 /\ di = 0 /\ cx = 0
        /\ al = NUL /\ bl = NUL /\ ah = NUL
        /\ df = FALSE
        /\ call = NoCall
        /\ old = NoMemory

(* A call, with the registers as its "parm" list has them, and memory as   *)
(* the program has left it.  Only those whose assembly looks at the count  *)
(* are guarded against a count of 0.                                       *)
Enter(op, dst, src, n, loop) ==
  /\ call' = [op |-> op, dst |-> dst, src |-> src, n |-> n, ah |-> ah']
  /\ old' \in [Address -> Byte]
  /\ mem' = old'
  /\ pc' = loop

Guarded(n, loop) == IF n = 0 THEN "return" ELSE loop

(* The callers' objects lie in the segment and do not wrap around it, and  *)
(* those of memcpy, memcmp and bswap are apart.                            *)
Object(p, n) == p + n <= M
Apart(p, q, n) == Bytes(p, n) \cap Bytes(q, n) = {}

Memcpy(dst, src, n) ==
  /\ Object(dst, n) /\ Object(src, n) /\ Apart(dst, src, n)
  /\ UNCHANGED ah
  /\ Enter("memcpy", dst, src, n, Guarded(n, "copy"))
  /\ di' = dst /\ si' = src /\ cx' = n
  /\ UNCHANGED <<al, bl, df>>

(* rep stosb looks at the count itself. *)
Memset(s, c, n) ==
  /\ Object(s, n)
  /\ UNCHANGED ah
  /\ Enter("memset", s, s, n, Guarded(n, "store"))
  /\ di' = s /\ al' = c /\ cx' = n
  /\ UNCHANGED <<si, bl, df>>

Memxor(s, c, n) ==
  /\ Object(s, n)
  /\ UNCHANGED ah
  /\ Enter("memxor", s, s, n, Guarded(n, "xor"))
  /\ si' = s /\ bl' = c /\ cx' = n
  /\ di' = IF n = 0 THEN di ELSE s
  /\ UNCHANGED <<al, df>>

MemmoveFrom(dst, src, n, backwards) ==
  LET last == IF backwards THEN n - 1 ELSE 0
  IN  /\ Object(dst, n) /\ Object(src, n)
      /\ UNCHANGED ah
      /\ Enter("memmove", dst, src, n, Guarded(n, "copy"))
      /\ cx' = n /\ di' = (dst + last) % M /\ si' = (src + last) % M
      /\ df' = (df \/ backwards)
      /\ UNCHANGED <<al, bl>>

(* Mutant: forwards, whatever the overlap. *)
MemmoveForwards(dst, src, n) == MemmoveFrom(dst, src, n, FALSE)

(* Backwards, from the last bytes, if the destination begins within the    *)
(* source: the distance, as an unsigned number, is less than the count.    *)
Memmove(dst, src, n) == MemmoveFrom(dst, src, n, n > 0 /\ (dst - src) % M < n)

Strlen(str) ==
  /\ UNCHANGED ah
  /\ Enter("strlen", str, str, 0, "scan")
  /\ \E a \in str .. M - 1 : old'[a] = NUL
  /\ si' = str /\ cx' = M - 1
  /\ UNCHANGED <<di, al, bl, df>>

Memcmp(m1, m2, n) ==
  /\ n > 0 /\ Object(m1, n) /\ Object(m2, n) /\ Apart(m1, m2, n)
  /\ ah' \in Byte
  /\ Enter("memcmp", m2, m1, n, "compare")
  /\ si' = m1 /\ di' = m2 /\ cx' = n
  /\ UNCHANGED <<al, bl, df>>

Bswap(dst, src, n) ==
  /\ n > 0 /\ Object(dst, n) /\ Object(src, n) /\ Apart(dst, src, n)
  /\ UNCHANGED ah
  /\ Enter("bswap", dst, src, n, "swap")
  /\ di' = (dst + n) % M /\ si' = src /\ cx' = n
  /\ UNCHANGED <<al, bl, df>>

BswapInplace(p, n) ==
  /\ n > 1 /\ Object(p, n)
  /\ UNCHANGED ah
  /\ Enter("bswap_inplace", p, p, n, "swap_pair")
  /\ si' = p /\ di' = (p + n) % M /\ cx' = n \div 2
  /\ UNCHANGED <<al, bl, df>>
-----------------------------------------------------------------------------
(* The way the string instructions walk. *)
Walk(x) == (IF df THEN x - 1 ELSE x + 1) % M

(* "loop": one down, and around again unless that is zero. *)
Loop == /\ cx' = (cx - 1) % M
        /\ pc' = IF cx' = 0 THEN "return" ELSE pc

(* lodsb, stosb *)
CopyByte ==
  /\ pc = "copy"
  /\ al' = mem[si]
  /\ mem' = [mem EXCEPT ![di] = al']
  /\ si' = Walk(si) /\ di' = Walk(di)
  /\ Loop
  /\ UNCHANGED <<bl, ah, df, call, old>>

StoreByte ==
  /\ pc = "store"
  /\ mem' = [mem EXCEPT ![di] = al]
  /\ di' = Walk(di)
  /\ Loop
  /\ UNCHANGED <<si, al, bl, ah, df, call, old>>

XorByte ==
  /\ pc = "xor"
  /\ al' = Xor(mem[si], bl)
  /\ mem' = [mem EXCEPT ![di] = al']
  /\ si' = Walk(si) /\ di' = Walk(di)
  /\ Loop
  /\ UNCHANGED <<bl, ah, df, call, old>>

ScanByteUntil(stop) ==
  /\ pc = "scan"
  /\ al' = mem[si]
  /\ si' = Walk(si)
  /\ cx' = (cx + 1) % M
  /\ pc' = IF stop = NUL THEN "return" ELSE pc
  /\ UNCHANGED <<mem, di, bl, ah, df, call, old>>

(* Mutant: stops a byte early. *)
ScanByteNext == ScanByteUntil(mem[Walk(si)])

ScanByte == ScanByteUntil(mem[si])

(* xor al: the upper half of AX is nobody's. *)
CompareByte ==
  /\ pc = "compare"
  /\ al' = Xor(mem[si], mem[di])
  /\ si' = Walk(si)
  /\ IF al' # NUL THEN /\ pc' = "return"
                       /\ UNCHANGED <<di, cx>>
                  ELSE di' = (di + 1) % M /\ Loop
  /\ UNCHANGED <<mem, bl, ah, df, call, old>>

SwapByte ==
  /\ pc = "swap"
  /\ di' = (di - 1) % M
  /\ al' = mem[si]
  /\ si' = Walk(si)
  /\ mem' = [mem EXCEPT ![di'] = al']
  /\ Loop
  /\ UNCHANGED <<bl, ah, df, call, old>>

(* BX keeps the address of the front byte over lodsb. *)
SwapPair ==
  /\ pc = "swap_pair"
  /\ di' = (di - 1) % M
  /\ al' = mem[si]
  /\ mem' = [mem EXCEPT ![si] = mem[di'], ![di'] = al']
  /\ si' = Walk(si)
  /\ Loop
  /\ UNCHANGED <<bl, ah, df, call, old>>

(* What memory, the registers and the history hold between calls does not  *)
(* matter: the program writes what it likes before the next one.           *)
Forget == /\ mem' = NoMemory
          /\ si' = 0 /\ di' = 0 /\ cx' = 0 /\ al' = NUL /\ bl' = NUL /\ ah' = NUL
          /\ call' = NoCall /\ old' = NoMemory

ReturnWith(flag) ==
  /\ pc = "return"
  /\ pc' = "idle"
  /\ df' = flag
  /\ Forget

(* Mutant: memmove leaves the flag as it is. *)
ReturnNoCld == ReturnWith(df)

(* cld, for memmove if it has moved anything. *)
Return == ReturnWith(df /\ ~(call.op = "memmove" /\ call.n > 0))

Step == \/ CopyByte \/ StoreByte \/ XorByte \/ ScanByte \/ CompareByte
        \/ SwapByte \/ SwapPair \/ Return

Call == \/ \E p \in Address : Strlen(p)
        \/ \E p, n \in Address : BswapInplace(p, n)
        \/ \E p, n \in Address, c \in Byte : Memset(p, c, n) \/ Memxor(p, c, n)
        \/ \E p, q, n \in Address :
             Memcpy(p, q, n) \/ Memmove(p, q, n) \/ Memcmp(p, q, n) \/ Bswap(p, q, n)

Next == Step \/ (pc = "idle" /\ Call)

Spec == Init /\ [][Next]_vars
-----------------------------------------------------------------------------
(* What a call is to leave in its destination, from memory as it was. *)
Wanted(a) ==
  LET k == a - call.dst
  IN  CASE call.op \in {"memcpy", "memmove"} -> old[call.src + k]
        [] call.op = "memset" -> al
        [] call.op = "memxor" -> Xor(old[a], bl)
        [] call.op \in {"bswap", "bswap_inplace"} -> old[call.src + call.n - 1 - k]
        [] OTHER -> old[a]

(* Every primitive leaves in its destination what it is to leave there,    *)
(* memmove for every overlap, and all other memory as it was.              *)
MemoryRight ==
  pc = "return" =>
    mem = [a \in Address |-> IF a \in Bytes(call.dst, call.n) THEN Wanted(a) ELSE old[a]]

(* strlen counts the bytes before the first NUL.  memcmp's value is AX, of *)
(* which it sets the lower half alone: it is zero exactly for equal memory *)
(* if the caller comes with AH zero, and never otherwise.                  *)
Same == \A k \in 0 .. call.n - 1 : old[call.src + k] = old[call.dst + k]

ResultRight ==
  pc = "return" =>
    /\ call.op = "strlen" =>
         /\ old[call.src + cx] = NUL
         /\ \A k \in 0 .. cx - 1 : old[call.src + k] # NUL
    /\ call.op = "memcmp" => (ah = NUL /\ al = NUL <=> call.ah = NUL /\ Same)

(* No call leaves the direction flag set, which would turn the others      *)
(* around.                                                                 *)
DirectionClear == pc = "idle" => ~df
=============================================================================
