---------------------------- MODULE PrimitivesProofs ----------------------------
(***************************************************************************)
(* Proofs about the primitives in assembly: those of memory and strings,   *)
(* for every size of a segment and of a byte, every place and overlap of   *)
(* their objects, every count and whatever is in memory; the shifts, for   *)
(* every width of a register, every number and every count; and printing,  *)
(* for every base, every number that the buffer has places for and any     *)
(* bytes.                                                                  *)
(***************************************************************************)
EXTENDS Primitives, SequenceTheorems, WellFoundedInduction, TLAPS

-----------------------------------------------------------------------------
(* The memory and string primitives. *)

Done == call.n - cx
Swapped == call.n \div 2 - cx

(* The bytes of the destination that a call has got to. *)
Filled ==
  CASE pc \in {"copy", "store", "xor"} /\ ~df -> Bytes(call.dst, Done)
    [] pc = "swap" \/ (pc = "copy" /\ df) -> call.dst + cx .. call.dst + call.n - 1
    [] pc = "swap_pair" -> Bytes(call.dst, Swapped)
                             \cup (call.dst + call.n - Swapped .. call.dst + call.n - 1)
    [] pc = "return" -> Bytes(call.dst, call.n)
    [] OTHER -> {}

Loops == {"copy", "store", "xor", "scan", "compare", "swap", "swap_pair"}
Ops == {"none", "memcpy", "memmove", "memset", "memxor", "strlen", "memcmp", "bswap",
        "bswap_inplace"}

TypeInv ==
  /\ pc \in Loops \cup {"idle", "return"}
  /\ si \in Address /\ di \in Address /\ cx \in Address
  /\ mem = [a \in Address |-> mem[a]] /\ old = [a \in Address |-> old[a]]
  /\ call.op \in Ops /\ call.dst \in Address /\ call.src \in Address /\ call.n \in Address

(* A loop is that of its call, whose objects are where they may be. *)
CallInv ==
  /\ pc = "copy" => call.op \in {"memcpy", "memmove"}
  /\ pc = "store" => call.op = "memset"
  /\ pc = "xor" => call.op = "memxor"
  /\ pc = "scan" => call.op = "strlen"
  /\ pc = "compare" => call.op = "memcmp"
  /\ pc = "swap" => call.op = "bswap"
  /\ pc = "swap_pair" => call.op = "bswap_inplace"
  /\ call.op # "strlen" => Object(call.dst, call.n) /\ Object(call.src, call.n)
  /\ call.op \in {"memcpy", "memcmp", "bswap"} => Apart(call.dst, call.src, call.n)
  /\ call.op \in {"strlen", "memset", "memxor", "bswap_inplace"} => call.src = call.dst
  /\ call.op = "strlen" => call.n = 0

(* Only memmove sets the direction flag: where the destination begins      *)
(* within the source, and nowhere else.                                    *)
Within == (call.dst - call.src) % M < call.n

DirectionInv ==
  /\ df => pc \in {"copy", "return"} /\ call.op = "memmove" /\ call.n > 0
  /\ pc = "copy" /\ call.op = "memmove" => (df <=> Within)

(* Where a loop is in its objects. *)
LoopInv ==
  /\ pc \in {"copy", "store", "xor", "compare", "swap"} => cx \in 1 .. call.n
  /\ pc = "copy" =>
       IF df THEN di = call.dst + cx - 1 /\ si = call.src + cx - 1
             ELSE di = call.dst + Done /\ si = call.src + Done
  /\ pc \in {"store", "xor", "compare"} => di = call.dst + Done
  /\ pc \in {"xor", "compare", "swap"} => si = call.src + Done
  /\ pc = "swap" => di = (call.dst + cx) % M
  /\ pc = "swap_pair" =>
       /\ cx \in 1 .. call.n \div 2
       /\ si = call.dst + Swapped
       /\ di = (call.dst + call.n - Swapped) % M
  /\ pc = "scan" =>
       /\ call.src <= si
       /\ cx = (si - call.src - 1) % M
       /\ \E a \in si .. M - 1 : old[a] = NUL

(* What the loops that only look have seen, and find: memcmp in AL. *)
ResultAl ==
  pc = "return" =>
    /\ call.op = "strlen" =>
         /\ old[call.src + cx] = NUL
         /\ \A k \in 0 .. cx - 1 : old[call.src + k] # NUL
    /\ call.op = "memcmp" => (al = NUL <=> Same)

SeenInv ==
  /\ pc = "scan" => \A a \in call.src .. si - 1 : old[a] # NUL
  /\ pc = "compare" => \A k \in 0 .. Done - 1 : old[call.src + k] = old[call.dst + k]
  /\ ResultAl

MemInv ==
  pc # "idle" => mem = [a \in Address |-> IF a \in Filled THEN Wanted(a) ELSE old[a]]

IndInv == TypeInv /\ CallInv /\ DirectionInv /\ LoopInv /\ SeenInv /\ MemInv

-----------------------------------------------------------------------------
(* Registers that wrap. *)
LEMMA Wrap ==
  /\ M \in Nat /\ M > 1 /\ Address = 0 .. M - 1
  /\ \A x \in Int : x % M \in Address
  /\ \A x \in Address : x % M = x
  /\ M % M = 0
  /\ \A x \in Int : -M <= x /\ x < 0 => x % M = x + M
<1>1. M \in Nat /\ M > 1 /\ Address = 0 .. M - 1
  BY MemOpsAssumption DEF Address
<1>2. \A x \in Int : x % M \in Address
  BY <1>1
<1>3. \A x \in Address : x % M = x
  BY <1>1
<1>4. ASSUME NEW x \in Int, NEW q \in Int, q * M <= x, x < q * M + M
      PROVE  x % M = x - q * M
  <2>1. x \div M \in Int /\ x % M \in 0 .. M - 1 /\ x = (x \div M) * M + (x % M)
    BY <1>1
  <2> DEFINE d == x \div M
             r == x % M
  <2> HIDE DEF d, r
  <2>2. d \in Int /\ r \in 0 .. M - 1 /\ x = d * M + r
    BY <2>1 DEF d, r
  <2>3. ASSUME d >= q + 1
        PROVE  FALSE
    <3>1. d * M >= (q + 1) * M /\ (q + 1) * M = q * M + M
      BY <1>1, <2>2, <2>3
    <3>2. d * M \in Int /\ q * M \in Int
      BY <1>1, <2>2
    <3> QED
      BY <1>1, <1>4, <2>2, <3>1, <3>2
  <2>4. ASSUME q >= d + 1
        PROVE  FALSE
    <3>1. q * M >= (d + 1) * M /\ (d + 1) * M = d * M + M
      BY <1>1, <2>2, <2>4
    <3>2. d * M \in Int /\ q * M \in Int
      BY <1>1, <2>2
    <3> QED
      BY <1>1, <1>4, <2>2, <3>1, <3>2
  <2>5. d = q
    BY <2>2, <2>3, <2>4
  <2>6. r = x - q * M
    <3>1. q * M \in Int
      BY <1>1
    <3> QED
      BY <2>2, <2>5, <3>1
  <2> QED
    BY <2>6 DEF r
<1>5. M % M = 0
  BY <1>1, <1>4, 1 * M = M, 1 \in Int, M \in Int
<1>6. ASSUME NEW x \in Int, -M <= x, x < 0
      PROVE  x % M = x + M
  <2>1. (-1) * M = -M
    BY <1>1
  <2>2. -1 \in Int /\ (-1) * M <= x /\ x < (-1) * M + M
    BY <1>1, <1>6, <2>1
  <2>3. x % M = x - (-1) * M
    BY <1>4, <2>2
  <2> QED
    BY <1>1, <2>1, <2>3
<1> QED
  BY <1>1, <1>2, <1>3, <1>5, <1>6

LEMMA Segment ==
  /\ M \in Nat /\ M > 1
  /\ \A x \in Address : x \in Nat /\ x < M
  /\ \A x \in Nat : x < M => x \in Address
BY MemOpsAssumption DEF Address

LEMMA Distance ==
  ASSUME NEW d \in Address, NEW s \in Address
  PROVE  /\ s <= d => (d - s) % M = d - s
         /\ d < s => (d - s) % M = (d - s) + M
<1> DEFINE x == d - s
<1>1. x \in Int /\ -M <= x /\ (s <= d => x \in Nat /\ x < M) /\ (d < s => x < 0)
  BY Segment
<1> HIDE DEF x
<1>2. (s <= d => x % M = x) /\ (d < s => x % M = x + M)
  BY <1>1, Segment, Wrap
<1> QED
  BY <1>2 DEF x

(* A call changes nothing before its first turn. *)
LEMMA EnterIs ==
  ASSUME NEW op \in Ops, NEW dst \in Address, NEW src \in Address, NEW n \in Address,
         NEW loop, Enter(op, dst, src, n, loop), Filled' = {}
  PROVE  /\ pc' = loop
         /\ call'.op = op /\ call'.dst = dst /\ call'.src = src /\ call'.n = n
         /\ mem' = [a \in Address |-> mem'[a]] /\ old' = [a \in Address |-> old'[a]]
         /\ MemInv'
<1>1. /\ call' = [op |-> op, dst |-> dst, src |-> src, n |-> n, ah |-> ah']
      /\ old' \in [Address -> Byte] /\ mem' = old' /\ pc' = loop
  BY DEF Enter
<1>2. mem' = [a \in Address |-> mem'[a]] /\ old' = [a \in Address |-> old'[a]]
  BY <1>1
<1>3. MemInv'
  BY <1>1, <1>2 DEF MemInv
<1> QED
  BY <1>1, <1>2, <1>3

LEMMA Nothing ==
  /\ \A p \in Int : Bytes(p, 0) = {} /\ p .. p - 1 = {}
  /\ \A n \in Int : n - n = 0
BY DEF Bytes

(* Calls of one object or of two, with the loop at their start.            *)
LEMMA CopyCalls ==
  ASSUME ~df, NEW dst \in Address, NEW src \in Address, NEW n \in Address,
         Memcpy(dst, src, n) \/ Memmove(dst, src, n)
  PROVE  IndInv'
<1>1. PICK o \in {"memcpy", "memmove"} :
        /\ Enter(o, dst, src, n, Guarded(n, "copy"))
        /\ Object(dst, n) /\ Object(src, n)
        /\ o = "memcpy" => /\ Apart(dst, src, n) /\ df' = df
                           /\ di' = dst /\ si' = src
        /\ o = "memmove" =>
             LET b == n > 0 /\ (dst - src) % M < n
                 l == IF b THEN n - 1 ELSE 0
             IN  df' = (df \/ b) /\ di' = (dst + l) % M /\ si' = (src + l) % M
        /\ cx' = n
  BY DEF Memcpy, Memmove, MemmoveFrom
<1> DEFINE back == o = "memmove" /\ n > 0 /\ (dst - src) % M < n
           last == IF back THEN n - 1 ELSE 0
<1>2. o \in Ops
  BY DEF Ops
<1>3. n \in Nat /\ dst \in Nat /\ src \in Nat /\ M \in Nat /\ dst < M /\ src < M
      /\ dst + n <= M /\ src + n <= M
  BY <1>1, Wrap DEF Object
<1>4. df' <=> back
  <2>1. CASE o = "memcpy"
    BY <1>1, <2>1
  <2>2. CASE o = "memmove"
    <3>1. df' = (df \/ (n > 0 /\ (dst - src) % M < n))
      BY <1>1, <2>2
    <3> QED
      BY <2>2, <3>1, Zenon
  <2> QED
    BY <2>1, <2>2
<1>5. di' = dst + last /\ si' = src + last
  <2>1. last \in Nat /\ dst + last \in Address /\ src + last \in Address
    BY <1>3, Wrap
  <2>2. (dst + last) % M = dst + last /\ (src + last) % M = src + last
    BY <2>1, Wrap
  <2>3. CASE o = "memcpy"
    BY <1>1, <1>2, <1>3, <2>3
  <2>4. CASE o = "memmove"
    BY <1>1, <1>2, <2>2, <2>4
  <2> QED
    BY <2>3, <2>4
<1>6. /\ call' = [op |-> o, dst |-> dst, src |-> src, n |-> n, ah |-> ah']
      /\ pc' = IF n = 0 THEN "return" ELSE "copy"
  BY <1>1 DEF Enter, Guarded
<1>7. Filled' = {}
  <2>1. Done' = 0 /\ (n = 0 => Bytes(dst, n) = {}) /\ Bytes(dst, 0) = {}
        /\ dst + n .. dst + n - 1 = {}
    BY <1>1, <1>3, <1>6, Nothing DEF Done
  <2> QED
    BY <1>1, <1>6, <2>1 DEF Filled
<1>8. /\ call'.op = o /\ call'.dst = dst /\ call'.src = src /\ call'.n = n
      /\ mem' = [a \in Address |-> mem'[a]] /\ old' = [a \in Address |-> old'[a]]
      /\ MemInv'
  BY <1>1, <1>2, <1>7, EnterIs
<1>9. TypeInv'
  <2>1. dst + last \in Address /\ src + last \in Address
    BY <1>3, Wrap
  <2> QED
    BY <1>1, <1>2, <1>5, <1>6, <1>8, <2>1 DEF TypeInv, Loops
<1>10. CallInv'
  BY <1>1, <1>6, <1>8 DEF CallInv
<1>11. DirectionInv'
  <2>1. Within' <=> (dst - src) % M < n
    BY <1>8 DEF Within
  <2>2. pc' = "copy" => n > 0
    BY <1>3, <1>6
  <2>3. pc' \in {"copy", "return"}
    BY <1>6
  <2> QED
    BY <1>4, <1>8, <2>1, <2>2, <2>3, Zenon DEF DirectionInv
<1>12. LoopInv'
  <2>1. Done' = 0
    BY <1>1, <1>3, <1>8 DEF Done
  <2>2. /\ back => di' = dst + n - 1 /\ si' = src + n - 1
        /\ ~back => di' = dst + 0 /\ si' = src + 0
    BY <1>3, <1>5
  <2>3. pc' = "copy" => cx' \in 1 .. n
    BY <1>1, <1>3, <1>6
  <2>4. pc' \in {"copy", "return"}
    BY <1>6
  <2> HIDE DEF back
  <2> QED
    BY <1>1, <1>4, <1>8, <2>1, <2>2, <2>3, <2>4 DEF LoopInv
<1>13. SeenInv'
  BY <1>1, <1>6, <1>8 DEF SeenInv, ResultAl
<1> QED
  BY <1>8, <1>9, <1>10, <1>11, <1>12, <1>13 DEF IndInv

LEMMA FillCalls ==
  ASSUME TypeInv, ~df, NEW s \in Address, NEW c, NEW n \in Address,
         Memset(s, c, n) \/ Memxor(s, c, n)
  PROVE  IndInv'
<1>1. PICK o \in {"memset", "memxor"} :
        /\ Enter(o, s, s, n, Guarded(n, IF o = "memset" THEN "store" ELSE "xor"))
        /\ Object(s, n)
        /\ o = "memset" => di' = s /\ si' = si
        /\ o = "memxor" => si' = s /\ di' = IF n = 0 THEN di ELSE s
        /\ cx' = n /\ ~df'
  BY DEF Memset, Memxor
<1>2. n \in Nat /\ s \in Nat /\ M \in Nat /\ s < M /\ s + n <= M
  BY <1>1, Wrap DEF Object
<1>3. /\ call' = [op |-> o, dst |-> s, src |-> s, n |-> n, ah |-> ah']
      /\ pc' = IF n = 0 THEN "return" ELSE IF o = "memset" THEN "store" ELSE "xor"
  BY <1>1 DEF Enter, Guarded
<1>4. Filled' = {}
  <2>1. Done' = 0 /\ (n = 0 => Bytes(s, n) = {}) /\ Bytes(s, 0) = {}
    BY <1>1, <1>2, <1>3, Nothing DEF Done
  <2> QED
    BY <1>1, <1>3, <2>1 DEF Filled
<1>5. /\ call'.op = o /\ call'.dst = s /\ call'.src = s /\ call'.n = n
      /\ mem' = [a \in Address |-> mem'[a]] /\ old' = [a \in Address |-> old'[a]]
      /\ MemInv'
  BY <1>1, <1>4, EnterIs DEF Ops
<1>6. TypeInv'
  BY <1>1, <1>3, <1>5 DEF TypeInv, Loops, Ops
<1>7. CallInv'
  BY <1>1, <1>3, <1>5 DEF CallInv
<1>8. DirectionInv'
  BY <1>1, <1>3, <1>5 DEF DirectionInv
<1>9. LoopInv'
  <2>1. Done' = 0
    BY <1>1, <1>2, <1>5 DEF Done
  <2> QED
    BY <1>1, <1>2, <1>3, <1>5, <2>1 DEF LoopInv
<1>10. SeenInv'
  BY <1>1, <1>3, <1>5 DEF SeenInv, ResultAl
<1> QED
  BY <1>5, <1>6, <1>7, <1>8, <1>9, <1>10 DEF IndInv

LEMMA StrlenCall ==
  ASSUME TypeInv, ~df, NEW str \in Address, Strlen(str)
  PROVE  IndInv'
<1>1. /\ Enter("strlen", str, str, 0, "scan")
      /\ \E a \in str .. M - 1 : old'[a] = NUL
      /\ si' = str /\ cx' = M - 1 /\ UNCHANGED <<di, al, bl, df>>
  BY DEF Strlen
<1>2. str \in Nat /\ M \in Nat /\ M > 1 /\ 0 \in Address /\ M - 1 \in Address
  BY Wrap
<1>3. Filled' = {}
  BY <1>1 DEF Filled, Enter
<1>4. /\ pc' = "scan"
      /\ call'.op = "strlen" /\ call'.dst = str /\ call'.src = str /\ call'.n = 0
      /\ mem' = [a \in Address |-> mem'[a]] /\ old' = [a \in Address |-> old'[a]]
      /\ MemInv'
  BY <1>1, <1>2, <1>3, EnterIs DEF Ops
<1>5. TypeInv'
  BY <1>1, <1>2, <1>4 DEF TypeInv, Loops, Ops
<1>6. CallInv' /\ DirectionInv'
  BY <1>1, <1>4 DEF CallInv, DirectionInv
<1>7. LoopInv'
  <2>1. str - str - 1 = -1 /\ -1 \in Int /\ -M <= -1 /\ -1 < 0 /\ -1 + M = M - 1
    BY <1>2
  <2>2. (-1) % M = M - 1
    BY <2>1, Wrap
  <2> QED
    BY <1>1, <1>2, <1>4, <2>1, <2>2 DEF LoopInv
<1>8. SeenInv'
  BY <1>1, <1>2, <1>4 DEF SeenInv, ResultAl
<1> QED
  BY <1>4, <1>5, <1>6, <1>7, <1>8 DEF IndInv

LEMMA MemcmpCall ==
  ASSUME ~df, NEW m1 \in Address, NEW m2 \in Address, NEW n \in Address, Memcmp(m1, m2, n)
  PROVE  IndInv'
<1>1. /\ n > 0 /\ Object(m1, n) /\ Object(m2, n) /\ Apart(m2, m1, n)
      /\ Enter("memcmp", m2, m1, n, "compare")
      /\ si' = m1 /\ di' = m2 /\ cx' = n /\ UNCHANGED <<al, bl, df>>
  BY DEF Memcmp, Apart
<1>2. n \in Nat /\ m1 \in Nat /\ m2 \in Nat
  BY Wrap
<1>3. Filled' = {}
  BY <1>1 DEF Filled, Enter
<1>4. /\ pc' = "compare"
      /\ call'.op = "memcmp" /\ call'.dst = m2 /\ call'.src = m1 /\ call'.n = n
      /\ mem' = [a \in Address |-> mem'[a]] /\ old' = [a \in Address |-> old'[a]]
      /\ MemInv'
  BY <1>1, <1>3, EnterIs DEF Ops
<1>5. TypeInv'
  BY <1>1, <1>4 DEF TypeInv, Loops, Ops
<1>6. CallInv' /\ DirectionInv'
  BY <1>1, <1>4 DEF CallInv, DirectionInv
<1>7. Done' = 0
  BY <1>1, <1>2, <1>4 DEF Done
<1>8. LoopInv'
  BY <1>1, <1>2, <1>4, <1>7 DEF LoopInv
<1>9. SeenInv'
  BY <1>4, <1>7 DEF SeenInv, ResultAl
<1> QED
  BY <1>4, <1>5, <1>6, <1>8, <1>9 DEF IndInv

LEMMA SwapCalls ==
  ASSUME ~df, NEW dst \in Address, NEW src \in Address, NEW n \in Address,
         Bswap(dst, src, n) \/ (BswapInplace(dst, n) /\ src = dst)
  PROVE  IndInv'
<1>1. PICK o \in {"bswap", "bswap_inplace"} :
        /\ Enter(o, dst, src, n, IF o = "bswap" THEN "swap" ELSE "swap_pair")
        /\ n > 0 /\ Object(dst, n) /\ Object(src, n)
        /\ o = "bswap" => Apart(dst, src, n) /\ cx' = n
        /\ o = "bswap_inplace" => src = dst /\ n > 1 /\ cx' = n \div 2
        /\ di' = (dst + n) % M /\ si' = src /\ UNCHANGED <<al, bl, df>>
  <2>1. n \in Nat
    BY Wrap
  <2>2. CASE Bswap(dst, src, n)
    <3> "bswap" \in {"bswap", "bswap_inplace"}
      OBVIOUS
    <3> QED
      BY <2>2 DEF Bswap
  <2>3. CASE BswapInplace(dst, n) /\ src = dst
    <3>1. n > 0
      BY <2>1, <2>3 DEF BswapInplace
    <3> "bswap_inplace" \in {"bswap", "bswap_inplace"}
      OBVIOUS
    <3> QED
      BY <2>3, <3>1 DEF BswapInplace
  <2> QED
    BY <2>2, <2>3
<1>2. n \in Nat /\ dst \in Nat /\ src \in Nat /\ M \in Nat /\ dst < M /\ src < M /\ n < M
  BY Wrap
<1>3. n \div 2 \in Nat /\ n \div 2 <= n /\ (n > 1 => n \div 2 > 0)
  BY <1>2
<1>4. cx' \in Address /\ di' \in Address /\ cx' > 0
  <2>1. dst + n \in Int
    BY <1>2
  <2>2. di' \in Address
    BY <1>1, <2>1, Wrap
  <2>3. cx' = n \/ (cx' = n \div 2 /\ n > 1)
    BY <1>1
  <2>4. n \div 2 \in Address /\ n \in Address
    BY <1>2, <1>3, Wrap
  <2>5. cx' > 0
    BY <1>1, <1>3, <2>3
  <2> QED
    BY <2>2, <2>3, <2>4, <2>5
<1>5. /\ call' = [op |-> o, dst |-> dst, src |-> src, n |-> n, ah |-> ah']
      /\ pc' = IF o = "bswap" THEN "swap" ELSE "swap_pair"
  BY <1>1 DEF Enter
<1>6. (o = "bswap_inplace" => Swapped' = 0) /\ (o = "bswap" => Done' = 0)
  BY <1>1, <1>2, <1>3, <1>5 DEF Swapped, Done
<1>7. Filled' = {}
  <2>1. /\ dst + n .. dst + n - 1 = {} /\ Bytes(dst, 0) = {}
        /\ dst + n - 0 .. dst + n - 1 = {}
    BY <1>2, Nothing
  <2>2. CASE o = "bswap"
    BY <1>1, <1>5, <2>1, <2>2 DEF Filled
  <2>3. CASE o = "bswap_inplace"
    BY <1>5, <1>6, <2>1, <2>3 DEF Filled
  <2> QED
    BY <2>2, <2>3
<1>8. /\ call'.op = o /\ call'.dst = dst /\ call'.src = src /\ call'.n = n
      /\ mem' = [a \in Address |-> mem'[a]] /\ old' = [a \in Address |-> old'[a]]
      /\ MemInv'
  BY <1>1, <1>7, EnterIs DEF Ops
<1>9. TypeInv'
  BY <1>1, <1>4, <1>5, <1>8 DEF TypeInv, Loops, Ops
<1>10. CallInv' /\ DirectionInv'
  BY <1>1, <1>5, <1>8 DEF CallInv, DirectionInv
<1>11. LoopInv'
  <2>1. dst + 0 = dst /\ src + 0 = src /\ dst + n - 0 = dst + n
    BY <1>2
  <2>2. CASE o = "bswap"
    BY <1>1, <1>2, <1>5, <1>6, <1>8, <2>1, <2>2 DEF LoopInv
  <2>3. CASE o = "bswap_inplace"
    BY <1>1, <1>2, <1>3, <1>5, <1>6, <1>8, <2>1, <2>3 DEF LoopInv
  <2> QED
    BY <2>2, <2>3
<1>12. SeenInv'
  BY <1>5 DEF SeenInv, ResultAl
<1> QED
  BY <1>8, <1>9, <1>10, <1>11, <1>12 DEF IndInv

-----------------------------------------------------------------------------
(* A turn of a loop. *)
LEMMA CallIs ==
  ASSUME TypeInv, CallInv
  PROVE  /\ call.n \in Nat /\ call.dst \in Nat /\ call.src \in Nat /\ M \in Nat
         /\ call.n < M /\ call.dst < M /\ call.src < M
         /\ call.op # "strlen" => call.dst + call.n <= M /\ call.src + call.n <= M
<1>1. call.n \in Address /\ call.dst \in Address /\ call.src \in Address
  BY DEF TypeInv
<1>2. call.op # "strlen" => call.dst + call.n <= M /\ call.src + call.n <= M
  BY DEF CallInv, Object
<1> QED
  BY <1>1, <1>2, Segment

LEMMA LoopIs ==
  ASSUME TypeInv, CallInv, cx \in 1 .. call.n, Loop, UNCHANGED call
  PROVE  /\ cx' = cx - 1 /\ cx' \in Address /\ Done' = Done + 1
         /\ Done \in Nat /\ Done + cx = call.n
         /\ pc' = IF cx = 1 THEN "return" ELSE pc
<1>1. call.n \in Nat /\ call.n < M /\ cx \in Nat /\ cx >= 1 /\ cx <= call.n
  BY CallIs
<1>2. cx - 1 \in Address
  BY <1>1, Segment
<1>3. cx' = cx - 1 /\ pc' = IF cx' = 0 THEN "return" ELSE pc
  BY <1>2, Wrap DEF Loop
<1> QED
  BY <1>1, <1>2, <1>3 DEF Done

LEMMA WantedSame ==
  ASSUME UNCHANGED <<call, old, bl>>, call.op = "memset" => UNCHANGED al
  PROVE  \A a : Wanted(a)' = Wanted(a)
BY DEF Wanted

(* A turn that writes the next byte of the destination. *)
LEMMA WriteKeeps ==
  ASSUME TypeInv, MemInv, pc # "idle", NEW x \in Address, NEW v,
         mem' = [mem EXCEPT ![x] = v], UNCHANGED <<call, old, bl>>,
         call.op = "memset" => UNCHANGED al,
         Filled' = Filled \cup {x}, v = Wanted(x)
  PROVE  MemInv' /\ mem' = [a \in Address |-> mem'[a]]
<1>1. /\ mem = [a \in Address |-> mem[a]]
      /\ mem = [a \in Address |-> IF a \in Filled THEN Wanted(a) ELSE old[a]]
  BY DEF TypeInv, MemInv
<1>2. mem' = [a \in Address |-> IF a = x THEN Wanted(x) ELSE mem[a]]
  BY <1>1
<1>3. mem' = [a \in Address |-> IF a \in Filled \cup {x} THEN Wanted(a) ELSE old[a]]
  BY <1>1, <1>2
<1>4. \A a : Wanted(a)' = Wanted(a)
  BY WantedSame
<1>5. mem' = [a \in Address |-> IF a \in Filled' THEN Wanted(a)' ELSE old'[a]]
  BY <1>3, <1>4
<1> QED
  BY <1>2, <1>5 DEF MemInv

(* What has not been written is as it was. *)
LEMMA Unwritten ==
  ASSUME TypeInv, MemInv, pc # "idle", NEW a \in Address, a \notin Filled
  PROVE  mem[a] = old[a]
BY DEF MemInv

LEMMA CallStays ==
  ASSUME CallInv, UNCHANGED call, pc' = pc \/ pc' = "return"
  PROVE  CallInv'
BY DEF CallInv

LEMMA DirectionStays ==
  ASSUME DirectionInv, UNCHANGED <<call, df>>, pc' = pc \/ pc' = "return", pc # "copy" => pc' # "copy"
  PROVE  DirectionInv'
BY DEF DirectionInv, Within

LEMMA WalkIs ==
  \A x \in Address :
    /\ Walk(x) \in Address
    /\ ~df /\ x + 1 < M => Walk(x) = x + 1
    /\ df /\ x > 0 => Walk(x) = x - 1
<1> SUFFICES ASSUME NEW x \in Address
             PROVE  /\ Walk(x) \in Address
                    /\ ~df /\ x + 1 < M => Walk(x) = x + 1
                    /\ df /\ x > 0 => Walk(x) = x - 1
  OBVIOUS
<1>1. x \in Nat /\ x + 1 \in Int /\ x - 1 \in Int
      /\ (x + 1 < M => x + 1 \in Address) /\ (x > 0 => x - 1 \in Address)
  BY Wrap
<1>2. CASE df
  BY <1>1, <1>2, Wrap DEF Walk
<1>3. CASE ~df
  BY <1>1, <1>3, Wrap DEF Walk
<1> QED
  BY <1>2, <1>3

LEMMA CopyByteKeeps ==
  ASSUME IndInv, CopyByte
  PROVE  IndInv'
<1> DEFINE d == call.dst
           s == call.src
           n == call.n
<1>1. /\ pc = "copy" /\ al' = mem[si] /\ mem' = [mem EXCEPT ![di] = mem[si]]
      /\ si' = Walk(si) /\ di' = Walk(di) /\ Loop /\ UNCHANGED <<bl, df, call, old>>
  BY DEF CopyByte
<1>2. TypeInv /\ CallInv /\ DirectionInv /\ LoopInv /\ MemInv
  BY DEF IndInv
<1>3. cx \in 1 .. n /\ call.op \in {"memcpy", "memmove"}
  BY <1>1, <1>2 DEF LoopInv, CallInv
<1>4. /\ cx' = cx - 1 /\ cx' \in Address /\ Done' = Done + 1
      /\ Done \in Nat /\ Done + cx = n
      /\ pc' = IF cx = 1 THEN "return" ELSE "copy"
  BY <1>1, <1>2, <1>3, LoopIs
<1>5. /\ n \in Nat /\ d \in Nat /\ s \in Nat /\ M \in Nat /\ n < M /\ d < M /\ s < M
      /\ d + n <= M /\ s + n <= M /\ d \in Address /\ s \in Address
  BY <1>2, <1>3, CallIs DEF TypeInv
<1>6. si \in Address /\ di \in Address /\ si' \in Address /\ di' \in Address
  BY <1>1, <1>2, WalkIs DEF TypeInv
<1>7. \/ /\ ~df /\ di = d + Done /\ si = s + Done
         /\ Filled = d .. d + Done - 1
      \/ /\ df /\ di = d + cx - 1 /\ si = s + cx - 1
         /\ Filled = d + cx .. d + n - 1
  BY <1>1, <1>2 DEF LoopInv, Filled, Bytes
<1>8. /\ call.op = "memcpy" => ~df /\ (d .. d + n - 1) \cap (s .. s + n - 1) = {}
      /\ call.op = "memmove" => (df <=> (d - s) % M < n)
  BY <1>1, <1>2 DEF DirectionInv, CallInv, Apart, Bytes, Within
<1>9. si \notin Filled
  <2>1. CASE call.op = "memcpy"
    <3>1. ~df /\ si = s + Done /\ Filled = d .. d + Done - 1
      BY <1>7, <1>8, <2>1
    <3>2. ASSUME si \in Filled
          PROVE  FALSE
      <4> HIDE DEF d, s, n
      <4>1. si \in d .. d + n - 1 /\ si \in s .. s + n - 1
        BY <1>3, <1>4, <1>5, <3>1, <3>2
      <4> QED
        BY <1>8, <2>1, <4>1
    <3> QED
      BY <3>2
  <2>2. CASE call.op = "memmove" /\ ~df
    <3>1. ~((d - s) % M < n)
      BY <1>8, <2>2
    <3>2. s < d => (d - s) % M = d - s
      BY <1>5, Distance
    <3> HIDE DEF d, s, n
    <3> QED
      BY <1>3, <1>4, <1>5, <1>7, <2>2, <3>1, <3>2
  <2>3. CASE call.op = "memmove" /\ df
    <3>1. (d - s) % M < n
      BY <1>8, <2>3
    <3>2. d < s => (d - s) % M = (d - s) + M
      BY <1>5, Distance
    <3> HIDE DEF d, s, n
    <3> QED
      BY <1>3, <1>5, <1>7, <2>3, <3>1, <3>2
  <2> QED
    BY <1>3, <2>1, <2>2, <2>3
<1>10. mem[si] = Wanted(di)
  <2>1. mem[si] = old[si]
    BY <1>1, <1>2, <1>6, <1>9, Unwritten
  <2>2. si = s + (di - d)
    BY <1>3, <1>4, <1>5, <1>7
  <2> QED
    BY <1>3, <2>1, <2>2 DEF Wanted
<1>11. Filled' = Filled \cup {di}
  <2>1. /\ ~df => Filled' = d .. d + Done
        /\ df => Filled' = d + cx - 1 .. d + n - 1
    <3>1. d + Done + 1 - 1 = d + Done /\ d + (Done + 1) - 1 = d + Done /\ d + (cx - 1) = d + cx - 1
          /\ (cx = 1 => d + cx - 1 = d /\ d + n - 1 = d + Done)
      BY <1>3, <1>4, <1>5
    <3>2. CASE cx = 1
      BY <1>1, <1>4, <3>1, <3>2 DEF Filled, Bytes
    <3>3. CASE cx # 1 /\ ~df
      BY <1>1, <1>4, <3>1, <3>3 DEF Filled, Bytes
    <3>4. CASE cx # 1 /\ df
      BY <1>1, <1>4, <3>1, <3>4 DEF Filled
    <3> QED
      BY <3>2, <3>3, <3>4
  <2>2. /\ d .. d + Done = (d .. d + Done - 1) \cup {d + Done}
        /\ d + cx - 1 .. d + n - 1 = (d + cx .. d + n - 1) \cup {d + cx - 1}
    BY <1>3, <1>4, <1>5
  <2> QED
    BY <1>7, <2>1, <2>2
<1>12. MemInv' /\ mem' = [a \in Address |-> mem'[a]]
  BY <1>1, <1>2, <1>3, <1>6, <1>10, <1>11, WriteKeeps
<1>13. TypeInv'
  BY <1>1, <1>2, <1>4, <1>6, <1>12 DEF TypeInv, Loops
<1>14. CallInv' /\ DirectionInv'
  BY <1>1, <1>2, <1>4, CallStays DEF DirectionInv, Within
<1>15. LoopInv'
  <2>1. ASSUME cx # 1
        PROVE  /\ cx' \in 1 .. n
               /\ IF df THEN di' = d + (cx - 1) - 1 /\ si' = s + (cx - 1) - 1
                        ELSE di' = d + (Done + 1) /\ si' = s + (Done + 1)
    <3> HIDE DEF d, s, n
    <3>1. cx \in Int /\ Done \in Int
      BY <1>3, <1>4
    <3>2. cx' \in 1 .. n
      BY <1>3, <1>4, <1>5, <2>1
    <3>3. CASE ~df
      <4>1. di + 1 < M /\ si + 1 < M
        <5>1. di = d + Done /\ si = s + Done
          BY <1>7, <3>3
        <5>2. Done + 1 < n
          BY <1>3, <1>4, <1>5, <2>1
        <5> QED
          BY <1>4, <1>5, <5>1, <5>2
      <4>2. di' = di + 1 /\ si' = si + 1
        BY <1>1, <1>6, <3>3, <4>1, WalkIs
      <4> QED
        <5>1. di = d + Done /\ si = s + Done
          BY <1>7, <3>3
        <5> QED
          BY <1>4, <1>5, <3>2, <3>3, <4>2, <5>1
    <3>4. CASE df
      <4>1. di > 0 /\ si > 0
        BY <1>3, <1>5, <1>7, <2>1, <3>4
      <4>2. di' = di - 1 /\ si' = si - 1
        BY <1>1, <1>6, <3>4, <4>1, WalkIs
      <4> QED
        <5>1. di = d + cx - 1 /\ si = s + cx - 1
          BY <1>7, <3>4
        <5> QED
          BY <1>5, <3>1, <3>2, <3>4, <4>2, <5>1
    <3> QED
      BY <3>3, <3>4
  <2> QED
    BY <1>1, <1>4, <2>1 DEF LoopInv
<1>16. SeenInv'
  BY <1>1, <1>3, <1>4 DEF SeenInv, ResultAl
<1> QED
  BY <1>12, <1>13, <1>14, <1>15, <1>16 DEF IndInv

LEMMA StoreByteKeeps ==
  ASSUME IndInv, StoreByte
  PROVE  IndInv'
<1> DEFINE d == call.dst
           n == call.n
<1>1. /\ pc = "store" /\ mem' = [mem EXCEPT ![di] = al]
      /\ di' = Walk(di) /\ Loop /\ UNCHANGED <<si, al, bl, df, call, old>>
  BY DEF StoreByte
<1>2. TypeInv /\ CallInv /\ DirectionInv /\ LoopInv /\ MemInv
  BY DEF IndInv
<1>3. cx \in 1 .. n /\ call.op = "memset" /\ ~df /\ di = d + Done /\ Filled = d .. d + Done - 1
  BY <1>1, <1>2 DEF LoopInv, CallInv, DirectionInv, Filled, Bytes
<1>4. /\ cx' = cx - 1 /\ cx' \in Address /\ Done' = Done + 1
      /\ Done \in Nat /\ Done + cx = n
      /\ pc' = IF cx = 1 THEN "return" ELSE "store"
  BY <1>1, <1>2, <1>3, LoopIs
<1>5. n \in Nat /\ d \in Nat /\ M \in Nat /\ d + n <= M
  BY <1>2, <1>3, CallIs
<1>6. di \in Address /\ di' \in Address
  BY <1>1, <1>2, WalkIs DEF TypeInv
<1>7. al = Wanted(di)
  BY <1>3 DEF Wanted
<1>8. Filled' = Filled \cup {di}
  <2>1. d + (Done + 1) - 1 = d + Done /\ (cx = 1 => d + n - 1 = d + Done)
    BY <1>4, <1>5
  <2>2. Filled' = d .. d + Done
    <3>1. CASE cx = 1
      BY <1>1, <1>4, <2>1, <3>1 DEF Filled, Bytes
    <3>2. CASE cx # 1
      BY <1>1, <1>3, <1>4, <2>1, <3>2 DEF Filled, Bytes
    <3> QED
      BY <3>1, <3>2
  <2>3. d .. d + Done = (d .. d + Done - 1) \cup {d + Done}
    BY <1>4, <1>5
  <2> QED
    BY <1>3, <2>2, <2>3
<1>9. MemInv' /\ mem' = [a \in Address |-> mem'[a]]
  BY <1>1, <1>2, <1>6, <1>7, <1>8, WriteKeeps
<1>10. TypeInv'
  BY <1>1, <1>2, <1>4, <1>6, <1>9 DEF TypeInv, Loops
<1>11. CallInv' /\ DirectionInv'
  BY <1>1, <1>2, <1>3, <1>4, CallStays DEF DirectionInv
<1>12. LoopInv'
  <2>1. ASSUME cx # 1
        PROVE  cx' \in 1 .. n /\ di' = d + (Done + 1)
    <3> HIDE DEF d, n
    <3>1. cx' \in 1 .. n /\ di + 1 < M /\ cx \in Int
      BY <1>3, <1>4, <1>5, <2>1
    <3>2. di' = di + 1
      BY <1>1, <1>3, <1>6, <3>1, WalkIs
    <3> QED
      BY <1>3, <1>4, <1>5, <3>1, <3>2
  <2> QED
    BY <1>1, <1>4, <2>1 DEF LoopInv
<1>13. SeenInv'
  BY <1>1, <1>3, <1>4 DEF SeenInv, ResultAl
<1> QED
  BY <1>9, <1>10, <1>11, <1>12, <1>13 DEF IndInv

LEMMA XorByteKeeps ==
  ASSUME IndInv, XorByte
  PROVE  IndInv'
<1> DEFINE d == call.dst
           n == call.n
           v == Xor(mem[si], bl)
<1>1. /\ pc = "xor" /\ mem' = [mem EXCEPT ![di] = v]
      /\ si' = Walk(si) /\ di' = Walk(di) /\ Loop /\ UNCHANGED <<bl, df, call, old>>
  BY DEF XorByte
<1>2. TypeInv /\ CallInv /\ DirectionInv /\ LoopInv /\ MemInv
  BY DEF IndInv
<1>3. /\ cx \in 1 .. n /\ call.op = "memxor" /\ ~df /\ di = d + Done /\ si = d + Done
      /\ call.src = d /\ Filled = d .. d + Done - 1
  BY <1>1, <1>2 DEF LoopInv, CallInv, DirectionInv, Filled, Bytes
<1>4. /\ cx' = cx - 1 /\ cx' \in Address /\ Done' = Done + 1
      /\ Done \in Nat /\ Done + cx = n
      /\ pc' = IF cx = 1 THEN "return" ELSE "xor"
  BY <1>1, <1>2, <1>3, LoopIs
<1>5. n \in Nat /\ d \in Nat /\ M \in Nat /\ d + n <= M
  BY <1>2, <1>3, CallIs
<1>6. di \in Address /\ di' \in Address /\ si' = di'
  BY <1>1, <1>2, <1>3, WalkIs DEF TypeInv
<1>7. v = Wanted(di)
  <2>1. si \notin Filled
    BY <1>3, <1>4, <1>5
  <2>2. mem[si] = old[di]
    BY <1>1, <1>2, <1>3, <1>6, <2>1, Unwritten
  <2> QED
    BY <1>3, <2>2 DEF Wanted
<1>8. Filled' = Filled \cup {di}
  <2>1. d + (Done + 1) - 1 = d + Done /\ (cx = 1 => d + n - 1 = d + Done)
    BY <1>4, <1>5
  <2>2. Filled' = d .. d + Done
    <3>1. CASE cx = 1
      BY <1>1, <1>4, <2>1, <3>1 DEF Filled, Bytes
    <3>2. CASE cx # 1
      BY <1>1, <1>3, <1>4, <2>1, <3>2 DEF Filled, Bytes
    <3> QED
      BY <3>1, <3>2
  <2>3. d .. d + Done = (d .. d + Done - 1) \cup {d + Done}
    BY <1>4, <1>5
  <2> QED
    BY <1>3, <2>2, <2>3
<1> HIDE DEF v
<1>9. MemInv' /\ mem' = [a \in Address |-> mem'[a]]
  BY <1>1, <1>2, <1>3, <1>6, <1>7, <1>8, WriteKeeps
<1>10. TypeInv'
  BY <1>1, <1>2, <1>4, <1>6, <1>9 DEF TypeInv, Loops
<1>11. CallInv' /\ DirectionInv'
  BY <1>1, <1>2, <1>3, <1>4, CallStays DEF DirectionInv
<1>12. LoopInv'
  <2>1. ASSUME cx # 1
        PROVE  cx' \in 1 .. n /\ di' = d + (Done + 1)
    <3> HIDE DEF d, n
    <3>1. cx' \in 1 .. n /\ di + 1 < M /\ cx \in Int
      BY <1>3, <1>4, <1>5, <2>1
    <3>2. di' = di + 1
      BY <1>1, <1>3, <1>6, <3>1, WalkIs
    <3> QED
      BY <1>3, <1>4, <1>5, <3>1, <3>2
  <2> QED
    BY <1>1, <1>3, <1>4, <1>6, <2>1 DEF LoopInv
<1>13. SeenInv'
  BY <1>1, <1>3, <1>4 DEF SeenInv, ResultAl
<1> QED
  BY <1>9, <1>10, <1>11, <1>12, <1>13 DEF IndInv

LEMMA SwapByteKeeps ==
  ASSUME IndInv, SwapByte
  PROVE  IndInv'
<1> DEFINE d == call.dst
           s == call.src
           n == call.n
           x == d + cx - 1
<1>1. /\ pc = "swap" /\ di' = (di - 1) % M /\ al' = mem[si] /\ mem' = [mem EXCEPT ![di'] = mem[si]]
      /\ si' = Walk(si) /\ Loop /\ UNCHANGED <<bl, df, call, old>>
  BY DEF SwapByte
<1>2. TypeInv /\ CallInv /\ DirectionInv /\ LoopInv /\ MemInv
  BY DEF IndInv
<1>3. /\ cx \in 1 .. n /\ call.op = "bswap" /\ ~df /\ di = (d + cx) % M /\ si = s + Done
      /\ Filled = d + cx .. d + n - 1 /\ (d .. d + n - 1) \cap (s .. s + n - 1) = {}
  BY <1>1, <1>2 DEF LoopInv, CallInv, DirectionInv, Filled, Bytes, Apart
<1>4. /\ cx' = cx - 1 /\ cx' \in Address /\ Done' = Done + 1
      /\ Done \in Nat /\ Done + cx = n
      /\ pc' = IF cx = 1 THEN "return" ELSE "swap"
  BY <1>1, <1>2, <1>3, LoopIs
<1>5. n \in Nat /\ d \in Nat /\ s \in Nat /\ M \in Nat /\ d + n <= M /\ s + n <= M /\ M > 1
  BY <1>2, <1>3, CallIs, Segment
<1>6. di' = x /\ x \in Address
  <2> HIDE DEF d, s, n
  <2>1. x \in Address /\ cx \in Nat
    BY <1>3, <1>5, Segment
  <2>2. CASE d + cx = M
    <3>1. di = 0
      BY <1>3, <2>2, Wrap
    <3>2. 0 - 1 = -1 /\ -1 \in Int /\ -M <= -1 /\ -1 < 0 /\ -1 + M = x
      BY <1>5, <2>1, <2>2
    <3>3. (-1) % M = x
      BY <3>2, Wrap
    <3> QED
      BY <1>1, <2>1, <3>1, <3>2, <3>3
  <2>3. CASE d + cx # M
    <3>1. d + cx \in Address
      BY <1>3, <1>5, <2>1, <2>3, Segment
    <3>2. di = d + cx
      BY <1>3, <3>1, Wrap
    <3>3. x = di - 1
      BY <1>5, <2>1, <3>2
    <3>4. x % M = x
      BY <2>1, Wrap
    <3> QED
      BY <1>1, <2>1, <3>3, <3>4
  <2> QED
    BY <2>2, <2>3
<1>7. mem[si] = Wanted(x)
  <2>1. si \notin Filled
    <3> HIDE DEF d, s, n
    <3>1. ASSUME si \in Filled
          PROVE  FALSE
      <4>1. si \in d .. d + n - 1 /\ si \in s .. s + n - 1
        BY <1>3, <1>4, <1>5, <3>1
      <4> QED
        BY <1>3, <4>1
    <3> QED
      BY <3>1
  <2>2. mem[si] = old[si]
    BY <1>1, <1>2, <2>1, Unwritten DEF TypeInv
  <2>3. s + n - 1 - (x - d) = s + Done
    <3> HIDE DEF d, s, n
    <3> QED
      BY <1>3, <1>4, <1>5
  <2>4. Wanted(x) = old[s + n - 1 - (x - d)]
    BY <1>3 DEF Wanted
  <2> QED
    BY <1>3, <2>2, <2>3, <2>4
<1>8. Filled' = Filled \cup {x}
  <2>1. d + (cx - 1) = x /\ (cx = 1 => x = d)
    BY <1>3, <1>5
  <2>2. Filled' = x .. d + n - 1
    <3>1. CASE cx = 1
      BY <1>1, <1>4, <2>1, <3>1 DEF Filled, Bytes
    <3>2. CASE cx # 1
      BY <1>1, <1>3, <1>4, <2>1, <3>2 DEF Filled
    <3> QED
      BY <3>1, <3>2
  <2>3. x .. d + n - 1 = (d + cx .. d + n - 1) \cup {x}
    <3>1. x + 1 = d + cx /\ x \in Int /\ x <= d + n - 1
      <4> HIDE DEF d, s, n
      <4> QED
        BY <1>3, <1>5
    <3>2. x .. d + n - 1 = (x + 1 .. d + n - 1) \cup {x}
      <4> DEFINE top == d + n - 1
      <4>1. top \in Int /\ x <= top
        BY <1>5, <3>1
      <4> HIDE DEF x, top
      <4>2. x .. top = (x + 1 .. top) \cup {x}
        BY <3>1, <4>1
      <4> QED
        BY <4>2 DEF top
    <3> QED
      BY <3>1, <3>2
  <2> QED
    BY <1>3, <2>2, <2>3
<1>9. MemInv' /\ mem' = [a \in Address |-> mem'[a]]
  <2>1. mem' = [mem EXCEPT ![x] = mem[si]]
    BY <1>1, <1>6
  <2>2. x \in Address
    BY <1>6
  <2> HIDE DEF x
  <2> QED
    BY <1>1, <1>2, <1>3, <1>7, <1>8, <2>1, <2>2, WriteKeeps
<1>10. TypeInv'
  <2>1. si' \in Address /\ di' \in Address
    BY <1>1, <1>2, <1>6, WalkIs DEF TypeInv
  <2> QED
    BY <1>1, <1>2, <1>4, <1>9, <2>1 DEF TypeInv, Loops
<1>11. CallInv' /\ DirectionInv'
  BY <1>1, <1>2, <1>3, <1>4, CallStays DEF DirectionInv
<1>12. LoopInv'
  <2>1. ASSUME cx # 1
        PROVE  cx' \in 1 .. n /\ si' = s + (Done + 1) /\ di' = (d + cx') % M
    <3>1. x % M = x
      BY <1>6, Wrap
    <3> HIDE DEF d, s, n
    <3>2. cx' \in 1 .. n /\ si + 1 < M /\ cx \in Int /\ si + 1 = s + (Done + 1) /\ d + cx' = x
      BY <1>3, <1>4, <1>5, <2>1
    <3>3. si' = si + 1
      BY <1>1, <1>2, <1>3, <3>2, WalkIs DEF TypeInv
    <3> QED
      BY <1>6, <3>1, <3>2, <3>3
  <2> QED
    BY <1>1, <1>4, <2>1 DEF LoopInv
<1>13. SeenInv'
  BY <1>1, <1>3, <1>4 DEF SeenInv, ResultAl
<1> QED
  BY <1>9, <1>10, <1>11, <1>12, <1>13 DEF IndInv

LEMMA SwapPairKeeps ==
  ASSUME IndInv, SwapPair
  PROVE  IndInv'
<1> DEFINE d == call.dst
           n == call.n
           h == call.n \div 2
           i == Swapped
           x == d + n - i - 1
           G == Filled \cup {si, x}
<1>1. /\ pc = "swap_pair" /\ di' = (di - 1) % M /\ al' = mem[si]
      /\ mem' = [mem EXCEPT ![si] = mem[di'], ![di'] = mem[si]]
      /\ si' = Walk(si) /\ Loop /\ UNCHANGED <<bl, df, call, old>>
  BY DEF SwapPair
<1>2. TypeInv /\ CallInv /\ DirectionInv /\ LoopInv /\ MemInv
  BY DEF IndInv
<1>3. /\ cx \in 1 .. h /\ call.op = "bswap_inplace" /\ ~df /\ call.src = d
      /\ si = d + i /\ di = (d + n - i) % M
      /\ Filled = (d .. d + i - 1) \cup (d + n - i .. d + n - 1)
  BY <1>1, <1>2 DEF LoopInv, CallInv, DirectionInv, Filled, Bytes
<1>4. n \in Nat /\ d \in Nat /\ M \in Nat /\ d + n <= M /\ M > 1
  BY <1>2, <1>3, CallIs, Segment
<1>5. h \in Nat /\ 2 * h <= n /\ n <= 2 * h + 1
  BY <1>4
<1>6. i \in Nat /\ i + cx = h
  BY <1>3, <1>5 DEF Swapped
<1>7. /\ cx' = cx - 1 /\ cx' \in Address /\ Swapped' = i + 1
      /\ pc' = IF cx = 1 THEN "return" ELSE "swap_pair"
  <2>1. cx \in 1 .. n
    BY <1>3, <1>4, <1>5
  <2>2. /\ cx' = cx - 1 /\ cx' \in Address
        /\ pc' = IF cx = 1 THEN "return" ELSE "swap_pair"
    BY <1>1, <1>2, <2>1, LoopIs
  <2>3. Swapped' = h - cx'
    BY <1>1 DEF Swapped
  <2> QED
    BY <1>3, <1>5, <1>6, <2>2, <2>3
<1> HIDE DEF i, h, d, n
<1>8. x \in Address /\ si \in Address /\ si < x /\ d + i = si /\ x = (d + n - i) - 1
  <2>1. x \in Nat /\ x < M /\ si \in Nat /\ si < x
    BY <1>3, <1>4, <1>5, <1>6
  <2> QED
    BY <1>3, <1>4, <1>6, <2>1, Segment
<1>9. di' = x
  <2>1. CASE d + n - i = M
    <3>1. di = 0
      BY <1>3, <2>1, Wrap
    <3>2. 0 - 1 = -1 /\ -1 \in Int /\ -M <= -1 /\ -1 < 0 /\ -1 + M = x
      BY <1>4, <1>8, <2>1
    <3>3. (-1) % M = x
      BY <3>2, Wrap
    <3> QED
      BY <1>1, <3>1, <3>2, <3>3
  <2>2. CASE d + n - i # M
    <3>1. d + n - i \in Address
      BY <1>3, <1>4, <1>5, <1>6, <2>2, Segment
    <3>2. di = d + n - i
      BY <1>3, <3>1, Wrap
    <3>3. x % M = x
      BY <1>8, Wrap
    <3> QED
      BY <1>1, <1>8, <3>2, <3>3
  <2> QED
    BY <2>1, <2>2
<1>10. si \notin Filled /\ x \notin Filled
  BY <1>3, <1>4, <1>5, <1>6
<1>11. mem[si] = Wanted(x) /\ mem[x] = Wanted(si)
  <2>1. mem[si] = old[si] /\ mem[x] = old[x]
    BY <1>1, <1>2, <1>8, <1>10, Unwritten
  <2>2. \A a : Wanted(a) = old[d + n - 1 - (a - d)]
    BY <1>3 DEF Wanted, d, n
  <2>3. d + n - 1 - (x - d) = si /\ d + n - 1 - (si - d) = x
    BY <1>3, <1>4, <1>6
  <2> QED
    BY <2>1, <2>2, <2>3
<1>12. mem' = [a \in Address |-> IF a \in G THEN Wanted(a) ELSE old[a]]
  <2>1. mem = [a \in Address |-> mem[a]] /\ mem = [a \in Address |-> IF a \in Filled THEN Wanted(a) ELSE old[a]]
    BY <1>1, <1>2 DEF TypeInv, MemInv
  <2>2. mem' = [mem EXCEPT ![si] = mem[x], ![x] = mem[si]]
    BY <1>1, <1>9
  <2>3. x # si
    BY <1>3, <1>4, <1>6, <1>8
  <2> HIDE DEF x
  <2>4. mem' = [a \in Address |-> IF a = x THEN mem[si] ELSE IF a = si THEN mem[x] ELSE mem[a]]
    BY <1>8, <2>1, <2>2, <2>3
  <2> QED
    BY <1>11, <2>1, <2>4
<1>13. \A a \in Filled' : a \in G \/ (Wanted(a) = old[a])
  <2>1. CASE cx # 1
    <3>1. Filled' = (d .. d + (i + 1) - 1) \cup (d + n - (i + 1) .. d + n - 1)
      BY <1>1, <1>7, <2>1 DEF Filled, Bytes, d, n
    <3>2. \A a \in Filled' : a \in G
      BY <1>3, <1>4, <1>6, <3>1
    <3> QED
      BY <3>2
  <2>2. CASE cx = 1
    <3>1. Filled' = d .. d + n - 1
      BY <1>1, <1>7, <2>2 DEF Filled, Bytes, d, n
    <3>2. ASSUME NEW a \in Filled', a \notin G
          PROVE  Wanted(a) = old[a]
      <4>1. d + n - 1 - (a - d) = a
        BY <1>3, <1>4, <1>5, <1>6, <2>2, <3>1, <3>2
      <4>2. Wanted(a) = old[d + n - 1 - (a - d)]
        BY <1>3 DEF Wanted, d, n
      <4> QED
        BY <4>1, <4>2
    <3> QED
      BY <3>2
  <2> QED
    BY <2>1, <2>2
<1>14. G \subseteq Filled'
  <2>1. CASE cx # 1
    <3>1. Filled' = (d .. d + (i + 1) - 1) \cup (d + n - (i + 1) .. d + n - 1)
      BY <1>1, <1>7, <2>1 DEF Filled, Bytes, d, n
    <3> QED
      BY <1>3, <1>4, <1>6, <1>8, <3>1
  <2>2. CASE cx = 1
    <3>1. Filled' = d .. d + n - 1
      BY <1>1, <1>7, <2>2 DEF Filled, Bytes, d, n
    <3> QED
      BY <1>3, <1>4, <1>5, <1>6, <1>8, <3>1
  <2> QED
    BY <2>1, <2>2
<1>15. MemInv' /\ mem' = [a \in Address |-> mem'[a]]
  <2> HIDE DEF G
  <2>1. mem' = [a \in Address |-> IF a \in Filled' THEN Wanted(a) ELSE old[a]]
    BY <1>12, <1>13, <1>14
  <2>2. \A a : Wanted(a)' = Wanted(a)
    BY <1>1, <1>3, WantedSame
  <2> QED
    BY <1>1, <1>12, <2>1, <2>2 DEF MemInv
<1>16. TypeInv'
  <2>1. si' \in Address /\ di' \in Address
    BY <1>1, <1>2, <1>8, <1>9, WalkIs
  <2> QED
    BY <1>1, <1>2, <1>7, <1>15, <2>1 DEF TypeInv, Loops
<1>17. CallInv' /\ DirectionInv'
  BY <1>1, <1>2, <1>3, <1>7, CallStays DEF DirectionInv
<1>18. LoopInv'
  <2>1. ASSUME cx # 1
        PROVE  cx' \in 1 .. h /\ si' = d + (i + 1) /\ di' = (d + n - (i + 1)) % M
    <3>1. x % M = x
      BY <1>8, Wrap
    <3>2. cx' \in 1 .. h /\ si + 1 < M /\ si + 1 = d + (i + 1) /\ d + n - (i + 1) = x
      BY <1>3, <1>4, <1>5, <1>6, <1>7, <2>1
    <3>3. si' = si + 1
      BY <1>1, <1>3, <1>8, <3>2, WalkIs
    <3> QED
      BY <1>9, <3>1, <3>2, <3>3
  <2> QED
    BY <1>1, <1>7, <2>1 DEF LoopInv, d, n, h
<1>19. SeenInv'
  BY <1>1, <1>3, <1>7 DEF SeenInv, ResultAl
<1> QED
  BY <1>15, <1>16, <1>17, <1>18, <1>19 DEF IndInv

LEMMA ScanByteKeeps ==
  ASSUME IndInv, ScanByte
  PROVE  IndInv'
<1> DEFINE s == call.src
<1>1. /\ pc = "scan" /\ si' = Walk(si) /\ cx' = (cx + 1) % M
      /\ pc' = IF mem[si] = NUL THEN "return" ELSE "scan"
      /\ UNCHANGED <<mem, di, bl, df, call, old>>
  BY DEF ScanByte, ScanByteUntil
<1>2. TypeInv /\ CallInv /\ DirectionInv /\ LoopInv /\ MemInv
  BY DEF IndInv
<1>3. /\ call.op = "strlen" /\ call.n = 0 /\ ~df /\ s <= si /\ cx = (si - s - 1) % M
      /\ \E a \in si .. M - 1 : old[a] = NUL
      /\ \A a \in s .. si - 1 : old[a] # NUL
  BY <1>1, <1>2 DEF LoopInv, CallInv, DirectionInv, IndInv, SeenInv
<1>4. /\ si \in Nat /\ s \in Nat /\ M \in Nat /\ M > 1 /\ si < M /\ si \in Address /\ s \in Address
  BY <1>2, Segment DEF TypeInv
<1>5. Filled = {} /\ Filled' = {}
  <2>1. Bytes(call.dst, 0) = {}
    BY <1>2, CallIs DEF Bytes
  <2> QED
    BY <1>1, <1>3, <2>1 DEF Filled
<1>6. mem[si] = old[si]
  BY <1>1, <1>2, <1>4, <1>5, Unwritten
<1>7. cx' = si - s
  <2> HIDE DEF s
  <2>1. CASE si = s
    <3>1. si - s - 1 = -1 /\ -1 \in Int /\ -M <= -1 /\ -1 < 0 /\ -1 + M = M - 1 /\ M - 1 + 1 = M
      BY <1>4, <2>1
    <3>2. cx + 1 = M
      BY <1>3, <3>1, Wrap
    <3>3. M % M = 0
      BY Wrap
    <3> QED
      BY <1>1, <1>4, <2>1, <3>2, <3>3
  <2>2. CASE si # s
    <3>1. si - s - 1 \in Address /\ si - s \in Address /\ (si - s - 1) + 1 = si - s
      BY <1>3, <1>4, <2>2, Segment
    <3>2. (si - s - 1) % M = si - s - 1 /\ (si - s) % M = si - s
      BY <3>1, Wrap
    <3> QED
      BY <1>1, <1>3, <3>1, <3>2
  <2> QED
    BY <2>1, <2>2
<1>8. si' \in Address /\ cx' \in Address
  BY <1>1, <1>3, <1>4, <1>7, WalkIs, Segment
<1>9. TypeInv'
  BY <1>1, <1>2, <1>8 DEF TypeInv, Loops
<1>10. CallInv' /\ DirectionInv'
  BY <1>1, <1>2, <1>3, CallStays DEF DirectionInv
<1>11. MemInv'
  BY <1>1, <1>2, <1>5 DEF MemInv
<1>12. CASE old[si] = NUL
  <2>1. pc' = "return"
    BY <1>1, <1>6, <1>12
  <2>2. ResultAl'
    <3> HIDE DEF s
    <3>1. s + cx' = si
      BY <1>4, <1>7
    <3>2. \A k \in 0 .. cx' - 1 : s + k \in s .. si - 1
      BY <1>4, <1>7
    <3>3. old[s + cx'] = NUL /\ \A k \in 0 .. cx' - 1 : old[s + k] # NUL
      BY <1>3, <1>12, <3>1, <3>2
    <3> QED
      BY <1>1, <1>3, <3>3 DEF ResultAl, s
  <2>3. SeenInv' /\ LoopInv'
    BY <2>1, <2>2 DEF SeenInv, LoopInv
  <2> QED
    BY <1>9, <1>10, <1>11, <2>3 DEF IndInv
<1>13. CASE old[si] # NUL
  <2>1. pc' = "scan"
    BY <1>1, <1>6, <1>13
  <2> HIDE DEF s
  <2>2. PICK a \in si .. M - 1 : old[a] = NUL
    BY <1>3
  <2>3. a # si /\ a \in si + 1 .. M - 1 /\ si + 1 < M
    BY <1>4, <1>13, <2>2
  <2>4. si' = si + 1
    BY <1>1, <1>3, <1>4, <2>3, WalkIs
  <2>5. s <= si' /\ si' - s - 1 = si - s /\ (si - s) % M = si - s
    <3>1. s <= si' /\ si' - s - 1 = si - s /\ si - s \in Address
      BY <1>3, <1>4, <1>7, <1>8, <2>4
    <3> QED
      BY <3>1, Wrap
  <2>6. LoopInv'
    <3>1. \E b \in si' .. M - 1 : old[b] = NUL
      BY <2>2, <2>3, <2>4
    <3> QED
      BY <1>1, <1>7, <2>1, <2>5, <3>1 DEF LoopInv, s
  <2>7. SeenInv'
    <3>1. \A b \in s .. si' - 1 : b \in s .. si - 1 \/ b = si
      BY <1>3, <1>4, <2>4
    <3>2. \A b \in s .. si' - 1 : old[b] # NUL
      BY <1>3, <1>13, <3>1
    <3> QED
      BY <1>1, <2>1, <3>2 DEF SeenInv, ResultAl, s
  <2> QED
    BY <1>9, <1>10, <1>11, <2>6, <2>7 DEF IndInv
<1> QED
  BY <1>12, <1>13

LEMMA XorIsEmpty ==
  ASSUME NEW a, NEW b
  PROVE  Xor(a, b) = {} <=> a = b
BY Zenon DEF Xor

LEMMA CompareByteKeeps ==
  ASSUME IndInv, CompareByte
  PROVE  IndInv'
<1> DEFINE d == call.dst
           s == call.src
           n == call.n
<1>1. /\ pc = "compare" /\ al' = Xor(mem[si], mem[di]) /\ si' = Walk(si)
      /\ UNCHANGED <<mem, bl, df, call, old>>
      /\ \/ al' # NUL /\ pc' = "return" /\ UNCHANGED <<di, cx>>
         \/ al' = NUL /\ di' = (di + 1) % M /\ Loop
  BY DEF CompareByte
<1>2. TypeInv /\ CallInv /\ DirectionInv /\ LoopInv /\ MemInv
  BY DEF IndInv
<1>3. /\ cx \in 1 .. n /\ call.op = "memcmp" /\ ~df /\ di = d + Done /\ si = s + Done
      /\ \A k \in 0 .. Done - 1 : old[s + k] = old[d + k]
  BY <1>1, <1>2 DEF LoopInv, CallInv, DirectionInv, IndInv, SeenInv
<1>4. /\ n \in Nat /\ d \in Nat /\ s \in Nat /\ M \in Nat /\ d + n <= M /\ s + n <= M
  BY <1>2, <1>3, CallIs
<1>5. Done \in Nat /\ Done + cx = n
  BY <1>3, <1>4 DEF Done
<1>6. \A a \in Address : mem[a] = old[a]
  BY <1>1, <1>2, Unwritten DEF Filled
<1>7. si \in Address /\ di \in Address /\ si' \in Address /\ di' \in Address
  <2>1. si \in Address /\ di \in Address /\ si' \in Address
    BY <1>1, <1>2, WalkIs DEF TypeInv
  <2>2. di + 1 \in Int
    BY <2>1, Segment
  <2>3. (di + 1) % M \in Address
    BY <2>2, Wrap
  <2> QED
    BY <1>1, <2>1, <2>3
<1>8. al' = NUL <=> old[s + Done] = old[d + Done]
  BY <1>1, <1>3, <1>6, <1>7, XorIsEmpty DEF NUL
<1>9. al' = NUL =>
        /\ cx' = cx - 1 /\ cx' \in Address /\ Done' = Done + 1
        /\ pc' = IF cx = 1 THEN "return" ELSE "compare"
  <2>1. al' = NUL => Loop
    BY <1>1
  <2> QED
    BY <1>1, <1>2, <1>3, <2>1, LoopIs
<1>10. pc' \in {"return", "compare"} /\ cx' \in Address
  BY <1>1, <1>2, <1>9 DEF TypeInv
<1>11. TypeInv'
  BY <1>1, <1>2, <1>7, <1>10 DEF TypeInv, Loops
<1>12. CallInv' /\ DirectionInv'
  BY <1>1, <1>2, <1>3, <1>10, CallStays DEF DirectionInv
<1>13. MemInv'
  <2>1. \A a : Wanted(a)' = old[a]
    BY <1>1, <1>3 DEF Wanted
  <2>2. mem = [a \in Address |-> mem[a]]
    BY <1>2 DEF TypeInv
  <2> QED
    BY <1>1, <1>6, <2>1, <2>2 DEF MemInv
<1>14. LoopInv'
  <2>1. ASSUME al' = NUL, cx # 1
        PROVE  cx' \in 1 .. n /\ si' = s + (Done + 1) /\ di' = d + (Done + 1)
    <3> HIDE DEF d, s, n
    <3>1. cx' \in 1 .. n /\ si + 1 < M /\ di + 1 < M /\ si + 1 = s + (Done + 1) /\ di + 1 = d + (Done + 1)
      BY <1>3, <1>4, <1>5, <1>9, <2>1
    <3>2. si' = si + 1
      BY <1>1, <1>3, <1>7, <3>1, WalkIs
    <3>3. di + 1 \in Address
      BY <1>7, <3>1, Segment
    <3>4. (di + 1) % M = di + 1
      BY <3>3, Wrap
    <3>5. di' = di + 1
      BY <1>1, <2>1, <3>4
    <3> QED
      BY <3>1, <3>2, <3>5
  <2> QED
    BY <1>1, <1>9, <2>1 DEF LoopInv
<1>15. SeenInv'
  <2>1. ASSUME al' # NUL
        PROVE  SeenInv'
    <3>1. pc' = "return" /\ ~Same'
      <4> HIDE DEF d, s, n
      <4>1. Done \in 0 .. n - 1
        BY <1>3, <1>4, <1>5
      <4>2. \E k \in 0 .. n - 1 : old[s + k] # old[d + k]
        BY <1>8, <2>1, <4>1
      <4> QED
        BY <1>1, <2>1, <4>2 DEF Same, d, s, n
    <3> QED
      BY <1>1, <1>3, <2>1, <3>1 DEF SeenInv, ResultAl
  <2>2. ASSUME al' = NUL
        PROVE  SeenInv'
    <3>1. \A k \in 0 .. Done : old[s + k] = old[d + k]
      <4> HIDE DEF d, s, n
      <4>1. \A k \in 0 .. Done : k \in 0 .. Done - 1 \/ k = Done
        BY <1>5
      <4> QED
        BY <1>3, <1>8, <2>2, <4>1
    <3>2. CASE cx = 1
      <4>1. n - 1 = Done
        BY <1>4, <1>5, <3>2
      <4>2. Same'
        BY <1>1, <3>1, <4>1 DEF Same
      <4> QED
        BY <1>1, <1>3, <1>9, <2>2, <3>2, <4>2 DEF SeenInv, ResultAl
    <3>3. CASE cx # 1
      <4>1. Done' - 1 = Done
        BY <1>5, <1>9, <2>2
      <4> QED
        BY <1>1, <1>9, <2>2, <3>1, <3>3, <4>1 DEF SeenInv, ResultAl
    <3> QED
      BY <3>2, <3>3
  <2> QED
    BY <2>1, <2>2
<1> QED
  BY <1>11, <1>12, <1>13, <1>14, <1>15 DEF IndInv

LEMMA ReturnKeeps ==
  ASSUME IndInv, Return
  PROVE  IndInv'
<1>1. pc = "return" /\ pc' = "idle" /\ df' = (df /\ ~(call.op = "memmove" /\ call.n > 0)) /\ Forget
  BY DEF Return, ReturnWith
<1>2. ~df'
  <2>1. df => call.op = "memmove" /\ call.n > 0
    BY DEF IndInv, DirectionInv
  <2> QED
    BY <1>1, <2>1, Zenon
<1>3. /\ mem' = NoMemory /\ old' = NoMemory /\ si' = 0 /\ di' = 0 /\ cx' = 0 /\ call' = NoCall
  BY <1>1 DEF Forget
<1>4. 0 \in Address
  BY Segment
<1>5. TypeInv'
  BY <1>1, <1>3, <1>4 DEF TypeInv, Ops, NoMemory, NoCall
<1>6. CallInv'
  BY <1>1, <1>3, Segment DEF CallInv, NoCall, Object
<1> QED
  BY <1>1, <1>2, <1>5, <1>6 DEF IndInv, DirectionInv, LoopInv, SeenInv, ResultAl, MemInv

LEMMA StutterKeeps ==
  ASSUME IndInv, UNCHANGED vars
  PROVE  IndInv'
<1>1. UNCHANGED <<pc, mem, si, di, cx, al, bl, ah, df, call, old>>
  BY DEF vars, regs
<1>2. TypeInv' /\ CallInv' /\ DirectionInv'
  BY <1>1 DEF IndInv, TypeInv, CallInv, DirectionInv, Within
<1>3. LoopInv' /\ SeenInv'
  BY <1>1 DEF IndInv, LoopInv, SeenInv, ResultAl, Same, Done, Swapped
<1>4. MemInv'
  BY <1>1 DEF IndInv, MemInv, Filled, Done, Swapped, Wanted
<1> QED
  BY <1>2, <1>3, <1>4 DEF IndInv

LEMMA Initially == Init => IndInv
<1> SUFFICES ASSUME Init
             PROVE  IndInv
  OBVIOUS
<1>1. /\ pc = "idle" /\ mem = NoMemory /\ old = NoMemory /\ si = 0 /\ di = 0 /\ cx = 0
      /\ df = FALSE /\ call = NoCall
  BY DEF Init
<1>2. TypeInv
  BY <1>1, Segment DEF TypeInv, Ops, NoMemory, NoCall
<1>3. CallInv
  BY <1>1, Segment DEF CallInv, NoCall, Object
<1> QED
  BY <1>1, <1>2, <1>3 DEF IndInv, DirectionInv, LoopInv, SeenInv, ResultAl, MemInv

-----------------------------------------------------------------------------
(* At every turn of every loop the bytes it has got to are right and the   *)
(* others as they were, and the direction flag is memmove's.               *)
THEOREM Invariance == Spec => []IndInv
<1>1. IndInv /\ [Next]_vars => IndInv'
  <2> SUFFICES ASSUME IndInv, [Next]_vars
               PROVE  IndInv'
    OBVIOUS
  <2>1. CASE Step
    BY <2>1, CopyByteKeeps, StoreByteKeeps, XorByteKeeps, ScanByteKeeps, CompareByteKeeps,
       SwapByteKeeps, SwapPairKeeps, ReturnKeeps DEF Step
  <2>2. CASE pc = "idle" /\ Call
    <3>1. TypeInv /\ ~df
      BY <2>2 DEF IndInv, DirectionInv
    <3>2. CASE \E p \in Address : Strlen(p)
      BY <3>1, <3>2, StrlenCall
    <3>3. CASE \E p, n \in Address : BswapInplace(p, n)
      BY <3>1, <3>3, SwapCalls
    <3>4. CASE \E p, n \in Address, c \in Byte : Memset(p, c, n) \/ Memxor(p, c, n)
      BY <3>1, <3>4, FillCalls
    <3>5. CASE \E p, q, n \in Address :
                 Memcpy(p, q, n) \/ Memmove(p, q, n) \/ Memcmp(p, q, n) \/ Bswap(p, q, n)
      <4>1. PICK p, q, n \in Address :
              Memcpy(p, q, n) \/ Memmove(p, q, n) \/ Memcmp(p, q, n) \/ Bswap(p, q, n)
        BY <3>5
      <4>2. CASE Memcpy(p, q, n) \/ Memmove(p, q, n)
        BY <3>1, <4>2, CopyCalls
      <4>3. CASE Memcmp(p, q, n)
        BY <3>1, <4>3, MemcmpCall
      <4>4. CASE Bswap(p, q, n)
        BY <3>1, <4>4, SwapCalls
      <4> QED
        BY <4>1, <4>2, <4>3, <4>4
    <3> QED
      BY <2>2, <3>2, <3>3, <3>4, <3>5 DEF Call
  <2>3. CASE UNCHANGED vars
    BY <2>3, StutterKeeps
  <2> QED
    BY <2>1, <2>2, <2>3 DEF Next
<1> QED
  BY <1>1, Initially, PTL DEF Spec

(* fun.h: every primitive leaves in its destination what it is to leave    *)
(* there, memmove for every overlap, and all other memory as it was.       *)
THEOREM MemoryIsRight == Spec => []MemoryRight
<1>1. IndInv => MemoryRight
  BY DEF IndInv, MemInv, Filled, MemoryRight
<1> QED
  BY <1>1, Invariance, PTL

(* AH is what it was at the call.                                          *)
AhInv == ah = call.ah

LEMMA AhStays ==
  ASSUME AhInv, [Next]_vars
  PROVE  AhInv'
<1>1. CASE Step
  <2>1. CASE Return
    BY <2>1 DEF Return, ReturnWith, Forget, NoCall, AhInv
  <2>2. CASE CopyByte \/ StoreByte \/ XorByte \/ ScanByte \/ CompareByte \/ SwapByte \/ SwapPair
    <3>1. UNCHANGED <<ah, call>>
      BY <2>2 DEF CopyByte, StoreByte, XorByte, ScanByte, ScanByteUntil, CompareByte, SwapByte, SwapPair
    <3> QED
      BY <3>1 DEF AhInv
  <2> QED
    BY <1>1, <2>1, <2>2 DEF Step
<1>2. CASE Call
  <2>1. \E op, dst, src, n, loop : Enter(op, dst, src, n, loop)
    BY <1>2 DEF Call, Memcpy, Memset, Memxor, Memmove, MemmoveFrom, Strlen, Memcmp, Bswap, BswapInplace
  <2> QED
    BY <2>1 DEF Enter, AhInv
<1>3. CASE UNCHANGED vars
  BY <1>3 DEF vars, regs, AhInv
<1> QED
  BY <1>1, <1>2, <1>3 DEF Next

(* fun.h: strlen finds the first NUL, and memcmp's value, AX, is zero      *)
(* exactly for equal memory and a caller that comes with AH zero.          *)
THEOREM ResultIsRight == Spec => []ResultRight
<1>1. IndInv /\ AhInv => ResultRight
  BY DEF IndInv, SeenInv, ResultAl, AhInv, ResultRight
<1>2. Init => AhInv
  BY DEF Init, NoCall, AhInv
<1>3. AhInv /\ [Next]_vars => AhInv'
  BY AhStays
<1> QED
  BY <1>1, <1>2, <1>3, Invariance, PTL DEF Spec

(* fun.h: no call leaves the direction flag set. *)
THEOREM DirectionIsClear == Spec => []DirectionClear
<1>1. IndInv => DirectionClear
  BY DEF IndInv, DirectionInv, DirectionClear
<1> QED
  BY <1>1, Invariance, PTL

(* Primitives: every step of the program is one of theirs or leaves their  *)
(* variables alone, so all three hold with the shifts and the printing in  *)
(* between.                                                                *)
THEOREM PrimitivesAreRight == PrimitivesSpec => [](MemoryRight /\ ResultRight /\ DirectionClear)
<1>1. PrimitivesInit => Init
  BY DEF PrimitivesInit
<1>2. [PrimitivesNext]_allvars => [Next]_vars
  BY DEF PrimitivesNext, allvars
<1>3. PrimitivesSpec => Spec
  BY <1>1, <1>2, PTL DEF PrimitivesSpec, Spec
<1> QED
  BY <1>3, MemoryIsRight, ResultIsRight, DirectionIsClear, PTL

-----------------------------------------------------------------------------
(* The shifts.  A number's bits are in four registers of W.                *)
LEMMA Width == W \in Nat /\ W > 0 /\ SI_SIZE \in Nat /\ SI_SIZE > 0 /\ Counts \subseteq 0 .. SI_SIZE - 1
BY Shift64Assumption

LEMMA Division ==
  ASSUME NEW s \in Nat, s > 0, NEW q \in Int, NEW p \in Int, q * s <= p, p < q * s + s
  PROVE  p \div s = q /\ p % s = p - q * s
<1> DEFINE d == p \div s
           r == p % s
<1>1. d \in Int /\ r \in 0 .. s - 1 /\ p = d * s + r
  <2>1. p \div s \in Int /\ p % s \in 0 .. s - 1 /\ p = (p \div s) * s + (p % s)
    OBVIOUS
  <2> QED
    BY <2>1
<1> HIDE DEF d, r
<1>2. q * s \in Int /\ d * s \in Int
  BY <1>1
<1>3. ASSUME d >= q + 1
      PROVE  FALSE
  <2>1. d * s >= (q + 1) * s /\ (q + 1) * s = q * s + s
    BY <1>1, <1>3
  <2> QED
    BY <1>1, <1>2, <2>1
<1>4. ASSUME q >= d + 1
      PROVE  FALSE
  <2>1. q * s >= (d + 1) * s /\ (d + 1) * s = d * s + s
    BY <1>1, <1>4
  <2> QED
    BY <1>1, <1>2, <2>1
<1>5. d = q
  BY <1>1, <1>3, <1>4
<1> QED
  BY <1>1, <1>2, <1>5 DEF d, r

(* Which register a bit is in. *)
LEMMA NumberIs ==
  ASSUME NEW a, NEW b, NEW c, NEW d
  PROVE  \A p \in Shift!Position :
           /\ p \in Nat /\ p < 4 * W
           /\ p \in Shift!Number(a, b, c, d) <=>
                \/ p < W /\ p \in d
                \/ W <= p /\ p < 2 * W /\ p - W \in c
                \/ 2 * W <= p /\ p < 3 * W /\ p - 2 * W \in b
                \/ 3 * W <= p /\ p - 3 * W \in a
<1> SUFFICES ASSUME NEW p \in Shift!Position
             PROVE  /\ p \in Nat /\ p < 4 * W
                    /\ p \in Shift!Number(a, b, c, d) <=>
                         \/ p < W /\ p \in d
                         \/ W <= p /\ p < 2 * W /\ p - W \in c
                         \/ 2 * W <= p /\ p < 3 * W /\ p - 2 * W \in b
                         \/ 3 * W <= p /\ p - 3 * W \in a
  OBVIOUS
<1>1. p \in Nat /\ p < 4 * W
  BY Width DEF Shift!Position
<1>2. p \in Shift!Number(a, b, c, d) <=>
        p % W \in CASE p \div W = 3 -> a [] p \div W = 2 -> b
                    [] p \div W = 1 -> c [] OTHER -> d
  BY DEF Shift!Number
<1>3. CASE p < W
  <2>1. p \div W = 0 /\ p % W = p
    BY <1>1, <1>3, Width, Division, 0 * W = 0
  <2> QED
    BY <1>1, <1>2, <1>3, <2>1, Width
<1>4. CASE W <= p /\ p < 2 * W
  <2>1. p \div W = 1 /\ p % W = p - W
    BY <1>1, <1>4, Width, Division, 1 * W = W
  <2> QED
    BY <1>1, <1>2, <1>4, <2>1, Width
<1>5. CASE 2 * W <= p /\ p < 3 * W
  <2>1. p \div W = 2 /\ p % W = p - 2 * W
    BY <1>1, <1>5, Width, Division
  <2> QED
    BY <1>1, <1>2, <1>5, <2>1, Width
<1>6. CASE 3 * W <= p
  <2>1. p \div W = 3 /\ p % W = p - 3 * W
    BY <1>1, <1>6, Width, Division
  <2> QED
    BY <1>1, <1>2, <1>6, <2>1, Width
<1> QED
  BY <1>1, <1>3, <1>4, <1>5, <1>6, Width

LEMMA RotatesIs ==
  ASSUME NEW w \in SUBSET (0 .. W - 1), NEW carry
  PROVE  /\ Shift!Rcr(w, carry) \subseteq 0 .. W - 1
         /\ Shift!Rcl(w, carry) \subseteq 0 .. W - 1
         /\ \A r \in 0 .. W - 1 :
              /\ r \in Shift!Rcr(w, carry) <=> IF r = W - 1 THEN carry ELSE r + 1 \in w
              /\ r \in Shift!Rcl(w, carry) <=> IF r = 0 THEN carry ELSE r - 1 \in w
<1>1. /\ Shift!Rcr(w, carry) \subseteq 0 .. W - 1
      /\ Shift!Rcl(w, carry) \subseteq 0 .. W - 1
  BY Width DEF Shift!Rcr, Shift!Rcl
<1>2. ASSUME NEW r \in 0 .. W - 1
      PROVE  r \in Shift!Rcr(w, carry) <=> IF r = W - 1 THEN carry ELSE r + 1 \in w
  <2>1. r \in {p - 1 : p \in w \ {0}} <=> r + 1 \in w
    BY Width
  <2>2. W \notin w
    BY Width
  <2> QED
    BY <2>1, <2>2, Width DEF Shift!Rcr
<1>3. ASSUME NEW r \in 0 .. W - 1
      PROVE  r \in Shift!Rcl(w, carry) <=> IF r = 0 THEN carry ELSE r - 1 \in w
  <2>1. r \in {p + 1 : p \in w \ {W - 1}} <=> r - 1 \in w
    BY Width
  <2>2. -1 \notin w
    BY Width
  <2> QED
    BY <2>1, <2>2, Width DEF Shift!Rcl
<1> QED
  BY <1>1, <1>2, <1>3

Words == /\ sax \subseteq 0 .. W - 1 /\ sbx \subseteq 0 .. W - 1
         /\ scx \subseteq 0 .. W - 1 /\ sdx \subseteq 0 .. W - 1
Held == Shift!Number(sax, sbx, scx, sdx)

(* One turn moves every bit of the number by one place. *)
LEMMA RightBitIs ==
  ASSUME Words, NEW carry, Shift!RightBit(carry)
  PROVE  /\ Words'
         /\ \A p \in Shift!Position :
              p \in Held' <=> IF p = 4 * W - 1 THEN carry ELSE p + 1 \in Held
<1>1. /\ sax' = Shift!Rcr(sax, carry) /\ sbx' = Shift!Rcr(sbx, 0 \in sax)
      /\ scx' = Shift!Rcr(scx, 0 \in sbx) /\ sdx' = Shift!Rcr(sdx, 0 \in scx)
  BY DEF Shift!RightBit, Shift!Low
<1>2. /\ sax \in SUBSET (0 .. W - 1) /\ sbx \in SUBSET (0 .. W - 1)
      /\ scx \in SUBSET (0 .. W - 1) /\ sdx \in SUBSET (0 .. W - 1)
  BY DEF Words
<1>3. Words'
  BY <1>1, <1>2, RotatesIs DEF Words
<1>4. \A r \in 0 .. W - 1 :
        /\ r \in sax' <=> IF r = W - 1 THEN carry ELSE r + 1 \in sax
        /\ r \in sbx' <=> IF r = W - 1 THEN 0 \in sax ELSE r + 1 \in sbx
        /\ r \in scx' <=> IF r = W - 1 THEN 0 \in sbx ELSE r + 1 \in scx
        /\ r \in sdx' <=> IF r = W - 1 THEN 0 \in scx ELSE r + 1 \in sdx
  BY <1>1, <1>2, RotatesIs
<1>5. ASSUME NEW p \in Shift!Position
      PROVE  p \in Held' <=> IF p = 4 * W - 1 THEN carry ELSE p + 1 \in Held
  <2>1. p \in Nat /\ p < 4 * W
    BY NumberIs
  <2>2. p \in Held' <=>
          \/ p < W /\ p \in sdx'
          \/ W <= p /\ p < 2 * W /\ p - W \in scx'
          \/ 2 * W <= p /\ p < 3 * W /\ p - 2 * W \in sbx'
          \/ 3 * W <= p /\ p - 3 * W \in sax'
    BY NumberIs DEF Held
  <2>3. p # 4 * W - 1 =>
          (p + 1 \in Held <=>
             \/ p + 1 < W /\ p + 1 \in sdx
             \/ W <= p + 1 /\ p + 1 < 2 * W /\ (p + 1) - W \in scx
             \/ 2 * W <= p + 1 /\ p + 1 < 3 * W /\ (p + 1) - 2 * W \in sbx
             \/ 3 * W <= p + 1 /\ (p + 1) - 3 * W \in sax)
    <3> DEFINE q == p + 1
    <3>1. p # 4 * W - 1 => q \in Shift!Position
      BY <2>1, Width DEF Shift!Position
    <3> HIDE DEF q
    <3>2. p # 4 * W - 1 =>
            (q \in Held <=>
               \/ q < W /\ q \in sdx
               \/ W <= q /\ q < 2 * W /\ q - W \in scx
               \/ 2 * W <= q /\ q < 3 * W /\ q - 2 * W \in sbx
               \/ 3 * W <= q /\ q - 3 * W \in sax)
      BY <3>1, NumberIs DEF Held
    <3> QED
      BY <3>2 DEF q
  <2>4. CASE p < W
    <3>1. p \in 0 .. W - 1 /\ p # 4 * W - 1 /\ (p = W - 1 => p + 1 - W = 0)
      BY <2>1, <2>4, Width
    <3>2. p \in Held' <=> p \in sdx'
      BY <2>1, <2>2, <2>4, Width
    <3>3. CASE p = W - 1
      <4>1. p + 1 \in Held <=> 0 \in scx
        BY <2>1, <2>3, <2>4, <3>1, <3>3, Width
      <4> QED
        BY <1>4, <3>1, <3>2, <3>3, <4>1
    <3>4. CASE p # W - 1
      <4>1. p + 1 \in Held <=> p + 1 \in sdx
        BY <2>1, <2>3, <2>4, <3>1, <3>4, Width
      <4> QED
        BY <1>4, <3>1, <3>2, <3>4, <4>1
    <3> QED
      BY <3>3, <3>4
  <2>5. CASE W <= p /\ p < 2 * W
    <3>1. p - W \in 0 .. W - 1 /\ p # 4 * W - 1
      BY <2>1, <2>5, Width
    <3>2. p \in Held' <=> p - W \in scx'
      BY <2>1, <2>2, <2>5, Width
    <3>3. CASE p - W = W - 1
      <4>1. p + 1 - 2 * W = 0 /\ 2 * W <= p + 1 /\ p + 1 < 3 * W
        BY <2>1, <3>3, Width
      <4>2. p + 1 \in Held <=> 0 \in sbx
        BY <2>1, <2>3, <3>1, <4>1, Width
      <4> QED
        BY <1>4, <3>1, <3>2, <3>3, <4>2
    <3>4. CASE p - W # W - 1
      <4>1. p + 1 - W = (p - W) + 1 /\ W <= p + 1 /\ p + 1 < 2 * W
        BY <2>1, <2>5, <3>4, Width
      <4>2. p + 1 \in Held <=> (p - W) + 1 \in scx
        BY <2>1, <2>3, <3>1, <4>1, Width
      <4> QED
        BY <1>4, <3>1, <3>2, <3>4, <4>2
    <3> QED
      BY <3>3, <3>4
  <2>6. CASE 2 * W <= p /\ p < 3 * W
    <3>1. p - 2 * W \in 0 .. W - 1 /\ p # 4 * W - 1
      BY <2>1, <2>6, Width
    <3>2. p \in Held' <=> p - 2 * W \in sbx'
      BY <2>1, <2>2, <2>6, Width
    <3>3. CASE p - 2 * W = W - 1
      <4>1. p + 1 - 3 * W = 0 /\ 3 * W <= p + 1
        BY <2>1, <3>3, Width
      <4>2. p + 1 \in Held <=> 0 \in sax
        BY <2>1, <2>3, <3>1, <4>1, Width
      <4> QED
        BY <1>4, <3>1, <3>2, <3>3, <4>2
    <3>4. CASE p - 2 * W # W - 1
      <4>1. p + 1 - 2 * W = (p - 2 * W) + 1 /\ 2 * W <= p + 1 /\ p + 1 < 3 * W
        BY <2>1, <2>6, <3>4, Width
      <4>2. p + 1 \in Held <=> (p - 2 * W) + 1 \in sbx
        BY <2>1, <2>3, <3>1, <4>1, Width
      <4> QED
        BY <1>4, <3>1, <3>2, <3>4, <4>2
    <3> QED
      BY <3>3, <3>4
  <2>7. CASE 3 * W <= p
    <3>1. p - 3 * W \in 0 .. W - 1 /\ (p = 4 * W - 1 <=> p - 3 * W = W - 1)
      BY <2>1, <2>7, Width
    <3>2. p \in Held' <=> p - 3 * W \in sax'
      BY <2>1, <2>2, <2>7, Width
    <3>3. CASE p - 3 * W = W - 1
      BY <1>4, <3>1, <3>2, <3>3
    <3>4. CASE p - 3 * W # W - 1
      <4>1. p + 1 - 3 * W = (p - 3 * W) + 1 /\ 3 * W <= p + 1
        BY <2>1, <2>7, <3>4, Width
      <4>2. p + 1 \in Held <=> (p - 3 * W) + 1 \in sax
        BY <2>1, <2>3, <3>1, <3>4, <4>1, Width
      <4> QED
        BY <1>4, <3>1, <3>2, <3>4, <4>2
    <3> QED
      BY <3>3, <3>4
  <2> QED
    BY <2>1, <2>4, <2>5, <2>6, <2>7, Width
<1> QED
  BY <1>3, <1>5

LEMMA LeftBitIs ==
  ASSUME Words, Shift!LeftBit
  PROVE  /\ Words'
         /\ \A p \in Shift!Position : p \in Held' <=> p # 0 /\ p - 1 \in Held
<1>1. /\ sdx' = Shift!Rcl(sdx, FALSE) /\ scx' = Shift!Rcl(scx, W - 1 \in sdx)
      /\ sbx' = Shift!Rcl(sbx, W - 1 \in scx) /\ sax' = Shift!Rcl(sax, W - 1 \in sbx)
  BY DEF Shift!LeftBit, Shift!High
<1>2. /\ sax \in SUBSET (0 .. W - 1) /\ sbx \in SUBSET (0 .. W - 1)
      /\ scx \in SUBSET (0 .. W - 1) /\ sdx \in SUBSET (0 .. W - 1)
  BY DEF Words
<1>3. /\ sdx' \subseteq 0 .. W - 1
      /\ \A r \in 0 .. W - 1 : r \in sdx' <=> IF r = 0 THEN FALSE ELSE r - 1 \in sdx
  <2>1. sdx' = Shift!Rcl(sdx, FALSE) /\ sdx \in SUBSET (0 .. W - 1)
    BY <1>1, <1>2
  <2> QED
    BY <2>1, RotatesIs, Zenon
<1>4. /\ scx' \subseteq 0 .. W - 1
      /\ \A r \in 0 .. W - 1 :
           r \in scx' <=> IF r = 0 THEN W - 1 \in sdx ELSE r - 1 \in scx
  <2>1. scx' = Shift!Rcl(scx, W - 1 \in sdx) /\ scx \in SUBSET (0 .. W - 1)
    BY <1>1, <1>2
  <2> QED
    BY <2>1, RotatesIs, Zenon
<1>5. /\ sbx' \subseteq 0 .. W - 1
      /\ \A r \in 0 .. W - 1 :
           r \in sbx' <=> IF r = 0 THEN W - 1 \in scx ELSE r - 1 \in sbx
  <2>1. sbx' = Shift!Rcl(sbx, W - 1 \in scx) /\ sbx \in SUBSET (0 .. W - 1)
    BY <1>1, <1>2
  <2> QED
    BY <2>1, RotatesIs, Zenon
<1>6. /\ sax' \subseteq 0 .. W - 1
      /\ \A r \in 0 .. W - 1 :
           r \in sax' <=> IF r = 0 THEN W - 1 \in sbx ELSE r - 1 \in sax
  <2>1. sax' = Shift!Rcl(sax, W - 1 \in sbx) /\ sax \in SUBSET (0 .. W - 1)
    BY <1>1, <1>2
  <2> QED
    BY <2>1, RotatesIs, Zenon
<1>7. Words'
  BY <1>3, <1>4, <1>5, <1>6 DEF Words
<1>8. ASSUME NEW p \in Shift!Position
      PROVE  p \in Held' <=> p # 0 /\ p - 1 \in Held
  <2>1. p \in Nat /\ p < 4 * W
    BY NumberIs
  <2>2. p \in Held' <=>
          \/ p < W /\ p \in sdx'
          \/ W <= p /\ p < 2 * W /\ p - W \in scx'
          \/ 2 * W <= p /\ p < 3 * W /\ p - 2 * W \in sbx'
          \/ 3 * W <= p /\ p - 3 * W \in sax'
    BY NumberIs DEF Held
  <2>3. p # 0 =>
          (p - 1 \in Held <=>
             \/ p - 1 < W /\ p - 1 \in sdx
             \/ W <= p - 1 /\ p - 1 < 2 * W /\ p - 1 - W \in scx
             \/ 2 * W <= p - 1 /\ p - 1 < 3 * W /\ p - 1 - 2 * W \in sbx
             \/ 3 * W <= p - 1 /\ p - 1 - 3 * W \in sax)
    <3> DEFINE q == p - 1
    <3>1. p # 0 => q \in Shift!Position
      BY <2>1, Width DEF Shift!Position
    <3> HIDE DEF q
    <3>2. p # 0 =>
            (q \in Held <=>
               \/ q < W /\ q \in sdx
               \/ W <= q /\ q < 2 * W /\ q - W \in scx
               \/ 2 * W <= q /\ q < 3 * W /\ q - 2 * W \in sbx
               \/ 3 * W <= q /\ q - 3 * W \in sax)
      BY <3>1, NumberIs DEF Held
    <3> QED
      BY <3>2 DEF q
  <2>4. CASE p < W
    <3>1. p \in 0 .. W - 1
      BY <2>1, <2>4, Width
    <3>2. p \in Held' <=> p \in sdx'
      BY <2>1, <2>2, <2>4, Width
    <3>3. CASE p = 0
      BY <1>3, <3>1, <3>2, <3>3
    <3>4. CASE p # 0
      <4>1. p - 1 \in Held <=> p - 1 \in sdx
        BY <2>1, <2>3, <2>4, <3>4, Width
      <4> QED
        BY <1>3, <3>1, <3>2, <3>4, <4>1
    <3> QED
      BY <3>3, <3>4
  <2>5. CASE W <= p /\ p < 2 * W
    <3>1. p - W \in 0 .. W - 1 /\ p # 0
      BY <2>1, <2>5, Width
    <3>2. p \in Held' <=> p - W \in scx'
      BY <2>1, <2>2, <2>5, Width
    <3>3. CASE p - W = 0
      <4>1. p - 1 = W - 1 /\ p - 1 < W
        BY <2>1, <3>3, Width
      <4>2. p - 1 \in Held <=> W - 1 \in sdx
        BY <2>1, <2>3, <3>1, <4>1, Width
      <4> QED
        BY <1>4, <3>1, <3>2, <3>3, <4>2
    <3>4. CASE p - W # 0
      <4>1. p - 1 - W = (p - W) - 1 /\ W <= p - 1 /\ p - 1 < 2 * W
        BY <2>1, <2>5, <3>4, Width
      <4>2. p - 1 \in Held <=> (p - W) - 1 \in scx
        BY <2>1, <2>3, <3>1, <4>1, Width
      <4> QED
        BY <1>4, <3>1, <3>2, <3>4, <4>2
    <3> QED
      BY <3>3, <3>4
  <2>6. CASE 2 * W <= p /\ p < 3 * W
    <3>1. p - 2 * W \in 0 .. W - 1 /\ p # 0
      BY <2>1, <2>6, Width
    <3>2. p \in Held' <=> p - 2 * W \in sbx'
      BY <2>1, <2>2, <2>6, Width
    <3>3. CASE p - 2 * W = 0
      <4>1. p - 1 - W = W - 1 /\ W <= p - 1 /\ p - 1 < 2 * W
        BY <2>1, <3>3, Width
      <4>2. p - 1 \in Held <=> W - 1 \in scx
        BY <2>1, <2>3, <3>1, <4>1, Width
      <4> QED
        BY <1>5, <3>1, <3>2, <3>3, <4>2
    <3>4. CASE p - 2 * W # 0
      <4>1. p - 1 - 2 * W = (p - 2 * W) - 1 /\ 2 * W <= p - 1 /\ p - 1 < 3 * W
        BY <2>1, <2>6, <3>4, Width
      <4>2. p - 1 \in Held <=> (p - 2 * W) - 1 \in sbx
        BY <2>1, <2>3, <3>1, <4>1, Width
      <4> QED
        BY <1>5, <3>1, <3>2, <3>4, <4>2
    <3> QED
      BY <3>3, <3>4
  <2>7. CASE 3 * W <= p
    <3>1. p - 3 * W \in 0 .. W - 1 /\ p # 0
      BY <2>1, <2>7, Width
    <3>2. p \in Held' <=> p - 3 * W \in sax'
      BY <2>1, <2>2, <2>7, Width
    <3>3. CASE p - 3 * W = 0
      <4>1. p - 1 - 2 * W = W - 1 /\ 2 * W <= p - 1 /\ p - 1 < 3 * W
        BY <2>1, <3>3, Width
      <4>2. p - 1 \in Held <=> W - 1 \in sbx
        BY <2>1, <2>3, <3>1, <4>1, Width
      <4> QED
        BY <1>6, <3>1, <3>2, <3>3, <4>2
    <3>4. CASE p - 3 * W # 0
      <4>1. p - 1 - 3 * W = (p - 3 * W) - 1 /\ 3 * W <= p - 1
        BY <2>1, <2>7, <3>4, Width
      <4>2. p - 1 \in Held <=> (p - 3 * W) - 1 \in sax
        BY <2>1, <2>3, <3>1, <4>1, Width
      <4> QED
        BY <1>6, <3>1, <3>2, <3>4, <4>2
    <3> QED
      BY <3>3, <3>4
  <2> QED
    BY <2>1, <2>4, <2>5, <2>6, <2>7, Width
<1> QED
  BY <1>7, <1>8

(* Where in the number of the call the bit comes from that is in place p   *)
(* after k turns, and how many turns have been taken.  rotr64 by 0 takes   *)
(* as many as SI has values.                                               *)
Place(o, p, k) ==
  CASE o = "u8rs" -> p + k
    [] o = "u8ls" -> p - k
    [] OTHER -> (p + k) % (4 * W)
Turns == IF scount > 0 THEN scount - ssi ELSE IF ssi = 0 THEN 0 ELSE SI_SIZE - ssi
MovedBy(k) == \A p \in Shift!Position : p \in Held <=> Place(sop, p, k) \in svalue

Shifts == {"u8rs", "u8ls", "rotr64"}

ShiftCallInv ==
  /\ spc \in {"idle", "bit", "return"}
  /\ spc # "idle" => /\ sop \in Shifts
                     /\ svalue \in SUBSET Shift!Position
                     /\ scount \in 0 .. SI_SIZE - 1
ShiftCountInv ==
  spc = "bit" => /\ ssi \in 0 .. SI_SIZE - 1
                 /\ scount = 0 => sop = "rotr64"
                 /\ scount > 0 => ssi \in 1 .. scount
ShiftInv ==
  /\ Words /\ ShiftCallInv /\ ShiftCountInv
  /\ spc = "bit" => MovedBy(Turns)
  /\ spc = "return" => MovedBy(scount)

LEMMA Rounds ==
  ASSUME NEW m \in Nat, m > 0, NEW n \in Nat, n % m = 0, NEW p \in Nat
  PROVE  (p + n) % m = p % m
<1> DEFINE d == p \div m
           r == p % m
           q == n \div m
<1>1. /\ d \in Int /\ r \in 0 .. m - 1 /\ p = d * m + r
      /\ q \in Int /\ n = q * m
  <2>1. p \div m \in Int /\ p % m \in 0 .. m - 1 /\ p = (p \div m) * m + (p % m)
    OBVIOUS
  <2>2. n \div m \in Int /\ n = (n \div m) * m + (n % m)
    OBVIOUS
  <2> QED
    BY <2>1, <2>2
<1> HIDE DEF d, r, q
<1>2. (d + q) * m = d * m + q * m /\ d + q \in Int
  BY <1>1
<1>3. d * m \in Int /\ q * m \in Int /\ (d + q) * m \in Int
  BY <1>1
<1>4. p + n \in Int /\ (d + q) * m <= p + n /\ p + n < (d + q) * m + m /\ (p + n) - (d + q) * m = r
  BY <1>1, <1>2, <1>3
<1>5. (p + n) % m = (p + n) - (d + q) * m
  BY <1>2, <1>4, Division
<1> QED
  BY <1>4, <1>5 DEF r

(* One turn more: the bits come from one place further on. *)
LEMMA TurnIs ==
  ASSUME ShiftCallInv, spc = "bit", Words, NEW k \in Nat, MovedBy(k),
         Shift!U8RS \/ Shift!U8LS \/ Shift!Rotr64
  PROVE  Words' /\ (\A p \in Shift!Position : p \in Held' <=> Place(sop, p, k + 1) \in svalue)
<1>1. /\ svalue \subseteq Shift!Position
      /\ \A p \in Shift!Position : p \in Held <=> Place(sop, p, k) \in svalue
  BY DEF ShiftCallInv, MovedBy
<1>2. CASE Shift!U8RS
  <2>1. sop = "u8rs" /\ Shift!RightBit(FALSE)
    BY <1>2 DEF Shift!U8RS
  <2>2. /\ Words'
        /\ \A p \in Shift!Position :
             p \in Held' <=> IF p = 4 * W - 1 THEN FALSE ELSE p + 1 \in Held
    BY <2>1, RightBitIs
  <2>3. ASSUME NEW p \in Shift!Position
        PROVE  p \in Held' <=> p + (k + 1) \in svalue
    <3>1. CASE p = 4 * W - 1
      <4>1. p + (k + 1) \notin Shift!Position
        BY <3>1, Width DEF Shift!Position
      <4> QED
        BY <1>1, <2>2, <3>1, <4>1
    <3>2. CASE p # 4 * W - 1
      <4>1. p + 1 \in Shift!Position /\ (p + 1) + k = p + (k + 1)
        BY <3>2, Width DEF Shift!Position
      <4>2. p + 1 \in Held <=> (p + 1) + k \in svalue
        BY <1>1, <2>1, <4>1 DEF Place
      <4> QED
        BY <2>2, <3>2, <4>1, <4>2
    <3> QED
      BY <3>1, <3>2
  <2> QED
    BY <2>1, <2>2, <2>3 DEF Place
<1>3. CASE Shift!U8LS
  <2>1. sop = "u8ls" /\ Shift!LeftBit
    BY <1>3 DEF Shift!U8LS
  <2>2. /\ Words'
        /\ \A p \in Shift!Position : p \in Held' <=> p # 0 /\ p - 1 \in Held
    BY <2>1, LeftBitIs
  <2>3. ASSUME NEW p \in Shift!Position
        PROVE  p \in Held' <=> p - (k + 1) \in svalue
    <3>1. CASE p = 0
      <4>1. p - (k + 1) \notin Shift!Position
        BY <3>1, Width DEF Shift!Position
      <4> QED
        BY <1>1, <2>2, <3>1, <4>1
    <3>2. CASE p # 0
      <4>1. p - 1 \in Shift!Position /\ (p - 1) - k = p - (k + 1)
        BY <3>2, Width DEF Shift!Position
      <4>2. p - 1 \in Held <=> (p - 1) - k \in svalue
        BY <1>1, <2>1, <4>1 DEF Place
      <4> QED
        BY <2>2, <3>2, <4>1, <4>2
    <3> QED
      BY <3>1, <3>2
  <2> QED
    BY <2>1, <2>2, <2>3 DEF Place
<1>4. CASE Shift!Rotr64
  <2>1. sop = "rotr64" /\ Shift!RightBit(0 \in sdx)
    BY <1>4 DEF Shift!Rotr64, Shift!Low
  <2>2. /\ Words'
        /\ \A p \in Shift!Position :
             p \in Held' <=> IF p = 4 * W - 1 THEN 0 \in sdx ELSE p + 1 \in Held
    <3> DEFINE carry == 0 \in sdx
    <3>1. Shift!RightBit(carry)
      BY <2>1
    <3> HIDE DEF carry
    <3>2. /\ Words'
          /\ \A p \in Shift!Position :
               p \in Held' <=> IF p = 4 * W - 1 THEN carry ELSE p + 1 \in Held
      BY <3>1, RightBitIs
    <3> QED
      BY <3>2 DEF carry
  <2>3. \A p \in Shift!Position : p \in Held <=> (p + k) % (4 * W) \in svalue
    BY <1>1, <2>1 DEF Place
  <2>4. ASSUME NEW p \in Shift!Position
        PROVE  p \in Held' <=> (p + (k + 1)) % (4 * W) \in svalue
    <3>1. CASE p = 4 * W - 1
      <4>1. 0 \in Shift!Position
        BY Width DEF Shift!Position
      <4>2. 0 \in Held <=> 0 \in sdx
        BY <4>1, NumberIs, Width DEF Held
      <4>3. p + (k + 1) = k + 4 * W /\ 0 + k = k
        BY <3>1, Width
      <4>4. \A m \in Nat : m > 0 => (k + m) % m = k % m
        <5> SUFFICES ASSUME NEW m \in Nat, m > 0
                     PROVE  (k + m) % m = k % m
          OBVIOUS
        <5>1. m % m = 0
          BY Division, 1 * m = m
        <5> QED
          BY <5>1, Rounds
      <4>5. (k + 4 * W) % (4 * W) = k % (4 * W)
        <5>1. 4 * W \in Nat /\ 4 * W > 0
          BY Width
        <5> QED
          BY <4>4, <5>1
      <4> QED
        BY <2>2, <2>3, <3>1, <4>1, <4>2, <4>3, <4>5
    <3>2. CASE p # 4 * W - 1
      <4>1. p + 1 \in Shift!Position /\ (p + 1) + k = p + (k + 1)
        BY <3>2, Width DEF Shift!Position
      <4>2. p + 1 \in Held <=> ((p + 1) + k) % (4 * W) \in svalue
        BY <2>3, <4>1
      <4> QED
        BY <2>2, <3>2, <4>1, <4>2
    <3> QED
      BY <3>1, <3>2
  <2> QED
    BY <2>1, <2>2, <2>4 DEF Place
<1> QED
  BY <1>2, <1>3, <1>4

LEMMA Filled64 ==
  ASSUME NEW v \in SUBSET Shift!Position, Shift!Registers(v)
  PROVE  Words' /\ (\A p \in Shift!Position : p \in Held' <=> p \in v)
<1>1. /\ sax' = {p \in 0 .. W - 1 : p + 3 * W \in v} /\ sbx' = {p \in 0 .. W - 1 : p + 2 * W \in v}
      /\ scx' = {p \in 0 .. W - 1 : p + W \in v} /\ sdx' = {p \in 0 .. W - 1 : p \in v}
  BY DEF Shift!Registers
<1>2. Words'
  BY <1>1 DEF Words
<1>3. ASSUME NEW p \in Shift!Position
      PROVE  p \in Held' <=> p \in v
  <2>1. p \in Nat /\ p < 4 * W
    BY NumberIs
  <2>2. p \in Held' <=>
          \/ p < W /\ p \in sdx'
          \/ W <= p /\ p < 2 * W /\ p - W \in scx'
          \/ 2 * W <= p /\ p < 3 * W /\ p - 2 * W \in sbx'
          \/ 3 * W <= p /\ p - 3 * W \in sax'
    BY NumberIs DEF Held
  <2>3. CASE p < W
    BY <1>1, <2>1, <2>2, <2>3, Width
  <2>4. CASE W <= p /\ p < 2 * W
    <3>1. p - W \in 0 .. W - 1 /\ (p - W) + W = p
      BY <2>1, <2>4, Width
    <3> QED
      BY <1>1, <2>1, <2>2, <2>4, <3>1, Width
  <2>5. CASE 2 * W <= p /\ p < 3 * W
    <3>1. p - 2 * W \in 0 .. W - 1 /\ (p - 2 * W) + 2 * W = p
      BY <2>1, <2>5, Width
    <3> QED
      BY <1>1, <2>1, <2>2, <2>5, <3>1, Width
  <2>6. CASE 3 * W <= p
    <3>1. p - 3 * W \in 0 .. W - 1 /\ (p - 3 * W) + 3 * W = p
      BY <2>1, <2>6, Width
    <3> QED
      BY <1>1, <2>1, <2>2, <2>6, <3>1, Width
  <2> QED
    BY <2>1, <2>3, <2>4, <2>5, <2>6, Width
<1> QED
  BY <1>2, <1>3

LEMMA Unmoved ==
  ASSUME NEW p \in Shift!Position, NEW o
  PROVE  Place(o, p, 0) = p
<1>1. p \in Nat /\ p < 4 * W
  BY NumberIs
<1>2. p % (4 * W) = p
  <2> DEFINE m == 4 * W
  <2>1. m \in Nat /\ m > 0 /\ p < m
    BY <1>1, Width
  <2> HIDE DEF m
  <2>2. p % m = p - 0 * m /\ 0 * m = 0
    BY <1>1, <2>1, Division
  <2>3. p % m = p
    BY <1>1, <2>1, <2>2
  <2> QED
    BY <2>3 DEF m
<1> QED
  BY <1>1, <1>2 DEF Place

(* A rotation by as many places as SI has values is none. *)
LEMMA GoesAround ==
  ASSUME NEW p \in Shift!Position
  PROVE  Place("rotr64", p, SI_SIZE) = Place("rotr64", p, 0)
<1>1. p \in Nat
  BY NumberIs
<1> DEFINE m == 4 * W
<1>2. m \in Nat /\ m > 0 /\ SI_SIZE % m = 0
  BY Shift64Assumption
<1> HIDE DEF m
<1>3. (p + SI_SIZE) % m = p % m /\ p + 0 = p
  <2>1. SI_SIZE \in Nat
    BY Width
  <2>2. (p + SI_SIZE) % m = p % m
    BY <1>1, <1>2, <2>1, Rounds, Zenon
  <2> QED
    BY <1>1, <2>2
<1> QED
  BY <1>3 DEF Place, m

LEMMA ShiftCall ==
  ASSUME Shift!Call
  PROVE  ShiftInv'
<1>1. PICK o \in Shifts, v \in SUBSET Shift!Position, n \in Counts : Shift!Enter(o, v, n)
  BY DEF Shift!Call, Shifts
<1>2. /\ sop' = o /\ svalue' = v /\ scount' = n /\ ssi' = n
      /\ Shift!Registers(v)
      /\ spc' = IF n = 0 /\ o # "rotr64" THEN "return" ELSE "bit"
  BY <1>1 DEF Shift!Enter
<1>3. n \in 0 .. SI_SIZE - 1
  BY Width
<1>4. Words' /\ (\A p \in Shift!Position : p \in Held' <=> p \in v)
  BY <1>2, Filled64
<1>5. ShiftCallInv' /\ ShiftCountInv'
  BY <1>2, <1>3 DEF ShiftCallInv, ShiftCountInv, Shifts
<1>6. MovedBy(0)'
  BY <1>2, <1>4, Unmoved DEF MovedBy
<1>7. /\ spc' = "return" => scount' = 0
      /\ Turns' = 0
  BY <1>2, <1>3 DEF Turns
<1> QED
  BY <1>4, <1>5, <1>6, <1>7 DEF ShiftInv

LEMMA ShiftBit ==
  ASSUME ShiftInv, Shift!U8RS \/ Shift!U8LS \/ Shift!Rotr64
  PROVE  ShiftInv'
<1>1. /\ spc = "bit" /\ sop' = sop /\ svalue' = svalue /\ scount' = scount
      /\ ssi' = (ssi - 1) % SI_SIZE
      /\ spc' = IF ssi' = 0 THEN "return" ELSE spc
  BY DEF Shift!U8RS, Shift!U8LS, Shift!Rotr64, Shift!Count
<1>2. /\ Words /\ ShiftCallInv /\ MovedBy(Turns)
      /\ ssi \in 0 .. SI_SIZE - 1 /\ scount \in 0 .. SI_SIZE - 1
      /\ scount = 0 => sop = "rotr64"
      /\ scount > 0 => ssi \in 1 .. scount
  BY <1>1 DEF ShiftInv, ShiftCallInv, ShiftCountInv
<1>3. Turns \in Nat
  BY <1>2, Width DEF Turns
<1>4. Words' /\ (\A p \in Shift!Position : p \in Held' <=> Place(sop, p, Turns + 1) \in svalue)
  BY <1>1, <1>2, <1>3, TurnIs
<1>5. ssi' = IF ssi = 0 THEN SI_SIZE - 1 ELSE ssi - 1
  <2>1. CASE ssi = 0
    <3>1. (-1) % SI_SIZE = SI_SIZE - 1
      <4>1. /\ -1 \in Int /\ (-1) * SI_SIZE = -SI_SIZE
            /\ (-1) * SI_SIZE <= -1 /\ -1 < (-1) * SI_SIZE + SI_SIZE
            /\ -1 - (-1) * SI_SIZE = SI_SIZE - 1
        BY Width
      <4> QED
        BY <4>1, Division, Width
    <3> QED
      BY <1>1, <2>1, <3>1
  <2>2. CASE ssi # 0
    <3> DEFINE r == ssi - 1
    <3>1. r \in Nat /\ r < SI_SIZE
      BY <1>2, <2>2, Width
    <3> HIDE DEF r
    <3>2. r % SI_SIZE = r - 0 * SI_SIZE /\ 0 * SI_SIZE = 0
      BY <3>1, Division, Width
    <3>3. r % SI_SIZE = r
      BY <3>1, <3>2
    <3> QED
      BY <1>1, <2>2, <3>3 DEF r
  <2> QED
    BY <2>1, <2>2
<1>6. ShiftCallInv' /\ ShiftCountInv'
  BY <1>1, <1>2, <1>5, Width DEF ShiftCallInv, ShiftCountInv
<1>7. CASE ssi' = 0
  <2>1. spc' = "return"
    BY <1>1, <1>7
  <2>2. CASE scount > 0
    <3>1. Turns + 1 = scount
      BY <1>2, <1>5, <1>7, <2>2, Width DEF Turns
    <3> QED
      BY <1>1, <1>4, <1>6, <2>1, <3>1 DEF ShiftInv, MovedBy
  <2>3. CASE scount = 0
    <3>1. Turns + 1 = SI_SIZE
      BY <1>2, <1>5, <1>7, <2>3, Width DEF Turns
    <3>2. \A p \in Shift!Position : Place(sop, p, Turns + 1) = Place(sop, p, scount)
      BY <1>2, <2>3, <3>1, GoesAround
    <3> QED
      BY <1>1, <1>4, <1>6, <2>1, <3>2 DEF ShiftInv, MovedBy
  <2> QED
    BY <1>2, <2>2, <2>3
<1>8. CASE ssi' # 0
  <2>1. spc' = "bit"
    BY <1>1, <1>8
  <2>2. Turns' = Turns + 1
    BY <1>1, <1>2, <1>5, <1>8, Width DEF Turns
  <2>3. MovedBy(Turns)'
    BY <1>1, <1>4, <2>2 DEF MovedBy
  <2> QED
    BY <1>4, <1>6, <2>1, <2>3 DEF ShiftInv
<1> QED
  BY <1>7, <1>8

LEMMA ShiftKeeps ==
  ASSUME ShiftInv, [Shift!Next]_shiftvars
  PROVE  ShiftInv'
<1>1. CASE Shift!Call
  BY <1>1, ShiftCall
<1>2. CASE Shift!U8RS \/ Shift!U8LS \/ Shift!Rotr64
  BY <1>2, ShiftBit
<1>3. CASE Shift!Return
  <2>1. spc' = "idle" /\ sax' = {} /\ sbx' = {} /\ scx' = {} /\ sdx' = {}
    BY <1>3 DEF Shift!Return
  <2> QED
    BY <2>1 DEF ShiftInv, ShiftCallInv, ShiftCountInv, Words
<1>4. CASE UNCHANGED shiftvars
  <2>1. UNCHANGED <<spc, sop, sax, sbx, scx, sdx, ssi, svalue, scount>>
    BY <1>4 DEF shiftvars
  <2>2. Words' /\ Held' = Held /\ Turns' = Turns /\ ShiftCallInv' /\ ShiftCountInv'
    BY <2>1 DEF ShiftInv, ShiftCallInv, ShiftCountInv, Words, Held, Turns
  <2> QED
    BY <2>1, <2>2 DEF ShiftInv, MovedBy
<1> QED
  BY <1>1, <1>2, <1>3, <1>4 DEF Shift!Next, Shift!Step

(* u8shift.s, fun.h: at every turn of a shift or a rotation the registers  *)
(* hold the number of the call, moved by as many places as there were      *)
(* turns; so every call returns it shifted or rotated, for every count.    *)
THEOREM ShiftIsRight == PrimitivesSpec => []ShiftRight
<1>1. PrimitivesInit => ShiftInv
  <2> SUFFICES ASSUME PrimitivesInit
               PROVE  ShiftInv
    OBVIOUS
  <2>1. spc = "idle" /\ sax = {} /\ sbx = {} /\ scx = {} /\ sdx = {}
    BY DEF PrimitivesInit, Shift!Init
  <2> QED
    BY <2>1 DEF ShiftInv, ShiftCallInv, ShiftCountInv, Words
<1>2. ShiftInv /\ [PrimitivesNext]_allvars => ShiftInv'
  <2> SUFFICES ASSUME ShiftInv, [PrimitivesNext]_allvars
               PROVE  ShiftInv'
    OBVIOUS
  <2>1. [Shift!Next]_shiftvars
    BY DEF PrimitivesNext, allvars
  <2> QED
    BY <2>1, ShiftKeeps
<1>3. ShiftInv => ShiftRight
  <2> SUFFICES ASSUME ShiftInv, spc = "return"
               PROVE  Held = CASE sop = "u8rs" -> {p \in Shift!Position : p + scount \in svalue}
                               [] sop = "u8ls" -> {p \in Shift!Position : p - scount \in svalue}
                               [] sop = "rotr64" ->
                                    {p \in Shift!Position : (p + scount) % (4 * W) \in svalue}
    BY DEF ShiftRight, Shift!ShiftRight, Held
  <2>1. /\ sop \in Shifts
        /\ \A p \in Shift!Position : p \in Held <=> Place(sop, p, scount) \in svalue
        /\ Held \subseteq Shift!Position
    BY DEF ShiftInv, ShiftCallInv, MovedBy, Held, Shift!Number
  <2>2. Held = {p \in Shift!Position : Place(sop, p, scount) \in svalue}
    BY <2>1
  <2> QED
    BY <2>1, <2>2 DEF Place, Shifts
<1> QED
  BY <1>1, <1>2, <1>3, PTL DEF PrimitivesSpec

-----------------------------------------------------------------------------
(* The printing of numbers and bytes. *)

(* Induction: a set that has 0, and n + 1 with n, has every number. *)
LEMMA SetInduction ==
  ASSUME NEW S, 0 \in S, \A n \in Nat : n \in S => n + 1 \in S
  PROVE  Nat \subseteq S
<1> SUFFICES ASSUME Nat \ S # {} PROVE FALSE
  OBVIOUS
<1> DEFINE R == {ss \in Nat \X Nat : ss[1] < ss[2]}
<1>1. IsWellFoundedOn(R, Nat)
  BY NatLessThanWellFounded DEF OpToRel
<1>2. PICK n \in Nat \ S : \A m \in Nat \ S : ~(<<m, n>> \in R)
  BY <1>1, WFMin
<1>3. n - 1 \in Nat /\ n - 1 < n
  BY <1>2
<1>4. <<n - 1, n>> \in R
  BY <1>3
<1>5. n - 1 \in S
  BY <1>2, <1>3, <1>4
<1> QED
  BY <1>2, <1>3, <1>5

(* The buffer has a place for every division by two or more. *)
Doubles(w, n) == w[0] = 1 /\ \A j \in 1 .. n : w[j] = 2 * w[j - 1]

LEMMA DoublesExist ==
  \A n \in Nat : \E w : Doubles(w, n)
<1> DEFINE S == {n \in Nat : \E w : Doubles(w, n)}
<1>1. 0 \in S
  <2>1. Doubles([j \in {0} |-> 1], 0)
    BY DEF Doubles
  <2> QED
    BY <2>1
<1>2. ASSUME NEW n \in Nat, n \in S
      PROVE  n + 1 \in S
  <2>1. PICK w : Doubles(w, n)
    BY <1>2
  <2> DEFINE v == [j \in 0 .. n + 1 |-> IF j = n + 1 THEN 2 * w[n] ELSE w[j]]
  <2>2. v[0] = 1
    BY <2>1 DEF Doubles
  <2>3. ASSUME NEW j \in 1 .. n + 1
        PROVE  v[j] = 2 * v[j - 1]
    <3>1. v[j - 1] = w[j - 1]
      OBVIOUS
    <3>2. CASE j = n + 1
      BY <3>1, <3>2
    <3>3. CASE j # n + 1
      <4>1. j \in 1 .. n /\ v[j] = w[j]
        BY <3>3
      <4> QED
        BY <2>1, <3>1, <4>1 DEF Doubles
    <3> QED
      BY <3>2, <3>3
  <2>4. Doubles(v, n + 1)
    BY <2>2, <2>3 DEF Doubles
  <2> QED
    BY <2>4
<1>3. Nat \subseteq S
  BY <1>1, <1>2, SetInduction
<1> QED
  BY <1>3

LEMMA TwoToIs ==
  /\ TwoTo[0] = 1
  /\ \A k \in 1 .. BUF_SZ : TwoTo[k] = 2 * TwoTo[k - 1]
  /\ \A k \in 0 .. BUF_SZ : TwoTo[k] \in Nat
<1>1. BUF_SZ \in Nat
  BY PrintAssumption
<1>2. PICK w : Doubles(w, BUF_SZ)
  BY <1>1, DoublesExist
<1> DEFINE A == [k \in 0 .. BUF_SZ |-> w[k]]
           Once(f) == [k \in 0 .. BUF_SZ |-> IF k = 0 THEN 1 ELSE 2 * f[k - 1]]
<1>3. A = Once(A)
  <2>1. ASSUME NEW k \in 0 .. BUF_SZ
        PROVE  A[k] = IF k = 0 THEN 1 ELSE 2 * A[k - 1]
    <3>1. CASE k = 0
      BY <1>2, <3>1 DEF Doubles
    <3>2. CASE k # 0
      <4>1. k \in 1 .. BUF_SZ /\ k - 1 \in 0 .. BUF_SZ
        BY <1>1, <3>2
      <4> QED
        BY <1>2, <3>2, <4>1 DEF Doubles
    <3> QED
      BY <3>1, <3>2
  <2> QED
    BY <2>1
<1>4. TwoTo = CHOOSE f : f = Once(f)
  BY DEF TwoTo
<1>5. TwoTo = Once(TwoTo)
  BY <1>3, <1>4
<1>6. /\ TwoTo[0] = 1
      /\ \A k \in 1 .. BUF_SZ : TwoTo[k] = 2 * TwoTo[k - 1]
  BY <1>1, <1>5
<1> DEFINE S == {k \in Nat : k <= BUF_SZ => TwoTo[k] \in Nat}
<1>7. 0 \in S
  BY <1>6
<1>8. ASSUME NEW k \in Nat, k \in S
      PROVE  k + 1 \in S
  <2> SUFFICES ASSUME k + 1 <= BUF_SZ
               PROVE  TwoTo[k + 1] \in Nat
    OBVIOUS
  <2>1. k + 1 \in 1 .. BUF_SZ /\ (k + 1) - 1 = k /\ TwoTo[k] \in Nat
    BY <1>1, <1>8
  <2> QED
    BY <1>6, <2>1
<1>9. Nat \subseteq S
  BY <1>7, <1>8, SetInduction
<1> QED
  BY <1>1, <1>6, <1>9

(* Digits say the last of the numbers that begin with 0 and of which each  *)
(* is b times the one before, and the next digit.                          *)
LEMMA ValueIs ==
  ASSUME NEW digits, NEW b, NEW A, Len(digits) \in Nat,
         A = [k \in 0 .. Len(digits) |-> IF k = 0 THEN 0 ELSE b * A[k - 1] + digits[k]]
  PROVE  Bios!Value(digits, b) = A[Len(digits)]
<1> DEFINE L == Len(digits)
           Once(f) == [k \in 0 .. L |-> IF k = 0 THEN 0 ELSE b * f[k - 1] + digits[k]]
           V == CHOOSE f : f = Once(f)
<1>1. Bios!Value(digits, b) = V[L]
  BY DEF Bios!Value
<1>2. V = Once(V)
  OBVIOUS
<1> DEFINE S == {k \in Nat : k <= L => V[k] = A[k]}
<1> HIDE DEF V
<1>3. 0 \in S
  BY <1>2
<1>4. ASSUME NEW k \in Nat, k \in S
      PROVE  k + 1 \in S
  <2> SUFFICES ASSUME k + 1 <= L
               PROVE  V[k + 1] = A[k + 1]
    OBVIOUS
  <2>1. k + 1 \in 0 .. L /\ k + 1 # 0 /\ (k + 1) - 1 = k /\ V[k] = A[k]
    BY <1>4
  <2>2. V[k + 1] = b * V[k] + digits[k + 1]
    BY <1>2, <2>1
  <2>3. A[k + 1] = b * A[k] + digits[k + 1]
    BY <2>1
  <2> QED
    BY <2>1, <2>2, <2>3
<1>5. Nat \subseteq S
  BY <1>3, <1>4, SetInduction
<1>6. V[L] = A[L]
  <2>1. \A k \in Nat : k <= L => V[k] = A[k]
    BY <1>5
  <2>2. L \in Nat /\ L <= L
    OBVIOUS
  <2> HIDE DEF L
  <2> QED
    BY <2>1, <2>2
<1> QED
  BY <1>1, <1>6

LEMMA Printing ==
  /\ BUF_SZ \in Nat
  /\ \A v \in Numbers : v \in Int /\ v < TwoTo[BUF_SZ]
  /\ \A b \in Bases : b \in Nat /\ b >= 2
BY PrintAssumption

LEMMA Divides ==
  ASSUME NEW b \in Nat, b >= 2, NEW v \in Nat
  PROVE  /\ v \div b \in Nat /\ v % b \in 0 .. b - 1
         /\ v = b * (v \div b) + (v % b)
<1> DEFINE q == v \div b
           r == v % b
<1>1. q \in Nat /\ r \in 0 .. b - 1 /\ v = q * b + r
  OBVIOUS
<1> HIDE DEF q, r
<1>2. q * b = b * q
  BY <1>1
<1> QED
  BY <1>1, <1>2 DEF q, r

(* The quotients w of the number of the call by its base, n of them, whose *)
(* remainders are in the buffer.                                           *)
Divided(w, n) ==
  /\ w[0] = parg[1]
  /\ \A k \in 0 .. n - 1 :
       /\ w[k] \in Nat /\ w[k] > 0
       /\ w[k + 1] = w[k] \div parg[2]
       /\ pbuf[k] = w[k] % parg[2]

ArgInv ==
  /\ ppc \in {"idle", "divide", "emit", "hex", "return"}
  /\ pi \in 0 .. BUF_SZ
  /\ pbuf = [k \in 0 .. BUF_SZ - 1 |-> pbuf[k]]
  /\ ppc \in {"divide", "emit"} => parg[1] \in Numbers /\ parg[2] \in Bases
  /\ ppc = "divide" => pbase = parg[2]
  /\ ppc \in {"idle", "divide"} => pout = <<>>
  /\ ppc \in {"idle", "hex"} => pi = 0

(* The places that are left are enough for what is left of the number. *)
DivideInv ==
  ppc = "divide" =>
    /\ pn \in Int /\ pn < TwoTo[BUF_SZ - pi]
    /\ \E w : Divided(w, pi) /\ w[pi] = pn

(* The digits go out from the last division to the first. *)
EmitInv ==
  ppc = "emit" =>
    \E w, n :
      /\ n \in pi .. BUF_SZ
      /\ Divided(w, n) /\ w[n] \in Int /\ w[n] <= 0
      /\ pout \in Seq(Int) /\ Len(pout) = n - pi
      /\ \A k \in 1 .. n - pi : pout[k] = pbuf[n - k]

(* The bytes that are left come after those whose digits are out. *)
HexInv ==
  ppc = "hex" =>
    /\ parg[1] \in Seq(0 .. 255) /\ parg[2] = 0
    /\ pbytes \in Seq(0 .. 255) /\ pout \in Seq(Int)
    /\ \E d \in Nat :
         /\ Len(parg[1]) = d + Len(pbytes) /\ Len(pout) = 2 * d
         /\ \A k \in 1 .. Len(pbytes) : pbytes[k] = parg[1][d + k]
         /\ \A k \in 1 .. d : /\ pout[2 * k - 1] = parg[1][k] \div 16
                              /\ pout[2 * k] = parg[1][k] % 16

PrintInv == ArgInv /\ DivideInv /\ EmitInv /\ HexInv /\ PrintRight

LEMMA PrintNumberCall ==
  ASSUME PrintInv, NEW v \in Numbers, NEW b \in Bases, Bios!bios_print_number(v, b)
  PROVE  PrintInv'
<1>1. /\ ppc = "idle" /\ ppc' = "divide" /\ pn' = v /\ pbase' = b /\ parg' = <<v, b>>
      /\ pbuf' = pbuf /\ pi' = pi /\ pout' = pout
  BY DEF Bios!bios_print_number
<1>2. pi = 0 /\ pout = <<>> /\ pbuf = [k \in 0 .. BUF_SZ - 1 |-> pbuf[k]]
  BY <1>1 DEF PrintInv, ArgInv
<1>3. ArgInv'
  BY <1>1, <1>2, Printing DEF ArgInv
<1>4. DivideInv'
  <2> DEFINE w == [k \in {0} |-> v]
  <2>1. Divided(w, 0)' /\ w[0] = v
    BY <1>1 DEF Divided
  <2>2. BUF_SZ - pi = BUF_SZ
    BY <1>2, Printing
  <2> QED
    BY <1>1, <1>2, <2>1, <2>2, Printing DEF DivideInv
<1>5. EmitInv' /\ HexInv'
  BY <1>1 DEF EmitInv, HexInv
<1>6. PrintRight'
  BY <1>1, <1>2, Printing DEF PrintRight, Bios!PrintRight
<1> QED
  BY <1>3, <1>4, <1>5, <1>6 DEF PrintInv

LEMMA PrintHexCall ==
  ASSUME PrintInv, NEW b \in Buffers, Bios!bios_print_hex(b)
  PROVE  PrintInv'
<1>1. /\ ppc = "idle" /\ ppc' = "hex" /\ pbytes' = b /\ parg' = <<b, 0>>
      /\ pbuf' = pbuf /\ pi' = pi /\ pout' = pout
  BY DEF Bios!bios_print_hex
<1>2. pi = 0 /\ pout = <<>> /\ pbuf = [k \in 0 .. BUF_SZ - 1 |-> pbuf[k]]
  BY <1>1 DEF PrintInv, ArgInv
<1>3. ArgInv'
  BY <1>1, <1>2, Printing DEF ArgInv
<1>4. DivideInv' /\ EmitInv'
  BY <1>1 DEF DivideInv, EmitInv
<1>5. HexInv'
  <2>1. b \in Seq(0 .. 255) /\ Len(b) \in Nat
    BY PrintAssumption
  <2>2. <<>> \in Seq(Int) /\ Len(<<>>) = 2 * 0
    OBVIOUS
  <2>3. parg'[1] = b /\ parg'[2] = 0 /\ pbytes' = b /\ pout' = <<>>
    BY <1>1, <1>2
  <2>4. 0 \in Nat /\ Len(b) = 0 + Len(b) /\ \A k \in 1 .. Len(b) : b[k] = b[0 + k]
    BY <2>1
  <2>5. \E d \in Nat :
          /\ Len(parg'[1]) = d + Len(pbytes') /\ Len(pout') = 2 * d
          /\ \A k \in 1 .. Len(pbytes') : pbytes'[k] = parg'[1][d + k]
          /\ \A k \in 1 .. d : /\ pout'[2 * k - 1] = parg'[1][k] \div 16
                               /\ pout'[2 * k] = parg'[1][k] % 16
    <3> WITNESS 0 \in Nat
    <3> QED
      BY <2>2, <2>3, <2>4
  <2> QED
    BY <2>1, <2>2, <2>3, <2>5 DEF HexInv
<1>6. PrintRight'
  BY <1>1, <1>2, Printing DEF PrintRight, Bios!PrintRight
<1> QED
  BY <1>3, <1>4, <1>5, <1>6 DEF PrintInv

(* A division takes at least half of what is left, and one place. *)
LEMMA Halves ==
  ASSUME NEW b \in Nat, b >= 2, NEW v \in Nat, NEW t \in Nat, v < 2 * t
  PROVE  v \div b < t
<1> DEFINE q == v \div b
<1>1. q \in Nat /\ b * q <= v
  BY Divides
<1> HIDE DEF q
<1>2. 2 * q <= b * q
  BY <1>1
<1>3. q < t
  BY <1>1, <1>2
<1> QED
  BY <1>3 DEF q

LEMMA PrintDivide ==
  ASSUME PrintInv, Bios!DivideDigit
  PROVE  PrintInv'
<1>1. /\ ppc = "divide" /\ pn > 0
      /\ pbuf' = [pbuf EXCEPT ![pi] = pn % pbase] /\ pi' = pi + 1 /\ pn' = pn \div pbase
      /\ ppc' = ppc /\ pbase' = pbase /\ pout' = pout /\ parg' = parg
  BY DEF Bios!DivideDigit, Bios!More
<1>2. /\ pi \in 0 .. BUF_SZ /\ pbuf = [k \in 0 .. BUF_SZ - 1 |-> pbuf[k]]
      /\ parg[1] \in Numbers /\ parg[2] \in Bases /\ pbase = parg[2] /\ pout = <<>>
  BY <1>1 DEF PrintInv, ArgInv
<1>3. pn \in Int /\ pn < TwoTo[BUF_SZ - pi]
  BY <1>1 DEF PrintInv, DivideInv
<1>4. PICK w : Divided(w, pi) /\ w[pi] = pn
  BY <1>1 DEF PrintInv, DivideInv
<1>5. /\ BUF_SZ \in Nat /\ parg[2] \in Nat /\ parg[2] >= 2
      /\ pn \in Nat
  BY <1>1, <1>2, <1>3, Printing
<1>6. pi < BUF_SZ
  <2> SUFFICES ASSUME pi = BUF_SZ PROVE FALSE
    BY <1>2, <1>5
  <2>1. BUF_SZ - pi = 0
    BY <1>5
  <2> QED
    BY <1>1, <1>3, <1>5, <2>1, TwoToIs
<1>7. pn \div pbase \in Nat /\ pn \div pbase < TwoTo[BUF_SZ - (pi + 1)]
  <2>1. /\ BUF_SZ - pi \in 1 .. BUF_SZ /\ (BUF_SZ - pi) - 1 = BUF_SZ - (pi + 1)
        /\ BUF_SZ - (pi + 1) \in 0 .. BUF_SZ
    BY <1>2, <1>5, <1>6
  <2>2. TwoTo[BUF_SZ - (pi + 1)] \in Nat /\ TwoTo[BUF_SZ - pi] = 2 * TwoTo[BUF_SZ - (pi + 1)]
    BY <2>1, TwoToIs
  <2>3. pn < 2 * TwoTo[BUF_SZ - (pi + 1)]
    BY <1>3, <2>2
  <2> QED
    BY <1>2, <1>5, <2>2, <2>3, Halves, Divides
<1>8. ArgInv'
  <2>1. pbuf' = [k \in 0 .. BUF_SZ - 1 |-> pbuf'[k]]
    BY <1>1, <1>2
  <2>2. pi + 1 \in 0 .. BUF_SZ
    BY <1>2, <1>5, <1>6
  <2> QED
    BY <1>1, <1>2, <2>1, <2>2 DEF ArgInv
<1>9. DivideInv'
  <2> DEFINE v == [k \in 0 .. pi + 1 |-> IF k = pi + 1 THEN pn \div pbase ELSE w[k]]
  <2>1. v[0] = parg[1] /\ v[pi + 1] = pn \div pbase
    BY <1>2, <1>4 DEF Divided
  <2>2. ASSUME NEW k \in 0 .. pi
        PROVE  /\ v[k] \in Nat /\ v[k] > 0
               /\ v[k + 1] = v[k] \div parg[2]
               /\ pbuf'[k] = v[k] % parg[2]
    <3>1. v[k] = w[k] /\ k \in 0 .. BUF_SZ - 1
      BY <1>2, <1>5, <1>6
    <3>2. CASE k = pi
      <4>1. v[k] = pn /\ v[k + 1] = pn \div pbase
        BY <1>4, <2>1, <3>1, <3>2
      <4>2. pbuf'[k] = pn % pbase
        BY <1>1, <1>2, <3>1, <3>2
      <4> QED
        BY <1>1, <1>2, <1>5, <4>1, <4>2
    <3>3. CASE k # pi
      <4>1. k \in 0 .. pi - 1 /\ v[k + 1] = w[k + 1]
        BY <1>2, <3>3
      <4>2. pbuf'[k] = pbuf[k]
        BY <1>1, <1>2, <3>1, <3>3
      <4> QED
        BY <1>4, <3>1, <4>1, <4>2 DEF Divided
    <3> QED
      BY <3>2, <3>3
  <2> HIDE DEF v
  <2>3. PICK u : /\ u[0] = parg[1] /\ u[pi + 1] = pn \div pbase
                 /\ \A k \in 0 .. pi : /\ u[k] \in Nat /\ u[k] > 0
                                       /\ u[k + 1] = u[k] \div parg[2]
                                       /\ pbuf'[k] = u[k] % parg[2]
    BY <2>1, <2>2
  <2>4. pi' - 1 = pi
    BY <1>1, <1>2
  <2>5. Divided(u, pi)'
    BY <1>1, <2>3, <2>4 DEF Divided
  <2> QED
    BY <1>1, <1>7, <2>3, <2>5 DEF DivideInv
<1>10. EmitInv' /\ HexInv'
  BY <1>1 DEF EmitInv, HexInv
<1>11. PrintRight'
  BY <1>1, <1>8 DEF ArgInv, PrintRight, Bios!PrintRight
<1> QED
  BY <1>8, <1>9, <1>10, <1>11 DEF PrintInv

LEMMA PrintDivideEnd ==
  ASSUME PrintInv, Bios!DivideEnd
  PROVE  PrintInv'
<1>1. /\ ppc = "divide" /\ ppc' = "emit" /\ ~(pn > 0)
      /\ pbuf' = pbuf /\ pi' = pi /\ pn' = pn
      /\ pbase' = pbase /\ pout' = pout /\ parg' = parg
  BY DEF Bios!DivideEnd, Bios!More
<1>2. ArgInv' /\ PrintRight'
  BY <1>1 DEF PrintInv, ArgInv, PrintRight, Bios!PrintRight
<1>3. DivideInv' /\ HexInv'
  BY <1>1 DEF DivideInv, HexInv
<1>4. EmitInv'
  <2>1. PICK w : Divided(w, pi) /\ w[pi] = pn
    BY <1>1 DEF PrintInv, DivideInv
  <2>2. Divided(w, pi)'
    BY <1>1, <2>1 DEF Divided
  <2>3. w[pi] \in Int /\ w[pi] <= 0
    BY <1>1, <2>1 DEF PrintInv, DivideInv
  <2>4. pi \in 0 .. BUF_SZ /\ BUF_SZ \in Nat /\ pout = <<>>
    BY <1>1, Printing DEF PrintInv, ArgInv
  <2>5. pout' \in Seq(Int) /\ Len(pout') = pi' - pi'
    BY <1>1, <2>4
  <2>6. pi' \in pi' .. BUF_SZ /\ \A k \in 1 .. pi' - pi' : pout'[k] = pbuf'[pi' - k]
    BY <1>1, <2>4
  <2> QED
    BY <1>1, <2>2, <2>3, <2>5, <2>6 DEF EmitInv
<1> QED
  BY <1>2, <1>3, <1>4 DEF PrintInv

LEMMA PrintEmit ==
  ASSUME PrintInv, Bios!EmitDigit
  PROVE  PrintInv'
<1>1. /\ ppc = "emit" /\ pi > 0
      /\ pout' = Append(pout, pbuf[pi - 1]) /\ pi' = pi - 1
      /\ ppc' = ppc /\ pbuf' = pbuf /\ pn' = pn /\ pbase' = pbase /\ parg' = parg
  BY DEF Bios!EmitDigit
<1>2. pi \in 0 .. BUF_SZ /\ BUF_SZ \in Nat
  BY Printing DEF PrintInv, ArgInv
<1>3. ArgInv'
  BY <1>1, <1>2 DEF PrintInv, ArgInv
<1>4. DivideInv' /\ HexInv'
  BY <1>1 DEF DivideInv, HexInv
<1>5. EmitInv'
  <2>1. PICK w, n :
          /\ n \in pi .. BUF_SZ
          /\ Divided(w, n) /\ w[n] \in Int /\ w[n] <= 0
          /\ pout \in Seq(Int) /\ Len(pout) = n - pi
          /\ \A k \in 1 .. n - pi : pout[k] = pbuf[n - k]
    BY <1>1 DEF PrintInv, EmitInv
  <2>2. Divided(w, n)'
    BY <1>1, <2>1 DEF Divided
  <2>3. n \in pi' .. BUF_SZ /\ n \in Nat
    BY <1>1, <1>2, <2>1
  <2> DEFINE d == pbuf[pi - 1]
  <2>4. d \in Int
    <3>1. /\ pi - 1 \in 0 .. n - 1 /\ parg[2] \in Nat /\ parg[2] >= 2
      BY <1>1, <1>2, <2>1, Printing DEF PrintInv, ArgInv
    <3>2. d = w[pi - 1] % parg[2] /\ w[pi - 1] \in Nat
      BY <2>1, <3>1 DEF Divided
    <3> HIDE DEF d
    <3> QED
      BY <3>1, <3>2, Divides
  <2>5. pout' = Append(pout, d)
    BY <1>1
  <2>6. (n - pi) + 1 = n - pi' /\ n - pi' \in Nat /\ n - (n - pi') = pi - 1
    BY <1>1, <1>2, <2>1
  <2> DEFINE m == n - pi
  <2>7. /\ pout' \in Seq(Int) /\ Len(pout') = m + 1
        /\ \A k \in 1 .. m : pout'[k] = pout[k]
        /\ pout'[m + 1] = d
    <3>1. m \in Nat /\ Len(pout) = m
      BY <1>2, <2>1
    <3> HIDE DEF m, d
    <3> QED
      BY <2>1, <2>4, <2>5, <3>1
  <2>8. ASSUME NEW k \in 1 .. n - pi'
        PROVE  pout'[k] = pbuf'[n - k]
    <3>1. CASE k = m + 1
      <4>1. n - k = pi - 1
        BY <1>2, <2>1, <3>1
      <4> QED
        BY <1>1, <2>7, <3>1, <4>1
    <3>2. CASE k # m + 1
      <4>1. k \in 1 .. n - pi
        BY <1>2, <2>1, <2>6, <3>2
      <4> QED
        BY <1>1, <2>1, <2>7, <4>1
    <3> QED
      BY <3>1, <3>2
  <2> HIDE DEF d, m
  <2>9. /\ n \in pi' .. BUF_SZ
        /\ Divided(w, n)' /\ w[n] \in Int /\ w[n] <= 0
        /\ pout' \in Seq(Int) /\ Len(pout') = n - pi'
        /\ \A k \in 1 .. n - pi' : pout'[k] = pbuf'[n - k]
    BY <2>1, <2>2, <2>3, <2>6, <2>7, <2>8 DEF m
  <2> QED
    BY <2>9 DEF EmitInv
<1>6. PrintRight'
  BY <1>1, <1>3 DEF ArgInv, PrintRight, Bios!PrintRight
<1> QED
  BY <1>3, <1>4, <1>5, <1>6 DEF PrintInv

LEMMA PrintEmitEnd ==
  ASSUME PrintInv, Bios!EmitEnd
  PROVE  PrintInv'
<1>1. /\ ppc = "emit" /\ pi = 0 /\ ppc' = "return"
      /\ pbuf' = pbuf /\ pi' = pi /\ pout' = pout /\ parg' = parg
  BY DEF Bios!EmitEnd
<1>2. ArgInv' /\ DivideInv' /\ EmitInv' /\ HexInv'
  BY <1>1 DEF PrintInv, ArgInv, DivideInv, EmitInv, HexInv
<1>3. PICK w, n :
        /\ n \in pi .. BUF_SZ
        /\ Divided(w, n) /\ w[n] \in Int /\ w[n] <= 0
        /\ pout \in Seq(Int) /\ Len(pout) = n - pi
        /\ \A k \in 1 .. n - pi : pout[k] = pbuf[n - k]
  BY <1>1 DEF PrintInv, EmitInv
<1> DEFINE v == parg[1]
           b == parg[2]
<1>4. /\ v \in Int /\ b \in Nat /\ b >= 2 /\ BUF_SZ \in Nat
  BY <1>1, Printing DEF PrintInv, ArgInv
<1>5. n \in Nat /\ Len(pout) = n /\ \A k \in 1 .. n : pout[k] = pbuf[n - k]
  BY <1>1, <1>3, <1>4
<1>6. /\ w[0] = v
      /\ \A k \in 0 .. n - 1 : /\ w[k] \in Nat /\ w[k] > 0
                               /\ w[k + 1] = w[k] \div b
                               /\ pbuf[k] = w[k] % b
  BY <1>3 DEF Divided
<1> HIDE DEF v, b
<1>7. \A k \in 1 .. n : /\ pout[k] \in 0 .. b - 1 /\ w[n - k] \in Nat /\ w[n - k] > 0
                        /\ w[(n - k) + 1] \in Nat
                        /\ w[n - k] = b * w[(n - k) + 1] + pout[k]
  <2> SUFFICES ASSUME NEW k \in 1 .. n
               PROVE  /\ pout[k] \in 0 .. b - 1 /\ w[n - k] \in Nat /\ w[n - k] > 0
                      /\ w[(n - k) + 1] \in Nat
                      /\ w[n - k] = b * w[(n - k) + 1] + pout[k]
    OBVIOUS
  <2>1. n - k \in 0 .. n - 1
    BY <1>5
  <2> DEFINE j == n - k
  <2> HIDE DEF j
  <2>2. /\ w[j] \in Nat /\ w[j] > 0 /\ w[j + 1] = w[j] \div b /\ pout[k] = w[j] % b
    BY <1>5, <1>6, <2>1 DEF j
  <2>3. /\ pout[k] \in 0 .. b - 1 /\ w[j] \in Nat /\ w[j] > 0
        /\ w[j + 1] \in Nat /\ w[j] = b * w[j + 1] + pout[k]
    BY <1>4, <2>2, Divides
  <2> QED
    BY <2>3 DEF j
<1>8. CASE v <= 0
  <2>1. n = 0
    <3> SUFFICES ASSUME n > 0 PROVE FALSE
      BY <1>5
    <3>1. 0 \in 0 .. n - 1
      BY <1>5
    <3> QED
      BY <1>4, <1>6, <1>8, <3>1
  <2>2. pout = <<>>
    BY <1>3, <1>5, <2>1
  <2> QED
    BY <1>1, <1>2, <1>4, <1>8, <2>2
       DEF PrintInv, ArgInv, PrintRight, Bios!PrintRight, v, b
<1>9. CASE v > 0
  <2>1. n > 0
    <3> SUFFICES ASSUME n = 0 PROVE FALSE
      BY <1>5
    <3> QED
      BY <1>3, <1>4, <1>6, <1>9
  <2>2. w[n] = 0
    <3>1. 1 \in 1 .. n /\ (n - 1) + 1 = n
      BY <1>5, <2>1
    <3>2. w[n] \in Nat
      BY <1>7, <3>1
    <3> QED
      BY <1>3, <3>2
  <2>3. pout[1] # 0
    <3>1. 1 \in 1 .. n /\ (n - 1) + 1 = n
      BY <1>5, <2>1
    <3>2. /\ w[n - 1] \in Nat /\ w[n - 1] > 0
          /\ w[n - 1] = b * w[n] + pout[1] /\ pout[1] \in 0 .. b - 1
      BY <1>7, <3>1
    <3> QED
      BY <1>4, <2>2, <3>2
  <2>4. Bios!Value(pout, b) = v
    <3> DEFINE A == [k \in 0 .. n |-> w[n - k]]
    <3>1. ASSUME NEW k \in 0 .. n
          PROVE  A[k] = IF k = 0 THEN 0 ELSE b * A[k - 1] + pout[k]
      <4>1. CASE k = 0
        BY <1>5, <2>2, <4>1
      <4>2. CASE k # 0
        <5>1. k \in 1 .. n /\ k - 1 \in 0 .. n /\ n - (k - 1) = (n - k) + 1
          BY <1>5, <4>2
        <5>2. A[k] = w[n - k] /\ A[k - 1] = w[(n - k) + 1]
          BY <5>1
        <5> QED
          BY <1>7, <4>2, <5>1, <5>2
      <4> QED
        BY <4>1, <4>2
    <3>2. A[n] = v
      BY <1>5, <1>6
    <3>3. A = [k \in 0 .. n |-> A[k]]
      OBVIOUS
    <3> HIDE DEF A
    <3>4. A = [k \in 0 .. Len(pout) |-> IF k = 0 THEN 0 ELSE b * A[k - 1] + pout[k]]
      BY <1>5, <3>1, <3>3
    <3>5. Len(pout) = n
      BY <1>5
    <3>6. A[Len(pout)] = v
      BY <3>2, <3>5
    <3> QED
      BY <1>5, <3>4, <3>6, ValueIs, SMTT(30)
  <2>5. \A k \in 1 .. Len(pout) : pout[k] \in 0 .. b - 1
    BY <1>5, <1>7
  <2> QED
    BY <1>1, <1>2, <1>4, <1>9, <2>3, <2>4, <2>5
       DEF PrintInv, ArgInv, PrintRight, Bios!PrintRight, v, b
<1> QED
  BY <1>4, <1>8, <1>9

TwoMore(t, x, y) == t \o <<x, y>>

LEMMA TwoMoreIs ==
  ASSUME NEW t \in Seq(Int), NEW x \in Int, NEW y \in Int
  PROVE  /\ TwoMore(t, x, y) \in Seq(Int) /\ Len(TwoMore(t, x, y)) = Len(t) + 2
         /\ \A k \in 1 .. Len(t) : TwoMore(t, x, y)[k] = t[k]
         /\ TwoMore(t, x, y)[Len(t) + 1] = x /\ TwoMore(t, x, y)[Len(t) + 2] = y
BY DEF TwoMore

LEMMA PrintHexByte ==
  ASSUME PrintInv, Bios!HexByte
  PROVE  PrintInv'
<1>1. /\ ppc = "hex" /\ pbytes # <<>>
      /\ pout' = pout \o <<Head(pbytes) \div 16, Head(pbytes) % 16>>
      /\ pbytes' = Tail(pbytes)
      /\ ppc' = ppc /\ pbuf' = pbuf /\ pi' = pi /\ parg' = parg
  BY DEF Bios!HexByte
<1>2. ArgInv'
  BY <1>1 DEF PrintInv, ArgInv
<1>3. DivideInv' /\ EmitInv'
  BY <1>1 DEF DivideInv, EmitInv
<1> DEFINE s == parg[1]
<1>4. /\ s \in Seq(0 .. 255) /\ parg[2] = 0
      /\ pbytes \in Seq(0 .. 255) /\ pout \in Seq(Int)
  BY <1>1 DEF PrintInv, HexInv
<1>5. PICK d \in Nat :
        /\ Len(s) = d + Len(pbytes) /\ Len(pout) = 2 * d
        /\ \A k \in 1 .. Len(pbytes) : pbytes[k] = s[d + k]
        /\ \A k \in 1 .. d : /\ pout[2 * k - 1] = s[k] \div 16
                             /\ pout[2 * k] = s[k] % 16
  BY <1>1 DEF PrintInv, HexInv
<1> HIDE DEF s
<1>6. /\ Len(pbytes) \in Nat /\ Len(pbytes) > 0 /\ Head(pbytes) = pbytes[1]
      /\ Tail(pbytes) \in Seq(0 .. 255) /\ Len(Tail(pbytes)) = Len(pbytes) - 1
      /\ \A k \in 1 .. Len(pbytes) - 1 : Tail(pbytes)[k] = pbytes[k + 1]
  BY <1>1, <1>4
<1>7. pbytes[1] = s[d + 1] /\ pbytes[1] \in 0 .. 255
  BY <1>4, <1>5, <1>6
<1> DEFINE x == pbytes[1] \div 16
           y == pbytes[1] % 16
<1>8. x \in Int /\ y \in Int
  BY <1>7
<1>9. pout' = TwoMore(pout, x, y)
  BY <1>1, <1>6 DEF TwoMore
<1> HIDE DEF x, y
<1>10. /\ pout' \in Seq(Int) /\ Len(pout') = 2 * d + 2
       /\ \A k \in 1 .. 2 * d : pout'[k] = pout[k]
       /\ pout'[2 * d + 1] = x /\ pout'[2 * d + 2] = y
  <2> DEFINE u == TwoMore(pout, x, y)
  <2>1. /\ u \in Seq(Int) /\ Len(u) = Len(pout) + 2
        /\ \A k \in 1 .. Len(pout) : u[k] = pout[k]
        /\ u[Len(pout) + 1] = x /\ u[Len(pout) + 2] = y
    BY <1>4, <1>8, TwoMoreIs
  <2>2. pout' = u /\ Len(pout) = 2 * d
    BY <1>5, <1>9
  <2> HIDE DEF u
  <2> QED
    BY <2>1, <2>2
<1>11. HexInv'
  <2>1. /\ Len(s) = (d + 1) + Len(pbytes')
        /\ \A k \in 1 .. Len(pbytes') : pbytes'[k] = s[(d + 1) + k]
    <3>1. ASSUME NEW k \in 1 .. Len(pbytes')
          PROVE  pbytes'[k] = s[(d + 1) + k]
      <4>1. k + 1 \in 1 .. Len(pbytes) /\ d + (k + 1) = (d + 1) + k /\ k \in 1 .. Len(pbytes) - 1
        BY <1>1, <1>6
      <4>2. pbytes'[k] = pbytes[k + 1]
        BY <1>1, <1>6, <4>1
      <4> QED
        BY <1>5, <4>1, <4>2
    <3> QED
      BY <1>1, <1>5, <1>6, <3>1
  <2>2. ASSUME NEW k \in 1 .. d + 1
        PROVE  pout'[2 * k - 1] = s[k] \div 16 /\ pout'[2 * k] = s[k] % 16
    <3>1. CASE k = d + 1
      <4>1. 2 * k - 1 = 2 * d + 1 /\ 2 * k = 2 * d + 2
        BY <3>1
      <4> QED
        BY <1>7, <1>10, <3>1, <4>1 DEF x, y
    <3>2. CASE k # d + 1
      <4>1. k \in 1 .. d /\ 2 * k - 1 \in 1 .. 2 * d /\ 2 * k \in 1 .. 2 * d
        BY <3>2
      <4> QED
        BY <1>5, <1>10, <4>1
    <3> QED
      BY <3>1, <3>2
  <2>3. d + 1 \in Nat /\ Len(pout') = 2 * (d + 1) /\ parg'[1] = s /\ parg'[2] = 0
    BY <1>1, <1>4, <1>10 DEF s
  <2>4. \E e \in Nat :
          /\ Len(parg'[1]) = e + Len(pbytes') /\ Len(pout') = 2 * e
          /\ \A k \in 1 .. Len(pbytes') : pbytes'[k] = parg'[1][e + k]
          /\ \A k \in 1 .. e : /\ pout'[2 * k - 1] = parg'[1][k] \div 16
                               /\ pout'[2 * k] = parg'[1][k] % 16
    <3> WITNESS d + 1 \in Nat
    <3> QED
      BY <2>1, <2>2, <2>3
  <2> QED
    BY <1>1, <1>4, <1>6, <1>10, <2>3, <2>4 DEF HexInv
<1>12. PrintRight'
  BY <1>1, <1>2 DEF ArgInv, PrintRight, Bios!PrintRight
<1> HIDE DEF x, y
<1> QED
  BY <1>2, <1>3, <1>11, <1>12 DEF PrintInv

LEMMA ByteIs ==
  ASSUME NEW t \in Seq(0 .. 255), NEW j \in 1 .. Len(t)
  PROVE  t[j] \in Nat
<1> DEFINE x == t[j]
<1>1. x \in 0 .. 255
  BY ElementOfSeq
<1> HIDE DEF x
<1>2. x \in Nat
  BY <1>1
<1> QED
  BY <1>2 DEF x

LEMMA PrintHexEnd ==
  ASSUME PrintInv, Bios!HexEnd
  PROVE  PrintInv'
<1>1. /\ ppc = "hex" /\ pbytes = <<>> /\ ppc' = "return"
      /\ pbuf' = pbuf /\ pi' = pi /\ pout' = pout /\ parg' = parg
  BY DEF Bios!HexEnd
<1>2. ArgInv' /\ DivideInv' /\ EmitInv' /\ HexInv'
  BY <1>1 DEF PrintInv, ArgInv, DivideInv, EmitInv, HexInv
<1> DEFINE s == parg[1]
<1>3. s \in Seq(0 .. 255) /\ parg[2] = 0 /\ pout \in Seq(Int)
  BY <1>1 DEF PrintInv, HexInv
<1>4. PICK d \in Nat :
        /\ Len(s) = d + Len(pbytes) /\ Len(pout) = 2 * d
        /\ \A k \in 1 .. d : /\ pout[2 * k - 1] = s[k] \div 16
                             /\ pout[2 * k] = s[k] % 16
  BY <1>1 DEF PrintInv, HexInv
<1>5. Len(s) = d
  BY <1>1, <1>4
<1> HIDE DEF s
<1>6. ASSUME NEW k \in 1 .. d
      PROVE  Bios!Value(SubSeq(pout, 2 * k - 1, 2 * k), 16) = s[k]
  <2> DEFINE two == SubSeq(pout, 2 * k - 1, 2 * k)
             x == s[k]
             A == [j \in 0 .. 2 |-> IF j = 0 THEN 0 ELSE IF j = 1 THEN x \div 16 ELSE x]
  <2>1. x \in Nat
    BY <1>3, <1>5, ByteIs
  <2>2. Len(two) = 2 /\ two[1] = x \div 16 /\ two[2] = x % 16
    <3>1. 2 * k - 1 \in 1 .. Len(pout) /\ 2 * k \in 1 .. Len(pout) /\ 2 * k - (2 * k - 1) + 1 = 2
      BY <1>4
    <3>2. Len(two) = 2 /\ two[1] = pout[2 * k - 1] /\ two[2] = pout[2 * k]
      BY <1>3, <3>1
    <3> QED
      BY <1>4, <3>2
  <2> HIDE DEF two, x
  <2>3. x \div 16 \in Nat /\ x = 16 * (x \div 16) + (x % 16)
    BY <2>1, Divides
  <2>4. A = [j \in 0 .. Len(two) |-> IF j = 0 THEN 0 ELSE 16 * A[j - 1] + two[j]]
    <3>1. A[0] = 0 /\ A[1] = 16 * A[0] + two[1] /\ A[2] = 16 * A[1] + two[2]
      BY <2>1, <2>2, <2>3
    <3>2. ASSUME NEW j \in 0 .. 2
          PROVE  A[j] = IF j = 0 THEN 0 ELSE 16 * A[j - 1] + two[j]
      <4>1. j = 0 \/ j = 1 \/ j = 2
        OBVIOUS
      <4>2. 1 - 1 = 0 /\ 2 - 1 = 1
        OBVIOUS
      <4> HIDE DEF A
      <4> QED
        BY <3>1, <4>1, <4>2
    <3>3. A = [j \in 0 .. 2 |-> A[j]]
      OBVIOUS
    <3> HIDE DEF A
    <3> QED
      BY <2>2, <3>2, <3>3
  <2>5. A[2] = x /\ Len(two) \in Nat
    BY <2>2
  <2> HIDE DEF A
  <2>6. Bios!Value(two, 16) = A[Len(two)]
    BY <2>4, <2>5, ValueIs
  <2>7. Bios!Value(two, 16) = x
    BY <2>2, <2>5, <2>6
  <2> QED
    BY <2>7 DEF two, x
<1>7. Len(pout) = 2 * Len(s)
  BY <1>4, <1>5
<1>8. \A k \in 1 .. Len(s) : Bios!Value(SubSeq(pout, 2 * k - 1, 2 * k), 16) = s[k]
  BY <1>5, <1>6
<1>9. PrintRight'
  BY <1>1, <1>2, <1>3, <1>7, <1>8 DEF ArgInv, PrintRight, Bios!PrintRight, s
<1> QED
  BY <1>2, <1>9 DEF PrintInv

LEMMA PrintReturn ==
  ASSUME Bios!Return
  PROVE  PrintInv'
<1>1. ppc' = "idle" /\ pi' = 0 /\ pout' = <<>> /\ pbuf' = [k \in 0 .. BUF_SZ - 1 |-> -1]
  BY DEF Bios!Return, Bios!Empty
<1> QED
  BY <1>1, Printing
     DEF PrintInv, ArgInv, DivideInv, EmitInv, HexInv, PrintRight, Bios!PrintRight

LEMMA PrintKeeps ==
  ASSUME PrintInv, [Bios!Next]_printvars
  PROVE  PrintInv'
<1>1. CASE Bios!Call
  BY <1>1, PrintNumberCall, PrintHexCall DEF Bios!Call
<1>2. CASE Bios!Step
  BY <1>2, PrintDivide, PrintDivideEnd, PrintEmit, PrintEmitEnd, PrintHexByte, PrintHexEnd,
     PrintReturn DEF Bios!Step
<1>3. CASE UNCHANGED printvars
  <2>1. UNCHANGED <<ppc, pn, pbase, pbytes, pbuf, pi, pout, parg>>
    BY <1>3 DEF printvars
  <2>2. ArgInv' /\ PrintRight'
    BY <2>1 DEF PrintInv, ArgInv, PrintRight, Bios!PrintRight
  <2>3. DivideInv' /\ EmitInv' /\ HexInv'
    BY <2>1 DEF PrintInv, DivideInv, EmitInv, HexInv, Divided
  <2> QED
    BY <2>2, <2>3 DEF PrintInv
<1> QED
  BY <1>1, <1>2, <1>3 DEF Bios!Next

(* bios.c: the digits that bios_print_number prints are those of its       *)
(* number, in every base, and fit into its buffer; two digits of           *)
(* bios_print_hex are one byte, in the bytes' order.                       *)
THEOREM PrintIsRight == PrimitivesSpec => []PrintRight
<1>1. PrimitivesInit => PrintInv
  <2> SUFFICES ASSUME PrimitivesInit
               PROVE  PrintInv
    OBVIOUS
  <2>1. ppc = "idle" /\ pi = 0 /\ pout = <<>> /\ pbuf = [k \in 0 .. BUF_SZ - 1 |-> -1]
    BY DEF PrimitivesInit, Bios!Init, Bios!Empty
  <2> QED
    BY <2>1, Printing
       DEF PrintInv, ArgInv, DivideInv, EmitInv, HexInv, PrintRight, Bios!PrintRight
<1>2. PrintInv /\ [PrimitivesNext]_allvars => PrintInv'
  <2> SUFFICES ASSUME PrintInv, [PrimitivesNext]_allvars
               PROVE  PrintInv'
    OBVIOUS
  <2>1. [Bios!Next]_printvars
    BY DEF PrimitivesNext, allvars
  <2> QED
    BY <2>1, PrintKeeps
<1>3. PrintInv => PrintRight
  BY DEF PrintInv
<1> QED
  BY <1>1, <1>2, <1>3, PTL DEF PrimitivesSpec
=============================================================================
