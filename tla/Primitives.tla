------------------------------- MODULE Primitives -------------------------------
(***************************************************************************)
(* The routines that call no other, one after the other as a program of    *)
(* one thread calls them: the memory and string primitives of fun.h        *)
(* (MemOps), the 64-bit shifts (Shift64) and the printing of numbers       *)
(* (BiosPrint).  The variables of the last two are called as there with an *)
(* s and with a p before them.  A call begins when the last one is over.   *)
(***************************************************************************)
EXTENDS MemOps, Sequences

CONSTANTS W, Counts, SI_SIZE                \* see Shift64
CONSTANTS Numbers, Bases, Buffers, BUF_SZ   \* see BiosPrint

ASSUME Shift64Assumption ==
  /\ W \in Nat \ {0}
  /\ SI_SIZE \in Nat \ {0} /\ SI_SIZE % (4 * W) = 0
  /\ Counts \subseteq 0 .. SI_SIZE - 1

(* The powers of two, by doubling, up to the last that matters. *)
TwoTo[k \in 0 .. BUF_SZ] == IF k = 0 THEN 1 ELSE 2 * TwoTo[k - 1]

ASSUME PrintAssumption ==
  /\ Numbers \subseteq Int /\ Bases \subseteq 2 .. 16
  /\ BUF_SZ \in Nat
  /\ \A v \in Numbers : v < TwoTo[BUF_SZ]
  /\ \A b \in Buffers : b \in Seq(0 .. 255)

VARIABLES spc, sop, sax, sbx, scx, sdx, ssi, svalue, scount
VARIABLES ppc, pn, pbase, pbytes, pbuf, pi, pout, parg

Shift == INSTANCE Shift64
  WITH pc <- spc, op <- sop, ax <- sax, bx <- sbx, cx <- scx, dx <- sdx,
       si <- ssi, value <- svalue, count <- scount

Bios == INSTANCE BiosPrint
  WITH pc <- ppc, n <- pn, base <- pbase, bytes <- pbytes, buf <- pbuf, i <- pi,
       out <- pout, arg <- parg

shiftvars == <<spc, sop, sax, sbx, scx, sdx, ssi, svalue, scount>>
printvars == <<ppc, pn, pbase, pbytes, pbuf, pi, pout, parg>>
allvars == <<vars, shiftvars, printvars>>

PrimitivesInit == Init /\ Shift!Init /\ Bios!Init

PrimitivesNext ==
  \/ spc = "idle" /\ ppc = "idle" /\ Next /\ UNCHANGED <<shiftvars, printvars>>
  \/ pc = "idle" /\ ppc = "idle" /\ Shift!Next /\ UNCHANGED <<vars, printvars>>
  \/ pc = "idle" /\ spc = "idle" /\ Bios!Next /\ UNCHANGED <<vars, shiftvars>>

PrimitivesSpec == PrimitivesInit /\ [][PrimitivesNext]_allvars
-----------------------------------------------------------------------------
(* Every call returns the number shifted or rotated, for every count. *)
ShiftRight == Shift!ShiftRight

(* What is printed are the digits of the number, or of every byte. *)
PrintRight == Bios!PrintRight
=============================================================================
