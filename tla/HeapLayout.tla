------------------------------- MODULE HeapLayout -------------------------------
(***************************************************************************)
(* The arithmetic of boot1's heap (src/boot1/malloc.c): an area of HEAP_SZ *)
(* bytes at heap_base, handed out in runs of blocks of BLOCK_SZ bytes.     *)
(*                                                                         *)
(* BLOCK_SZ is a power of two in the code, so "sz & BLOCK_SZ_MASK" is      *)
(* sz % BLOCK_SZ here and nothing else depends on its being one.           *)
(***************************************************************************)
EXTENDS Integers

CONSTANTS
  HEAP_SZ,    \* size of the heap in bytes
  BLOCK_SZ,   \* size of a block in bytes
  INT_MAX,    \* largest int of the build (16 bits in boot1)
  heap_base,  \* address of the heap, set by the startup code
  Sizes       \* the sizes the callers ask for

(* Callers ask for at least one byte, and rounding a size up to whole blocks *)
(* stays within an int.  The heap does not begin at address 0, which is NULL. *)
ASSUME HeapAssumption ==
  /\ BLOCK_SZ \in Nat \ {0}
  /\ HEAP_SZ \in Nat
  /\ INT_MAX \in Nat
  /\ heap_base \in Nat \ {0}
  /\ Sizes \subseteq Nat \ {0}
  /\ \A sz \in Sizes : sz + BLOCK_SZ <= INT_MAX

NULL == 0

(* The bitmap has HEAP_SZ/BLOCK_SZ/8 bytes of 8 blocks each. *)
BITMAP_BYTES == (HEAP_SZ \div BLOCK_SZ) \div 8
NBlocks == 8 * BITMAP_BYTES
Block == 0 .. NBlocks - 1

(* Round a size up to whole blocks. *)
BlocksFor(sz) ==
  IF sz % BLOCK_SZ # 0
    THEN ((sz - (sz % BLOCK_SZ)) + BLOCK_SZ) \div BLOCK_SZ
    ELSE sz \div BLOCK_SZ

PtrOf(block_no) == block_no * BLOCK_SZ + heap_base
BlockOf(ptr) == (ptr - heap_base) \div BLOCK_SZ

(* An allocation: what its owner must remember to give it back. *)
Allocation == [ptr : {PtrOf(b) : b \in Block}, sz : Sizes]

(* The n blocks from `first' on, the ones an allocation takes up, and the *)
(* ones a set of allocations takes up. *)
Span(first, n) == first .. first + n - 1
BlocksOf(a) == Span(BlockOf(a.ptr), BlocksFor(a.sz))
Held(allocs) == UNION {BlocksOf(a) : a \in allocs}

(* The bytes the owner of an allocation may use, and those of the heap. *)
Bytes(a) == a.ptr .. a.ptr + a.sz - 1
HeapBytes == heap_base .. heap_base + HEAP_SZ - 1

(* The run of n blocks at b lies in the heap and avoids the set `used'; *)
(* it is the lowest such run. *)
Fits(used, b, n) == /\ b \in Block
                    /\ Span(b, n) \subseteq Block \ used

IsFirstFit(used, b, n) == /\ Fits(used, b, n)
                          /\ \A c \in Block : Fits(used, c, n) => b <= c
=============================================================================
