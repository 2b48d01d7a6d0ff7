--------------------------------- MODULE Malloc ---------------------------------
(***************************************************************************)
(* The bitmap allocator of boot1, src/boot1/malloc.c, one action per       *)
(* iteration of its loops.                                                 *)
(*                                                                         *)
(* heap_bitmap is the set of the blocks whose bit is 1: the bit of weight  *)
(* 1 << j in byte i of the array stands for block 8*i + (7-j).             *)
(***************************************************************************)
EXTENDS HeapLayout

VARIABLES
  live,          \* the allocations the callers hold
  ret,           \* the pointer the call that has just ended returned, else NULL
  heap_bitmap,   \* the blocks marked as used
  pc,            \* where the caller's thread is in malloc or free
  sz,            \* the argument of malloc
  blocks,        \* blocks the call is about; free counts them down
  blocks_found,  \* length of the free run just scanned; malloc counts it down to mark it
  block_no,      \* first block of that run, -1 when there is none
  i, j           \* byte and bit of the bitmap

run == <<blocks, blocks_found, block_no>>
vars == <<live, ret, heap_bitmap, pc, sz, blocks, blocks_found, block_no, i, j>>

Init == /\ live = {}
        /\ ret = NULL
        /\ heap_bitmap = {}
        /\ pc = "idle"
        /\ sz = NULL
        /\ blocks = 0
        /\ blocks_found = 0
        /\ block_no = -1
        /\ i = 0
        /\ j = 7

(* A call ends, and its local variables with it. *)
Return(p) == /\ ret' = p
             /\ pc' = "idle"
             /\ sz' = NULL
             /\ blocks' = 0
             /\ blocks_found' = 0
             /\ block_no' = -1
             /\ i' = 0
             /\ j' = 7

(* The block under the scan, and the three ways the code moves i and j.  The *)
(* nested for loops of the scan move on as "if (j-- == 0) { ++i; j = 7; }".  *)
Pos == 8 * i + (7 - j)

(* Mutant: the bits are counted from the other end of the byte. *)
AtBlockReversed(b) == /\ i' = b \div 8
                      /\ j' = b % 8

AtBlock(b) == /\ i' = b \div 8
              /\ j' = 7 - (b % 8)

(* Mutants: the bit index is not reset, the byte index not advanced. *)
NextBitNoReset == j' = j - 1 /\ i' = IF j = 0 THEN i + 1 ELSE i
NextBitSameByte == i' = i /\ j' = IF j = 0 THEN 7 ELSE j - 1

NextBit == \/ j = 0 /\ i' = i + 1 /\ j' = 7
           \/ j # 0 /\ i' = i /\ j' = j - 1

(* malloc(size): round the size up and start the scan at the first bit. *)
MallocCall(size) ==
  /\ pc = "idle"
  /\ pc' = "scan"
  /\ sz' = size
  /\ blocks' = BlocksFor(size)
  /\ blocks_found' = 0
  /\ block_no' = -1
  /\ AtBlock(0)
  /\ ret' = NULL
  /\ UNCHANGED <<live, heap_bitmap>>

(* A 0 bit extends the run, and the scan stops when the run is long enough. *)
ScanFree ==
  /\ pc = "scan"
  /\ i < BITMAP_BYTES
  /\ Pos \notin heap_bitmap
  /\ blocks_found' = blocks_found + 1
  /\ block_no' = IF block_no = -1 THEN Pos ELSE block_no
  /\ \/ blocks_found' = blocks /\ pc' = "allocd" /\ UNCHANGED <<i, j>>
     \/ blocks_found' # blocks /\ NextBit /\ UNCHANGED pc
  /\ UNCHANGED <<live, ret, sz, heap_bitmap, blocks>>

(* Mutant: a 1 bit does not set the length of the run back. *)
ScanUsedKeepsRun ==
  /\ pc = "scan"
  /\ i < BITMAP_BYTES
  /\ Pos \in heap_bitmap
  /\ block_no' = -1
  /\ NextBit
  /\ UNCHANGED <<live, ret, sz, heap_bitmap, pc, blocks, blocks_found>>

(* A 1 bit ends the run. *)
ScanUsed ==
  /\ pc = "scan"
  /\ i < BITMAP_BYTES
  /\ Pos \in heap_bitmap
  /\ blocks_found' = 0
  /\ block_no' = -1
  /\ NextBit
  /\ UNCHANGED <<live, ret, sz, heap_bitmap, pc, blocks>>

ScanEnd ==
  /\ pc = "scan"
  /\ i = BITMAP_BYTES
  /\ pc' = "allocd"
  /\ UNCHANGED <<live, ret, sz, heap_bitmap, run, i, j>>

(* Mutant: a run that is too short will do. *)
NoRunAtAll == block_no = -1

(* The test at the label allocd: no run, or too short a run. *)
NoRun == block_no = -1 \/ blocks_found < blocks

MallocFail ==
  /\ pc = "allocd"
  /\ NoRun
  /\ Return(NULL)
  /\ UNCHANGED <<live, heap_bitmap>>

MarkStart ==
  /\ pc = "allocd"
  /\ ~NoRun
  /\ AtBlock(block_no)
  /\ pc' = "mark"
  /\ UNCHANGED <<live, ret, sz, heap_bitmap, run>>

MarkStep ==
  /\ pc = "mark"
  /\ blocks_found > 0
  /\ heap_bitmap' = heap_bitmap \cup {Pos}
  /\ NextBit
  /\ blocks_found' = blocks_found - 1
  /\ UNCHANGED <<live, ret, sz, pc, blocks, block_no>>

MallocReturn ==
  /\ pc = "mark"
  /\ blocks_found <= 0
  /\ live' = live \cup {[ptr |-> PtrOf(block_no), sz |-> sz]}
  /\ Return(PtrOf(block_no))
  /\ UNCHANGED heap_bitmap

(* Mutant: free does not round the size up. *)
FreeCallTruncates(a) ==
  /\ pc = "idle"
  /\ live' = live \ {a}
  /\ blocks' = a.sz \div BLOCK_SZ
  /\ AtBlock(BlockOf(a.ptr))
  /\ pc' = "clear"
  /\ ret' = NULL
  /\ UNCHANGED <<sz, heap_bitmap, blocks_found, block_no>>

(* free(a.ptr, a.sz): its owner may not use the memory from this call on. *)
FreeCall(a) ==
  /\ pc = "idle"
  /\ live' = live \ {a}
  /\ blocks' = BlocksFor(a.sz)
  /\ AtBlock(BlockOf(a.ptr))
  /\ pc' = "clear"
  /\ ret' = NULL
  /\ UNCHANGED <<sz, heap_bitmap, blocks_found, block_no>>

ClearStep ==
  /\ pc = "clear"
  /\ blocks > 0
  /\ heap_bitmap' = heap_bitmap \ {Pos}
  /\ NextBit
  /\ blocks' = blocks - 1
  /\ UNCHANGED <<live, ret, sz, pc, blocks_found, block_no>>

FreeReturn ==
  /\ pc = "clear"
  /\ blocks <= 0
  /\ Return(NULL)
  /\ UNCHANGED <<live, heap_bitmap>>

(* The steps the processor takes inside a call, and the calls. *)
AllocatorStep == \/ ScanFree \/ ScanUsed \/ ScanEnd
                 \/ MallocFail \/ MarkStart \/ MarkStep \/ MallocReturn
                 \/ ClearStep \/ FreeReturn

Next == \/ AllocatorStep
        \/ \E size \in Sizes : MallocCall(size)
        \/ \E a \in live : FreeCall(a)

Spec == Init /\ [][Next]_vars

(* The processor runs a call to its end; nobody has to make a call. *)
FairSpec == Spec /\ WF_vars(AllocatorStep)
-----------------------------------------------------------------------------
TypeOK ==
  /\ live \subseteq Allocation
  /\ ret \in {PtrOf(b) : b \in Block} \cup {NULL}
  /\ heap_bitmap \subseteq Block
  /\ pc \in {"idle", "scan", "allocd", "mark", "clear"}
  /\ sz \in Sizes \cup {NULL}
  /\ blocks \in Nat
  /\ blocks_found \in Nat
  /\ block_no \in Block \cup {-1}
  /\ i \in 0 .. BITMAP_BYTES
  /\ j \in 0 .. 7

(* Whatever the callers allocate and free, in whatever order, the memory   *)
(* two of them hold at the same time never overlaps and lies in the heap.  *)
Separation ==
  /\ \A a \in live : Bytes(a) \subseteq HeapBytes
  /\ \A a, b \in live : a # b => Bytes(a) \cap Bytes(b) = {}

(* Between calls the bitmap is exactly the blocks of the live allocations: *)
(* a free that rounds or walks differently from its malloc would leak a    *)
(* block, or release one that a neighbour still holds.                     *)
BitmapExact == pc = "idle" => heap_bitmap = Held(live)

(* Every malloc and every free that is called returns. *)
CallsReturn == (pc # "idle") ~> (pc = "idle")

(* The bitmap algorithm does what Heap promises: a call under way is the   *)
(* request, its return the lowest fit or, only if nothing fits, NULL.      *)
AbstractHeap == INSTANCE Heap WITH
  req <- IF pc \in {"scan", "allocd", "mark"} THEN sz ELSE NULL

ImplementsHeap == AbstractHeap!Spec
-----------------------------------------------------------------------------
(* The inductive invariant behind these properties.                        *)

(* Two live allocations share no block. *)
Disjoint ==
  /\ \A a \in live : BlocksOf(a) \subseteq Block
  /\ \A a, b \in live : a # b => BlocksOf(a) \cap BlocksOf(b) = {}

(* What the scan knows at Pos: the run of blocks_found free blocks that    *)
(* ends there has a used block, or the heap's start, before it, and no run *)
(* that is long enough lies wholly before Pos.                             *)
RunStart == Pos - blocks_found

Scanned ==
  /\ Pos \in 0 .. NBlocks
  /\ blocks_found < blocks
  /\ RunStart >= 0
  /\ block_no = IF blocks_found = 0 THEN -1 ELSE RunStart
  /\ Span(RunStart, blocks_found) \cap heap_bitmap = {}
  /\ RunStart # 0 => RunStart - 1 \in heap_bitmap
  /\ \A c \in Block : c + blocks <= Pos => ~Fits(heap_bitmap, c, blocks)

(* The outcome of the scan: the lowest fit, or too short a run and no fit. *)
Found == /\ blocks_found = blocks
         /\ IsFirstFit(Held(live), block_no, blocks)

NotFound == /\ blocks_found < blocks
            /\ \A c \in Block : ~Fits(Held(live), c, blocks)

(* What each step of malloc and free has done to the bitmap so far. *)
Marked == Span(block_no, blocks - blocks_found)
ToClear == Span(Pos, blocks)

CallInv ==
  /\ pc \in {"scan", "allocd", "mark"} => sz \in Sizes /\ blocks = BlocksFor(sz)
  /\ pc \in {"idle", "clear"} => sz = NULL
  /\ pc # "idle" => ret = NULL
  /\ pc \in {"idle", "scan", "allocd"} => heap_bitmap = Held(live)
  /\ pc = "scan" => Scanned
  /\ pc = "allocd" => Found \/ NotFound
  /\ pc = "mark" => /\ IsFirstFit(Held(live), block_no, blocks)
                    /\ blocks_found <= blocks
                    /\ Pos = block_no + (blocks - blocks_found)
                    /\ heap_bitmap = Held(live) \cup Marked
  /\ pc = "clear" => /\ ToClear \subseteq Block \ Held(live)
                     /\ Pos + blocks <= NBlocks
                     /\ heap_bitmap = Held(live) \cup ToClear

(* The bitmap is at every step of every call what the live allocations and *)
(* the progress of the call say it is.                                     *)
IndInv == TypeOK /\ (i = BITMAP_BYTES => j = 7) /\ Disjoint /\ CallInv
=============================================================================
