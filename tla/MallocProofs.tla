------------------------------ MODULE MallocProofs ------------------------------
(***************************************************************************)
(* Proofs about the allocator of boot1, for every size of heap and block   *)
(* and every set of sizes that HeapAssumption allows.                      *)
(***************************************************************************)
EXTENDS Malloc, TLAPS

(* Rounding: a size takes at least one block, and its blocks hold it. *)
LEMMA BlocksForHolds ==
  ASSUME NEW s \in Nat \ {0}
  PROVE  BlocksFor(s) \in Nat \ {0} /\ s <= BlocksFor(s) * BLOCK_SZ
<1> DEFINE q == s \div BLOCK_SZ
           r == s % BLOCK_SZ
<1>1. q \in Nat /\ r \in 0 .. BLOCK_SZ - 1 /\ s = q * BLOCK_SZ + r
  BY HeapAssumption
<1>2. CASE r = 0
  <2>1. BlocksFor(s) = q
    BY <1>2 DEF BlocksFor
  <2> QED
    BY <1>1, <1>2, <2>1, HeapAssumption
<1>3. CASE r # 0
  <2>1. (s - r) + BLOCK_SZ = (q + 1) * BLOCK_SZ
    BY <1>1, HeapAssumption
  <2>2. ((q + 1) * BLOCK_SZ) \div BLOCK_SZ = q + 1
    BY <1>1, HeapAssumption
  <2>3. BlocksFor(s) = q + 1
    BY <1>3, <2>1, <2>2 DEF BlocksFor
  <2> QED
    BY <1>1, <2>1, <2>3, HeapAssumption
<1> QED
  BY <1>2, <1>3

(* The block of a pointer is the one it was made from. *)
LEMMA BlockOfPtrOf ==
  ASSUME NEW b \in Int
  PROVE  BlockOf(PtrOf(b)) = b
BY HeapAssumption DEF BlockOf, PtrOf

(* The blocks the bitmap has bits for lie in the heap. *)
LEMMA BlocksInHeap ==
  /\ BITMAP_BYTES \in Nat
  /\ NBlocks \in Nat
  /\ NBlocks * BLOCK_SZ <= HEAP_SZ
BY HeapAssumption DEF NBlocks, BITMAP_BYTES

LEMMA TimesMonotone ==
  ASSUME NEW m \in Int, NEW n \in Int, NEW s \in Nat, m <= n
  PROVE  m * s <= n * s
OBVIOUS

(* An allocation: its first block, and the size of its run. *)
LEMMA AllocationShape ==
  ASSUME NEW a \in Allocation
  PROVE  /\ BlockOf(a.ptr) \in Block
         /\ a.ptr = PtrOf(BlockOf(a.ptr))
         /\ BlocksFor(a.sz) \in Nat \ {0}
         /\ a.sz \in Nat \ {0}
         /\ a.sz <= BlocksFor(a.sz) * BLOCK_SZ
<1>1. PICK b \in Block : a.ptr = PtrOf(b)
  BY DEF Allocation
<1>2. b \in Int
  BY BlocksInHeap DEF Block
<1>3. a.sz \in Nat \ {0}
  BY HeapAssumption DEF Allocation
<1> QED
  BY <1>1, <1>2, <1>3, BlockOfPtrOf, BlocksForHolds

(* Where an allocation lies when its blocks are blocks of the heap. *)
LEMMA AllocationPlace ==
  ASSUME NEW a \in Allocation, BlocksOf(a) \subseteq Block
  PROVE  LET b == BlockOf(a.ptr)
             n == BlocksFor(a.sz)
         IN  /\ b \in Nat /\ n \in Nat \ {0}
             /\ b + n <= NBlocks
             /\ a.ptr = b * BLOCK_SZ + heap_base
             /\ a.sz \in Nat \ {0}
             /\ a.ptr + a.sz <= (b + n) * BLOCK_SZ + heap_base
<1> DEFINE b == BlockOf(a.ptr)
           n == BlocksFor(a.sz)
<1>1. /\ b \in Nat /\ n \in Nat \ {0}
      /\ a.ptr = b * BLOCK_SZ + heap_base
      /\ a.sz \in Nat \ {0} /\ a.sz <= n * BLOCK_SZ
  BY AllocationShape, BlocksInHeap DEF PtrOf, Block
<1>2. b + n - 1 \in Span(b, n)
  BY <1>1 DEF Span
<1>3. b + n <= NBlocks
  BY <1>1, <1>2, BlocksInHeap DEF Block, BlocksOf
<1>4. (b + n) * BLOCK_SZ = b * BLOCK_SZ + n * BLOCK_SZ
  BY <1>1, HeapAssumption
<1> HIDE DEF b, n
<1>5. a.ptr + a.sz <= (b + n) * BLOCK_SZ + heap_base
  BY <1>1, <1>4, HeapAssumption
<1> QED
  BY <1>1, <1>3, <1>5 DEF b, n

(* It lies in the bytes of the heap. *)
LEMMA BytesWithinHeap ==
  ASSUME NEW a \in Allocation, BlocksOf(a) \subseteq Block
  PROVE  Bytes(a) \subseteq HeapBytes
<1> DEFINE b == BlockOf(a.ptr)
           n == BlocksFor(a.sz)
           end == (b + n) * BLOCK_SZ
           start == b * BLOCK_SZ
           last == NBlocks * BLOCK_SZ
<1>1. /\ b \in Nat /\ n \in Nat \ {0} /\ b + n <= NBlocks
      /\ a.ptr = start + heap_base /\ a.sz \in Nat \ {0}
      /\ a.ptr + a.sz <= end + heap_base
  BY AllocationPlace
<1>2. end <= last
  BY <1>1, TimesMonotone, BlocksInHeap, HeapAssumption
<1>3. start \in Nat /\ end \in Nat /\ last \in Nat
  BY <1>1, BlocksInHeap, HeapAssumption
<1>4. last <= HEAP_SZ
  BY BlocksInHeap
<1> HIDE DEF b, n, start, end, last
<1> QED
  BY <1>1, <1>2, <1>3, <1>4, HeapAssumption DEF Bytes, HeapBytes

(* The blocks of one before those of another, its bytes are too. *)
LEMMA BytesBefore ==
  ASSUME NEW a \in Allocation, BlocksOf(a) \subseteq Block,
         NEW c \in Allocation, BlocksOf(c) \subseteq Block,
         BlockOf(a.ptr) + BlocksFor(a.sz) <= BlockOf(c.ptr)
  PROVE  Bytes(a) \cap Bytes(c) = {}
<1> DEFINE n == BlockOf(a.ptr) + BlocksFor(a.sz)
           f == BlockOf(c.ptr)
           end == n * BLOCK_SZ
           start == f * BLOCK_SZ
<1>1. /\ n \in Nat /\ f \in Nat /\ n <= f
      /\ a.ptr \in Int /\ a.sz \in Nat /\ a.ptr + a.sz <= end + heap_base
      /\ c.ptr = start + heap_base /\ c.sz \in Nat
  BY AllocationPlace, AllocationShape, BlocksInHeap, HeapAssumption DEF PtrOf, Block
<1>2. end <= start
  BY <1>1, TimesMonotone, HeapAssumption
<1>3. start \in Nat /\ end \in Nat
  BY <1>1, HeapAssumption
<1> HIDE DEF n, f, start, end
<1> QED
  BY <1>1, <1>2, <1>3, HeapAssumption DEF Bytes

(* Two runs of blocks that share no block share no byte. *)
LEMMA BytesApart ==
  ASSUME NEW a \in Allocation, BlocksOf(a) \subseteq Block,
         NEW c \in Allocation, BlocksOf(c) \subseteq Block,
         BlocksOf(a) \cap BlocksOf(c) = {}
  PROVE  Bytes(a) \cap Bytes(c) = {}
<1> DEFINE first(x) == BlockOf(x.ptr)
           next(x) == BlockOf(x.ptr) + BlocksFor(x.sz)
<1>1. ASSUME NEW x \in {a, c}
      PROVE  /\ first(x) \in Nat /\ next(x) \in Nat /\ first(x) < next(x)
             /\ BlocksOf(x) = first(x) .. next(x) - 1
  BY AllocationPlace DEF BlocksOf, Span
<1> HIDE DEF first, next
<1>2. next(a) <= first(c) \/ next(c) <= first(a)
  <2>1. CASE first(a) <= first(c)
    <3>1. first(c) \notin BlocksOf(a)
      BY <1>1
    <3> QED
      BY <1>1, <2>1, <3>1
  <2>2. CASE first(c) <= first(a)
    <3>1. first(a) \notin BlocksOf(c)
      BY <1>1
    <3> QED
      BY <1>1, <2>2, <3>1
  <2> QED
    BY <1>1, <2>1, <2>2
<1> QED
  BY <1>2, BytesBefore DEF first, next

-----------------------------------------------------------------------------
(* The walk through the bits: AtBlock stands on its block, NextBit moves   *)
(* to the next, and both stay at whole bytes when they leave the bitmap.   *)
LEMMA AtBlockPos ==
  ASSUME NEW b \in 0 .. NBlocks, AtBlock(b)
  PROVE  /\ i' \in 0 .. BITMAP_BYTES
         /\ j' \in 0 .. 7
         /\ i' = BITMAP_BYTES => j' = 7
         /\ Pos' = b
BY BlocksInHeap DEF AtBlock, Pos, NBlocks

LEMMA NextBitPos ==
  ASSUME TypeOK, Pos \in Block, NextBit
  PROVE  /\ i' \in 0 .. BITMAP_BYTES
         /\ j' \in 0 .. 7
         /\ i' = BITMAP_BYTES => j' = 7
         /\ Pos' = Pos + 1
BY BlocksInHeap DEF TypeOK, NextBit, Pos, Block, NBlocks

LEMMA PosInBlock ==
  ASSUME TypeOK, i = BITMAP_BYTES => j = 7
  PROVE  /\ Pos \in 0 .. NBlocks
         /\ i < BITMAP_BYTES <=> Pos \in Block
         /\ i = BITMAP_BYTES <=> Pos = NBlocks
BY BlocksInHeap DEF TypeOK, Pos, Block, NBlocks

(* Growing or ending the free run keeps what the scan knows. *)
LEMMA ScanFreeStep ==
  ASSUME IndInv, ScanFree
  PROVE  IndInv'
<1> USE DEF IndInv
<1>1. /\ Pos \in Block /\ Pos \in Nat /\ Pos < NBlocks /\ NBlocks \in Nat
      /\ blocks \in Nat \ {0} /\ blocks_found \in Nat /\ sz \in Sizes
      /\ Scanned /\ heap_bitmap = Held(live) /\ blocks = BlocksFor(sz)
      /\ pc = "scan" /\ TypeOK
  BY PosInBlock, BlocksInHeap, BlocksForHolds, HeapAssumption
  DEF ScanFree, CallInv, TypeOK, Block
<1>2. /\ blocks_found' = blocks_found + 1
      /\ block_no' = RunStart
      /\ RunStart \in Block
      /\ UNCHANGED <<live, ret, sz, heap_bitmap, blocks>>
  BY <1>1 DEF ScanFree, Scanned, RunStart, Block
<1>3. Span(RunStart, blocks_found + 1) \cap heap_bitmap = {}
  BY <1>1 DEF ScanFree, Scanned, RunStart, Span, Block
<1>4. ASSUME NEW c \in Block, Fits(heap_bitmap, c, blocks), c < RunStart
      PROVE  c + blocks <= RunStart
  <2>1. RunStart - 1 \in heap_bitmap
    BY <1>1, <1>2, <1>4 DEF Scanned, Block
  <2>2. RunStart - 1 \notin Span(c, blocks)
    BY <2>1, <1>4 DEF Fits
  <2> QED
    BY <1>1, <1>2, <1>4, <2>2 DEF Span, Block
<1>5. CASE blocks_found' = blocks
  <2>1. pc' = "allocd" /\ UNCHANGED <<i, j>>
    BY <1>5 DEF ScanFree
  <2>2. Fits(heap_bitmap, RunStart, blocks)
    BY <1>1, <1>2, <1>3, <1>5 DEF Fits, Span, RunStart, Block
  <2>3. ASSUME NEW c \in Block, Fits(heap_bitmap, c, blocks)
        PROVE  RunStart <= c
    BY <1>1, <1>2, <1>4, <2>3 DEF Scanned, RunStart, Block
  <2>4. Found'
    BY <1>1, <1>2, <1>5, <2>2, <2>3 DEF Found, IsFirstFit
  <2>5. TypeOK'
    BY <1>1, <1>2, <2>1 DEF TypeOK
  <2>6. CallInv'
    BY <1>1, <1>2, <2>1, <2>4 DEF CallInv
  <2> QED
    BY <1>2, <2>1, <2>5, <2>6 DEF Disjoint
<1>6. CASE blocks_found' # blocks
  <2>1. pc' = "scan" /\ NextBit
    BY <1>1, <1>6 DEF ScanFree
  <2>2. /\ i' \in 0 .. BITMAP_BYTES /\ j' \in 0 .. 7
        /\ i' = BITMAP_BYTES => j' = 7
        /\ Pos' = Pos + 1
    BY <1>1, <2>1, NextBitPos
  <2>3. RunStart' = RunStart
    BY <1>1, <1>2, <2>2 DEF RunStart
  <2>4. blocks_found' < blocks
    BY <1>1, <1>2, <1>6 DEF Scanned
  <2>5. ASSUME NEW c \in Block, c + blocks <= Pos + 1
        PROVE  ~Fits(heap_bitmap, c, blocks)
    BY <1>1, <1>2, <1>4, <2>4, <2>5 DEF Scanned, RunStart, Block
  <2>6. Scanned'
    BY <1>1, <1>2, <1>3, <2>2, <2>3, <2>4, <2>5 DEF Scanned, Block
  <2>7. TypeOK'
    BY <1>1, <1>2, <2>1, <2>2 DEF TypeOK
  <2>8. CallInv'
    BY <1>1, <1>2, <2>1, <2>6 DEF CallInv
  <2> QED
    BY <1>2, <2>2, <2>7, <2>8 DEF Disjoint
<1> QED
  BY <1>5, <1>6

LEMMA ScanUsedStep ==
  ASSUME IndInv, ScanUsed
  PROVE  IndInv'
<1> USE DEF IndInv
<1>1. /\ Pos \in Block /\ Pos \in Nat /\ Pos < NBlocks /\ NBlocks \in Nat
      /\ blocks \in Nat \ {0} /\ sz \in Sizes
      /\ Scanned /\ heap_bitmap = Held(live) /\ blocks = BlocksFor(sz)
      /\ pc = "scan" /\ TypeOK
  BY PosInBlock, BlocksInHeap, BlocksForHolds, HeapAssumption
  DEF ScanUsed, CallInv, TypeOK, Block
<1>2. /\ blocks_found' = 0 /\ block_no' = -1 /\ NextBit /\ pc' = "scan"
      /\ UNCHANGED <<live, ret, sz, heap_bitmap, blocks>>
  BY <1>1 DEF ScanUsed
<1>3. /\ i' \in 0 .. BITMAP_BYTES /\ j' \in 0 .. 7
      /\ i' = BITMAP_BYTES => j' = 7
      /\ Pos' = Pos + 1
  BY <1>1, <1>2, NextBitPos
<1>4. ASSUME NEW c \in Block, c + blocks <= Pos + 1
      PROVE  ~Fits(heap_bitmap, c, blocks)
  <2>1. CASE c + blocks <= Pos
    BY <1>1, <2>1 DEF Scanned
  <2>2. CASE c + blocks = Pos + 1
    BY <1>1, <2>2 DEF ScanUsed, Fits, Span, Block
  <2> QED
    BY <1>1, <1>4, <2>1, <2>2 DEF Block
<1>5. Scanned'
  BY <1>1, <1>2, <1>3, <1>4 DEF Scanned, RunStart, Span, ScanUsed
<1>6. TypeOK'
  BY <1>1, <1>2, <1>3 DEF TypeOK
<1>7. CallInv'
  BY <1>1, <1>2, <1>5 DEF CallInv
<1> QED
  BY <1>2, <1>3, <1>6, <1>7 DEF Disjoint

(* At the end of the bitmap the run is too short and nothing fits. *)
LEMMA ScanEndStep ==
  ASSUME IndInv, ScanEnd
  PROVE  IndInv'
<1> USE DEF IndInv
<1>1. /\ Pos = NBlocks /\ NBlocks \in Nat /\ blocks \in Nat \ {0} /\ Scanned
      /\ sz \in Sizes /\ blocks = BlocksFor(sz) /\ heap_bitmap = Held(live)
  BY PosInBlock, BlocksInHeap, BlocksForHolds, HeapAssumption
  DEF ScanEnd, CallInv, TypeOK
<1>2. ASSUME NEW c \in Block
      PROVE  ~Fits(heap_bitmap, c, blocks)
  <2>1. CASE c + blocks <= NBlocks
    BY <1>1, <2>1 DEF Scanned
  <2>2. CASE c + blocks > NBlocks
    <3>1. NBlocks \in Span(c, blocks)
      BY <1>1, <2>2 DEF Span, Block
    <3> QED
      BY <1>1, <3>1 DEF Fits, Block
  <2> QED
    BY <1>1, <2>1, <2>2 DEF Block
<1>3. NotFound'
  BY <1>1, <1>2 DEF NotFound, Scanned, ScanEnd, run
<1>4. TypeOK'
  BY DEF TypeOK, ScanEnd, run
<1>5. CallInv'
  BY <1>1, <1>3 DEF CallInv, ScanEnd, run
<1> QED
  BY <1>4, <1>5 DEF Disjoint, ScanEnd, run

(* A call starts its scan knowing nothing, at the first block. *)
LEMMA CallStep ==
  ASSUME IndInv, NEW size \in Sizes, MallocCall(size)
  PROVE  IndInv'
<1> USE DEF IndInv
<1>1. /\ pc' = "scan" /\ sz' = size /\ blocks' = BlocksFor(size)
      /\ blocks_found' = 0 /\ block_no' = -1 /\ AtBlock(0) /\ ret' = NULL
      /\ UNCHANGED <<live, heap_bitmap>>
      /\ heap_bitmap = Held(live)
  BY DEF MallocCall, CallInv
<1>2. blocks' \in Nat \ {0}
  BY <1>1, BlocksForHolds, HeapAssumption
<1>3. /\ i' \in 0 .. BITMAP_BYTES /\ j' \in 0 .. 7
      /\ i' = BITMAP_BYTES => j' = 7
      /\ Pos' = 0
  BY <1>1, AtBlockPos, BlocksInHeap
<1>4. Scanned'
  BY <1>1, <1>2, <1>3, BlocksInHeap DEF Scanned, RunStart, Span, Block
<1>5. TypeOK'
  BY <1>1, <1>2, <1>3 DEF TypeOK
<1>6. CallInv'
  BY <1>1, <1>4 DEF CallInv
<1> QED
  BY <1>1, <1>3, <1>5, <1>6 DEF Disjoint

LEMMA MallocFailStep ==
  ASSUME IndInv, MallocFail
  PROVE  IndInv'
<1>1. TypeOK'
  BY BlocksInHeap DEF IndInv, TypeOK, MallocFail, Return
<1>2. CallInv'
  BY DEF IndInv, CallInv, MallocFail, Return
<1> QED
  BY <1>1, <1>2 DEF IndInv, Disjoint, MallocFail, Return

LEMMA MarkStartStep ==
  ASSUME IndInv, MarkStart
  PROVE  IndInv'
<1> USE DEF IndInv
<1>1. /\ sz \in Sizes /\ blocks = BlocksFor(sz) /\ heap_bitmap = Held(live)
      /\ (Found \/ NotFound) /\ ret = NULL
      /\ blocks \in Nat /\ blocks_found \in Nat
  BY DEF MarkStart, CallInv, TypeOK
<1>2. Found
  BY <1>1 DEF MarkStart, NoRun, NotFound
<1>3. block_no \in 0 .. NBlocks
  BY <1>2, BlocksInHeap DEF Found, IsFirstFit, Fits, Block
<1>4. /\ i' \in 0 .. BITMAP_BYTES /\ j' \in 0 .. 7
      /\ i' = BITMAP_BYTES => j' = 7
      /\ Pos' = block_no
  BY <1>3, AtBlockPos DEF MarkStart
<1>5. UNCHANGED <<live, ret, sz, heap_bitmap, blocks, blocks_found, block_no>> /\ pc' = "mark"
  BY DEF MarkStart, run
<1>6. Marked' = {}
  BY <1>1, <1>2, <1>3, <1>5 DEF Marked, Found, Span
<1>7. TypeOK'
  BY <1>4, <1>5 DEF TypeOK
<1>8. CallInv'
  BY <1>1, <1>2, <1>3, <1>4, <1>5, <1>6 DEF CallInv, Found
<1> QED
  BY <1>4, <1>5, <1>7, <1>8 DEF Disjoint

(* Marking one more block of the run. *)
LEMMA MarkStepStep ==
  ASSUME IndInv, MarkStep
  PROVE  IndInv'
<1> USE DEF IndInv
<1>1. /\ sz \in Sizes /\ blocks = BlocksFor(sz) /\ TypeOK
      /\ IsFirstFit(Held(live), block_no, blocks)
      /\ heap_bitmap = Held(live) \cup Marked
      /\ Pos = block_no + (blocks - blocks_found)
      /\ blocks \in Nat /\ blocks_found \in Nat \ {0} /\ blocks_found <= blocks
      /\ block_no \in Nat /\ NBlocks \in Nat /\ ret = NULL
  BY BlocksInHeap DEF MarkStep, CallInv, TypeOK, IsFirstFit, Fits, Block
<1>2. Pos \in Span(block_no, blocks)
  BY <1>1 DEF Span
<1>3. Pos \in Block
  BY <1>1, <1>2 DEF IsFirstFit, Fits
<1>4. /\ i' \in 0 .. BITMAP_BYTES /\ j' \in 0 .. 7
      /\ i' = BITMAP_BYTES => j' = 7
      /\ Pos' = Pos + 1
  BY <1>1, <1>3, NextBitPos DEF MarkStep
<1>5. /\ UNCHANGED <<live, ret, sz, blocks, block_no>> /\ pc' = "mark"
      /\ blocks_found' = blocks_found - 1
      /\ heap_bitmap' = heap_bitmap \cup {Pos}
  BY DEF MarkStep
<1>6. Marked' = Marked \cup {Pos}
  BY <1>1, <1>5 DEF Marked, Span
<1>7. TypeOK'
  BY <1>1, <1>3, <1>4, <1>5 DEF TypeOK
<1>8. CallInv'
  BY <1>1, <1>4, <1>5, <1>6 DEF CallInv
<1> QED
  BY <1>4, <1>5, <1>7, <1>8 DEF Disjoint

(* The new allocation takes up the run that was marked, which was free. *)
LEMMA GrantedBlocks ==
  ASSUME IndInv, MallocReturn
  PROVE  LET a == [ptr |-> PtrOf(block_no), sz |-> sz]
         IN  /\ a \in Allocation
             /\ BlocksOf(a) = Span(block_no, blocks)
             /\ BlocksOf(a) \subseteq Block \ Held(live)
             /\ heap_bitmap = Held(live) \cup BlocksOf(a)
<1> DEFINE a == [ptr |-> PtrOf(block_no), sz |-> sz]
<1>1. /\ sz \in Sizes /\ blocks = BlocksFor(sz)
      /\ IsFirstFit(Held(live), block_no, blocks)
      /\ heap_bitmap = Held(live) \cup Marked
      /\ blocks \in Nat /\ blocks_found = 0
  BY DEF IndInv, MallocReturn, CallInv, TypeOK
<1>2. block_no \in Block /\ block_no \in Int
  BY <1>1, BlocksInHeap DEF IsFirstFit, Fits, Block
<1>3. BlocksOf(a) = Span(block_no, blocks)
  BY <1>1, <1>2, BlockOfPtrOf DEF BlocksOf
<1>4. Marked = Span(block_no, blocks)
  BY <1>1 DEF Marked
<1> QED
  BY <1>1, <1>2, <1>3, <1>4 DEF Allocation, IsFirstFit, Fits

LEMMA MallocReturnStep ==
  ASSUME IndInv, MallocReturn
  PROVE  IndInv'
<1> DEFINE a == [ptr |-> PtrOf(block_no), sz |-> sz]
<1>1. /\ a \in Allocation
      /\ BlocksOf(a) \subseteq Block \ Held(live)
      /\ heap_bitmap = Held(live) \cup BlocksOf(a)
  BY GrantedBlocks
<1>2. /\ live' = live \cup {a} /\ Return(PtrOf(block_no))
      /\ heap_bitmap' = heap_bitmap
  BY DEF MallocReturn
<1>3. Held(live') = Held(live) \cup BlocksOf(a)
  BY <1>2 DEF Held
<1>4. TypeOK'
  <2>1. block_no \in Block
    BY DEF IndInv, MallocReturn, CallInv, IsFirstFit, Fits
  <2> QED
    BY <1>1, <1>2, <2>1, BlocksInHeap DEF IndInv, TypeOK, Return
<1>5. Disjoint'
  <2>1. ASSUME NEW b \in live
        PROVE  BlocksOf(b) \subseteq Held(live)
    BY DEF Held
  <2> QED
    BY <1>1, <1>2, <2>1 DEF IndInv, Disjoint
<1>6. CallInv'
  BY <1>1, <1>2, <1>3 DEF CallInv, Return
<1>7. i' = BITMAP_BYTES => j' = 7
  BY <1>2 DEF Return
<1> QED
  BY <1>4, <1>5, <1>6, <1>7 DEF IndInv

(* free takes up exactly the blocks of the allocation it is given. *)
LEMMA FreeCallStep ==
  ASSUME IndInv, NEW a \in live, FreeCall(a)
  PROVE  IndInv'
<1> DEFINE b == BlockOf(a.ptr)
           n == BlocksFor(a.sz)
<1>1. /\ b \in Block /\ b \in Nat /\ n \in Nat \ {0}
      /\ BlocksOf(a) = Span(b, n) /\ BlocksOf(a) \subseteq Block
      /\ heap_bitmap = Held(live) /\ NBlocks \in Nat /\ sz = NULL
  BY AllocationShape, BlocksInHeap
  DEF IndInv, TypeOK, Disjoint, FreeCall, CallInv, BlocksOf, Block
<1>2. /\ live' = live \ {a} /\ blocks' = n /\ AtBlock(b) /\ pc' = "clear"
      /\ ret' = NULL /\ UNCHANGED <<sz, heap_bitmap, blocks_found, block_no>>
  BY DEF FreeCall
<1>3. /\ i' \in 0 .. BITMAP_BYTES /\ j' \in 0 .. 7
      /\ i' = BITMAP_BYTES => j' = 7
      /\ Pos' = b
  BY <1>1, <1>2, AtBlockPos DEF Block
<1>4. ToClear' = BlocksOf(a)
  BY <1>1, <1>2, <1>3 DEF ToClear
<1>5. Held(live) = Held(live') \cup BlocksOf(a)
  BY <1>2 DEF Held
<1>6. Held(live') \cap BlocksOf(a) = {}
  BY <1>2 DEF IndInv, Disjoint, Held
<1>7. b + n <= NBlocks
  <2>1. b + n - 1 \in Span(b, n)
    BY <1>1 DEF Span
  <2> QED
    BY <1>1, <2>1 DEF Block
<1>8. TypeOK'
  BY <1>1, <1>2, <1>3 DEF IndInv, TypeOK
<1>9. CallInv'
  BY <1>1, <1>2, <1>3, <1>4, <1>5, <1>6, <1>7 DEF CallInv
<1> QED
  BY <1>2, <1>3, <1>8, <1>9 DEF IndInv, Disjoint

LEMMA ClearStepStep ==
  ASSUME IndInv, ClearStep
  PROVE  IndInv'
<1> USE DEF IndInv
<1>1. /\ blocks \in Nat \ {0} /\ Pos \in 0 .. NBlocks /\ NBlocks \in Nat
      /\ Pos + blocks <= NBlocks
      /\ ToClear \subseteq Block \ Held(live) /\ sz = NULL /\ TypeOK
      /\ heap_bitmap = Held(live) \cup ToClear
  BY PosInBlock, BlocksInHeap DEF ClearStep, CallInv, TypeOK
<1>2. Pos \in Block /\ Pos \in ToClear
  BY <1>1 DEF Block, ToClear, Span
<1>3. /\ i' \in 0 .. BITMAP_BYTES /\ j' \in 0 .. 7
      /\ i' = BITMAP_BYTES => j' = 7
      /\ Pos' = Pos + 1
  BY <1>1, <1>2, NextBitPos DEF ClearStep
<1>4. /\ UNCHANGED <<live, ret, sz, blocks_found, block_no>> /\ pc' = "clear"
      /\ blocks' = blocks - 1
      /\ heap_bitmap' = heap_bitmap \ {Pos}
  BY DEF ClearStep
<1>5. ToClear' = ToClear \ {Pos}
  BY <1>1, <1>3, <1>4 DEF ToClear, Span
<1>6. TypeOK'
  BY <1>1, <1>3, <1>4 DEF TypeOK
<1>7. CallInv'
  BY <1>1, <1>2, <1>3, <1>4, <1>5 DEF CallInv
<1> QED
  BY <1>3, <1>4, <1>6, <1>7 DEF Disjoint

LEMMA FreeReturnStep ==
  ASSUME IndInv, FreeReturn
  PROVE  IndInv'
<1>1. /\ heap_bitmap = Held(live) \cup ToClear /\ blocks = 0 /\ Pos \in Int
  BY PosInBlock, BlocksInHeap DEF IndInv, FreeReturn, CallInv, TypeOK
<1>2. ToClear = {}
  BY <1>1 DEF ToClear, Span
<1>3. TypeOK'
  BY BlocksInHeap DEF IndInv, TypeOK, FreeReturn, Return
<1>4. CallInv'
  BY <1>1, <1>2 DEF CallInv, FreeReturn, Return
<1> QED
  BY <1>3, <1>4 DEF IndInv, Disjoint, FreeReturn, Return
-----------------------------------------------------------------------------
LEMMA InitIndInv == Init => IndInv
<1> SUFFICES ASSUME Init PROVE IndInv
  OBVIOUS
<1>1. TypeOK
  BY BlocksInHeap DEF Init, TypeOK
<1>2. Disjoint /\ Held(live) = {}
  BY DEF Init, Disjoint, Held
<1>3. CallInv
  BY <1>2 DEF Init, CallInv
<1> QED
  BY <1>1, <1>2, <1>3 DEF IndInv, Init

LEMMA StutterIndInv ==
  ASSUME IndInv, UNCHANGED vars
  PROVE  IndInv'
BY DEF vars, IndInv, TypeOK, Disjoint, CallInv, Scanned, Found, NotFound,
       Marked, ToClear, Pos, RunStart

(* Every reachable state of the allocator satisfies the invariant that ties *)
(* the bitmap to the live allocations at every step of malloc and free.     *)
THEOREM Invariance == Spec => []IndInv
<1>1. ASSUME IndInv, [Next]_vars
      PROVE  IndInv'
  <2>1. CASE AllocatorStep
    BY <1>1, <2>1, ScanFreeStep, ScanUsedStep, ScanEndStep, MallocFailStep,
       MarkStartStep, MarkStepStep, MallocReturnStep, ClearStepStep,
       FreeReturnStep DEF AllocatorStep
  <2>2. ASSUME NEW size \in Sizes, MallocCall(size)
        PROVE  IndInv'
    BY <1>1, <2>2, CallStep
  <2>3. ASSUME NEW a \in live, FreeCall(a)
        PROVE  IndInv'
    BY <1>1, <2>3, FreeCallStep
  <2>4. CASE UNCHANGED vars
    BY <1>1, <2>4, StutterIndInv
  <2> QED
    BY <1>1, <2>1, <2>2, <2>3, <2>4 DEF Next
<1> QED
  BY <1>1, InitIndInv, PTL DEF Spec

(* The variables of malloc.c keep their types: block_no and the byte and   *)
(* bit index never leave the bitmap.                                       *)
THEOREM TypeCorrect == Spec => []TypeOK
BY Invariance, PTL DEF IndInv

(* Between calls the bitmap is exactly the blocks of the live allocations. *)
THEOREM BitmapIsExact == Spec => []BitmapExact
<1>1. IndInv => BitmapExact
  BY DEF IndInv, CallInv, BitmapExact
<1> QED
  BY <1>1, Invariance, PTL

(* Allocations that share no block of the heap share no byte of it. *)
LEMMA SeparatedBytes ==
  ASSUME IndInv
  PROVE  Separation
<1>1. ASSUME NEW a \in live
      PROVE  a \in Allocation /\ BlocksOf(a) \subseteq Block
  BY DEF IndInv, TypeOK, Disjoint
<1>2. ASSUME NEW a \in live
      PROVE  Bytes(a) \subseteq HeapBytes
  BY <1>1, BytesWithinHeap
<1>3. ASSUME NEW a \in live, NEW c \in live, a # c
      PROVE  Bytes(a) \cap Bytes(c) = {}
  BY <1>1, <1>3, BytesApart DEF IndInv, Disjoint
<1> QED
  BY <1>2, <1>3 DEF Separation

(* Memory handed out twice, or beyond the heap, is out of the question for *)
(* any sequence of calls.                                                  *)
THEOREM AllocationsSeparate == Spec => []Separation
BY SeparatedBytes, Invariance, PTL
-----------------------------------------------------------------------------
(* Heap's arithmetic, seen through the instance, is this module's. *)
LEMMA SameLayout ==
  /\ AbstractHeap!NULL = NULL
  /\ AbstractHeap!Block = Block
  /\ \A s : AbstractHeap!BlocksFor(s) = BlocksFor(s)
  /\ \A b : AbstractHeap!PtrOf(b) = PtrOf(b)
  /\ \A S : AbstractHeap!Held(S) = Held(S)
  /\ \A S, b, n : AbstractHeap!Fits(S, b, n) = Fits(S, b, n)
  /\ \A S, b, n : AbstractHeap!IsFirstFit(S, b, n) = IsFirstFit(S, b, n)
BY DEF AbstractHeap!NULL, NULL, AbstractHeap!Block, Block,
       AbstractHeap!NBlocks, NBlocks, AbstractHeap!BITMAP_BYTES, BITMAP_BYTES,
       AbstractHeap!BlocksFor, BlocksFor, AbstractHeap!PtrOf, PtrOf,
       AbstractHeap!BlockOf, BlockOf, AbstractHeap!BlocksOf, BlocksOf,
       AbstractHeap!Span, Span, AbstractHeap!Held, Held,
       AbstractHeap!Fits, Fits, AbstractHeap!IsFirstFit, IsFirstFit

(* Every step of the allocator is a step of Heap or changes nothing there. *)
LEMMA StepRefines ==
  ASSUME IndInv, [Next]_vars
  PROVE  [AbstractHeap!Next]_(AbstractHeap!vars)
<1>1. ASSUME NEW size \in Sizes, MallocCall(size)
      PROVE  AbstractHeap!Request(size)
  <2>1. pc = "idle" /\ pc' = "scan" /\ sz' = size /\ ret' = NULL /\ live' = live
    BY <1>1 DEF MallocCall
  <2> QED
    BY <2>1, SameLayout DEF AbstractHeap!Request
<1>2. ASSUME MallocReturn
      PROVE  AbstractHeap!Grant(block_no) /\ block_no \in Block
  <2>1. /\ pc = "mark" /\ pc' = "idle" /\ sz # NULL
        /\ IsFirstFit(Held(live), block_no, BlocksFor(sz))
        /\ live' = live \cup {[ptr |-> PtrOf(block_no), sz |-> sz]}
        /\ ret' = PtrOf(block_no)
    BY <1>2, HeapAssumption DEF MallocReturn, Return, IndInv, CallInv, NULL
  <2> QED
    BY <2>1, SameLayout DEF AbstractHeap!Grant, IsFirstFit, Fits
<1>3. ASSUME MallocFail
      PROVE  AbstractHeap!Refuse
  <2>1. /\ pc = "allocd" /\ pc' = "idle" /\ sz # NULL
        /\ blocks = BlocksFor(sz)
        /\ live' = live /\ ret' = NULL
    BY <1>3, HeapAssumption DEF MallocFail, Return, IndInv, CallInv, NULL
  <2>2. ~Found
    BY <1>3, BlocksInHeap
    DEF MallocFail, NoRun, Found, IsFirstFit, Fits, Block, IndInv, TypeOK
  <2>3. NotFound
    BY <2>1, <2>2 DEF IndInv, CallInv
  <2> QED
    BY <2>1, <2>3, SameLayout DEF AbstractHeap!Refuse, NotFound
<1>4. ASSUME NEW a \in live, FreeCall(a)
      PROVE  AbstractHeap!Release(a)
  <2>1. pc = "idle" /\ pc' = "clear" /\ live' = live \ {a} /\ ret' = NULL
    BY <1>4 DEF FreeCall
  <2> QED
    BY <2>1, SameLayout DEF AbstractHeap!Release
<1>5. ASSUME \/ ScanFree \/ ScanUsed \/ ScanEnd
             \/ MarkStart \/ MarkStep \/ ClearStep \/ FreeReturn
      PROVE  UNCHANGED AbstractHeap!vars
  <2>1. live' = live
    BY <1>5 DEF ScanFree, ScanUsed, ScanEnd, MarkStart, MarkStep, ClearStep,
       FreeReturn, run
  <2>2. ret = NULL /\ ret' = NULL
    BY <1>5 DEF ScanFree, ScanUsed, ScanEnd, MarkStart, MarkStep, ClearStep,
       FreeReturn, run, Return, IndInv, CallInv
  <2>3. IF pc \in {"scan", "allocd", "mark"}
          THEN pc' \in {"scan", "allocd", "mark"} /\ sz' = sz
          ELSE pc' \notin {"scan", "allocd", "mark"}
    BY <1>5 DEF ScanFree, ScanUsed, ScanEnd, MarkStart, MarkStep, ClearStep,
       FreeReturn, run, Return
  <2> QED
    BY <2>1, <2>2, <2>3 DEF AbstractHeap!vars
<1>6. CASE UNCHANGED vars
  BY <1>6 DEF vars, AbstractHeap!vars
<1> QED
  BY <1>1, <1>2, <1>3, <1>4, <1>5, <1>6, SameLayout DEF Next, AllocatorStep, AbstractHeap!Next

(* malloc.c implements the allocator that Heap specifies: the lowest fit   *)
(* when there is one, NULL only when nothing fits, and no other effect.    *)
THEOREM Refinement == Spec => ImplementsHeap
<1>1. Init => AbstractHeap!Init
  BY SameLayout DEF Init, AbstractHeap!Init
<1> QED
  BY <1>1, StepRefines, Invariance, PTL
  DEF Spec, ImplementsHeap, AbstractHeap!Spec
=============================================================================
