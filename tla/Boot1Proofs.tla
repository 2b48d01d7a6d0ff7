------------------------------- MODULE Boot1Proofs -------------------------------
(***************************************************************************)
(* Proofs about boot1, for every set of volumes, lines and drives, every   *)
(* number of PRFs and every layout of the heap that the assumptions allow. *)
(***************************************************************************)
EXTENDS Boot1, SequenceTheorems, WellFoundedInduction, TLAPS

(* Where the program can be: before main, in one attempt of try_decrypt,   *)
(* after its loop, in try_decrypt, and while each allocation lasts.        *)
Startup == {"cstart", "zero_bss", "set_heap", "set_dev"}
Attempting == {"next_prf", "pbkdf2", "derive", "free_salt", "xts", "decrypt", "check", "crc"}
Unwinding == {"free_dk", "free_ctx", "free_passphrase"}
Asking == Startup \cup {"main", "read_line"}
Trying == {"try_decrypt", "alloc_ctx"} \cup Attempting \cup Unwinding
Answered == {"terminate", "report"} \cup Trying
Undecided == Asking \cup {"terminate", "cancelled", "try_decrypt", "alloc_ctx"}
PCs == Asking \cup Answered \cup {"cancelled", "halt"}

HasPassphrase == {"read_line", "cancelled", "terminate"} \cup Trying
HasDk == {"alloc_ctx", "free_dk"} \cup Attempting
HasCtx == {"free_dk", "free_ctx"} \cup Attempting
HasSalt == {"derive", "free_salt"}

(* First fit stacks the four allocations in the order they are made in. *)
N1 == BlocksFor(maxlen + 1)
N2 == BlocksFor(dklen)
N3 == BlocksFor(XTS_CTX_SZ)
N4 == BlocksFor(SALT_LEN + 4)

At(b, sz) == [ptr |-> PtrOf(b), sz |-> sz]
While(S, x) == IF pc \in S THEN x ELSE {}

LiveIs == While(HasPassphrase, {At(0, maxlen + 1)})
            \cup While(HasDk, {At(N1, dklen)})
            \cup While(HasCtx, {At(N1 + N2, XTS_CTX_SZ)})
            \cup While(HasSalt, {At(N1 + N2 + N3, SALT_LEN + 4)})

UsedIs == While(HasPassphrase, Span(0, N1))
            \cup While(HasDk, Span(N1, N2))
            \cup While(HasCtx, Span(N1 + N2, N3))
            \cup While(HasSalt, Span(N1 + N2 + N3, N4))

HeapInv ==
  /\ live = LiveIs
  /\ pc \notin {"cstart", "zero_bss"} => used = UsedIs
  /\ pc \in HasPassphrase => passphrase = PtrOf(0)
  /\ pc \in HasDk => dk = PtrOf(N1)
  /\ pc \in HasCtx => xts_ctx = PtrOf(N1 + N2)
  /\ pc \in HasSalt => saltp = PtrOf(N1 + N2 + N3)

(* What startup.s leaves behind. *)
StartInv ==
  /\ pc \in PCs
  /\ pc # "cstart" => segment = DGROUP
  /\ pc \notin {"cstart", "zero_bss", "set_heap"} => heap_ptr = heap_base
  /\ pc \notin Startup => biosdev = boot_drive

(* The answer, and the string that is left of it in memory. *)
Cell == Chars \cup {NUL, "junk"}

AnswerInv ==
  /\ mem \in [1 .. maxlen + 1 -> Cell]
  /\ pc \in Asking => answer = {}
  /\ pc = "cancelled" => answer = {Cancelled}
  /\ pc \in Answered => \E l \in Lines : answer = {l}
  /\ pc = "terminate" => \A l \in answer : \A n \in 1 .. Len(l) : mem[n] = l[n]
  /\ pc \in Answered \ {"terminate"} => \A l \in answer : CString(mem) = CString(l)

(* The header: nothing that an attempt leaves behind, or a failing read,   *)
(* is a layer that a derived key takes off.                                *)
Keys == [salt : {"disk", "junk", "zero", "other", "none"},
         pass : Passes \cup Seq(Cell), prf : Nat]
Headers == [salt : {"disk", "junk", "zero", "other"}, swapped : BOOLEAN,
            enc : Seq([op : {"enc", "dec"}, key : Keys])]

Spent == \/ hdr.enc = <<>>
         \/ Head(hdr.enc).op = "dec"
         \/ Head(hdr.enc).key = NoKey

AttemptKey == Key(hdr.salt, CString(mem), prf)

Decoded == prf = volume.prf /\ prf \notin unread /\ CString(mem) = volume.pass

HeaderInv ==
  /\ hdr \in Headers
  /\ dkey \in Keys /\ ckey \in Keys
  /\ pc \in Undecided \cup {"next_prf", "check", "crc"} => Spent
  /\ pc \in {"pbkdf2", "derive", "free_salt", "xts", "decrypt"} =>
       IF prf \in unread THEN Spent ELSE hdr = OnDisk(volume)
  /\ pc \in {"free_salt", "xts"} => dkey = AttemptKey
  /\ pc = "decrypt" => ckey = AttemptKey
  /\ pc \in {"check", "crc"} =>
       /\ hdr.enc = <<>> <=> Decoded
       /\ prf \notin unread => hdr.salt = "disk" /\ hdr.swapped = (pc = "crc")

(* The attempts: those before this one have failed, and rightly so. *)
Opening == volume.prf \notin unread /\ volume.sound /\ CString(mem) = volume.pass

Plain == /\ hdr = [salt |-> "disk", swapped |-> TRUE, enc |-> <<>>]
         /\ prf = volume.prf

AttemptInv ==
  /\ volume \in Volumes
  /\ prf \in 1 .. NPrfs + 1 /\ (pc \in Attempting \ {"next_prf"} => prf <= NPrfs)
  /\ unread \subseteq 1 .. prf
  /\ pc \in Undecided => prf = 1 /\ unread = {}
  /\ pc = "next_prf" => prf \notin unread
  /\ pc \in Attempting /\ volume.prf < prf => ~Opening
  /\ pc \in Undecided \cup Attempting => ret = -1
  /\ pc \in Unwinding \cup {"report"} => IF Opening THEN ret = 0 /\ Plain ELSE ret = -1
  /\ pc # "halt" => verdict = "none"

IndInv == StartInv /\ HeapInv /\ AnswerInv /\ HeaderInv /\ AttemptInv
            /\ VerdictRight /\ OpenedIsPlain
-----------------------------------------------------------------------------
(* Rounding: a size takes at least one block, and its blocks hold it. *)
LEMMA BlocksForHolds ==
  ASSUME NEW s \in Nat \ {0}
  PROVE  BlocksFor(s) \in Nat \ {0} /\ s <= BlocksFor(s) * BLOCK_SZ
<1> DEFINE q == s \div BLOCK_SZ
           r == s % BLOCK_SZ
<1>1. q \in Nat /\ r \in 0 .. BLOCK_SZ - 1 /\ s = q * BLOCK_SZ + r
  BY HeapAssumption
<1>2. CASE r = 0
  <2>1. BlocksFor(s) = q
    BY <1>2 DEF BlocksFor
  <2> QED
    BY <1>1, <1>2, <2>1, HeapAssumption
<1>3. CASE r # 0
  <2>1. (s - r) + BLOCK_SZ = (q + 1) * BLOCK_SZ
    BY <1>1, HeapAssumption
  <2>2. ((q + 1) * BLOCK_SZ) \div BLOCK_SZ = q + 1
    BY <1>1, HeapAssumption
  <2>3. BlocksFor(s) = q + 1
    BY <1>3, <2>1, <2>2 DEF BlocksFor
  <2> QED
    BY <1>1, <2>1, <2>3, HeapAssumption
<1> QED
  BY <1>2, <1>3

(* The block of a pointer is the one it was made from. *)
LEMMA BlockOfPtrOf ==
  ASSUME NEW b \in Int
  PROVE  BlockOf(PtrOf(b)) = b
BY HeapAssumption DEF BlockOf, PtrOf

(* The blocks the bitmap has bits for lie in the heap. *)
LEMMA BlocksInHeap ==
  /\ BITMAP_BYTES \in Nat
  /\ NBlocks \in Nat
  /\ NBlocks * BLOCK_SZ <= HEAP_SZ
BY HeapAssumption DEF NBlocks, BITMAP_BYTES

(* With the blocks below k taken and no other, a run that fits goes to k. *)
LEMMA FirstFitOnTop ==
  ASSUME NEW k \in Nat, NEW n \in Nat \ {0}, k + n <= NBlocks
  PROVE  /\ k \in Block
         /\ \A b \in Block : IsFirstFit(Span(0, k), b, n) <=> b = k
         /\ Fits(Span(0, k), k, n)
<1>1. k \in Block /\ NBlocks \in Nat
  BY BlocksInHeap DEF Block
<1>2. Fits(Span(0, k), k, n)
  BY <1>1 DEF Fits, Span, Block
<1>3. ASSUME NEW b \in Block, Fits(Span(0, k), b, n)
      PROVE  k <= b
  <2>1. b \in Span(b, n) /\ b \in Nat
    BY <1>1 DEF Span, Block
  <2>2. b \notin Span(0, k)
    BY <1>3, <2>1 DEF Fits
  <2> QED
    BY <2>1, <2>2 DEF Span
<1>4. ASSUME NEW b \in Block, NEW c \in Block, b <= c, c <= b
      PROVE  b = c
  BY <1>1, <1>4 DEF Block
<1> QED
  BY <1>1, <1>2, <1>3, <1>4 DEF IsFirstFit

(* The stack of allocations fits into the heap. *)
LEMMA Room ==
  /\ N1 \in Nat \ {0} /\ N2 \in Nat \ {0} /\ N3 \in Nat \ {0} /\ N4 \in Nat \ {0}
  /\ maxlen + 1 \in Nat \ {0} /\ XTS_CTX_SZ \in Nat \ {0}
  /\ NBlocks \in Nat
  /\ N1 <= NBlocks
  /\ N1 + N2 <= NBlocks
  /\ N1 + N2 + N3 <= NBlocks
  /\ N1 + N2 + N3 + N4 <= NBlocks
<1>1. /\ maxlen + 1 \in Nat \ {0} /\ dklen \in Nat \ {0}
      /\ XTS_CTX_SZ \in Nat \ {0} /\ SALT_LEN + 4 \in Nat \ {0}
  BY Boot1Assumption, HeapAssumption DEF PASSPHRASE_SZ
<1>2. /\ N1 \in Nat \ {0} /\ N2 \in Nat \ {0} /\ N3 \in Nat \ {0} /\ N4 \in Nat \ {0}
      /\ NBlocks \in Nat
      /\ N1 + N2 + N3 + N4 <= NBlocks
  BY <1>1, Boot1Assumption, BlocksForHolds, BlocksInHeap DEF N1, N2, N3, N4, PASSPHRASE_SZ
<1> QED
  BY <1>1, <1>2

LEMMA OnTop ==
  ASSUME NEW k \in Nat, NEW n \in Nat
  PROVE  Span(0, k) \cup Span(k, n) = Span(0, k + n)
BY DEF Span

(* malloc puts an allocation on top of the stack, and free takes away the  *)
(* one it is given.                                                        *)
LEMMA MallocOnTop ==
  ASSUME NEW k \in Nat, NEW sz \in Nat \ {0}, NEW p,
         used = Span(0, k), k + BlocksFor(sz) <= NBlocks,
         heap_ptr = heap_base, Malloc(sz, p)
  PROVE  /\ p = PtrOf(k)
         /\ used' = used \cup Span(k, BlocksFor(sz))
         /\ live' = live \cup {At(k, sz)}
<1> DEFINE n == BlocksFor(sz)
<1>1. /\ k \in Block
      /\ \A b \in Block : IsFirstFit(used, b, n) <=> b = k
      /\ Fits(used, k, n)
  BY FirstFitOnTop, BlocksForHolds
<1>2. /\ p = PtrOf(k) - heap_base + heap_ptr
      /\ used' = used \cup Span(k, n)
      /\ live' = live \cup {[ptr |-> p, sz |-> sz]}
  BY <1>1 DEF Malloc
<1>3. p = PtrOf(k)
  BY <1>2, HeapAssumption DEF PtrOf
<1> QED
  BY <1>2, <1>3 DEF At

LEMMA FreeTakesAway ==
  ASSUME NEW k \in Nat, NEW sz, heap_ptr = heap_base, Free(PtrOf(k), sz)
  PROVE  /\ used' = used \ Span(k, BlocksFor(sz))
         /\ live' = live \ {At(k, sz)}
<1>1. (PtrOf(k) - heap_ptr) \div BLOCK_SZ = k
  BY BlockOfPtrOf DEF BlockOf
<1> QED
  BY <1>1 DEF Free, At

(* The four allocations differ in their blocks. *)
LEMMA FourApart ==
  /\ \A b, c \in Int : \A s, t : At(b, s) = At(c, t) => b = c
  /\ Span(0, N1) \cap Span(N1, N2) = {}
  /\ Span(0, N1) \cap Span(N1 + N2, N3) = {}
  /\ Span(0, N1) \cap Span(N1 + N2 + N3, N4) = {}
  /\ Span(N1, N2) \cap Span(N1 + N2, N3) = {}
  /\ Span(N1, N2) \cap Span(N1 + N2 + N3, N4) = {}
  /\ Span(N1 + N2, N3) \cap Span(N1 + N2 + N3, N4) = {}
<1>1. ASSUME NEW b \in Int, NEW c \in Int, NEW s, NEW t, At(b, s) = At(c, t)
      PROVE  b = c
  <2>1. PtrOf(b) = PtrOf(c)
    BY <1>1 DEF At
  <2> QED
    BY <2>1, BlockOfPtrOf
<1>2. /\ Span(0, N1) \cap Span(N1, N2) = {}
      /\ Span(0, N1) \cap Span(N1 + N2, N3) = {}
      /\ Span(0, N1) \cap Span(N1 + N2 + N3, N4) = {}
  BY Room DEF Span
<1>3. /\ Span(N1, N2) \cap Span(N1 + N2, N3) = {}
      /\ Span(N1, N2) \cap Span(N1 + N2 + N3, N4) = {}
      /\ Span(N1 + N2, N3) \cap Span(N1 + N2 + N3, N4) = {}
  BY Room DEF Span
<1> QED
  BY <1>1, <1>2, <1>3

(* Every step but startup.s's keeps the registers and what it stored. *)
LEMMA StartStep ==
  ASSUME StartInv, Next
  PROVE  StartInv'
<1> USE DEF StartInv, PCs, Asking, Answered, Startup, Trying, Attempting, Unwinding,
            Goto, bss
<1>1. CASE SetSegments \/ ZeroBss \/ SetHeap \/ SetDev
  BY <1>1 DEF SetSegments, ZeroBss, SetHeap, SetHeapTo, SetDev, Stored
<1>2. CASE AllocPassphrase \/ Cancel \/ Terminate \/ AllocDk \/ AllocCtx \/ ReadSector
  BY <1>2 DEF AllocPassphrase, Cancel, Terminate, TerminateTo, AllocDk, AllocCtx,
     ReadSector, ReadSectorBy
<1>3. CASE AllocSalt \/ Derive \/ FreeSalt \/ XtsInit \/ XtsDecrypt \/ NoSignature
  BY <1>3 DEF AllocSalt, Derive, FreeSalt, Release, XtsInit, XtsDecrypt, NoSignature,
     Continue
<1>4. CASE SwapFields \/ CrcMismatch \/ CrcMatch \/ NoPrfLeft
  BY <1>4 DEF SwapFields, CrcMismatch, Continue, CrcMatch, NoPrfLeft
<1>5. CASE FreeDk \/ FreeCtx \/ FreePassphrase \/ Report
  BY <1>5 DEF FreeDk, FreeCtx, FreePassphrase, Release, Report
<1>6. CASE PressEsc \/ \E l \in Lines : ReadLine(l)
  BY <1>6 DEF PressEsc, ReadLine
<1> QED
  BY <1>1, <1>2, <1>3, <1>4, <1>5, <1>6 DEF Next, Step

(* The heap at the steps where malloc or free is called. *)
LEMMA HeapAt ==
  ASSUME HeapInv
  PROVE  /\ pc = "main" => live = {} /\ used = {}
         /\ pc \in {"cancelled", "try_decrypt", "free_passphrase"} =>
              live = {At(0, maxlen + 1)} /\ used = Span(0, N1)
         /\ pc = "alloc_ctx" =>
              /\ live = {At(0, maxlen + 1), At(N1, dklen)}
              /\ used = Span(0, N1) \cup Span(N1, N2)
         /\ pc \in {"pbkdf2", "free_dk"} =>
              /\ live = {At(0, maxlen + 1), At(N1, dklen), At(N1 + N2, XTS_CTX_SZ)}
              /\ used = Span(0, N1) \cup Span(N1, N2) \cup Span(N1 + N2, N3)
         /\ pc = "free_salt" =>
              /\ live = {At(0, maxlen + 1), At(N1, dklen), At(N1 + N2, XTS_CTX_SZ),
                         At(N1 + N2 + N3, SALT_LEN + 4)}
              /\ used = Span(0, N1) \cup Span(N1, N2) \cup Span(N1 + N2, N3)
                          \cup Span(N1 + N2 + N3, N4)
         /\ pc = "free_ctx" =>
              /\ live = {At(0, maxlen + 1), At(N1 + N2, XTS_CTX_SZ)}
              /\ used = Span(0, N1) \cup Span(N1 + N2, N3)
BY DEF HeapInv, LiveIs, UsedIs, While, HasPassphrase, HasDk, HasCtx, HasSalt,
       Trying, Attempting, Unwinding

LEMMA AllocPassphraseHeap ==
  ASSUME StartInv, HeapInv, AllocPassphrase
  PROVE  HeapInv'
<1>1. pc = "main" /\ pc' = "read_line" /\ live = {} /\ used = Span(0, 0) /\ heap_ptr = heap_base
  BY HeapAt DEF AllocPassphrase, Goto, StartInv, Startup, Span
<1>2. Malloc(maxlen + 1, passphrase') /\ 0 + BlocksFor(maxlen + 1) <= NBlocks
  BY Room DEF AllocPassphrase, N1, PASSPHRASE_SZ
<1>3. maxlen + 1 \in Nat \ {0}
  BY Boot1Assumption
<1>4. /\ passphrase' = PtrOf(0) /\ used' = Span(0, N1)
      /\ live' = {At(0, maxlen + 1)}
  BY <1>1, <1>2, <1>3, MallocOnTop DEF N1, Span
<1> QED
  BY <1>1, <1>4 DEF HeapInv, LiveIs, UsedIs, While, HasPassphrase, HasDk, HasCtx, HasSalt,
     Trying, Attempting, Unwinding

LEMMA AllocDkHeap ==
  ASSUME StartInv, HeapInv, AllocDk
  PROVE  HeapInv'
<1>1. /\ pc = "try_decrypt" /\ pc' = "alloc_ctx" /\ heap_ptr = heap_base
      /\ live = {At(0, maxlen + 1)} /\ used = Span(0, N1) /\ passphrase' = PtrOf(0)
  BY HeapAt DEF AllocDk, Goto, StartInv, Startup, HeapInv, HasPassphrase, Trying
<1>2. Malloc(dklen, dk') /\ N1 + BlocksFor(dklen) <= NBlocks /\ dklen \in Nat \ {0}
  BY Room DEF AllocDk, N2, dklen
<1>3. /\ dk' = PtrOf(N1) /\ used' = Span(0, N1) \cup Span(N1, N2)
      /\ live' = {At(0, maxlen + 1), At(N1, dklen)}
  BY <1>1, <1>2, Room, MallocOnTop DEF N2
<1> QED
  BY <1>1, <1>3 DEF HeapInv, LiveIs, UsedIs, While, HasPassphrase, HasDk, HasCtx, HasSalt,
     Trying, Attempting, Unwinding

LEMMA AllocCtxHeap ==
  ASSUME StartInv, HeapInv, AllocCtx
  PROVE  HeapInv'
<1>1. /\ pc = "alloc_ctx" /\ pc' = "next_prf" /\ heap_ptr = heap_base
      /\ live = {At(0, maxlen + 1), At(N1, dklen)}
      /\ used = Span(0, N1) \cup Span(N1, N2)
      /\ passphrase' = PtrOf(0) /\ dk' = PtrOf(N1)
  BY HeapAt DEF AllocCtx, Goto, StartInv, Startup, HeapInv, HasPassphrase, HasDk, Trying
<1>2. used = Span(0, N1 + N2)
  BY <1>1, OnTop, Room
<1>3. /\ Malloc(XTS_CTX_SZ, xts_ctx') /\ N1 + N2 + BlocksFor(XTS_CTX_SZ) <= NBlocks
      /\ XTS_CTX_SZ \in Nat \ {0}
  BY Room DEF AllocCtx, N3
<1>4. /\ xts_ctx' = PtrOf(N1 + N2)
      /\ used' = Span(0, N1) \cup Span(N1, N2) \cup Span(N1 + N2, N3)
      /\ live' = {At(0, maxlen + 1), At(N1, dklen), At(N1 + N2, XTS_CTX_SZ)}
  BY <1>1, <1>2, <1>3, Room, MallocOnTop DEF N3
<1> QED
  BY <1>1, <1>4 DEF HeapInv, LiveIs, UsedIs, While, HasPassphrase, HasDk, HasCtx, HasSalt,
     Trying, Attempting, Unwinding

LEMMA AllocSaltHeap ==
  ASSUME StartInv, HeapInv, AllocSalt
  PROVE  HeapInv'
<1>1. /\ pc = "pbkdf2" /\ pc' = "derive" /\ heap_ptr = heap_base
      /\ live = {At(0, maxlen + 1), At(N1, dklen), At(N1 + N2, XTS_CTX_SZ)}
      /\ used = Span(0, N1) \cup Span(N1, N2) \cup Span(N1 + N2, N3)
      /\ passphrase' = PtrOf(0) /\ dk' = PtrOf(N1) /\ xts_ctx' = PtrOf(N1 + N2)
  BY HeapAt DEF AllocSalt, Goto, StartInv, Startup, HeapInv, HasPassphrase, HasDk, HasCtx,
     Trying, Attempting
<1>2. used = Span(0, N1 + N2 + N3)
  <2>1. Span(0, N1) \cup Span(N1, N2) = Span(0, N1 + N2)
    BY OnTop, Room
  <2>2. N1 + N2 \in Nat /\ N3 \in Nat
    BY Room
  <2> QED
    BY <1>1, <2>1, <2>2, OnTop
<1>3. /\ Malloc(SALT_LEN + 4, saltp') /\ N1 + N2 + N3 + BlocksFor(SALT_LEN + 4) <= NBlocks
      /\ SALT_LEN + 4 \in Nat \ {0}
  BY Room DEF AllocSalt, N4, SALT_LEN
<1>4. /\ saltp' = PtrOf(N1 + N2 + N3)
      /\ used' = Span(0, N1) \cup Span(N1, N2) \cup Span(N1 + N2, N3)
                   \cup Span(N1 + N2 + N3, N4)
      /\ live' = {At(0, maxlen + 1), At(N1, dklen), At(N1 + N2, XTS_CTX_SZ),
                  At(N1 + N2 + N3, SALT_LEN + 4)}
  BY <1>1, <1>2, <1>3, Room, MallocOnTop DEF N4
<1> QED
  BY <1>1, <1>4 DEF HeapInv, LiveIs, UsedIs, While, HasPassphrase, HasDk, HasCtx, HasSalt,
     Trying, Attempting, Unwinding

(* The salt is on top, but dk and the context are freed from below. *)
LEMMA FreeSaltHeap ==
  ASSUME StartInv, HeapInv, FreeSalt
  PROVE  HeapInv'
<1>1. /\ pc = "free_salt" /\ pc' = "xts" /\ heap_ptr = heap_base
      /\ Free(PtrOf(N1 + N2 + N3), SALT_LEN + 4)
      /\ passphrase' = PtrOf(0) /\ dk' = PtrOf(N1) /\ xts_ctx' = PtrOf(N1 + N2)
  BY DEF FreeSalt, Release, pointers, Goto, StartInv, Startup, HeapInv, HasPassphrase, HasDk,
     HasCtx, HasSalt, Trying, Attempting
<1>2. /\ live' = {At(0, maxlen + 1), At(N1, dklen), At(N1 + N2, XTS_CTX_SZ),
                  At(N1 + N2 + N3, SALT_LEN + 4)} \ {At(N1 + N2 + N3, SALT_LEN + 4)}
      /\ used' = (Span(0, N1) \cup Span(N1, N2) \cup Span(N1 + N2, N3)
                   \cup Span(N1 + N2 + N3, N4)) \ Span(N1 + N2 + N3, N4)
  BY <1>1, Room, FreeTakesAway, HeapAt DEF N4
<1>3. live' = {At(0, maxlen + 1), At(N1, dklen), At(N1 + N2, XTS_CTX_SZ)}
  BY <1>2, FourApart, Room
<1>4. used' = Span(0, N1) \cup Span(N1, N2) \cup Span(N1 + N2, N3)
  BY <1>2, FourApart
<1> QED
  BY <1>1, <1>3, <1>4 DEF HeapInv, LiveIs, UsedIs, While, HasPassphrase, HasDk, HasCtx,
     HasSalt, Trying, Attempting, Unwinding

LEMMA FreeDkHeap ==
  ASSUME StartInv, HeapInv, FreeDk
  PROVE  HeapInv'
<1>1. /\ pc = "free_dk" /\ pc' = "free_ctx" /\ heap_ptr = heap_base
      /\ Free(PtrOf(N1), dklen)
      /\ passphrase' = PtrOf(0) /\ xts_ctx' = PtrOf(N1 + N2)
  BY DEF FreeDk, Release, pointers, Goto, StartInv, Startup, HeapInv, HasPassphrase, HasDk,
     HasCtx, Trying, Unwinding
<1>2. /\ live' = {At(0, maxlen + 1), At(N1, dklen), At(N1 + N2, XTS_CTX_SZ)}
                   \ {At(N1, dklen)}
      /\ used' = (Span(0, N1) \cup Span(N1, N2) \cup Span(N1 + N2, N3)) \ Span(N1, N2)
  BY <1>1, Room, FreeTakesAway, HeapAt DEF N2
<1>3. live' = {At(0, maxlen + 1), At(N1 + N2, XTS_CTX_SZ)}
  BY <1>2, FourApart, Room
<1>4. used' = Span(0, N1) \cup Span(N1 + N2, N3)
  BY <1>2, FourApart
<1> QED
  BY <1>1, <1>3, <1>4 DEF HeapInv, LiveIs, UsedIs, While, HasPassphrase, HasDk, HasCtx,
     HasSalt, Trying, Attempting, Unwinding

LEMMA FreeCtxHeap ==
  ASSUME StartInv, HeapInv, FreeCtx
  PROVE  HeapInv'
<1>1. /\ pc = "free_ctx" /\ pc' = "free_passphrase" /\ heap_ptr = heap_base
      /\ Free(PtrOf(N1 + N2), XTS_CTX_SZ) /\ passphrase' = PtrOf(0)
  BY DEF FreeCtx, Release, pointers, Goto, StartInv, Startup, HeapInv, HasPassphrase, HasCtx,
     Trying, Unwinding
<1>2. /\ live' = {At(0, maxlen + 1), At(N1 + N2, XTS_CTX_SZ)} \ {At(N1 + N2, XTS_CTX_SZ)}
      /\ used' = (Span(0, N1) \cup Span(N1 + N2, N3)) \ Span(N1 + N2, N3)
  BY <1>1, Room, FreeTakesAway, HeapAt DEF N3
<1>3. live' = {At(0, maxlen + 1)}
  BY <1>2, FourApart, Room
<1>4. used' = Span(0, N1)
  BY <1>2, FourApart
<1> QED
  BY <1>1, <1>3, <1>4 DEF HeapInv, LiveIs, UsedIs, While, HasPassphrase, HasDk, HasCtx,
     HasSalt, Trying, Attempting, Unwinding

(* The passphrase goes last, after an attempt or after ESC. *)
LEMMA FreePassphraseHeap ==
  ASSUME StartInv, HeapInv, FreePassphrase \/ Cancel
  PROVE  HeapInv'
<1>1. /\ pc \in {"free_passphrase", "cancelled"} /\ pc' \in {"report", "halt"}
      /\ heap_ptr = heap_base /\ Free(PtrOf(0), maxlen + 1)
  BY DEF FreePassphrase, Cancel, Release, pointers, Goto, StartInv, Startup, HeapInv,
     HasPassphrase, Trying, Unwinding, PASSPHRASE_SZ
<1>2. live' = {} /\ used' = {}
  BY <1>1, FreeTakesAway, HeapAt DEF N1
<1> QED
  BY <1>1, <1>2 DEF HeapInv, LiveIs, UsedIs, While, HasPassphrase, HasDk, HasCtx,
     HasSalt, Trying, Attempting, Unwinding

(* The other steps leave the heap alone. *)
LEMMA HeapStep ==
  ASSUME StartInv, HeapInv, Next
  PROVE  HeapInv'
<1>1. CASE AllocPassphrase \/ AllocDk \/ AllocCtx \/ AllocSalt
  BY <1>1, AllocPassphraseHeap, AllocDkHeap, AllocCtxHeap, AllocSaltHeap
<1>2. CASE FreeSalt \/ FreeDk \/ FreeCtx \/ FreePassphrase \/ Cancel
  BY <1>2, FreeSaltHeap, FreeDkHeap, FreeCtxHeap, FreePassphraseHeap
<1> USE DEF HeapInv, LiveIs, UsedIs, While, HasPassphrase, HasDk, HasCtx, HasSalt,
            Trying, Attempting, Unwinding, Goto, heap, pointers
<1>3. CASE SetSegments \/ ZeroBss \/ SetHeap \/ SetDev
  BY <1>3 DEF SetSegments, ZeroBss, SetHeap, SetHeapTo, SetDev, Stored, StartInv
<1>4. CASE Terminate \/ ReadSector \/ Derive \/ XtsInit \/ XtsDecrypt \/ NoSignature
  BY <1>4 DEF Terminate, TerminateTo, ReadSector, ReadSectorBy, Derive, XtsInit, XtsDecrypt,
     NoSignature, Continue
<1>5. CASE SwapFields \/ CrcMismatch \/ CrcMatch \/ NoPrfLeft \/ Report
  BY <1>5 DEF SwapFields, CrcMismatch, Continue, CrcMatch, NoPrfLeft, Report
<1>6. CASE PressEsc \/ \E l \in Lines : ReadLine(l)
  BY <1>6 DEF PressEsc, ReadLine
<1> QED
  BY <1>1, <1>2, <1>3, <1>4, <1>5, <1>6 DEF Next, Step

-----------------------------------------------------------------------------
(* A set of natural numbers that is not empty has a first one. *)
IsFirst(n, S) == n \in S /\ \A k \in S : n <= k

LEMMA FirstExists ==
  ASSUME NEW S \in SUBSET Nat, S # {}
  PROVE  \E n \in S : IsFirst(n, S)
<1> DEFINE R == {ss \in Nat \X Nat : ss[1] < ss[2]}
<1>1. IsWellFoundedOn(R, Nat)
  BY NatLessThanWellFounded DEF OpToRel
<1>2. PICK n \in S : \A m \in S : ~(<<m, n>> \in R)
  BY <1>1, WFMin
<1>3. ASSUME NEW m \in S
      PROVE  n <= m
  <2>1. m \in Nat /\ n \in Nat
    OBVIOUS
  <2>2. ASSUME m < n
        PROVE  <<m, n>> \in R
    BY <2>1, <2>2
  <2> QED
    BY <1>2, <2>1, <2>2
<1> QED
  BY <1>2, <1>3 DEF IsFirst

(* The string in a buffer ends before its first NUL, if there is one. *)
Nuls(m) == {n \in 1 .. Len(m) : m[n] = NUL}

LEMMA FirstNul ==
  ASSUME NEW m \in Seq(Cell), Nuls(m) # {}
  PROVE  \E n \in 1 .. Len(m) : IsFirst(n, Nuls(m))
<1>1. Len(m) \in Nat
  OBVIOUS
<1>2. Nuls(m) \in SUBSET Nat
  BY <1>1 DEF Nuls
<1>3. PICK n \in Nuls(m) : IsFirst(n, Nuls(m))
  BY <1>2, FirstExists
<1> QED
  BY <1>3 DEF Nuls

LEMMA CStringIs ==
  ASSUME NEW m \in Seq(Cell)
  PROVE  /\ Nuls(m) = {} => CString(m) = m
         /\ \A n \in Nat : IsFirst(n, Nuls(m)) => CString(m) = SubSeq(m, 1, n - 1)
<1>1. CASE Nuls(m) = {}
  BY <1>1 DEF CString, Nuls, IsFirst
<1>2. ASSUME NEW n \in Nat, IsFirst(n, Nuls(m))
      PROVE  CString(m) = SubSeq(m, 1, n - 1)
  <2> DEFINE c == CHOOSE k \in Nuls(m) : \A j \in Nuls(m) : k <= j
  <2>1. c \in Nuls(m) /\ \A j \in Nuls(m) : c <= j
    BY <1>2 DEF IsFirst
  <2>2. c \in Nat /\ c = n
    BY <1>2, <2>1 DEF IsFirst, Nuls
  <2>3. Nuls(m) # {}
    BY <1>2 DEF IsFirst
  <2>4. CString(m) = SubSeq(m, 1, c - 1)
    BY <2>3 DEF CString, Nuls
  <2> QED
    BY <2>2, <2>4
<1> QED
  BY <1>1, <1>2 DEF IsFirst

LEMMA CStringType ==
  ASSUME NEW m \in Seq(Cell)
  PROVE  CString(m) \in Seq(Cell)
<1>1. CASE Nuls(m) = {}
  BY <1>1, CStringIs
<1>2. CASE Nuls(m) # {}
  <2>1. PICK n \in 1 .. Len(m) : IsFirst(n, Nuls(m))
    BY <1>2, FirstNul
  <2>2. Len(m) \in Nat /\ n \in Nat
    OBVIOUS
  <2>3. CString(m) = SubSeq(m, 1, n - 1)
    BY <2>1, <2>2, CStringIs
  <2>4. \A i \in 1 .. n - 1 : m[i] \in Cell
    BY <2>2
  <2> QED
    BY <2>2, <2>3, <2>4, SubSeqProperties
<1> QED
  BY <1>1, <1>2

(* The NUL that main stores behind a line makes the buffer a string equal  *)
(* to the line, or to what of it is before a NUL of its own.               *)
LEMMA CStringOfLine ==
  ASSUME NEW l \in Lines, NEW m \in Seq(Cell), Len(l) < Len(m),
         \A n \in 1 .. Len(l) : m[n] = l[n],
         m[Len(l) + 1] = NUL
  PROVE  CString(m) = CString(l)
<1>1. l \in Seq(Cell) /\ Len(l) \in Nat /\ Len(m) \in Nat
  BY Boot1Assumption DEF Cell
<1>2. Nuls(l) \subseteq Nuls(m) /\ Len(l) + 1 \in Nuls(m)
  BY <1>1 DEF Nuls
<1>3. PICK n \in 1 .. Len(m) : IsFirst(n, Nuls(m))
  BY <1>2, FirstNul
<1>4. n \in 1 .. Len(l) + 1 /\ m[n] = NUL /\ \A k \in Nuls(m) : n <= k
  BY <1>1, <1>2, <1>3 DEF IsFirst, Nuls
<1>5. CString(m) = SubSeq(m, 1, n - 1)
  BY <1>3, <1>4, CStringIs
<1>6. SubSeq(m, 1, n - 1) = SubSeq(l, 1, n - 1)
  BY <1>1, <1>4, SubSeqProperties
<1>7. CASE n = Len(l) + 1
  <2>1. Nuls(l) = {}
    BY <1>1, <1>2, <1>4, <1>7 DEF Nuls
  <2>2. SubSeq(l, 1, Len(l)) = l
    BY <1>1, SubSeqFull
  <2> QED
    BY <1>1, <1>5, <1>6, <1>7, <2>1, <2>2, CStringIs
<1>8. CASE n <= Len(l)
  <2>1. n \in Nuls(l)
    BY <1>1, <1>4, <1>8 DEF Nuls
  <2>2. IsFirst(n, Nuls(l))
    BY <1>2, <1>4, <2>1 DEF IsFirst
  <2> QED
    BY <1>1, <1>4, <1>5, <1>6, <2>2, CStringIs
<1> QED
  BY <1>1, <1>4, <1>7, <1>8

-----------------------------------------------------------------------------
LEMMA LineFacts ==
  ASSUME NEW l \in Lines
  PROVE  /\ l # Cancelled
         /\ Len(l) \in 0 .. maxlen
         /\ \A n \in 1 .. Len(l) : l[n] \in Cell
<1>1. l \in Seq(Chars) /\ Len(l) <= maxlen /\ "ESC" \notin Chars
  BY Boot1Assumption
<1>2. \A n \in 1 .. Len(l) : l[n] \in Chars
  BY <1>1
<1>3. l # Cancelled
  <2>1. Len(Cancelled) = 1 /\ Cancelled[1] = "ESC"
    BY DEF Cancelled
  <2> QED
    BY <1>1, <1>2, <2>1
<1> QED
  BY <1>1, <1>2, <1>3, Boot1Assumption DEF Cell

LEMMA MemIsSeq ==
  ASSUME NEW m \in [1 .. maxlen + 1 -> Cell]
  PROVE  m \in Seq(Cell) /\ Len(m) = maxlen + 1
BY Boot1Assumption

LEMMA TerminateAnswer ==
  ASSUME AnswerInv, Terminate
  PROVE  AnswerInv'
<1>1. /\ pc = "terminate" /\ pc' = "try_decrypt" /\ answer' = answer
      /\ mem \in [1 .. maxlen + 1 -> Cell]
      /\ \A l \in answer : \A n \in 1 .. Len(l) : mem[n] = l[n]
  BY DEF Terminate, TerminateTo, Goto, AnswerInv
<1>2. PICK l \in Lines : answer = {l}
  BY <1>1 DEF AnswerInv, Answered
<1>3. mem' = [mem EXCEPT ![Len(l) + 1] = NUL]
  BY <1>2 DEF Terminate, TerminateTo
<1>4. Len(l) \in 0 .. maxlen /\ maxlen \in Nat
  BY LineFacts, Boot1Assumption
<1>5. /\ mem' \in [1 .. maxlen + 1 -> Cell]
      /\ mem'[Len(l) + 1] = NUL
      /\ \A n \in 1 .. Len(l) : mem'[n] = l[n]
  BY <1>1, <1>2, <1>3, <1>4 DEF Cell
<1>6. CString(mem') = CString(l)
  BY <1>4, <1>5, MemIsSeq, CStringOfLine
<1>7. CString(mem)' = CString(mem')
  BY DEF CString
<1> QED
  BY <1>1, <1>2, <1>5, <1>6, <1>7 DEF AnswerInv, Answered, Asking, Startup, Trying, Attempting,
     Unwinding

LEMMA ReadLineAnswer ==
  ASSUME AnswerInv, NEW l \in Lines, ReadLine(l)
  PROVE  AnswerInv'
<1>1. /\ pc' = "terminate" /\ answer' = {l} /\ mem \in [1 .. maxlen + 1 -> Cell]
      /\ mem' = [n \in 1 .. maxlen + 1 |-> IF n <= Len(l) THEN l[n] ELSE mem[n]]
  BY DEF ReadLine, Goto, AnswerInv
<1>2. Len(l) \in 0 .. maxlen /\ maxlen \in Nat /\ \A n \in 1 .. Len(l) : l[n] \in Cell
  BY LineFacts, Boot1Assumption
<1>3. mem' \in [1 .. maxlen + 1 -> Cell] /\ \A n \in 1 .. Len(l) : mem'[n] = l[n]
  BY <1>1, <1>2
<1> QED
  BY <1>1, <1>3 DEF AnswerInv, Answered, Asking, Startup, Trying, Attempting, Unwinding

LEMMA SameString == UNCHANGED mem => CString(mem)' = CString(mem)
BY DEF CString

LEMMA AnswerStep ==
  ASSUME AnswerInv, Next
  PROVE  AnswerInv'
<1>1. CASE Terminate
  BY <1>1, TerminateAnswer
<1>2. ASSUME NEW l \in Lines, ReadLine(l)
      PROVE  AnswerInv'
  BY <1>2, ReadLineAnswer
<1> USE DEF AnswerInv, Asking, Answered, Startup, Trying, Attempting, Unwinding,
            Goto, secrets
<1>3. CASE SetSegments \/ ZeroBss \/ SetHeap \/ SetDev \/ AllocPassphrase \/ PressEsc
  BY <1>3, SameString DEF SetSegments, ZeroBss, SetHeap, SetHeapTo, SetDev, AllocPassphrase, PressEsc
<1>4. CASE Cancel \/ AllocDk \/ AllocCtx \/ ReadSector \/ AllocSalt \/ Derive
  BY <1>4, SameString DEF Cancel, AllocDk, AllocCtx, ReadSector, ReadSectorBy, AllocSalt, Derive
<1>5. CASE FreeSalt \/ XtsInit \/ XtsDecrypt \/ NoSignature \/ SwapFields
  BY <1>5, SameString DEF FreeSalt, Release, XtsInit, XtsDecrypt, NoSignature, Continue, SwapFields
<1>6. CASE CrcMismatch \/ CrcMatch \/ NoPrfLeft
  BY <1>6, SameString DEF CrcMismatch, Continue, CrcMatch, NoPrfLeft
<1>7. CASE FreeDk \/ FreeCtx \/ FreePassphrase \/ Report
  BY <1>7, SameString DEF FreeDk, FreeCtx, FreePassphrase, Release, Report
<1> QED
  BY <1>1, <1>2, <1>3, <1>4, <1>5, <1>6, <1>7 DEF Next, Step

-----------------------------------------------------------------------------
(* Decryption takes a layer off or puts one on, that no key takes off. *)
Layers == [op : {"enc", "dec"}, key : Keys]

LEMMA DecryptedIs ==
  ASSUME NEW enc \in Seq(Layers), NEW k \in Keys
  PROVE  /\ Decrypted(enc, k) \in Seq(Layers)
         /\ enc # <<>> /\ Head(enc) = Layer("enc", k) => Decrypted(enc, k) = Tail(enc)
         /\ enc = <<>> \/ Head(enc) # Layer("enc", k) =>
              Decrypted(enc, k) # <<>> /\ Head(Decrypted(enc, k)).op = "dec"
<1>1. Layer("dec", k) \in Layers
  BY DEF Layer, Layers
<1>2. CASE enc # <<>> /\ Head(enc) = Layer("enc", k)
  BY <1>2, HeadTailProperties DEF Decrypted
<1>3. CASE enc = <<>> \/ Head(enc) # Layer("enc", k)
  <2> DEFINE one == <<Layer("dec", k)>>
  <2>1. Decrypted(enc, k) = one \o enc
    BY <1>3 DEF Decrypted
  <2>2. one \in Seq(Layers) /\ Len(one) = 1 /\ one[1] = Layer("dec", k)
    BY <1>1
  <2>3. /\ one \o enc \in Seq(Layers)
        /\ Len(one \o enc) = 1 + Len(enc) /\ (one \o enc)[1] = Layer("dec", k)
    BY <2>2, ConcatProperties
  <2>4. one \o enc # <<>> /\ Head(one \o enc) = Layer("dec", k)
    BY <2>3
  <2> QED
    BY <1>3, <2>1, <2>3, <2>4 DEF Layer
<1> QED
  BY <1>2, <1>3

LEMMA FreshHeaderIs ==
  ASSUME NEW v \in Volumes
  PROVE  /\ OnDisk(v) \in Headers
         /\ OnDisk(v).salt = "disk" /\ OnDisk(v).swapped = FALSE
         /\ OnDisk(v).enc # <<>>
         /\ Head(OnDisk(v).enc) = Layer("enc", Key("disk", v.pass, v.prf))
         /\ Tail(OnDisk(v).enc) = <<>>
<1> DEFINE layer == Layer("enc", Key("disk", v.pass, v.prf))
<1>1. v.pass \in Passes \cup Seq(Cell) /\ v.prf \in Nat
  <2>1. <<>> \in Seq(Cell)
    OBVIOUS
  <2>2. CASE v \in [pass : Passes, prf : 1 .. NPrfs, sound : BOOLEAN]
    BY <2>2, Boot1Assumption
  <2>3. CASE v = [pass |-> <<>>, prf |-> 0, sound |-> FALSE]
    BY <2>1, <2>3
  <2> QED
    BY <2>2, <2>3 DEF Volumes
<1>2. layer \in Layers
  BY <1>1 DEF Layer, Layers, Key, Keys
<1>3. <<layer>> \in Seq(Layers) /\ <<layer>> # <<>> /\ Head(<<layer>>) = layer
      /\ Tail(<<layer>>) = <<>>
  BY <1>2
<1> QED
  BY <1>3 DEF OnDisk, Headers, Layers

LEMMA JunkIs ==
  ASSUME NEW s \in {"junk", "zero", "other"}
  PROVE  /\ NoKey \in Keys
         /\ Junk(s) \in Headers
         /\ Head(Junk(s).enc).key = NoKey
<1>1. NoKey \in Keys
  BY DEF NoKey, Key, Keys
<1>2. <<Layer("enc", NoKey)>> \in Seq(Layers) /\ Head(<<Layer("enc", NoKey)>>).key = NoKey
  BY <1>1 DEF Layer, Layers
<1> QED
  BY <1>1, <1>2 DEF Junk, Headers, Layers

LEMMA AttemptKeyType ==
  ASSUME AnswerInv, HeaderInv, AttemptInv
  PROVE  AttemptKey \in Keys
<1>1. CString(mem) \in Seq(Cell)
  BY MemIsSeq, CStringType DEF AnswerInv
<1>2. hdr.salt \in {"disk", "junk", "zero", "other"} /\ prf \in Nat
  BY Boot1Assumption DEF HeaderInv, Headers, AttemptInv
<1> QED
  BY <1>1, <1>2 DEF AttemptKey, Key, Keys

(* A header that was read is the disk's; one that was not is spent. *)
LEMMA ReadSectorHeader ==
  ASSUME StartInv, HeaderInv, AttemptInv, ReadSector
  PROVE  HeaderInv'
<1>1. /\ pc = "next_prf" /\ pc' = "pbkdf2" /\ ReadHeader
      /\ UNCHANGED <<volume, mem, dkey, ckey, prf>>
      /\ biosdev = boot_drive /\ prf \notin unread /\ Spent /\ volume \in Volumes
      /\ hdr \in Headers /\ dkey \in Keys /\ ckey \in Keys
  BY DEF ReadSector, ReadSectorBy, Goto, StartInv, Startup, HeaderInv, AttemptInv, secrets
<1>2. CASE hdr' = OnDisk(volume) /\ unread' = unread
  <2>1. hdr' \in Headers
    BY <1>1, <1>2, FreshHeaderIs
  <2> QED
    BY <1>1, <1>2, <2>1 DEF HeaderInv, Undecided, Asking, Startup
<1>3. CASE hdr' \in {hdr, Junk("junk")} /\ unread' = unread \cup {prf}
  <2>1. hdr' \in Headers
    BY <1>1, <1>3, JunkIs
  <2>2. Spent'
    BY <1>1, <1>3, JunkIs DEF Spent
  <2> QED
    BY <1>1, <1>3, <2>1, <2>2 DEF HeaderInv, Undecided, Asking, Startup
<1> QED
  BY <1>1, <1>2, <1>3 DEF ReadHeader

(* The key of an attempt takes the layer off a header that was read and    *)
(* made with it, and off no other.                                         *)
LEMMA XtsDecryptHeader ==
  ASSUME AnswerInv, HeaderInv, AttemptInv, XtsDecrypt
  PROVE  HeaderInv'
<1>1. /\ pc = "decrypt" /\ pc' = "check"
      /\ UNCHANGED <<volume, mem, dkey, prf, unread>>
      /\ hdr' = [hdr EXCEPT !.enc = Decrypted(hdr.enc, ckey)]
      /\ ckey' = NoKey /\ NoKey \in Keys
      /\ ckey = AttemptKey /\ prf \in 1 .. NPrfs + 1
      /\ IF prf \in unread THEN Spent ELSE hdr = OnDisk(volume)
      /\ hdr \in Headers /\ dkey \in Keys /\ volume \in Volumes
  BY JunkIs DEF XtsDecrypt, Goto, HeaderInv, AttemptInv
<1>2. /\ ckey \in Keys /\ ckey.prf = prf /\ ckey.pass = CString(mem)
      /\ ckey # NoKey /\ ckey.salt = hdr.salt
  BY <1>1, AttemptKeyType DEF AttemptKey, Key, NoKey
<1>3. hdr.enc \in Seq(Layers)
  BY <1>1 DEF Headers, Layers
<1>4. /\ hdr' \in Headers
      /\ hdr'.enc = Decrypted(hdr.enc, ckey)
      /\ hdr'.salt = hdr.salt /\ hdr'.swapped = hdr.swapped
  BY <1>1, <1>2, <1>3, DecryptedIs DEF Headers, Layers
<1>5. CString(mem)' = CString(mem)
  BY <1>1, SameString
<1>6. CASE prf \in unread
  <2>1. hdr.enc = <<>> \/ Head(hdr.enc) # Layer("enc", ckey)
    BY <1>1, <1>2, <1>6 DEF Spent, Layer
  <2>2. hdr'.enc # <<>> /\ Head(hdr'.enc).op = "dec"
    BY <1>2, <1>3, <1>4, <2>1, DecryptedIs
  <2> QED
    BY <1>1, <1>4, <1>5, <1>6, <2>2 DEF HeaderInv, Spent, Decoded
<1>7. CASE prf \notin unread
  <2>1. /\ hdr.enc # <<>> /\ hdr.salt = "disk" /\ hdr.swapped = FALSE
        /\ Head(hdr.enc) = Layer("enc", Key("disk", volume.pass, volume.prf))
        /\ Tail(hdr.enc) = <<>>
    BY <1>1, <1>7, FreshHeaderIs
  <2>2. Head(hdr.enc) = Layer("enc", ckey) <=> Decoded
    BY <1>1, <1>2, <1>7, <2>1 DEF Layer, Key, AttemptKey, Decoded
  <2>3. hdr'.enc = <<>> \/ Head(hdr'.enc).op = "dec"
    BY <1>2, <1>3, <1>4, <2>1, DecryptedIs
  <2>4. hdr'.enc = <<>> <=> Decoded
    BY <1>2, <1>3, <1>4, <2>1, <2>2, DecryptedIs
  <2>5. Decoded' <=> Decoded
    BY <1>1, <1>5 DEF Decoded
  <2>6. hdr'.salt = "disk" /\ hdr'.swapped = (pc' = "crc")
    BY <1>1, <1>4, <2>1
  <2> QED
    BY <1>1, <1>4, <2>3, <2>4, <2>5, <2>6 DEF HeaderInv, Spent
<1> QED
  BY <1>6, <1>7

LEMMA HeaderStep ==
  ASSUME StartInv, AnswerInv, HeaderInv, AttemptInv, Next
  PROVE  HeaderInv'
<1>1. CASE ReadSector \/ XtsDecrypt
  BY <1>1, ReadSectorHeader, XtsDecryptHeader
<1> USE DEF HeaderInv, Undecided, Asking, Startup, Goto
<1>2. CASE SetSegments \/ ZeroBss \/ SetHeap \/ SetDev
  BY <1>2, JunkIs DEF SetSegments, ZeroBss, SetHeap, SetHeapTo, SetDev, Stored, secrets, attempt,
     Spent
<1>3. CASE Derive
  <2>1. /\ pc = "derive" /\ pc' = "free_salt" /\ dkey' = AttemptKey
        /\ UNCHANGED <<volume, mem, ckey, hdr, prf, unread>>
    BY <1>3 DEF Derive, AttemptKey, attempt
  <2>2. AttemptKey' = AttemptKey
    BY <2>1, SameString DEF AttemptKey
  <2> QED
    BY <2>1, <2>2, AttemptKeyType DEF Spent
<1>4. CASE XtsInit
  <2>1. /\ pc = "xts" /\ pc' = "decrypt" /\ ckey' = dkey
        /\ UNCHANGED <<volume, mem, dkey, hdr, prf, unread>>
    BY <1>4 DEF XtsInit, attempt
  <2>2. AttemptKey' = AttemptKey
    BY <2>1, SameString DEF AttemptKey
  <2> QED
    BY <2>1, <2>2 DEF Spent
<1>5. CASE SwapFields
  <2>1. /\ pc = "check" /\ pc' = "crc" /\ hdr' = [hdr EXCEPT !.swapped = ~hdr.swapped]
        /\ UNCHANGED <<volume, mem, dkey, ckey, prf, unread>>
    BY <1>5 DEF SwapFields, secrets
  <2>2. hdr' \in Headers /\ hdr'.enc = hdr.enc /\ hdr'.salt = hdr.salt
        /\ hdr'.swapped = ~hdr.swapped
    BY <2>1 DEF Headers
  <2>3. Decoded' <=> Decoded
    BY <2>1, SameString DEF Decoded
  <2> QED
    BY <2>1, <2>2, <2>3 DEF Spent, Headers
<1>6. CASE AllocPassphrase \/ PressEsc \/ Cancel \/ Terminate \/ AllocDk \/ AllocCtx
  BY <1>6 DEF AllocPassphrase, PressEsc, Cancel, Terminate, TerminateTo, AllocDk, AllocCtx,
     secrets, attempt, Spent
<1>7. ASSUME NEW l \in Lines, ReadLine(l)
      PROVE  HeaderInv'
  BY <1>7 DEF ReadLine, attempt, Spent
<1>8. CASE AllocSalt \/ FreeSalt
  <2>1. /\ UNCHANGED <<volume, mem, dkey, ckey, hdr, prf, unread>>
        /\ pc \in {"pbkdf2", "free_salt"}
        /\ pc' = IF pc = "pbkdf2" THEN "derive" ELSE "xts"
    BY <1>8 DEF AllocSalt, FreeSalt, Release, secrets, attempt
  <2>2. AttemptKey' = AttemptKey
    BY <2>1, SameString DEF AttemptKey
  <2> QED
    BY <2>1, <2>2 DEF Spent
<1>9. CASE NoSignature \/ CrcMismatch \/ CrcMatch \/ NoPrfLeft
  BY <1>9 DEF NoSignature, CrcMismatch, Continue, CrcMatch, NoPrfLeft, secrets, attempt, Spent
<1>10. CASE FreeDk \/ FreeCtx \/ FreePassphrase \/ Report
  BY <1>10 DEF FreeDk, FreeCtx, FreePassphrase, Release, Report, secrets, attempt, Spent
<1> QED
  BY <1>1, <1>2, <1>3, <1>4, <1>5, <1>6, <1>7, <1>8, <1>9, <1>10 DEF Next, Step

-----------------------------------------------------------------------------
LEMMA VolumeIs ==
  ASSUME NEW v \in Volumes
  PROVE  v.prf \in 0 .. NPrfs /\ (v.prf < 1 => v.sound = FALSE)
<1>1. CASE v \in [pass : Passes, prf : 1 .. NPrfs, sound : BOOLEAN]
  BY <1>1, Boot1Assumption
<1>2. CASE v = [pass |-> <<>>, prf |-> 0, sound |-> FALSE]
  BY <1>2, Boot1Assumption
<1> QED
  BY <1>1, <1>2 DEF Volumes

LEMMA SameOpening ==
  UNCHANGED <<volume, mem, unread>> => (Opening' <=> Opening)
BY SameString DEF Opening

(* The attempts begin with none behind them, and a volume has an entry. *)
LEMMA FirstAttempt ==
  ASSUME AttemptInv, AllocCtx
  PROVE  AttemptInv'
<1>1. /\ pc = "alloc_ctx" /\ pc' = "next_prf"
      /\ UNCHANGED <<volume, mem, prf, ret, unread, verdict>>
      /\ volume \in Volumes /\ prf = 1 /\ unread = {} /\ ret = -1 /\ verdict = "none"
  BY DEF AllocCtx, Goto, AttemptInv, Undecided, secrets, attempt
<1>2. volume.prf < prf => ~Opening
  BY <1>1, VolumeIs DEF Opening
<1> QED
  BY <1>1, <1>2, SameOpening, Boot1Assumption
  DEF AttemptInv, Undecided, Asking, Startup, Attempting, Unwinding

LEMMA ReadSectorAttempt ==
  ASSUME AttemptInv, ReadSector
  PROVE  AttemptInv'
<1>1. /\ pc = "next_prf" /\ pc' = "pbkdf2" /\ prf <= NPrfs
      /\ UNCHANGED <<volume, mem, prf, ret, verdict>>
      /\ unread' \in {unread, unread \cup {prf}}
      /\ volume.prf < prf => ~Opening
  BY DEF ReadSector, ReadSectorBy, ReadHeader, Goto, AttemptInv, secrets, Attempting
<1>2. Opening' => Opening
  BY <1>1, SameString DEF Opening
<1> QED
  BY <1>1, <1>2, Boot1Assumption
  DEF AttemptInv, Undecided, Asking, Startup, Attempting, Unwinding

(* The comparison with the signature sees it. *)
LEMMA Compares == AH = 0
<1> DEFINE d == 256
<1>1. d \in Nat \ {0} /\ AX = 0
  BY DEF AX
<1> HIDE DEF d
<1>2. 0 \div d = 0
  BY <1>1
<1> QED
  BY <1>1, <1>2 DEF AH, d

(* An attempt that goes on to the next was not the one that opens. *)
LEMMA ContinueAttempt ==
  ASSUME HeaderInv, AttemptInv, NoSignature \/ CrcMismatch
  PROVE  AttemptInv'
<1>1. /\ pc \in {"check", "crc"} /\ pc' = "next_prf" /\ prf' = prf + 1
      /\ UNCHANGED <<volume, mem, ret, unread, verdict>>
      /\ prf \in 1 .. NPrfs /\ unread \subseteq 1 .. prf /\ ret = -1 /\ verdict = "none"
      /\ volume \in Volumes
      /\ volume.prf < prf => ~Opening
  BY Boot1Assumption DEF NoSignature, CrcMismatch, Continue, Goto, AttemptInv, secrets, Attempting
<1>2. volume.prf = prf => ~Opening
  <2>1. CASE NoSignature
    <3>1. hdr.enc # <<>> /\ pc = "check"
      BY <2>1, Compares DEF NoSignature, Continue, Goto
    <3> QED
      BY <3>1 DEF HeaderInv, Decoded, Opening
  <2>2. CASE CrcMismatch
    <3>1. ~KeysCrc /\ pc = "crc"
      BY <2>2 DEF CrcMismatch, Continue, Goto
    <3>2. ASSUME Decoded, volume.sound
          PROVE  FALSE
      BY <3>1, <3>2 DEF HeaderInv, Decoded, KeysCrc
    <3> QED
      BY <3>2 DEF Decoded, Opening
  <2> QED
    BY <2>1, <2>2
<1>3. volume.prf < prf + 1 => ~Opening
  <2>1. volume.prf \in 0 .. NPrfs
    BY <1>1, VolumeIs
  <2>2. volume.prf < prf + 1 => volume.prf < prf \/ volume.prf = prf
    BY <1>1, <2>1, Boot1Assumption
  <2> QED
    BY <1>1, <1>2, <2>2
<1>4. prf + 1 \in 1 .. NPrfs + 1 /\ unread \subseteq 1 .. prf + 1 /\ prf + 1 \notin unread
  BY <1>1, Boot1Assumption
<1> QED
  BY <1>1, <1>3, <1>4, SameOpening
  DEF AttemptInv, Undecided, Asking, Startup, Attempting, Unwinding

(* The attempt that ends the loop opened the header, and rightly. *)
LEMMA CrcMatchAttempt ==
  ASSUME HeaderInv, AttemptInv, CrcMatch
  PROVE  AttemptInv'
<1>1. /\ pc = "crc" /\ pc' = "free_dk" /\ KeysCrc /\ ret' = 0
      /\ UNCHANGED <<volume, mem, hdr, prf, unread, verdict>>
  BY DEF CrcMatch, Goto, secrets
<1>2. Decoded /\ hdr.salt = "disk" /\ hdr.swapped = TRUE /\ hdr.enc = <<>> /\ volume.sound
  BY <1>1 DEF HeaderInv, KeysCrc, Decoded
<1>3. Opening /\ Plain
  BY <1>2 DEF Decoded, Opening, Plain, HeaderInv, Headers
<1>4. Opening' /\ Plain'
  BY <1>1, <1>3, SameOpening DEF Plain
<1> QED
  BY <1>1, <1>4
  DEF AttemptInv, Undecided, Asking, Startup, Attempting, Unwinding

LEMMA NoPrfLeftAttempt ==
  ASSUME AttemptInv, NoPrfLeft
  PROVE  AttemptInv'
<1>1. /\ pc = "next_prf" /\ pc' = "free_dk" /\ prf > NPrfs
      /\ UNCHANGED <<volume, mem, hdr, prf, ret, unread, verdict>>
      /\ volume \in Volumes /\ prf \in 1 .. NPrfs + 1 /\ ret = -1
      /\ volume.prf < prf => ~Opening
  BY DEF NoPrfLeft, Goto, secrets, attempt, AttemptInv, Attempting
<1>2. ~Opening'
  <2>1. volume.prf \in 0 .. NPrfs
    BY <1>1, VolumeIs
  <2>2. volume.prf < prf
    BY <1>1, <2>1, Boot1Assumption
  <2> QED
    BY <1>1, <2>2, SameOpening
<1> QED
  BY <1>1, <1>2
  DEF AttemptInv, Undecided, Asking, Startup, Attempting, Unwinding

LEMMA AttemptStep ==
  ASSUME HeaderInv, AttemptInv, Next
  PROVE  AttemptInv'
<1>1. CASE AllocCtx \/ ReadSector \/ NoSignature \/ CrcMismatch \/ CrcMatch \/ NoPrfLeft
  BY <1>1, FirstAttempt, ReadSectorAttempt, ContinueAttempt, CrcMatchAttempt, NoPrfLeftAttempt
<1> USE DEF AttemptInv, Undecided, Asking, Startup, Attempting, Unwinding, Goto,
            secrets, attempt
<1>2. CASE SetSegments \/ ZeroBss \/ SetHeap \/ SetDev
  BY <1>2 DEF SetSegments, ZeroBss, SetHeap, SetHeapTo, SetDev
<1>3. CASE AllocPassphrase \/ PressEsc \/ Cancel \/ Terminate \/ AllocDk
  BY <1>3 DEF AllocPassphrase, PressEsc, Cancel, Terminate, TerminateTo, AllocDk
<1>4. ASSUME NEW l \in Lines, ReadLine(l)
      PROVE  AttemptInv'
  BY <1>4 DEF ReadLine
<1>5. CASE AllocSalt \/ Derive \/ FreeSalt \/ XtsInit \/ XtsDecrypt \/ SwapFields
  BY <1>5, SameOpening DEF AllocSalt, Derive, FreeSalt, Release, XtsInit, XtsDecrypt, SwapFields
<1>6. CASE FreeDk \/ FreeCtx \/ FreePassphrase \/ Report
  BY <1>6, SameOpening DEF FreeDk, FreeCtx, FreePassphrase, Release, Report, Plain
<1> QED
  BY <1>1, <1>2, <1>3, <1>4, <1>5, <1>6 DEF Next, Step

-----------------------------------------------------------------------------
(* The message printed at the end says how the attempts went. *)
LEMMA ReportVerdict ==
  ASSUME AnswerInv, AttemptInv, Report
  PROVE  (VerdictRight /\ OpenedIsPlain)'
<1>1. /\ pc = "report" /\ pc' = "halt"
      /\ verdict' = IF ret < 0 THEN "refused" ELSE "opened"
      /\ UNCHANGED <<volume, answer, mem, hdr, prf, unread>>
      /\ IF Opening THEN ret = 0 /\ Plain ELSE ret = -1
  BY DEF Report, Goto, secrets, attempt, AttemptInv
<1>2. PICK l \in Lines : answer = {l}
  BY <1>1 DEF AnswerInv, Answered
<1>3. CString(mem) = CString(l) /\ answer # {Cancelled}
  BY <1>1, <1>2, LineFacts DEF AnswerInv, Answered
<1>4. Opening <=> volume.prf \notin unread /\ \E x \in answer : Opens(volume, x)
  BY <1>2, <1>3 DEF Opening, Opens
<1>5. verdict' = IF Opening THEN "opened" ELSE "refused"
  BY <1>1
<1>6. OpenedIsPlain'
  BY <1>1, <1>5 DEF OpenedIsPlain, Plain
<1>7. VerdictRight'
  BY <1>1, <1>3, <1>4, <1>5 DEF VerdictRight, Opens
<1> QED
  BY <1>6, <1>7

LEMMA VerdictStep ==
  ASSUME AnswerInv, AttemptInv, AttemptInv', Next
  PROVE  (VerdictRight /\ OpenedIsPlain)'
<1>1. CASE Report
  BY <1>1, ReportVerdict
<1>2. CASE Cancel
  BY <1>2 DEF Cancel, Goto, VerdictRight, OpenedIsPlain, AnswerInv
<1>3. CASE ~(Report \/ Cancel)
  <2>1. pc' # "halt"
    <3>1. CASE SetSegments \/ ZeroBss \/ SetHeap \/ SetDev \/ AllocPassphrase \/ PressEsc
      BY <3>1 DEF SetSegments, ZeroBss, SetHeap, SetHeapTo, SetDev, AllocPassphrase, PressEsc,
         Goto
    <3>2. CASE Terminate \/ AllocDk \/ AllocCtx \/ ReadSector \/ AllocSalt \/ Derive \/ FreeSalt
      BY <3>2 DEF Terminate, TerminateTo, AllocDk, AllocCtx, ReadSector, ReadSectorBy, AllocSalt,
         Derive, FreeSalt, Release, Goto
    <3>3. CASE XtsInit \/ XtsDecrypt \/ NoSignature \/ SwapFields \/ CrcMismatch \/ CrcMatch
      BY <3>3 DEF XtsInit, XtsDecrypt, NoSignature, Continue, SwapFields, CrcMismatch, CrcMatch,
         Goto
    <3>4. CASE NoPrfLeft \/ FreeDk \/ FreeCtx \/ FreePassphrase
      BY <3>4 DEF NoPrfLeft, FreeDk, FreeCtx, FreePassphrase, Release, Goto
    <3>5. ASSUME NEW l \in Lines, ReadLine(l)
          PROVE  pc' # "halt"
      BY <3>5 DEF ReadLine, Goto
    <3> QED
      BY <1>3, <3>1, <3>2, <3>3, <3>4, <3>5 DEF Next, Step
  <2>2. verdict' = "none"
    BY <2>1 DEF AttemptInv
  <2> QED
    BY <2>1, <2>2 DEF VerdictRight, OpenedIsPlain
<1> QED
  BY <1>1, <1>2, <1>3

LEMMA InitIndInv ==
  ASSUME Init
  PROVE  IndInv
<1>1. StartInv
  BY DEF Init, StartInv, PCs, Asking, Startup
<1>2. HeapInv
  BY DEF Init, HeapInv, LiveIs, While, HasPassphrase, HasDk, HasCtx, HasSalt, Trying, Attempting,
     Unwinding
<1>3. AnswerInv
  BY DEF Init, AnswerInv, Asking, Answered, Startup, Trying, Attempting, Unwinding, Cell
<1>4. HeaderInv
  BY JunkIs DEF Init, HeaderInv, Undecided, Asking, Startup, Spent
<1>5. AttemptInv
  BY Boot1Assumption
  DEF Init, AttemptInv, Undecided, Asking, Startup, Attempting, Unwinding
<1>6. VerdictRight /\ OpenedIsPlain
  BY DEF Init, VerdictRight, OpenedIsPlain
<1> QED
  BY <1>1, <1>2, <1>3, <1>4, <1>5, <1>6 DEF IndInv

LEMMA StutterIndInv ==
  ASSUME IndInv, UNCHANGED vars
  PROVE  IndInv'
<1>1. UNCHANGED <<volume, pc, segment, heap_ptr, biosdev, used, live, answer, passphrase, dk,
                  xts_ctx, saltp, mem, dkey, ckey, hdr, prf, ret, unread, verdict>>
  BY DEF vars, bss, heap, pointers, secrets, attempt
<1>2. StartInv'
  BY <1>1 DEF IndInv, StartInv
<1>3. HeapInv'
  BY <1>1 DEF IndInv, HeapInv, LiveIs, UsedIs, While
<1>4. AnswerInv'
  BY <1>1, SameString DEF IndInv, AnswerInv
<1>5. HeaderInv'
  <2>1. AttemptKey' = AttemptKey /\ (Decoded' <=> Decoded) /\ (Spent' <=> Spent)
    BY <1>1, SameString DEF AttemptKey, Decoded, Spent
  <2> QED
    BY <1>1, <2>1 DEF IndInv, HeaderInv
<1>6. AttemptInv'
  BY <1>1, SameOpening DEF IndInv, AttemptInv, Plain
<1>7. (VerdictRight /\ OpenedIsPlain)'
  BY <1>1 DEF IndInv, VerdictRight, OpenedIsPlain
<1> QED
  BY <1>2, <1>3, <1>4, <1>5, <1>6, <1>7 DEF IndInv

(* The heap, the answer, the header and the attempts are at every step what *)
(* the parts of the invariant say, from the entry of startup.s to the halt. *)
THEOREM Invariance == Spec => []IndInv
<1>1. ASSUME IndInv, [Next]_vars
      PROVE  IndInv'
  <2>1. CASE Next
    <3>1. AttemptInv'
      BY <1>1, <2>1, AttemptStep DEF IndInv
    <3> QED
      BY <1>1, <2>1, <3>1, StartStep, HeapStep, AnswerStep, HeaderStep, VerdictStep DEF IndInv
  <2>2. CASE UNCHANGED vars
    BY <1>1, <2>2, StutterIndInv
  <2> QED
    BY <1>1, <2>1, <2>2
<1> QED
  BY <1>1, InitIndInv, PTL DEF Spec

-----------------------------------------------------------------------------
(* Memory for the blocks from k on lies between their bounds. *)
LEMMA BytesOnTop ==
  ASSUME NEW k \in Nat, NEW s \in Nat \ {0},
         NEW from, from = k * BLOCK_SZ, NEW to, to = (k + BlocksFor(s)) * BLOCK_SZ
  PROVE  /\ from \in Nat /\ to \in Nat /\ from <= to
         /\ Bytes(At(k, s)) \subseteq from + heap_base .. to + heap_base - 1
<1> DEFINE n == BlocksFor(s)
           more == n * BLOCK_SZ
<1>1. n \in Nat /\ more \in Nat /\ s <= more
  BY BlocksForHolds, HeapAssumption
<1>2. from \in Nat /\ to = from + more
  BY <1>1, HeapAssumption
<1> HIDE DEF n, more
<1>3. Bytes(At(k, s)) = from + heap_base .. (from + heap_base) + s - 1
  BY DEF Bytes, At, PtrOf
<1> QED
  BY <1>1, <1>2, <1>3, HeapAssumption

(* The four allocations lie in the heap, one after the other. *)
FourAllocations == {At(0, maxlen + 1), At(N1, dklen), At(N1 + N2, XTS_CTX_SZ),
                    At(N1 + N2 + N3, SALT_LEN + 4)}

LEMMA FourInHeap ==
  /\ \A a \in FourAllocations : Bytes(a) \subseteq HeapBytes
  /\ \A a, b \in FourAllocations : a # b => Bytes(a) \cap Bytes(b) = {}
<1> DEFINE e0 == 0 * BLOCK_SZ
           e1 == N1 * BLOCK_SZ
           e2 == (N1 + N2) * BLOCK_SZ
           e3 == (N1 + N2 + N3) * BLOCK_SZ
           e4 == (N1 + N2 + N3 + N4) * BLOCK_SZ
           last == NBlocks * BLOCK_SZ
<1>1. dklen \in Nat \ {0} /\ SALT_LEN + 4 \in Nat \ {0}
  BY Boot1Assumption, HeapAssumption
<1>2. /\ e0 \in Nat /\ e1 \in Nat /\ e0 <= e1
      /\ Bytes(At(0, maxlen + 1)) \subseteq e0 + heap_base .. e1 + heap_base - 1
  <2>1. 0 + BlocksFor(maxlen + 1) = N1
    BY Room DEF N1
  <2> QED
    BY <2>1, Room, BytesOnTop
<1>3. /\ e2 \in Nat /\ e1 <= e2
      /\ Bytes(At(N1, dklen)) \subseteq e1 + heap_base .. e2 + heap_base - 1
  BY <1>1, Room, BytesOnTop DEF N2
<1>4. /\ e3 \in Nat /\ e2 <= e3
      /\ Bytes(At(N1 + N2, XTS_CTX_SZ)) \subseteq e2 + heap_base .. e3 + heap_base - 1
  BY Room, BytesOnTop DEF N3
<1>5. /\ e4 \in Nat /\ e3 <= e4
      /\ Bytes(At(N1 + N2 + N3, SALT_LEN + 4)) \subseteq e3 + heap_base .. e4 + heap_base - 1
  <2> DEFINE k == N1 + N2 + N3
             s == SALT_LEN + 4
  <2>1. k \in Nat /\ s \in Nat \ {0} /\ N4 = BlocksFor(s)
    BY <1>1, Room DEF N4
  <2>2. e3 = k * BLOCK_SZ /\ e4 = (k + BlocksFor(s)) * BLOCK_SZ
    BY <2>1
  <2> HIDE DEF k, s, e3, e4
  <2>3. /\ e3 \in Nat /\ e4 \in Nat /\ e3 <= e4
        /\ Bytes(At(k, s)) \subseteq e3 + heap_base .. e4 + heap_base - 1
    BY <2>1, <2>2, BytesOnTop
  <2> QED
    BY <2>3 DEF k, s
<1>6. e4 <= last /\ last <= HEAP_SZ /\ last \in Nat
  BY Room, BlocksInHeap, HeapAssumption
<1> HIDE DEF e0, e1, e2, e3, e4, last
<1>7. \A a \in FourAllocations : Bytes(a) \subseteq HeapBytes
  BY <1>2, <1>3, <1>4, <1>5, <1>6, HeapAssumption DEF FourAllocations, HeapBytes
<1>8. ASSUME NEW a \in FourAllocations, NEW b \in FourAllocations, a # b
      PROVE  Bytes(a) \cap Bytes(b) = {}
  <2> DEFINE Between(from, to) == from + heap_base .. to + heap_base - 1
  <2>1. /\ Between(e0, e1) \cap Between(e1, e2) = {}
        /\ Between(e0, e1) \cap Between(e2, e3) = {}
        /\ Between(e0, e1) \cap Between(e3, e4) = {}
        /\ Between(e1, e2) \cap Between(e2, e3) = {}
        /\ Between(e1, e2) \cap Between(e3, e4) = {}
        /\ Between(e2, e3) \cap Between(e3, e4) = {}
    BY <1>2, <1>3, <1>4, <1>5, HeapAssumption
  <2> HIDE DEF Between
  <2>2. /\ Bytes(At(0, maxlen + 1)) \subseteq Between(e0, e1)
        /\ Bytes(At(N1, dklen)) \subseteq Between(e1, e2)
        /\ Bytes(At(N1 + N2, XTS_CTX_SZ)) \subseteq Between(e2, e3)
        /\ Bytes(At(N1 + N2 + N3, SALT_LEN + 4)) \subseteq Between(e3, e4)
    BY <1>2, <1>3, <1>4, <1>5 DEF Between
  <2> QED
    BY <1>8, <2>1, <2>2 DEF FourAllocations
<1> QED
  BY <1>7, <1>8

(* A string is no longer than the memory it is in. *)
LEMMA CStringLength ==
  ASSUME NEW m \in Seq(Cell)
  PROVE  Len(CString(m)) \in 0 .. Len(m)
<1>1. Len(m) \in Nat
  OBVIOUS
<1>2. CASE Nuls(m) = {}
  BY <1>1, <1>2, CStringIs
<1>3. CASE Nuls(m) # {}
  <2>1. PICK n \in 1 .. Len(m) : IsFirst(n, Nuls(m))
    BY <1>3, FirstNul
  <2>2. n \in Nat /\ CString(m) = SubSeq(m, 1, n - 1)
    BY <1>1, <2>1, CStringIs
  <2>3. Len(SubSeq(m, 1, n - 1)) = n - 1
    BY <1>1, <2>1, SubSeqProperties
  <2> QED
    BY <1>1, <2>1, <2>2, <2>3
<1> QED
  BY <1>2, <1>3

(* No pointer of boot1 is NULL where it is used, and what it points to is  *)
(* allocated then, inside the heap and apart from everything else.         *)
THEOREM MemoryIsHeld == Spec => []MemoryHeld
<1>1. ASSUME IndInv
      PROVE  MemoryHeld
  <2>1. live \subseteq FourAllocations
    BY <1>1 DEF IndInv, HeapInv, LiveIs, While, FourAllocations
  <2>2. \A a \in live : Bytes(a) \subseteq HeapBytes
    BY <2>1, FourInHeap
  <2>3. \A a, b \in live : a # b => Bytes(a) \cap Bytes(b) = {}
    BY <2>1, FourInHeap
  <2>4. ASSUME NEW b \in Nat
        PROVE  PtrOf(b) # NULL
    BY HeapAssumption DEF PtrOf, NULL
  <2>5. PtrOf(0) # NULL /\ PtrOf(N1) # NULL /\ PtrOf(N1 + N2) # NULL
        /\ PtrOf(N1 + N2 + N3) # NULL
    BY <2>4, Room
  <2>6. ASSUME NEW b \in Nat, NEW sz \in Nat, At(b, sz) \in live,
               NEW n \in Nat, n <= sz
        PROVE  Holds(PtrOf(b), n)
    <3>1. PtrOf(b) \in Nat
      BY HeapAssumption DEF PtrOf
    <3>2. PtrOf(b) .. PtrOf(b) + n - 1 \subseteq Bytes(At(b, sz)) /\ At(b, sz).ptr = PtrOf(b)
      BY <2>6, <3>1 DEF Bytes, At
    <3> QED
      BY <2>4, <2>6, <3>2 DEF Holds
  <2>7. /\ dklen \in Nat /\ XTS_CTX_SZ \in Nat /\ SALT_LEN + 4 \in Nat
        /\ maxlen \in Nat /\ maxlen + 1 \in Nat
        /\ 0 \in Nat /\ N1 \in Nat /\ N1 + N2 \in Nat /\ N1 + N2 + N3 \in Nat
    BY Room, Boot1Assumption DEF dklen, SALT_LEN
  <2>8. /\ pc \in HasPassphrase =>
             passphrase = PtrOf(0) /\ At(0, maxlen + 1) \in live
        /\ pc \in HasDk => dk = PtrOf(N1) /\ At(N1, dklen) \in live
        /\ pc \in HasCtx => xts_ctx = PtrOf(N1 + N2) /\ At(N1 + N2, XTS_CTX_SZ) \in live
        /\ pc \in HasSalt =>
             saltp = PtrOf(N1 + N2 + N3) /\ At(N1 + N2 + N3, SALT_LEN + 4) \in live
    BY <1>1 DEF IndInv, HeapInv, LiveIs, While
  <2>9. pc \in HasPassphrase => \A n \in 0 .. maxlen + 1 : Holds(passphrase, n)
    BY <2>6, <2>7, <2>8
  <2>10. /\ pc \in HasDk => Holds(dk, dklen)
         /\ pc \in HasCtx => Holds(xts_ctx, XTS_CTX_SZ)
         /\ pc \in HasSalt => Holds(saltp, SALT_LEN + 4)
    <3>1. dklen <= dklen /\ XTS_CTX_SZ <= XTS_CTX_SZ /\ SALT_LEN + 4 <= SALT_LEN + 4
      BY <2>7
    <3>2. pc \in HasDk => Holds(dk, dklen)
      BY <2>6, <2>7, <2>8, <3>1
    <3>3. pc \in HasCtx => Holds(xts_ctx, XTS_CTX_SZ)
      BY <2>6, <2>7, <2>8, <3>1
    <3>4. pc \in HasSalt => Holds(saltp, SALT_LEN + 4)
      BY <2>6, <2>7, <2>8, <3>1
    <3> QED
      BY <3>2, <3>3, <3>4
  <2>11. ASSUME NEW l \in answer, pc \in Answered
         PROVE  /\ Len(l) + 1 \in 0 .. maxlen + 1
                /\ pc # "terminate" => Len(CString(mem)) + 1 \in 0 .. maxlen + 1
    <3>1. l \in Lines
      BY <1>1, <2>11 DEF IndInv, AnswerInv
    <3>2. Len(l) \in 0 .. maxlen /\ l \in Seq(Cell)
      BY <3>1, LineFacts, Boot1Assumption DEF Cell
    <3>3. Len(CString(l)) \in 0 .. Len(l)
      BY <3>2, CStringLength
    <3>4. pc # "terminate" => CString(mem) = CString(l)
      BY <1>1, <2>11 DEF IndInv, AnswerInv
    <3> QED
      BY <2>7, <3>2, <3>3, <3>4
  <2>12. pc \in Answered => answer # {}
    BY <1>1 DEF IndInv, AnswerInv
  <2>13. /\ pc = "read_line" => Holds(passphrase, maxlen)
         /\ pc = "terminate" => \A l \in answer : Holds(passphrase, Len(l) + 1)
         /\ pc = "derive" => Holds(passphrase, Len(CString(mem)) + 1)
    <3>1. maxlen \in 0 .. maxlen + 1
      BY <2>7
    <3>2. {"read_line", "terminate", "derive"} \subseteq HasPassphrase
      BY DEF HasPassphrase, Trying, Attempting
    <3>3. {"terminate", "derive"} \subseteq Answered
      BY DEF Answered, Trying, Attempting
    <3> QED
      BY <2>9, <2>11, <2>12, <3>1, <3>2, <3>3
  <2> QED
    BY <2>2, <2>3, <2>10, <2>13
    DEF MemoryHeld, HasPassphrase, HasDk, HasCtx, HasSalt, Trying, Attempting
<1> QED
  BY <1>1, Invariance, PTL

(* Every way to the halt has given all memory back. *)
THEOREM NothingIsLeaked == Spec => []NothingLeaked
<1>1. IndInv => NothingLeaked
  BY DEF IndInv, HeapInv, NothingLeaked, LiveIs, UsedIs, While, HasPassphrase, HasDk, HasCtx,
     HasSalt, Trying, Attempting, Unwinding
<1> QED
  BY <1>1, Invariance, PTL

(* An attempt whose own read succeeds starts from the disk's header. *)
THEOREM ReadIsFresh == Spec => []FreshUnlessUnread
<1>1. IndInv => FreshUnlessUnread
  BY DEF IndInv, HeaderInv, FreshUnlessUnread
<1> QED
  BY <1>1, Invariance, PTL

(* boot1's message is right for every volume, line and sequence of failing *)
(* reads.                                                                  *)
THEOREM VerdictIsRight == Spec => []VerdictRight
BY Invariance, PTL DEF IndInv

(* A volume reported open has its header in memory, decrypted once with    *)
(* the right attempt's key.                                                *)
THEOREM OpenedHeaderIsPlain == Spec => []OpenedIsPlain
BY Invariance, PTL DEF IndInv
-----------------------------------------------------------------------------
(* Every step of boot1 is a step of Unlock or changes nothing there. *)
LEMMA StepRefines ==
  ASSUME IndInv, IndInv', [Next]_vars
  PROVE  [Promise!Next]_(Promise!vars)
<1> USE DEF Promise!vars
<1>1. ASSUME NEW l \in Lines, ReadLine(l)
      PROVE  Promise!Answer(l)
  BY <1>1 DEF ReadLine, Goto, IndInv, AnswerInv, Asking, attempt, Promise!Answer
<1>2. CASE PressEsc
  <2>1. Promise!Answer(Cancelled)
    BY <1>2 DEF PressEsc, Goto, IndInv, AnswerInv, Asking, attempt, Promise!Answer
  <2> QED
    BY <2>1 DEF Promise!Next
<1>3. CASE Cancel
  <2>1. Promise!Cancel
    BY <1>3 DEF Cancel, Goto, IndInv, AnswerInv, AttemptInv, attempt, Promise!Cancel
  <2> QED
    BY <2>1 DEF Promise!Next
<1>4. CASE ReadSector
  <2>1. /\ pc = "next_prf" /\ ReadHeader /\ UNCHANGED <<volume, answer, verdict>>
        /\ verdict = "none"
    BY <1>4 DEF ReadSector, ReadSectorBy, Goto, IndInv, AttemptInv
  <2>2. PICK l \in Lines : answer = {l}
    BY <2>1 DEF IndInv, AnswerInv, Answered, Trying, Attempting
  <2>3. answer # {} /\ answer # {Cancelled}
    BY <2>2, LineFacts
  <2>4. CASE ReadErrors /\ unread' = unread \cup {prf} /\ volume.prf \in unread'
    BY <2>1, <2>3, <2>4 DEF Promise!LoseHeader, Promise!Next
  <2>5. CASE unread' = unread
    BY <2>1, <2>5
  <2>6. CASE unread' = unread \cup {prf} /\ volume.prf \notin unread'
    <3>1. volume.prf \notin unread
      BY <2>6
    <3> QED
      BY <2>1, <2>6, <3>1
  <2> QED
    BY <2>1, <2>4, <2>5, <2>6 DEF ReadHeader
<1>5. CASE Report
  <2>1. /\ pc = "report" /\ UNCHANGED <<volume, answer, unread>> /\ verdict = "none"
        /\ pc' = "halt"
    BY <1>5 DEF Report, Goto, attempt, IndInv, AttemptInv
  <2>2. PICK l \in Lines : answer = {l}
    BY <2>1 DEF IndInv, AnswerInv, Answered
  <2>3. answer # {Cancelled}
    BY <2>2, LineFacts
  <2>4. verdict' = IF volume.prf \notin unread /\ Opens(volume, l) THEN "opened" ELSE "refused"
    BY <2>1, <2>2, <2>3 DEF IndInv, VerdictRight, Opens
  <2>5. Promise!Decide(l)
    BY <2>1, <2>2, <2>4 DEF Promise!Decide
  <2> QED
    BY <2>5 DEF Promise!Next
<1>6. CASE SetSegments \/ ZeroBss \/ SetHeap \/ SetDev \/ AllocPassphrase
  BY <1>6 DEF SetSegments, ZeroBss, SetHeap, SetHeapTo, SetDev, AllocPassphrase, attempt
<1>7. CASE Terminate \/ AllocDk \/ AllocCtx \/ AllocSalt \/ Derive \/ FreeSalt
  BY <1>7 DEF Terminate, TerminateTo, AllocDk, AllocCtx, AllocSalt, Derive, FreeSalt, Release,
     attempt
<1>8. CASE XtsInit \/ XtsDecrypt \/ NoSignature \/ SwapFields \/ CrcMismatch \/ CrcMatch
  BY <1>8 DEF XtsInit, XtsDecrypt, NoSignature, Continue, SwapFields, CrcMismatch, CrcMatch,
     attempt
<1>9. CASE NoPrfLeft \/ FreeDk \/ FreeCtx \/ FreePassphrase
  BY <1>9 DEF NoPrfLeft, FreeDk, FreeCtx, FreePassphrase, Release, attempt
<1>10. CASE UNCHANGED vars
  BY <1>10 DEF vars, attempt
<1> QED
  BY <1>1, <1>2, <1>3, <1>4, <1>5, <1>6, <1>7, <1>8, <1>9, <1>10 DEF Next, Step, Promise!Next

(* boot1, from its entry to its halt, implements Unlock: one answer, and a *)
(* verdict that depends on it, on the volume and on failing reads alone.   *)
THEOREM Refinement == Spec => ImplementsUnlock
<1>1. Init => Promise!Init
  BY DEF Init, Promise!Init
<1> QED
  BY <1>1, StepRefines, Invariance, PTL DEF Spec, ImplementsUnlock, Promise!Spec
=============================================================================
