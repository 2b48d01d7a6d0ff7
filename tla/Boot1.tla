--------------------------------- MODULE Boot1 ---------------------------------
(***************************************************************************)
(* boot1 from its entry point to its halt: _cstart_ of startup.s, main and *)
(* try_decrypt of boot1.c, and the heap and header traffic of pbkdf2 and   *)
(* the xts functions it calls (src/boot1).                                 *)
(*                                                                         *)
(* Cryptography is symbolic.  A key is the record of what it was derived   *)
(* from.  The encrypted part of the header is a stack of layers over the   *)
(* header's fields: the disk's has the one layer [op |-> "enc", key |-> k],*)
(* decrypting with k takes it off, and decrypting with any other key puts  *)
(* a "dec" layer on.  Only a header with no layer left has the signature   *)
(* and the CRC that its fields say; another may show the signature by      *)
(* chance, its four bytes being likely enough, but not the CRC as well.    *)
(***************************************************************************)
EXTENDS HeapLayout, Sequences

CONSTANTS
  Chars,       \* characters of a line, NUL for a key without one
  Lines,       \* the lines bios_read_line can return, see Console
  maxlen,      \* their greatest length
  Passes,      \* passphrases of volumes
  Drives,      \* BIOS drive numbers
  boot_drive,  \* the one boot0 hands over in DL
  DGROUP,      \* the segment of boot1's data, stack and heap
  Segments,    \* what the segment registers may hold at the entry
  NPrfs,       \* entries of prfs[] before its end mark
  XTS_CTX_SZ,  \* sizeof(struct xts_ctx)
  ReadErrors   \* whether reading a sector may fail

SALT_LEN == 64
dklen == 64

(* Mutant: no room for the NUL behind the longest line. *)
PASSPHRASE_SZ_Short == maxlen

PASSPHRASE_SZ == maxlen + 1

NUL == "NUL"
Cancelled == <<"ESC">>

(* The heap has room for the four allocations that exist at a time, and    *)
(* ESC is no character of a line.                                          *)
ASSUME Boot1Assumption ==
  /\ {PASSPHRASE_SZ, dklen, XTS_CTX_SZ, SALT_LEN + 4} \subseteq Sizes
  /\ BlocksFor(PASSPHRASE_SZ) + BlocksFor(dklen)
       + BlocksFor(XTS_CTX_SZ) + BlocksFor(SALT_LEN + 4) <= NBlocks
  /\ maxlen \in Nat
  /\ \A l \in Lines : l \in Seq(Chars) /\ Len(l) <= maxlen
  /\ "ESC" \notin Chars
  /\ boot_drive \in Drives /\ DGROUP \in Segments
  /\ NPrfs \in Nat
  /\ ReadErrors \in BOOLEAN

(* The header sector of the disk: of a TrueCrypt volume, made from one     *)
(* passphrase and one entry of prfs[], its keys section sound or damaged;  *)
(* or of no volume.                                                        *)
Volumes == [pass : Passes, prf : 1 .. NPrfs, sound : BOOLEAN]
             \cup {[pass |-> <<>>, prf |-> 0, sound |-> FALSE]}

Key(salt, pass, prf) == [salt |-> salt, pass |-> pass, prf |-> prf]
Layer(op, k) == [op |-> op, key |-> k]
NoKey == Key("none", <<>>, 0)
OnDisk(v) == [salt |-> "disk", swapped |-> FALSE,
              enc |-> <<Layer("enc", Key("disk", v.pass, v.prf))>>]
Junk(salt) == [salt |-> salt, swapped |-> FALSE, enc |-> <<Layer("enc", NoKey)>>]

Decrypted(enc, k) == IF enc # <<>> /\ Head(enc) = Layer("enc", k)
                       THEN Tail(enc) ELSE <<Layer("dec", k)>> \o enc

(* The C string in a buffer, "junk" standing for whatever was there. *)
CString(mem) ==
  LET nul == {n \in 1 .. Len(mem) : mem[n] = NUL}
  IN  IF nul = {} THEN mem ELSE SubSeq(mem, 1, (CHOOSE n \in nul : \A m \in nul : n <= m) - 1)

Opens(v, l) == v.sound /\ CString(l) = v.pass

VARIABLES
  volume,      \* what the disk's sector 63 holds
  pc,
  segment,     \* DS, ES and SS
  heap_ptr,    \* the variable heap_base, which startup.s sets
  biosdev,     \* the drive to read from
  used,        \* the heap's bitmap
  live,        \* the allocations not yet freed
  answer,      \* what was typed: {}, {a line} or {Cancelled}
  passphrase, dk, xts_ctx, saltp,   \* pointers
  mem,         \* the bytes at passphrase
  dkey,        \* the key at dk
  ckey,        \* the key in xts_ctx
  hdr,         \* the header in memory
  prf,         \* the attempt under way
  ret,         \* what try_decrypt will return
  verdict,     \* the message printed last
  unread       \* history: the attempts whose read failed

bss == <<segment, heap_ptr, biosdev>>
heap == <<used, live>>
pointers == <<passphrase, dk, xts_ctx, saltp>>
secrets == <<mem, dkey, ckey>>
attempt == <<hdr, prf, ret, unread>>
vars == <<volume, pc, bss, heap, answer, pointers, secrets, attempt, verdict>>

(* The image is in memory; what its BSS holds is whatever was there. *)
Init == /\ volume \in Volumes
        /\ pc = "cstart"
        /\ segment \in Segments
        /\ heap_ptr = NULL
        /\ biosdev \in Drives
        /\ used \in {{}, Block}
        /\ live = {}
        /\ answer = {}
        /\ passphrase = NULL /\ dk = NULL /\ xts_ctx = NULL /\ saltp = NULL
        /\ mem = [n \in 1 .. maxlen + 1 |-> "junk"]
        /\ dkey = NoKey /\ ckey = NoKey
        /\ hdr = Junk("junk")
        /\ prf = 1
        /\ ret = -1
        /\ verdict = "none"
        /\ unread = {}

Goto(from, to) == pc = from /\ pc' = to

(* malloc and free, in one step each: Malloc implements Heap, and nothing  *)
(* runs beside them.                                                       *)
Malloc(sz, p) ==
  LET n == BlocksFor(sz)
  IN  \/ \E b \in Block :
           /\ IsFirstFit(used, b, n)
           /\ p = PtrOf(b) - heap_base + heap_ptr
           /\ used' = used \cup Span(b, n)
           /\ live' = live \cup {[ptr |-> p, sz |-> sz]}
      \/ /\ \A b \in Block : ~Fits(used, b, n)
         /\ p = NULL
         /\ UNCHANGED heap

Free(p, sz) ==
  /\ used' = used \ Span((p - heap_ptr) \div BLOCK_SZ, BlocksFor(sz))
  /\ live' = live \ {[ptr |-> p, sz |-> sz]}

(* _cstart_: set the segment registers and the stack, clear the BSS, then  *)
(* store the heap's address and the drive.  A store reaches the variables  *)
(* only with DS and ES set.                                                *)
SetSegments ==
  /\ Goto("cstart", "zero_bss")
  /\ segment' = DGROUP
  /\ UNCHANGED <<volume, heap_ptr, biosdev, heap, answer, pointers, secrets, attempt, verdict>>

Stored(x, v) == x' = IF segment = DGROUP THEN v ELSE x

ZeroBss ==
  /\ Goto("zero_bss", "set_heap")
  /\ Stored(heap_ptr, 0) /\ Stored(biosdev, 0)
  /\ Stored(used, {}) /\ Stored(hdr, Junk("zero"))
  /\ UNCHANGED <<volume, segment, live, answer, pointers, secrets, prf, ret, unread, verdict>>

SetHeapTo(p) ==
  /\ Goto("set_heap", "set_dev")
  /\ Stored(heap_ptr, p)
  /\ UNCHANGED <<volume, segment, biosdev, heap, answer, pointers, secrets, attempt, verdict>>

(* Mutant: the heap's address is stored before the BSS is cleared. *)
SetHeapLost == SetHeapTo(0)

SetHeap == SetHeapTo(heap_base)

SetDev ==
  /\ Goto("set_dev", "main")
  /\ Stored(biosdev, boot_drive)
  /\ UNCHANGED <<volume, segment, heap_ptr, heap, answer, pointers, secrets, attempt, verdict>>

(* main *)
AllocPassphrase ==
  /\ Goto("main", "read_line")
  /\ Malloc(PASSPHRASE_SZ, passphrase')
  /\ UNCHANGED <<volume, bss, answer, dk, xts_ctx, saltp, secrets, attempt, verdict>>

ReadLine(l) ==
  /\ Goto("read_line", "terminate")
  /\ answer' = {l}
  /\ mem' = [n \in DOMAIN mem |-> IF n <= Len(l) THEN l[n] ELSE mem[n]]
  /\ UNCHANGED <<volume, bss, heap, pointers, dkey, ckey, attempt, verdict>>

PressEsc ==
  /\ Goto("read_line", "cancelled")
  /\ answer' = {Cancelled}
  /\ UNCHANGED <<volume, bss, heap, pointers, secrets, attempt, verdict>>

Cancel ==
  /\ Goto("cancelled", "halt")
  /\ verdict' = "cancelled"
  /\ Free(passphrase, PASSPHRASE_SZ)
  /\ UNCHANGED <<volume, bss, answer, pointers, secrets, attempt>>

TerminateTo(bytes) ==
  /\ Goto("terminate", "try_decrypt")
  /\ mem' = bytes
  /\ UNCHANGED <<volume, bss, heap, answer, pointers, dkey, ckey, attempt, verdict>>

(* Mutant: the line is not terminated. *)
TerminateNot == TerminateTo(mem)

Terminate == \E l \in answer : TerminateTo([mem EXCEPT ![Len(l) + 1] = NUL])

(* try_decrypt *)
AllocDk ==
  /\ Goto("try_decrypt", "alloc_ctx")
  /\ Malloc(dklen, dk')
  /\ UNCHANGED <<volume, bss, answer, passphrase, xts_ctx, saltp, secrets, attempt, verdict>>

AllocCtx ==
  /\ Goto("alloc_ctx", "next_prf")
  /\ Malloc(XTS_CTX_SZ, xts_ctx')
  /\ UNCHANGED <<volume, bss, answer, passphrase, dk, saltp, secrets, attempt, verdict>>

(* bios_read_sectors of the header.  After an error the header is what it  *)
(* was, or what the disk's controller left.                                *)
ReadHeader ==
  \/ /\ hdr' = IF biosdev = boot_drive THEN OnDisk(volume) ELSE Junk("other")
     /\ UNCHANGED unread
  \/ /\ ReadErrors
     /\ hdr' \in {hdr, Junk("junk")}
     /\ unread' = unread \cup {prf}

ReadSectorBy(read) ==
  /\ prf <= NPrfs
  /\ Goto("next_prf", "pbkdf2")
  /\ read
  /\ UNCHANGED <<volume, bss, heap, answer, pointers, secrets, prf, ret, verdict>>

(* Mutant: the header is read once. *)
ReadSectorOnce == ReadSectorBy(IF prf = 1 THEN ReadHeader ELSE UNCHANGED <<hdr, unread>>)

(* The result of the read is not looked at. *)
ReadSector == ReadSectorBy(ReadHeader)

(* pbkdf2 keeps the salt and the block number in memory of its own. *)
AllocSalt ==
  /\ Goto("pbkdf2", "derive")
  /\ Malloc(SALT_LEN + 4, saltp')
  /\ UNCHANGED <<volume, bss, answer, passphrase, dk, xts_ctx, secrets, attempt, verdict>>

Derive ==
  /\ Goto("derive", "free_salt")
  /\ dkey' = Key(hdr.salt, CString(mem), prf)
  /\ UNCHANGED <<volume, bss, heap, answer, pointers, mem, ckey, attempt, verdict>>

Release(from, to, p, sz) ==
  /\ Goto(from, to)
  /\ Free(p, sz)
  /\ UNCHANGED <<volume, bss, answer, pointers, secrets, attempt, verdict>>

(* Mutant: the salt is freed without the 4 bytes behind it. *)
FreeSaltShort == Release("free_salt", "xts", saltp, SALT_LEN)

FreeSalt == Release("free_salt", "xts", saltp, SALT_LEN + 4)

XtsInit ==
  /\ Goto("xts", "decrypt")
  /\ ckey' = dkey
  /\ UNCHANGED <<volume, bss, heap, answer, pointers, mem, dkey, attempt, verdict>>

XtsDecrypt ==
  /\ Goto("decrypt", "check")
  /\ hdr' = [hdr EXCEPT !.enc = Decrypted(hdr.enc, ckey)]
  /\ ckey' = NoKey
  /\ UNCHANGED <<volume, bss, heap, answer, pointers, mem, dkey, prf, ret, unread, verdict>>

Continue(from, next, to) ==
  /\ Goto(from, to)
  /\ prf' = next
  /\ UNCHANGED <<volume, bss, heap, answer, pointers, secrets, hdr, ret, unread, verdict>>

(* Mutant: xts_uninit returns what it has cleared, a pointer. *)
AXPointer == 4096

(* AX as the comparison with the signature finds it: xts_uninit's value, as *)
(* memcmp's own registers take constants.  Its upper half is the            *)
(* comparison's (MemOps), which finds nothing equal unless it is 0.         *)
AX == 0
AH == AX \div 256

(* Mutant: the loop goes on with the same PRF. *)
NoSignatureSamePrf == (AH # 0 \/ hdr.enc # <<>>) /\ Continue("check", prf, "next_prf")

NoSignature == (AH # 0 \/ hdr.enc # <<>>) /\ Continue("check", prf + 1, "next_prf")

(* bswap_inplace of the fields, the CRC of the keys among them. *)
SwapFields ==
  /\ Goto("check", "crc")
  /\ AH = 0
  /\ hdr' = [hdr EXCEPT !.swapped = ~hdr.swapped]
  /\ UNCHANGED <<volume, bss, heap, answer, pointers, secrets, prf, ret, unread, verdict>>

(* Mutant: the signature is enough. *)
KeysCrcUnchecked == hdr.swapped

KeysCrc == hdr.enc = <<>> /\ hdr.swapped /\ volume.sound

(* Mutant: a wrong CRC ends the search. *)
CrcMismatchBreaks == ~KeysCrc /\ Continue("crc", prf, "free_dk")

CrcMismatch == ~KeysCrc /\ Continue("crc", prf + 1, "next_prf")

CrcMatch ==
  /\ Goto("crc", "free_dk")
  /\ KeysCrc
  /\ ret' = 0
  /\ UNCHANGED <<volume, bss, heap, answer, pointers, secrets, hdr, prf, unread, verdict>>

NoPrfLeft ==
  /\ Goto("next_prf", "free_dk")
  /\ prf > NPrfs
  /\ UNCHANGED <<volume, bss, heap, answer, pointers, secrets, attempt, verdict>>

FreeDk == Release("free_dk", "free_ctx", dk, dklen)
FreeCtx == Release("free_ctx", "free_passphrase", xts_ctx, XTS_CTX_SZ)
FreePassphrase == Release("free_passphrase", "report", passphrase, PASSPHRASE_SZ)

Report ==
  /\ Goto("report", "halt")
  /\ verdict' = IF ret < 0 THEN "refused" ELSE "opened"
  /\ UNCHANGED <<volume, bss, heap, answer, pointers, secrets, attempt>>

Step == \/ SetSegments \/ ZeroBss \/ SetHeap \/ SetDev
        \/ AllocPassphrase \/ Cancel \/ Terminate
        \/ AllocDk \/ AllocCtx \/ ReadSector
        \/ AllocSalt \/ Derive \/ FreeSalt
        \/ XtsInit \/ XtsDecrypt \/ NoSignature \/ SwapFields
        \/ CrcMismatch \/ CrcMatch \/ NoPrfLeft
        \/ FreeDk \/ FreeCtx \/ FreePassphrase \/ Report

Next == Step \/ PressEsc \/ \E l \in Lines : ReadLine(l)

Spec == Init /\ [][Next]_vars

(* The processor runs on; nobody has to finish a line. *)
FairSpec == Spec /\ WF_vars(Step)
-----------------------------------------------------------------------------
(* malloc's results are used unchecked: they are never NULL, and the       *)
(* memory behind the pointers a step reads or writes is allocated then,    *)
(* inside the heap and apart from the others.  Of the passphrase's that is *)
(* all that bios_read_line may write, the NUL behind the line, and the     *)
(* bytes that strlen reads; of the others' all of it.                      *)
Holds(p, n) == p # NULL /\ \E a \in live : a.ptr = p /\ p .. p + n - 1 \subseteq Bytes(a)

MemoryHeld ==
  /\ pc = "read_line" => Holds(passphrase, maxlen)
  /\ pc = "terminate" => \A l \in answer : Holds(passphrase, Len(l) + 1)
  /\ pc = "derive" => Holds(passphrase, Len(CString(mem)) + 1)
  /\ pc \in {"derive", "xts"} => Holds(dk, dklen)
  /\ pc \in {"xts", "decrypt"} => Holds(xts_ctx, XTS_CTX_SZ)
  /\ pc = "derive" => Holds(saltp, SALT_LEN + 4)
  /\ \A a \in live : Bytes(a) \subseteq HeapBytes
  /\ \A a, b \in live : a # b => Bytes(a) \cap Bytes(b) = {}

(* Every way to the halt has given back all memory it took, with the sizes *)
(* it asked for, whatever the attempts and their order.                    *)
NothingLeaked == pc = "halt" => live = {} /\ used = {}

(* "We decrypt in place, so we have to re-read every time" (boot1.c:83):   *)
(* no attempt derives a key for, and then decrypts, a header of the disk's *)
(* that an attempt before it has decrypted in place.                       *)
FreshHeader == pc = "derive" /\ hdr.salt = "disk" => hdr = OnDisk(volume)

(* It does if its own read succeeds, whatever the attempts before it read  *)
(* and left behind.                                                        *)
FreshUnlessUnread ==
  pc = "derive" /\ prf \notin unread => hdr = OnDisk(volume)

(* The volume is reported open exactly when the line, up to its first NUL, *)
(* is its passphrase, its keys are sound and the attempt with its PRF read *)
(* the header; and the header in memory is then decrypted, by one layer,   *)
(* with its fields swapped once.                                           *)
VerdictRight ==
  pc = "halt" =>
    verdict = CASE answer = {Cancelled} -> "cancelled"
                [] answer # {Cancelled} /\ volume.prf \notin unread
                   /\ \E l \in answer : Opens(volume, l) -> "opened"
                [] OTHER -> "refused"

OpenedIsPlain ==
  verdict = "opened" => /\ hdr = [salt |-> "disk", swapped |-> TRUE, enc |-> <<>>]
                        /\ prf = volume.prf

(* An answer is always followed by a message and the halt. *)
AnswerReported == (answer # {}) ~> (pc = "halt" /\ verdict # "none")

(* boot1 as a whole does what Unlock promises. *)
Promise == INSTANCE Unlock WITH lost <- volume.prf \in unread

ImplementsUnlock == Promise!Spec
=============================================================================
