# A verification of tcplay_loader

tcplay_loader is a boot loader for TrueCrypt system volumes: a boot sector
(`boot0`) loads and checks a 16-bit C program (`boot1`), which reads a
passphrase, derives keys from it and decrypts the volume header. It is one
thread on bare metal; what runs beside it is the keyboard interrupt, and what
can fail under it is the disk. There is nothing to restart a wrong step from,
and no log to find it in.

## The system

| component | state it keeps | operations | talks to | what is hard |
|---|---|---|---|---|
| boot0 (`src/boot0/boot0.s`) | the sectors loaded at 0x500, `biosdev`, registers | save the drive, load the header, load the image, check its CRC, say what is wrong, jump | BIOS disk and screen, the image builder's header | 8- and 16-bit lengths, no retries, DL in use for other things, a stack and itself in the way of a large image |
| image builder (`src/genhdr`, `src/Makefile`) | `tc.hdr`, the disk image | CRC the image, write the header, lay out the image | boot0 | partial writes, overlapping parts |
| boot1 startup (`startup.s`, `link.scr`, `hdr.s`) | BSS, `heap_base`, `biosdev`, segment registers | set the segments, clear the BSS, store both, call main | boot0 (DL), main | the order of the stores, which go through DS |
| boot1 heap (`malloc.c`) | `heap_bitmap` | `malloc`, `free` | main, try_decrypt, pbkdf2 | runs that cross bytes, rounding on both sides, exhaustion |
| console and disk (`bios.c`) | the caller's buffer, the screen | print a prompt, a number or bytes, drain, read a line, echo; read sectors | keyboard interrupt, main | keys at any time, a full BIOS buffer, backspaces, a row that is full |
| boot1 main (`boot1.c`) | `hdr`, the pointers, the PRF loop | main, try_decrypt | all of boot1 | in-place decryption, failing reads, unchecked allocations |
| PBKDF2, HMAC (`pbkdf2.c`) | the salt buffer, ut, ux, dk | derive a key | hashes, heap | digests that do not divide the key |
| RIPEMD-160, SHA-512 | the context: X, h, bytes_in_x, bytes | init, update, compress, finalize, hmac | pbkdf2 | the same bytes in other pieces, padding at a block's end, a buffer that compressing destroys, 80 rounds on words that change places |
| XTS, AES-256 | the two keys, tweak, key schedule | set up, clear, encrypt, decrypt | try_decrypt | halves of a key, tweak carry, a schedule that runs both ways |
| CRC-32 (three of them) | the running CRC | crc32 | boot0, boot1, genhdr | they must agree |
| memory primitives (`fun.h`, `u8shift.s`) | registers, direction flag | memmove, memcmp, bswap, ... | everything | overlap, zero lengths, the high half of a result |

PROJECT.json lists every component with its status, and under `hazards` the
places in the code that are hard to test, with the properties that watch them.

## Plan

In the order of the plan, most important first:

1. the heap, its abstract specification and its proofs (written);
2. the console and boot1 as a whole, with what the user may rely on as its
   abstract specification (written);
3. the streaming hashes, key derivation, XTS, AES (written);
4. the memory primitives and shifts in assembly (written);
5. the image builder and boot0, composed, and the three CRCs (written);
6. the compression functions under the hashes, the two hashes whole against
   published digests, the printing of numbers, `xts_init`, the segments and the
   disk reads of the startup (written);
7. HashStream's ChunksDoNotMatter and DigestRightUnlessOverlap for every length
   of message that the code counts (written);
8. proofs about the memory primitives, shifts and printing, the console, boot1
   with its refinement of Unlock, the image builder and boot0, XTS, and key
   derivation (written);
9. proofs about the rounds of the compression functions, the three CRCs and
   AES-256 (written);
10. one chain from Boot1's symbolic key down to the bits (left out). What is
    proved meets it from both ends: Hashing implements HashStream, Pbkdf2 is
    RFC 2898's for any function as its hash, Xts has the right tweaks for any
    cipher, Aes256 is AES-256, and Boot1 takes keys and headers as symbols. A module that put
    them together would have no state of its own, and what is ideal in Boot1,
    that a key opens only what it closed, none of those below could give it.

## The modules

### HeapLayout, Heap, Malloc: the allocator

`HeapLayout` holds the constants and the arithmetic: rounding to blocks,
pointers to blocks and back, what it means for a run of blocks to fit.

`Heap` is the promise. A caller requests a size; it is granted the lowest run
of blocks that fits, or refused only when none does; it releases an allocation
by pointer and size.

`Malloc` is `malloc.c`, one action per iteration of a loop. `heap_bitmap` is
the set of blocks whose bit is 1; `i` and `j` are the byte and bit indexes of
the code, with j counting down from 7, and `Pos` is the block they stand for.
`blocks`, `blocks_found` and `block_no` are the locals of the same name; they
are reset when a call returns, since they end with it. `live` and `ret` are
what the callers know.

### Console: the passphrase line

The keyboard interrupt and the loader share `kbd`. The loader prints the
prompt, a character at a time, then drains the buffer and reads the line, as
main does; its actions are a turn of `bios_print`, the peek and the read of
`bios_clear_kbd_buf`, and one action per case of the switch in
`bios_read_line`. `taken` and `accepted` are histories: the keys that
bios_read_line took, and those the buffer accepted after the drain.
`LineIsWhatSurvives` compares the buffer with a definition of editing that
walks no buffer: a character stays unless later backspaces outnumber the later
characters up to some point.

The BIOS gives the loader no way to move to the row above: at column 0,
`dec dl` makes 255. The model sets `torn` there and follows the screen no
further. `EchoInStep` says that until then the row shows the prompt and what is
in the line, and what it takes to get there. The flags are a
variable, so that one run has the line as main reads it and with plain echo.

Two keys are characters to `bios_read_line` and not to the screen: Ctrl-G, a
bell, takes no cell and Ctrl-J, a line feed, only moves down (`BEL`, `LF` in
`Putc`). Echoed as they are they put the cursor and the count out of step, and a
later backspace erases a cell of the prompt. `EchoInStep` leaves out exactly
those calls (`ControlEchoed`: plain echo and such a key taken). main asks for
stars, which hide it, so there the property holds for these keys too.

### Boot1 and Unlock: from reset to halt

`Boot1` has one action per call or decision of `_cstart_`, `main`,
`try_decrypt`, `bios_read_sectors` and the parts of `pbkdf2` that touch the
heap. The stores of `_cstart_` go to the segment that DS holds (`Stored`), which
need not be the data's when boot1 is entered. The heap is the code's (2048
bytes, 64 to a block), each `malloc` one step by Heap's rule, which the proofs
justify. Lines come from the console at once, for Console has shown what they
are.

Cryptography is symbolic. A key is the record of salt, passphrase and PRF
entry. The encrypted header is a stack of layers; the right key takes the
disk's layer off, any other puts one on. Without layers the signature and the
CRC are those of the header's fields; with layers the four bytes of the
signature may match by chance, the CRC too may not. The comparison with the
signature is memcmp's, whose value is all of AX though it sets only AL: AH is
what the call before it left, the high half of `xts_uninit`'s 0 (`AX`, `AH`),
and with any other nothing would ever be found equal. Keys sections may be
damaged, the disk may hold no volume, and with `ReadErrors` any read may leave
the header in memory as it was, or as junk.

`Unlock` is what the person at the keyboard may rely on, and
`ImplementsUnlock` says Boot1 keeps it: the answer opens the volume if and only
if it is its passphrase (up to a NUL) and the keys are sound, unless a read
failed.

### HashStream: update and finalize

`rmd160.c` and `sha512.c` share their text and differ in constants; `hash` is
the record of those of the hash in use, chosen at the start from `Hashes`.
Compression is not looked into: the sequence of blocks stands for the chaining
value. Each byte of X is named by its origin, so a stale or misplaced byte
shows. `Padded` is the hash's own definition of padding. `count` is the code's
`int` of 16 bits: a piece must be short enough that it and what X holds
stay below 32768, and a message that `bytes`, a `uint32_t`, counts it. boot1
passes pieces of at most 128 bytes.

### Words, Sha512Compress, Rmd160Compress, Hashing: the hashes whole

A word is the set of its bits (`Words`), of 64 or 32 of them, and exclusive or
is the difference of two sets that `BitSets` gives to all modules with bits. Each compression
function is the code's, one action per round: `Sha512Compress` slides the
schedule through `ctx->X` and moves eight registers, `Rmd160Compress` walks its
tables of words and shifts on two lines of five. The references are written
another way, so that an error in the code's would not be in both: the schedule
is a sequence of its own, the registers are the values that a and e (in
RIPEMD-160, B) have had one to four rounds before, and RIPEMD-160's tables come
from its two permutations and from the rotation of each word in each round.

`Hashing` is HashStream with the words: for a message whose bytes are given,
`Compress` starts the rounds on each block as update or finalize completes it.
The messages have published digests, among them the two that the HMAC of the
first case in `boot1/test/rmd160test.c` and in `boot1/test/sha512test.c`
hashes.

### Pbkdf2: key derivation and HMAC

A byte is the set of the terms whose exclusive or it is, so that `^=` is a
symmetric difference and a byte that is stale, shifted or applied twice shows.
`pbkdf2`'s locals keep their names; `dk` is memory from the caller's buffer on,
past its end too, and `done` is how far the pointer has moved. The HMAC is
three actions (key and pads, inner, outer) and shares the arrays as the code
does. The digest is a function of what the context was fed; that update and
finalize compute one is HashStream's business. The references, RFC 2104 and
RFC 2898, are in `HMAC` and `U`, `F`, `INT`.

### Xts and Aes256

`Xts` has `xts_init`, which takes the second cipher's key from the middle of
the first's, `xts_uninit`, and the two ways of crypting, in any order. The
tweak is there byte by byte, `carry_in` with it, and the cipher is an ideal
one: a key of it is what `set_key_fn` reads at an offset, and `First` is what
the second cipher makes of a sector number. `TweakIsPower` looks at the tweak
as a polynomial. `under` is a history: the calls, with their keys, that the
data is under, which a call the other way takes off again. `RoundTrip` says
that the data is in the clear exactly when there are none.

`Aes256` has the cipher itself. Bytes are sets of bits, S-boxes are computed
with the code's loops over the powers of 3, and the schedule runs in place over
`ctx_key`, two round keys at a time. The reference is FIPS 197's text: inverses in
the field, the affine map, MixColumns as a matrix, the schedule by words. The
published example is an assumption of `MCAes256`, which TLC evaluates, so the
reference itself is checked. That the code's S-boxes are the standard's and
undo each other is a closed formula about 256 bytes (`SBoxAssumption`), which
TLC evaluates as well.

### Crc32

The three implementations take the same buffer, a byte at a time: boot1's and
boot0's in four turns of two bits each, with the table of four, and genhdr's
with its table of 256. The buffer has a byte at least: boot0 looks at its count
after the loop's body, and what 0 makes of it is in `Boot0` (`CrcCount`). The reference is the long division of the message by the
polynomial, and the published check value is an assumption of `MCCrc32`.
genhdr's table is there in full, since an entry of it is what could be wrong;
`TableAssumption`, which TLC evaluates, compares each with the division.

### MemOps, Shift64, BiosPrint and Primitives

The assembly of `fun.h` and `u8shift.s`, one action per turn of a loop, on
registers that wrap. In `MemOps` each call finds memory as the program may have
left it, and the direction flag as the last call has left it. The objects that
a call is given lie in the segment and do not wrap; those of memcpy, memcmp and
bswap do not overlap. Counts of 0 are in for the primitives that look at their
count, and out for those that do not, where no caller passes one. memcmp sets
AL and returns AX: `ah` is its upper half as the caller left it, and
`ResultRight` says that the value is 0 for equal memory only if that was 0.
What the one caller leaves there is in `Boot1`.

`BiosPrint` is `bios_print_hex` and `bios_print_number`, a division or a digit
at a time. `Primitives` has the calls of the three modules one after the other.

### BootImage and Boot0

`BootImage` is the build: make removes what is there and compiles anew, genhdr
reads the image and writes three header fields one after the other, cat and dd
lay out the disk. The compiling and the copy may fail; genhdr's read may fail,
or come up short anywhere, the header included, which leaves the rest of its
buffer, and perhaps the skip it takes from there, unset; a write may fail,
noticed or not, and may leave a torn field; cat may stop anywhere and dd may
not run, and make stops with them. The machine is started from the disk of a
build that make has called good.

`Boot0` extends it with the machine: power-on, with memory that may be what an
earlier boot left, the two reads, the CRC, the stack and the jump, and a timer
interrupt at any moment that pushes on the stack of the moment. Each push of
boot0's own is a step: the entry point's segment and offset go on the new stack
one after the other (`PushSegment`, `PushOffset`) before `Retf` takes them off,
so that an interrupt may come between any two and reach `DEPTH` cells below the
stack's top. A cell of
memory holds a field, an instruction, a word of the stack, or boot0's
`biosdev`: the drive is saved there before anything else, every read asks for
the drive that is there, and boot1 is handed it in DL, which the CRC has used
as a counter. The CRC is ideal in these two modules.

## What the runs show

| run | question | bounds |
|---|---|---|
| malloc | do all sequences of calls keep the allocator's promise? | 16 blocks of 2 bytes in 2 bitmap bytes; sizes of 3, 4, 7 and 16 blocks, three of them not multiples of a block |
| console | is the line right whatever is typed, whenever, with main's flags and with plain echo? | a prompt of 2, 6 key presses, a character, BEL and LF, a limit of 3, a buffer of 2 keys, a row with room for 2 more |
| boot1 | is the verdict right, is memory held and given back, is each header that could be read read anew? | lines of up to 2 keys over 2 characters and NUL and one of 64; all PRFs; any read may fail; 2 drives, 2 segments |
| boot1_stale | does every attempt start from the disk's header? **No** (finding) | the same |
| hash | is every message padded right, however cut, and for which lengths not? Is every round right, and the digest the published one? | the real blocks of 64 and 128 bytes, messages of up to 130 and 258; 8 messages of 3 to 192 bytes with published digests, round by round |
| sha512_digest | is it right for all? **No** (finding) | the same |
| pbkdf2 | is the key RFC 2898's, and nothing but the key written? | blocks of 4, digests of 2, keys of up to 3 blocks and a half, 3 iterations, counter bytes of 3 values |
| xts | is each tweak the last one times x, and does decrypting undo encrypting, and nothing else? | the real sizes and polynomial, 0, 1 and the 28 blocks of a header, 8 tweaks of one bit, 2 keys of both lengths and of one that is refused, 2 sectors, under up to 2 calls at once, undone or not, with the context set up anew in between or not |
| aes256 | is it AES-256, in any order of calls? | 3 keys, 3 blocks, 3 calls |
| crc32 | do the three agree, and with CRC-32? | all single bytes, pairs over 7 bytes, the check string |
| primitives | does every primitive leave what it should, for every count? | a segment of 6 bytes of one bit, four words of 2 bits, counts of 0 to 15, ints on both sides of the powers of 2, 10 and 16 and at both ends, 4 buffers, all calls in all orders |
| boot0 | is only what was built entered, only from a disk that is whole, and does a good disk boot? | sectors of 6 cells, images of 13 (the largest safe one), 14, 34 and 50, 2 drives, 2 boots of each build, 1 unnoticed error, reads and copies cut after 3 and 8 cells |

The allocator's code sees only which blocks are free, the byte boundary of the
bitmap and the rounding; 16 blocks with runs of 3, 4 and 7 fragment, cross the
boundary and exhaust the heap, and the proofs cover all other sizes. A line of
3 with a row of 2 has every combination of full line, full row and full BIOS
buffer. The hash runs have their real constants, and messages that span two
blocks reach each state of the buffer twice. A compression function has no
bound to choose, but its inputs are too many: the published messages drive it
with 14 blocks and chaining values, and each bit of a word depends on so many
others that a wrong constant, shift or register spoils nearly every bit of
a digest.

In pbkdf2 the keys end before, on and after a block's end, and the passphrase
lengths lie on both sides of the hash's block. A tweak is a sum of tweaks of
one bit and each step of it is linear; those of the run meet the carry inside a
byte, between bytes and out of the last, in the first block and in the last.
The CRC is linear too, and all 256 entries of the table are used by the single
bytes. The images of the boot0 run fit below the stack, reach it, reach boot0
itself, and are larger than the segment, so that AL, CX and the layout's sector
are all passed; a read is cut before the field of the skip and behind it.

## Fairness

There is one thread, and the processor keeps running it: weak fairness of the
allocator's steps within a call, of the loader's steps in Console, of boot1's
steps, and of pbkdf2's. Nothing is assumed of
people: no key need be pressed, no call made, no line finished. `ReturnHeard`
starts from a RETURN that is in the buffer; that the drain ends is not claimed,
since a person may type for ever.

## What is proved

Eight modules of proofs, each named for the module it is mainly about
(`Boot0Proofs` has the CRCs too, `XtsProofs` AES-256). In each an
invariant `IndInv`, which no step can break, gives the properties that the runs
check; TLC checked `IndInv` itself on the runs' instances first, where it can
evaluate it. It is needed because none of the properties is inductive: each says
what holds when a call or an attempt is over, and `IndInv` says for every value
of `pc` how far the code has come. A proof has one lemma per action.

`MallocProofs`, for every size of heap and block, every base address and every
set of sizes that `HeapAssumption` allows (at least one byte, and no overflow
when rounded): `TypeCorrect`, `BitmapIsExact` and `AllocationsSeparate` are
the type invariant and the two safety invariants of the run, and by
`Refinement` `Malloc` implements `Heap`. Between calls the bitmap is the blocks
of the live allocations, but in the middle of one it is that and the part of a
run marked so far, or the part not cleared yet. `IndInv` adds what the scan
knows at its position (`Scanned`): the run it is in is maximal to the left, and
no run that would do lies wholly before. That second part makes the first fit,
and the refinement, come out.

`Boot1Proofs`, for every set of volumes, lines and drives, any number of PRFs
and every heap with room for the four allocations of boot1 (`Boot1Assumption`;
in the code they take 2, 1, 4 and 2 of 32 blocks): `MemoryIsHeld`,
`NothingIsLeaked`, `ReadIsFresh`, `VerdictIsRight`, `OpenedHeaderIsPlain`, and
by `Refinement` that each step of main and try_decrypt is one of `Unlock` or
none. First fit stacks the four allocations, so `HeapInv` can say block by
block what is in use at each `pc`. `HeaderInv` carries the verdict: a header
that nothing has been read into since an attempt is one that no derived key
opens (`Spent`), so an attempt without its read fails.

`ConsoleProofs`, for every prompt, limit, size of the BIOS buffer, set of keys
and speed of typing: `LineIsRight`, `LineEndsOnce`, `KeysAreKept` and
`EchoFollows`. The definition of editing counts backspaces against characters
from each position on; the proof gives each key taken a rank and follows by how
much the backspaces after it exceed the characters, which is what the buffer's
index moves by.

`Boot0Proofs`, for every size of sector, image and memory and every place of
the stack, the BIOS's stack and boot0 that `PlacesAssumption` allows:
`BuiltRight`, `RunsBuilt`, `RunsUntouchedImage`, `EntersWhole` and
`GoodDiskIsBooted`. The
invariant follows the header through the three writes of genhdr, and the image
through cat, dd and the reads into memory; it keeps apart the cells of the
image, of the stack of the moment and of boot0. A cell of memory is never what
an image's cell that was not written is, so a CRC over fewer bytes than were
read cannot match, and boot0's own cell bounds the size that can be loaded. `EntersWhole` rests on
the same: a header that says 0 makes the CRC go over the whole segment, one that
was taken from a short read has cells in it that no image has, and a sector of
tc.hdr or a cell missing on the disk is not in the CRC of the whole file.
`CrcsAreRight` is `CrcsAgree` for
non-empty buffers of every length and content, which is what lets boot0 believe genhdr.
The register is the remainder of the division of the bytes so far, mirrored
(`RegisterUp`): another byte moves the dividend up by eight places, and to
reduce it by eight is to turn the register eight times. Turning is linear
(`TurnXor`), so the low bits can be taken out, turned by themselves and put
back, and that is what an entry of a table is: of two bits in the tables of
boot1 and boot0, of eight in genhdr's.

`PrimitivesProofs`, for every segment, width of a register and place, overlap
and count that the callers' rules allow: `MemoryIsRight`, `ResultIsRight` (of
memcmp's AX, for any AH that it is called with) and `DirectionIsClear`, with `ShiftIsRight` for the shifts and rotations. At each
turn of a loop the bytes that it has come to are right and the others as they
were; that memmove's source is still whole where it has not come yet is why it
must set the direction flag when the destination is above the source. In a
shift, bit p comes from place p less or more the turns so far, and `rotr64` by
0 goes around the whole word. `PrintIsRight` is `PrintRight` for every base,
every number below two to the power of the buffer's size, and any bytes: each
division leaves a number that has as many halves as the buffer has places left
(`DivideInv`), and the digits that came out of the divisions from the last to
the first go out from the first to the last (`EmitInv`).

`HashingProofs`, for every hash that `HashAssumption` allows (a field for
the length that is shorter than a block, a threshold at or above the field's
start), every message of less than 2^32 bytes, and pieces that are no longer
than what update's 16-bit `count` holds together with what can be in X (32704
bytes for RIPEMD-160, 32640 for SHA-512; `IntHolds` is the lemma that no count
then wraps, and beyond it the code's would go negative):

* `AnyChunks`: `ChunksDoNotMatter`, for any cut into such pieces;
* `AnyLength`: `DigestRightUnlessOverlap`, which tells exactly the lengths for
  which the padding is wrong;
* `RoomMakesRight`: a threshold at the field's start, as in `rmd160.c`, makes
  every digest of such a message right. It is what `sha512.c` would have to have.

Its `IndInv` says, in update, how many blocks of the message are compressed and
which of its bytes lie in X (`Streamed`), and that `count` and `missing` say
so; in finalize, what X holds byte by byte (`LastCell`), on both ways to the
length. The lemmas `PaddedShort` and `PaddedLong` write the hash's definition
of padding the same way, block by block, and `FinalShort` and `FinalLong`
compare the two; the overlap is where one says a block less than the other.

It goes on with the rounds, for every message of bytes: `RoundsAreRight` is
`RoundsRight`, that each block is compressed as FIPS 180 and the definition of
RIPEMD-160 say, from any chaining value. Its invariant, `RoundInv`, says for
each round what is in X and in the registers. For SHA-512 X holds the sixteen
words of the schedule that the coming rounds need, while the reference's
schedule is a sequence that only grows, and the registers are the last four
values of a and of e. For RIPEMD-160 (`Tables`) the code's four tables of 80
entries are shown to be what the two permutations and the rotations by word
make, and two lines of five registers to be the last five values of B, some of
them rotated. `HashingIsStreaming` says that the hashes whole are those of
HashStream, with the rounds as stutters; so the theorems above hold of them.

`Pbkdf2Proofs`, for every size of block and digest, every number of iterations
and passphrases, salts and keys of every length: `HmacIsRight` and
`KeyIsRight`. `IndInv` says which of RFC 2898's U's is in `ut` and in `msg`,
that the block under way is the exclusive or of the first c of them, and what
is in ipad and opad after each part of an HMAC.

`XtsProofs`, for every size of block and byte, every polynomial with a
constant term, data of every length and any sequence of calls and keys:
`TweaksAreRight` and `DecryptingUndoes`. On the way through the tweak's bytes
those before `i` are of the tweak times x and the others still of the tweak,
and `carry_in` is the bit between them. For the round trip each block is under
the calls of `under`, with its own power of x for each: the powers of two
sectors' tweaks differ in every block, because multiplying by x can be undone
(this is where the constant term is needed), so a call only undoes one that
had the same key and sector.

It also has AES-256, for every key and block, and any number of calls in any
order:

* `AesSchedule`: `ScheduleRight`, that each round uses the standard's round
  key. The invariant, `AesInv`, says how many times the key in memory has been
  turned; a turn is eight words of the schedule (`WordsExpanded`), and the turn
  back undoes the turn in place (`DecUndoes`), which is the point where the
  order of its words matters.
* `AesCrypts`: `CryptsRight`. Encrypting is followed round by round. In
  decrypting `AesInv` says that every block which is `buf` after the rounds
  not yet undone has the given ciphertext, and each step is shown to undo one
  of encrypting: `BackForth` does it for MixColumns, which is linear, on four
  bytes that may have any value.
* `AesDecryptsBack`: no two blocks have the same ciphertext, so what comes out
  of decrypting is the block that was encrypted.

The recursions that define U, F, the powers of x, the value of digits, the
schedules, the rounds and the long division are not taken to have a solution, but shown to: a chain of n values exists for every
n, and any two agree. That is an induction over numbers and uses the set of the
n for which it holds.

Only model-checked: liveness (malloc's `CallsReturn`, `ReturnHeard`, `AnswerReported`,
`KeyComesOut`), which the prover cannot do under fairness; and
`DigestPublished`, which is about eight messages and the digests that others
have published for them: to prove it would be to compute them, which TLC does.

## Findings

* `boot1.c:84`: the result of the read is ignored. After a failed read an
  attempt decrypts the header its predecessor has already decrypted in place,
  which the comment above the line says must not happen. `VerdictRight` shows
  the damage is confined: that attempt finds no signature, and if it was the
  one that mattered, the right passphrase is called wrong.
* `sha512.c:249`: the padding moves the length to the next block only from 120
  bytes on, where SHA-512 needs it from 112. `DigestRightUnlessOverlap` gives
  the exact lengths. boot1 hashes 192 and 196 bytes, which are not among them.

Beside the findings, the runs mark limits of the code. At `genhdr.c:98` a write
that fails returns -1, which the comparison with the unsigned `sizeof` takes
for a large count: genhdr reports success and the header keeps a zero.
A short read goes by it as well, and dd puts tc.hdr over sector 62 whatever is
there. `EntersOnlyWhole` shows that boot0 starts none of these images, unless
all that is missing is the size to load, one sector is enough or an earlier boot
has left the rest in memory; and `BuiltUnlessUnnoticed` that nothing else goes
wrong. An image must stay below
the stack and what boot0 and an interrupt push on it (`SafeSize`): above that interrupts write over it after its CRC has
been checked, and one that reaches boot0 cannot be loaded. The same limit keeps
it below sector 62, where dd puts tc.hdr. A line of more than 61 characters
cannot be erased properly on the screen, and neither could one with a bell or a
line feed in it if main did not ask for stars.

## Assumptions

Cryptography is ideal wherever a module says so: a key opens only what it
closed, digests and CRCs of different data differ (but for the chance matches
that Boot1 allows explicitly). The BIOS reads the sectors it is asked for
across tracks, reports errors, and its stack lies outside the image. The
constants are bound by the named assumptions of the modules, which every run
checks for its instance: among them that boot1's allocations fit into its heap,
that the stacks and boot0 lie apart in memory and tc.hdr's sector is behind what
there is room for below boot0 (`PlacesAssumption`), that hashed pieces fit an
`int` and messages a `uint32_t` (`HashAssumption`), that the
prompt is shorter than a row, and that the polynomial of XTS has a constant
term, as 0x87 does. `SBoxAssumption` and `TableAssumption` assume nothing: they
have no constants in them, and TLC works them out. The compiler translates C as C; the assembly is modelled
from its text.

## Not modelled

Debug output (that is, which numbers and buffers main prints with the printing
routines when it is built with DEBUG), the `_STANDALONE` builds, the tables of
`BACK_TO_TABLES` and the programs of `boot1/test`. `malloc(0)` and sizes near
INT_MAX, which no caller asks for, are excluded by `HeapAssumption`; `bzero` is
memset with 0. boot1's C stack has no size in the model: nothing in the code
bounds it but the image's distance to it, which `Boot0` looks at. When
`xts_init` is given a key of 32 bytes, which boot1 never does, `aes256_init`
reads 32 bytes from each half and so beyond the key; the cipher of `Xts` takes
what it reads at an offset, whatever it is.
