--------------------------------- MODULE Hashing --------------------------------
(***************************************************************************)
(* The hashes whole: HashStream with the compression functions.            *)
(*                                                                         *)
(* HashStream says which blocks are compressed, over bytes named by their  *)
(* origin.  For the messages of test programs and standards, whose bytes   *)
(* and digest are given, each block is now compressed as it comes, round   *)
(* by round, by Sha512Compress or Rmd160Compress, and nothing else goes on *)
(* meanwhile.  A record of Hashes has for that, beside HashStream's:       *)
(*   name      "sha512" or "rmd160"                                        *)
(*   message   the bytes of the message, or ANY_MESSAGE                    *)
(*   digest    its published digest, in numbers of 16 bits                 *)
(***************************************************************************)
EXTENDS HashStream

ANY_MESSAGE == <<"any">>

VARIABLES
  h,      \* ctx->h
  words,  \* ctx->X as words
  regs,   \* the locals of the compression function
  j       \* its round

chaining == <<h, words, regs, j>>
hashing == <<vars, chaining>>

W64 == INSTANCE Words WITH W <- 64
W32 == INSTANCE Words WITH W <- 32
Sha512 == INSTANCE Sha512Compress WITH X <- words, abc <- regs
Rmd160 == INSTANCE Rmd160Compress WITH X <- words, lines <- regs

IsSha512 == hash.name = "sha512"
Concrete == hash.message # ANY_MESSAGE
IDLE == -1

HashingInit ==
  /\ Init
  /\ h = IF IsSha512 THEN Sha512!InitialH ELSE Rmd160!InitialH
  /\ words = [n \in 0 .. 16 |-> {}]
  /\ regs = <<>>
  /\ j = IDLE

(* The bits of a byte.  The length goes in as a number of bits, shifted by *)
(* 3, in the order of bytes that the hash has its words in.                *)
BitsOf(n) == {p \in 0 .. 15 : (n \div 2 ^ p) % 2 = 1}

(* Mutant: the length is not swapped. *)
LengthByteUnswapped(n, k) ==
  {p - 8 * k : p \in {q + 3 : q \in BitsOf(n)} \cap 8 * k .. 8 * k + 7}

LengthByte(n, k) ==
  LET low == 8 * (IF IsSha512 THEN 7 - k ELSE k)
  IN  {p - low : p \in {q + 3 : q \in BitsOf(n)} \cap low .. low + 7}

ByteBits(b) ==
  CASE b[1] = "msg" -> BitsOf(hash.message[b[2]])
    [] b[1] = "len" -> LengthByte(b[2], b[3])
    [] b = ONE -> {7}
    [] b = ZERO -> {}

(* A block in memory as the words the compression function sees there.     *)
AsWords(block) ==
  LET sz == IF IsSha512 THEN 8 ELSE 4
      cell(n) == [k \in 1 .. sz |-> ByteBits(block[sz * n + k])]
  IN  [n \in 0 .. 15 |-> IF IsSha512 THEN W64!FromBytes(cell(n)) ELSE W32!FromBytes(cell(n))]

Compress(block) ==
  IF IsSha512 THEN Sha512!Enter(AsWords(block)) ELSE Rmd160!Enter(AsWords(block))

(* What finalize writes to dst: SHA-512 swaps each word. *)
DigestByte(n) ==
  IF IsSha512 THEN W64!ByteOf(W64!Bswap(h[n \div 8]), n % 8) ELSE W32!ByteOf(h[n \div 4], n % 4)

(* A step of update or finalize; if it compresses a block, this starts it. *)
Stream ==
  /\ j = IDLE
  /\ Next
  /\ Concrete /\ pc' = "padded" => fed = Len(hash.message)
  /\ IF Concrete /\ blocks' # blocks THEN Compress(blocks'[Len(blocks')]) ELSE UNCHANGED chaining

CompressStep ==
  /\ \/ IsSha512 /\ (Sha512!Round \/ Sha512!Leave)
     \/ ~IsSha512 /\ (Rmd160!Round \/ Rmd160!Leave)
  /\ UNCHANGED vars

HashingNext == Stream \/ CompressStep
HashingSpec == HashingInit /\ [][HashingNext]_hashing
-----------------------------------------------------------------------------
(* Each block is compressed as its hash's definition says, from the        *)
(* chaining value the blocks before it have left: the words that slide     *)
(* through X, the registers that change places, the tables of words and    *)
(* shifts.  SHA-512's X ends with the last 16 words of the schedule.       *)
RoundsRight ==
  j = 80 =>
    LET block == AsWords(blocks[Len(blocks)])
    IN  IF IsSha512
          THEN /\ regs = Sha512!Rounds(h, block)
               /\ \A n \in 0 .. 15 : words[n] = Sha512!Schedule(block)[65 + n]
          ELSE regs = Rmd160!Rounds(h, block)

PublishedByte(n) ==
  LET pair == hash.digest[1 + n \div 2]
  IN  BitsOf(IF n % 2 = 0 THEN pair \div 256 ELSE pair % 256)

(* The digest of a message is the published one, in whatever pieces it is  *)
(* fed.                                                                    *)
DigestPublished ==
  pc = "done" /\ j = IDLE /\ Concrete =>
    \A n \in 0 .. 2 * Len(hash.digest) - 1 : DigestByte(n) = PublishedByte(n)
=============================================================================
