------------------------------- MODULE HashStream -------------------------------
(***************************************************************************)
(* The streaming of a message through rmd160_update and rmd160_finalize    *)
(* (src/boot1/rmd160.c), and through their twins in src/boot1/sha512.c:    *)
(* one text with other constants.                                          *)
(*                                                                         *)
(* The compression function is not looked into here, but in Hashing.  It   *)
(* is a function of the chaining value and the block, so `blocks', the     *)
(* sequence of the blocks compressed, stands for the chaining value: two   *)
(* messages have the same digest here when the same blocks were compressed.*)
(* A byte is named by where it comes from.                                 *)
(***************************************************************************)
EXTENDS Integers, Sequences

CONSTANTS
  Hashes  \* the hashes, each by the constants of its text:
          \*   BLOCK_SZ   bytes of a block
          \*   X_SZ       bytes of ctx->X
          \*   CLOBBERS   whether compressing leaves X in shreds (sha512 slides W through it)
          \*   THRESHOLD  from this many bytes on the length goes to the next block
          \*   LEN_AT     where finalize writes the length
          \*   LEN_SZ     in how many bytes
          \*   LEN_FIELD  bytes the hash's definition reserves for the length
          \* and by the bounds of the model:
          \*   Chunks     lengths of the pieces a caller hashes
          \*   MaxBytes   length of the message

(* count is an int, which has 16 bits on the 8086: the value of x in one,  *)
(* the compiler truncates.                                                 *)
INT_MAX == 32767
AsInt(x) == ((x + INT_MAX + 1) % (2 * (INT_MAX + 1))) - (INT_MAX + 1)

(* Of a piece, that its length and what can be in X before it are an int   *)
(* together: more than that the program never has in one place.  Of the    *)
(* message, that ctx->bytes, a uint32_t, counts it.                        *)
ASSUME HashAssumption ==
  \A h \in Hashes :
    /\ h.BLOCK_SZ \in Nat \ {0}
    /\ h.X_SZ \in Nat /\ h.X_SZ >= h.BLOCK_SZ
    /\ h.CLOBBERS \in BOOLEAN
    /\ h.LEN_SZ \in Nat \ {0} /\ h.LEN_FIELD \in h.LEN_SZ .. h.BLOCK_SZ - 1
    /\ h.THRESHOLD \in h.BLOCK_SZ - h.LEN_FIELD .. h.BLOCK_SZ
    /\ h.LEN_AT \in Nat /\ h.LEN_AT + h.LEN_SZ = h.BLOCK_SZ
    /\ h.Chunks \subseteq 0 .. INT_MAX - (h.BLOCK_SZ - 1)
    /\ h.MaxBytes \in Nat /\ h.MaxBytes \div 65536 <= 65535

(* The n-th byte of the message, a zero, the byte 0x80 that ends it, a zero *)
(* that 0x80 was xored into anything else, byte k of a length, and what     *)
(* compressing leaves behind.                                               *)
Msg(n) == <<"msg", n>>
ZERO == <<"zero">>
ONE == <<"0x80">>
MIXED == <<"mixed">>
STALE == <<"stale">>
Len8(n, k) == <<"len", n, k>>

VARIABLES
  hash,         \* the hash in use
  X,            \* the block buffer, bytes 0 .. X_SZ - 1
  bytes_in_x,
  bytes,
  blocks,       \* the blocks compressed
  pc,
  msglen,       \* bytes of the piece not copied yet
  count,        \* bytes_in_x + msglen, as an int
  missing,      \* bytes that complete the block
  fed           \* history: bytes of the message given to update

BLOCK_SZ == hash.BLOCK_SZ
THRESHOLD == hash.THRESHOLD
LengthBytes == hash.LEN_AT .. hash.LEN_AT + hash.LEN_SZ - 1

context == <<X, bytes_in_x, bytes, blocks>>
piece == <<msglen, count, missing>>
vars == <<hash, context, pc, piece, fed>>

(* rmd160_init; the buffer is on the stack and holds anything. *)
Init == /\ hash \in Hashes
        /\ X = [b \in 0 .. hash.X_SZ - 1 |-> STALE]
        /\ bytes_in_x = 0
        /\ bytes = 0
        /\ blocks = <<>>
        /\ pc = "ready"
        /\ msglen = 0 /\ count = 0 /\ missing = 0
        /\ fed = 0

BlockIn(x) == [n \in 1 .. BLOCK_SZ |-> x[n - 1]]
AfterCompress(x) == IF hash.CLOBBERS THEN [b \in DOMAIN x |-> STALE] ELSE x

(* memcpy of the piece's next n bytes to X+bytes_in_x: the piece ends at   *)
(* byte fed of the message.                                                *)
Copied(n) == [b \in DOMAIN X |->
                IF b \in bytes_in_x .. bytes_in_x + n - 1
                  THEN Msg(fed - msglen + (b - bytes_in_x) + 1) ELSE X[b]]

(* update(ctx, msg, n) *)
UpdateCall(n) ==
  /\ pc = "ready"
  /\ fed + n <= hash.MaxBytes
  /\ fed' = fed + n
  /\ bytes' = bytes + n
  /\ msglen' = n
  /\ count' = AsInt(bytes_in_x + n)
  /\ missing' = BLOCK_SZ - bytes_in_x
  /\ pc' = "update"
  /\ UNCHANGED <<X, bytes_in_x, blocks>>

(* The rest of the block comes in and the block is compressed; miss is     *)
(* what the next one will miss.                                            *)
FillBlockMissing(miss) ==
  /\ pc = "update"
  /\ count >= BLOCK_SZ
  /\ blocks' = Append(blocks, BlockIn(Copied(missing)))
  /\ X' = AfterCompress(Copied(missing))
  /\ msglen' = msglen - missing
  /\ count' = count - BLOCK_SZ
  /\ missing' = miss
  /\ bytes_in_x' = 0
  /\ UNCHANGED <<bytes, pc, fed>>

(* Mutant: what the buffer misses is not set back. *)
FillBlockKeepsMissing == FillBlockMissing(missing)

FillBlock == FillBlockMissing(BLOCK_SZ)

KeepRest ==
  /\ pc = "update"
  /\ count < BLOCK_SZ
  /\ IF msglen > 0
       THEN /\ X' = Copied(msglen)
            /\ bytes_in_x' = bytes_in_x + msglen
       ELSE UNCHANGED <<X, bytes_in_x>>
  /\ pc' = "ready"
  /\ msglen' = 0 /\ count' = 0 /\ missing' = 0
  /\ UNCHANGED <<bytes, blocks, fed>>

(* finalize: zero the rest of X and end the message with the bit 1. *)
Zeroed(x, from) == [b \in DOMAIN x |-> IF b >= from THEN ZERO ELSE x[b]]

PadOne ==
  /\ pc = "ready"
  /\ LET x == Zeroed(X, bytes_in_x)
     IN  X' = [x EXCEPT ![bytes_in_x] = IF @ = ZERO THEN ONE ELSE MIXED]
  /\ pc' = "padded"
  /\ UNCHANGED <<bytes_in_x, bytes, blocks, piece, fed>>

LengthToNextBlockIn(x) ==
  /\ pc = "padded"
  /\ bytes_in_x >= THRESHOLD
  /\ blocks' = Append(blocks, BlockIn(X))
  /\ X' = x
  /\ pc' = "length"
  /\ UNCHANGED <<bytes_in_x, bytes, piece, fed>>

(* Mutant: the next block is not cleared. *)
LengthToNextBlockDirty == LengthToNextBlockIn(X)

LengthToNextBlock == LengthToNextBlockIn([b \in DOMAIN X |-> ZERO])

LengthFits ==
  /\ pc = "padded"
  /\ bytes_in_x < THRESHOLD
  /\ pc' = "length"
  /\ UNCHANGED <<context, piece, fed>>

AppendLength ==
  /\ pc = "length"
  /\ LET x == [b \in DOMAIN X |-> IF b \in LengthBytes
                                    THEN Len8(bytes, b - hash.LEN_AT) ELSE X[b]]
     IN  /\ blocks' = Append(blocks, BlockIn(x))
         /\ X' = AfterCompress(x)
  /\ pc' = "done"
  /\ UNCHANGED <<bytes_in_x, bytes, piece, fed>>

Next == /\ \/ \E n \in hash.Chunks : UpdateCall(n)
           \/ FillBlock \/ KeepRest
           \/ PadOne \/ LengthToNextBlock \/ LengthFits \/ AppendLength
        /\ UNCHANGED hash

Spec == Init /\ [][Next]_vars
-----------------------------------------------------------------------------
(* The padded message of the hash's definition: the message, the bit 1, as *)
(* few zeros as make the whole a number of blocks, and the length, which   *)
(* ends in the LEN_SZ bytes that are not always zero.                      *)
PaddedBlocks(n) == (n + 1 + hash.LEN_FIELD + (BLOCK_SZ - 1)) \div BLOCK_SZ

PaddedByte(n, p) ==
  LET end == BLOCK_SZ * PaddedBlocks(n)
  IN  CASE p <= n -> Msg(p)
        [] p = n + 1 -> ONE
        [] p > end - hash.LEN_SZ -> Len8(n, p - (end - hash.LEN_SZ) - 1)
        [] OTHER -> ZERO

Padded(n) ==
  [m \in 1 .. PaddedBlocks(n) |->
     [k \in 1 .. BLOCK_SZ |-> PaddedByte(n, BLOCK_SZ * (m - 1) + k)]]

(* However the message is cut into pieces, the context between two updates *)
(* is that of the message so far: whole blocks compressed, the rest in X.  *)
ChunksDoNotMatter ==
  pc = "ready" =>
    /\ bytes = fed
    /\ bytes_in_x = fed % BLOCK_SZ
    /\ blocks = [m \in 1 .. fed \div BLOCK_SZ |->
                   [k \in 1 .. BLOCK_SZ |-> Msg(BLOCK_SZ * (m - 1) + k)]]
    /\ \A b \in 0 .. bytes_in_x - 1 : X[b] = Msg(fed - bytes_in_x + b + 1)

(* The digest is that of the message, padded as the hash defines it. *)
DigestRight == pc = "done" => blocks = Padded(fed)

(* The padding goes wrong for the lengths between the room the length      *)
(* needs and the threshold, where the message reaches into its field, and  *)
(* for no others.                                                          *)
Overlaps(n) == n % BLOCK_SZ \in BLOCK_SZ - hash.LEN_FIELD .. THRESHOLD - 1

DigestRightUnlessOverlap ==
  pc = "done" => (blocks = Padded(fed) <=> ~Overlaps(fed))
=============================================================================
