----------------------------- MODULE HashingProofs ------------------------------
(***************************************************************************)
(* Proofs about the hashes: first their streaming, for every hash, message *)
(* and cut into pieces that HashAssumption allows, which are the messages  *)
(* that a uint32_t counts in pieces that an int counts; then the           *)
(* compression functions, for every block and every chaining value.        *)
(***************************************************************************)
EXTENDS Hashing, SequenceTheorems, WellFoundedInduction, TLAPS

(* The whole blocks of the message, and the n-th byte after block c.       *)
MsgBlock(m) == [k \in 1 .. BLOCK_SZ |-> Msg(BLOCK_SZ * (m - 1) + k)]
MsgBlocks(c) == [m \in 1 .. c |-> MsgBlock(m)]
After(c, n) == Msg(BLOCK_SZ * c + n)

(* Between the calls, and in update: c blocks have been compressed, the    *)
(* next bytes_in_x bytes lie in X, and the rest of the piece comes after.  *)
Streamed(c) ==
  /\ blocks = MsgBlocks(c)
  /\ fed - msglen = BLOCK_SZ * c + bytes_in_x
  /\ \A b \in 0 .. bytes_in_x - 1 : X[b] = After(c, b + 1)

(* In finalize, X ends with the bit 1 and zeros, once all is streamed.     *)
LastCell(c, b) ==
  IF b < bytes_in_x THEN After(c, b + 1) ELSE IF b = bytes_in_x THEN ONE ELSE ZERO
LastBlock(c) == [k \in 1 .. BLOCK_SZ |-> LastCell(c, k - 1)]

TypeInv ==
  /\ hash \in Hashes
  /\ DOMAIN X = 0 .. hash.X_SZ - 1
  /\ bytes_in_x \in 0 .. BLOCK_SZ - 1
  /\ fed \in Nat /\ bytes = fed /\ msglen \in 0 .. fed
  /\ pc \in {"ready", "update", "padded", "length", "done"}

StageInv ==
  /\ pc \in {"ready", "padded", "length"} => msglen = 0
  /\ pc \in {"ready", "update"} => \E c \in Nat : Streamed(c)
  /\ pc = "update" => count = bytes_in_x + msglen /\ missing = BLOCK_SZ - bytes_in_x
  /\ pc = "padded" =>
       \E c \in Nat : /\ blocks = MsgBlocks(c)
                      /\ fed = BLOCK_SZ * c + bytes_in_x
                      /\ \A b \in 0 .. BLOCK_SZ - 1 : X[b] = LastCell(c, b)
  /\ pc = "length" =>
       \E c \in Nat :
         /\ fed = BLOCK_SZ * c + bytes_in_x
         /\ IF bytes_in_x >= THRESHOLD
              THEN /\ blocks = Append(MsgBlocks(c), LastBlock(c))
                   /\ \A b \in 0 .. BLOCK_SZ - 1 : X[b] = ZERO
              ELSE /\ blocks = MsgBlocks(c)
                   /\ \A b \in 0 .. BLOCK_SZ - 1 : X[b] = LastCell(c, b)
  /\ DigestRightUnlessOverlap

IndInv == TypeInv /\ StageInv
-----------------------------------------------------------------------------
(* The constants of the hash in use. *)
LEMMA HashShape ==
  ASSUME hash \in Hashes
  PROVE  /\ BLOCK_SZ \in Nat \ {0}
         /\ hash.X_SZ \in Nat /\ hash.X_SZ >= BLOCK_SZ
         /\ hash.LEN_SZ \in Nat \ {0}
         /\ hash.LEN_FIELD \in hash.LEN_SZ .. BLOCK_SZ - 1
         /\ THRESHOLD \in BLOCK_SZ - hash.LEN_FIELD .. BLOCK_SZ
         /\ hash.LEN_AT \in Nat /\ hash.LEN_AT + hash.LEN_SZ = BLOCK_SZ
         /\ hash.Chunks \subseteq 0 .. INT_MAX - (BLOCK_SZ - 1)
BY HashAssumption DEF BLOCK_SZ, THRESHOLD

(* Division, from a quotient and a remainder. *)
LEMMA DivMod ==
  ASSUME NEW d \in Nat \ {0}, NEW q \in Nat, NEW r \in 0 .. d - 1
  PROVE  (d * q + r) \div d = q /\ (d * q + r) % d = r
OBVIOUS

(* What an int can hold, it holds. *)
LEMMA IntHolds ==
  ASSUME NEW x \in 0 .. INT_MAX
  PROVE  AsInt(x) = x
<1> DEFINE S == 2 * (INT_MAX + 1)
           r == x + INT_MAX + 1
<1>1. x \in Nat /\ INT_MAX \in Nat /\ S \in Nat \ {0} /\ r \in 0 .. S - 1
  <2>1. INT_MAX \in Nat
    BY DEF INT_MAX
  <2> QED
    BY <2>1
<1> HIDE DEF S, r
<1>2. (S * 0 + r) % S = r
  BY <1>1, DivMod
<1>3. S * 0 + r = r
  BY <1>1
<1>4. r % S = r
  BY <1>2, <1>3
<1> QED
  BY <1>1, <1>4 DEF AsInt, S, r

(* Append, on sequences as functions. *)
LEMMA AppendAt ==
  ASSUME NEW n \in Nat, NEW f, f = [m \in 1 .. n |-> f[m]], NEW x
  PROVE  Append(f, x) = [m \in 1 .. n + 1 |-> IF m <= n THEN f[m] ELSE x]
<1> DEFINE S == {f[m] : m \in 1 .. n} \cup {x}
<1>1. f \in [1 .. n -> S]
  OBVIOUS
<1>2. f \in Seq(S) /\ Len(f) = n
  BY <1>1
<1>3. x \in S
  OBVIOUS
<1> HIDE DEF S
<1>4. /\ Append(f, x) \in Seq(S) /\ Len(Append(f, x)) = n + 1
      /\ \A m \in 1 .. n : Append(f, x)[m] = f[m]
      /\ Append(f, x)[n + 1] = x
  BY <1>2, <1>3, AppendProperties
<1>5. Append(f, x) \in [1 .. n + 1 -> S]
  BY <1>4, LenProperties
<1>6. Append(f, x) = [m \in 1 .. n + 1 |-> Append(f, x)[m]]
  BY <1>5
<1>7. \A m \in 1 .. n + 1 : Append(f, x)[m] = IF m <= n THEN f[m] ELSE x
  BY <1>4
<1> QED
  BY <1>6, <1>7

LEMMA AppendBlock ==
  ASSUME NEW c \in Nat, NEW x
  PROVE  Append(MsgBlocks(c), x) = [m \in 1 .. c + 1 |-> IF m <= c THEN MsgBlock(m) ELSE x]
<1> DEFINE f == MsgBlocks(c)
<1>1. f = [m \in 1 .. c |-> f[m]] /\ \A m \in 1 .. c : f[m] = MsgBlock(m)
  BY DEF MsgBlocks
<1> HIDE DEF f
<1>2. Append(f, x) = [m \in 1 .. c + 1 |-> IF m <= c THEN f[m] ELSE x]
  BY <1>1, AppendAt
<1> QED
  BY <1>1, <1>2 DEF f

LEMMA AppendMsgBlock ==
  ASSUME NEW c \in Nat
  PROVE  Append(MsgBlocks(c), MsgBlock(c + 1)) = MsgBlocks(c + 1)
BY AppendBlock DEF MsgBlocks
-----------------------------------------------------------------------------
(* How many blocks the hash's definition pads a message to, and when the   *)
(* code's padding overlaps, after c whole blocks and bytes_in_x bytes.     *)
LEMMA PaddedCount ==
  ASSUME TypeInv, NEW c \in Nat, fed = BLOCK_SZ * c + bytes_in_x
  PROVE  /\ PaddedBlocks(fed) = IF bytes_in_x >= BLOCK_SZ - hash.LEN_FIELD THEN c + 2 ELSE c + 1
         /\ Overlaps(fed) <=> bytes_in_x \in BLOCK_SZ - hash.LEN_FIELD .. THRESHOLD - 1
<1> DEFINE B == BLOCK_SZ
           F == hash.LEN_FIELD
           r == bytes_in_x
<1>1. B \in Nat \ {0} /\ F \in 1 .. B - 1 /\ r \in 0 .. B - 1
  <2>1. hash \in Hashes /\ r \in 0 .. B - 1
    BY DEF TypeInv
  <2>2. B \in Nat \ {0} /\ hash.LEN_SZ \in Nat \ {0} /\ F \in hash.LEN_SZ .. B - 1
    BY <2>1, HashShape
  <2> HIDE DEF B, F, r
  <2> QED
    BY <2>1, <2>2
<1>2. fed % B = r
  <2>1. (B * c + r) % B = r
    BY <1>1, DivMod
  <2> QED
    BY <2>1
<1>3. PaddedBlocks(fed) = (B * c + r + F + B) \div B
  <2>1. fed + 1 + F + (B - 1) = B * c + r + F + B
    BY <1>1
  <2> QED
    BY <2>1 DEF PaddedBlocks
<1>4. CASE r >= B - F
  <2>1. r + F - B \in 0 .. B - 1 /\ c + 2 \in Nat
    BY <1>1, <1>4
  <2>2. B * c + r + F + B = B * (c + 2) + (r + F - B)
    BY <1>1
  <2>3. (B * (c + 2) + (r + F - B)) \div B = c + 2
    BY <1>1, <2>1, DivMod
  <2> QED
    BY <1>2, <1>3, <1>4, <2>2, <2>3 DEF Overlaps
<1>5. CASE r < B - F
  <2>1. r + F \in 0 .. B - 1 /\ c + 1 \in Nat
    BY <1>1, <1>5
  <2>2. B * c + r + F + B = B * (c + 1) + (r + F)
    BY <1>1
  <2>3. (B * (c + 1) + (r + F)) \div B = c + 1
    BY <1>1, <2>1, DivMod
  <2> QED
    BY <1>1, <1>2, <1>3, <1>5, <2>2, <2>3 DEF Overlaps
<1> QED
  BY <1>1, <1>4, <1>5

(* The last block, with the length in it. *)
WithLength(c) ==
  [k \in 1 .. BLOCK_SZ |-> IF k - 1 \in LengthBytes THEN Len8(fed, k - 1 - hash.LEN_AT)
                                                     ELSE LastCell(c, k - 1)]
LengthAlone ==
  [k \in 1 .. BLOCK_SZ |-> IF k - 1 \in LengthBytes THEN Len8(fed, k - 1 - hash.LEN_AT) ELSE ZERO]

(* After the message and the bit 1 there is room for the length.           *)
LEMMA PaddedRoom ==
  ASSUME TypeInv, NEW c \in Nat, fed = BLOCK_SZ * c + bytes_in_x
  PROVE  /\ BLOCK_SZ * PaddedBlocks(fed) \in Int
         /\ fed + 1 <= BLOCK_SZ * PaddedBlocks(fed) - hash.LEN_SZ
<1> DEFINE B == BLOCK_SZ
           F == hash.LEN_FIELD
           r == bytes_in_x
<1>1. B \in Nat \ {0} /\ F \in hash.LEN_SZ .. B - 1 /\ hash.LEN_SZ \in Nat /\ r \in 0 .. B - 1
  BY HashShape DEF TypeInv
<1>2. B * (c + 1) = B * c + B /\ B * (c + 2) = B * c + B + B /\ B * c \in Nat
  BY <1>1
<1>3. PaddedBlocks(fed) = IF r >= B - F THEN c + 2 ELSE c + 1
  BY PaddedCount
<1> QED
  BY <1>1, <1>2, <1>3

(* A block of the padded message; the whole ones are the message's.        *)
PaddedBlock(m) == [k \in 1 .. BLOCK_SZ |-> PaddedByte(fed, BLOCK_SZ * (m - 1) + k)]

LEMMA PaddedWhole ==
  ASSUME TypeInv, NEW c \in Nat, fed = BLOCK_SZ * c + bytes_in_x, NEW m \in 1 .. c
  PROVE  PaddedBlock(m) = MsgBlock(m)
<1>1. BLOCK_SZ \in Nat \ {0} /\ bytes_in_x \in Nat
  BY HashShape DEF TypeInv
<1>2. BLOCK_SZ * (m - 1) + BLOCK_SZ <= BLOCK_SZ * c
  <2>1. BLOCK_SZ * (m - 1) + BLOCK_SZ = BLOCK_SZ * m
    BY <1>1
  <2>2. c = m + (c - m) /\ c - m \in Nat
    OBVIOUS
  <2>3. BLOCK_SZ * c = BLOCK_SZ * m + BLOCK_SZ * (c - m)
    BY <1>1
  <2>4. BLOCK_SZ * (c - m) \in Nat
    BY <1>1, <2>2
  <2> QED
    BY <1>1, <2>1, <2>3, <2>4
<1>3. ASSUME NEW k \in 1 .. BLOCK_SZ
      PROVE  PaddedByte(fed, BLOCK_SZ * (m - 1) + k) = Msg(BLOCK_SZ * (m - 1) + k)
  <2> DEFINE p == BLOCK_SZ * (m - 1) + k
  <2>1. p \in Int /\ p <= fed /\ fed \in Nat /\ hash.LEN_SZ \in Nat
    <3> DEFINE a == BLOCK_SZ * (m - 1)
               z == BLOCK_SZ * c
    <3>1. a \in Int /\ z \in Int /\ a + BLOCK_SZ <= z /\ fed = z + bytes_in_x
      BY <1>1, <1>2
    <3>2. hash.LEN_SZ \in Nat /\ fed \in Nat
      BY HashShape DEF TypeInv
    <3> HIDE DEF a, z
    <3>3. a + k \in Int /\ a + k <= fed
      BY <1>1, <3>1
    <3> QED
      BY <3>2, <3>3 DEF a
  <2>2. BLOCK_SZ * PaddedBlocks(fed) \in Int /\ p <= BLOCK_SZ * PaddedBlocks(fed) - hash.LEN_SZ
    BY <2>1, PaddedRoom
  <2> HIDE DEF p
  <2>3. PaddedByte(fed, p) = Msg(p)
    BY <2>1, <2>2 DEF PaddedByte
  <2> QED
    BY <2>3 DEF p
<1> QED
  BY <1>3 DEF MsgBlock, PaddedBlock

(* The padded message, block by block, when the length fits behind its end *)
(* and when it takes a block more.                                         *)
LEMMA PaddedShort ==
  ASSUME TypeInv, NEW c \in Nat, fed = BLOCK_SZ * c + bytes_in_x,
         bytes_in_x < BLOCK_SZ - hash.LEN_FIELD
  PROVE  Padded(fed) = [m \in 1 .. c + 1 |-> IF m <= c THEN MsgBlock(m) ELSE WithLength(c)]
<1> DEFINE B == BLOCK_SZ
           r == bytes_in_x
<1>1. /\ hash \in Hashes /\ fed \in Nat
      /\ B \in Nat \ {0} /\ r \in 0 .. B - 1
      /\ hash.LEN_SZ \in Nat \ {0} /\ hash.LEN_AT \in Nat /\ hash.LEN_AT + hash.LEN_SZ = B
      /\ r < hash.LEN_AT
  <2>1. hash \in Hashes /\ fed \in Nat /\ r \in 0 .. B - 1
    BY DEF TypeInv
  <2>2. /\ B \in Nat \ {0} /\ hash.LEN_SZ \in Nat \ {0} /\ hash.LEN_FIELD \in hash.LEN_SZ .. B - 1
        /\ hash.LEN_AT \in Nat /\ hash.LEN_AT + hash.LEN_SZ = B
    BY <2>1, HashShape
  <2> HIDE DEF B, r
  <2>3. r < B - hash.LEN_FIELD
    BY DEF B, r
  <2> QED
    BY <2>1, <2>2, <2>3
<1>2. PaddedBlocks(fed) = c + 1
  BY <1>1, PaddedCount, HashShape
<1>3. ASSUME NEW k \in 1 .. B
      PROVE  PaddedByte(fed, B * (c + 1 - 1) + k) = WithLength(c)[k]
  <2> DEFINE a == B * c
             p == a + k
  <2>1. a \in Nat /\ fed = a + r /\ B * PaddedBlocks(fed) = a + B /\ B * (c + 1 - 1) = a
    BY <1>1, <1>2
  <2>2. WithLength(c)[k] =
          IF k - 1 \in LengthBytes THEN Len8(fed, k - 1 - hash.LEN_AT) ELSE LastCell(c, k - 1)
    BY DEF WithLength
  <2>3. After(c, k - 1 + 1) = Msg(p)
    BY DEF After
  <2>4. PaddedByte(fed, p) =
          CASE p <= fed -> Msg(p)
            [] p = fed + 1 -> ONE
            [] p > (a + B) - hash.LEN_SZ -> Len8(fed, p - ((a + B) - hash.LEN_SZ) - 1)
            [] OTHER -> ZERO
    BY <2>1 DEF PaddedByte
  <2> HIDE DEF a, B, r
  <2>5. CASE k <= r
    <3>1. p <= fed /\ p # fed + 1 /\ ~(p > (a + B) - hash.LEN_SZ) /\ k - 1 \notin LengthBytes
      BY <1>1, <2>1, <2>5 DEF LengthBytes
    <3>2. LastCell(c, k - 1) = Msg(p)
      BY <1>1, <2>3, <2>5 DEF LastCell, r
    <3> QED
      BY <2>1, <2>2, <2>4, <3>1, <3>2
  <2>6. CASE k = r + 1
    <3>1. ~(p <= fed) /\ p = fed + 1 /\ ~(p > (a + B) - hash.LEN_SZ) /\ k - 1 \notin LengthBytes
      BY <1>1, <2>1, <2>6 DEF LengthBytes
    <3>2. LastCell(c, k - 1) = ONE
      BY <1>1, <2>6 DEF LastCell, r
    <3> QED
      BY <2>1, <2>2, <2>4, <3>1, <3>2
  <2>7. CASE k > hash.LEN_AT
    <3>1. /\ ~(p <= fed) /\ p # fed + 1 /\ p > (a + B) - hash.LEN_SZ /\ k - 1 \in LengthBytes
          /\ p - ((a + B) - hash.LEN_SZ) - 1 = k - 1 - hash.LEN_AT
      BY <1>1, <2>1, <2>7 DEF LengthBytes
    <3> QED
      BY <2>1, <2>2, <2>4, <3>1
  <2>8. CASE k > r + 1 /\ k <= hash.LEN_AT
    <3>1. /\ ~(p <= fed) /\ p # fed + 1 /\ ~(p > (a + B) - hash.LEN_SZ)
          /\ k - 1 \notin LengthBytes
      BY <1>1, <2>1, <2>8 DEF LengthBytes
    <3>2. LastCell(c, k - 1) = ZERO
      BY <1>1, <2>8 DEF LastCell, r
    <3> QED
      BY <2>1, <2>2, <2>4, <3>1, <3>2
  <2> QED
    BY <1>1, <2>5, <2>6, <2>7, <2>8
<1>4. PaddedBlock(c + 1) = WithLength(c)
  BY <1>3 DEF WithLength, PaddedBlock
<1>5. ASSUME NEW m \in 1 .. c + 1
      PROVE  PaddedBlock(m) = IF m <= c THEN MsgBlock(m) ELSE WithLength(c)
  <2>1. CASE m <= c
    BY <2>1, PaddedWhole
  <2>2. CASE m = c + 1
    BY <1>4, <2>2
  <2> QED
    BY <2>1, <2>2
<1> QED
  BY <1>2, <1>5 DEF Padded, PaddedBlock

LEMMA PaddedLong ==
  ASSUME TypeInv, NEW c \in Nat, fed = BLOCK_SZ * c + bytes_in_x,
         bytes_in_x >= BLOCK_SZ - hash.LEN_FIELD
  PROVE  Padded(fed) =
           [m \in 1 .. c + 2 |->
              IF m <= c THEN MsgBlock(m) ELSE IF m = c + 1 THEN LastBlock(c) ELSE LengthAlone]
<1> DEFINE B == BLOCK_SZ
           r == bytes_in_x
           a == B * c
<1>1. /\ fed \in Nat /\ r \in 0 .. B - 1
      /\ B \in Nat \ {0} /\ hash.LEN_SZ \in Nat \ {0} /\ hash.LEN_SZ <= B
      /\ hash.LEN_AT \in Nat /\ hash.LEN_AT + hash.LEN_SZ = B
  <2>1. hash \in Hashes /\ fed \in Nat /\ r \in 0 .. B - 1
    BY DEF TypeInv
  <2>2. /\ B \in Nat \ {0} /\ hash.LEN_SZ \in Nat \ {0}
        /\ hash.LEN_AT \in Nat /\ hash.LEN_AT + hash.LEN_SZ = B
    BY <2>1, HashShape
  <2> HIDE DEF B, r
  <2> QED
    BY <2>1, <2>2
<1>2. PaddedBlocks(fed) = c + 2
  BY PaddedCount
<1>3. /\ a \in Nat /\ fed = a + r /\ B * PaddedBlocks(fed) = a + B + B
      /\ B * (c + 1 - 1) = a /\ B * (c + 2 - 1) = a + B
  BY <1>1, <1>2
<1>4. ASSUME NEW p \in Int
      PROVE  PaddedByte(fed, p) =
               CASE p <= fed -> Msg(p)
                 [] p = fed + 1 -> ONE
                 [] p > (a + B + B) - hash.LEN_SZ -> Len8(fed, p - ((a + B + B) - hash.LEN_SZ) - 1)
                 [] OTHER -> ZERO
  BY <1>3 DEF PaddedByte
<1>5. PaddedBlock(c + 1) = LastBlock(c)
  <2>1. ASSUME NEW k \in 1 .. B
        PROVE  PaddedByte(fed, a + k) = LastCell(c, k - 1)
    <3> DEFINE p == a + k
    <3>1. /\ p \in Int /\ ~(p > (a + B + B) - hash.LEN_SZ)
          /\ p <= fed <=> k <= r
          /\ p = fed + 1 <=> k = r + 1
      <4> HIDE DEF a, B, r
      <4> QED
        BY <1>1, <1>3
    <3>2. After(c, k - 1 + 1) = Msg(p)
      BY DEF After
    <3>3. LastCell(c, k - 1) = IF k <= r THEN Msg(p) ELSE IF k = r + 1 THEN ONE ELSE ZERO
      BY <1>1, <3>2 DEF LastCell
    <3> HIDE DEF p, a, B, r
    <3>4. PaddedByte(fed, p) = LastCell(c, k - 1)
      BY <1>1, <1>4, <3>1, <3>3
    <3> QED
      BY <3>4 DEF p
  <2> QED
    BY <1>3, <2>1 DEF PaddedBlock, LastBlock
<1>6. PaddedBlock(c + 2) = LengthAlone
  <2>1. ASSUME NEW k \in 1 .. B
        PROVE  PaddedByte(fed, a + B + k) =
                 IF k - 1 \in LengthBytes THEN Len8(fed, k - 1 - hash.LEN_AT) ELSE ZERO
    <3> DEFINE p == a + B + k
    <3> HIDE DEF a, B, r
    <3>1. /\ p \in Int /\ ~(p <= fed) /\ p # fed + 1
          /\ p > (a + B + B) - hash.LEN_SZ <=> k - 1 \in LengthBytes
          /\ p - ((a + B + B) - hash.LEN_SZ) - 1 = k - 1 - hash.LEN_AT
      BY <1>1, <1>3 DEF LengthBytes
    <3> HIDE DEF p
    <3>2. PaddedByte(fed, p) =
            IF k - 1 \in LengthBytes THEN Len8(fed, k - 1 - hash.LEN_AT) ELSE ZERO
      BY <1>4, <3>1
    <3> QED
      BY <3>2 DEF p
  <2> QED
    BY <1>3, <2>1 DEF PaddedBlock, LengthAlone
<1>7. ASSUME NEW m \in 1 .. c + 2
      PROVE  PaddedBlock(m) =
               IF m <= c THEN MsgBlock(m) ELSE IF m = c + 1 THEN LastBlock(c) ELSE LengthAlone
  <2>1. CASE m <= c
    BY <2>1, PaddedWhole
  <2>2. CASE m = c + 1
    BY <1>5, <2>2
  <2>3. CASE m = c + 2
    BY <1>6, <2>3
  <2> QED
    BY <2>1, <2>2, <2>3
<1> QED
  BY <1>2, <1>7 DEF Padded, PaddedBlock

(* What finalize has compressed at the end is the padded message, but for  *)
(* an overlap, whichever way it has gone.                                  *)
LEMMA FinalShort ==
  ASSUME TypeInv, NEW c \in Nat, fed = BLOCK_SZ * c + bytes_in_x, bytes_in_x < THRESHOLD
  PROVE  Append(MsgBlocks(c), WithLength(c)) = Padded(fed) <=> ~Overlaps(fed)
<1> DEFINE done == Append(MsgBlocks(c), WithLength(c))
<1>1. done = [m \in 1 .. c + 1 |-> IF m <= c THEN MsgBlock(m) ELSE WithLength(c)]
  BY AppendBlock
<1>2. hash \in Hashes /\ bytes_in_x \in Nat /\ BLOCK_SZ - hash.LEN_FIELD \in Int /\ THRESHOLD \in Int
  BY HashShape DEF TypeInv
<1>3. CASE bytes_in_x < BLOCK_SZ - hash.LEN_FIELD
  <2>1. ~Overlaps(fed)
    BY <1>2, <1>3, PaddedCount
  <2> QED
    BY <1>1, <1>3, <2>1, PaddedShort
<1>4. CASE bytes_in_x >= BLOCK_SZ - hash.LEN_FIELD
  <2>1. Overlaps(fed)
    BY <1>2, <1>4, PaddedCount
  <2>2. DOMAIN Padded(fed) = 1 .. c + 2
    BY <1>4, PaddedLong
  <2>3. DOMAIN done = 1 .. c + 1
    BY <1>1
  <2>4. c + 2 \in 1 .. c + 2 /\ c + 2 \notin 1 .. c + 1
    OBVIOUS
  <2> HIDE DEF done
  <2>5. done # Padded(fed)
    BY <2>2, <2>3, <2>4
  <2> QED
    BY <2>1, <2>5 DEF done
<1> QED
  BY <1>2, <1>3, <1>4

LEMMA FinalLong ==
  ASSUME TypeInv, NEW c \in Nat, fed = BLOCK_SZ * c + bytes_in_x, bytes_in_x >= THRESHOLD
  PROVE  /\ Append(Append(MsgBlocks(c), LastBlock(c)), LengthAlone) = Padded(fed)
         /\ ~Overlaps(fed)
<1> DEFINE f == [m \in 1 .. c + 1 |-> IF m <= c THEN MsgBlock(m) ELSE LastBlock(c)]
<1>1. Append(MsgBlocks(c), LastBlock(c)) = f
  BY AppendBlock
<1>2. f = [m \in 1 .. c + 1 |-> f[m]] /\ c + 1 \in Nat
  OBVIOUS
<1>3. \A m \in 1 .. c + 1 : f[m] = IF m <= c THEN MsgBlock(m) ELSE LastBlock(c)
  OBVIOUS
<1> HIDE DEF f
<1>4. Append(f, LengthAlone) = [m \in 1 .. c + 1 + 1 |-> IF m <= c + 1 THEN f[m] ELSE LengthAlone]
  BY <1>2, AppendAt
<1>5. hash \in Hashes /\ bytes_in_x \in Nat
  BY HashShape DEF TypeInv
<1>6. /\ BLOCK_SZ \in Nat /\ hash.LEN_FIELD \in Int /\ THRESHOLD \in Int
      /\ BLOCK_SZ - hash.LEN_FIELD <= THRESHOLD
  BY <1>5, HashShape
<1>7. bytes_in_x >= BLOCK_SZ - hash.LEN_FIELD
  BY <1>5, <1>6
<1>8. Padded(fed) = Append(f, LengthAlone)
  BY <1>3, <1>4, <1>7, PaddedLong
<1>9. ~Overlaps(fed)
  <2>1. Overlaps(fed) <=> bytes_in_x \in BLOCK_SZ - hash.LEN_FIELD .. THRESHOLD - 1
    BY PaddedCount
  <2> QED
    BY <2>1, <1>5, <1>6
<1> QED
  BY <1>1, <1>8, <1>9
-----------------------------------------------------------------------------
(* The hash in use stays, and what is made from its constants with it.     *)
LEMMA HashFixed ==
  ASSUME hash' = hash
  PROVE  /\ BLOCK_SZ' = BLOCK_SZ /\ THRESHOLD' = THRESHOLD /\ LengthBytes' = LengthBytes
         /\ \A c : MsgBlocks(c)' = MsgBlocks(c)
         /\ \A c, n : After(c, n)' = After(c, n)
BY DEF BLOCK_SZ, THRESHOLD, LengthBytes, MsgBlocks, MsgBlock, After

(* The types that the arithmetic of a step needs. *)
LEMMA StepTypes ==
  ASSUME TypeInv
  PROVE  /\ hash \in Hashes /\ BLOCK_SZ \in Nat \ {0} /\ THRESHOLD \in Int
         /\ bytes_in_x \in 0 .. BLOCK_SZ - 1 /\ fed \in Nat /\ msglen \in 0 .. fed
         /\ hash.X_SZ \in Nat /\ BLOCK_SZ <= hash.X_SZ
<1>1. hash \in Hashes /\ bytes_in_x \in 0 .. BLOCK_SZ - 1 /\ fed \in Nat /\ msglen \in 0 .. fed
  BY DEF TypeInv
<1>2. BLOCK_SZ \in Nat \ {0} /\ hash.X_SZ \in Nat /\ BLOCK_SZ <= hash.X_SZ
  BY <1>1, HashShape
<1>3. THRESHOLD \in Int
  BY <1>1, HashShape
<1> QED
  BY <1>1, <1>2, <1>3

LEMMA InitStep ==
  ASSUME Init
  PROVE  IndInv
<1>1. hash \in Hashes
  BY DEF Init
<1>2. BLOCK_SZ \in Nat \ {0}
  BY <1>1, HashShape
<1>3. TypeInv
  BY <1>1, <1>2 DEF Init, TypeInv
<1>4. blocks = MsgBlocks(0)
  BY DEF Init, MsgBlocks
<1>5. Streamed(0)
  BY <1>2, <1>4 DEF Init, Streamed
<1>6. StageInv
  BY <1>5 DEF Init, StageInv, DigestRightUnlessOverlap
<1> QED
  BY <1>3, <1>6 DEF IndInv

LEMMA UpdateCallStep ==
  ASSUME IndInv, hash' = hash, NEW n \in hash.Chunks, UpdateCall(n)
  PROVE  IndInv'
<1>1. TypeInv /\ StageInv /\ pc = "ready" /\ msglen = 0 /\ n \in Nat /\ count' = bytes_in_x + n
  <2>1. TypeInv /\ StageInv /\ pc = "ready" /\ msglen = 0 /\ count' = AsInt(bytes_in_x + n)
    BY DEF IndInv, StageInv, UpdateCall
  <2>2. BLOCK_SZ \in Nat \ {0} /\ n \in 0 .. INT_MAX - (BLOCK_SZ - 1)
    BY <2>1, HashShape DEF TypeInv
  <2>3. bytes_in_x \in 0 .. BLOCK_SZ - 1
    BY <2>1 DEF TypeInv
  <2>4. n \in Nat /\ bytes_in_x + n \in 0 .. INT_MAX
    <3> DEFINE B == BLOCK_SZ
    <3>1. B \in Nat \ {0} /\ n \in 0 .. INT_MAX - (B - 1) /\ bytes_in_x \in 0 .. B - 1
      BY <2>2, <2>3
    <3> HIDE DEF B
    <3>2. INT_MAX \in Int
      BY DEF INT_MAX
    <3> QED
      BY <3>1, <3>2
  <2> QED
    BY <2>1, <2>4, IntHolds
<1>2. PICK c \in Nat : Streamed(c)
  BY <1>1 DEF StageInv
<1>3. TypeInv'
  BY <1>1, StepTypes, HashFixed DEF TypeInv, UpdateCall
<1>4. Streamed(c)'
  BY <1>1, <1>2, StepTypes, HashFixed DEF Streamed, UpdateCall
<1>5. StageInv'
  <2>1. pc' = "update" /\ missing' = BLOCK_SZ - bytes_in_x /\ msglen' = n /\ bytes_in_x' = bytes_in_x
    BY DEF UpdateCall
  <2> QED
    BY <1>1, <1>4, <2>1, HashFixed DEF StageInv, DigestRightUnlessOverlap
<1> QED
  BY <1>3, <1>5 DEF IndInv

LEMMA FillBlockStep ==
  ASSUME IndInv, hash' = hash, FillBlock
  PROVE  IndInv'
<1>1. TypeInv /\ StageInv
  BY DEF IndInv
<1>2. /\ pc = "update" /\ pc' = pc /\ count >= BLOCK_SZ
      /\ blocks' = Append(blocks, BlockIn(Copied(missing)))
      /\ X' = AfterCompress(Copied(missing))
      /\ msglen' = msglen - missing /\ count' = count - BLOCK_SZ /\ missing' = BLOCK_SZ
      /\ bytes_in_x' = 0 /\ bytes' = bytes /\ fed' = fed
  BY DEF FillBlock, FillBlockMissing
<1>3. count = bytes_in_x + msglen /\ missing = BLOCK_SZ - bytes_in_x
  BY <1>1, <1>2 DEF StageInv
<1>4. PICK c \in Nat : Streamed(c)
  BY <1>1, <1>2 DEF StageInv
<1> DEFINE a == BLOCK_SZ * c
<1>5. /\ BLOCK_SZ \in Nat \ {0} /\ bytes_in_x \in 0 .. BLOCK_SZ - 1
      /\ fed \in Nat /\ msglen \in 0 .. fed
      /\ hash.X_SZ \in Nat /\ BLOCK_SZ <= hash.X_SZ
  BY <1>1, StepTypes
<1>6. /\ a \in Nat /\ BLOCK_SZ * (c + 1) = a + BLOCK_SZ /\ BLOCK_SZ * (c + 1 - 1) = a
      /\ fed - msglen = a + bytes_in_x
  BY <1>4, <1>5 DEF Streamed
<1>7. blocks = MsgBlocks(c) /\ \A b \in 0 .. bytes_in_x - 1 : X[b] = Msg(a + (b + 1))
  BY <1>4 DEF Streamed, After
<1> HIDE DEF a
<1>8. BlockIn(Copied(missing)) = MsgBlock(c + 1)
  <2>1. ASSUME NEW k \in 1 .. BLOCK_SZ
        PROVE  Copied(missing)[k - 1] = Msg(a + k)
    <3>1. k - 1 \in DOMAIN X
      BY <1>1, <1>5 DEF TypeInv
    <3>2. CASE k - 1 < bytes_in_x
      <4>1. X[k - 1] = Msg(a + k)
        BY <1>5, <1>6, <1>7, <3>2
      <4>2. k - 1 \notin bytes_in_x .. bytes_in_x + missing - 1
        BY <1>5, <3>2
      <4> QED
        BY <3>1, <4>1, <4>2 DEF Copied
    <3>3. CASE k - 1 >= bytes_in_x
      <4>1. k - 1 \in bytes_in_x .. bytes_in_x + missing - 1
        BY <1>3, <1>5, <3>3
      <4>2. fed - msglen + (k - 1 - bytes_in_x) + 1 = a + k
        BY <1>5, <1>6
      <4> QED
        BY <3>1, <4>1, <4>2 DEF Copied
    <3> QED
      BY <1>5, <3>2, <3>3
  <2> QED
    BY <1>6, <2>1 DEF BlockIn, MsgBlock
<1>9. blocks' = MsgBlocks(c + 1)
  BY <1>2, <1>7, <1>8, AppendMsgBlock
<1>10. msglen' \in 0 .. fed /\ fed - msglen' = a + BLOCK_SZ /\ count' = msglen'
  BY <1>2, <1>3, <1>5, <1>6
<1>11. DOMAIN X' = DOMAIN X
  BY <1>2 DEF AfterCompress, Copied
<1>12. TypeInv'
  BY <1>1, <1>2, <1>5, <1>10, <1>11, HashFixed DEF TypeInv
<1>13. Streamed(c + 1)'
  <2>1. (fed - msglen = BLOCK_SZ * (c + 1) + bytes_in_x)'
    <3>1. BLOCK_SZ' = BLOCK_SZ /\ fed' = fed /\ bytes_in_x' = 0
      BY <1>2, HashFixed
    <3>2. fed' - msglen' = BLOCK_SZ * (c + 1)
      BY <1>2, <1>6, <1>10
    <3>3. BLOCK_SZ * (c + 1) + 0 = BLOCK_SZ * (c + 1)
      BY <1>5, <1>6
    <3> QED
      BY <3>1, <3>2, <3>3
  <2>2. 0 .. bytes_in_x' - 1 = {}
    BY <1>2
  <2> QED
    BY <1>9, <2>1, <2>2, HashFixed DEF Streamed
<1>14. StageInv'
  <2>1. count' = (bytes_in_x + msglen)' /\ missing' = (BLOCK_SZ - bytes_in_x)'
    BY <1>2, <1>5, <1>10, HashFixed
  <2> QED
    BY <1>2, <1>13, <2>1 DEF StageInv, DigestRightUnlessOverlap
<1> QED
  BY <1>12, <1>14 DEF IndInv

LEMMA KeepRestStep ==
  ASSUME IndInv, hash' = hash, KeepRest
  PROVE  IndInv'
<1>1. TypeInv /\ StageInv
  BY DEF IndInv
<1>2. /\ pc = "update" /\ pc' = "ready" /\ count < BLOCK_SZ
      /\ IF msglen > 0
           THEN X' = Copied(msglen) /\ bytes_in_x' = bytes_in_x + msglen
           ELSE X' = X /\ bytes_in_x' = bytes_in_x
      /\ msglen' = 0 /\ blocks' = blocks /\ bytes' = bytes /\ fed' = fed
  BY DEF KeepRest
<1>3. count = bytes_in_x + msglen
  BY <1>1, <1>2 DEF StageInv
<1>4. PICK c \in Nat : Streamed(c)
  BY <1>1, <1>2 DEF StageInv
<1> DEFINE a == BLOCK_SZ * c
<1>5. /\ BLOCK_SZ \in Nat \ {0} /\ bytes_in_x \in 0 .. BLOCK_SZ - 1
      /\ fed \in Nat /\ msglen \in 0 .. fed
      /\ hash.X_SZ \in Nat /\ BLOCK_SZ <= hash.X_SZ
  BY <1>1, StepTypes
<1>6. a \in Nat /\ fed - msglen = a + bytes_in_x
  BY <1>4, <1>5 DEF Streamed
<1>7. blocks = MsgBlocks(c) /\ \A b \in 0 .. bytes_in_x - 1 : X[b] = Msg(a + (b + 1))
  BY <1>4 DEF Streamed, After
<1> HIDE DEF a
<1>8. bytes_in_x' = bytes_in_x + msglen /\ bytes_in_x' \in 0 .. BLOCK_SZ - 1
  BY <1>2, <1>3, <1>5
<1>9. DOMAIN X' = DOMAIN X
  BY <1>2 DEF Copied
<1>10. TypeInv'
  BY <1>1, <1>2, <1>5, <1>8, <1>9, HashFixed DEF TypeInv
<1>11. ASSUME NEW b \in 0 .. bytes_in_x' - 1
       PROVE  X'[b] = Msg(a + (b + 1))
  <2>1. b \in DOMAIN X
    BY <1>1, <1>5, <1>8 DEF TypeInv
  <2>2. CASE b < bytes_in_x
    <3>1. X[b] = Msg(a + (b + 1)) /\ b \notin bytes_in_x .. bytes_in_x + msglen - 1
      BY <1>5, <1>7, <1>8, <2>2
    <3> QED
      BY <1>2, <2>1, <3>1 DEF Copied
  <2>3. CASE b >= bytes_in_x
    <3>1. b \in bytes_in_x .. bytes_in_x + msglen - 1 /\ msglen > 0
      BY <1>5, <1>8, <2>3
    <3>2. fed - msglen + (b - bytes_in_x) + 1 = a + (b + 1)
      BY <1>5, <1>6, <1>8
    <3> QED
      BY <1>2, <2>1, <3>1, <3>2 DEF Copied
  <2> QED
    BY <1>5, <1>8, <2>2, <2>3
<1>12. Streamed(c)'
  <2>1. \A b \in 0 .. bytes_in_x' - 1 : X'[b] = After(c, b + 1)'
    BY <1>11, HashFixed DEF After, a
  <2>2. (fed - msglen = BLOCK_SZ * c + bytes_in_x)'
    BY <1>2, <1>5, <1>6, <1>8, HashFixed DEF a
  <2> QED
    BY <1>2, <1>7, <2>1, <2>2, HashFixed DEF Streamed
<1>13. StageInv'
  BY <1>2, <1>12 DEF StageInv, DigestRightUnlessOverlap
<1> QED
  BY <1>10, <1>13 DEF IndInv

LEMMA PadOneStep ==
  ASSUME IndInv, hash' = hash, PadOne
  PROVE  IndInv'
<1>1. TypeInv /\ StageInv
  BY DEF IndInv
<1>2. /\ pc = "ready" /\ pc' = "padded"
      /\ X' = [Zeroed(X, bytes_in_x) EXCEPT ![bytes_in_x] = IF @ = ZERO THEN ONE ELSE MIXED]
      /\ bytes_in_x' = bytes_in_x /\ blocks' = blocks /\ msglen' = msglen
      /\ bytes' = bytes /\ fed' = fed
  BY DEF PadOne, piece
<1>3. msglen = 0
  BY <1>1, <1>2 DEF StageInv
<1>4. PICK c \in Nat : Streamed(c)
  BY <1>1, <1>2 DEF StageInv
<1>5. /\ BLOCK_SZ \in Nat \ {0} /\ bytes_in_x \in 0 .. BLOCK_SZ - 1 /\ fed \in Nat
      /\ hash.X_SZ \in Nat /\ BLOCK_SZ <= hash.X_SZ
  BY <1>1, StepTypes
<1>6. DOMAIN X' = DOMAIN X
  BY <1>2 DEF Zeroed
<1>7. TypeInv'
  BY <1>1, <1>2, <1>5, <1>6, HashFixed DEF TypeInv
<1>8. ASSUME NEW b \in 0 .. BLOCK_SZ - 1
      PROVE  X'[b] = LastCell(c, b)
  <2>1. b \in DOMAIN X
    BY <1>1, <1>5 DEF TypeInv
  <2>2. Zeroed(X, bytes_in_x)[b] = IF b >= bytes_in_x THEN ZERO ELSE X[b]
    BY <2>1 DEF Zeroed
  <2>3. b \in DOMAIN Zeroed(X, bytes_in_x)
    BY <2>1 DEF Zeroed
  <2>4. CASE b < bytes_in_x
    <3>1. X[b] = After(c, b + 1)
      BY <1>4, <1>5, <2>4 DEF Streamed
    <3>2. X'[b] = Zeroed(X, bytes_in_x)[b]
      BY <1>2, <1>5, <2>3, <2>4
    <3> QED
      BY <1>5, <2>2, <2>4, <3>1, <3>2 DEF LastCell
  <2>5. CASE b = bytes_in_x
    BY <1>2, <1>5, <2>2, <2>3, <2>5 DEF LastCell
  <2>6. CASE b > bytes_in_x
    BY <1>2, <1>5, <2>2, <2>3, <2>6 DEF LastCell
  <2> QED
    BY <1>5, <2>4, <2>5, <2>6
<1>9. fed = BLOCK_SZ * c + bytes_in_x /\ blocks = MsgBlocks(c)
  BY <1>3, <1>4, <1>5 DEF Streamed
<1>10. /\ blocks' = MsgBlocks(c)'
       /\ fed' = (BLOCK_SZ * c + bytes_in_x)'
       /\ \A b \in (0 .. BLOCK_SZ - 1)' : X'[b] = LastCell(c, b)'
  BY <1>2, <1>8, <1>9, HashFixed DEF LastCell
<1>11. StageInv'
  BY <1>2, <1>3, <1>10 DEF StageInv, DigestRightUnlessOverlap
<1> QED
  BY <1>7, <1>11 DEF IndInv

(* The padded block as finalize leaves it, before a step that ends it.     *)
LEMMA PaddedStage ==
  ASSUME IndInv, pc = "padded"
  PROVE  \E c \in Nat : /\ blocks = MsgBlocks(c)
                        /\ fed = BLOCK_SZ * c + bytes_in_x
                        /\ \A b \in 0 .. BLOCK_SZ - 1 : X[b] = LastCell(c, b)
BY DEF IndInv, StageInv

LEMMA LengthToNextBlockStep ==
  ASSUME IndInv, hash' = hash, LengthToNextBlock
  PROVE  IndInv'
<1>1. TypeInv /\ StageInv
  BY DEF IndInv
<1>2. /\ pc = "padded" /\ pc' = "length" /\ bytes_in_x >= THRESHOLD
      /\ blocks' = Append(blocks, BlockIn(X))
      /\ X' = [b \in DOMAIN X |-> ZERO]
      /\ bytes_in_x' = bytes_in_x /\ bytes' = bytes /\ msglen' = msglen /\ fed' = fed
  BY DEF LengthToNextBlock, LengthToNextBlockIn, piece
<1>3. PICK c \in Nat : /\ blocks = MsgBlocks(c)
                       /\ fed = BLOCK_SZ * c + bytes_in_x
                       /\ \A b \in 0 .. BLOCK_SZ - 1 : X[b] = LastCell(c, b)
  BY <1>2, PaddedStage
<1>4. BLOCK_SZ \in Nat \ {0} /\ hash.X_SZ \in Nat /\ BLOCK_SZ <= hash.X_SZ
  BY <1>1, StepTypes
<1>5. TypeInv'
  BY <1>1, <1>2, HashFixed DEF TypeInv
<1>6. BlockIn(X) = LastBlock(c)
  <2>1. \A k \in 1 .. BLOCK_SZ : X[k - 1] = LastCell(c, k - 1)
    BY <1>3, <1>4
  <2> QED
    BY <2>1 DEF BlockIn, LastBlock
<1>7. LastBlock(c)' = LastBlock(c)
  BY <1>2, HashFixed DEF LastBlock, LastCell
<1>8. \A b \in (0 .. BLOCK_SZ - 1)' : X'[b] = ZERO
  <2>1. 0 .. BLOCK_SZ - 1 \subseteq DOMAIN X
    BY <1>1, <1>4 DEF TypeInv
  <2> QED
    BY <1>2, <2>1, HashFixed
<1>9. StageInv'
  <2>1. msglen' = 0
    BY <1>1, <1>2 DEF StageInv
  <2>2. /\ fed' = (BLOCK_SZ * c + bytes_in_x)' /\ (bytes_in_x >= THRESHOLD)'
        /\ blocks' = Append(MsgBlocks(c)', LastBlock(c)')
    BY <1>2, <1>3, <1>6, <1>7, HashFixed
  <2> QED
    BY <1>2, <1>8, <2>1, <2>2 DEF StageInv, DigestRightUnlessOverlap
<1> QED
  BY <1>5, <1>9 DEF IndInv

LEMMA LengthFitsStep ==
  ASSUME IndInv, hash' = hash, LengthFits
  PROVE  IndInv'
<1>1. TypeInv /\ StageInv
  BY DEF IndInv
<1>2. /\ pc = "padded" /\ pc' = "length" /\ bytes_in_x < THRESHOLD
      /\ X' = X /\ blocks' = blocks /\ bytes_in_x' = bytes_in_x /\ bytes' = bytes
      /\ msglen' = msglen /\ fed' = fed
  BY DEF LengthFits, context, piece
<1>3. PICK c \in Nat : /\ blocks = MsgBlocks(c)
                       /\ fed = BLOCK_SZ * c + bytes_in_x
                       /\ \A b \in 0 .. BLOCK_SZ - 1 : X[b] = LastCell(c, b)
  BY <1>2, PaddedStage
<1>4. TypeInv'
  BY <1>1, <1>2, HashFixed DEF TypeInv
<1>5. StageInv'
  <2>1. msglen' = 0
    BY <1>1, <1>2 DEF StageInv
  <2>2. THRESHOLD \in Int /\ bytes_in_x \in Int
    BY <1>1, StepTypes
  <2>3. /\ fed' = (BLOCK_SZ * c + bytes_in_x)' /\ ~(bytes_in_x >= THRESHOLD)'
        /\ blocks' = MsgBlocks(c)'
        /\ \A b \in (0 .. BLOCK_SZ - 1)' : X'[b] = LastCell(c, b)'
    BY <1>2, <1>3, <2>2, HashFixed DEF LastCell
  <2> QED
    BY <1>2, <2>1, <2>3 DEF StageInv, DigestRightUnlessOverlap
<1> QED
  BY <1>4, <1>5 DEF IndInv

LEMMA AppendLengthStep ==
  ASSUME IndInv, hash' = hash, AppendLength
  PROVE  IndInv'
<1> DEFINE x == [b \in DOMAIN X |-> IF b \in LengthBytes THEN Len8(bytes, b - hash.LEN_AT) ELSE X[b]]
<1>1. TypeInv /\ StageInv
  BY DEF IndInv
<1>2. /\ pc = "length" /\ pc' = "done"
      /\ blocks' = Append(blocks, BlockIn(x)) /\ X' = AfterCompress(x)
      /\ bytes_in_x' = bytes_in_x /\ bytes' = bytes /\ msglen' = msglen /\ fed' = fed
  BY DEF AppendLength, piece
<1>3. PICK c \in Nat :
        /\ fed = BLOCK_SZ * c + bytes_in_x
        /\ IF bytes_in_x >= THRESHOLD
             THEN /\ blocks = Append(MsgBlocks(c), LastBlock(c))
                  /\ \A b \in 0 .. BLOCK_SZ - 1 : X[b] = ZERO
             ELSE /\ blocks = MsgBlocks(c)
                  /\ \A b \in 0 .. BLOCK_SZ - 1 : X[b] = LastCell(c, b)
  BY <1>1, <1>2 DEF StageInv
<1>4. /\ BLOCK_SZ \in Nat \ {0} /\ hash.X_SZ \in Nat /\ BLOCK_SZ <= hash.X_SZ
      /\ THRESHOLD \in Int /\ bytes_in_x \in Int
  BY <1>1, StepTypes
<1>5. \A k \in 1 .. BLOCK_SZ :
        x[k - 1] = IF k - 1 \in LengthBytes THEN Len8(fed, k - 1 - hash.LEN_AT) ELSE X[k - 1]
  <2>1. \A k \in 1 .. BLOCK_SZ : k - 1 \in DOMAIN X
    BY <1>1, <1>4 DEF TypeInv
  <2>2. bytes = fed
    BY <1>1 DEF TypeInv
  <2> QED
    BY <2>1, <2>2
<1>6. DOMAIN X' = DOMAIN X
  BY <1>2 DEF AfterCompress
<1> HIDE DEF x
<1>7. TypeInv'
  BY <1>1, <1>2, <1>6, HashFixed DEF TypeInv
<1>8. blocks' = Padded(fed) <=> ~Overlaps(fed)
  <2>1. CASE bytes_in_x >= THRESHOLD
    <3>1. \A k \in 1 .. BLOCK_SZ : X[k - 1] = ZERO
      BY <1>3, <1>4, <2>1
    <3>2. BlockIn(x) = LengthAlone
      BY <1>5, <3>1 DEF BlockIn, LengthAlone
    <3> QED
      BY <1>1, <1>2, <1>3, <2>1, <3>2, FinalLong
  <2>2. CASE bytes_in_x < THRESHOLD
    <3>1. /\ blocks = MsgBlocks(c)
          /\ \A k \in 1 .. BLOCK_SZ : X[k - 1] = LastCell(c, k - 1)
      BY <1>3, <1>4, <2>2
    <3>2. BlockIn(x) = WithLength(c)
      BY <1>5, <3>1 DEF BlockIn, WithLength
    <3> QED
      BY <1>1, <1>2, <1>3, <2>2, <3>1, <3>2, FinalShort
  <2> QED
    BY <1>4, <2>1, <2>2
<1>9. Padded(fed)' = Padded(fed) /\ Overlaps(fed)' = Overlaps(fed)
  BY <1>2, HashFixed DEF Padded, PaddedBlocks, PaddedByte, Overlaps
<1>10. StageInv'
  BY <1>2, <1>8, <1>9 DEF StageInv, DigestRightUnlessOverlap
<1> QED
  BY <1>7, <1>10 DEF IndInv
-----------------------------------------------------------------------------
LEMMA NextStep ==
  ASSUME IndInv, [Next]_vars
  PROVE  IndInv'
<1>1. CASE UNCHANGED vars
  <2>1. UNCHANGED <<hash, X, bytes_in_x, bytes, blocks, pc, msglen, count, missing, fed>>
    BY <1>1 DEF vars, context, piece
  <2>2. TypeInv'
    BY <2>1, HashFixed DEF IndInv, TypeInv
  <2>3. /\ \A c : Streamed(c)' <=> Streamed(c)
        /\ \A c, b : LastCell(c, b)' = LastCell(c, b)
        /\ \A c : LastBlock(c)' = LastBlock(c)
    BY <2>1, HashFixed DEF Streamed, LastCell, LastBlock
  <2>4. Padded(fed)' = Padded(fed) /\ Overlaps(fed)' = Overlaps(fed)
    BY <2>1, HashFixed DEF Padded, PaddedBlocks, PaddedByte, Overlaps
  <2>5. DigestRightUnlessOverlap'
    BY <2>1, <2>4 DEF IndInv, StageInv, DigestRightUnlessOverlap
  <2>6. StageInv'
    BY <2>1, <2>3, <2>5, HashFixed DEF IndInv, StageInv
  <2> QED
    BY <2>2, <2>6 DEF IndInv
<1>2. CASE Next
  <2>1. hash' = hash
    BY <1>2 DEF Next
  <2>2. CASE \E n \in hash.Chunks : UpdateCall(n)
    BY <2>1, <2>2, UpdateCallStep
  <2>3. CASE FillBlock
    BY <2>1, <2>3, FillBlockStep
  <2>4. CASE KeepRest
    BY <2>1, <2>4, KeepRestStep
  <2>5. CASE PadOne
    BY <2>1, <2>5, PadOneStep
  <2>6. CASE LengthToNextBlock
    BY <2>1, <2>6, LengthToNextBlockStep
  <2>7. CASE LengthFits
    BY <2>1, <2>7, LengthFitsStep
  <2>8. CASE AppendLength
    BY <2>1, <2>8, AppendLengthStep
  <2> QED
    BY <1>2, <2>2, <2>3, <2>4, <2>5, <2>6, <2>7, <2>8 DEF Next
<1> QED
  BY <1>1, <1>2

(* IndInv is an invariant of rmd160_update, rmd160_finalize and their twins *)
(* in sha512.c.                                                            *)
THEOREM HashInvariance == Spec => []IndInv
<1>1. Init => IndInv
  BY InitStep
<1>2. IndInv /\ [Next]_vars => IndInv'
  BY NextStep
<1> QED
  BY <1>1, <1>2, PTL DEF Spec

(* However a message is cut into pieces, of lengths that the int in update *)
(* holds together with what X holds, the context between two updates is    *)
(* that of the message so far.                                             *)
THEOREM AnyChunks == Spec => []ChunksDoNotMatter
<1>1. IndInv => ChunksDoNotMatter
  <2> SUFFICES ASSUME IndInv, pc = "ready"
               PROVE  /\ bytes = fed
                      /\ bytes_in_x = fed % BLOCK_SZ
                      /\ blocks = MsgBlocks(fed \div BLOCK_SZ)
                      /\ \A b \in 0 .. bytes_in_x - 1 : X[b] = Msg(fed - bytes_in_x + b + 1)
    BY DEF ChunksDoNotMatter, MsgBlocks, MsgBlock
  <2>1. TypeInv /\ StageInv /\ bytes = fed /\ msglen = 0
    BY DEF IndInv, TypeInv, StageInv
  <2>2. PICK c \in Nat : Streamed(c)
    BY <2>1 DEF StageInv
  <2>3. BLOCK_SZ \in Nat \ {0} /\ bytes_in_x \in 0 .. BLOCK_SZ - 1 /\ fed \in Nat
    BY <2>1, StepTypes
  <2>4. fed = BLOCK_SZ * c + bytes_in_x /\ BLOCK_SZ * c \in Nat
    BY <2>1, <2>2, <2>3 DEF Streamed
  <2>5. fed \div BLOCK_SZ = c /\ fed % BLOCK_SZ = bytes_in_x
    BY <2>3, <2>4, DivMod
  <2>6. ASSUME NEW b \in 0 .. bytes_in_x - 1
        PROVE  X[b] = Msg(fed - bytes_in_x + b + 1)
    <3>1. X[b] = Msg(BLOCK_SZ * c + (b + 1))
      BY <2>2 DEF Streamed, After
    <3>2. BLOCK_SZ * c + (b + 1) = fed - bytes_in_x + b + 1
      BY <2>3, <2>4
    <3> QED
      BY <3>1, <3>2
  <2> QED
    BY <2>1, <2>2, <2>5, <2>6 DEF Streamed
<1> QED
  BY <1>1, HashInvariance, PTL

(* For a message of any length that a uint32_t counts, in such pieces,     *)
(* what finalize has compressed is the message padded by the hash's        *)
(* definition if and only if the message does not reach into the length's  *)
(* field without passing the threshold.                                    *)
THEOREM AnyLength == Spec => []DigestRightUnlessOverlap
<1>1. IndInv => DigestRightUnlessOverlap
  BY DEF IndInv, StageInv
<1> QED
  BY <1>1, HashInvariance, PTL

(* A threshold that leaves the whole field free, as rmd160.c has it and    *)
(* sha512.c does not, makes the digest of every such message right.        *)
THEOREM RoomMakesRight ==
  ASSUME \A g \in Hashes : g.THRESHOLD = g.BLOCK_SZ - g.LEN_FIELD
  PROVE  Spec => []DigestRight
<1>1. IndInv => DigestRight
  <2> SUFFICES ASSUME IndInv, pc = "done"
               PROVE  blocks = Padded(fed)
    BY DEF DigestRight
  <2>1. hash \in Hashes /\ (blocks = Padded(fed) <=> ~Overlaps(fed))
    BY DEF IndInv, TypeInv, StageInv, DigestRightUnlessOverlap
  <2>2. THRESHOLD = BLOCK_SZ - hash.LEN_FIELD /\ THRESHOLD \in Int
    BY <2>1, HashShape DEF THRESHOLD, BLOCK_SZ
  <2>3. BLOCK_SZ - hash.LEN_FIELD .. THRESHOLD - 1 = {}
    BY <2>2
  <2> QED
    BY <2>1, <2>3 DEF Overlaps
<1> QED
  BY <1>1, HashInvariance, PTL
-----------------------------------------------------------------------------
(* Induction: a set that has 0, and n + 1 with n, has every number. *)
LEMMA SetInduction ==
  ASSUME NEW S, 0 \in S, \A n \in Nat : n \in S => n + 1 \in S
  PROVE  Nat \subseteq S
<1> SUFFICES ASSUME Nat \ S # {} PROVE FALSE
  OBVIOUS
<1> DEFINE R == {ss \in Nat \X Nat : ss[1] < ss[2]}
<1>1. IsWellFoundedOn(R, Nat)
  BY NatLessThanWellFounded DEF OpToRel
<1>2. PICK n \in Nat \ S : \A m \in Nat \ S : ~(<<m, n>> \in R)
  BY <1>1, WFMin
<1>3. n - 1 \in Nat /\ n - 1 < n
  BY <1>2
<1>4. <<n - 1, n>> \in R
  BY <1>3
<1>5. n - 1 \in S
  BY <1>2, <1>3, <1>4
<1> QED
  BY <1>2, <1>3, <1>5

(* A sequence to which x[1], x[2], ... are appended: all that were before  *)
(* the last are its beginnings.                                            *)
Grows(s, x, m, N) ==
  /\ s[0] = [k \in 1 .. m |-> s[0][k]]
  /\ \A t \in 1 .. N : s[t] = Append(s[t - 1], x[t])

LEMMA Grown ==
  ASSUME NEW m \in Nat, NEW N \in Nat, NEW s, NEW x, Grows(s, x, m, N)
  PROVE  /\ \A k \in 1 .. m : s[N][k] = s[0][k]
         /\ \A t \in 1 .. N : s[N][m + t] = x[t]
         /\ \A t \in 0 .. N : \A k \in 1 .. m + t : s[t][k] = s[N][k]
<1> DEFINE It(k) == IF k <= m THEN s[0][k] ELSE x[k - m]
           S == {t \in Nat : t <= N => s[t] = [k \in 1 .. m + t |-> It(k)]}
<1>1. 0 \in S
  BY DEF Grows
<1>2. ASSUME NEW t \in Nat, t \in S
      PROVE  t + 1 \in S
  <2> SUFFICES ASSUME t + 1 <= N
               PROVE  s[t + 1] = [k \in 1 .. m + (t + 1) |-> It(k)]
    OBVIOUS
  <2>1. s[t] = [k \in 1 .. m + t |-> It(k)]
    BY <1>2
  <2>2. s[t + 1] = Append(s[t], x[t + 1])
    <3>1. t + 1 \in 1 .. N /\ (t + 1) - 1 = t
      OBVIOUS
    <3> QED
      BY <3>1 DEF Grows
  <2> DEFINE f == s[t]
  <2>3. m + t \in Nat /\ f = [k \in 1 .. m + t |-> f[k]]
    BY <2>1
  <2> HIDE DEF f
  <2>4. Append(f, x[t + 1]) = [k \in 1 .. (m + t) + 1 |-> IF k <= m + t THEN f[k] ELSE x[t + 1]]
    BY <2>3, AppendAt
  <2>5. \A k \in 1 .. (m + t) + 1 : (IF k <= m + t THEN f[k] ELSE x[t + 1]) = It(k)
    <3>1. ASSUME NEW k \in 1 .. (m + t) + 1
          PROVE  (IF k <= m + t THEN f[k] ELSE x[t + 1]) = It(k)
      <4>1. CASE k <= m + t
        <5>1. k \in 1 .. m + t
          BY <4>1
        <5> QED
          BY <4>1, <5>1, <2>1 DEF f
      <4>2. CASE ~(k <= m + t)
        <5>1. k - m = t + 1 /\ ~(k <= m)
          BY <4>2
        <5> QED
          BY <4>2, <5>1
      <4> QED
        BY <4>1, <4>2
    <3> QED
      BY <3>1
  <2>6. (m + t) + 1 = m + (t + 1)
    OBVIOUS
  <2> HIDE DEF It
  <2> QED
    BY <2>2, <2>4, <2>5, <2>6 DEF f
<1>3. ASSUME NEW t \in 0 .. N, NEW k \in 1 .. m + t
      PROVE  s[t][k] = It(k)
  <2>1. Nat \subseteq S
    BY <1>1, <1>2, SetInduction
  <2>2. s[t] = [kk \in 1 .. m + t |-> It(kk)]
    BY <2>1
  <2> HIDE DEF It
  <2> QED
    BY <2>2
<1> HIDE DEF S
<1>4. \A k \in 1 .. m : s[N][k] = s[0][k]
  <2>1. ASSUME NEW k \in 1 .. m PROVE s[N][k] = s[0][k]
    <3>1. k \in 1 .. m + N /\ k <= m /\ N \in 0 .. N
      OBVIOUS
    <3> QED
      BY <1>3, <3>1
  <2> QED
    BY <2>1
<1>5. \A t \in 1 .. N : s[N][m + t] = x[t]
  <2>1. ASSUME NEW t \in 1 .. N PROVE s[N][m + t] = x[t]
    <3>1. m + t \in 1 .. m + N /\ ~(m + t <= m) /\ (m + t) - m = t /\ N \in 0 .. N
      OBVIOUS
    <3> QED
      BY <1>3, <3>1
  <2> QED
    BY <2>1
<1>6. \A t \in 0 .. N : \A k \in 1 .. m + t : s[t][k] = s[N][k]
  <2>1. ASSUME NEW t \in 0 .. N, NEW k \in 1 .. m + t PROVE s[t][k] = s[N][k]
    <3>1. k \in 1 .. m + N /\ N \in 0 .. N
      OBVIOUS
    <3> QED
      BY <1>3, <3>1
  <2> QED
    BY <2>1
<1> QED
  BY <1>4, <1>5, <1>6

(* FIPS 180's schedule has the block's words, and each word after them     *)
(* from those before it.                                                   *)
First16(B) == [n \in 1 .. 16 |-> Sha512!Bswap(B[n - 1])]
ScheduleChain(w, n, B) ==
  /\ w[0] = First16(B)
  /\ \A t \in 1 .. n : w[t] = Append(w[t - 1], Sha512!Scheduled(w[t - 1], 16 + t))

LEMMA ScheduleChains ==
  ASSUME NEW B
  PROVE  \A n \in Nat : \E w : ScheduleChain(w, n, B)
<1> DEFINE S == {n \in Nat : \E w : ScheduleChain(w, n, B)}
<1>1. 0 \in S
  <2>1. ScheduleChain([t \in {0} |-> First16(B)], 0, B)
    BY DEF ScheduleChain
  <2> QED
    BY <2>1
<1>2. ASSUME NEW n \in Nat, n \in S
      PROVE  n + 1 \in S
  <2>1. PICK w : ScheduleChain(w, n, B)
    BY <1>2
  <2> DEFINE new == Append(w[n], Sha512!Scheduled(w[n], 16 + (n + 1)))
             v == [t \in 0 .. n + 1 |-> IF t = n + 1 THEN new ELSE w[t]]
  <2>2. v[0] = First16(B)
    BY <2>1 DEF ScheduleChain
  <2>3. ASSUME NEW t \in 1 .. n + 1
        PROVE  v[t] = Append(v[t - 1], Sha512!Scheduled(v[t - 1], 16 + t))
    <3>1. v[t - 1] = w[t - 1]
      OBVIOUS
    <3>2. CASE t = n + 1
      <4>1. v[t] = new /\ t - 1 = n
        BY <3>2
      <4> QED
        BY <3>1, <3>2, <4>1
    <3>3. CASE t # n + 1
      <4>1. t \in 1 .. n /\ v[t] = w[t]
        BY <3>3
      <4> QED
        BY <2>1, <3>1, <4>1 DEF ScheduleChain
    <3> QED
      BY <3>2, <3>3
  <2>4. ScheduleChain(v, n + 1, B)
    BY <2>2, <2>3 DEF ScheduleChain
  <2> QED
    BY <2>4
<1>3. Nat \subseteq S
  BY <1>1, <1>2, SetInduction
<1> QED
  BY <1>3

LEMMA ScheduleRecursion ==
  ASSUME NEW B
  PROVE  \E w : ScheduleChain(w, 64, B) /\ Sha512!Schedule(B) = w[64]
<1>1. PICK w : ScheduleChain(w, 64, B)
  BY ScheduleChains
<1> DEFINE A == [t \in 0 .. 64 |-> w[t]]
           Once(f) == [t \in 0 .. 64 |->
                         IF t = 0 THEN First16(B)
                                  ELSE Append(f[t - 1], Sha512!Scheduled(f[t - 1], 16 + t))]
           V == CHOOSE f : f = Once(f)
<1>2. A = Once(A)
  <2>1. ASSUME NEW t \in 0 .. 64
        PROVE  A[t] = IF t = 0 THEN First16(B)
                               ELSE Append(A[t - 1], Sha512!Scheduled(A[t - 1], 16 + t))
    <3>1. CASE t = 0
      BY <1>1, <3>1 DEF ScheduleChain
    <3>2. CASE t # 0
      <4>1. t \in 1 .. 64 /\ t - 1 \in 0 .. 64
        BY <3>2
      <4> QED
        BY <1>1, <3>2, <4>1 DEF ScheduleChain
    <3> QED
      BY <3>1, <3>2
  <2> QED
    BY <2>1
<1>3. V = Once(V)
  BY <1>2
<1>4. Sha512!Schedule(B) = V[64]
  BY DEF Sha512!Schedule, First16
<1> HIDE DEF V
<1>5. ScheduleChain(V, 64, B)
  <2>1. V[0] = First16(B)
    BY <1>3
  <2>2. ASSUME NEW t \in 1 .. 64
        PROVE  V[t] = Append(V[t - 1], Sha512!Scheduled(V[t - 1], 16 + t))
    <3>1. t \in 0 .. 64 /\ t # 0
      OBVIOUS
    <3> QED
      BY <1>3, <3>1
  <2> QED
    BY <2>1, <2>2 DEF ScheduleChain
<1> QED
  BY <1>4, <1>5

(* Its values of a and e: four from the chaining value, and one more by    *)
(* each round.                                                             *)
First4(C) == [n \in 1 .. 4 |-> [a |-> C[4 - n], e |-> C[8 - n]]]
ValuesChain(s, n, C, B) ==
  /\ s[0] = First4(C)
  /\ \A t \in 1 .. n : s[t] = Append(s[t - 1], Sha512!Worked(s[t - 1], t, Sha512!Schedule(B)[t]))

LEMMA ValuesChains ==
  ASSUME NEW C, NEW B
  PROVE  \A n \in Nat : \E s : ValuesChain(s, n, C, B)
<1> DEFINE S == {n \in Nat : \E s : ValuesChain(s, n, C, B)}
<1>1. 0 \in S
  <2>1. ValuesChain([t \in {0} |-> First4(C)], 0, C, B)
    BY DEF ValuesChain
  <2> QED
    BY <2>1
<1>2. ASSUME NEW n \in Nat, n \in S
      PROVE  n + 1 \in S
  <2>1. PICK s : ValuesChain(s, n, C, B)
    BY <1>2
  <2> DEFINE new == Append(s[n], Sha512!Worked(s[n], n + 1, Sha512!Schedule(B)[n + 1]))
             y == [t \in 0 .. n + 1 |-> IF t = n + 1 THEN new ELSE s[t]]
  <2>2. y[0] = First4(C)
    BY <2>1 DEF ValuesChain
  <2>3. ASSUME NEW t \in 1 .. n + 1
        PROVE  y[t] = Append(y[t - 1], Sha512!Worked(y[t - 1], t, Sha512!Schedule(B)[t]))
    <3>1. y[t - 1] = s[t - 1]
      OBVIOUS
    <3>2. CASE t = n + 1
      <4>1. y[t] = new /\ t - 1 = n
        BY <3>2
      <4> QED
        BY <3>1, <3>2, <4>1
    <3>3. CASE t # n + 1
      <4>1. t \in 1 .. n /\ y[t] = s[t]
        BY <3>3
      <4> QED
        BY <2>1, <3>1, <4>1 DEF ValuesChain
    <3> QED
      BY <3>2, <3>3
  <2>4. ValuesChain(y, n + 1, C, B)
    BY <2>2, <2>3 DEF ValuesChain
  <2> QED
    BY <2>4
<1>3. Nat \subseteq S
  BY <1>1, <1>2, SetInduction
<1> QED
  BY <1>3

LEMMA ValuesRecursion ==
  ASSUME NEW C, NEW B
  PROVE  \E s : ValuesChain(s, 80, C, B) /\ Sha512!Values(C, B) = s[80]
<1>1. PICK s : ValuesChain(s, 80, C, B)
  BY ValuesChains
<1> DEFINE A == [t \in 0 .. 80 |-> s[t]]
           Once(f) == [t \in 0 .. 80 |->
                         IF t = 0 THEN First4(C)
                                  ELSE Append(f[t - 1], Sha512!Worked(f[t - 1], t, Sha512!Schedule(B)[t]))]
           V == CHOOSE f : f = Once(f)
<1>2. A = Once(A)
  <2>1. ASSUME NEW t \in 0 .. 80
        PROVE  A[t] = IF t = 0 THEN First4(C)
                               ELSE Append(A[t - 1], Sha512!Worked(A[t - 1], t, Sha512!Schedule(B)[t]))
    <3>1. CASE t = 0
      BY <1>1, <3>1 DEF ValuesChain
    <3>2. CASE t # 0
      <4>1. t \in 1 .. 80 /\ t - 1 \in 0 .. 80
        BY <3>2
      <4> QED
        BY <1>1, <3>2, <4>1 DEF ValuesChain
    <3> QED
      BY <3>1, <3>2
  <2> QED
    BY <2>1
<1>3. V = Once(V)
  BY <1>2
<1>4. Sha512!Values(C, B) = V[80]
  BY DEF Sha512!Values, First4
<1> HIDE DEF V
<1>5. ValuesChain(V, 80, C, B)
  <2>1. V[0] = First4(C)
    <3>1. Once(V)[0] = First4(C)
      OBVIOUS
    <3> QED
      BY <1>3, <3>1
  <2>2. ASSUME NEW t \in 1 .. 80
        PROVE  V[t] = Append(V[t - 1], Sha512!Worked(V[t - 1], t, Sha512!Schedule(B)[t]))
    <3>1. t \in 0 .. 80 /\ t # 0
      OBVIOUS
    <3> QED
      BY <1>3, <3>1
  <2> QED
    BY <2>1, <2>2 DEF ValuesChain
<1> QED
  BY <1>4, <1>5

(* RIPEMD-160's values of B in a line: five from the chaining value, and   *)
(* one more by each round.                                                 *)
First5(C) == <<Rmd160!Rol(C[0], 22), Rmd160!Rol(C[4], 22), Rmd160!Rol(C[3], 22), C[2], C[1]>>
LineChain(s, n, l, C, B) ==
  /\ s[0] = First5(C)
  /\ \A t \in 1 .. n : s[t] = Append(s[t - 1], Rmd160!NextB(l, s[t - 1], t, B))

LEMMA LineChains ==
  ASSUME NEW l, NEW C, NEW B
  PROVE  \A n \in Nat : \E s : LineChain(s, n, l, C, B)
<1> DEFINE S == {n \in Nat : \E s : LineChain(s, n, l, C, B)}
<1>1. 0 \in S
  <2>1. LineChain([t \in {0} |-> First5(C)], 0, l, C, B)
    BY DEF LineChain
  <2> QED
    BY <2>1
<1>2. ASSUME NEW n \in Nat, n \in S
      PROVE  n + 1 \in S
  <2>1. PICK s : LineChain(s, n, l, C, B)
    BY <1>2
  <2> DEFINE new == Append(s[n], Rmd160!NextB(l, s[n], n + 1, B))
             y == [t \in 0 .. n + 1 |-> IF t = n + 1 THEN new ELSE s[t]]
  <2>2. y[0] = First5(C)
    BY <2>1 DEF LineChain
  <2>3. ASSUME NEW t \in 1 .. n + 1
        PROVE  y[t] = Append(y[t - 1], Rmd160!NextB(l, y[t - 1], t, B))
    <3>1. y[t - 1] = s[t - 1]
      OBVIOUS
    <3>2. CASE t = n + 1
      <4>1. y[t] = new /\ t - 1 = n
        BY <3>2
      <4> QED
        BY <3>1, <3>2, <4>1
    <3>3. CASE t # n + 1
      <4>1. t \in 1 .. n /\ y[t] = s[t]
        BY <3>3
      <4> QED
        BY <2>1, <3>1, <4>1 DEF LineChain
    <3> QED
      BY <3>2, <3>3
  <2>4. LineChain(y, n + 1, l, C, B)
    BY <2>2, <2>3 DEF LineChain
  <2> QED
    BY <2>4
<1>3. Nat \subseteq S
  BY <1>1, <1>2, SetInduction
<1> QED
  BY <1>3

LEMMA LineRecursion ==
  ASSUME NEW l, NEW C, NEW B
  PROVE  \E s : LineChain(s, 80, l, C, B) /\ Rmd160!Values(l, C, B) = s[80]
<1>1. PICK s : LineChain(s, 80, l, C, B)
  BY LineChains
<1> DEFINE A == [t \in 0 .. 80 |-> s[t]]
           Once(f) == [t \in 0 .. 80 |->
                         IF t = 0 THEN First5(C)
                                  ELSE Append(f[t - 1], Rmd160!NextB(l, f[t - 1], t, B))]
           V == CHOOSE f : f = Once(f)
<1>2. A = Once(A)
  <2>1. ASSUME NEW t \in 0 .. 80
        PROVE  A[t] = IF t = 0 THEN First5(C)
                               ELSE Append(A[t - 1], Rmd160!NextB(l, A[t - 1], t, B))
    <3>1. CASE t = 0
      BY <1>1, <3>1 DEF LineChain
    <3>2. CASE t # 0
      <4>1. t \in 1 .. 80 /\ t - 1 \in 0 .. 80
        BY <3>2
      <4> QED
        BY <1>1, <3>2, <4>1 DEF LineChain
    <3> QED
      BY <3>1, <3>2
  <2> QED
    BY <2>1
<1>3. V = Once(V)
  BY <1>2
<1>4. Rmd160!Values(l, C, B) = V[80]
  BY DEF Rmd160!Values, First5
<1> HIDE DEF V
<1>5. LineChain(V, 80, l, C, B)
  <2>1. V[0] = First5(C)
    <3>1. Once(V)[0] = First5(C)
      OBVIOUS
    <3> QED
      BY <1>3, <3>1
  <2>2. ASSUME NEW t \in 1 .. 80
        PROVE  V[t] = Append(V[t - 1], Rmd160!NextB(l, V[t - 1], t, B))
    <3>1. t \in 0 .. 80 /\ t # 0
      OBVIOUS
    <3> QED
      BY <1>3, <3>1
  <2> QED
    BY <2>1, <2>2 DEF LineChain
<1> QED
  BY <1>4, <1>5

LEMMA ScheduleIs ==
  ASSUME NEW B
  PROVE  /\ \A t \in 1 .. 16 : Sha512!Schedule(B)[t] = Sha512!Bswap(B[t - 1])
         /\ \A t \in 17 .. 80 : Sha512!Schedule(B)[t] = Sha512!Scheduled(Sha512!Schedule(B), t)
<1>1. PICK w : ScheduleChain(w, 64, B) /\ Sha512!Schedule(B) = w[64]
  BY ScheduleRecursion
<1> DEFINE W == Sha512!Schedule(B)
           x == [t \in 1 .. 64 |-> Sha512!Scheduled(w[t - 1], 16 + t)]
<1>2. w[0] = First16(B) /\ \A t \in 1 .. 64 : w[t] = Append(w[t - 1], x[t])
  BY <1>1 DEF ScheduleChain
<1>3. w[0] = [k \in 1 .. 16 |-> w[0][k]]
  BY <1>2 DEF First16
<1>4. W = w[64] /\ \A t \in 1 .. 64 : x[t] = Sha512!Scheduled(w[t - 1], 16 + t)
  BY <1>1
<1> HIDE DEF x, W
<1>5. Grows(w, x, 16, 64)
  BY <1>2, <1>3 DEF Grows
<1>6. /\ \A k \in 1 .. 16 : W[k] = w[0][k]
      /\ \A t \in 1 .. 64 : W[16 + t] = x[t]
      /\ \A t \in 0 .. 64 : \A k \in 1 .. 16 + t : w[t][k] = W[k]
  <2> DEFINE m == 16
             N == 64
  <2>1. m \in Nat /\ N \in Nat /\ Grows(w, x, m, N)
    BY <1>5
  <2> HIDE DEF m, N
  <2>2. /\ \A k \in 1 .. m : w[N][k] = w[0][k]
        /\ \A t \in 1 .. N : w[N][m + t] = x[t]
        /\ \A t \in 0 .. N : \A k \in 1 .. m + t : w[t][k] = w[N][k]
    BY <2>1, Grown
  <2> QED
    BY <1>4, <2>2 DEF m, N
<1>7. \A t \in 1 .. 16 : W[t] = Sha512!Bswap(B[t - 1])
  BY <1>2, <1>6 DEF First16
<1>8. ASSUME NEW t \in 17 .. 80
      PROVE  W[t] = Sha512!Scheduled(W, t)
  <2> DEFINE n == t - 16
  <2>1. n \in 1 .. 64 /\ 16 + n = t /\ n - 1 \in 0 .. 64
    OBVIOUS
  <2>2. W[t] = Sha512!Scheduled(w[n - 1], t)
    <3>1. W[16 + n] = x[n] /\ x[n] = Sha512!Scheduled(w[n - 1], 16 + n)
      BY <1>4, <1>6, <2>1
    <3> QED
      BY <2>1, <3>1
  <2>3. /\ t - 2 \in 1 .. 16 + (n - 1) /\ t - 7 \in 1 .. 16 + (n - 1)
        /\ t - 15 \in 1 .. 16 + (n - 1) /\ t - 16 \in 1 .. 16 + (n - 1)
    OBVIOUS
  <2> HIDE DEF n
  <2>4. /\ w[n - 1][t - 2] = W[t - 2] /\ w[n - 1][t - 7] = W[t - 7]
        /\ w[n - 1][t - 15] = W[t - 15] /\ w[n - 1][t - 16] = W[t - 16]
    BY <1>6, <2>1, <2>3
  <2> QED
    BY <2>2, <2>4 DEF Sha512!Scheduled
<1> QED
  BY <1>7, <1>8 DEF W

LEMMA ValuesAre ==
  ASSUME NEW C, NEW B
  PROVE  /\ \A t \in 1 .. 4 : Sha512!Values(C, B)[t] = [a |-> C[4 - t], e |-> C[8 - t]]
         /\ \A t \in 1 .. 80 :
              Sha512!Values(C, B)[4 + t] =
                Sha512!Worked(Sha512!Values(C, B), t, Sha512!Schedule(B)[t])
<1>1. PICK s : ValuesChain(s, 80, C, B) /\ Sha512!Values(C, B) = s[80]
  BY ValuesRecursion
<1> DEFINE V == Sha512!Values(C, B)
           W == Sha512!Schedule(B)
           x == [t \in 1 .. 80 |-> Sha512!Worked(s[t - 1], t, W[t])]
<1>2. s[0] = First4(C) /\ \A t \in 1 .. 80 : s[t] = Append(s[t - 1], x[t])
  BY <1>1 DEF ValuesChain
<1>3. s[0] = [k \in 1 .. 4 |-> s[0][k]]
  BY <1>2 DEF First4
<1>4. V = s[80] /\ \A t \in 1 .. 80 : x[t] = Sha512!Worked(s[t - 1], t, W[t])
  BY <1>1
<1> HIDE DEF x, V, W
<1>5. Grows(s, x, 4, 80)
  BY <1>2, <1>3 DEF Grows
<1>6. /\ \A k \in 1 .. 4 : V[k] = s[0][k]
      /\ \A t \in 1 .. 80 : V[4 + t] = x[t]
      /\ \A t \in 0 .. 80 : \A k \in 1 .. 4 + t : s[t][k] = V[k]
  <2> DEFINE m == 4
             N == 80
  <2>1. m \in Nat /\ N \in Nat /\ Grows(s, x, m, N)
    BY <1>5
  <2> HIDE DEF m, N
  <2>2. /\ \A k \in 1 .. m : s[N][k] = s[0][k]
        /\ \A t \in 1 .. N : s[N][m + t] = x[t]
        /\ \A t \in 0 .. N : \A k \in 1 .. m + t : s[t][k] = s[N][k]
    BY <2>1, Grown
  <2> QED
    BY <1>4, <2>2 DEF m, N
<1>7. \A t \in 1 .. 4 : V[t] = [a |-> C[4 - t], e |-> C[8 - t]]
  BY <1>2, <1>6 DEF First4
<1>8. ASSUME NEW t \in 1 .. 80
      PROVE  V[4 + t] = Sha512!Worked(V, t, W[t])
  <2>1. V[4 + t] = Sha512!Worked(s[t - 1], t, W[t])
    BY <1>4, <1>6
  <2>2. t - 1 \in 0 .. 80 /\ \A n \in 0 .. 3 : t + n \in 1 .. 4 + (t - 1)
    OBVIOUS
  <2>3. \A n \in 0 .. 3 : s[t - 1][t + n] = V[t + n]
    BY <1>6, <2>2
  <2>4. /\ s[t - 1][t] = V[t] /\ s[t - 1][t + 1] = V[t + 1]
        /\ s[t - 1][t + 2] = V[t + 2] /\ s[t - 1][t + 3] = V[t + 3]
    BY <2>3
  <2> QED
    BY <2>1, <2>4 DEF Sha512!Worked
<1> QED
  BY <1>7, <1>8 DEF V, W

LEMMA LineIs ==
  ASSUME NEW l, NEW C, NEW B
  PROVE  /\ \A t \in 1 .. 5 : Rmd160!Values(l, C, B)[t] = First5(C)[t]
         /\ \A t \in 1 .. 80 :
              Rmd160!Values(l, C, B)[5 + t] = Rmd160!NextB(l, Rmd160!Values(l, C, B), t, B)
<1>1. PICK s : LineChain(s, 80, l, C, B) /\ Rmd160!Values(l, C, B) = s[80]
  BY LineRecursion
<1> DEFINE V == Rmd160!Values(l, C, B)
           x == [t \in 1 .. 80 |-> Rmd160!NextB(l, s[t - 1], t, B)]
<1>2. s[0] = First5(C) /\ \A t \in 1 .. 80 : s[t] = Append(s[t - 1], x[t])
  BY <1>1 DEF LineChain
<1>3. s[0] = [k \in 1 .. 5 |-> s[0][k]]
  <2> DEFINE c0 == Rmd160!Rol(C[0], 22)
             c4 == Rmd160!Rol(C[4], 22)
             c3 == Rmd160!Rol(C[3], 22)
  <2>1. s[0] = <<c0, c4, c3, C[2], C[1]>>
    BY <1>2 DEF First5
  <2> HIDE DEF c0, c4, c3
  <2> QED
    BY <2>1
<1>4. V = s[80] /\ \A t \in 1 .. 80 : x[t] = Rmd160!NextB(l, s[t - 1], t, B)
  BY <1>1
<1> HIDE DEF x, V
<1>5. Grows(s, x, 5, 80)
  BY <1>2, <1>3 DEF Grows
<1>6. /\ \A k \in 1 .. 5 : V[k] = s[0][k]
      /\ \A t \in 1 .. 80 : V[5 + t] = x[t]
      /\ \A t \in 0 .. 80 : \A k \in 1 .. 5 + t : s[t][k] = V[k]
  <2> DEFINE m == 5
             N == 80
  <2>1. m \in Nat /\ N \in Nat /\ Grows(s, x, m, N)
    BY <1>5
  <2> HIDE DEF m, N
  <2>2. /\ \A k \in 1 .. m : s[N][k] = s[0][k]
        /\ \A t \in 1 .. N : s[N][m + t] = x[t]
        /\ \A t \in 0 .. N : \A k \in 1 .. m + t : s[t][k] = s[N][k]
    BY <2>1, Grown
  <2> QED
    BY <1>4, <2>2 DEF m, N
<1>7. \A t \in 1 .. 5 : V[t] = First5(C)[t]
  BY <1>2, <1>6
<1>8. ASSUME NEW t \in 1 .. 80
      PROVE  V[5 + t] = Rmd160!NextB(l, V, t, B)
  <2>1. V[5 + t] = Rmd160!NextB(l, s[t - 1], t, B)
    BY <1>4, <1>6
  <2>2. t - 1 \in 0 .. 80 /\ \A n \in 0 .. 4 : t + n \in 1 .. 5 + (t - 1)
    OBVIOUS
  <2>3. \A n \in 0 .. 4 : s[t - 1][t + n] = V[t + n]
    BY <1>6, <2>2
  <2>4. /\ s[t - 1][t] = V[t] /\ s[t - 1][t + 1] = V[t + 1]
        /\ s[t - 1][t + 2] = V[t + 2] /\ s[t - 1][t + 3] = V[t + 3]
        /\ s[t - 1][t + 4] = V[t + 4]
    BY <2>3
  <2> QED
    BY <2>1, <2>4 DEF Rmd160!NextB
<1> QED
  BY <1>7, <1>8 DEF V
-----------------------------------------------------------------------------
(* The tables of rmd160.c say, round by round, what the definition says    *)
(* by two permutations, and by the word that is rotated.                   *)
LEMMA Sixteen ==
  ASSUME NEW n \in 0 .. 15
  PROVE  \/ n = 0 \/ n = 1 \/ n = 2 \/ n = 3 \/ n = 4 \/ n = 5 \/ n = 6 \/ n = 7
         \/ n = 8 \/ n = 9 \/ n = 10 \/ n = 11 \/ n = 12 \/ n = 13 \/ n = 14 \/ n = 15
OBVIOUS

LEMMA LeftOrder ==
  ASSUME NEW n \in 0 .. 15
  PROVE  /\ Rmd160!Orders[1][1][n] = Rmd160!r[1 + n]
         /\ Rmd160!Orders[1][2][n] = Rmd160!r[17 + n]
         /\ Rmd160!Orders[1][3][n] = Rmd160!r[33 + n]
         /\ Rmd160!Orders[1][4][n] = Rmd160!r[49 + n]
         /\ Rmd160!Orders[1][5][n] = Rmd160!r[65 + n]
<1> DEFINE p1 == [k \in 0 .. 15 |-> k]
           p2 == Rmd160!Then(p1)
           p3 == Rmd160!Then(p2)
           p4 == Rmd160!Then(p3)
           p5 == Rmd160!Then(p4)
<1>1. Rmd160!Orders[1] = <<p1, p2, p3, p4, p5>>
  BY DEF Rmd160!Orders, Rmd160!From
<1>2. p1[n] = n
  OBVIOUS
<1>3. /\ p2[n] = Rmd160!rho[1 + p1[n]] /\ p3[n] = Rmd160!rho[1 + p2[n]]
      /\ p4[n] = Rmd160!rho[1 + p3[n]] /\ p5[n] = Rmd160!rho[1 + p4[n]]
  BY DEF Rmd160!Then
<1> HIDE DEF p1, p2, p3, p4, p5
<1>4. p1[n] = Rmd160!r[1 + n]
  BY <1>2, Sixteen DEF Rmd160!r
<1>5. p2[n] = Rmd160!r[17 + n]
  <2>1. Rmd160!r[17 + n] = Rmd160!rho[1 + Rmd160!r[1 + n]]
    BY Sixteen DEF Rmd160!r, Rmd160!rho
  <2> QED
    BY <1>3, <1>4, <2>1
<1>6. p3[n] = Rmd160!r[33 + n]
  <2>1. Rmd160!r[33 + n] = Rmd160!rho[1 + Rmd160!r[17 + n]]
    BY Sixteen DEF Rmd160!r, Rmd160!rho
  <2> QED
    BY <1>3, <1>5, <2>1
<1>7. p4[n] = Rmd160!r[49 + n]
  <2>1. Rmd160!r[49 + n] = Rmd160!rho[1 + Rmd160!r[33 + n]]
    BY Sixteen DEF Rmd160!r, Rmd160!rho
  <2> QED
    BY <1>3, <1>6, <2>1
<1>8. p5[n] = Rmd160!r[65 + n]
  <2>1. Rmd160!r[65 + n] = Rmd160!rho[1 + Rmd160!r[49 + n]]
    BY Sixteen DEF Rmd160!r, Rmd160!rho
  <2> QED
    BY <1>3, <1>7, <2>1
<1> QED
  BY <1>1, <1>4, <1>5, <1>6, <1>7, <1>8

LEMMA RightOrder ==
  ASSUME NEW n \in 0 .. 15
  PROVE  /\ Rmd160!Orders[2][1][n] = Rmd160!r_[1 + n]
         /\ Rmd160!Orders[2][2][n] = Rmd160!r_[17 + n]
         /\ Rmd160!Orders[2][3][n] = Rmd160!r_[33 + n]
         /\ Rmd160!Orders[2][4][n] = Rmd160!r_[49 + n]
         /\ Rmd160!Orders[2][5][n] = Rmd160!r_[65 + n]
<1> DEFINE p1 == [k \in 0 .. 15 |-> (9 * k + 5) % 16]
           p2 == Rmd160!Then(p1)
           p3 == Rmd160!Then(p2)
           p4 == Rmd160!Then(p3)
           p5 == Rmd160!Then(p4)
<1>1. Rmd160!Orders[2] = <<p1, p2, p3, p4, p5>>
  BY DEF Rmd160!Orders, Rmd160!From
<1>2. p1[n] = (9 * n + 5) % 16
  OBVIOUS
<1>3. /\ p2[n] = Rmd160!rho[1 + p1[n]] /\ p3[n] = Rmd160!rho[1 + p2[n]]
      /\ p4[n] = Rmd160!rho[1 + p3[n]] /\ p5[n] = Rmd160!rho[1 + p4[n]]
  BY DEF Rmd160!Then
<1> HIDE DEF p1, p2, p3, p4, p5
<1>4. p1[n] = Rmd160!r_[1 + n]
  BY <1>2, Sixteen DEF Rmd160!r_
<1>5. p2[n] = Rmd160!r_[17 + n]
  <2>1. Rmd160!r_[17 + n] = Rmd160!rho[1 + Rmd160!r_[1 + n]]
    BY Sixteen DEF Rmd160!r_, Rmd160!rho
  <2> QED
    BY <1>3, <1>4, <2>1
<1>6. p3[n] = Rmd160!r_[33 + n]
  <2>1. Rmd160!r_[33 + n] = Rmd160!rho[1 + Rmd160!r_[17 + n]]
    BY Sixteen DEF Rmd160!r_, Rmd160!rho
  <2> QED
    BY <1>3, <1>5, <2>1
<1>7. p4[n] = Rmd160!r_[49 + n]
  <2>1. Rmd160!r_[49 + n] = Rmd160!rho[1 + Rmd160!r_[33 + n]]
    BY Sixteen DEF Rmd160!r_, Rmd160!rho
  <2> QED
    BY <1>3, <1>6, <2>1
<1>8. p5[n] = Rmd160!r_[65 + n]
  <2>1. Rmd160!r_[65 + n] = Rmd160!rho[1 + Rmd160!r_[49 + n]]
    BY Sixteen DEF Rmd160!r_, Rmd160!rho
  <2> QED
    BY <1>3, <1>7, <2>1
<1> QED
  BY <1>1, <1>4, <1>5, <1>6, <1>7, <1>8

(* A round's number and the place in it. *)
LEMMA FiveRounds ==
  ASSUME NEW q \in 0 .. 79
  PROVE  \E i \in 0 .. 4, n \in 0 .. 15 : q = 16 * i + n /\ q \div 16 = i /\ q % 16 = n
<1>1. q \div 16 \in 0 .. 4 /\ q % 16 \in 0 .. 15 /\ q = 16 * (q \div 16) + (q % 16)
  OBVIOUS
<1> QED
  BY <1>1

LEMMA Tables ==
  ASSUME NEW q \in 0 .. 79
  PROVE  /\ Rmd160!r[q + 1] = Rmd160!Orders[1][1 + (q \div 16)][q % 16]
         /\ Rmd160!r_[q + 1] = Rmd160!Orders[2][1 + (q \div 16)][q % 16]
         /\ Rmd160!s[q + 1] = Rmd160!Rotation[1 + (q \div 16)][Rmd160!r[q + 1] + 1]
         /\ Rmd160!s_[q + 1] = Rmd160!Rotation[1 + (q \div 16)][Rmd160!r_[q + 1] + 1]
         /\ Rmd160!r[q + 1] \in 0 .. 15 /\ Rmd160!r_[q + 1] \in 0 .. 15
         /\ Rmd160!s[q + 1] \in Nat /\ Rmd160!s_[q + 1] \in Nat
<1>1. PICK i \in 0 .. 4, n \in 0 .. 15 : q = 16 * i + n /\ q \div 16 = i /\ q % 16 = n
  BY FiveRounds
<1>2. i = 0 \/ i = 1 \/ i = 2 \/ i = 3 \/ i = 4
  OBVIOUS
<1>3. q + 1 = 1 + 16 * i + n
  BY <1>1
<1>4. /\ Rmd160!r[q + 1] = Rmd160!Orders[1][1 + i][n]
      /\ Rmd160!r_[q + 1] = Rmd160!Orders[2][1 + i][n]
  <2>1. CASE i = 0
    BY <1>3, <2>1, LeftOrder, RightOrder
  <2>2. CASE i = 1
    BY <1>3, <2>2, LeftOrder, RightOrder
  <2>3. CASE i = 2
    BY <1>3, <2>3, LeftOrder, RightOrder
  <2>4. CASE i = 3
    BY <1>3, <2>4, LeftOrder, RightOrder
  <2>5. CASE i = 4
    BY <1>3, <2>5, LeftOrder, RightOrder
  <2> QED
    BY <1>2, <2>1, <2>2, <2>3, <2>4, <2>5
<1>5. /\ Rmd160!r[1 + 16 * i + n] \in 0 .. 15
      /\ Rmd160!s[1 + 16 * i + n] = Rmd160!Rotation[1 + i][Rmd160!r[1 + 16 * i + n] + 1]
      /\ Rmd160!s[1 + 16 * i + n] \in Nat
  BY <1>2, Sixteen DEF Rmd160!r, Rmd160!s, Rmd160!Rotation
<1>6. /\ Rmd160!r_[1 + 16 * i + n] \in 0 .. 15
      /\ Rmd160!s_[1 + 16 * i + n] = Rmd160!Rotation[1 + i][Rmd160!r_[1 + 16 * i + n] + 1]
      /\ Rmd160!s_[1 + 16 * i + n] \in Nat
  BY <1>2, Sixteen DEF Rmd160!r_, Rmd160!s_, Rmd160!Rotation
<1> QED
  BY <1>1, <1>3, <1>4, <1>5, <1>6
-----------------------------------------------------------------------------
(* While a block B is compressed: SHA-512's registers are the last values  *)
(* of a and e, and X holds what is left of the block and the words of the  *)
(* schedule so far, 16 in all.                                             *)
ShaAt(V, t) == [n \in 0 .. 7 |-> IF n < 4 THEN V[t + 4 - n].a ELSE V[t + 8 - n].e]
Sliding(B, t, n) == IF t + n < 16 THEN B[t + n] ELSE Sha512!Schedule(B)[t + n - 15]

ShaInv(B) ==
  /\ h = [n \in 0 .. 7 |-> h[n]]
  /\ j # IDLE => /\ regs = ShaAt(Sha512!Values(h, B), j)
                 /\ \A n \in 0 .. 15 : words[n] = Sliding(B, j, n)

(* RIPEMD-160's two lines are the last values of B, three of them rotated, *)
(* and X is the block.                                                     *)
Word32 == SUBSET (0 .. 31)
LineAt(V, t) ==
  <<Rmd160!Rol(V[t + 1], 10), V[t + 5], V[t + 4], Rmd160!Rol(V[t + 3], 10), Rmd160!Rol(V[t + 2], 10)>>

RmdInv(B) ==
  /\ \A n \in 0 .. 4 : h[n] \in Word32
  /\ j # IDLE => /\ regs = <<LineAt(Rmd160!Values(1, h, B), j), LineAt(Rmd160!Values(2, h, B), j)>>
                 /\ \A l \in 1 .. 2, n \in 1 .. 5 : regs[l][n] \in Word32
                 /\ words = B
                 /\ \A n \in 0 .. 15 : B[n] \in Word32

(* The block compressed last. *)
Block == AsWords(blocks[Len(blocks)])

RoundInv ==
  /\ j \in {IDLE} \cup 0 .. 80
  /\ IsSha512 => ShaInv(Block)
  /\ ~IsSha512 => RmdInv(Block)

LEMMA ShaEnters ==
  ASSUME NEW B, h = [n \in 0 .. 7 |-> h[n]], Sha512!Enter(B)
  PROVE  ShaInv(B)' /\ j' = 0
<1>1. /\ \A n \in 0 .. 15 : words'[n] = B[n]
      /\ regs' = h /\ j' = 0 /\ h' = h
  BY DEF Sha512!Enter
<1> DEFINE V == Sha512!Values(h, B)
<1>2. \A t \in 1 .. 4 : V[t] = [a |-> h[4 - t], e |-> h[8 - t]]
  BY ValuesAre
<1> HIDE DEF V
<1>3. ASSUME NEW n \in 0 .. 7
      PROVE  (IF n < 4 THEN V[0 + 4 - n].a ELSE V[0 + 8 - n].e) = h[n]
  <2>1. CASE n < 4
    <3>1. 4 - n \in 1 .. 4 /\ 4 - (4 - n) = n /\ 0 + 4 - n = 4 - n
      BY <2>1
    <3> QED
      BY <1>2, <2>1, <3>1
  <2>2. CASE ~(n < 4)
    <3>1. 8 - n \in 1 .. 4 /\ 8 - (8 - n) = n /\ 0 + 8 - n = 8 - n
      BY <2>2
    <3> QED
      BY <1>2, <2>2, <3>1
  <2> QED
    BY <2>1, <2>2
<1>4. h = ShaAt(V, 0)
  BY <1>3 DEF ShaAt
<1>5. \A n \in 0 .. 15 : words'[n] = Sliding(B, 0, n)
  BY <1>1 DEF Sliding
<1> QED
  BY <1>1, <1>4, <1>5 DEF ShaInv, V

LEMMA ShaCurrent ==
  ASSUME NEW B, j \in 0 .. 79, ShaInv(B)
  PROVE  Sha512!Current = Sha512!Schedule(B)[j + 1]
<1> DEFINE W == Sha512!Schedule(B)
<1>1. \A n \in 0 .. 15 : words[n] = IF j + n < 16 THEN B[j + n] ELSE W[j + n - 15]
  BY DEF ShaInv, IDLE, Sliding
<1>2. /\ \A t \in 1 .. 16 : W[t] = Sha512!Bswap(B[t - 1])
      /\ \A t \in 17 .. 80 : W[t] = Sha512!Scheduled(W, t)
  BY ScheduleIs
<1> HIDE DEF W
<1>3. CASE j > 15
  <2>1. /\ words[14] = W[j - 1] /\ words[9] = W[j - 6]
        /\ words[1] = W[j - 14] /\ words[0] = W[j - 15]
    BY <1>1, <1>3
  <2>2. j + 1 \in 17 .. 80 /\ (j + 1) - 2 = j - 1 /\ (j + 1) - 7 = j - 6
        /\ (j + 1) - 15 = j - 14 /\ (j + 1) - 16 = j - 15
    BY <1>3
  <2>3. W[j + 1] = Sha512!Scheduled(W, j + 1)
    BY <1>2, <2>2
  <2>4. Sha512!Scheduled(W, j + 1) =
          Sha512!Plus(Sha512!Sum3(Sha512!SSIG1(W[j - 1]), W[j - 6], Sha512!SSIG0(W[j - 14])), W[j - 15])
    BY <2>2 DEF Sha512!Scheduled
  <2>5. Sha512!Current =
          Sha512!Plus(Sha512!Sum3(Sha512!SSIG1(words[14]), words[9], Sha512!SSIG0(words[1])), words[0])
    BY <1>3 DEF Sha512!Current
  <2> QED
    BY <2>1, <2>3, <2>4, <2>5 DEF W
<1>4. CASE ~(j > 15)
  <2>1. words[0] = B[j] /\ j + 1 \in 1 .. 16 /\ (j + 1) - 1 = j
    BY <1>1, <1>4
  <2>2. Sha512!Current = Sha512!Bswap(words[0])
    BY <1>4 DEF Sha512!Current
  <2> QED
    BY <1>2, <2>1, <2>2 DEF W
<1> QED
  BY <1>3, <1>4

LEMMA ShaRounds ==
  ASSUME NEW B, ShaInv(B), Sha512!Round
  PROVE  ShaInv(B)' /\ j' \in 0 .. 80
<1>1. j \in 0 .. 79 /\ j' = j + 1 /\ h' = h /\ j # IDLE
  BY DEF Sha512!Round, IDLE
<1> DEFINE V == Sha512!Values(h, B)
           W == Sha512!Schedule(B)
           w == Sha512!Current
           T1 == Sha512!Plus(Sha512!Sum3(regs[7], Sha512!BSIG1(regs[4]), Sha512!CH(regs[4], regs[5], regs[6])),
                             Sha512!Plus(Sha512!FromLimbs(Sha512!K[j + 1]), w))
           T2 == Sha512!Plus(Sha512!BSIG0(regs[0]), Sha512!MAJ(regs[0], regs[1], regs[2]))
           a == Sha512!Plus(T1, T2)
           e == Sha512!Plus(regs[3], T1)
           v == V[j + 5]
<1>2. /\ regs' = [n \in 0 .. 7 |-> CASE n = 0 -> a [] n = 4 -> e [] OTHER -> regs[n - 1]]
      /\ words' = [n \in 0 .. 16 |-> IF n < 15 THEN words[n + 1] ELSE w]
  BY DEF Sha512!Round
<1>3. w = W[j + 1]
  BY <1>1, ShaCurrent
<1>4. regs = [n \in 0 .. 7 |-> IF n < 4 THEN V[j + 4 - n].a ELSE V[j + 8 - n].e]
  BY <1>1 DEF ShaInv, ShaAt
<1>5. v = Sha512!Worked(V, j + 1, W[j + 1])
  <2>1. \A t \in 1 .. 80 : V[4 + t] = Sha512!Worked(V, t, W[t])
    BY ValuesAre
  <2> HIDE DEF V, W
  <2>2. j + 1 \in 1 .. 80 /\ 4 + (j + 1) = j + 5
    BY <1>1
  <2> QED
    BY <2>1, <2>2
<1>6. v.a = a /\ v.e = e
  <2> HIDE DEF V, W, w, v
  <2>1. /\ regs[0] = V[j + 4].a /\ regs[1] = V[j + 3].a /\ regs[2] = V[j + 2].a /\ regs[3] = V[j + 1].a
        /\ regs[4] = V[j + 4].e /\ regs[5] = V[j + 3].e /\ regs[6] = V[j + 2].e /\ regs[7] = V[j + 1].e
    BY <1>1, <1>4
  <2>2. (j + 1) + 3 = j + 4 /\ (j + 1) + 2 = j + 3 /\ (j + 1) + 1 = j + 2
    BY <1>1
  <2>3. v.a = Sha512!Sum3(T1, Sha512!BSIG0(regs[0]), Sha512!MAJ(regs[0], regs[1], regs[2])) /\ v.e = Sha512!Plus(regs[3], T1)
    BY <1>3, <1>5, <2>1, <2>2 DEF Sha512!Worked
  <2> QED
    BY <2>3 DEF Sha512!Sum3
<1> HIDE DEF V, W, w, T1, T2, a, e
<1>7. ASSUME NEW n \in 0 .. 7
      PROVE  regs'[n] = IF n < 4 THEN V[(j + 1) + 4 - n].a ELSE V[(j + 1) + 8 - n].e
  <2>1. CASE n = 0
    BY <1>1, <1>2, <1>6, <2>1
  <2>2. CASE n = 4
    BY <1>1, <1>2, <1>6, <2>2
  <2>3. CASE n # 0 /\ n # 4
    <3>1. regs'[n] = regs[n - 1] /\ n - 1 \in 0 .. 7
      BY <1>2, <2>3
    <3>2. (n < 4 <=> n - 1 < 4) /\ j + 4 - (n - 1) = (j + 1) + 4 - n /\ j + 8 - (n - 1) = (j + 1) + 8 - n
      BY <1>1, <2>3
    <3>3. regs[n - 1] = IF n - 1 < 4 THEN V[j + 4 - (n - 1)].a ELSE V[j + 8 - (n - 1)].e
      BY <1>4, <3>1
    <3> QED
      BY <3>1, <3>2, <3>3
  <2> QED
    BY <2>1, <2>2, <2>3
<1>8. regs' = ShaAt(V, j + 1)
  BY <1>2, <1>7 DEF ShaAt
<1>9. ASSUME NEW n \in 0 .. 15
      PROVE  words'[n] = Sliding(B, j + 1, n)
  <2>1. CASE n < 15
    <3>1. words'[n] = words[n + 1] /\ n + 1 \in 0 .. 15
      BY <1>2, <2>1
    <3>2. words[n + 1] = Sliding(B, j, n + 1)
      BY <1>1, <3>1 DEF ShaInv
    <3>3. j + (n + 1) = (j + 1) + n /\ j + (n + 1) - 15 = (j + 1) + n - 15
      BY <1>1
    <3>4. Sliding(B, j, n + 1) = Sliding(B, j + 1, n)
      BY <3>3 DEF Sliding
    <3> QED
      BY <3>1, <3>2, <3>4
  <2>2. CASE ~(n < 15)
    <3>1. words'[n] = w /\ (j + 1) + n - 15 = j + 1 /\ ~((j + 1) + n < 16)
      BY <1>1, <1>2, <2>2
    <3> QED
      BY <1>3, <3>1 DEF Sliding, W
  <2> QED
    BY <2>1, <2>2
<1>10. h' = [n \in 0 .. 7 |-> h'[n]]
  BY <1>1 DEF ShaInv
<1> QED
  BY <1>1, <1>8, <1>9, <1>10 DEF ShaInv, V

LEMMA ShaLeaves ==
  ASSUME NEW B, Sha512!Leave
  PROVE  ShaInv(B)' /\ j' = IDLE
<1>1. h' = [n \in 0 .. 7 |-> Sha512!Plus(h[n], regs[n])] /\ j' = IDLE
  BY DEF Sha512!Leave, Sha512!IDLE, IDLE
<1>2. h' = [n \in 0 .. 7 |-> h'[n]]
  BY <1>1
<1> QED
  BY <1>1, <1>2 DEF ShaInv
-----------------------------------------------------------------------------
LEMMA PlusIn ==
  ASSUME NEW a \in Word32, NEW b \in Word32
  PROVE  Rmd160!Plus(a, b) \in Word32
<1>1. Rmd160!Carry(a, b) \in Word32
  BY DEF Word32, Rmd160!Carry, Rmd160!Bits
<1> DEFINE c == Rmd160!Carry(a, b)
<1> HIDE DEF c
<1>2. Rmd160!Xor3(a, b, c) \in Word32
  BY <1>1 DEF c, Word32, Rmd160!Xor3, Rmd160!Xor
<1> QED
  BY <1>2 DEF c, Rmd160!Plus

LEMMA RolIn ==
  ASSUME NEW a \in Word32, NEW n \in Nat
  PROVE  Rmd160!Rol(a, n) \in Word32
<1>1. \A p \in a : (p + n) % 32 \in 0 .. 31
  BY DEF Word32
<1> QED
  BY <1>1 DEF Word32, Rmd160!Rol

LEMMA RolBack ==
  ASSUME NEW a \in Word32
  PROVE  Rmd160!Rol(Rmd160!Rol(a, 22), 10) = a
<1>1. \A p \in 0 .. 31 : (((p + 22) % 32) + 10) % 32 = p
  OBVIOUS
<1>2. \A p \in a : (((p + 22) % 32) + 10) % 32 = p
  BY <1>1 DEF Word32
<1> QED
  BY <1>2 DEF Rmd160!Rol

LEMMA FunctionIn ==
  ASSUME NEW n, NEW x \in Word32, NEW y \in Word32, NEW z \in Word32
  PROVE  Rmd160!f(n, x, y, z) \in Word32
<1>1. /\ Rmd160!Xor3(x, y, z) \in Word32
      /\ (x \cap y) \cup (Rmd160!Not(x) \cap z) \in Word32
      /\ Rmd160!Xor(x \cup Rmd160!Not(y), z) \in Word32
      /\ (x \cap z) \cup (y \cap Rmd160!Not(z)) \in Word32
      /\ Rmd160!Xor(x, y \cup Rmd160!Not(z)) \in Word32
  BY DEF Word32, Rmd160!Xor3, Rmd160!Xor, Rmd160!Not, Rmd160!Bits
<1> DEFINE f1 == Rmd160!Xor3(x, y, z)
           f2 == (x \cap y) \cup (Rmd160!Not(x) \cap z)
           f3 == Rmd160!Xor(x \cup Rmd160!Not(y), z)
           f4 == (x \cap z) \cup (y \cap Rmd160!Not(z))
           f5 == Rmd160!Xor(x, y \cup Rmd160!Not(z))
<1>2. \/ Rmd160!f(n, x, y, z) = f1 \/ Rmd160!f(n, x, y, z) = f2 \/ Rmd160!f(n, x, y, z) = f3
      \/ Rmd160!f(n, x, y, z) = f4 \/ Rmd160!f(n, x, y, z) = f5
  BY DEF Rmd160!f
<1> QED
  BY <1>1, <1>2

LEMMA LimbsIn ==
  ASSUME NEW k
  PROVE  Rmd160!FromLimbs(k) \in Word32
BY DEF Rmd160!FromLimbs, Rmd160!Bits, Word32

(* A line's words stay words. *)
LEMMA AdvancedIn ==
  ASSUME NEW l, \A n \in 1 .. 5 : l[n] \in Word32,
         NEW i, NEW word \in Word32, NEW shift \in Nat, NEW k
  PROVE  \A n \in 1 .. 5 : Rmd160!Advanced(l, i, word, shift, k)[n] \in Word32
<1> DEFINE fn == Rmd160!f(i, l[2], l[3], l[4])
           limbs == Rmd160!FromLimbs(k)
           two == Rmd160!Plus(fn, word)
           three == Rmd160!Plus(l[1], two)
           sum == Rmd160!Plus(three, limbs)
           turned == Rmd160!Rol(sum, shift)
           T == Rmd160!Plus(turned, l[5])
           c == Rmd160!Rol(l[3], 10)
<1>1. Rmd160!Advanced(l, i, word, shift, k) = <<l[5], T, l[2], c, l[4]>>
  BY DEF Rmd160!Advanced, Rmd160!Sum3
<1>2. l[1] \in Word32 /\ l[2] \in Word32 /\ l[3] \in Word32 /\ l[4] \in Word32 /\ l[5] \in Word32
  OBVIOUS
<1>3. fn \in Word32 /\ limbs \in Word32
  BY <1>2, FunctionIn, LimbsIn
<1> HIDE DEF fn, limbs
<1>4. two \in Word32
  BY <1>3, PlusIn
<1> HIDE DEF two
<1>5. three \in Word32
  BY <1>2, <1>4, PlusIn
<1> HIDE DEF three
<1>6. sum \in Word32
  BY <1>3, <1>5, PlusIn
<1> HIDE DEF sum
<1>7. turned \in Word32
  BY <1>6, RolIn
<1> HIDE DEF turned
<1>8. T \in Word32
  BY <1>2, <1>7, PlusIn
<1>9. c \in Word32
  BY <1>2, RolIn
<1> HIDE DEF T, c
<1> QED
  BY <1>1, <1>2, <1>8, <1>9

(* A line that is the values so far becomes the values with the next one.  *)
LEMMA LineAdvances ==
  ASSUME NEW V, NEW t \in 0 .. 79, NEW line, line = LineAt(V, t),
         NEW i, NEW word, NEW shift, NEW k,
         V[t + 6] = Rmd160!Plus(
           Rmd160!Rol(Rmd160!Plus(Rmd160!Sum3(Rmd160!Rol(V[t + 1], 10),
                                              Rmd160!f(i, V[t + 5], V[t + 4], Rmd160!Rol(V[t + 3], 10)),
                                              word),
                                  Rmd160!FromLimbs(k)), shift),
           Rmd160!Rol(V[t + 2], 10))
  PROVE  Rmd160!Advanced(line, i, word, shift, k) = LineAt(V, t + 1)
<1> DEFINE A == Rmd160!Rol(V[t + 1], 10)
           B == V[t + 5]
           C == V[t + 4]
           D == Rmd160!Rol(V[t + 3], 10)
           E == Rmd160!Rol(V[t + 2], 10)
           F == Rmd160!Rol(C, 10)
           T == V[t + 6]
<1>1. line = <<A, B, C, D, E>>
  BY DEF LineAt
<1>2. T = Rmd160!Plus(Rmd160!Rol(Rmd160!Plus(Rmd160!Sum3(A, Rmd160!f(i, B, C, D), word),
                                             Rmd160!FromLimbs(k)), shift), E)
  OBVIOUS
<1>3. LineAt(V, t + 1) = <<E, T, B, F, D>>
  <2>1. (t + 1) + 1 = t + 2 /\ (t + 1) + 5 = t + 6 /\ (t + 1) + 4 = t + 5
        /\ (t + 1) + 3 = t + 4 /\ (t + 1) + 2 = t + 3
    OBVIOUS
  <2> QED
    BY <2>1 DEF LineAt
<1> HIDE DEF A, B, C, D, E, T
<1>4. line[1] = A /\ line[2] = B /\ line[3] = C /\ line[4] = D /\ line[5] = E
  BY <1>1
<1> QED
  BY <1>2, <1>3, <1>4 DEF Rmd160!Advanced

LEMMA RmdEnters ==
  ASSUME NEW B, \A n \in 0 .. 15 : B[n] \in Word32, \A n \in 0 .. 4 : h[n] \in Word32,
         Rmd160!Enter(B)
  PROVE  RmdInv(B)' /\ j' = 0
<1>1. words' = B /\ regs' = [l \in 1 .. 2 |-> [n \in 1 .. 5 |-> h[n - 1]]] /\ j' = 0 /\ h' = h
  BY DEF Rmd160!Enter
<1> DEFINE line == <<h[0], h[1], h[2], h[3], h[4]>>
<1>2. [n \in 1 .. 5 |-> h[n - 1]] = line
  OBVIOUS
<1>3. ASSUME NEW l
      PROVE  LineAt(Rmd160!Values(l, h, B), 0) = line
  <2> DEFINE V == Rmd160!Values(l, h, B)
  <2>1. \A t \in 1 .. 5 : V[t] = First5(h)[t]
    BY LineIs
  <2> HIDE DEF V
  <2>2. V[1] = Rmd160!Rol(h[0], 22) /\ V[2] = Rmd160!Rol(h[4], 22) /\ V[3] = Rmd160!Rol(h[3], 22)
        /\ V[4] = h[2] /\ V[5] = h[1]
    BY <2>1 DEF First5
  <2>3. /\ Rmd160!Rol(V[1], 10) = h[0] /\ Rmd160!Rol(V[2], 10) = h[4]
        /\ Rmd160!Rol(V[3], 10) = h[3]
    BY <2>2, RolBack
  <2> QED
    BY <2>2, <2>3 DEF LineAt, V
<1>4. regs' = <<line, line>>
  BY <1>1, <1>2
<1>5. \A l \in 1 .. 2, n \in 1 .. 5 : regs'[l][n] \in Word32
  <2>1. \A n \in 1 .. 5 : line[n] \in Word32
    OBVIOUS
  <2> HIDE DEF line
  <2> QED
    BY <1>4, <2>1
<1> HIDE DEF line
<1> QED
  BY <1>1, <1>3, <1>4, <1>5 DEF RmdInv

LEMMA RmdRounds ==
  ASSUME NEW B, RmdInv(B), Rmd160!Round
  PROVE  RmdInv(B)' /\ j' \in 0 .. 80
<1> DEFINE V1 == Rmd160!Values(1, h, B)
           V2 == Rmd160!Values(2, h, B)
           rd == 1 + (j \div 16)
           w1 == Rmd160!r[j + 1]
           w2 == Rmd160!r_[j + 1]
           x1 == Rmd160!s[j + 1]
           x2 == Rmd160!s_[j + 1]
           k1 == Rmd160!K[rd]
           k2 == Rmd160!K_[rd]
           i2 == 79 - j
           y1 == B[w1]
           y2 == B[w2]
<1>1. /\ j \in 0 .. 79 /\ j' = j + 1 /\ h' = h /\ words' = words /\ j # IDLE
      /\ regs' = <<Rmd160!Advanced(regs[1], j, words[w1], x1, k1),
                   Rmd160!Advanced(regs[2], i2, words[w2], x2, k2)>>
  BY DEF Rmd160!Round, IDLE
<1>2. /\ \A n \in 0 .. 4 : h[n] \in Word32
      /\ regs[1] = LineAt(V1, j) /\ regs[2] = LineAt(V2, j)
      /\ \A l \in 1 .. 2, n \in 1 .. 5 : regs[l][n] \in Word32
      /\ words = B
      /\ \A n \in 0 .. 15 : B[n] \in Word32
  BY <1>1 DEF RmdInv
<1>3. /\ w1 = Rmd160!Orders[1][rd][j % 16] /\ w2 = Rmd160!Orders[2][rd][j % 16]
      /\ x1 = Rmd160!Rotation[rd][w1 + 1] /\ x2 = Rmd160!Rotation[rd][w2 + 1]
      /\ w1 \in 0 .. 15 /\ w2 \in 0 .. 15
  BY <1>1, Tables
<1>4. (j + 1) - 1 = j /\ 80 - (j + 1) = i2 /\ (j + 1) + 4 = j + 5 /\ (j + 1) + 3 = j + 4
      /\ (j + 1) + 2 = j + 3 /\ (j + 1) + 1 = j + 2 /\ 5 + (j + 1) = j + 6 /\ j + 1 \in 1 .. 80
  BY <1>1
<1>5. V1[j + 6] = Rmd160!NextB(1, V1, j + 1, B) /\ V2[j + 6] = Rmd160!NextB(2, V2, j + 1, B)
  <2>1. /\ \A t \in 1 .. 80 : V1[5 + t] = Rmd160!NextB(1, V1, t, B)
        /\ \A t \in 1 .. 80 : V2[5 + t] = Rmd160!NextB(2, V2, t, B)
    BY LineIs
  <2> HIDE DEF V1, V2
  <2> QED
    BY <1>4, <2>1
<1> HIDE DEF V1, V2, w1, w2, x1, x2, i2
<1>6. V1[j + 6] = Rmd160!Plus(
           Rmd160!Rol(Rmd160!Plus(Rmd160!Sum3(Rmd160!Rol(V1[j + 1], 10),
                                              Rmd160!f(j, V1[j + 5], V1[j + 4], Rmd160!Rol(V1[j + 3], 10)),
                                              y1),
                                  Rmd160!FromLimbs(k1)), x1),
           Rmd160!Rol(V1[j + 2], 10))
  BY <1>3, <1>4, <1>5 DEF Rmd160!NextB
<1>7. V2[j + 6] = Rmd160!Plus(
           Rmd160!Rol(Rmd160!Plus(Rmd160!Sum3(Rmd160!Rol(V2[j + 1], 10),
                                              Rmd160!f(i2, V2[j + 5], V2[j + 4], Rmd160!Rol(V2[j + 3], 10)),
                                              y2),
                                  Rmd160!FromLimbs(k2)), x2),
           Rmd160!Rol(V2[j + 2], 10))
  BY <1>3, <1>4, <1>5 DEF Rmd160!NextB
<1> HIDE DEF k1, k2, rd, y1, y2
<1>8. Rmd160!Advanced(regs[1], j, y1, x1, k1) = LineAt(V1, j + 1)
  <2> DEFINE line == regs[1]
  <2>1. line = LineAt(V1, j)
    BY <1>2
  <2> HIDE DEF line
  <2>2. Rmd160!Advanced(line, j, y1, x1, k1) = LineAt(V1, j + 1)
    BY <1>1, <1>6, <2>1, LineAdvances
  <2> QED
    BY <2>2 DEF line
<1>9. Rmd160!Advanced(regs[2], i2, y2, x2, k2) = LineAt(V2, j + 1)
  <2> DEFINE line == regs[2]
  <2>1. line = LineAt(V2, j)
    BY <1>2
  <2> HIDE DEF line
  <2>2. Rmd160!Advanced(line, i2, y2, x2, k2) = LineAt(V2, j + 1)
    BY <1>1, <1>7, <2>1, LineAdvances
  <2> QED
    BY <2>2 DEF line
<1>10. x1 \in Nat /\ x2 \in Nat
  BY <1>1, Tables DEF x1, x2
<1>11. \A l \in 1 .. 2, n \in 1 .. 5 : regs'[l][n] \in Word32
  <2>1. words[w1] \in Word32 /\ words[w2] \in Word32
    BY <1>2, <1>3
  <2>2. \A n \in 1 .. 5 : regs[1][n] \in Word32 /\ regs[2][n] \in Word32
    BY <1>2
  <2>3. \A n \in 1 .. 5 : Rmd160!Advanced(regs[1], j, words[w1], x1, k1)[n] \in Word32
    BY <1>10, <2>1, <2>2, AdvancedIn
  <2>4. \A n \in 1 .. 5 : Rmd160!Advanced(regs[2], i2, words[w2], x2, k2)[n] \in Word32
    BY <1>10, <2>1, <2>2, AdvancedIn
  <2> QED
    BY <1>1, <2>3, <2>4
<1>12. regs' = <<LineAt(V1, j + 1), LineAt(V2, j + 1)>>
  BY <1>1, <1>2, <1>8, <1>9 DEF y1, y2
<1> QED
  BY <1>1, <1>2, <1>11, <1>12 DEF RmdInv, V1, V2

LEMMA RmdLeaves ==
  ASSUME NEW B, RmdInv(B), Rmd160!Leave
  PROVE  RmdInv(B)' /\ j' = IDLE
<1>1. /\ j' = IDLE /\ j # IDLE
      /\ h' = [n \in 0 .. 4 |-> Rmd160!Sum3(h[(n + 1) % 5], regs[1][1 + ((n + 2) % 5)],
                                                         regs[2][1 + ((n + 3) % 5)])]
  BY DEF Rmd160!Leave, Rmd160!IDLE, IDLE
<1>2. ASSUME NEW n \in 0 .. 4
      PROVE  h'[n] \in Word32
  <2> DEFINE a == h[(n + 1) % 5]
             b == regs[1][1 + ((n + 2) % 5)]
             c == regs[2][1 + ((n + 3) % 5)]
  <2>1. h'[n] = Rmd160!Plus(a, Rmd160!Plus(b, c))
    BY <1>1 DEF Rmd160!Sum3
  <2>2. (n + 1) % 5 \in 0 .. 4 /\ 1 + ((n + 2) % 5) \in 1 .. 5 /\ 1 + ((n + 3) % 5) \in 1 .. 5
    OBVIOUS
  <2>3. a \in Word32 /\ b \in Word32 /\ c \in Word32
    BY <1>1, <2>2 DEF RmdInv
  <2> HIDE DEF a, b, c
  <2>4. Rmd160!Plus(b, c) \in Word32
    BY <2>3, PlusIn
  <2> DEFINE bc == Rmd160!Plus(b, c)
  <2> HIDE DEF bc
  <2>5. Rmd160!Plus(a, bc) \in Word32
    BY <2>3, <2>4, PlusIn DEF bc
  <2> QED
    BY <2>1, <2>5 DEF bc
<1> QED
  BY <1>1, <1>2 DEF RmdInv
-----------------------------------------------------------------------------
(* The words of a block depend on nothing but the hash and its message. *)
LEMMA WordsStay ==
  ASSUME NEW b, hash' = hash
  PROVE  AsWords(b)' = AsWords(b) /\ IsSha512' = IsSha512
BY DEF AsWords, IsSha512, ByteBits, LengthByte

LEMMA BlockWords ==
  ASSUME NEW b, ~IsSha512
  PROVE  \A n \in 0 .. 15 : AsWords(b)[n] \in Word32
BY DEF AsWords, W32!FromBytes, W32!Bits, Word32

LEMMA RoundsBegin ==
  HashingInit => RoundInv
<1> SUFFICES ASSUME HashingInit PROVE RoundInv
  OBVIOUS
<1>1. j = IDLE
  BY DEF HashingInit
<1>2. ASSUME IsSha512 PROVE h = [n \in 0 .. 7 |-> h[n]]
  BY <1>2 DEF HashingInit, Sha512!InitialH
<1>3. ASSUME ~IsSha512 PROVE \A n \in 0 .. 4 : h[n] \in Word32
  BY <1>3, LimbsIn DEF HashingInit, Rmd160!InitialH
<1> QED
  BY <1>1, <1>2, <1>3 DEF RoundInv, ShaInv, RmdInv

(* A block that update or finalize compresses is taken in as it is. *)
LEMMA StreamKeeps ==
  ASSUME RoundInv, Stream
  PROVE  RoundInv'
<1>1. j = IDLE /\ hash' = hash
  BY DEF Stream, Next
<1> DEFINE b == blocks'[Len(blocks')]
<1>2. PICK B : B = AsWords(b)
  OBVIOUS
<1>3. Block' = B /\ IsSha512' = IsSha512
  <2>1. PICK c : c = b
    OBVIOUS
  <2>2. AsWords(c)' = AsWords(c) /\ IsSha512' = IsSha512
    BY <1>1, WordsStay
  <2>3. Block' = AsWords(c)'
    BY <2>1 DEF Block, AsWords, ByteBits, LengthByte, IsSha512
  <2> QED
    BY <1>2, <2>1, <2>2, <2>3
<1>4. CASE Concrete /\ blocks' # blocks
  <2>1. Compress(b)
    BY <1>4 DEF Stream
  <2>2. CASE IsSha512
    <3>1. Sha512!Enter(B)
      BY <1>2, <2>1, <2>2 DEF Compress, Sha512!Enter
    <3>2. h = [n \in 0 .. 7 |-> h[n]]
      BY <2>2 DEF RoundInv, ShaInv
    <3>3. ShaInv(B)' /\ j' = 0
      BY <3>1, <3>2, ShaEnters
    <3>4. ShaInv(Block)'
      BY <1>3, <3>3 DEF ShaInv
    <3> QED
      BY <1>3, <2>2, <3>3, <3>4 DEF RoundInv
  <2>3. CASE ~IsSha512
    <3>1. Rmd160!Enter(B)
      BY <1>2, <2>1, <2>3 DEF Compress, Rmd160!Enter
    <3>2. \A n \in 0 .. 4 : h[n] \in Word32
      BY <2>3 DEF RoundInv, RmdInv
    <3>3. \A n \in 0 .. 15 : B[n] \in Word32
      <4>1. PICK c : c = b
        OBVIOUS
      <4>2. \A n \in 0 .. 15 : AsWords(c)[n] \in Word32
        BY <2>3, BlockWords
      <4> QED
        BY <1>2, <4>1, <4>2
    <3>4. RmdInv(B)' /\ j' = 0
      BY <3>1, <3>2, <3>3, RmdEnters
    <3>5. RmdInv(Block)'
      BY <1>3, <3>4 DEF RmdInv
    <3> QED
      BY <1>3, <2>3, <3>4, <3>5 DEF RoundInv
  <2> QED
    BY <2>2, <2>3
<1>5. CASE ~(Concrete /\ blocks' # blocks)
  <2>1. h' = h /\ j' = IDLE
    BY <1>1, <1>5 DEF Stream, chaining
  <2> QED
    BY <1>3, <2>1 DEF RoundInv, ShaInv, RmdInv
<1> QED
  BY <1>4, <1>5

(* A round of the compression function, or its end. *)
LEMMA CompressKeeps ==
  ASSUME RoundInv, CompressStep
  PROVE  RoundInv'
<1>1. hash' = hash /\ blocks' = blocks
  BY DEF CompressStep, vars, context
<1>2. PICK B : B = Block
  OBVIOUS
<1>3. Block' = B /\ IsSha512' = IsSha512
  <2>1. Block' = Block
    BY <1>1 DEF Block, AsWords, IsSha512, ByteBits, LengthByte
  <2> QED
    BY <1>1, <1>2, <2>1 DEF IsSha512
<1>4. CASE IsSha512
  <2>1. ShaInv(B)
    BY <1>2, <1>4 DEF RoundInv, ShaInv
  <2>2. ShaInv(B)' /\ j' \in {IDLE} \cup 0 .. 80
    BY <1>4, <2>1, ShaRounds, ShaLeaves DEF CompressStep
  <2>3. ShaInv(Block)'
    BY <1>3, <2>2 DEF ShaInv
  <2> QED
    BY <1>3, <1>4, <2>2, <2>3 DEF RoundInv
<1>5. CASE ~IsSha512
  <2>1. RmdInv(B)
    BY <1>2, <1>5 DEF RoundInv, RmdInv
  <2>2. RmdInv(B)' /\ j' \in {IDLE} \cup 0 .. 80
    BY <1>5, <2>1, RmdRounds, RmdLeaves DEF CompressStep
  <2>3. RmdInv(Block)'
    BY <1>3, <2>2 DEF RmdInv
  <2> QED
    BY <1>3, <1>5, <2>2, <2>3 DEF RoundInv
<1> QED
  BY <1>4, <1>5

LEMMA RoundsStutter ==
  ASSUME RoundInv, UNCHANGED hashing
  PROVE  RoundInv'
<1>1. hash' = hash /\ blocks' = blocks /\ h' = h /\ words' = words /\ regs' = regs /\ j' = j
  BY DEF hashing, chaining, vars, context
<1>2. Block' = Block /\ IsSha512' = IsSha512
  BY <1>1 DEF Block, AsWords, IsSha512, ByteBits, LengthByte
<1> QED
  BY <1>1, <1>2 DEF RoundInv, ShaInv, RmdInv

LEMMA RoundInvImplies ==
  RoundInv => RoundsRight
<1> SUFFICES ASSUME RoundInv, j = 80 PROVE RoundsRight
  BY DEF RoundsRight
<1> DEFINE B == Block
<1>1. j # IDLE
  BY DEF IDLE
<1>2. CASE IsSha512
  <2> DEFINE V == Sha512!Values(h, B)
  <2>1. regs = ShaAt(V, 80) /\ \A n \in 0 .. 15 : words[n] = Sliding(B, 80, n)
    BY <1>1, <1>2 DEF RoundInv, ShaInv
  <2> HIDE DEF V, B
  <2>2. regs = [n \in 0 .. 7 |-> IF n < 4 THEN V[84 - n].a ELSE V[88 - n].e]
    BY <2>1 DEF ShaAt
  <2>3. regs = Sha512!Rounds(h, B)
    BY <2>2 DEF Sha512!Rounds, V
  <2>4. ASSUME NEW n \in 0 .. 15
        PROVE  words[n] = Sha512!Schedule(B)[65 + n]
    <3>1. ~(80 + n < 16) /\ 80 + n - 15 = 65 + n
      OBVIOUS
    <3> QED
      BY <2>1, <3>1 DEF Sliding
  <2> QED
    BY <1>2, <2>3, <2>4 DEF RoundsRight, B, Block
<1>3. CASE ~IsSha512
  <2> DEFINE V1 == Rmd160!Values(1, h, B)
             V2 == Rmd160!Values(2, h, B)
  <2>1. regs = <<LineAt(V1, 80), LineAt(V2, 80)>>
    BY <1>1, <1>3 DEF RoundInv, RmdInv
  <2> HIDE DEF V1, V2
  <2>2. LineAt(V1, 80) = Rmd160!Line(V1) /\ LineAt(V2, 80) = Rmd160!Line(V2)
    BY DEF LineAt, Rmd160!Line
  <2>3. regs = <<Rmd160!Line(V1), Rmd160!Line(V2)>>
    BY <2>1, <2>2
  <2>4. regs = Rmd160!Rounds(h, B)
    BY <2>3 DEF Rmd160!Rounds, V1, V2
  <2> QED
    BY <1>3, <2>4 DEF RoundsRight, Block
<1> QED
  BY <1>2, <1>3

(* Whatever message is hashed, each of its blocks is compressed as FIPS    *)
(* 180 and the definition of RIPEMD-160 say, from any chaining value.      *)
THEOREM RoundsAreRight == HashingSpec => []RoundsRight
<1>1. HashingInit => RoundInv
  BY RoundsBegin
<1>2. RoundInv /\ [HashingNext]_hashing => RoundInv'
  BY StreamKeeps, CompressKeeps, RoundsStutter DEF HashingNext
<1>3. RoundInv => RoundsRight
  BY RoundInvImplies
<1> QED
  BY <1>1, <1>2, <1>3, PTL DEF HashingSpec

(* The hashes whole are HashStream's: compressing is a stutter there. *)
THEOREM HashingIsStreaming == HashingSpec => Spec
<1>1. HashingInit => Init
  BY DEF HashingInit
<1>2. [HashingNext]_hashing => [Next]_vars
  BY DEF HashingNext, Stream, CompressStep, hashing
<1> QED
  BY <1>1, <1>2, PTL DEF HashingSpec, Spec
=============================================================================
