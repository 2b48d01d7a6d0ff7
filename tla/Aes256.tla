--------------------------------- MODULE Aes256 ---------------------------------
(***************************************************************************)
(* AES-256 as src/boot1/aes256.c computes it: without tables, and with a   *)
(* key schedule of which only two round keys are ever in memory, and which *)
(* runs forwards for encryption and backwards for decryption.              *)
(*                                                                         *)
(* A byte is the set of its bits that are 1; a block has bytes 0 .. 15 and *)
(* a key 0 .. 31.                                                          *)
(***************************************************************************)
EXTENDS Integers, Sequences, FiniteSets, BitSets

CONSTANTS
  AesKeys,     \* keys of the callers
  AesBlocks,   \* blocks of the callers
  AesCalls     \* bound: calls to encrypt, decrypt and done

Byte == SUBSET (0 .. 7)

(* f itself, which TLC works out here and not at each use. *)
Table(f) == CHOOSE g \in {f} : g = f

Xor4(a, b, c, d) == Xor(Xor(a, b), Xor(c, d))
BlockIndex == 0 .. 15
KeyIndex == 0 .. 31
Block == [BlockIndex -> Byte]
Key == [KeyIndex -> Byte]

ASSUME AesAssumption == /\ AesKeys \subseteq Key
                        /\ AesBlocks \subseteq Block
                        /\ AesCalls \in Nat
-----------------------------------------------------------------------------
(* Bytes. *)
Shl8(x) == {p + 1 : p \in x \ {7}}
Shr8(x) == {p - 1 : p \in x \ {0}}
Rol(x, n) == {(p + n) % 8 : p \in x}

(* Times x in the field, 0x1b, and back, 0x8d. *)
F(x) == Xor(Shl8(x), IF 7 \in x THEN {0, 1, 3, 4} ELSE {})
FD(x) == Xor(Shr8(x), IF 0 \in x THEN {0, 2, 3, 7} ELSE {})
rj_xtime(x) == F(x)

(* The loops over the powers of 3: atb times the x-th power; and the       *)
(* number of the first power to be x, with atb the i-th, which is 0 if i   *)
(* comes around without one.                                               *)
Times3(atb) == Xor(atb, F(atb))
gf_alog[x \in Nat, atb \in Byte] == IF x = 0 THEN atb ELSE gf_alog[x - 1, Times3(atb)]
gf_log[x \in Byte, atb \in Byte, n \in Nat] ==
  IF atb = x THEN n
  ELSE IF (n + 1) % 256 = 0 THEN 0
  ELSE gf_log[x, Times3(atb), n + 1]
gf_mulinv(x) == IF x = {} THEN {} ELSE gf_alog[255 - gf_log[x, {0}, 0], {0}]

(* The S-boxes. *)
rj_sbox == Table([x \in Byte |->
  LET y == gf_mulinv(x) IN Xor(Xor(y, Xor4(Rol(y, 1), Rol(y, 2), Rol(y, 3), Rol(y, 4))), {0, 1, 5, 6})])
rj_sbox_inv == Table([x \in Byte |->
  LET y == Xor(x, {0, 1, 5, 6}) IN gf_mulinv(Xor(Rol(y, 1), Xor(Rol(y, 3), Rol(y, 6))))])
-----------------------------------------------------------------------------
(* The steps of a round. *)
SubBytes(s) == [n \in BlockIndex |-> rj_sbox[s[n]]]
SubBytesInv(s) == [n \in BlockIndex |-> rj_sbox_inv[s[n]]]
AddRoundKey(s, k) == [n \in BlockIndex |-> Xor(s[n], k[n])]

(* Row n % 4 of the four columns. *)
ShiftRows(s) == [n \in BlockIndex |-> s[(n + 4 * (n % 4)) % 16]]

(* Mutant: the same way around. *)
ShiftRowsInvSame(s) == [n \in BlockIndex |-> s[(n + 4 * (n % 4)) % 16]]

ShiftRowsInv(s) == [n \in BlockIndex |-> s[(n - 4 * (n % 4)) % 16]]

(* The byte m places below n in its column, around its end. *)
InColumn(s, n, m) == s[4 * (n \div 4) + ((n + m) % 4)]
ColumnSum(s, n) == Xor4(InColumn(s, n, 0), InColumn(s, n, 1), InColumn(s, n, 2), InColumn(s, n, 3))

MixColumns(s) ==
  [n \in BlockIndex |->
     Xor4(s[n], ColumnSum(s, n), rj_xtime(Xor(s[n], InColumn(s, n, 1))), {})]

MixColumnsInv(s) ==
  [n \in BlockIndex |->
     LET e == ColumnSum(s, n)
         opposite == Xor(s[n], InColumn(s, n, 2))
         x == Xor(e, rj_xtime(rj_xtime(Xor(rj_xtime(e), opposite))))
     IN  Xor4(s[n], x, rj_xtime(Xor(s[n], InColumn(s, n, 1))), {})]

(* The schedule: eight words on and eight words back, in place. *)
ExpandEncKey(k, rc) ==
  LET new[n \in KeyIndex] ==
        Xor(k[n], CASE n = 0 -> Xor(rj_sbox[k[29]], rc)
                    [] n \in 1 .. 3 -> rj_sbox[k[28 + ((n + 1) % 4)]]
                    [] n \in 16 .. 19 -> rj_sbox[new[n - 4]]
                    [] OTHER -> new[n - 4])
  IN  Table([n \in KeyIndex |-> new[n]])

(* Mutant: the words in the order in which they were made. *)
ExpandDecKeyUp(k, rc) == ExpandEncKey(k, rc)

(* It starts with the last words, so the first ones take from them what    *)
(* they are after it.                                                      *)
ExpandDecKey(k, rc) ==
  LET last(n) == Xor(k[n], k[n - 4])
  IN  Table([n \in KeyIndex |->
        Xor(k[n], CASE n = 0 -> Xor(rj_sbox[last(29)], rc)
                    [] n \in 1 .. 3 -> rj_sbox[last(28 + ((n + 1) % 4))]
                    [] n \in 16 .. 19 -> rj_sbox[k[n - 4]]
                    [] OTHER -> k[n - 4])])

Upper(k) == [n \in BlockIndex |-> k[16 + n]]

(* aes256_init's loop: the key after n turns, and rc with it. *)
Expanded(k) ==
  LET e[n \in 0 .. 7] ==
        IF n = 0 THEN [key |-> k, rc |-> {0}]
        ELSE LET so == e[n - 1]
             IN  [key |-> ExpandEncKey(so.key, so.rc), rc |-> F(so.rc)]
  IN  e
-----------------------------------------------------------------------------
VARIABLES
  stage,
  ctx_key, enckey, deckey,  \* the context
  buf, round, rcon,
  given,   \* history: the key of the context
  old,     \* history: what is being encrypted or decrypted
  used,    \* history: the last round key used
  calls    \* history: how many there were

ctx == <<ctx_key, enckey, deckey>>
aes_vars == <<stage, ctx, buf, round, rcon, given, old, used, calls>>

NoKey == [n \in KeyIndex |-> {}]
NoBlock == [n \in BlockIndex |-> {}]

AesInit == /\ stage = "new"
           /\ ctx_key = NoKey /\ enckey = NoKey /\ deckey = NoKey
           /\ buf \in AesBlocks
           /\ round = 0 /\ rcon = {}
           /\ given = NoKey /\ old = NoBlock /\ used = NoBlock /\ calls = 0

(* aes256_init *)
Setup(k) ==
  /\ stage = "new"
  /\ given' = k
  /\ enckey' = k
  /\ deckey' = Expanded(k)[7].key
  /\ stage' = "idle"
  /\ UNCHANGED <<ctx_key, buf, round, rcon, old, used, calls>>

(* aes256_done *)
Done ==
  /\ stage = "idle"
  /\ calls < AesCalls
  /\ ctx_key' = NoKey /\ enckey' = NoKey /\ deckey' = NoKey
  /\ stage' = "new"
  /\ calls' = calls + 1
  /\ UNCHANGED <<buf, round, rcon, given, old, used>>

Use(state, k) == buf' = AddRoundKey(state, k) /\ used' = [n \in BlockIndex |-> k[n]]

Encrypt ==
  /\ stage = "idle"
  /\ calls < AesCalls
  /\ calls' = calls + 1
  /\ old' = buf
  /\ ctx_key' = enckey
  /\ Use(buf, enckey)
  /\ round' = 1 /\ rcon' = {0}
  /\ stage' = "encrypt"
  /\ UNCHANGED <<enckey, deckey, given>>

(* Odd rounds use the upper half of the key, even ones go on to the next. *)
EncryptRound ==
  /\ stage = "encrypt"
  /\ round < 14
  /\ LET mixed == MixColumns(ShiftRows(SubBytes(buf)))
     IN  IF round % 2 = 1
           THEN Use(mixed, Upper(ctx_key)) /\ UNCHANGED <<ctx_key, rcon>>
           ELSE /\ ctx_key' = ExpandEncKey(ctx_key, rcon)
                /\ rcon' = F(rcon)
                /\ Use(mixed, ctx_key')
  /\ round' = round + 1
  /\ UNCHANGED <<stage, enckey, deckey, given, old, calls>>

EncryptLast ==
  /\ stage = "encrypt"
  /\ round = 14
  /\ ctx_key' = ExpandEncKey(ctx_key, rcon)
  /\ rcon' = F(rcon)
  /\ Use(ShiftRows(SubBytes(buf)), ctx_key')
  /\ stage' = "encrypted"
  /\ UNCHANGED <<enckey, deckey, round, given, old, calls>>

Decrypt ==
  /\ stage = "idle"
  /\ calls < AesCalls
  /\ calls' = calls + 1
  /\ old' = buf
  /\ ctx_key' = deckey
  /\ used' = [n \in BlockIndex |-> deckey[n]]
  /\ buf' = SubBytesInv(ShiftRowsInv(AddRoundKey(buf, deckey)))
  /\ round' = 13 /\ rcon' = {7}
  /\ stage' = "decrypt"
  /\ UNCHANGED <<enckey, deckey, given>>

(* rcon starts at 0x80; FD takes it down before it is used. *)
DecryptRound ==
  /\ stage = "decrypt"
  /\ round > 0
  /\ IF round % 2 = 1
       THEN /\ rcon' = FD(rcon)
            /\ ctx_key' = ExpandDecKey(ctx_key, rcon')
            /\ used' = Upper(ctx_key')
       ELSE /\ used' = [n \in BlockIndex |-> ctx_key[n]]
            /\ UNCHANGED <<ctx_key, rcon>>
  /\ buf' = SubBytesInv(ShiftRowsInv(MixColumnsInv(AddRoundKey(buf, used'))))
  /\ round' = round - 1
  /\ UNCHANGED <<stage, enckey, deckey, given, old, calls>>

DecryptLast ==
  /\ stage = "decrypt"
  /\ round = 0
  /\ Use(buf, ctx_key)
  /\ stage' = "decrypted"
  /\ UNCHANGED <<ctx, round, rcon, given, old, calls>>

Return == /\ stage \in {"encrypted", "decrypted"}
          /\ stage' = "idle"
          /\ UNCHANGED <<ctx, buf, round, rcon, given, old, used, calls>>

AesNext == \/ \E k \in AesKeys : Setup(k)
           \/ Encrypt \/ EncryptRound \/ EncryptLast
           \/ Decrypt \/ DecryptRound \/ DecryptLast
           \/ Return \/ Done

AesSpec == AesInit /\ [][AesNext]_aes_vars
-----------------------------------------------------------------------------
(* FIPS 197: products in the field of x^8 + x^4 + x^3 + x + 1, the S-box   *)
(* as an inverse and an affine map, MixColumns as a matrix, and the key    *)
(* schedule by words, which here are functions of 0 .. 3.                  *)
Product(a, b) ==
  LET term(p) == IF p \in b THEN a ELSE {}
  IN  Xor(term(0), F(Xor(term(1), F(Xor(term(2), F(Xor(term(3), F(Xor(term(4), F(Xor(term(5),
        F(Xor(term(6), F(term(7)))))))))))))))

SBox == Table([x \in Byte |->
  LET y == IF x = {} THEN {} ELSE CHOOSE z \in Byte : Product(x, z) = {0}
  IN  {p \in 0 .. 7 : LET ones == {q \in {0, 4, 5, 6, 7} : (p + q) % 8 \in y}
                      IN  (Cardinality(ones) + (IF p \in {0, 1, 5, 6} THEN 1 ELSE 0)) % 2 = 1}])

Matrix == << {1}, {0, 1}, {0}, {0} >>   \* 2, 3, 1, 1
Mixed(s) ==
  [n \in BlockIndex |->
     Xor4(Product(s[n], Matrix[1]), Product(InColumn(s, n, 1), Matrix[2]),
          Product(InColumn(s, n, 2), Matrix[3]), Product(InColumn(s, n, 3), Matrix[4]))]

Substituted(s) == [n \in BlockIndex |-> SBox[s[n]]]

(* x to the n - 1, which has no need of the polynomial for n in 1 .. 7. *)
Rcon(n) == {n - 1}

(* Word n, counted from 1, after those before it. *)
NextWord(w, n) ==
  LET before == w[n - 1]
      turned(b) == CASE n % 8 = 1 -> Xor(SBox[before[(b + 1) % 4]], IF b = 0 THEN Rcon(n \div 8) ELSE {})
                     [] n % 8 = 5 -> SBox[before[b]]
                     [] OTHER -> before[b]
  IN  Table([b \in 0 .. 3 |-> Xor(w[n - 8][b], turned(b))])

KeyWords(k) ==
  LET w[n \in 0 .. 52] ==
        IF n = 0 THEN [m \in 1 .. 8 |-> [b \in 0 .. 3 |-> k[4 * (m - 1) + b]]]
                 ELSE LET so == w[n - 1] IN Append(so, NextWord(so, n + 8))
  IN  w[52]

RoundKeys == Table([k \in AesKeys |->
  LET w == KeyWords(k)
  IN  Table([r \in 0 .. 14 |-> Table([n \in BlockIndex |-> w[4 * r + (n \div 4) + 1][n % 4]])])])

(* The block after round r, and after the last round, which mixes nothing. *)
Rounds(k, text) ==
  LET s[r \in 0 .. 13] ==
        IF r = 0 THEN AddRoundKey(text, RoundKeys[k][0])
        ELSE LET so == s[r - 1]
             IN  Table(AddRoundKey(Mixed(ShiftRows(Substituted(so))), RoundKeys[k][r]))
  IN  s
CipherOf(k, text) == AddRoundKey(ShiftRows(Substituted(Rounds(k, text)[13])), RoundKeys[k][14])

(* The S-boxes of the code are the standard's, for all of the 256 bytes,   *)
(* and each undoes the other.                                              *)
ASSUME SBoxAssumption ==
  \A x \in Byte : /\ rj_sbox[x] = SBox[x] /\ rj_sbox[x] \in Byte
                  /\ rj_sbox_inv[x] \in Byte /\ rj_sbox[rj_sbox_inv[x]] = x
                  /\ rj_sbox_inv[rj_sbox[x]] = x

(* Every round, forwards and backwards, uses the round key that the key    *)
(* has for it, whatever calls went before.                                 *)
ScheduleRight ==
  /\ stage = "encrypt" => used = RoundKeys[given][round - 1]
  /\ stage = "encrypted" => used = RoundKeys[given][14]
  /\ stage = "decrypt" => used = RoundKeys[given][round + 1]
  /\ stage = "decrypted" => used = RoundKeys[given][0]

(* Encryption gives AES-256's ciphertext, and decryption the block that    *)
(* has that ciphertext, in whatever order they are called.                 *)
CryptsRight ==
  /\ stage = "encrypted" => buf = CipherOf(given, old)
  /\ stage = "decrypted" => CipherOf(given, buf) = old
=============================================================================
