---------------------------------- MODULE Xts ----------------------------------
(***************************************************************************)
(* XTS mode, src/boot1/generic_xts.c, over any block cipher.               *)
(*                                                                         *)
(* A byte of the tweak is the set of its bits that are 1; the bytes go     *)
(* from the lowest to the highest.  A block of data is a set of terms, the *)
(* exclusive or of which it is: the plaintext of a block, a tweak, and     *)
(* what the cipher makes of a block.  The cipher is ideal: only decrypting *)
(* with the key undoes encrypting with it.                                 *)
(***************************************************************************)
EXTENDS Integers, Sequences, BitSets

CONSTANTS
  blk_sz,      \* bytes of a block
  BITS,        \* bits of a byte
  XTS_ALPHA,   \* the bits of 0x87
  Lengths,     \* lengths in bytes of what is to be crypted
  Keys,        \* keys, as the caller has them
  KeyLens,     \* lengths of a key that callers give
  Ivs,         \* sector numbers
  First(_, _), \* what encrypting a sector number with a cipher's key gives
  MaxCalls     \* bound: calls that the data is under at once

(* A cipher's key is what its set_key_fn reads at an offset in a key.      *)
CipherKey(k, off) == <<k, off>>
CipherKeys == {CipherKey(k, off) : k \in Keys, off \in {0} \cup {l \div 2 : l \in KeyLens}}

ASSUME XtsAssumption ==
  /\ blk_sz \in Nat \ {0} /\ BITS \in Nat \ {0}
  /\ XTS_ALPHA \subseteq 0 .. BITS - 1 /\ 0 \in XTS_ALPHA
  /\ Lengths \subseteq Nat /\ KeyLens \subseteq Nat /\ MaxCalls \in Nat
  /\ Ivs # {}
  /\ \A c \in CipherKeys, v \in Ivs : First(c, v) \in [0 .. blk_sz - 1 -> SUBSET (0 .. BITS - 1)]
  /\ \A c, d \in CipherKeys, v, w \in Ivs : First(c, v) = First(d, w) => c = d /\ v = w

Plain(b) == {<<"plain", b>>}
T(t) == {<<"tweak", t>>}
Made(how, key, block) == {<<how, key, block>>}

(* The cipher: each way undoes the other with the same key. *)
Opposite(how) == IF how = "encrypt" THEN "decrypt" ELSE "encrypt"
Cipher(how, key, block) ==
  IF \E term \in block : block = {term} /\ Len(term) = 3
                         /\ term[1] = Opposite(how) /\ term[2] = key
    THEN (CHOOSE term \in block : TRUE)[3]
    ELSE Made(how, key, block)

VARIABLES
  pc,
  key,         \* the key and its length that the caller has got accepted
  ctx1, ctx2,  \* the keys in the context, NONE when there are none
  length,      \* the length in bytes of all the data, the same in each call
  data,        \* the blocks
  how, iv,     \* the call under way or the last one
  ret,         \* what the last xts_encrypt or xts_decrypt returned
  block,       \* the block the loop has come to
  tweak,       \* ctx->tweak
  i, carry_in,
  under        \* history: the calls, with their keys, that the data is under

context == <<ctx1, ctx2>>
keyed == <<key, context>>
counters == <<block, i, carry_in>>
vars == <<pc, keyed, length, data, how, iv, ret, tweak, counters, under>>

NONE == <<"none">>
Blocks == length \div blk_sz

Init == /\ pc = "idle"
        /\ key = NONE
        /\ ctx1 = NONE /\ ctx2 = NONE
        /\ length \in Lengths
        /\ data = [b \in 0 .. Blocks - 1 |-> Plain(b)]
        /\ how = "encrypt"
        /\ iv = CHOOSE v \in Ivs : TRUE
        /\ ret = 0
        /\ tweak = [n \in 0 .. blk_sz - 1 |-> {}]
        /\ block = 0 /\ i = 0 /\ carry_in = FALSE
        /\ under = <<>>

(* xts_init: the second cipher's key is the second half.  A length that it *)
(* refuses leaves the context as it was.                                   *)
XtsInit(k, len) ==
  /\ pc = "idle"
  /\ IF len \in {32, 64}
       THEN /\ key' = <<k, len>>
            /\ ctx1' = CipherKey(k, 0)
            /\ ctx2' = CipherKey(k, len \div 2)
       ELSE UNCHANGED keyed
  /\ UNCHANGED <<pc, length, data, how, iv, ret, tweak, counters, under>>

(* xts_uninit clears the keys, and leaves the tweak. *)
XtsUninit ==
  /\ pc = "idle"
  /\ key' = NONE /\ ctx1' = NONE /\ ctx2' = NONE
  /\ UNCHANGED <<pc, length, data, how, iv, ret, tweak, counters, under>>

(* A call undoes the last one that the data is under, if it is that the    *)
(* other way around, with the same key and sector, and else goes on top.   *)
Before == SubSeq(under, 1, Len(under) - 1)
After(call) ==
  IF under # <<>> /\ under[Len(under)] = <<Opposite(call[1]), call[2], call[3]>>
    THEN Before
    ELSE Append(under, call)

(* xts_encrypt or xts_decrypt of the whole, whose length is only looked at *)
(* against the block's: the tweak is set anew for each call.               *)
Crypt(h, v) ==
  /\ pc = "idle"
  /\ key # NONE
  /\ Len(After(<<h, key, v>>)) <= MaxCalls
  /\ how' = h /\ iv' = v
  /\ block' = 0
  /\ IF length % blk_sz # 0
       THEN ret' = -1 /\ UNCHANGED <<pc, tweak>>
       ELSE /\ ret' = 0
            /\ tweak' = First(ctx2, v)
            /\ pc' = IF length = 0 THEN pc ELSE "block"
  /\ UNCHANGED <<keyed, length, data, i, carry_in, under>>

(* A block, with the tweak on the way in and on the way out.               *)
CryptBlockTo(out) ==
  /\ pc = "block"
  /\ data' = [data EXCEPT ![block] = Xor(Cipher(how, ctx1, Xor(@, T(tweak))), out)]
  /\ pc' = "carry"
  /\ i' = 0
  /\ carry_in' = FALSE
  /\ UNCHANGED <<keyed, length, how, iv, ret, block, tweak, under>>

(* Mutant: the tweak goes in but does not come out. *)
CryptBlockOnce == CryptBlockTo({})

CryptBlock == CryptBlockTo(T(tweak))

(* The bits of a byte shifted to the left by one. *)
Shl(byte) == {p + 1 : p \in byte} \cap 0 .. BITS - 1

CarryByteOf(byte) ==
  /\ pc = "carry"
  /\ i < blk_sz
  /\ carry_in' = (BITS - 1 \in byte)
  /\ tweak' = [tweak EXCEPT ![i] = Shl(@) \cup (IF carry_in THEN {0} ELSE {})]
  /\ i' = i + 1
  /\ UNCHANGED <<pc, keyed, length, data, how, iv, ret, block, under>>

(* Mutant: the carry of the byte as it is after the shift. *)
CarryByteLate == CarryByteOf(Shl(tweak[i]))

CarryByte == CarryByteOf(tweak[i])

CarryOut ==
  /\ pc = "carry"
  /\ i = blk_sz
  /\ tweak' = IF carry_in THEN [tweak EXCEPT ![0] = Xor(@, XTS_ALPHA)] ELSE tweak
  /\ block' = block + 1
  /\ IF block' < Blocks
       THEN pc' = "block" /\ UNCHANGED under
       ELSE pc' = "idle" /\ under' = After(<<how, key, iv>>)
  /\ UNCHANGED <<keyed, length, data, how, iv, ret, i, carry_in>>

Step == CryptBlock \/ CarryByte \/ CarryOut
Next ==
  \/ Step
  \/ XtsUninit
  \/ \E k \in Keys, len \in KeyLens : XtsInit(k, len)
  \/ \E h \in {"encrypt", "decrypt"}, v \in Ivs : Crypt(h, v)

Spec == Init /\ [][Next]_vars
-----------------------------------------------------------------------------
(* The tweak as a polynomial, the set of its exponents, and its product    *)
(* with x in the field whose polynomial has x^n and XTS_ALPHA.             *)
Degree == blk_sz * BITS
Poly(t) == {e \in 0 .. Degree - 1 : e % BITS \in t[e \div BITS]}
TimesX(p) == Xor({e + 1 : e \in p}, IF Degree - 1 \in p THEN XTS_ALPHA \cup {Degree} ELSE {})
Alpha(p) ==
  LET times[n \in Nat] == IF n = 0 THEN p ELSE TimesX(times[n - 1])
  IN  times

(* Block b of a sector is crypted with the tweak that the second half of   *)
(* the key gives the sector, times x^b, whatever carries run through the   *)
(* bytes and out of them and whatever was in the context before.           *)
TweakIsPower ==
  pc = "block" => Poly(tweak) = Alpha(Poly(First(CipherKey(key[1], key[2] \div 2), iv)))[block]

(* A call undoes another if it goes the other way with the same key and    *)
(* sector, set up anew in between or not, also below others that were      *)
(* undone first.  When all have been undone the data is in the clear, and  *)
(* before no block of it is.  A length that is not of whole blocks is      *)
(* refused, and nothing is touched.                                        *)
RoundTrip ==
  pc = "idle" =>
    \A b \in 0 .. Blocks - 1 : data[b] = Plain(b) <=> under = <<>>
=============================================================================
