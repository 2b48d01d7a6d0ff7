------------------------------ MODULE Pbkdf2Proofs ------------------------------
(***************************************************************************)
(* Proofs about key derivation, for every size of a hash's block and       *)
(* digest, passphrases, salts and keys of every length and any number of   *)
(* iterations.                                                             *)
(***************************************************************************)
EXTENDS Pbkdf2, SequenceTheorems, WellFoundedInduction, TLAPS

(* Induction: a set that has 0, and n + 1 with n, has every number. *)
LEMMA SetInduction ==
  ASSUME NEW S, 0 \in S, \A n \in Nat : n \in S => n + 1 \in S
  PROVE  Nat \subseteq S
<1> SUFFICES ASSUME Nat \ S # {} PROVE FALSE
  OBVIOUS
<1> DEFINE R == {ss \in Nat \X Nat : ss[1] < ss[2]}
<1>1. IsWellFoundedOn(R, Nat)
  BY NatLessThanWellFounded DEF OpToRel
<1>2. PICK n \in Nat \ S : \A m \in Nat \ S : ~(<<m, n>> \in R)
  BY <1>1, WFMin
<1>3. n - 1 \in Nat /\ n - 1 < n
  BY <1>2
<1>4. <<n - 1, n>> \in R
  BY <1>3
<1>5. n - 1 \in S
  BY <1>2, <1>3, <1>4
<1> QED
  BY <1>2, <1>3, <1>5

-----------------------------------------------------------------------------
(* The recursions of RFC 2898: the first n of the U's, and of their         *)
(* exclusive ors.                                                           *)
UChain(w, n, P, m) ==
  (n >= 1 => w[1] = HMAC(P, m)) /\ \A j \in 2 .. n : w[j] = HMAC(P, w[j - 1])

BytesXor(a, b) == [k \in 1 .. DIGEST_SZ |-> Xor(a[k], b[k])]

XChain(w, n, u) ==
  (n >= 1 => w[1] = u[1]) /\ \A j \in 2 .. n : w[j] = BytesXor(w[j - 1], u[j])

LEMMA UChainsExist ==
  ASSUME NEW P, NEW m
  PROVE  \A n \in Nat : \E w : UChain(w, n, P, m)
<1> DEFINE S == {n \in Nat : \E w : UChain(w, n, P, m)}
<1>1. 0 \in S
  BY DEF UChain
<1>2. ASSUME NEW n \in Nat, n \in S
      PROVE  n + 1 \in S
  <2>1. PICK w : UChain(w, n, P, m)
    BY <1>2
  <2> DEFINE new == IF n = 0 THEN HMAC(P, m) ELSE HMAC(P, w[n])
             v == [j \in 1 .. n + 1 |-> IF j = n + 1 THEN new ELSE w[j]]
  <2>2. v[1] = HMAC(P, m)
    BY <2>1 DEF UChain
  <2>3. ASSUME NEW j \in 2 .. n + 1
        PROVE  v[j] = HMAC(P, v[j - 1])
    <3>1. v[j - 1] = w[j - 1]
      OBVIOUS
    <3>2. CASE j = n + 1
      <4>1. n # 0 /\ v[j] = HMAC(P, w[n]) /\ j - 1 = n
        BY <3>2
      <4> QED
        BY <3>1, <4>1
    <3>3. CASE j # n + 1
      <4>1. j \in 2 .. n /\ v[j] = w[j]
        BY <3>3
      <4> QED
        BY <2>1, <3>1, <4>1 DEF UChain
    <3> QED
      BY <3>2, <3>3
  <2> HIDE DEF v
  <2>4. UChain(v, n + 1, P, m)
    BY <2>2, <2>3 DEF UChain
  <2> QED
    BY <2>4
<1>3. Nat \subseteq S
  BY <1>1, <1>2, SetInduction
<1> QED
  BY <1>3

LEMMA UChainsUnique ==
  ASSUME NEW w, NEW v, NEW P, NEW m, NEW n \in Nat \ {0},
         UChain(w, n, P, m), UChain(v, n, P, m)
  PROVE  w[n] = v[n]
<1> DEFINE S == {k \in Nat : k + 1 <= n => w[k + 1] = v[k + 1]}
<1>1. 0 \in S
  BY DEF UChain
<1>2. ASSUME NEW k \in Nat, k \in S
      PROVE  k + 1 \in S
  <2> SUFFICES ASSUME (k + 1) + 1 <= n
               PROVE  w[(k + 1) + 1] = v[(k + 1) + 1]
    OBVIOUS
  <2>1. (k + 1) + 1 \in 2 .. n /\ ((k + 1) + 1) - 1 = k + 1 /\ w[k + 1] = v[k + 1]
    BY <1>2
  <2> QED
    BY <2>1 DEF UChain
<1>3. Nat \subseteq S
  BY <1>1, <1>2, SetInduction
<1>4. n - 1 \in S /\ (n - 1) + 1 = n
  BY <1>3
<1> QED
  BY <1>4

(* So the recursion that defines U has a solution. *)
LEMMA UIs ==
  ASSUME NEW P, NEW S, NEW b
  PROVE  /\ U(P, S, b)[1] = HMAC(P, S \o INT(b))
         /\ \A n \in Nat \ {0} : U(P, S, b)[n + 1] = HMAC(P, U(P, S, b)[n])
<1> DEFINE m == S \o INT(b)
<1> HIDE DEF m
<1> DEFINE Of(n) == CHOOSE w : UChain(w, n, P, m)
           A == [n \in Nat \ {0} |-> Of(n)[n]]
           Once(u) == [n \in Nat \ {0} |-> IF n = 1 THEN HMAC(P, m) ELSE HMAC(P, u[n - 1])]
<1>1. \A n \in Nat : UChain(Of(n), n, P, m)
  BY UChainsExist
<1> HIDE DEF Of
<1>2. ASSUME NEW n \in Nat \ {0}, n # 1
      PROVE  Of(n)[n] = HMAC(P, A[n - 1])
  <2>1. n - 1 \in Nat \ {0} /\ n \in 2 .. n
    BY <1>2
  <2>2. UChain(Of(n), n, P, m) /\ UChain(Of(n - 1), n - 1, P, m)
    BY <1>1, <2>1
  <2>3. UChain(Of(n), n - 1, P, m)
    BY <2>1, <2>2 DEF UChain
  <2>4. Of(n)[n - 1] = Of(n - 1)[n - 1]
    BY <2>1, <2>2, <2>3, UChainsUnique
  <2>5. A[n - 1] = Of(n - 1)[n - 1]
    BY <2>1
  <2> QED
    BY <2>1, <2>2, <2>4, <2>5 DEF UChain
<1>3. Of(1)[1] = HMAC(P, m)
  BY <1>1 DEF UChain
<1>4. A = Once(A)
  BY <1>2, <1>3
<1>5. U(P, S, b) = CHOOSE f : f = Once(f)
  BY DEF U, m
<1>6. U(P, S, b) = Once(U(P, S, b))
  BY <1>4, <1>5
<1>7. U(P, S, b)[1] = HMAC(P, m)
  BY <1>6
<1>8. ASSUME NEW n \in Nat \ {0}
      PROVE  U(P, S, b)[n + 1] = HMAC(P, U(P, S, b)[n])
  <2>1. n + 1 \in Nat \ {0} /\ n + 1 # 1 /\ (n + 1) - 1 = n
    OBVIOUS
  <2> QED
    BY <1>6, <2>1
<1> QED
  BY <1>7, <1>8 DEF m

LEMMA XChainsExist ==
  ASSUME NEW u
  PROVE  \A n \in Nat : \E w : XChain(w, n, u)
<1> DEFINE S == {n \in Nat : \E w : XChain(w, n, u)}
<1>1. 0 \in S
  BY DEF XChain
<1>2. ASSUME NEW n \in Nat, n \in S
      PROVE  n + 1 \in S
  <2>1. PICK w : XChain(w, n, u)
    BY <1>2
  <2> DEFINE new == IF n = 0 THEN u[1] ELSE BytesXor(w[n], u[n + 1])
             v == [j \in 1 .. n + 1 |-> IF j = n + 1 THEN new ELSE w[j]]
  <2>2. v[1] = u[1]
    BY <2>1 DEF XChain
  <2>3. ASSUME NEW j \in 2 .. n + 1
        PROVE  v[j] = BytesXor(v[j - 1], u[j])
    <3>1. v[j - 1] = w[j - 1]
      OBVIOUS
    <3>2. CASE j = n + 1
      <4>1. n # 0 /\ v[j] = BytesXor(w[n], u[n + 1]) /\ j - 1 = n
        BY <3>2
      <4> QED
        BY <3>1, <3>2, <4>1
    <3>3. CASE j # n + 1
      <4>1. j \in 2 .. n /\ v[j] = w[j]
        BY <3>3
      <4> QED
        BY <2>1, <3>1, <4>1 DEF XChain
    <3> QED
      BY <3>2, <3>3
  <2> HIDE DEF v
  <2>4. XChain(v, n + 1, u)
    BY <2>2, <2>3 DEF XChain
  <2> QED
    BY <2>4
<1>3. Nat \subseteq S
  BY <1>1, <1>2, SetInduction
<1> QED
  BY <1>3

LEMMA XChainsUnique ==
  ASSUME NEW w, NEW v, NEW u, NEW n \in Nat \ {0}, XChain(w, n, u), XChain(v, n, u)
  PROVE  w[n] = v[n]
<1> DEFINE S == {k \in Nat : k + 1 <= n => w[k + 1] = v[k + 1]}
<1>1. 0 \in S
  BY DEF XChain
<1>2. ASSUME NEW k \in Nat, k \in S
      PROVE  k + 1 \in S
  <2> SUFFICES ASSUME (k + 1) + 1 <= n
               PROVE  w[(k + 1) + 1] = v[(k + 1) + 1]
    OBVIOUS
  <2>1. (k + 1) + 1 \in 2 .. n /\ ((k + 1) + 1) - 1 = k + 1 /\ w[k + 1] = v[k + 1]
    BY <1>2
  <2> QED
    BY <2>1 DEF XChain
<1>3. Nat \subseteq S
  BY <1>1, <1>2, SetInduction
<1>4. n - 1 \in S /\ (n - 1) + 1 = n
  BY <1>3
<1> QED
  BY <1>4

(* And so has that of the exclusive ors. *)
LEMMA XorAllIs ==
  ASSUME NEW u
  PROVE  /\ XorAll(u)[1] = u[1]
         /\ \A n \in Nat \ {0} : XorAll(u)[n + 1] = BytesXor(XorAll(u)[n], u[n + 1])
<1> DEFINE Of(n) == CHOOSE w : XChain(w, n, u)
           A == [n \in Nat \ {0} |-> Of(n)[n]]
           Once(f) == [n \in Nat \ {0} |-> IF n = 1 THEN u[1] ELSE BytesXor(f[n - 1], u[n])]
<1>1. \A n \in Nat : XChain(Of(n), n, u)
  BY XChainsExist
<1> HIDE DEF Of
<1>2. ASSUME NEW n \in Nat \ {0}, n # 1
      PROVE  Of(n)[n] = BytesXor(A[n - 1], u[n])
  <2>1. n - 1 \in Nat \ {0} /\ n \in 2 .. n
    BY <1>2
  <2>2. XChain(Of(n), n, u) /\ XChain(Of(n - 1), n - 1, u)
    BY <1>1, <2>1
  <2>3. XChain(Of(n), n - 1, u)
    BY <2>1, <2>2 DEF XChain
  <2>4. Of(n)[n - 1] = Of(n - 1)[n - 1]
    BY <2>1, <2>2, <2>3, XChainsUnique
  <2>5. A[n - 1] = Of(n - 1)[n - 1]
    BY <2>1
  <2> QED
    BY <2>1, <2>2, <2>4, <2>5 DEF XChain
<1>3. Of(1)[1] = u[1]
  BY <1>1 DEF XChain
<1>4. A = Once(A)
  BY <1>2, <1>3
<1>5. XorAll(u) = CHOOSE f : f = Once(f)
  BY DEF XorAll, BytesXor
<1>6. XorAll(u) = Once(XorAll(u))
  BY <1>4, <1>5
<1>7. XorAll(u)[1] = u[1]
  BY <1>6
<1>8. ASSUME NEW n \in Nat \ {0}
      PROVE  XorAll(u)[n + 1] = BytesXor(XorAll(u)[n], u[n + 1])
  <2>1. n + 1 \in Nat \ {0} /\ n + 1 # 1 /\ (n + 1) - 1 = n
    OBVIOUS
  <2> QED
    BY <1>6, <2>1
<1> QED
  BY <1>7, <1>8

-----------------------------------------------------------------------------
(* Strings, pieces of them, and what HMAC is made of. *)
IsString(s, n) == s = [k \in 1 .. n |-> s[k]]

LEMMA StringIsSeq ==
  ASSUME NEW n \in Nat, NEW s, IsString(s, n)
  PROVE  s \in Seq({s[k] : k \in 1 .. n}) /\ Len(s) = n /\ DOMAIN s = 1 .. n
<1> DEFINE T == {s[k] : k \in 1 .. n}
<1>1. s \in [1 .. n -> T]
  BY DEF IsString
<1>2. s \in Seq(T)
  BY <1>1, SeqDef
<1>3. DOMAIN s = 1 .. n
  BY <1>1
<1> HIDE DEF T
<1>4. Len(s) \in Nat /\ DOMAIN s = 1 .. Len(s)
  BY <1>2, LenProperties
<1>5. Len(s) = n
  BY <1>3, <1>4
<1> QED
  BY <1>2, <1>3, <1>5 DEF T

LEMMA FirstOf ==
  ASSUME NEW n \in Nat, NEW m \in Nat, m <= n, NEW s, IsString(s, n)
  PROVE  SubSeq(s, 1, m) = [k \in 1 .. m |-> s[k]]
<1> DEFINE T == {s[k] : k \in 1 .. n}
           p == SubSeq(s, 1, m)
<1>1. \A k \in 1 .. m : s[k] \in T
  OBVIOUS
<1> HIDE DEF T
<1>2. /\ p \in Seq(T)
      /\ Len(p) = IF 1 <= m THEN m - 1 + 1 ELSE 0
      /\ \A k \in 1 .. m - 1 + 1 : p[k] = s[1 + k - 1]
  BY <1>1, SubSeqProperties
<1>3. p \in [1 .. Len(p) -> T]
  BY <1>2, LenProperties
<1> HIDE DEF p
<1>4. Len(p) = m /\ \A k \in 1 .. m : p[k] = s[k]
  BY <1>2
<1>5. p = [k \in 1 .. m |-> s[k]]
  BY <1>3, <1>4
<1> QED
  BY <1>5 DEF p

LEMMA Sizes ==
  /\ BLOCK_SZ \in Nat /\ DIGEST_SZ \in Nat /\ DIGEST_SZ > 0 /\ DIGEST_SZ <= BLOCK_SZ
  /\ PBKDF2_MAX_DIGEST_LENGTH \in Nat /\ DIGEST_SZ <= PBKDF2_MAX_DIGEST_LENGTH
  /\ OUT \in Nat
BY Pbkdf2Assumption

(* A digest that was copied to the start of a buffer is what is there. *)
LEMMA DigestAtStart ==
  ASSUME NEW n \in Nat, DIGEST_SZ <= n, NEW s, IsString(s, n), NEW ctx
  PROVE  LET t == Over(s, Digest(ctx), DIGEST_SZ)
         IN  IsString(t, n) /\ SubSeq(t, 1, DIGEST_SZ) = Digest(ctx)
<1> DEFINE d == Digest(ctx)
           t == Over(s, d, DIGEST_SZ)
<1>1. d = [k \in 1 .. DIGEST_SZ |-> d[k]]
  BY DEF Digest
<1> HIDE DEF d
<1>2. DOMAIN s = 1 .. n
  BY StringIsSeq
<1>3. t = [k \in 1 .. n |-> IF k <= DIGEST_SZ THEN d[k] ELSE s[k]]
  BY <1>2 DEF Over
<1>4. IsString(t, n)
  BY <1>3 DEF IsString
<1>5. \A k \in 1 .. DIGEST_SZ : t[k] = d[k]
  BY <1>3, Sizes
<1> HIDE DEF t
<1>6. SubSeq(t, 1, DIGEST_SZ) = [k \in 1 .. DIGEST_SZ |-> t[k]]
  BY <1>4, Sizes, FirstOf
<1>7. [k \in 1 .. DIGEST_SZ |-> t[k]] = [k \in 1 .. DIGEST_SZ |-> d[k]]
  BY <1>5
<1>8. SubSeq(t, 1, DIGEST_SZ) = d
  BY <1>1, <1>6, <1>7, Zenon
<1> QED
  BY <1>4, <1>8 DEF t, d

(* The key of RFC 2104, padded. *)
PaddedKey(key) ==
  LET short == IF Len(key) > BLOCK_SZ THEN Digest(key) ELSE key
  IN  short \o Zeros(BLOCK_SZ - Len(short))

LEMMA HmacIs ==
  ASSUME NEW key, NEW text
  PROVE  HMAC(key, text) = Digest(Masked(PaddedKey(key), "5c")
                                  \o Digest(Masked(PaddedKey(key), "36") \o text))
BY DEF HMAC, PaddedKey

LEMMA ZeroPadded ==
  ASSUME NEW n \in Nat, n <= BLOCK_SZ, NEW s, IsString(s, n)
  PROVE  s \o Zeros(BLOCK_SZ - n) = Over(Zeros(BLOCK_SZ), s, n)
<1> DEFINE T == {s[k] : k \in 1 .. n} \cup {ZERO}
           z == Zeros(BLOCK_SZ - n)
           p == s \o z
<1>1. /\ s \in Seq({s[k] : k \in 1 .. n}) /\ Len(s) = n
  BY StringIsSeq
<1>2. s \in Seq(T)
  BY <1>1, SeqMonotonic
<1>3. IsString(z, BLOCK_SZ - n) /\ BLOCK_SZ - n \in Nat
  BY Sizes DEF Zeros, IsString
<1>4. z \in Seq({z[k] : k \in 1 .. BLOCK_SZ - n}) /\ Len(z) = BLOCK_SZ - n
  BY <1>3, StringIsSeq
<1>5. \A k \in 1 .. BLOCK_SZ - n : z[k] = ZERO
  BY DEF Zeros
<1>6. {z[k] : k \in 1 .. BLOCK_SZ - n} \subseteq T
  BY <1>5
<1>7. z \in Seq(T)
  BY <1>4, <1>6, SeqMonotonic
<1> HIDE DEF T, z
<1>8. /\ p \in Seq(T)
      /\ Len(p) = n + (BLOCK_SZ - n)
      /\ \A k \in 1 .. n + (BLOCK_SZ - n) : p[k] = IF k <= n THEN s[k] ELSE z[k - n]
  BY <1>1, <1>2, <1>4, <1>7, ConcatProperties
<1>9. p \in [1 .. Len(p) -> T]
  BY <1>8, LenProperties
<1> HIDE DEF p
<1>10. n + (BLOCK_SZ - n) = BLOCK_SZ
  BY Sizes
<1>11. \A k \in 1 .. BLOCK_SZ : p[k] = IF k <= n THEN s[k] ELSE ZERO
  BY <1>5, <1>8, <1>10, Sizes
<1>12. Over(Zeros(BLOCK_SZ), s, n) = [k \in 1 .. BLOCK_SZ |-> IF k <= n THEN s[k] ELSE ZERO]
  BY DEF Over, Zeros
<1>13. p = [k \in 1 .. BLOCK_SZ |-> IF k <= n THEN s[k] ELSE ZERO]
  BY <1>8, <1>9, <1>10, <1>11
<1> QED
  BY <1>12, <1>13 DEF p, z

LEMMA KeyedIs ==
  ASSUME NEW n \in Nat, IsString(pass, n)
  PROVE  Keyed = PaddedKey(pass) /\ IsString(Keyed, BLOCK_SZ)
<1>1. Len(pass) = n
  BY StringIsSeq
<1>2. IsString(Keyed, BLOCK_SZ)
  BY DEF Keyed, IsString, Over, Zeros
<1>3. CASE n > BLOCK_SZ
  <2>1. IsString(Digest(pass), DIGEST_SZ)
    BY DEF IsString, Digest
  <2>2. Len(Digest(pass)) = DIGEST_SZ
    BY <2>1, Sizes, StringIsSeq
  <2>3. PaddedKey(pass) = Digest(pass) \o Zeros(BLOCK_SZ - DIGEST_SZ)
    BY <1>1, <1>3, <2>2 DEF PaddedKey
  <2>4. Digest(pass) \o Zeros(BLOCK_SZ - DIGEST_SZ) = Over(Zeros(BLOCK_SZ), Digest(pass), DIGEST_SZ)
    BY <2>1, Sizes, ZeroPadded
  <2> QED
    BY <1>1, <1>2, <1>3, <2>3, <2>4 DEF Keyed
<1>4. CASE ~(n > BLOCK_SZ)
  <2>1. PaddedKey(pass) = pass \o Zeros(BLOCK_SZ - n)
    BY <1>1, <1>4 DEF PaddedKey
  <2>2. pass \o Zeros(BLOCK_SZ - n) = Over(Zeros(BLOCK_SZ), pass, n)
    BY <1>4, Sizes, ZeroPadded
  <2> QED
    BY <1>1, <1>2, <1>4, <2>1, <2>2 DEF Keyed
<1> QED
  BY <1>3, <1>4

LEMMA MaskedIsString ==
  ASSUME NEW n \in Nat, NEW s, IsString(s, n), NEW mask
  PROVE  IsString(Masked(s, mask), n)
BY StringIsSeq DEF IsString, Masked

-----------------------------------------------------------------------------
(* The inductive invariant: what is called, how far the loops have come,    *)
(* what is in the buffers, and what an HMAC under way has computed.         *)
Calling == {"key", "inner", "outer", "hmac_done"}
PCs == Calling \cup {"block", "iterate", "done"}

ArgsInv == /\ \E n \in Nat : IsString(pass, n)
           /\ \E n \in Nat : IsString(salt, n)
           /\ keylen \in Nat /\ keylen <= OUT
           /\ iterations \in Nat \ {0}

WalkInv == /\ pc \in PCs
           /\ done \in Nat /\ dklen \in Nat /\ done + dklen = keylen
           /\ i \in Nat /\ rem \in Nat /\ c \in Nat
           /\ pc = "block" => dklen = 0 \/ done = i * DIGEST_SZ
           /\ pc \in Calling \cup {"iterate"} =>
                i > 0 /\ done = (i - 1) * DIGEST_SZ /\ rem = Rem
           /\ pc = "done" => dklen = 0

BuffersInv == /\ IsString(dk, OUT)
              /\ IsString(ut, PBKDF2_MAX_DIGEST_LENGTH)
              /\ IsString(ux, PBKDF2_MAX_DIGEST_LENGTH)
              /\ IsString(saltp, Len(salt) + 4)
              /\ \A k \in 1 .. Len(salt) : saltp[k] = salt[k]

(* What is derived: the first message, or the U before. *)
This == U(pass, salt, i)

CallInv ==
  /\ pc \in Calling => \/ out = "ut" /\ c = 0 /\ msg = salt \o INT(i)
                       \/ out = "ux" /\ c > 0 /\ c < iterations /\ msg = This[c]
  /\ pc = "iterate" => c > 0 /\ c <= iterations /\ SubSeq(ut, 1, DIGEST_SZ) = This[c]

HmacInv ==
  /\ pc \in {"inner", "outer"} => opad = Masked(PaddedKey(pass), "5c")
  /\ pc = "inner" => ipad = Masked(PaddedKey(pass), "36")
  /\ pc = "outer" =>
       SubSeq(ipad, 1, DIGEST_SZ) = Digest(Masked(PaddedKey(pass), "36") \o msg)

(* While an HMAC goes into ux the block has the exclusive or of those before. *)
BlockSoFar ==
  pc \in Calling /\ out = "ux" => \A k \in done + 1 .. done + rem : dk[k] = DerivedByte(c, k)

IndInv == /\ ArgsInv /\ WalkInv /\ BuffersInv /\ CallInv /\ HmacInv
          /\ BlockSoFar /\ HmacRight /\ KeySoFar

LEMMA SwappedIs ==
  ASSUME NEW n
  PROVE  [k \in 1 .. 4 |-> Atom("count", 0, Swapped(LittleEndian(n))[k])] = INT(n)
<1> DEFINE l == LittleEndian(n)
<1>1. /\ Len(l) = 4 /\ DOMAIN l = 1 .. 4
      /\ l[1] = ByteOf(n, 0) /\ l[2] = ByteOf(n, 1) /\ l[3] = ByteOf(n, 2) /\ l[4] = ByteOf(n, 3)
  BY DEF LittleEndian
<1> HIDE DEF l
<1>2. ASSUME NEW k \in 1 .. 4
      PROVE  Swapped(l)[k] = ByteOf(n, 4 - k)
  <2>1. Swapped(l)[k] = l[5 - k]
    BY <1>1 DEF Swapped
  <2>2. CASE k = 1
    <3>1. 5 - k = 4 /\ 4 - k = 3
      BY <2>2
    <3> QED
      BY <1>1, <2>1, <3>1
  <2>3. CASE k = 2
    <3>1. 5 - k = 3 /\ 4 - k = 2
      BY <2>3
    <3> QED
      BY <1>1, <2>1, <3>1
  <2>4. CASE k = 3
    <3>1. 5 - k = 2 /\ 4 - k = 1
      BY <2>4
    <3> QED
      BY <1>1, <2>1, <3>1
  <2>5. CASE k = 4
    <3>1. 5 - k = 1 /\ 4 - k = 0
      BY <2>5
    <3> QED
      BY <1>1, <2>1, <3>1
  <2> QED
    BY <2>2, <2>3, <2>4, <2>5
<1>3. [k \in 1 .. 4 |-> Atom("count", 0, Swapped(l)[k])]
        = [k \in 1 .. 4 |-> Atom("count", 0, ByteOf(n, 4 - k))]
  BY <1>2
<1> QED
  BY <1>3 DEF INT, l

(* Where in its block a byte of the key is. *)
LEMMA PlaceInBlock ==
  ASSUME WalkInv, pc \in Calling \cup {"iterate"}, NEW k \in done + 1 .. done + rem
  PROVE  /\ 1 + (k - 1) \div DIGEST_SZ = i
         /\ 1 + ((k - 1) % DIGEST_SZ) = k - done
         /\ k - done \in 1 .. DIGEST_SZ
         /\ k >= 1 /\ k <= keylen
<1>1. /\ i \in Nat /\ i > 0 /\ done = (i - 1) * DIGEST_SZ
      /\ done \in Nat /\ rem \in Nat /\ rem <= DIGEST_SZ /\ rem <= dklen
      /\ done + dklen = keylen /\ dklen \in Nat
  BY Sizes DEF WalkInv, Rem
<1>2. k \in Int /\ k >= 1 /\ k - done \in 1 .. DIGEST_SZ /\ k <= keylen
  BY <1>1, Sizes
<1> DEFINE q == i - 1
           r == (k - done) - 1
<1>3. q \in Nat /\ r \in Nat /\ r < DIGEST_SZ /\ k - 1 = q * DIGEST_SZ + r
  <2>1. q \in Nat /\ q * DIGEST_SZ = done
    BY <1>1
  <2> HIDE DEF q
  <2>2. r \in Nat /\ r < DIGEST_SZ /\ k - 1 = done + r
    BY <1>1, <1>2, Sizes
  <2> QED
    BY <2>1, <2>2
<1> HIDE DEF q, r
<1>4. (k - 1) \div DIGEST_SZ = q /\ (k - 1) % DIGEST_SZ = r
  BY <1>3, Sizes
<1>5. 1 + q = i /\ 1 + r = k - done
  BY <1>1, <1>2 DEF q, r
<1> QED
  BY <1>2, <1>4, <1>5

LEMMA DerivedIs ==
  ASSUME WalkInv, pc \in Calling \cup {"iterate"}, NEW k \in done + 1 .. done + rem, NEW n
  PROVE  DerivedByte(n, k) = XorAll(This)[n][k - done]
<1>1. 1 + (k - 1) \div DIGEST_SZ = i /\ 1 + ((k - 1) % DIGEST_SZ) = k - done
  BY PlaceInBlock
<1> QED
  BY <1>1 DEF DerivedByte, F, This

-----------------------------------------------------------------------------
(* The initial states, and each step. *)
LEMMA InputIs ==
  ASSUME NEW kind, NEW n \in Nat
  PROVE  IsString(Input(kind, n), n) /\ Len(Input(kind, n)) = n
<1>1. IsString(Input(kind, n), n)
  BY DEF Input, IsString
<1> QED
  BY <1>1, StringIsSeq

Joined(s, t) == s \o t

LEMMA FollowedBy ==
  ASSUME NEW n \in Nat, NEW m \in Nat, NEW s, IsString(s, n), NEW t, IsString(t, m)
  PROVE  IsString(Joined(s, t), n + m) /\ \A k \in 1 .. n : Joined(s, t)[k] = s[k]
<1> DEFINE p == s \o t
           T == {s[k] : k \in 1 .. n} \cup {t[k] : k \in 1 .. m}
<1>1. s \in Seq({s[k] : k \in 1 .. n}) /\ Len(s) = n
      /\ t \in Seq({t[k] : k \in 1 .. m}) /\ Len(t) = m
  BY StringIsSeq
<1>2. s \in Seq(T) /\ t \in Seq(T)
  <2>1. {s[k] : k \in 1 .. n} \subseteq T /\ {t[k] : k \in 1 .. m} \subseteq T
    OBVIOUS
  <2> HIDE DEF T
  <2> QED
    BY <1>1, <2>1, SeqMonotonic
<1> HIDE DEF T
<1>3. /\ p \in Seq(T) /\ Len(p) = n + m
      /\ \A k \in 1 .. n + m : p[k] = IF k <= n THEN s[k] ELSE t[k - n]
  BY <1>1, <1>2, ConcatProperties
<1>4. p \in [1 .. Len(p) -> T]
  BY <1>3, LenProperties
<1> HIDE DEF p
<1>5. IsString(p, n + m)
  BY <1>3, <1>4 DEF IsString
<1>6. \A k \in 1 .. n : p[k] = s[k]
  BY <1>3
<1> QED
  BY <1>5, <1>6 DEF p, Joined

LEMMA Initially == Init => IndInv
<1> SUFFICES ASSUME Init PROVE IndInv
  OBVIOUS
<1>1. PICK n \in PassLengths : pass = Input("pass", n)
  BY DEF Init
<1>2. PICK m \in SaltLengths : salt = Input("salt", m)
  BY DEF Init
<1>3. n \in Nat /\ m \in Nat
  BY Pbkdf2Assumption
<1>4. IsString(pass, n) /\ IsString(salt, m) /\ Len(salt) = m
  BY <1>1, <1>2, <1>3, InputIs
<1>5. /\ keylen \in KeyLengths /\ iterations \in IterationCounts
      /\ pc = "block" /\ done = 0 /\ dklen = keylen /\ rem = 0 /\ i = 0 /\ c = 0
      /\ dk = Input("dk", OUT)
      /\ ut = Input("ut", PBKDF2_MAX_DIGEST_LENGTH)
      /\ ux = Input("ux", PBKDF2_MAX_DIGEST_LENGTH)
      /\ saltp = salt \o Input("heap", 4)
  BY DEF Init
<1>6. keylen \in Nat /\ keylen <= OUT /\ iterations \in Nat \ {0}
  BY <1>5, Pbkdf2Assumption
<1>7. ArgsInv
  BY <1>3, <1>4, <1>6 DEF ArgsInv
<1>8. WalkInv
  BY <1>5, <1>6, Sizes DEF WalkInv, PCs, Calling
<1>9. BuffersInv
  <2>1. IsString(dk, OUT) /\ IsString(ut, PBKDF2_MAX_DIGEST_LENGTH)
        /\ IsString(ux, PBKDF2_MAX_DIGEST_LENGTH)
    BY <1>5, InputIs, Sizes
  <2> DEFINE t == Input("heap", 4)
  <2>2. IsString(t, 4) /\ saltp = Joined(salt, t) /\ IsString(salt, m) /\ m \in Nat
    BY <1>3, <1>4, <1>5, InputIs DEF Joined
  <2> HIDE DEF t
  <2>3. IsString(saltp, m + 4) /\ \A k \in 1 .. m : saltp[k] = salt[k]
    BY <2>2, FollowedBy
  <2> QED
    BY <1>4, <2>1, <2>3 DEF BuffersInv
<1>10. CallInv /\ HmacInv /\ BlockSoFar /\ HmacRight
  BY <1>5 DEF CallInv, HmacInv, BlockSoFar, HmacRight, Calling
<1>11. KeySoFar
  BY <1>5, <1>6, Sizes DEF KeySoFar, Input
<1> QED
  BY <1>7, <1>8, <1>9, <1>10, <1>11 DEF IndInv

LEMMA NextBlockKeeps ==
  ASSUME IndInv, NextBlock
  PROVE  IndInv'
<1>1. /\ pc = "block" /\ dklen > 0 /\ i' = i + 1 /\ rem' = Rem
      /\ saltp' = SubSeq(saltp, 1, Len(salt)) \o Counter
      /\ out' = "ut" /\ msg' = saltp' /\ pc' = "key" /\ c' = 0
      /\ pass' = pass /\ salt' = salt /\ keylen' = keylen /\ iterations' = iterations
      /\ dk' = dk /\ done' = done /\ dklen' = dklen /\ ut' = ut /\ ux' = ux
      /\ ipad' = ipad /\ opad' = opad
  BY DEF NextBlock, Call, args
<1>2. PICK m \in Nat : IsString(salt, m)
  BY DEF IndInv, ArgsInv
<1>3. Len(salt) = m
  BY <1>2, StringIsSeq
<1>4. Counter = INT(i')
  BY SwappedIs DEF Counter
<1>5. SubSeq(saltp, 1, m) = salt
  <2>1. SubSeq(saltp, 1, m) = [k \in 1 .. m |-> saltp[k]]
    BY <1>3, FirstOf DEF IndInv, BuffersInv
  <2>2. [k \in 1 .. m |-> saltp[k]] = [k \in 1 .. m |-> salt[k]]
    BY <1>3 DEF IndInv, BuffersInv
  <2> QED
    BY <1>2, <2>1, <2>2 DEF IsString
<1>6. saltp' = salt \o INT(i')
  BY <1>1, <1>3, <1>4, <1>5
<1>7. ArgsInv'
  BY <1>1 DEF IndInv, ArgsInv
<1>8. WalkInv'
  <2>1. /\ i \in Nat /\ dklen \in Nat /\ done = i * DIGEST_SZ /\ done + dklen = keylen
        /\ done \in Nat
    BY <1>1 DEF IndInv, WalkInv
  <2>2. i' - 1 = i /\ i' \in Nat /\ i' > 0
    BY <1>1, <2>1
  <2>3. rem' = Rem' /\ rem' \in Nat
    BY <1>1, <2>1, Sizes DEF Rem
  <2> QED
    BY <1>1, <2>1, <2>2, <2>3 DEF WalkInv, PCs, Calling
<1>9. BuffersInv'
  <2> DEFINE t == INT(i')
  <2>1. IsString(t, 4)
    BY DEF IsString, INT
  <2>2. saltp' = Joined(salt, t)
    BY <1>6 DEF Joined
  <2> HIDE DEF t
  <2>3. IsString(saltp', m + 4) /\ \A k \in 1 .. m : saltp'[k] = salt[k]
    BY <1>2, <2>1, <2>2, FollowedBy
  <2> QED
    BY <1>1, <1>3, <2>3 DEF IndInv, BuffersInv
<1>10. CallInv' /\ HmacInv' /\ BlockSoFar' /\ HmacRight'
  BY <1>1, <1>6 DEF CallInv, HmacInv, BlockSoFar, HmacRight, Calling
<1>11. KeySoFar'
  BY <1>1 DEF IndInv, KeySoFar, DerivedByte
<1> QED
  BY <1>7, <1>8, <1>9, <1>10, <1>11 DEF IndInv

LEMMA HmacKeyKeeps ==
  ASSUME IndInv, HmacKey
  PROVE  IndInv'
<1>1. /\ pc = "key" /\ pc' = "inner"
      /\ ipad' = Masked(Keyed, "36") /\ opad' = Masked(Keyed, "5c")
      /\ pass' = pass /\ salt' = salt /\ keylen' = keylen /\ iterations' = iterations
      /\ dk' = dk /\ done' = done /\ dklen' = dklen /\ ut' = ut /\ ux' = ux
      /\ rem' = rem /\ i' = i /\ c' = c /\ saltp' = saltp /\ out' = out /\ msg' = msg
  BY DEF HmacKey, args, locals
<1>2. Keyed = PaddedKey(pass)
  BY KeyedIs DEF IndInv, ArgsInv
<1>3. ArgsInv' /\ BuffersInv'
  BY <1>1 DEF IndInv, ArgsInv, BuffersInv
<1>4. WalkInv'
  BY <1>1 DEF IndInv, WalkInv, Rem, PCs, Calling
<1>5. CallInv'
  BY <1>1 DEF IndInv, CallInv, Calling, This
<1>6. HmacInv' /\ HmacRight'
  BY <1>1, <1>2 DEF HmacInv, HmacRight
<1>7. BlockSoFar' /\ KeySoFar'
  BY <1>1 DEF IndInv, BlockSoFar, KeySoFar, Calling, DerivedByte
<1> QED
  BY <1>3, <1>4, <1>5, <1>6, <1>7 DEF IndInv

LEMMA HmacInnerKeeps ==
  ASSUME IndInv, HmacInner
  PROVE  IndInv'
<1>1. /\ pc = "inner" /\ pc' = "outer"
      /\ ipad' = Over(ipad, Digest(ipad \o msg), DIGEST_SZ) /\ opad' = opad
      /\ pass' = pass /\ salt' = salt /\ keylen' = keylen /\ iterations' = iterations
      /\ dk' = dk /\ done' = done /\ dklen' = dklen /\ ut' = ut /\ ux' = ux
      /\ rem' = rem /\ i' = i /\ c' = c /\ saltp' = saltp /\ out' = out /\ msg' = msg
  BY DEF HmacInner, args, locals
<1>2. ipad = Masked(PaddedKey(pass), "36")
  BY <1>1 DEF IndInv, HmacInv
<1>3. IsString(ipad, BLOCK_SZ)
  <2>1. IsString(PaddedKey(pass), BLOCK_SZ)
    BY KeyedIs DEF IndInv, ArgsInv
  <2> QED
    BY <1>2, <2>1, MaskedIsString, Sizes
<1>4. SubSeq(ipad', 1, DIGEST_SZ) = Digest(ipad \o msg)
  BY <1>1, <1>3, DigestAtStart, Sizes
<1>5. ArgsInv' /\ BuffersInv'
  BY <1>1 DEF IndInv, ArgsInv, BuffersInv
<1>6. WalkInv'
  BY <1>1 DEF IndInv, WalkInv, Rem, PCs, Calling
<1>7. CallInv'
  BY <1>1 DEF IndInv, CallInv, Calling, This
<1>8. HmacInv' /\ HmacRight'
  BY <1>1, <1>2, <1>4 DEF IndInv, HmacInv, HmacRight
<1>9. BlockSoFar' /\ KeySoFar'
  BY <1>1 DEF IndInv, BlockSoFar, KeySoFar, Calling, DerivedByte
<1> QED
  BY <1>5, <1>6, <1>7, <1>8, <1>9 DEF IndInv

LEMMA HmacOuterKeeps ==
  ASSUME IndInv, HmacOuter
  PROVE  IndInv'
<1> DEFINE d == Digest(opad \o SubSeq(ipad, 1, DIGEST_SZ))
<1>1. /\ pc = "outer" /\ pc' = "hmac_done"
      /\ IF out = "ut" THEN ut' = Over(ut, d, DIGEST_SZ) /\ ux' = ux
                       ELSE ux' = Over(ux, d, DIGEST_SZ) /\ ut' = ut
      /\ pass' = pass /\ salt' = salt /\ keylen' = keylen /\ iterations' = iterations
      /\ dk' = dk /\ done' = done /\ dklen' = dklen
      /\ rem' = rem /\ i' = i /\ c' = c /\ saltp' = saltp /\ out' = out /\ msg' = msg
  BY DEF HmacOuter, HmacOuterOver, args, locals
<1>2. d = HMAC(pass, msg)
  BY <1>1, HmacIs DEF IndInv, HmacInv
<1>3. /\ IsString(ut, PBKDF2_MAX_DIGEST_LENGTH)
      /\ IsString(ux, PBKDF2_MAX_DIGEST_LENGTH)
  BY DEF IndInv, BuffersInv
<1>4. /\ IsString(ut', PBKDF2_MAX_DIGEST_LENGTH)
      /\ IsString(ux', PBKDF2_MAX_DIGEST_LENGTH)
      /\ SubSeq(IF out = "ut" THEN ut' ELSE ux', 1, DIGEST_SZ) = d
  <2>1. CASE out = "ut"
    BY <1>1, <1>3, <2>1, DigestAtStart, Sizes
  <2>2. CASE out # "ut"
    BY <1>1, <1>3, <2>2, DigestAtStart, Sizes
  <2> QED
    BY <2>1, <2>2
<1> HIDE DEF d
<1>5. ArgsInv' /\ BuffersInv'
  BY <1>1, <1>4 DEF IndInv, ArgsInv, BuffersInv
<1>6. WalkInv'
  BY <1>1 DEF IndInv, WalkInv, Rem, PCs, Calling
<1>7. CallInv'
  BY <1>1 DEF IndInv, CallInv, Calling, This
<1>8. HmacInv' /\ HmacRight'
  BY <1>1, <1>2, <1>4 DEF HmacInv, HmacRight
<1>9. BlockSoFar' /\ KeySoFar'
  BY <1>1 DEF IndInv, BlockSoFar, KeySoFar, Calling, DerivedByte
<1> QED
  BY <1>5, <1>6, <1>7, <1>8, <1>9 DEF IndInv

(* The block under way lies in the key, and so in the caller's memory. *)
LEMMA BlockInKey ==
  ASSUME IndInv, pc = "hmac_done"
  PROVE  done + 1 .. done + rem \subseteq 1 .. OUT
<1>1. keylen <= OUT /\ keylen \in Nat /\ OUT \in Nat
  BY Sizes DEF IndInv, ArgsInv
<1>2. ASSUME NEW k \in done + 1 .. done + rem
      PROVE  k \in 1 .. OUT
  <2>1. done \in Nat /\ rem \in Nat
    BY DEF IndInv, WalkInv
  <2>2. k >= 1 /\ k <= keylen
    BY PlaceInBlock DEF IndInv, Calling
  <2> QED
    BY <1>1, <2>1, <2>2
<1> QED
  BY <1>2

(* Bytes that are not of the block under way stay, and are right. *)
LEMMA RestOfKey ==
  ASSUME IndInv, pc \in Calling \cup {"iterate"},
         NEW d, \A k \in 1 .. OUT : k \notin done + 1 .. done + rem => d[k] = dk[k]
  PROVE  /\ \A k \in 1 .. done : d[k] = DerivedByte(iterations, k)
         /\ \A k \in keylen + 1 .. OUT : d[k] = Atom("dk", 0, k)
<1>1. /\ done \in Nat /\ rem \in Nat /\ rem <= dklen /\ done + dklen = keylen
      /\ dklen \in Nat /\ keylen <= OUT /\ OUT \in Nat
  BY Sizes DEF IndInv, WalkInv, ArgsInv, Rem
<1>2. ASSUME NEW k \in 1 .. done
      PROVE  k \in 1 .. OUT /\ k \notin done + 1 .. done + rem
  BY <1>1
<1>3. ASSUME NEW k \in keylen + 1 .. OUT
      PROVE  k \in 1 .. OUT /\ k \notin done + 1 .. done + rem
  BY <1>1
<1> QED
  BY <1>2, <1>3 DEF IndInv, KeySoFar

LEMMA FirstBytes ==
  ASSUME NEW s, IsString(s, PBKDF2_MAX_DIGEST_LENGTH)
  PROVE  \A k \in 1 .. DIGEST_SZ : SubSeq(s, 1, DIGEST_SZ)[k] = s[k]
<1>1. SubSeq(s, 1, DIGEST_SZ) = [k \in 1 .. DIGEST_SZ |-> s[k]]
  BY Sizes, FirstOf
<1> QED
  BY <1>1

LEMMA CopyFirstKeeps ==
  ASSUME IndInv, CopyFirst
  PROVE  IndInv'
<1>1. /\ pc = "hmac_done" /\ out = "ut" /\ c' = 1 /\ pc' = "iterate"
      /\ dk' = [k \in 1 .. OUT |->
                  IF k \in done + 1 .. done + rem THEN ut[k - done] ELSE dk[k]]
      /\ pass' = pass /\ salt' = salt /\ keylen' = keylen /\ iterations' = iterations
      /\ done' = done /\ dklen' = dklen /\ ut' = ut /\ ux' = ux
      /\ rem' = rem /\ i' = i /\ saltp' = saltp
  BY DEF CopyFirst, Placed, args, hmac
<1>2. msg = salt \o INT(i) /\ SubSeq(ut, 1, DIGEST_SZ) = HMAC(pass, msg)
  BY <1>1 DEF IndInv, CallInv, HmacRight, Calling
<1>3. SubSeq(ut, 1, DIGEST_SZ) = This[1]
  <2>1. This[1] = HMAC(pass, salt \o INT(i))
    BY UIs, SMT DEF This
  <2> QED
    BY <1>2, <2>1, Zenon
<1>4. /\ \A k \in done + 1 .. done + rem : dk'[k] = ut[k - done]
      /\ \A k \in 1 .. OUT : k \notin done + 1 .. done + rem => dk'[k] = dk[k]
      /\ IsString(dk', OUT)
  <2> DEFINE f(k) == ut[k - done]
  <2>1. dk' = [k \in 1 .. OUT |-> IF k \in done + 1 .. done + rem THEN f(k) ELSE dk[k]]
    BY <1>1
  <2> HIDE DEF f
  <2>2. \A k \in done + 1 .. done + rem : dk'[k] = f(k)
    BY <1>1, <2>1, BlockInKey
  <2> QED
    BY <1>1, <2>1, <2>2 DEF f, IsString
<1>5. ASSUME NEW k \in done + 1 .. done + rem
      PROVE  dk'[k] = DerivedByte(1, k)
  <2>1. WalkInv /\ pc \in Calling \cup {"iterate"}
    BY <1>1 DEF IndInv, Calling
  <2>2. k - done \in 1 .. DIGEST_SZ
    BY <2>1, PlaceInBlock
  <2>3. DerivedByte(1, k) = XorAll(This)[1][k - done]
    BY <2>1, DerivedIs
  <2>4. XorAll(This)[1] = SubSeq(ut, 1, DIGEST_SZ)
    BY <1>3, XorAllIs
  <2>5. SubSeq(ut, 1, DIGEST_SZ)[k - done] = ut[k - done]
    BY <2>2, FirstBytes DEF IndInv, BuffersInv
  <2> QED
    BY <1>4, <2>3, <2>4, <2>5
<1>6. ArgsInv' /\ BuffersInv'
  BY <1>1, <1>4 DEF IndInv, ArgsInv, BuffersInv
<1>7. WalkInv'
  BY <1>1 DEF IndInv, WalkInv, Rem, PCs, Calling
<1>8. CallInv'
  <2>1. 1 <= iterations
    BY DEF IndInv, ArgsInv
  <2> QED
    BY <1>1, <1>3, <2>1 DEF CallInv, Calling, This
<1>9. HmacInv' /\ HmacRight' /\ BlockSoFar'
  BY <1>1 DEF HmacInv, HmacRight, BlockSoFar, Calling
<1>10. KeySoFar'
  <2>1. /\ \A k \in 1 .. done : dk'[k] = DerivedByte(iterations, k)
        /\ \A k \in keylen + 1 .. OUT : dk'[k] = Atom("dk", 0, k)
    BY <1>1, <1>4, RestOfKey DEF Calling
  <2> QED
    BY <1>1, <1>5, <2>1 DEF KeySoFar, DerivedByte
<1> QED
  BY <1>6, <1>7, <1>8, <1>9, <1>10 DEF IndInv

LEMMA IterateKeeps ==
  ASSUME IndInv, Iterate
  PROVE  IndInv'
<1>1. /\ pc = "iterate" /\ c < iterations /\ out' = "ux" /\ pc' = "key"
      /\ msg' = SubSeq(ut, 1, DIGEST_SZ)
      /\ pass' = pass /\ salt' = salt /\ keylen' = keylen /\ iterations' = iterations
      /\ dk' = dk /\ done' = done /\ dklen' = dklen /\ ut' = ut /\ ux' = ux
      /\ rem' = rem /\ i' = i /\ c' = c /\ saltp' = saltp
  BY DEF Iterate, Call, args, locals
<1>2. c > 0 /\ msg' = This[c]
  BY <1>1 DEF IndInv, CallInv
<1>3. ArgsInv' /\ BuffersInv'
  BY <1>1 DEF IndInv, ArgsInv, BuffersInv
<1>4. WalkInv'
  BY <1>1 DEF IndInv, WalkInv, Rem, PCs, Calling
<1>5. CallInv'
  BY <1>1, <1>2 DEF CallInv, Calling, This
<1>6. HmacInv' /\ HmacRight'
  BY <1>1 DEF HmacInv, HmacRight
<1>7. BlockSoFar' /\ KeySoFar'
  BY <1>1 DEF IndInv, BlockSoFar, KeySoFar, Calling, DerivedByte
<1> QED
  BY <1>3, <1>4, <1>5, <1>6, <1>7 DEF IndInv

LEMMA XorInKeeps ==
  ASSUME IndInv, XorIn
  PROVE  IndInv'
<1>1. /\ pc = "hmac_done" /\ out = "ux" /\ c' = c + 1 /\ pc' = "iterate"
      /\ dk' = [k \in 1 .. OUT |->
                  IF k \in done + 1 .. done + rem THEN Xor(dk[k], ux[k - done]) ELSE dk[k]]
      /\ pass' = pass /\ salt' = salt /\ keylen' = keylen /\ iterations' = iterations
      /\ done' = done /\ dklen' = dklen /\ ut' = ux /\ ux' = ux
      /\ rem' = rem /\ i' = i /\ saltp' = saltp
  BY DEF XorIn, XorInTo, Placed, args, hmac
<1>2. /\ c \in Nat \ {0} /\ c < iterations /\ msg = This[c]
      /\ SubSeq(ux, 1, DIGEST_SZ) = HMAC(pass, msg)
  BY <1>1 DEF IndInv, CallInv, HmacRight, Calling, WalkInv
<1>3. SubSeq(ux, 1, DIGEST_SZ) = This[c + 1]
  <2>1. This[c + 1] = HMAC(pass, This[c])
    <3>1. c \in Nat \ {0}
      BY <1>2
    <3> QED
      BY <3>1, UIs, SMT DEF This
  <2> QED
    BY <1>2, <2>1, Zenon
<1>4. /\ \A k \in done + 1 .. done + rem : dk'[k] = Xor(dk[k], ux[k - done])
      /\ \A k \in 1 .. OUT : k \notin done + 1 .. done + rem => dk'[k] = dk[k]
      /\ IsString(dk', OUT)
  <2> DEFINE f(k) == Xor(dk[k], ux[k - done])
  <2>1. dk' = [k \in 1 .. OUT |-> IF k \in done + 1 .. done + rem THEN f(k) ELSE dk[k]]
    BY <1>1
  <2> HIDE DEF f
  <2>2. \A k \in done + 1 .. done + rem : dk'[k] = f(k)
    BY <1>1, <2>1, BlockInKey
  <2> QED
    BY <1>1, <2>1, <2>2 DEF f, IsString
<1>5. ASSUME NEW k \in done + 1 .. done + rem
      PROVE  dk'[k] = DerivedByte(c + 1, k)
  <2> DEFINE p == k - done
  <2>1. WalkInv /\ pc \in Calling \cup {"iterate"}
    BY <1>1 DEF IndInv, Calling
  <2>2. p \in 1 .. DIGEST_SZ
    BY <2>1, PlaceInBlock
  <2>3. /\ DerivedByte(c + 1, k) = XorAll(This)[c + 1][p]
        /\ DerivedByte(c, k) = XorAll(This)[c][p]
    BY <2>1, DerivedIs
  <2>4. dk[k] = DerivedByte(c, k)
    BY <1>1 DEF IndInv, BlockSoFar, Calling
  <2>5. XorAll(This)[c + 1] = BytesXor(XorAll(This)[c], This[c + 1])
    BY <1>2, XorAllIs
  <2>6. This[c + 1][p] = ux[p]
    BY <1>3, <2>2, FirstBytes DEF IndInv, BuffersInv
  <2>7. BytesXor(XorAll(This)[c], This[c + 1])[p] = Xor(XorAll(This)[c][p], This[c + 1][p])
    BY <2>2 DEF BytesXor
  <2>8. dk'[k] = Xor(dk[k], ux[p])
    BY <1>4
  <2> QED
    BY <2>3, <2>4, <2>5, <2>6, <2>7, <2>8
<1>6. ArgsInv' /\ BuffersInv'
  BY <1>1, <1>4 DEF IndInv, ArgsInv, BuffersInv
<1>7. WalkInv'
  BY <1>1 DEF IndInv, WalkInv, Rem, PCs, Calling
<1>8. CallInv'
  <2>1. c + 1 > 0 /\ c + 1 <= iterations
    BY <1>2 DEF IndInv, ArgsInv
  <2> QED
    BY <1>1, <1>3, <2>1 DEF CallInv, Calling, This
<1>9. HmacInv' /\ HmacRight' /\ BlockSoFar'
  BY <1>1 DEF HmacInv, HmacRight, BlockSoFar, Calling
<1>10. KeySoFar'
  <2>1. /\ \A k \in 1 .. done : dk'[k] = DerivedByte(iterations, k)
        /\ \A k \in keylen + 1 .. OUT : dk'[k] = Atom("dk", 0, k)
    BY <1>1, <1>4, RestOfKey DEF Calling
  <2> QED
    BY <1>1, <1>5, <2>1 DEF KeySoFar, DerivedByte
<1> QED
  BY <1>6, <1>7, <1>8, <1>9, <1>10 DEF IndInv

LEMMA BlockDoneKeeps ==
  ASSUME IndInv, BlockDone
  PROVE  IndInv'
<1>1. /\ pc = "iterate" /\ c >= iterations /\ pc' = "block"
      /\ done' = done + rem /\ dklen' = dklen - rem
      /\ pass' = pass /\ salt' = salt /\ keylen' = keylen /\ iterations' = iterations
      /\ dk' = dk /\ ut' = ut /\ ux' = ux
      /\ rem' = rem /\ i' = i /\ c' = c /\ saltp' = saltp
  BY DEF BlockDone, args
<1>2. c = iterations
  BY <1>1 DEF IndInv, CallInv, WalkInv, ArgsInv
<1>3. ArgsInv' /\ BuffersInv'
  BY <1>1 DEF IndInv, ArgsInv, BuffersInv
<1>4. /\ done \in Nat /\ rem \in Nat /\ dklen \in Nat /\ done + dklen = keylen
      /\ i \in Nat /\ i > 0 /\ c \in Nat
      /\ done = (i - 1) * DIGEST_SZ /\ rem = Rem
  BY <1>1 DEF IndInv, WalkInv
<1>5. WalkInv'
  <2>1. done' \in Nat /\ dklen' \in Nat /\ done' + dklen' = keylen'
    BY <1>1, <1>4, Sizes DEF Rem
  <2>2. dklen' = 0 \/ done' = i * DIGEST_SZ
    <3>1. CASE dklen < DIGEST_SZ
      BY <1>1, <1>4, <3>1 DEF Rem
    <3>2. CASE ~(dklen < DIGEST_SZ)
      <4>1. done' = (i - 1) * DIGEST_SZ + DIGEST_SZ
        BY <1>1, <1>4, <3>2 DEF Rem
      <4> QED
        BY <1>4, <4>1, Sizes
    <3> QED
      BY <3>1, <3>2
  <2> QED
    BY <1>1, <1>4, <2>1, <2>2 DEF WalkInv, PCs, Calling
<1>6. CallInv' /\ HmacInv' /\ HmacRight' /\ BlockSoFar'
  BY <1>1 DEF CallInv, HmacInv, HmacRight, BlockSoFar, Calling
<1>7. KeySoFar'
  <2>1. ASSUME NEW k \in 1 .. done + rem
        PROVE  dk[k] = DerivedByte(iterations, k)
    <3>1. k \in 1 .. done \/ k \in done + 1 .. done + rem
      BY <1>4
    <3> QED
      BY <1>1, <1>2, <3>1 DEF IndInv, KeySoFar
  <2>2. \A k \in keylen + 1 .. OUT : dk[k] = Atom("dk", 0, k)
    BY DEF IndInv, KeySoFar
  <2> QED
    BY <1>1, <2>1, <2>2 DEF KeySoFar, DerivedByte
<1> QED
  BY <1>3, <1>5, <1>6, <1>7 DEF IndInv

LEMMA ReturnKeeps ==
  ASSUME IndInv, Return
  PROVE  IndInv'
<1>1. /\ pc = "block" /\ dklen <= 0 /\ pc' = "done"
      /\ pass' = pass /\ salt' = salt /\ keylen' = keylen /\ iterations' = iterations
      /\ dk' = dk /\ done' = done /\ dklen' = dklen /\ ut' = ut /\ ux' = ux
      /\ rem' = rem /\ i' = i /\ c' = c /\ saltp' = saltp
  BY DEF Return, ReturnIf, args, locals
<1>2. ArgsInv' /\ BuffersInv'
  BY <1>1 DEF IndInv, ArgsInv, BuffersInv
<1>3. WalkInv'
  BY <1>1 DEF IndInv, WalkInv, PCs, Calling
<1>4. CallInv' /\ HmacInv' /\ HmacRight' /\ BlockSoFar'
  BY <1>1 DEF CallInv, HmacInv, HmacRight, BlockSoFar, Calling
<1>5. KeySoFar'
  BY <1>1 DEF IndInv, KeySoFar, DerivedByte
<1> QED
  BY <1>2, <1>3, <1>4, <1>5 DEF IndInv

LEMMA StutterKeeps ==
  ASSUME IndInv, UNCHANGED vars
  PROVE  IndInv'
<1>1. /\ pc' = pc
      /\ pass' = pass /\ salt' = salt /\ keylen' = keylen /\ iterations' = iterations
      /\ dk' = dk /\ done' = done /\ dklen' = dklen /\ ut' = ut /\ ux' = ux
      /\ rem' = rem /\ i' = i /\ c' = c /\ saltp' = saltp
      /\ out' = out /\ msg' = msg /\ ipad' = ipad /\ opad' = opad
  BY DEF vars, args, locals, hmac
<1>2. ArgsInv' /\ BuffersInv'
  BY <1>1 DEF IndInv, ArgsInv, BuffersInv
<1>3. WalkInv'
  BY <1>1 DEF IndInv, WalkInv, Rem, PCs, Calling
<1>4. CallInv' /\ HmacInv' /\ HmacRight'
  BY <1>1 DEF IndInv, CallInv, HmacInv, HmacRight, Calling, This
<1>5. BlockSoFar' /\ KeySoFar'
  BY <1>1 DEF IndInv, BlockSoFar, KeySoFar, Calling, DerivedByte
<1> QED
  BY <1>2, <1>3, <1>4, <1>5 DEF IndInv
-----------------------------------------------------------------------------
(* The inductive invariant of pbkdf2 and the HMACs that it calls holds for  *)
(* all lengths and any number of iterations.                                *)
THEOREM Invariance == Spec => []IndInv
<1>1. Init => IndInv
  BY Initially
<1>2. IndInv /\ [Next]_vars => IndInv'
  <2> SUFFICES ASSUME IndInv, [Next]_vars
               PROVE  IndInv'
    OBVIOUS
  <2>1. CASE NextBlock
    BY <2>1, NextBlockKeeps
  <2>2. CASE HmacKey \/ HmacInner \/ HmacOuter
    BY <2>2, HmacKeyKeeps, HmacInnerKeeps, HmacOuterKeeps
  <2>3. CASE CopyFirst \/ Iterate \/ XorIn
    BY <2>3, CopyFirstKeeps, IterateKeeps, XorInKeeps
  <2>4. CASE BlockDone \/ Return
    BY <2>4, BlockDoneKeeps, ReturnKeeps
  <2>5. CASE UNCHANGED vars
    BY <2>5, StutterKeeps
  <2> QED
    BY <2>1, <2>2, <2>3, <2>4, <2>5 DEF Next
<1> QED
  BY <1>1, <1>2, PTL DEF Spec

(* What rmd160_hmac and sha512_hmac leave in the caller's buffer is the HMAC *)
(* of RFC 2104, for passphrases of every length, below and above a block.    *)
THEOREM HmacIsRight == Spec => []HmacRight
<1>1. IndInv => HmacRight
  BY DEF IndInv
<1> QED
  BY <1>1, Invariance, PTL

(* pbkdf2 derives the key of RFC 2898 and writes nothing beyond it, also     *)
(* when the key ends within a block.                                        *)
THEOREM KeyIsRight == Spec => []KeySoFar
<1>1. IndInv => KeySoFar
  BY DEF IndInv
<1> QED
  BY <1>1, Invariance, PTL
=============================================================================
