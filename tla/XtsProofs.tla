-------------------------------- MODULE XtsProofs --------------------------------
(***************************************************************************)
(* Proofs about XTS mode, for every size of a block and a byte, every      *)
(* polynomial, and any number of calls, and about AES-256, for every key   *)
(* and block and any number of calls in any order.                         *)
(***************************************************************************)
EXTENDS Xts, Aes256, SequenceTheorems, WellFoundedInduction, TLAPS

(* Induction: a set that has 0, and n + 1 with n, has every number. *)
LEMMA SetInduction ==
  ASSUME NEW S, 0 \in S, \A n \in Nat : n \in S => n + 1 \in S
  PROVE  Nat \subseteq S
<1> SUFFICES ASSUME Nat \ S # {} PROVE FALSE
  OBVIOUS
<1> DEFINE R == {ss \in Nat \X Nat : ss[1] < ss[2]}
<1>1. IsWellFoundedOn(R, Nat)
  BY NatLessThanWellFounded DEF OpToRel
<1>2. PICK n \in Nat \ S : \A m \in Nat \ S : ~(<<m, n>> \in R)
  BY <1>1, WFMin
<1>3. n - 1 \in Nat /\ n - 1 < n
  BY <1>2
<1>4. <<n - 1, n>> \in R
  BY <1>3
<1>5. n - 1 \in S
  BY <1>2, <1>3, <1>4
<1> QED
  BY <1>2, <1>3, <1>5

-----------------------------------------------------------------------------
(* Polynomials: the powers of x that Alpha has, by steps from p on. *)
Polys == SUBSET (0 .. Degree - 1)

LEMMA Sizes ==
  /\ blk_sz \in Nat /\ blk_sz > 0 /\ BITS \in Nat /\ BITS > 0
  /\ Degree \in Nat /\ Degree >= BITS /\ Degree > 0
  /\ XTS_ALPHA \subseteq 0 .. BITS - 1 /\ 0 \in XTS_ALPHA
<1>1. blk_sz \in Nat /\ blk_sz > 0 /\ BITS \in Nat /\ BITS > 0
  BY XtsAssumption
<1>2. blk_sz * BITS = (blk_sz - 1) * BITS + BITS /\ (blk_sz - 1) * BITS >= 0
  BY <1>1
<1>3. (blk_sz - 1) * BITS \in Int
  BY <1>1
<1> QED
  BY <1>1, <1>2, <1>3, XtsAssumption DEF Degree

(* The product with x, coefficient by coefficient. *)
LEMMA TimesXIs ==
  ASSUME NEW p \in Polys
  PROVE  /\ TimesX(p) \in Polys
         /\ \A e \in 0 .. Degree - 1 :
              e \in TimesX(p) <=>
                ~((e > 0 /\ e - 1 \in p) <=> (Degree - 1 \in p /\ e \in XTS_ALPHA))
<1> DEFINE up == {e + 1 : e \in p}
           wrap == IF Degree - 1 \in p THEN XTS_ALPHA \cup {Degree} ELSE {}
<1>1. TimesX(p) = (up \ wrap) \cup (wrap \ up)
  BY DEF TimesX, Xor
<1>2. /\ \A e \in 0 .. Degree - 1 : e \in up <=> e > 0 /\ e - 1 \in p
      /\ Degree \in up <=> Degree - 1 \in p
      /\ up \subseteq 0 .. Degree
  BY Sizes DEF Polys
<1>3. /\ \A e \in 0 .. Degree - 1 : e \in wrap <=> Degree - 1 \in p /\ e \in XTS_ALPHA
      /\ Degree \in wrap <=> Degree - 1 \in p
      /\ wrap \subseteq 0 .. Degree
  BY Sizes
<1> HIDE DEF up, wrap
<1>4. TimesX(p) \in Polys
  <2>1. TimesX(p) \subseteq (0 .. Degree) \ {Degree}
    BY <1>1, <1>2, <1>3
  <2>2. (0 .. Degree) \ {Degree} = 0 .. Degree - 1
    BY Sizes
  <2> QED
    BY <2>1, <2>2 DEF Polys
<1> QED
  BY <1>1, <1>2, <1>3, <1>4

(* It can be undone, since the polynomial has the power 0. *)
LEMMA TimesXInjective ==
  ASSUME NEW p \in Polys, NEW q \in Polys, TimesX(p) = TimesX(q)
  PROVE  p = q
<1>1. 0 \in 0 .. Degree - 1 /\ 0 \in XTS_ALPHA
  BY Sizes
<1>2. Degree - 1 \in p <=> Degree - 1 \in q
  BY <1>1, TimesXIs
<1>3. ASSUME NEW e \in 0 .. Degree - 1
      PROVE  e \in p <=> e \in q
  <2>1. CASE e = Degree - 1
    BY <1>2, <2>1
  <2>2. CASE e # Degree - 1
    <3>1. e + 1 \in 0 .. Degree - 1 /\ e + 1 > 0 /\ (e + 1) - 1 = e
      BY <2>2, Sizes
    <3>2. /\ e + 1 \in TimesX(p) <=>
               ~(e \in p <=> (Degree - 1 \in p /\ e + 1 \in XTS_ALPHA))
          /\ e + 1 \in TimesX(q) <=>
               ~(e \in q <=> (Degree - 1 \in q /\ e + 1 \in XTS_ALPHA))
      BY <3>1, TimesXIs
    <3> QED
      BY <1>2, <3>2
  <2> QED
    BY <2>1, <2>2
<1> QED
  BY <1>3 DEF Polys

Powers(w, n, p) == w[0] = p /\ \A j \in 1 .. n : w[j] = TimesX(w[j - 1])

LEMMA PowersExist ==
  ASSUME NEW p
  PROVE  \A n \in Nat : \E w : Powers(w, n, p)
<1> DEFINE S == {n \in Nat : \E w : Powers(w, n, p)}
<1>1. 0 \in S
  <2>1. Powers([j \in {0} |-> p], 0, p)
    BY DEF Powers
  <2> QED
    BY <2>1
<1>2. ASSUME NEW n \in Nat, n \in S
      PROVE  n + 1 \in S
  <2>1. PICK w : Powers(w, n, p)
    BY <1>2
  <2> DEFINE v == [j \in 0 .. n + 1 |-> IF j = n + 1 THEN TimesX(w[n]) ELSE w[j]]
  <2>2. v[0] = p
    BY <2>1 DEF Powers
  <2>3. ASSUME NEW j \in 1 .. n + 1
        PROVE  v[j] = TimesX(v[j - 1])
    <3>1. v[j - 1] = w[j - 1]
      OBVIOUS
    <3>2. CASE j = n + 1
      BY <3>1, <3>2
    <3>3. CASE j # n + 1
      <4>1. j \in 1 .. n /\ v[j] = w[j]
        BY <3>3
      <4> QED
        BY <2>1, <3>1, <4>1 DEF Powers
    <3> QED
      BY <3>2, <3>3
  <2>4. Powers(v, n + 1, p)
    BY <2>2, <2>3 DEF Powers
  <2> QED
    BY <2>4
<1>3. Nat \subseteq S
  BY <1>1, <1>2, SetInduction
<1> QED
  BY <1>3

LEMMA PowersUnique ==
  ASSUME NEW w, NEW v, NEW p, NEW n \in Nat, Powers(w, n, p), Powers(v, n, p)
  PROVE  w[n] = v[n]
<1> DEFINE S == {k \in Nat : k <= n => w[k] = v[k]}
<1>1. 0 \in S
  BY DEF Powers
<1>2. ASSUME NEW k \in Nat, k \in S
      PROVE  k + 1 \in S
  <2> SUFFICES ASSUME k + 1 <= n
               PROVE  w[k + 1] = v[k + 1]
    OBVIOUS
  <2>1. k + 1 \in 1 .. n /\ (k + 1) - 1 = k /\ w[k] = v[k]
    BY <1>2
  <2> QED
    BY <2>1 DEF Powers
<1>3. Nat \subseteq S
  BY <1>1, <1>2, SetInduction
<1> QED
  BY <1>3

(* So the recursion that defines Alpha has a solution. *)
LEMMA AlphaIs ==
  ASSUME NEW p
  PROVE  /\ Alpha(p)[0] = p
         /\ \A n \in Nat : Alpha(p)[n + 1] = TimesX(Alpha(p)[n])
<1> DEFINE Of(n) == CHOOSE w : Powers(w, n, p)
           A == [n \in Nat |-> Of(n)[n]]
           Once(f) == [n \in Nat |-> IF n = 0 THEN p ELSE TimesX(f[n - 1])]
<1>1. \A n \in Nat : Powers(Of(n), n, p)
  BY PowersExist
<1> HIDE DEF Of
<1>2. ASSUME NEW n \in Nat, n # 0
      PROVE  Of(n)[n] = TimesX(A[n - 1])
  <2>1. n - 1 \in Nat /\ n \in 1 .. n
    BY <1>2
  <2>2. Powers(Of(n), n, p) /\ Powers(Of(n - 1), n - 1, p)
    BY <1>1, <2>1
  <2>3. Powers(Of(n), n - 1, p)
    BY <2>1, <2>2 DEF Powers
  <2>4. Of(n)[n - 1] = Of(n - 1)[n - 1]
    BY <2>1, <2>2, <2>3, PowersUnique
  <2>5. A[n - 1] = Of(n - 1)[n - 1]
    BY <2>1
  <2> QED
    BY <2>1, <2>2, <2>4, <2>5 DEF Powers
<1>3. Of(0)[0] = p
  BY <1>1 DEF Powers
<1>4. A = Once(A)
  BY <1>2, <1>3
<1>5. Alpha(p) = CHOOSE f : f = Once(f)
  BY DEF Alpha
<1>6. Alpha(p) = Once(Alpha(p))
  BY <1>4, <1>5
<1> QED
  BY <1>6

LEMMA PowersArePolys ==
  ASSUME NEW p \in Polys
  PROVE  \A n \in Nat : Alpha(p)[n] \in Polys
<1> DEFINE S == {n \in Nat : Alpha(p)[n] \in Polys}
<1>1. 0 \in S
  BY AlphaIs
<1>2. ASSUME NEW n \in Nat, n \in S
      PROVE  n + 1 \in S
  BY <1>2, AlphaIs, TimesXIs
<1>3. Nat \subseteq S
  BY <1>1, <1>2, SetInduction
<1> QED
  BY <1>3

LEMMA PowersInjective ==
  ASSUME NEW p \in Polys, NEW q \in Polys
  PROVE  \A n \in Nat : Alpha(p)[n] = Alpha(q)[n] => p = q
<1> DEFINE S == {n \in Nat : Alpha(p)[n] = Alpha(q)[n] => p = q}
<1>1. 0 \in S
  BY AlphaIs
<1>2. ASSUME NEW n \in Nat, n \in S
      PROVE  n + 1 \in S
  <2>1. Alpha(p)[n] \in Polys /\ Alpha(q)[n] \in Polys
    BY PowersArePolys
  <2>2. /\ Alpha(p)[n + 1] = TimesX(Alpha(p)[n])
        /\ Alpha(q)[n + 1] = TimesX(Alpha(q)[n])
    BY AlphaIs
  <2> QED
    BY <1>2, <2>1, <2>2, TimesXInjective
<1>3. Nat \subseteq S
  BY <1>1, <1>2, SetInduction
<1> QED
  BY <1>3

-----------------------------------------------------------------------------
(* Tweaks: bit r of byte n is the coefficient of the power n * BITS + r. *)
Tweaks == [0 .. blk_sz - 1 -> SUBSET (0 .. BITS - 1)]

LEMMA PlaceIs ==
  ASSUME NEW n \in 0 .. blk_sz - 1, NEW r \in 0 .. BITS - 1
  PROVE  /\ n * BITS + r \in 0 .. Degree - 1
         /\ (n * BITS + r) \div BITS = n
         /\ (n * BITS + r) % BITS = r
<1> DEFINE e == n * BITS + r
           d == e \div BITS
           m == e % BITS
<1>1. n * BITS \in Nat /\ e \in Nat
  BY Sizes
<1>2. d \in Int /\ m \in 0 .. BITS - 1 /\ e = d * BITS + m
  BY <1>1, Sizes
<1>3. e < Degree
  <2>1. (n + 1) * BITS <= blk_sz * BITS /\ (n + 1) * BITS = n * BITS + BITS
    BY Sizes
  <2> QED
    BY <1>1, <2>1, Sizes DEF Degree
<1>4. d = n
  <2> HIDE DEF d, m
  <2>1. ASSUME d >= n + 1
        PROVE  FALSE
    <3>1. d * BITS >= (n + 1) * BITS /\ (n + 1) * BITS = n * BITS + BITS /\ d * BITS \in Int
      BY <1>2, <2>1, Sizes
    <3> QED
      BY <1>1, <1>2, <3>1, Sizes
  <2>2. ASSUME n >= d + 1
        PROVE  FALSE
    <3>1. n * BITS >= (d + 1) * BITS /\ (d + 1) * BITS = d * BITS + BITS /\ d * BITS \in Int
      BY <1>2, <2>2, Sizes
    <3> QED
      BY <1>1, <1>2, <3>1, Sizes
  <2> QED
    BY <1>2, <2>1, <2>2
<1>5. m = r
  <2> HIDE DEF d, m
  <2> QED
    BY <1>1, <1>2, <1>4, Sizes
<1>6. e \in 0 .. Degree - 1
  BY <1>1, <1>3, Sizes
<1> QED
  BY <1>4, <1>5, <1>6

LEMMA ExponentIs ==
  ASSUME NEW e \in 0 .. Degree - 1
  PROVE  \E n \in 0 .. blk_sz - 1, r \in 0 .. BITS - 1 : e = n * BITS + r
<1> DEFINE d == e \div BITS
           m == e % BITS
<1>1. d \in Int /\ m \in 0 .. BITS - 1 /\ e = d * BITS + m
  BY Sizes
<1>2. e \in Nat /\ e < blk_sz * BITS
  BY Sizes DEF Degree
<1> HIDE DEF d, m
<1>3. ASSUME d < 0
      PROVE  FALSE
  <2>1. (d + 1) * BITS <= 0 /\ (d + 1) * BITS = d * BITS + BITS /\ d * BITS \in Int
    BY <1>1, <1>3, Sizes
  <2> QED
    BY <1>1, <1>2, <2>1, Sizes
<1>4. ASSUME d >= blk_sz
      PROVE  FALSE
  <2>1. d * BITS >= blk_sz * BITS /\ d * BITS \in Int /\ blk_sz * BITS \in Int
    BY <1>1, <1>4, Sizes
  <2> QED
    BY <1>1, <1>2, <2>1, Sizes
<1>5. d \in 0 .. blk_sz - 1
  BY <1>1, <1>3, <1>4, Sizes
<1> QED
  BY <1>1, <1>5

LEMMA PolyIs ==
  ASSUME NEW t
  PROVE  /\ Poly(t) \in Polys
         /\ \A n \in 0 .. blk_sz - 1, r \in 0 .. BITS - 1 :
              n * BITS + r \in Poly(t) <=> r \in t[n]
BY PlaceIs DEF Poly, Polys

LEMMA PolyInjective ==
  ASSUME NEW t \in Tweaks, NEW u \in Tweaks, Poly(t) = Poly(u)
  PROVE  t = u
<1>1. ASSUME NEW n \in 0 .. blk_sz - 1
      PROVE  t[n] = u[n]
  <2>1. t[n] \subseteq 0 .. BITS - 1 /\ u[n] \subseteq 0 .. BITS - 1
    BY DEF Tweaks
  <2>2. \A r \in 0 .. BITS - 1 : r \in t[n] <=> r \in u[n]
    BY PolyIs
  <2> QED
    BY <2>1, <2>2
<1>2. /\ t = [n \in 0 .. blk_sz - 1 |-> t[n]]
      /\ u = [n \in 0 .. blk_sz - 1 |-> u[n]]
  BY DEF Tweaks
<1> QED
  BY <1>1, <1>2, Zenon

LEMMA PolyOnto ==
  ASSUME NEW p \in Polys
  PROVE  \E t \in Tweaks : Poly(t) = p
<1> DEFINE t == [n \in 0 .. blk_sz - 1 |-> {r \in 0 .. BITS - 1 : n * BITS + r \in p}]
<1>1. t \in Tweaks
  BY DEF Tweaks
<1>2. ASSUME NEW e \in 0 .. Degree - 1
      PROVE  e \in Poly(t) <=> e \in p
  <2>1. PICK n \in 0 .. blk_sz - 1, r \in 0 .. BITS - 1 : e = n * BITS + r
    BY ExponentIs
  <2>2. e \in Poly(t) <=> r \in t[n]
    BY <2>1, PolyIs
  <2> QED
    BY <2>1, <2>2
<1>3. Poly(t) = p
  BY <1>2, PolyIs DEF Polys
<1> QED
  BY <1>1, <1>3

-----------------------------------------------------------------------------
(* A call, and the tweak it has for a block.                               *)
Ways == {"encrypt", "decrypt"}
KeysSet == Keys \X (KeyLens \cap {32, 64})
Calls == Ways \X KeysSet \X Ivs
First1(call) == CipherKey(call[2][1], 0)
First2(call) == First(CipherKey(call[2][1], call[2][2] \div 2), call[3])
TweakOf(call, b) == CHOOSE t \in Tweaks : Poly(t) = Alpha(Poly(First2(call)))[b]

LEMMA TweakOfIs ==
  ASSUME NEW call, NEW b \in Nat
  PROVE  /\ TweakOf(call, b) \in Tweaks
         /\ Poly(TweakOf(call, b)) = Alpha(Poly(First2(call)))[b]
         /\ \A t \in Tweaks : Poly(t) = Alpha(Poly(First2(call)))[b] => t = TweakOf(call, b)
<1>1. Alpha(Poly(First2(call)))[b] \in Polys
  BY PolyIs, PowersArePolys
<1>2. \E t \in Tweaks : Poly(t) = Alpha(Poly(First2(call)))[b]
  BY <1>1, PolyOnto
<1>3. /\ TweakOf(call, b) \in Tweaks
      /\ Poly(TweakOf(call, b)) = Alpha(Poly(First2(call)))[b]
  BY <1>2 DEF TweakOf
<1> QED
  BY <1>3, PolyInjective

LEMMA CallIs ==
  ASSUME NEW call \in Calls
  PROVE  /\ call = <<call[1], call[2], call[3]>>
         /\ call[1] \in Ways /\ call[2] \in KeysSet /\ call[3] \in Ivs
         /\ call[2] = <<call[2][1], call[2][2]>>
         /\ call[2][1] \in Keys /\ call[2][2] \in KeyLens /\ call[2][2] \in {32, 64}
         /\ First1(call) \in CipherKeys
         /\ CipherKey(call[2][1], call[2][2] \div 2) \in CipherKeys
         /\ First2(call) \in Tweaks
<1>1. /\ call = <<call[1], call[2], call[3]>>
      /\ call[1] \in Ways /\ call[2] \in KeysSet /\ call[3] \in Ivs
  BY DEF Calls
<1>2. /\ call[2] = <<call[2][1], call[2][2]>>
      /\ call[2][1] \in Keys /\ call[2][2] \in KeyLens /\ call[2][2] \in {32, 64}
  BY <1>1 DEF KeysSet
<1>3. First1(call) \in CipherKeys /\ CipherKey(call[2][1], call[2][2] \div 2) \in CipherKeys
  BY <1>2 DEF CipherKeys, First1
<1>4. First2(call) \in Tweaks
  BY <1>1, <1>3, XtsAssumption DEF First2, Tweaks
<1> QED
  BY <1>1, <1>2, <1>3, <1>4

(* Two calls with the same first key and the same tweak for one block have *)
(* the same key and sector: multiplying by x keeps tweaks apart.           *)
LEMMA TweaksApart ==
  ASSUME NEW call \in Calls, NEW other \in Calls, NEW b \in Nat,
         First1(call) = First1(other), TweakOf(call, b) = TweakOf(other, b)
  PROVE  call[2] = other[2] /\ call[3] = other[3]
<1>1. Poly(First2(call)) = Poly(First2(other))
  BY TweakOfIs, PowersInjective, PolyIs
<1>2. First2(call) = First2(other)
  BY <1>1, CallIs, PolyInjective
<1>3. /\ CipherKey(call[2][1], call[2][2] \div 2) = CipherKey(other[2][1], other[2][2] \div 2)
      /\ call[3] = other[3]
  BY <1>2, CallIs, XtsAssumption DEF First2
<1>4. call[2][1] = other[2][1] /\ call[2][2] \div 2 = other[2][2] \div 2
  BY <1>3 DEF CipherKey
<1>5. call[2][2] = other[2][2]
  BY <1>4, CallIs
<1> QED
  BY <1>3, <1>4, <1>5, CallIs

-----------------------------------------------------------------------------
(* What a call makes of a block, and the cipher on the way.                *)
Crypted(call, b, x) ==
  Xor(Made(call[1], First1(call), Xor(x, T(TweakOf(call, b)))), T(TweakOf(call, b)))
Result(call, b, x) ==
  Xor(Cipher(call[1], First1(call), Xor(x, T(TweakOf(call, b)))), T(TweakOf(call, b)))

LEMMA XorTwice ==
  ASSUME NEW x, NEW y
  PROVE  Xor(Xor(x, y), y) = x
BY DEF Xor

LEMMA WaysBack ==
  ASSUME NEW h \in Ways
  PROVE  Opposite(h) \in Ways /\ Opposite(Opposite(h)) = h /\ Opposite(h) # h
BY DEF Ways, Opposite

(* Plaintext is not the cipher's, and no tweak is. *)
LEMMA PlainCrypted ==
  ASSUME NEW call, NEW b
  PROVE  Result(call, b, Plain(b)) = Crypted(call, b, Plain(b))
<1> DEFINE t == TweakOf(call, b)
           x == Xor(Plain(b), T(t))
<1> HIDE DEF t
<1>1. <<"plain", b>> # <<"tweak", t>>
  OBVIOUS
<1>2. x = {<<"plain", b>>, <<"tweak", t>>}
  BY <1>1 DEF Xor, Plain, T
<1> HIDE DEF x
<1>3. \A term : x # {term}
  <2>1. <<"plain", b>> \in x /\ <<"tweak", t>> \in x
    BY <1>2
  <2>2. ASSUME NEW term, x = {term}
        PROVE  FALSE
    <3>1. <<"plain", b>> = term /\ <<"tweak", t>> = term
      BY <2>1, <2>2, Zenon
    <3> QED
      BY <1>1, <3>1, Zenon
  <2> QED
    BY <2>2
<1>4. Cipher(call[1], First1(call), x) = Made(call[1], First1(call), x)
  BY <1>3 DEF Cipher
<1> QED
  BY <1>4 DEF Result, Crypted, t, x

(* The same tweak takes away the one on top of a crypted block, another    *)
(* stays beside it.                                                        *)
LEMMA OnTop ==
  ASSUME NEW call \in Calls, NEW top \in Calls, NEW b \in Nat, NEW y
  PROVE  LET x == Crypted(top, b, y)
         IN  Result(call, b, x) =
               IF top = <<Opposite(call[1]), call[2], call[3]>> THEN y ELSE Crypted(call, b, x)
<1> DEFINE t == TweakOf(call, b)
           u == TweakOf(top, b)
           z == Xor(y, T(u))
           made == <<top[1], First1(top), z>>
           x == Crypted(top, b, y)
           in == Xor(x, T(t))
           undone == top = <<Opposite(call[1]), call[2], call[3]>>
<1>1. x = Xor({made}, {<<"tweak", u>>})
  BY DEF Crypted, Made, T
<1> HIDE DEF x, t, u, z
<1>2. Len(made) = 3 /\ made[1] = top[1] /\ made[2] = First1(top) /\ made[3] = z
  OBVIOUS
<1>3. made # <<"tweak", u>> /\ made # <<"tweak", t>>
  <2>1. Len(<<"tweak", u>>) = 2 /\ Len(<<"tweak", t>>) = 2
    OBVIOUS
  <2> QED
    BY <1>2, <2>1
<1>4. <<"tweak", t>> = <<"tweak", u>> => t = u
  OBVIOUS
<1> HIDE DEF made
<1>5. x = {made, <<"tweak", u>>}
  BY <1>1, <1>3 DEF Xor
<1>6. t = u => in = {made}
  BY <1>3, <1>5 DEF Xor, T
<1>7. t # u => \A term \in in : in # {term}
  <2>1. t # u => in = {made, <<"tweak", u>>, <<"tweak", t>>}
    BY <1>3, <1>4, <1>5 DEF Xor, T
  <2> QED
    BY <1>3, <1>4, <2>1
<1> HIDE DEF in
<1>8. CASE undone
  <2>1. top[1] = Opposite(call[1]) /\ top[2] = call[2] /\ top[3] = call[3]
    BY <1>8
  <2>2. t = u /\ First1(top) = First1(call)
    BY <2>1 DEF TweakOf, First1, First2, t, u
  <2>3. in = {made} /\ made \in in
    BY <1>6, <2>2
  <2>4. Cipher(call[1], First1(call), in) = (CHOOSE term \in in : TRUE)[3]
    BY <1>2, <2>1, <2>2, <2>3 DEF Cipher
  <2>5. (CHOOSE term \in in : TRUE) = made
    BY <2>3
  <2>6. Cipher(call[1], First1(call), in) = z
    BY <1>2, <2>4, <2>5
  <2>7. Result(call, b, x) = Xor(z, T(t))
    BY <2>6 DEF Result, in, t
  <2> QED
    BY <1>8, <2>2, <2>7, XorTwice DEF z, x
<1>9. CASE ~undone
  <2>1. Cipher(call[1], First1(call), in) = Made(call[1], First1(call), in)
    <3>1. ASSUME NEW term \in in, in = {term}, Len(term) = 3,
                 term[1] = Opposite(call[1]), term[2] = First1(call)
          PROVE  FALSE
      <4>1. t = u
        BY <1>7, <3>1
      <4>2. term = made
        BY <1>6, <3>1, <4>1
      <4>3. First1(call) = First1(top) /\ top[1] = Opposite(call[1])
        BY <1>2, <3>1, <4>2
      <4>4. call[2] = top[2] /\ call[3] = top[3]
        BY <4>1, <4>3, TweaksApart DEF t, u
      <4> QED
        BY <1>9, <4>3, <4>4, CallIs
    <3> QED
      BY <3>1 DEF Cipher
  <2> QED
    BY <1>9, <2>1 DEF Result, Crypted, in, t, x
<1> QED
  BY <1>8, <1>9 DEF x

LEMMA NotPlain ==
  ASSUME NEW call, NEW b, NEW y
  PROVE  Crypted(call, b, y) # Plain(b)
<1> DEFINE t == TweakOf(call, b)
           made == <<call[1], First1(call), Xor(y, T(t))>>
<1>1. Crypted(call, b, y) = Xor({made}, {<<"tweak", t>>})
  BY DEF Crypted, Made, T
<1>2. Len(made) = 3 /\ Len(<<"tweak", t>>) = 2 /\ Len(<<"plain", b>>) = 2
  OBVIOUS
<1>3. made # <<"tweak", t>> /\ made # <<"plain", b>>
  BY <1>2
<1> HIDE DEF made, t
<1>4. made \in Crypted(call, b, y)
  BY <1>1, <1>3 DEF Xor
<1> QED
  BY <1>3, <1>4 DEF Plain

(* The content of a block that is under the calls of s. *)
IsUnder(s, b, x) ==
  \E w : /\ w[0] = Plain(b)
         /\ \A j \in 1 .. Len(s) : w[j] = Crypted(s[j], b, w[j - 1])
         /\ x = w[Len(s)]

LEMMA UnderNothing ==
  ASSUME NEW b, NEW x
  PROVE  IsUnder(<<>>, b, x) <=> x = Plain(b)
<1>1. Len(<<>>) = 0
  OBVIOUS
<1>2. ASSUME x = Plain(b)
      PROVE  IsUnder(<<>>, b, x)
  <2> DEFINE w == [j \in {0} |-> x]
  <2>1. w[0] = Plain(b) /\ x = w[Len(<<>>)] /\ \A j \in 1 .. Len(<<>>) : FALSE
    BY <1>1, <1>2
  <2> QED
    BY <2>1 DEF IsUnder
<1> QED
  BY <1>1, <1>2 DEF IsUnder

LEMMA UnderOneMore ==
  ASSUME NEW s \in Seq(Calls), NEW call \in Calls, NEW b, NEW x, IsUnder(s, b, x)
  PROVE  IsUnder(Append(s, call), b, Crypted(call, b, x))
<1> DEFINE n == Len(s)
           r == Append(s, call)
<1>1. PICK w : /\ w[0] = Plain(b)
               /\ \A j \in 1 .. n : w[j] = Crypted(s[j], b, w[j - 1])
               /\ x = w[n]
  BY DEF IsUnder
<1>2. n \in Nat /\ Len(r) = n + 1 /\ r[n + 1] = call /\ \A j \in 1 .. n : r[j] = s[j]
  OBVIOUS
<1> HIDE DEF n, r
<1> DEFINE v == [j \in 0 .. n + 1 |-> IF j = n + 1 THEN Crypted(call, b, x) ELSE w[j]]
<1>3. v[0] = Plain(b) /\ v[n + 1] = Crypted(call, b, x)
  BY <1>1, <1>2
<1>4. ASSUME NEW j \in 1 .. n + 1
      PROVE  v[j] = Crypted(r[j], b, v[j - 1])
  <2>1. v[j - 1] = w[j - 1]
    BY <1>2
  <2>2. CASE j = n + 1
    BY <1>1, <1>2, <2>1, <2>2
  <2>3. CASE j # n + 1
    <3>1. j \in 1 .. n /\ v[j] = w[j]
      BY <1>2, <2>3
    <3> QED
      BY <1>1, <1>2, <2>1, <3>1
  <2> QED
    BY <2>2, <2>3
<1> HIDE DEF v
<1> QED
  BY <1>2, <1>3, <1>4 DEF IsUnder, r

LEMMA UnderOneLess ==
  ASSUME NEW s \in Seq(Calls), s # <<>>, NEW b, NEW x, IsUnder(s, b, x)
  PROVE  \E y : /\ IsUnder(SubSeq(s, 1, Len(s) - 1), b, y)
                /\ x = Crypted(s[Len(s)], b, y)
<1> DEFINE n == Len(s)
           r == SubSeq(s, 1, n - 1)
<1>1. PICK w : /\ w[0] = Plain(b)
               /\ \A j \in 1 .. n : w[j] = Crypted(s[j], b, w[j - 1])
               /\ x = w[n]
  BY DEF IsUnder
<1>2. n \in Nat \ {0} /\ Len(r) = n - 1 /\ \A j \in 1 .. n - 1 : r[j] = s[j]
  <2>1. n \in Nat \ {0}
    OBVIOUS
  <2>2. n - 1 \in Int /\ \A j \in 1 .. n - 1 : s[j] \in Calls
    BY <2>1
  <2>3. /\ Len(r) = IF 1 <= n - 1 THEN (n - 1) - 1 + 1 ELSE 0
        /\ \A j \in 1 .. (n - 1) - 1 + 1 : r[j] = s[1 + j - 1]
    <3> HIDE DEF n
    <3> QED
      BY <2>2, SubSeqProperties
  <2> HIDE DEF n, r
  <2> QED
    BY <2>1, <2>3
<1> HIDE DEF n, r
<1>3. IsUnder(r, b, w[n - 1])
  BY <1>1, <1>2 DEF IsUnder
<1>4. x = Crypted(s[n], b, w[n - 1])
  BY <1>1, <1>2
<1> QED
  BY <1>3, <1>4 DEF n, r

(* One call more on a block: it undoes the last one or goes on top. *)
LEMMA CallOnBlock ==
  ASSUME under \in Seq(Calls), NEW call \in Calls, NEW b \in Nat, NEW x, IsUnder(under, b, x)
  PROVE  IsUnder(After(call), b, Result(call, b, x))
<1> DEFINE top == under[Len(under)]
           undone == top = <<Opposite(call[1]), call[2], call[3]>>
<1>1. CASE under = <<>>
  <2>1. x = Plain(b) /\ After(call) = Append(under, call)
    BY <1>1, UnderNothing DEF After
  <2> QED
    BY <2>1, PlainCrypted, UnderOneMore
<1>2. CASE under # <<>>
  <2>1. top \in Calls
    BY <1>2
  <2>2. PICK y : IsUnder(Before, b, y) /\ x = Crypted(top, b, y)
    BY <1>2, UnderOneLess DEF Before
  <2> HIDE DEF top
  <2>3. Result(call, b, x) = IF undone THEN y ELSE Crypted(call, b, x)
    BY <2>1, <2>2, OnTop
  <2>4. After(call) = IF undone THEN Before ELSE Append(under, call)
    BY <1>2 DEF After, top
  <2> HIDE DEF undone
  <2>5. CASE undone
    BY <2>2, <2>3, <2>4, <2>5
  <2>6. CASE ~undone
    BY <2>3, <2>4, <2>6, UnderOneMore
  <2> QED
    BY <2>5, <2>6
<1> QED
  BY <1>1, <1>2

-----------------------------------------------------------------------------
(* The inductive invariant.  The call under way, the blocks that it has    *)
(* crypted, and a tweak of which some bytes are those of the next.         *)
Call == <<how, key, iv>>
Crypt1 == (IF pc = "block" THEN 0 .. block - 1 ELSE {}) \cup (IF pc = "carry" THEN 0 .. block ELSE {})
NextByte(t, n) == Shl(t[n]) \cup (IF n > 0 /\ BITS - 1 \in t[n - 1] THEN {0} ELSE {})
OnTheWay(t) ==
  /\ Poly(t) = Alpha(Poly(First2(Call)))[block]
  /\ \A n \in 0 .. blk_sz - 1 : tweak[n] = IF n < i THEN NextByte(t, n) ELSE t[n]
  /\ carry_in <=> i > 0 /\ BITS - 1 \in t[i - 1]

TypeInv ==
  /\ pc \in {"idle", "block", "carry"}
  /\ length \in Nat
  /\ data = [b \in 0 .. Blocks - 1 |-> data[b]]
  /\ tweak \in Tweaks
  /\ under \in Seq(Calls)
KeyInv ==
  /\ key # NONE => /\ key \in KeysSet
                   /\ ctx1 = CipherKey(key[1], 0)
                   /\ ctx2 = CipherKey(key[1], key[2] \div 2)
  /\ pc # "idle" => /\ key # NONE
                    /\ Call \in Calls
                    /\ block \in 0 .. Blocks - 1
TweakInv ==
  /\ pc = "block" => Poly(tweak) = Alpha(Poly(First2(Call)))[block]
  /\ pc = "carry" => /\ i \in 0 .. blk_sz
                     /\ carry_in \in BOOLEAN
                     /\ \E t \in Tweaks : OnTheWay(t)
DataInv ==
  \A b \in 0 .. Blocks - 1 :
    IsUnder(IF b \in Crypt1 THEN After(Call) ELSE under, b, data[b])

IndInv == TypeInv /\ KeyInv /\ TweakInv /\ DataInv

-----------------------------------------------------------------------------
(* The loop over the bytes is the product with x. *)
LEMMA NextByteIs ==
  ASSUME NEW t \in Tweaks, NEW n \in 0 .. blk_sz - 1, NEW r \in 0 .. BITS - 1
  PROVE  /\ NextByte(t, n) \subseteq 0 .. BITS - 1
         /\ r \in NextByte(t, n) <=>
              n * BITS + r > 0 /\ (n * BITS + r) - 1 \in Poly(t)
<1> DEFINE e == n * BITS + r
<1>1. t[n] \subseteq 0 .. BITS - 1 /\ n * BITS \in Nat /\ e \in Nat
  BY Sizes DEF Tweaks
<1>2. NextByte(t, n) \subseteq 0 .. BITS - 1
  BY Sizes DEF NextByte, Shl
<1>3. CASE r > 0
  <2>1. r \in Shl(t[n]) <=> r - 1 \in t[n]
    BY <1>1, <1>3, Sizes DEF Shl
  <2>2. r - 1 \in 0 .. BITS - 1 /\ e - 1 = n * BITS + (r - 1) /\ e > 0
    BY <1>1, <1>3, Sizes
  <2>3. e - 1 \in Poly(t) <=> r - 1 \in t[n]
    BY <2>2, PolyIs
  <2>4. r \in NextByte(t, n) <=> r \in Shl(t[n])
    BY <1>3 DEF NextByte
  <2> QED
    BY <1>2, <2>1, <2>2, <2>3, <2>4
<1>4. CASE r = 0
  <2>1. 0 \notin Shl(t[n])
    BY <1>1 DEF Shl
  <2>2. r \in NextByte(t, n) <=> n > 0 /\ BITS - 1 \in t[n - 1]
    BY <1>4, <2>1 DEF NextByte
  <2>3. CASE n = 0
    <3>1. ~(e > 0)
      BY <1>4, <2>3, Sizes
    <3> QED
      BY <1>2, <2>2, <2>3, <3>1
  <2>4. CASE n # 0
    <3>1. n - 1 \in 0 .. blk_sz - 1 /\ BITS - 1 \in 0 .. BITS - 1 /\ n > 0
      BY <2>4, Sizes
    <3>2. (n - 1) * BITS = n * BITS - BITS /\ n * BITS >= BITS
      <4>1. n * BITS = (n - 1) * BITS + BITS /\ (n - 1) * BITS >= 0 /\ (n - 1) * BITS \in Int
        BY <3>1, Sizes
      <4> QED
        BY <1>1, <4>1, Sizes
    <3>3. e - 1 = (n - 1) * BITS + (BITS - 1) /\ e > 0
      BY <1>1, <1>4, <3>2, Sizes
    <3>4. e - 1 \in Poly(t) <=> BITS - 1 \in t[n - 1]
      BY <3>1, <3>3, PolyIs
    <3> QED
      BY <1>2, <2>2, <3>1, <3>3, <3>4
  <2> QED
    BY <2>3, <2>4
<1> QED
  BY <1>3, <1>4

LEMMA TweakTimesX ==
  ASSUME NEW t \in Tweaks, NEW u \in Tweaks,
         u[0] = IF BITS - 1 \in t[blk_sz - 1] THEN Xor(NextByte(t, 0), XTS_ALPHA)
                                              ELSE NextByte(t, 0),
         \A n \in 1 .. blk_sz - 1 : u[n] = NextByte(t, n)
  PROVE  Poly(u) = TimesX(Poly(t))
<1> DEFINE top == Degree - 1 \in Poly(t)
<1>1. top <=> BITS - 1 \in t[blk_sz - 1]
  <2>1. blk_sz - 1 \in 0 .. blk_sz - 1 /\ BITS - 1 \in 0 .. BITS - 1
    BY Sizes
  <2>2. Degree - 1 = (blk_sz - 1) * BITS + (BITS - 1)
    <3>1. blk_sz * BITS = (blk_sz - 1) * BITS + BITS /\ (blk_sz - 1) * BITS \in Int
      BY Sizes
    <3> QED
      BY <3>1, Sizes DEF Degree
  <2> QED
    BY <2>1, <2>2, PolyIs
<1>2. Poly(t) \in Polys /\ Poly(u) \in Polys /\ TimesX(Poly(t)) \in Polys
  BY PolyIs, TimesXIs
<1>3. ASSUME NEW e \in 0 .. Degree - 1
      PROVE  e \in Poly(u) <=> e \in TimesX(Poly(t))
  <2>1. PICK n \in 0 .. blk_sz - 1, r \in 0 .. BITS - 1 : e = n * BITS + r
    BY ExponentIs
  <2>2. e \in Poly(u) <=> r \in u[n]
    BY <2>1, PolyIs
  <2>3. r \in NextByte(t, n) <=> e > 0 /\ e - 1 \in Poly(t)
    BY <2>1, NextByteIs
  <2>4. e \in TimesX(Poly(t)) <=> ~((e > 0 /\ e - 1 \in Poly(t)) <=> (top /\ e \in XTS_ALPHA))
    BY <1>2, TimesXIs
  <2> HIDE DEF top
  <2>5. CASE n = 0
    <3>1. e = r
      BY <2>1, <2>5, Sizes
    <3>2. r \in u[0] <=> ~(r \in NextByte(t, 0) <=> (top /\ r \in XTS_ALPHA))
      BY <1>1 DEF Xor
    <3> QED
      BY <2>2, <2>3, <2>4, <2>5, <3>1, <3>2
  <2>6. CASE n # 0
    <3>1. n \in 1 .. blk_sz - 1
      BY <2>6
    <3>2. e \notin XTS_ALPHA
      <4>1. n * BITS = (n - 1) * BITS + BITS /\ (n - 1) * BITS >= 0 /\ (n - 1) * BITS \in Int
        BY <3>1, Sizes
      <4> QED
        BY <2>1, <4>1, Sizes
    <3> QED
      BY <2>2, <2>3, <2>4, <3>1, <3>2
  <2> QED
    BY <2>5, <2>6
<1> QED
  BY <1>2, <1>3 DEF Polys

-----------------------------------------------------------------------------
(* The steps. *)
LEMMA BlocksIs ==
  ASSUME length \in Nat
  PROVE  Blocks \in Nat /\ (length % blk_sz = 0 /\ length # 0 => Blocks > 0)
<1>1. /\ Blocks \in Int /\ length % blk_sz \in 0 .. blk_sz - 1
      /\ length = Blocks * blk_sz + (length % blk_sz)
  BY Sizes DEF Blocks
<1> DEFINE m == length % blk_sz
           q == Blocks
<1> HIDE DEF m, q
<1>2. q \in Int /\ m \in 0 .. blk_sz - 1 /\ length = q * blk_sz + m
  BY <1>1 DEF m, q
<1>3. ASSUME q < 0
      PROVE  FALSE
  <2>1. (q + 1) * blk_sz <= 0 /\ (q + 1) * blk_sz = q * blk_sz + blk_sz /\ q * blk_sz \in Int
    BY <1>2, <1>3, Sizes
  <2> QED
    BY <1>2, <2>1, Sizes
<1>4. q = 0 /\ m = 0 => length = 0
  BY <1>2, Sizes
<1> QED
  BY <1>2, <1>3, <1>4 DEF m, q

LEMMA Initially == Init => IndInv
<1> SUFFICES ASSUME Init
             PROVE  IndInv
  OBVIOUS
<1>1. /\ pc = "idle" /\ key = NONE /\ length \in Lengths /\ under = <<>>
      /\ data = [b \in 0 .. Blocks - 1 |-> Plain(b)]
      /\ tweak = [n \in 0 .. blk_sz - 1 |-> {}]
  BY DEF Init
<1>2. TypeInv
  <2>1. data = [b \in 0 .. Blocks - 1 |-> data[b]]
    BY <1>1
  <2>2. length \in Nat
    BY <1>1, XtsAssumption
  <2>3. tweak \in Tweaks
    BY <1>1 DEF Tweaks
  <2> QED
    BY <1>1, <2>1, <2>2, <2>3 DEF TypeInv
<1>3. KeyInv /\ TweakInv
  BY <1>1 DEF KeyInv, TweakInv
<1>4. DataInv
  BY <1>1, UnderNothing DEF DataInv, Crypt1
<1> QED
  BY <1>2, <1>3, <1>4 DEF IndInv

LEMMA XtsInitKeeps ==
  ASSUME IndInv, (\E k \in Keys, len \in KeyLens : XtsInit(k, len)) \/ XtsUninit
  PROVE  IndInv'
<1>1. /\ pc = "idle" /\ pc' = pc /\ length' = length /\ data' = data
      /\ tweak' = tweak /\ under' = under
  BY DEF XtsInit, XtsUninit
<1>2. KeyInv'
  <2>1. CASE XtsUninit
    BY <1>1, <2>1 DEF XtsUninit, KeyInv
  <2>2. CASE \E k \in Keys, len \in KeyLens : XtsInit(k, len)
    <3>1. PICK k \in Keys, len \in KeyLens : XtsInit(k, len)
      BY <2>2
    <3>2. CASE len \in {32, 64}
      <4>1. key' = <<k, len>> /\ ctx1' = CipherKey(k, 0) /\ ctx2' = CipherKey(k, len \div 2)
        BY <3>1, <3>2 DEF XtsInit
      <4> QED
        BY <1>1, <3>2, <4>1 DEF KeyInv, KeysSet
    <3>3. CASE len \notin {32, 64}
      <4>1. key' = key /\ ctx1' = ctx1 /\ ctx2' = ctx2
        BY <3>1, <3>3 DEF XtsInit, keyed, context
      <4> QED
        BY <1>1, <4>1 DEF IndInv, KeyInv
    <3> QED
      BY <3>2, <3>3
  <2> QED
    BY <2>1, <2>2
<1>3. TypeInv' /\ TweakInv' /\ DataInv'
  BY <1>1 DEF IndInv, TypeInv, TweakInv, DataInv, Crypt1, Blocks
<1> QED
  BY <1>2, <1>3 DEF IndInv

LEMMA CryptKeeps ==
  ASSUME IndInv, NEW h \in Ways, NEW v \in Ivs, Crypt(h, v)
  PROVE  IndInv'
<1>1. /\ pc = "idle" /\ key # NONE /\ key \in KeysSet
      /\ ctx2 = CipherKey(key[1], key[2] \div 2)
      /\ how' = h /\ iv' = v /\ block' = 0
      /\ key' = key /\ ctx1' = ctx1 /\ ctx2' = ctx2
      /\ length' = length /\ data' = data /\ under' = under
      /\ length \in Nat
  BY DEF Crypt, IndInv, TypeInv, KeyInv, keyed, context
<1>2. Call' \in Calls /\ Call' = <<h, key, v>>
  BY <1>1 DEF Call, Calls
<1>3. DataInv'
  BY <1>1 DEF IndInv, DataInv, Crypt1, Blocks, Crypt
<1>4. CASE length % blk_sz # 0 \/ length = 0
  <2>1. pc' = "idle" /\ (tweak' = tweak \/ tweak' = First(ctx2, v))
    BY <1>1, <1>4 DEF Crypt
  <2>2. First(ctx2, v) \in Tweaks
    BY <1>1, <1>2, CallIs DEF First2
  <2> QED
    BY <1>1, <1>3, <2>1, <2>2 DEF IndInv, TypeInv, KeyInv, TweakInv, Blocks
<1>5. CASE length % blk_sz = 0 /\ length # 0
  <2>1. pc' = "block" /\ tweak' = First(ctx2, v)
    BY <1>1, <1>5 DEF Crypt
  <2>2. tweak' = First2(Call') /\ tweak' \in Tweaks
    BY <1>1, <1>2, <2>1, CallIs DEF First2
  <2>3. Poly(tweak') = Alpha(Poly(First2(Call')))[0]
    BY <2>2, AlphaIs
  <2>4. 0 \in 0 .. Blocks - 1
    BY <1>1, <1>5, BlocksIs
  <2>5. TypeInv' /\ KeyInv'
    BY <1>1, <1>2, <2>1, <2>2, <2>4 DEF IndInv, TypeInv, KeyInv, Blocks
  <2>6. TweakInv'
    BY <1>1, <2>1, <2>3 DEF TweakInv
  <2> QED
    BY <1>3, <2>5, <2>6 DEF IndInv
<1> QED
  BY <1>4, <1>5

LEMMA CryptBlockKeeps ==
  ASSUME IndInv, CryptBlock
  PROVE  IndInv'
<1>1. /\ pc = "block" /\ pc' = "carry" /\ i' = 0 /\ carry_in' = FALSE
      /\ data' = [data EXCEPT ![block] = Xor(Cipher(how, ctx1, Xor(@, T(tweak))), T(tweak))]
      /\ key' = key /\ ctx1' = ctx1 /\ ctx2' = ctx2 /\ length' = length
      /\ how' = how /\ iv' = iv /\ block' = block /\ tweak' = tweak /\ under' = under
  BY DEF CryptBlock, CryptBlockTo, keyed, context
<1>2. /\ Call \in Calls /\ block \in 0 .. Blocks - 1 /\ ctx1 = First1(Call)
      /\ tweak \in Tweaks /\ Poly(tweak) = Alpha(Poly(First2(Call)))[block]
      /\ length \in Nat /\ under \in Seq(Calls)
      /\ data = [b \in 0 .. Blocks - 1 |-> data[b]]
  BY <1>1 DEF IndInv, TypeInv, KeyInv, TweakInv, First1, Call
<1>3. tweak = TweakOf(Call, block)
  BY <1>2, TweakOfIs
<1>4. /\ data'[block] = Result(Call, block, data[block])
      /\ \A b \in 0 .. Blocks - 1 : b # block => data'[b] = data[b]
      /\ data' = [b \in 0 .. Blocks - 1 |-> data'[b]]
  BY <1>1, <1>2, <1>3 DEF Result, Call
<1>5. TypeInv' /\ KeyInv'
  BY <1>1, <1>2, <1>4 DEF IndInv, TypeInv, KeyInv, Blocks, Call
<1>6. TweakInv'
  <2>1. OnTheWay(tweak)'
    BY <1>1, <1>2 DEF OnTheWay, Call
  <2>2. tweak' \in Tweaks
    BY <1>1, <1>2
  <2>3. (\E t \in Tweaks : OnTheWay(t))'
    BY <1>1, <1>2, <2>1
  <2>4. i' \in 0 .. blk_sz /\ carry_in' \in BOOLEAN
    <3>1. i' = 0 /\ carry_in' = FALSE
      BY <1>1
    <3>2. i' \in 0 .. blk_sz
      BY <3>1, Sizes
    <3> QED
      BY <3>1, <3>2, Zenon
  <2> QED
    BY <1>1, <2>3, <2>4 DEF TweakInv
<1>7. DataInv'
  <2>1. ASSUME NEW b \in 0 .. Blocks - 1
        PROVE  IsUnder(IF b \in Crypt1' THEN After(Call) ELSE under, b, data'[b])
    <3>1. b \in Crypt1 <=> b < block
      BY <1>1, <1>2 DEF Crypt1
    <3>2. b \in Crypt1' <=> b <= block
      BY <1>1, <1>2 DEF Crypt1
    <3>3. IsUnder(IF b \in Crypt1 THEN After(Call) ELSE under, b, data[b])
      BY DEF IndInv, DataInv
    <3>4. CASE b = block
      <4>1. IsUnder(under, b, data[b])
        BY <1>2, <3>1, <3>3, <3>4
      <4>2. IsUnder(After(Call), b, Result(Call, b, data[b]))
        BY <1>2, <4>1, CallOnBlock
      <4> QED
        BY <1>2, <1>4, <3>2, <3>4, <4>2
    <3>5. CASE b # block
      <4>1. b \in Crypt1' <=> b \in Crypt1
        BY <1>2, <3>1, <3>2, <3>5
      <4> QED
        BY <1>4, <3>3, <3>5, <4>1
    <3> QED
      BY <3>4, <3>5
  <2> QED
    BY <1>1, <2>1 DEF DataInv, After, Before, Call, Blocks
<1> QED
  BY <1>5, <1>6, <1>7 DEF IndInv

LEMMA CarryByteKeeps ==
  ASSUME IndInv, CarryByte
  PROVE  IndInv'
<1>1. /\ pc = "carry" /\ pc' = pc /\ i < blk_sz /\ i' = i + 1
      /\ carry_in' = (BITS - 1 \in tweak[i])
      /\ tweak' = [tweak EXCEPT ![i] = Shl(@) \cup (IF carry_in THEN {0} ELSE {})]
      /\ key' = key /\ ctx1' = ctx1 /\ ctx2' = ctx2 /\ length' = length /\ data' = data
      /\ how' = how /\ iv' = iv /\ block' = block /\ under' = under
  BY DEF CarryByte, CarryByteOf, keyed, context
<1>2. PICK t \in Tweaks : OnTheWay(t)
  BY <1>1 DEF IndInv, TweakInv
<1>3. i \in 0 .. blk_sz - 1 /\ tweak \in Tweaks
  BY <1>1, Sizes DEF IndInv, TypeInv, TweakInv
<1>4. tweak[i] = t[i]
  BY <1>2, <1>3 DEF OnTheWay
<1>5. Shl(tweak[i]) \cup (IF carry_in THEN {0} ELSE {}) = NextByte(t, i)
  BY <1>2, <1>4 DEF OnTheWay, NextByte
<1>6. /\ tweak' = [tweak EXCEPT ![i] = NextByte(t, i)]
      /\ carry_in' <=> BITS - 1 \in t[i]
      /\ carry_in' \in BOOLEAN
  <2>1. tweak' = [tweak EXCEPT ![i] = Shl(tweak[i]) \cup (IF carry_in THEN {0} ELSE {})]
    BY <1>1
  <2>2. tweak' = [tweak EXCEPT ![i] = NextByte(t, i)]
    BY <1>5, <2>1, Zenon
  <2>3. carry_in' = (BITS - 1 \in t[i])
    BY <1>1, <1>4, Zenon
  <2>4. carry_in' \in BOOLEAN
    BY <2>3
  <2>5. carry_in' <=> BITS - 1 \in t[i]
    <3>1. CASE BITS - 1 \in t[i]
      BY <2>3, <3>1
    <3>2. CASE BITS - 1 \notin t[i]
      BY <2>3, <3>2
    <3> QED
      BY <3>1, <3>2, Zenon
  <2> QED
    BY <2>2, <2>4, <2>5, Zenon
<1>7. tweak' \in Tweaks
  <2>1. NextByte(t, i) \in SUBSET (0 .. BITS - 1)
    BY <1>3, NextByteIs, Sizes
  <2> QED
    BY <1>3, <1>6, <2>1 DEF Tweaks
<1>8. OnTheWay(t)'
  <2>1. ASSUME NEW n \in 0 .. blk_sz - 1
        PROVE  tweak'[n] = IF n < i + 1 THEN NextByte(t, n) ELSE t[n]
    <3>1. tweak[n] = IF n < i THEN NextByte(t, n) ELSE t[n]
      BY <1>2 DEF OnTheWay
    <3>2. tweak'[n] = IF n = i THEN NextByte(t, i) ELSE tweak[n]
      BY <1>3, <1>6 DEF Tweaks
    <3> QED
      BY <1>3, <3>1, <3>2
  <2>2. carry_in' <=> i' > 0 /\ BITS - 1 \in t[i' - 1]
    <3>1. i' > 0 /\ i' - 1 = i
      BY <1>1, <1>3
    <3> QED
      BY <1>6, <3>1
  <2>3. Poly(t) = Alpha(Poly(First2(Call')))[block']
    BY <1>1, <1>2 DEF OnTheWay, Call
  <2> QED
    BY <1>1, <2>1, <2>2, <2>3 DEF OnTheWay, NextByte
<1>9. TweakInv'
  <2>1. i' \in 0 .. blk_sz
    BY <1>1, <1>3, Sizes
  <2>2. (\E u \in Tweaks : OnTheWay(u))'
    BY <1>8
  <2>3. carry_in' \in BOOLEAN /\ pc' = "carry"
    BY <1>1, <1>6, Zenon
  <2> QED
    BY <2>1, <2>2, <2>3 DEF TweakInv
<1>10. TypeInv' /\ KeyInv' /\ DataInv'
  BY <1>1, <1>7 DEF IndInv, TypeInv, KeyInv, DataInv, Blocks, Call, Crypt1, After, Before
<1> QED
  BY <1>9, <1>10 DEF IndInv

LEMMA CarryOutKeeps ==
  ASSUME IndInv, CarryOut
  PROVE  IndInv'
<1>1. /\ pc = "carry" /\ i = blk_sz
      /\ tweak' = IF carry_in THEN [tweak EXCEPT ![0] = Xor(tweak[0], XTS_ALPHA)] ELSE tweak
      /\ block' = block + 1
      /\ key' = key /\ ctx1' = ctx1 /\ ctx2' = ctx2 /\ length' = length /\ data' = data
      /\ how' = how /\ iv' = iv
  BY DEF CarryOut, keyed, context
<1>2. /\ Call \in Calls /\ block \in 0 .. Blocks - 1 /\ tweak \in Tweaks
      /\ length \in Nat /\ under \in Seq(Calls) /\ Blocks \in Nat
      /\ data = [b \in 0 .. Blocks - 1 |-> data[b]]
  BY <1>1, BlocksIs DEF IndInv, TypeInv, KeyInv
<1>3. PICK t \in Tweaks : OnTheWay(t)
  BY <1>1 DEF IndInv, TweakInv
<1>4. /\ \A n \in 0 .. blk_sz - 1 : tweak[n] = NextByte(t, n)
      /\ carry_in <=> BITS - 1 \in t[blk_sz - 1]
      /\ Poly(t) = Alpha(Poly(First2(Call)))[block]
  BY <1>1, <1>3, Sizes DEF OnTheWay
<1>5. 0 \in 0 .. blk_sz - 1 /\ XTS_ALPHA \in SUBSET (0 .. BITS - 1)
  BY Sizes
<1>6. /\ tweak' \in Tweaks
      /\ tweak'[0] = IF BITS - 1 \in t[blk_sz - 1] THEN Xor(NextByte(t, 0), XTS_ALPHA)
                                                   ELSE NextByte(t, 0)
      /\ \A n \in 1 .. blk_sz - 1 : tweak'[n] = NextByte(t, n)
  <2>1. CASE carry_in
    <3>1. tweak' = [tweak EXCEPT ![0] = Xor(tweak[0], XTS_ALPHA)]
      BY <1>1, <2>1
    <3>2. Xor(tweak[0], XTS_ALPHA) \in SUBSET (0 .. BITS - 1)
      BY <1>2, <1>5 DEF Xor, Tweaks
    <3> QED
      BY <1>2, <1>4, <1>5, <2>1, <3>1, <3>2 DEF Tweaks
  <2>2. CASE ~carry_in
    <3>1. tweak' = tweak
      BY <1>1, <2>2
    <3> QED
      BY <1>2, <1>4, <1>5, <2>2, <3>1
  <2> QED
    BY <2>1, <2>2
<1>7. Poly(tweak') = Alpha(Poly(First2(Call)))[block + 1]
  <2>1. Poly(tweak') = TimesX(Poly(t))
    BY <1>6, TweakTimesX
  <2> QED
    BY <1>2, <1>4, <2>1, AlphaIs
<1>8. \A b \in 0 .. Blocks - 1 : IsUnder(IF b <= block THEN After(Call) ELSE under, b, data[b])
  <2>1. ASSUME NEW b \in 0 .. Blocks - 1
        PROVE  b \in Crypt1 <=> b <= block
    BY <1>1, <1>2 DEF Crypt1
  <2> QED
    BY <2>1 DEF IndInv, DataInv
<1>9. CASE block + 1 < Blocks
  <2>1. pc' = "block" /\ under' = under
    BY <1>1, <1>9 DEF CarryOut
  <2>2. TypeInv' /\ KeyInv'
    BY <1>1, <1>2, <1>6, <1>9, <2>1 DEF IndInv, TypeInv, KeyInv, Blocks, Call
  <2>3. TweakInv'
    BY <1>1, <1>7, <2>1 DEF TweakInv, Call
  <2>4. DataInv'
    <3>1. ASSUME NEW b \in 0 .. Blocks - 1
          PROVE  b \in Crypt1' <=> b <= block
      BY <1>1, <1>2, <2>1 DEF Crypt1
    <3>2. Blocks' = Blocks /\ After(Call)' = After(Call)
      BY <1>1, <2>1 DEF Blocks, After, Before, Call
    <3> QED
      BY <1>1, <1>8, <2>1, <3>1, <3>2 DEF DataInv
  <2> QED
    BY <2>2, <2>3, <2>4 DEF IndInv
<1>10. CASE ~(block + 1 < Blocks)
  <2>1. pc' = "idle" /\ under' = After(Call)
    BY <1>1, <1>10 DEF CarryOut, Call
  <2>2. After(Call) \in Seq(Calls)
    <3>1. Append(under, Call) \in Seq(Calls)
      BY <1>2
    <3>2. under # <<>> => Before \in Seq(Calls)
      <4> SUFFICES ASSUME under # <<>>
                   PROVE  Before \in Seq(Calls)
        OBVIOUS
      <4>1. Len(under) - 1 \in Int /\ \A j \in 1 .. Len(under) - 1 : under[j] \in Calls
        BY <1>2
      <4> QED
        BY <4>1, SubSeqProperties DEF Before
    <3> QED
      BY <3>1, <3>2 DEF After
  <2>3. TypeInv' /\ KeyInv' /\ TweakInv'
    BY <1>1, <1>2, <1>6, <2>1, <2>2 DEF IndInv, TypeInv, KeyInv, TweakInv, Blocks
  <2>4. DataInv'
    <3>1. \A b \in 0 .. Blocks - 1 : b <= block
      BY <1>2, <1>10
    <3>2. Blocks' = Blocks /\ Crypt1' = {}
      BY <1>1, <2>1 DEF Blocks, Crypt1
    <3> QED
      BY <1>1, <1>8, <2>1, <3>1, <3>2 DEF DataInv
  <2> QED
    BY <2>3, <2>4 DEF IndInv
<1> QED
  BY <1>9, <1>10

LEMMA StutterKeeps ==
  ASSUME IndInv, UNCHANGED vars
  PROVE  IndInv'
<1>1. UNCHANGED <<pc, key, ctx1, ctx2, length, data, how, iv, tweak, block, i, carry_in, under>>
  BY DEF vars, keyed, context, counters
<1>2. TypeInv' /\ KeyInv'
  BY <1>1 DEF IndInv, TypeInv, KeyInv, Blocks, Call
<1>3. TweakInv'
  BY <1>1 DEF IndInv, TweakInv, OnTheWay, Call
<1>4. DataInv'
  BY <1>1 DEF IndInv, DataInv, Crypt1, After, Before, Call, Blocks
<1> QED
  BY <1>2, <1>3, <1>4 DEF IndInv

(* generic_xts.c: the inductive invariant, which ties each block to the    *)
(* calls it is under, and the tweak to the block the loop has come to.     *)
THEOREM Invariance == Spec => []IndInv
<1>1. IndInv /\ [Next]_vars => IndInv'
  <2> SUFFICES ASSUME IndInv, [Next]_vars
               PROVE  IndInv'
    OBVIOUS
  <2>1. CASE Step
    BY <2>1, CryptBlockKeeps, CarryByteKeeps, CarryOutKeeps DEF Step
  <2>2. CASE XtsUninit \/ \E k \in Keys, len \in KeyLens : XtsInit(k, len)
    BY <2>2, XtsInitKeeps
  <2>3. CASE \E h \in {"encrypt", "decrypt"}, v \in Ivs : Crypt(h, v)
    BY <2>3, CryptKeeps DEF Ways
  <2>4. CASE UNCHANGED vars
    BY <2>4, StutterKeeps
  <2> QED
    BY <2>1, <2>2, <2>3, <2>4 DEF Next
<1> QED
  BY <1>1, Initially, PTL DEF Spec

(* generic_xts.c: each block has the tweak of its sector, times x to the   *)
(* power of its number, for every block size, byte and polynomial.         *)
THEOREM TweaksAreRight == Spec => []TweakIsPower
<1>1. IndInv => TweakIsPower
  BY DEF IndInv, TweakInv, TweakIsPower, First2, Call
<1> QED
  BY <1>1, Invariance, PTL

(* generic_xts.c: after any number of calls, the data is in the clear if   *)
(* each has been undone by another, and otherwise no block of it is.       *)
THEOREM DecryptingUndoes == Spec => []RoundTrip
<1>1. IndInv => RoundTrip
  <2> SUFFICES ASSUME IndInv, pc = "idle", NEW b \in 0 .. Blocks - 1
               PROVE  data[b] = Plain(b) <=> under = <<>>
    BY DEF RoundTrip
  <2>1. IsUnder(under, b, data[b]) /\ under \in Seq(Calls)
    BY DEF IndInv, DataInv, TypeInv, Crypt1
  <2>2. CASE under = <<>>
    BY <2>1, <2>2, UnderNothing
  <2>3. CASE under # <<>>
    BY <2>1, <2>3, UnderOneLess, NotPlain
  <2> QED
    BY <2>2, <2>3
<1> QED
  BY <1>1, Invariance, PTL
-----------------------------------------------------------------------------
(* AES-256.  Bytes: exclusive or, and F, which is linear. *)
LEMMA XorLaws ==
  /\ \A a, b : Xor(a, b) = Xor(b, a)
  /\ \A a, b, c : Xor(Xor(a, b), c) = Xor(a, Xor(b, c))
  /\ \A a : Xor(a, a) = {} /\ Xor(a, {}) = a /\ Xor({}, a) = a
  /\ \A a, b : Xor(Xor(a, b), b) = a
BY DEF Xor

LEMMA XorByte ==
  ASSUME NEW a \in Byte, NEW b \in Byte
  PROVE  Xor(a, b) \in Byte
BY DEF Byte, Xor

LEMMA FXor ==
  ASSUME NEW a \in Byte, NEW b \in Byte
  PROVE  /\ F(Xor(a, b)) = Xor(F(a), F(b))
         /\ F(a) \in Byte
<1> DEFINE G == {0, 1, 3, 4}
           up(x) == Shl8(x)
           top(x) == IF 7 \in x THEN G ELSE {}
<1>1. \A x : F(x) = Xor(up(x), top(x))
  BY DEF F
<1>2. up(Xor(a, b)) = Xor(up(a), up(b))
  <2>1. \A p, q \in 0 .. 7 : p + 1 = q + 1 => p = q
    OBVIOUS
  <2>2. \A p \in a : p \in 0 .. 7
    BY DEF Byte
  <2>3. \A p \in b : p \in 0 .. 7
    BY DEF Byte
  <2>4. \A x, p : p \in up(x) <=> \E q \in x \ {7} : p = q + 1
    BY DEF Shl8
  <2>5. \A p : p \in up(Xor(a, b)) <=> ~(p \in up(a) <=> p \in up(b))
    <3> HIDE DEF up
    <3> QED
      BY <2>1, <2>2, <2>3, <2>4 DEF Xor
  <2> HIDE DEF up
  <2>6. \A p : p \in up(Xor(a, b)) <=> p \in Xor(up(a), up(b))
    BY <2>5 DEF Xor
  <2>7. \A x : up(x) = {q + 1 : q \in x \ {7}}
    BY DEF up, Shl8
  <2> QED
    BY <2>6, <2>7 DEF Xor
<1>3. top(Xor(a, b)) = Xor(top(a), top(b))
  <2> HIDE DEF G
  <2>1. CASE 7 \in a /\ 7 \in b
    BY <2>1 DEF Xor
  <2>2. CASE 7 \in a /\ 7 \notin b
    BY <2>2 DEF Xor
  <2>3. CASE 7 \notin a /\ 7 \in b
    BY <2>3 DEF Xor
  <2>4. CASE 7 \notin a /\ 7 \notin b
    BY <2>4 DEF Xor
  <2> QED
    BY <2>1, <2>2, <2>3, <2>4
<1>4. up(a) \in Byte
  <2>1. ASSUME NEW p \in a \ {7} PROVE p + 1 \in 0 .. 7
    <3>1. p \in 0 .. 7 /\ p # 7
      BY DEF Byte
    <3> QED
      BY <3>1
  <2> QED
    BY <2>1 DEF Shl8, Byte
<1>5. top(a) \in Byte
  BY DEF Byte
<1> HIDE DEF up, top
<1>6. F(a) \in Byte
  BY <1>1, <1>4, <1>5, XorByte
<1>7. Xor(Xor(up(a), up(b)), Xor(top(a), top(b))) = Xor(Xor(up(a), top(a)), Xor(up(b), top(b)))
  BY DEF Xor
<1> QED
  BY <1>1, <1>2, <1>3, <1>6, <1>7

LEMMA FZero == F({}) = {}
<1>1. Shl8({}) = {}
  BY DEF Shl8
<1>2. F({}) = Xor(Shl8({}), {})
  BY DEF F
<1> QED
  BY <1>1, <1>2 DEF Xor

LEMMA Products ==
  ASSUME NEW a \in Byte
  PROVE  Product(a, {0}) = a /\ Product(a, {1}) = F(a) /\ Product(a, {0, 1}) = Xor(a, F(a))
<1>1. Xor({}, {}) = {} /\ Xor(a, {}) = a /\ Xor({}, F(a)) = F(a)
  BY DEF Xor
<1>2. 0 \in {0} /\ \A p \in 1 .. 7 : p \notin {0}
  OBVIOUS
<1>3. 1 \in {1} /\ 0 \notin {1} /\ \A p \in 2 .. 7 : p \notin {1}
  OBVIOUS
<1>4. 0 \in {0, 1} /\ 1 \in {0, 1} /\ \A p \in 2 .. 7 : p \notin {0, 1}
  OBVIOUS
<1>5. Product(a, {0}) = a
  BY <1>1, <1>2, FZero DEF Product
<1>6. Product(a, {1}) = F(a)
  BY <1>1, <1>3, FZero DEF Product
<1>7. Product(a, {0, 1}) = Xor(a, F(a))
  BY <1>1, <1>4, FZero DEF Product
<1> QED
  BY <1>5, <1>6, <1>7
-----------------------------------------------------------------------------
(* One byte of a column mixed, from itself and the others below it, and    *)
(* one of it mixed back.                                                   *)
Forth(a, b, c, d) == Xor4(a, Xor4(a, b, c, d), F(Xor(a, b)), {})
Back(a, b, c, d) ==
  LET e == Xor4(a, b, c, d)
  IN  Xor4(a, Xor(e, F(F(Xor(F(e), Xor(a, c))))), F(Xor(a, b)), {})

LEMMA BackForth ==
  ASSUME NEW a \in Byte, NEW b \in Byte, NEW c \in Byte, NEW d \in Byte
  PROVE  Forth(Back(a, b, c, d), Back(b, c, d, a), Back(c, d, a, b), Back(d, a, b, c)) = a
<1> DEFINE e == Xor4(a, b, c, d)
           h == Xor(a, c)
           l == Xor(b, d)
           fe == F(e)
           gh == F(F(h))
           gl == F(F(l))
           gfe == F(F(fe))
           u == Xor(e, Xor(gfe, gh))
           v == Xor(e, Xor(gfe, gl))
           fa == F(a)
           fb == F(b)
           fc == F(c)
           fd == F(d)
           y0 == Xor4(a, u, Xor(fa, fb), {})
           y1 == Xor4(b, v, Xor(fb, fc), {})
           y2 == Xor4(c, u, Xor(fc, fd), {})
           y3 == Xor4(d, v, Xor(fd, fa), {})
<1>1. /\ Xor4(b, c, d, a) = e /\ Xor4(c, d, a, b) = e /\ Xor4(d, a, b, c) = e
      /\ Xor(c, a) = h /\ Xor(d, b) = l /\ e = Xor(h, l)
  BY DEF Xor4, Xor
<1>2. h \in Byte /\ l \in Byte
  BY XorByte
<1>3. e \in Byte
  BY <1>1, <1>2, XorByte
<1> HIDE DEF e, h, l
<1>4. fe \in Byte /\ gh \in Byte /\ gl \in Byte /\ gfe \in Byte /\ F(h) \in Byte /\ F(l) \in Byte
  BY <1>2, <1>3, FXor
<1>5. /\ F(F(Xor(fe, h))) = Xor(gfe, gh)
      /\ F(F(Xor(fe, l))) = Xor(gfe, gl)
  <2>1. F(Xor(fe, h)) = Xor(F(fe), F(h)) /\ F(Xor(fe, l)) = Xor(F(fe), F(l)) /\ F(fe) \in Byte
    BY <1>2, <1>4, FXor
  <2> HIDE DEF fe
  <2>2. F(Xor(F(fe), F(h))) = Xor(F(F(fe)), F(F(h))) /\ F(Xor(F(fe), F(l))) = Xor(F(F(fe)), F(F(l)))
    BY <1>4, <2>1, FXor
  <2> QED
    BY <2>1, <2>2
<1>6. /\ F(Xor(a, b)) = Xor(fa, fb) /\ F(Xor(b, c)) = Xor(fb, fc)
      /\ F(Xor(c, d)) = Xor(fc, fd) /\ F(Xor(d, a)) = Xor(fd, fa)
      /\ fa \in Byte /\ fb \in Byte /\ fc \in Byte /\ fd \in Byte
  BY FXor
<1>7. /\ Back(a, b, c, d) = y0 /\ Back(b, c, d, a) = y1
      /\ Back(c, d, a, b) = y2 /\ Back(d, a, b, c) = y3
  <2>1. Back(a, b, c, d) = y0
    BY <1>5, <1>6 DEF Back, e, h
  <2>2. Back(b, c, d, a) = y1
    BY <1>1, <1>5, <1>6 DEF Back, l
  <2>3. Back(c, d, a, b) = y2
    BY <1>1, <1>5, <1>6 DEF Back
  <2>4. Back(d, a, b, c) = y3
    BY <1>1, <1>5, <1>6 DEF Back
  <2> QED
    BY <2>1, <2>2, <2>3, <2>4
<1> DEFINE w == F(gfe)
<1>8. e = Xor4(a, b, c, d)
  BY DEF e
<1>9. F(Xor(y0, y1)) = Xor4(fa, fb, gfe, gh)
  <2> DEFINE ge == Xor(gh, gl)
             fh == Xor(fa, fc)
  <2>1. Xor(y0, y1) = Xor(Xor(a, b), Xor(ge, fh))
    <3> HIDE DEF e, gh, gl, gfe, fa, fb, fc, fd
    <3> QED
      BY DEF Xor4, Xor
  <2>2. fh = F(h) /\ F(h) \in Byte
    BY FXor, <1>2 DEF h
  <2>3. ge = F(fe) /\ F(fe) \in Byte
    <3>1. fe = Xor(F(h), F(l))
      BY <1>1, <1>2, FXor
    <3>2. F(Xor(F(h), F(l))) = Xor(F(F(h)), F(F(l)))
      BY <1>4, FXor
    <3>3. F(fe) \in Byte
      BY <1>4, FXor
    <3> QED
      BY <3>1, <3>2, <3>3
  <2>4. Xor(a, b) \in Byte
    BY XorByte
  <2>5. Xor(F(fe), F(h)) \in Byte
    BY <2>2, <2>3, XorByte
  <2>6. F(Xor(Xor(a, b), Xor(F(fe), F(h)))) = Xor(F(Xor(a, b)), F(Xor(F(fe), F(h))))
    BY <2>4, <2>5, FXor
  <2>7. F(Xor(F(fe), F(h))) = Xor(gfe, gh)
    BY <2>2, <2>3, FXor
  <2> HIDE DEF fe, y0, y1, ge, fh, gfe, gh
  <2> QED
    BY <1>6, <2>1, <2>2, <2>3, <2>6, <2>7 DEF Xor4
<1> HIDE DEF fe, gh, gl, gfe, fa, fb, fc, fd
<1>10. Xor4(y0, y1, y2, y3) = e
  BY <1>8 DEF Xor4, Xor
<1>11. Xor4(y0, e, Xor4(fa, fb, gfe, gh), {}) = a
  BY DEF Xor4, Xor
<1> HIDE DEF y0, y1, y2, y3
<1> QED
  BY <1>7, <1>9, <1>10, <1>11 DEF Forth

LEMMA ForthBack ==
  ASSUME NEW a \in Byte, NEW b \in Byte, NEW c \in Byte, NEW d \in Byte
  PROVE  Back(Forth(a, b, c, d), Forth(b, c, d, a), Forth(c, d, a, b), Forth(d, a, b, c)) = a
<1> DEFINE e == Xor4(a, b, c, d)
           h == Xor(a, c)
           fe == F(e)
           ab == Xor(a, b)
           bc == Xor(b, c)
           cd == Xor(c, d)
           da == Xor(d, a)
           fab == F(ab)
           fbc == F(bc)
           fcd == F(cd)
           fda == F(da)
           fh == F(h)
           ffh == F(fh)
           y0 == Xor4(a, e, fab, {})
           y1 == Xor4(b, e, fbc, {})
           y2 == Xor4(c, e, fcd, {})
           y3 == Xor4(d, e, fda, {})
<1>1. /\ Xor4(b, c, d, a) = e /\ Xor4(c, d, a, b) = e /\ Xor4(d, a, b, c) = e
      /\ Xor(ab, bc) = h /\ Xor(ab, cd) = e /\ Xor(bc, da) = e
  BY DEF Xor4, Xor
<1>2. ab \in Byte /\ bc \in Byte /\ cd \in Byte /\ da \in Byte /\ h \in Byte
  BY XorByte
<1>3. /\ Forth(a, b, c, d) = y0 /\ Forth(b, c, d, a) = y1
      /\ Forth(c, d, a, b) = y2 /\ Forth(d, a, b, c) = y3
  <2> HIDE DEF e
  <2>1. Forth(a, b, c, d) = y0
    BY DEF Forth, e
  <2>2. Forth(b, c, d, a) = y1
    BY <1>1 DEF Forth
  <2>3. Forth(c, d, a, b) = y2
    BY <1>1 DEF Forth
  <2>4. Forth(d, a, b, c) = y3
    BY <1>1 DEF Forth
  <2> QED
    BY <2>1, <2>2, <2>3, <2>4
<1>4. e = Xor4(a, b, c, d) /\ h = Xor(a, c) /\ ab = Xor(a, b)
  OBVIOUS
<1> HIDE DEF e, h, ab, bc, cd, da
<1>5. /\ Xor(fab, fbc) = fh /\ Xor(fab, fcd) = fe /\ Xor(fbc, fda) = fe
      /\ fab \in Byte /\ fh \in Byte
  BY <1>1, <1>2, FXor
<1>6. F(Xor(ab, fh)) = Xor(fab, ffh)
  BY <1>2, <1>5, FXor
<1> HIDE DEF fe, fab, fbc, fcd, fda, fh, ffh
<1>7. Xor4(y0, y1, y2, y3) = e
  <2>1. Xor4(y0, y1, y2, y3) = Xor4(Xor4(a, b, c, d), Xor(fab, fcd), Xor(fbc, fda), {})
    BY DEF Xor4, Xor
  <2>2. Xor4(e, fe, fe, {}) = e
    BY DEF Xor4, Xor
  <2> QED
    BY <1>4, <1>5, <2>1, <2>2
<1>8. Xor(fe, Xor(y0, y2)) = h
  <2>1. Xor(y0, y2) = Xor(Xor(a, c), Xor(fab, fcd))
    BY DEF Xor4, Xor
  <2>2. Xor(fe, Xor(h, fe)) = h
    BY DEF Xor
  <2> QED
    BY <1>4, <1>5, <2>1, <2>2
<1>9. Xor(y0, y1) = Xor(ab, fh)
  <2>1. Xor(y0, y1) = Xor(Xor(a, b), Xor(fab, fbc))
    BY DEF Xor4, Xor
  <2> QED
    BY <1>4, <1>5, <2>1
<1>10. Xor4(y0, Xor(e, ffh), Xor(fab, ffh), {}) = a
  BY DEF Xor4, Xor
<1> HIDE DEF y0, y1, y2, y3
<1>11. Back(y0, y1, y2, y3) = Xor4(y0, Xor(e, F(F(h))), F(Xor(y0, y1)), {})
  BY <1>7, <1>8 DEF Back, fe
<1> QED
  BY <1>3, <1>6, <1>9, <1>10, <1>11 DEF ffh, fh
-----------------------------------------------------------------------------
(* Blocks. *)
LEMMA Rows ==
  ASSUME NEW n \in BlockIndex
  PROVE  /\ (n + 4 * (n % 4)) % 16 \in BlockIndex
         /\ (n - 4 * (n % 4)) % 16 \in BlockIndex
         /\ LET m == (n + 4 * (n % 4)) % 16 IN (m - 4 * (m % 4)) % 16 = n
         /\ LET m == (n - 4 * (n % 4)) % 16 IN (m + 4 * (m % 4)) % 16 = n
<1>1. /\ n \in 0 .. 15
      /\ n % 4 = n - 4 * (n \div 4) /\ n \div 4 \in 0 .. 3 /\ n % 4 \in 0 .. 3
  BY DEF BlockIndex
<1>2. (n + 4 * (n % 4)) % 16 \in BlockIndex /\ (n - 4 * (n % 4)) % 16 \in BlockIndex
  BY <1>1 DEF BlockIndex
<1> DEFINE to(k) == (k + 4 * (k % 4)) % 16
           from(k) == (k - 4 * (k % 4)) % 16
           low(k) == k - 4 * (k % 4)
           Good(k) == from(to(k)) = k /\ to(from(k)) = k
<1>a. \A k \in 0 .. 15 : from(k) = IF low(k) < 0 THEN low(k) + 16 ELSE low(k)
  OBVIOUS
<1> HIDE DEF from
<1>3. to(0) = 0 /\ to(1) = 5 /\ to(2) = 10 /\ to(3) = 15
  OBVIOUS
<1>4. from(0) = 0 /\ from(5) = 1 /\ from(10) = 2 /\ from(15) = 3
  BY <1>a
<1>5. to(4) = 4 /\ to(5) = 9 /\ to(6) = 14 /\ to(7) = 3
  OBVIOUS
<1>6. from(4) = 4 /\ from(9) = 5 /\ from(14) = 6 /\ from(3) = 7
  BY <1>a
<1>7. to(8) = 8 /\ to(9) = 13 /\ to(10) = 2 /\ to(11) = 7
  OBVIOUS
<1>8. from(8) = 8 /\ from(13) = 9 /\ from(2) = 10 /\ from(7) = 11
  BY <1>a
<1>9. to(12) = 12 /\ to(13) = 1 /\ to(14) = 6 /\ to(15) = 11
  OBVIOUS
<1>10. from(12) = 12 /\ from(1) = 13 /\ from(6) = 14 /\ from(11) = 15
  BY <1>a
<1> HIDE DEF to
<1>11. Good(n)
  BY <1>1, <1>3, <1>4, <1>5, <1>6, <1>7, <1>8, <1>9, <1>10
<1> QED
  BY <1>2, <1>11 DEF to, from

Place(n, m) == 4 * (n \div 4) + ((n + m) % 4)

LEMMA Columns ==
  ASSUME NEW n \in BlockIndex, NEW m \in 0 .. 3
  PROVE  /\ Place(n, m) \in BlockIndex
         /\ \A l \in 0 .. 3 : Place(Place(n, m), l) = Place(n, (m + l) % 4)
         /\ Place(n, 0) = n
<1> DEFINE q == n \div 4
           r == n % 4
<1>1. q \in 0 .. 3 /\ r \in 0 .. 3 /\ n = 4 * q + r
  BY DEF BlockIndex
<1> HIDE DEF q, r
<1>2. ASSUME NEW k \in 0 .. 3
      PROVE  Place(n, k) = 4 * q + ((r + k) % 4)
  <2>1. (4 * q + r + k) % 4 = (r + k) % 4
    BY <1>1
  <2>2. n \div 4 = q
    BY <1>1
  <2> QED
    BY <1>1, <2>1, <2>2 DEF Place
<1> DEFINE p == (r + m) % 4
<1>3. p \in 0 .. 3
  BY <1>1
<1>4. Place(n, m) = 4 * q + p
  BY <1>2
<1>5. 4 * q + p \in BlockIndex
  BY <1>1, <1>3 DEF BlockIndex
<1>6. ASSUME NEW l \in 0 .. 3
      PROVE  Place(4 * q + p, l) = Place(n, (m + l) % 4)
  <2>1. (4 * q + p) \div 4 = q /\ (4 * q + p + l) % 4 = (p + l) % 4
    BY <1>1, <1>3
  <2>2. (p + l) % 4 = (r + ((m + l) % 4)) % 4
    BY <1>1
  <2>3. Place(n, (m + l) % 4) = 4 * q + ((r + ((m + l) % 4)) % 4)
    BY <1>2
  <2> QED
    BY <2>1, <2>2, <2>3 DEF Place
<1>7. Place(n, 0) = n
  <2>1. (r + 0) % 4 = r
    BY <1>1
  <2> QED
    BY <1>1, <1>2, <2>1
<1> QED
  BY <1>4, <1>5, <1>6, <1>7

(* The steps of a round keep blocks blocks, and mixing and shifting, which *)
(* the standard and the code say in different ways, undo what the code's   *)
(* inverses do.                                                            *)
LEMMA Steps ==
  ASSUME SBoxAssumption, NEW s \in Block
  PROVE  /\ SubBytes(s) \in Block /\ SubBytesInv(s) \in Block
         /\ ShiftRows(s) \in Block /\ ShiftRowsInv(s) \in Block
         /\ Substituted(s) = SubBytes(s)
         /\ SubBytes(SubBytesInv(s)) = s /\ SubBytesInv(SubBytes(s)) = s
         /\ ShiftRows(ShiftRowsInv(s)) = s /\ ShiftRowsInv(ShiftRows(s)) = s
<1>1. \A n \in BlockIndex : s[n] \in Byte
  BY DEF Block
<1>2. SubBytes(s) \in Block /\ SubBytesInv(s) \in Block /\ Substituted(s) = SubBytes(s)
  BY <1>1 DEF SBoxAssumption, SubBytes, SubBytesInv, Substituted, Block
<1>3. SubBytes(SubBytesInv(s)) = s
  <2>1. \A n \in BlockIndex : SubBytesInv(s)[n] = rj_sbox_inv[s[n]]
    BY DEF SubBytesInv
  <2>2. \A n \in BlockIndex : rj_sbox[SubBytesInv(s)[n]] = s[n]
    BY <1>1, <2>1 DEF SBoxAssumption
  <2>3. s = [n \in BlockIndex |-> s[n]]
    BY DEF Block
  <2> QED
    BY <2>2, <2>3 DEF SubBytes
<1>4. ShiftRows(s) \in Block /\ ShiftRowsInv(s) \in Block
  BY <1>1, Rows DEF ShiftRows, ShiftRowsInv, Block
<1>5. ShiftRows(ShiftRowsInv(s)) = s
  <2>1. \A m \in BlockIndex : ShiftRowsInv(s)[m] = s[(m - 4 * (m % 4)) % 16]
    BY DEF ShiftRowsInv
  <2>2. ASSUME NEW n \in BlockIndex
        PROVE  ShiftRowsInv(s)[(n + 4 * (n % 4)) % 16] = s[n]
    BY <2>1, Rows
  <2>3. s = [n \in BlockIndex |-> s[n]]
    BY DEF Block
  <2> QED
    BY <2>2, <2>3 DEF ShiftRows
<1>6. SubBytesInv(SubBytes(s)) = s
  <2>1. \A n \in BlockIndex : SubBytes(s)[n] = rj_sbox[s[n]]
    BY DEF SubBytes
  <2>2. \A n \in BlockIndex : rj_sbox_inv[SubBytes(s)[n]] = s[n]
    BY <1>1, <2>1 DEF SBoxAssumption
  <2>3. s = [n \in BlockIndex |-> s[n]]
    BY DEF Block
  <2> QED
    BY <2>2, <2>3 DEF SubBytesInv
<1>7. ShiftRowsInv(ShiftRows(s)) = s
  <2>1. \A m \in BlockIndex : ShiftRows(s)[m] = s[(m + 4 * (m % 4)) % 16]
    BY DEF ShiftRows
  <2>2. ASSUME NEW n \in BlockIndex
        PROVE  ShiftRows(s)[(n - 4 * (n % 4)) % 16] = s[n]
    BY <2>1, Rows
  <2>3. s = [n \in BlockIndex |-> s[n]]
    BY DEF Block
  <2> QED
    BY <2>2, <2>3 DEF ShiftRowsInv
<1> QED
  BY <1>2, <1>3, <1>4, <1>5, <1>6, <1>7

LEMMA Keyed ==
  ASSUME NEW s \in Block, NEW k \in Block
  PROVE  /\ AddRoundKey(s, k) \in Block
         /\ AddRoundKey(AddRoundKey(s, k), k) = s
<1>1. \A n \in BlockIndex : s[n] \in Byte /\ k[n] \in Byte
  BY DEF Block
<1>2. AddRoundKey(s, k) \in Block
  BY <1>1, XorByte DEF AddRoundKey, Block
<1>3. \A n \in BlockIndex : Xor(AddRoundKey(s, k)[n], k[n]) = s[n]
  BY XorLaws DEF AddRoundKey
<1>4. s = [n \in BlockIndex |-> s[n]]
  BY DEF Block
<1> QED
  BY <1>2, <1>3, <1>4 DEF AddRoundKey

LEMMA Mixing ==
  ASSUME NEW s \in Block
  PROVE  /\ MixColumns(s) \in Block /\ MixColumnsInv(s) \in Block
         /\ Mixed(s) = MixColumns(s)
         /\ MixColumns(MixColumnsInv(s)) = s
         /\ MixColumnsInv(MixColumns(s)) = s
<1> DEFINE at(t, n, m) == t[Place(n, m)]
           Inv == MixColumnsInv(s)
           Mix == MixColumns(s)
<1>1. \A t, n, m : InColumn(t, n, m) = at(t, n, m)
  BY DEF InColumn, Place
<1>2. ASSUME NEW t \in Block, NEW n \in BlockIndex
      PROVE  /\ at(t, n, 0) \in Byte /\ at(t, n, 1) \in Byte
             /\ at(t, n, 2) \in Byte /\ at(t, n, 3) \in Byte /\ at(t, n, 0) = t[n]
  BY Columns DEF Block
<1>3. ASSUME NEW t \in Block, NEW n \in BlockIndex
      PROVE  MixColumns(t)[n] = Forth(at(t, n, 0), at(t, n, 1), at(t, n, 2), at(t, n, 3))
  BY <1>1, <1>2 DEF MixColumns, rj_xtime, ColumnSum, Forth
<1>4. ASSUME NEW t \in Block, NEW n \in BlockIndex
      PROVE  MixColumnsInv(t)[n] = Back(at(t, n, 0), at(t, n, 1), at(t, n, 2), at(t, n, 3))
  BY <1>1, <1>2 DEF MixColumnsInv, rj_xtime, ColumnSum, Back
<1>5. ASSUME NEW a \in Byte, NEW b \in Byte, NEW c \in Byte, NEW d \in Byte
      PROVE  Forth(a, b, c, d) \in Byte /\ Back(a, b, c, d) \in Byte
  <2>1. \A w, x, y, z \in Byte : Xor4(w, x, y, z) \in Byte
    BY XorByte DEF Xor4
  <2>2. {} \in Byte
    BY DEF Byte
  <2>3. Xor4(a, b, c, d) \in Byte
    BY <2>1
  <2>4. Xor(a, b) \in Byte /\ F(Xor(a, b)) \in Byte /\ Xor(a, c) \in Byte
    BY XorByte, FXor
  <2>5. Forth(a, b, c, d) \in Byte
    BY <2>1, <2>2, <2>3, <2>4 DEF Forth
  <2> DEFINE e == Xor4(a, b, c, d)
             g == Xor(F(e), Xor(a, c))
  <2>6. g \in Byte
    BY <2>3, <2>4, XorByte, FXor
  <2> HIDE DEF g
  <2>7. F(F(g)) \in Byte
    BY <2>6, FXor
  <2>8. Xor(e, F(F(g))) \in Byte
    BY <2>3, <2>7, XorByte
  <2>9. Back(a, b, c, d) = Xor4(a, Xor(e, F(F(g))), F(Xor(a, b)), {})
    BY DEF Back, g
  <2> HIDE DEF e
  <2>10. Back(a, b, c, d) \in Byte
    BY <2>1, <2>2, <2>4, <2>8, <2>9
  <2> QED
    BY <2>5, <2>10
<1> HIDE DEF at
<1>6. MixColumns(s) \in Block
  <2>1. \A n \in BlockIndex : MixColumns(s)[n] \in Byte
    BY <1>2, <1>3, <1>5
  <2>2. MixColumns(s) = [n \in BlockIndex |-> MixColumns(s)[n]]
    BY DEF MixColumns
  <2> QED
    BY <2>1, <2>2 DEF Block
<1>7. Inv \in Block
  <2>1. \A n \in BlockIndex : Inv[n] \in Byte
    BY <1>2, <1>4, <1>5
  <2>2. Inv = [n \in BlockIndex |-> Inv[n]]
    BY DEF MixColumnsInv
  <2> HIDE DEF Inv
  <2> QED
    BY <2>1, <2>2 DEF Block
<1>8. Mixed(s) = MixColumns(s)
  <2>1. ASSUME NEW n \in BlockIndex
        PROVE  Mixed(s)[n] = MixColumns(s)[n]
    <3> DEFINE a == at(s, n, 0)
               b == at(s, n, 1)
               c == at(s, n, 2)
               d == at(s, n, 3)
    <3>1. a \in Byte /\ b \in Byte /\ c \in Byte /\ d \in Byte /\ a = s[n]
      BY <1>2
    <3>2. Mixed(s)[n] = Xor4(Product(a, {1}), Product(b, {0, 1}), Product(c, {0}), Product(d, {0}))
      BY <1>1, <3>1 DEF Mixed, Matrix
    <3>3. MixColumns(s)[n] = Forth(a, b, c, d)
      BY <1>3
    <3> HIDE DEF a, b, c, d
    <3>4. Mixed(s)[n] = Xor4(F(a), Xor(b, F(b)), c, d)
      BY <3>1, <3>2, Products
    <3>5. F(Xor(a, b)) = Xor(F(a), F(b))
      BY <3>1, FXor
    <3>6. Xor4(F(a), Xor(b, F(b)), c, d) = Xor4(a, Xor4(a, b, c, d), Xor(F(a), F(b)), {})
      BY DEF Xor4, Xor
    <3> QED
      BY <3>3, <3>4, <3>5, <3>6 DEF Forth
  <2>2. Mixed(s) = [n \in BlockIndex |-> Mixed(s)[n]] /\ MixColumns(s) = [n \in BlockIndex |-> MixColumns(s)[n]]
    BY DEF Mixed, MixColumns
  <2> QED
    BY <2>1, <2>2
<1>9. MixColumns(Inv) = s
  <2>1. ASSUME NEW n \in BlockIndex
        PROVE  MixColumns(Inv)[n] = s[n]
    <3> DEFINE a == at(s, n, 0)
               b == at(s, n, 1)
               c == at(s, n, 2)
               d == at(s, n, 3)
    <3>1. a \in Byte /\ b \in Byte /\ c \in Byte /\ d \in Byte /\ a = s[n]
      BY <1>2
    <3>2. ASSUME NEW m \in 0 .. 3
          PROVE  at(Inv, n, m) = Back(at(s, n, (m + 0) % 4), at(s, n, (m + 1) % 4),
                                      at(s, n, (m + 2) % 4), at(s, n, (m + 3) % 4))
      <4> DEFINE p == Place(n, m)
      <4>1. p \in BlockIndex /\ \A l \in 0 .. 3 : Place(p, l) = Place(n, (m + l) % 4)
        BY Columns
      <4> HIDE DEF p
      <4>2. Inv[p] = Back(at(s, p, 0), at(s, p, 1), at(s, p, 2), at(s, p, 3))
        BY <1>4, <4>1
      <4>3. \A l \in 0 .. 3 : at(s, p, l) = at(s, n, (m + l) % 4)
        BY <4>1 DEF at
      <4> QED
        BY <4>2, <4>3 DEF at, p
    <3>3. /\ at(Inv, n, 0) = Back(a, b, c, d) /\ at(Inv, n, 1) = Back(b, c, d, a)
          /\ at(Inv, n, 2) = Back(c, d, a, b) /\ at(Inv, n, 3) = Back(d, a, b, c)
      <4>1. /\ (0 + 0) % 4 = 0 /\ (0 + 1) % 4 = 1 /\ (0 + 2) % 4 = 2 /\ (0 + 3) % 4 = 3
            /\ (1 + 0) % 4 = 1 /\ (1 + 1) % 4 = 2 /\ (1 + 2) % 4 = 3 /\ (1 + 3) % 4 = 0
            /\ (2 + 0) % 4 = 2 /\ (2 + 1) % 4 = 3 /\ (2 + 2) % 4 = 0 /\ (2 + 3) % 4 = 1
            /\ (3 + 0) % 4 = 3 /\ (3 + 1) % 4 = 0 /\ (3 + 2) % 4 = 1 /\ (3 + 3) % 4 = 2
        OBVIOUS
      <4>2. 0 \in 0 .. 3 /\ 1 \in 0 .. 3 /\ 2 \in 0 .. 3 /\ 3 \in 0 .. 3
        OBVIOUS
      <4> HIDE DEF Inv
      <4> QED
        BY <3>2, <4>1, <4>2
    <3>4. MixColumns(Inv)[n] = Forth(at(Inv, n, 0), at(Inv, n, 1), at(Inv, n, 2), at(Inv, n, 3))
      BY <1>3, <1>7
    <3> HIDE DEF a, b, c, d, Inv
    <3> QED
      BY <3>1, <3>3, <3>4, BackForth
  <2>2. MixColumns(Inv) = [n \in BlockIndex |-> MixColumns(Inv)[n]]
    BY DEF MixColumns
  <2>3. s = [n \in BlockIndex |-> s[n]]
    BY DEF Block
  <2> HIDE DEF Inv
  <2> QED
    BY <2>1, <2>2, <2>3
<1>10. MixColumnsInv(Mix) = s
  <2>1. ASSUME NEW n \in BlockIndex
        PROVE  MixColumnsInv(Mix)[n] = s[n]
    <3> DEFINE a == at(s, n, 0)
               b == at(s, n, 1)
               c == at(s, n, 2)
               d == at(s, n, 3)
    <3>1. a \in Byte /\ b \in Byte /\ c \in Byte /\ d \in Byte /\ a = s[n]
      BY <1>2
    <3>2. ASSUME NEW m \in 0 .. 3
          PROVE  at(Mix, n, m) = Forth(at(s, n, (m + 0) % 4), at(s, n, (m + 1) % 4),
                                      at(s, n, (m + 2) % 4), at(s, n, (m + 3) % 4))
      <4> DEFINE p == Place(n, m)
      <4>1. p \in BlockIndex /\ \A l \in 0 .. 3 : Place(p, l) = Place(n, (m + l) % 4)
        BY Columns
      <4> HIDE DEF p
      <4>2. Mix[p] = Forth(at(s, p, 0), at(s, p, 1), at(s, p, 2), at(s, p, 3))
        BY <1>3, <4>1
      <4>3. \A l \in 0 .. 3 : at(s, p, l) = at(s, n, (m + l) % 4)
        BY <4>1 DEF at
      <4> QED
        BY <4>2, <4>3 DEF at, p
    <3>3. /\ at(Mix, n, 0) = Forth(a, b, c, d) /\ at(Mix, n, 1) = Forth(b, c, d, a)
          /\ at(Mix, n, 2) = Forth(c, d, a, b) /\ at(Mix, n, 3) = Forth(d, a, b, c)
      <4>1. /\ (0 + 0) % 4 = 0 /\ (0 + 1) % 4 = 1 /\ (0 + 2) % 4 = 2 /\ (0 + 3) % 4 = 3
            /\ (1 + 0) % 4 = 1 /\ (1 + 1) % 4 = 2 /\ (1 + 2) % 4 = 3 /\ (1 + 3) % 4 = 0
            /\ (2 + 0) % 4 = 2 /\ (2 + 1) % 4 = 3 /\ (2 + 2) % 4 = 0 /\ (2 + 3) % 4 = 1
            /\ (3 + 0) % 4 = 3 /\ (3 + 1) % 4 = 0 /\ (3 + 2) % 4 = 1 /\ (3 + 3) % 4 = 2
        OBVIOUS
      <4>2. 0 \in 0 .. 3 /\ 1 \in 0 .. 3 /\ 2 \in 0 .. 3 /\ 3 \in 0 .. 3
        OBVIOUS
      <4> HIDE DEF Mix
      <4> QED
        BY <3>2, <4>1, <4>2
    <3>4. MixColumnsInv(Mix)[n] = Back(at(Mix, n, 0), at(Mix, n, 1), at(Mix, n, 2), at(Mix, n, 3))
      BY <1>4, <1>6
    <3> HIDE DEF a, b, c, d, Mix
    <3> QED
      BY <3>1, <3>3, <3>4, ForthBack
  <2>2. MixColumnsInv(Mix) = [n \in BlockIndex |-> MixColumnsInv(Mix)[n]]
    BY DEF MixColumnsInv
  <2>3. s = [n \in BlockIndex |-> s[n]]
    BY DEF Block
  <2> HIDE DEF Mix
  <2> QED
    BY <2>1, <2>2, <2>3
<1> QED
  BY <1>6, <1>7, <1>8, <1>9, <1>10
-----------------------------------------------------------------------------
(* The schedule.  What TLC works out a table of is what it was. *)
LEMMA TableIs ==
  ASSUME NEW f
  PROVE  Table(f) = f
BY DEF Table

(* A byte's carry in a turn of the key, from the key and what is new. *)
Carry(k, new, rc, n) ==
  CASE n = 0 -> Xor(rj_sbox[k[29]], rc)
    [] n \in 1 .. 3 -> rj_sbox[k[28 + ((n + 1) % 4)]]
    [] n \in 16 .. 19 -> rj_sbox[new[n - 4]]
    [] OTHER -> new[n - 4]
OnceMore(k, new, rc) == [n \in KeyIndex |-> Xor(k[n], Carry(k, new, rc, n))]

(* Bytes are made from those four before, so that eight times are enough. *)
LEMMA FourMore ==
  ASSUME NEW k, NEW rc, NEW m \in Nat, NEW f, NEW g,
         \A n \in KeyIndex : n < 4 * m => f[n] = g[n]
  PROVE  \A n \in KeyIndex : n < 4 * (m + 1) => OnceMore(k, f, rc)[n] = OnceMore(k, g, rc)[n]
<1>1. ASSUME NEW n \in KeyIndex, n < 4 * (m + 1)
      PROVE  Carry(k, f, rc, n) = Carry(k, g, rc, n)
  <2>1. CASE n = 0
    BY <2>1 DEF Carry
  <2>2. CASE n \in 1 .. 3
    <3>1. n # 0
      BY <2>2
    <3> QED
      BY <2>2, <3>1 DEF Carry
  <2>3. CASE n \notin 0 .. 3
    <3>1. n - 4 \in KeyIndex /\ n - 4 < 4 * m /\ n # 0 /\ n \notin 1 .. 3
      BY <1>1, <2>3 DEF KeyIndex
    <3>2. f[n - 4] = g[n - 4]
      BY <3>1
    <3> QED
      BY <3>1, <3>2 DEF Carry
  <2> QED
    BY <2>1, <2>2, <2>3
<1> QED
  BY <1>1 DEF OnceMore

LEMMA EncIs ==
  ASSUME NEW k, NEW rc
  PROVE  ExpandEncKey(k, rc) = OnceMore(k, ExpandEncKey(k, rc), rc)
<1> DEFINE f0 == k
           f1 == OnceMore(k, f0, rc)
           f2 == OnceMore(k, f1, rc)
           f3 == OnceMore(k, f2, rc)
           f4 == OnceMore(k, f3, rc)
           f5 == OnceMore(k, f4, rc)
           f6 == OnceMore(k, f5, rc)
           f7 == OnceMore(k, f6, rc)
           f8 == OnceMore(k, f7, rc)
           f9 == OnceMore(k, f8, rc)
           Same(f, g, m) == \A n \in KeyIndex : n < 4 * m => f[n] = g[n]
<1>1. Same(f0, f1, 0)
  BY DEF KeyIndex
<1>2. \A f, g : \A m \in Nat : Same(f, g, m) => Same(OnceMore(k, f, rc), OnceMore(k, g, rc), m + 1)
  BY FourMore
<1> HIDE DEF Same
<1>3. Same(f1, f2, 1)
  <2>1. 0 \in Nat /\ 0 + 1 = 1
    OBVIOUS
  <2> HIDE DEF f0, f1
  <2>2. Same(OnceMore(k, f0, rc), OnceMore(k, f1, rc), 0 + 1)
    BY <1>2, <1>1, <2>1
  <2> QED
    BY <2>1, <2>2 DEF f1
<1>4. Same(f2, f3, 2)
  <2>1. 1 \in Nat /\ 1 + 1 = 2
    OBVIOUS
  <2> HIDE DEF f1, f2
  <2>2. Same(OnceMore(k, f1, rc), OnceMore(k, f2, rc), 1 + 1)
    BY <1>2, <1>3, <2>1
  <2> QED
    BY <2>1, <2>2 DEF f2
<1>5. Same(f3, f4, 3)
  <2>1. 2 \in Nat /\ 2 + 1 = 3
    OBVIOUS
  <2> HIDE DEF f2, f3
  <2>2. Same(OnceMore(k, f2, rc), OnceMore(k, f3, rc), 2 + 1)
    BY <1>2, <1>4, <2>1
  <2> QED
    BY <2>1, <2>2 DEF f3
<1>6. Same(f4, f5, 4)
  <2>1. 3 \in Nat /\ 3 + 1 = 4
    OBVIOUS
  <2> HIDE DEF f3, f4
  <2>2. Same(OnceMore(k, f3, rc), OnceMore(k, f4, rc), 3 + 1)
    BY <1>2, <1>5, <2>1
  <2> QED
    BY <2>1, <2>2 DEF f4
<1>7. Same(f5, f6, 5)
  <2>1. 4 \in Nat /\ 4 + 1 = 5
    OBVIOUS
  <2> HIDE DEF f4, f5
  <2>2. Same(OnceMore(k, f4, rc), OnceMore(k, f5, rc), 4 + 1)
    BY <1>2, <1>6, <2>1
  <2> QED
    BY <2>1, <2>2 DEF f5
<1>8. Same(f6, f7, 6)
  <2>1. 5 \in Nat /\ 5 + 1 = 6
    OBVIOUS
  <2> HIDE DEF f5, f6
  <2>2. Same(OnceMore(k, f5, rc), OnceMore(k, f6, rc), 5 + 1)
    BY <1>2, <1>7, <2>1
  <2> QED
    BY <2>1, <2>2 DEF f6
<1>9. Same(f7, f8, 7)
  <2>1. 6 \in Nat /\ 6 + 1 = 7
    OBVIOUS
  <2> HIDE DEF f6, f7
  <2>2. Same(OnceMore(k, f6, rc), OnceMore(k, f7, rc), 6 + 1)
    BY <1>2, <1>8, <2>1
  <2> QED
    BY <2>1, <2>2 DEF f7
<1>10. Same(f8, f9, 8)
  <2>1. 7 \in Nat /\ 7 + 1 = 8
    OBVIOUS
  <2> HIDE DEF f7, f8
  <2>2. Same(OnceMore(k, f7, rc), OnceMore(k, f8, rc), 7 + 1)
    BY <1>2, <1>9, <2>1
  <2> QED
    BY <2>1, <2>2 DEF f8
<1> HIDE DEF f0, f1, f2, f3, f4, f5, f6, f7
<1>11. f8 = f9
  <2>1. \A n \in KeyIndex : f8[n] = f9[n]
    BY <1>10 DEF Same, KeyIndex
  <2>2. f8 = [n \in KeyIndex |-> f8[n]] /\ f9 = [n \in KeyIndex |-> f9[n]]
    BY DEF OnceMore
  <2> QED
    BY <2>1, <2>2
<1> DEFINE Once(f) == [n \in KeyIndex |->
                         Xor(k[n], CASE n = 0 -> Xor(rj_sbox[k[29]], rc)
                                     [] n \in 1 .. 3 -> rj_sbox[k[28 + ((n + 1) % 4)]]
                                     [] n \in 16 .. 19 -> rj_sbox[f[n - 4]]
                                     [] OTHER -> f[n - 4])]
           V == CHOOSE f : f = Once(f)
<1>12. \A f : Once(f) = OnceMore(k, f, rc)
  BY DEF OnceMore, Carry
<1>13. ExpandEncKey(k, rc) = Table([n \in KeyIndex |-> V[n]])
  BY DEF ExpandEncKey
<1> HIDE DEF Once
<1>14. V = Once(V)
  <2>1. f8 = Once(f8)
    BY <1>11, <1>12
  <2> QED
    BY <2>1
<1> HIDE DEF V
<1>15. V = OnceMore(k, V, rc)
  BY <1>12, <1>14
<1>16. V = [n \in KeyIndex |-> V[n]]
  BY <1>15 DEF OnceMore
<1> QED
  BY <1>13, <1>15, <1>16, TableIs

LEMMA EncBytes ==
  ASSUME SBoxAssumption, NEW k \in Key, NEW rc \in Byte
  PROVE  ExpandEncKey(k, rc) \in Key
<1> DEFINE N == ExpandEncKey(k, rc)
           S == {m \in Nat : \A n \in KeyIndex : n < 4 * m => N[n] \in Byte}
<1>1. N = OnceMore(k, N, rc)
  BY EncIs
<1> HIDE DEF N
<1>2. \A n \in KeyIndex : k[n] \in Byte /\ N[n] = Xor(k[n], Carry(k, N, rc, n))
  BY <1>1 DEF Key, OnceMore
<1>3. 0 \in S
  BY DEF KeyIndex
<1>4. ASSUME NEW m \in Nat, m \in S
      PROVE  m + 1 \in S
  <2>1. ASSUME NEW n \in KeyIndex, n < 4 * (m + 1)
        PROVE  Carry(k, N, rc, n) \in Byte
    <3>1. CASE n = 0
      <4>1. rj_sbox[k[29]] \in Byte
        BY <1>2 DEF SBoxAssumption, KeyIndex
      <4> QED
        BY <3>1, <4>1, XorByte DEF Carry
    <3>2. CASE n \in 1 .. 3
      <4>1. n # 0 /\ 28 + ((n + 1) % 4) \in KeyIndex
        BY <3>2 DEF KeyIndex
      <4>2. rj_sbox[k[28 + ((n + 1) % 4)]] \in Byte
        BY <1>2, <4>1 DEF SBoxAssumption
      <4> QED
        BY <3>2, <4>1, <4>2 DEF Carry
    <3>3. CASE n \notin 0 .. 3
      <4>1. n - 4 \in KeyIndex /\ n - 4 < 4 * m /\ n # 0 /\ n \notin 1 .. 3
        BY <2>1, <3>3 DEF KeyIndex
      <4>2. N[n - 4] \in Byte
        BY <1>4, <4>1
      <4>3. rj_sbox[N[n - 4]] \in Byte
        BY <4>2 DEF SBoxAssumption
      <4> QED
        BY <4>1, <4>2, <4>3 DEF Carry
    <3> QED
      BY <3>1, <3>2, <3>3
  <2> QED
    BY <1>2, <2>1, XorByte
<1>5. Nat \subseteq S
  BY <1>3, <1>4, SetInduction
<1>6. \A n \in KeyIndex : N[n] \in Byte
  <2>1. 8 \in S
    BY <1>5
  <2>2. \A n \in KeyIndex : n < 4 * 8
    BY DEF KeyIndex
  <2> QED
    BY <2>1, <2>2
<1>7. N = [n \in KeyIndex |-> N[n]]
  BY <1>1 DEF OnceMore
<1> QED
  BY <1>6, <1>7 DEF Key, N

(* Back from the next key with its rc comes the key. *)
LEMMA DecUndoes ==
  ASSUME SBoxAssumption, NEW k \in Key, NEW rc \in Byte
  PROVE  ExpandDecKey(ExpandEncKey(k, rc), rc) = k
<1> DEFINE N == ExpandEncKey(k, rc)
<1>1. N = OnceMore(k, N, rc)
  BY EncIs
<1> HIDE DEF N
<1>2. \A n \in KeyIndex : N[n] = Xor(k[n], Carry(k, N, rc, n))
  BY <1>1 DEF OnceMore
<1>3. \A n \in 28 .. 31 : Xor(N[n], N[n - 4]) = k[n]
  <2>1. ASSUME NEW n \in 28 .. 31
        PROVE  Xor(N[n], N[n - 4]) = k[n]
    <3>1. n \in KeyIndex /\ n # 0 /\ n \notin 1 .. 3 /\ n \notin 16 .. 19
      BY DEF KeyIndex
    <3>2. Carry(k, N, rc, n) = N[n - 4]
      BY <3>1 DEF Carry
    <3> QED
      BY <1>2, <3>1, <3>2, XorLaws
  <2> QED
    BY <2>1
<1> DEFINE last(n) == Xor(N[n], N[n - 4])
           carry(n) == CASE n = 0 -> Xor(rj_sbox[last(29)], rc)
                       [] n \in 1 .. 3 -> rj_sbox[last(28 + ((n + 1) % 4))]
                       [] n \in 16 .. 19 -> rj_sbox[N[n - 4]]
                       [] OTHER -> N[n - 4]
<1>4. ExpandDecKey(N, rc) = Table([n \in KeyIndex |-> Xor(N[n], carry(n))])
  BY DEF ExpandDecKey
<1>5. ASSUME NEW n \in KeyIndex
      PROVE  carry(n) = Carry(k, N, rc, n)
  <2>1. CASE n = 0
    <3>1. last(29) = k[29]
      BY <1>3
    <3> QED
      BY <2>1, <3>1 DEF Carry
  <2>2. CASE n \in 1 .. 3
    <3>1. n # 0 /\ 28 + ((n + 1) % 4) \in 28 .. 31
      BY <2>2
    <3>2. last(28 + ((n + 1) % 4)) = k[28 + ((n + 1) % 4)]
      BY <1>3, <3>1
    <3> QED
      BY <2>2, <3>1, <3>2 DEF Carry
  <2>3. CASE n # 0 /\ n \notin 1 .. 3
    BY <2>3 DEF Carry
  <2> QED
    BY <2>1, <2>2, <2>3
<1> HIDE DEF carry
<1>6. ASSUME NEW n \in KeyIndex
      PROVE  Xor(N[n], carry(n)) = k[n]
  <2>1. N[n] = Xor(k[n], carry(n))
    BY <1>2, <1>5
  <2> QED
    BY <2>1, XorLaws
<1>7. k = [n \in KeyIndex |-> k[n]]
  BY DEF Key
<1>8. [n \in KeyIndex |-> Xor(N[n], carry(n))] = k
  BY <1>6, <1>7
<1> QED
  BY <1>4, <1>8, TableIs DEF N

(* Seven turns of the key. *)
Turned(e) == [key |-> ExpandEncKey(e.key, e.rc), rc |-> F(e.rc)]
TurnChain(s, n, k) ==
  /\ s[0] = [key |-> k, rc |-> {0}]
  /\ \A t \in 1 .. n : s[t] = Turned(s[t - 1])

LEMMA TurnChains ==
  ASSUME NEW k
  PROVE  \A n \in Nat : \E s : TurnChain(s, n, k)
<1> DEFINE S == {n \in Nat : \E s : TurnChain(s, n, k)}
<1>1. 0 \in S
  <2>1. TurnChain([t \in {0} |-> [key |-> k, rc |-> {0}]], 0, k)
    BY DEF TurnChain
  <2> QED
    BY <2>1
<1>2. ASSUME NEW n \in Nat, n \in S
      PROVE  n + 1 \in S
  <2>1. PICK s : TurnChain(s, n, k)
    BY <1>2
  <2> DEFINE new == Turned(s[n])
             y == [t \in 0 .. n + 1 |-> IF t = n + 1 THEN new ELSE s[t]]
  <2>2. y[0] = [key |-> k, rc |-> {0}]
    BY <2>1 DEF TurnChain
  <2>3. ASSUME NEW t \in 1 .. n + 1
        PROVE  y[t] = Turned(y[t - 1])
    <3>1. y[t - 1] = s[t - 1]
      OBVIOUS
    <3>2. CASE t = n + 1
      <4>1. y[t] = new /\ t - 1 = n
        BY <3>2
      <4> QED
        BY <3>1, <3>2, <4>1
    <3>3. CASE t # n + 1
      <4>1. t \in 1 .. n /\ y[t] = s[t]
        BY <3>3
      <4> QED
        BY <2>1, <3>1, <4>1 DEF TurnChain
    <3> QED
      BY <3>2, <3>3
  <2>4. TurnChain(y, n + 1, k)
    BY <2>2, <2>3 DEF TurnChain
  <2> QED
    BY <2>4
<1>3. Nat \subseteq S
  BY <1>1, <1>2, SetInduction
<1> QED
  BY <1>3

LEMMA TurnChainIs ==
  ASSUME NEW k
  PROVE  TurnChain(Expanded(k), 7, k)
<1>1. PICK s : TurnChain(s, 7, k)
  BY TurnChains
<1> DEFINE A == [t \in 0 .. 7 |-> s[t]]
           Once(f) == [t \in 0 .. 7 |-> IF t = 0 THEN [key |-> k, rc |-> {0}]
                                      ELSE Turned(f[t - 1])]
           V == CHOOSE f : f = Once(f)
<1>2. A = Once(A)
  <2>1. ASSUME NEW t \in 0 .. 7
        PROVE  A[t] = IF t = 0 THEN [key |-> k, rc |-> {0}]
                      ELSE Turned(A[t - 1])
    <3>1. CASE t = 0
      BY <1>1, <3>1 DEF TurnChain
    <3>2. CASE t # 0
      <4>1. t \in 1 .. 7 /\ t - 1 \in 0 .. 7
        BY <3>2
      <4> QED
        BY <1>1, <3>2, <4>1 DEF TurnChain
    <3> QED
      BY <3>1, <3>2
  <2> QED
    BY <2>1
<1>3. V = Once(V)
  BY <1>2
<1>4. Expanded(k) = V
  BY DEF Expanded, Turned
<1> HIDE DEF V
<1>5. TurnChain(V, 7, k)
  <2>1. V[0] = [key |-> k, rc |-> {0}]
    BY <1>3
  <2>2. ASSUME NEW t \in 1 .. 7
        PROVE  V[t] = Turned(V[t - 1])
    <3>1. t \in 0 .. 7 /\ t # 0
      OBVIOUS
    <3> QED
      BY <1>3, <3>1
  <2> QED
    BY <2>1, <2>2 DEF TurnChain
<1> QED
  BY <1>4, <1>5


LEMMA ExpandedIs ==
  ASSUME SBoxAssumption, NEW k \in Key
  PROVE  /\ Expanded(k)[0].key = k
         /\ \A m \in 0 .. 7 : Expanded(k)[m].key \in Key /\ Expanded(k)[m].rc = {m}
         /\ \A m \in 0 .. 6 : /\ Expanded(k)[m + 1].key = ExpandEncKey(Expanded(k)[m].key, {m})
                              /\ ExpandDecKey(Expanded(k)[m + 1].key, {m}) = Expanded(k)[m].key
                              /\ F({m}) = {m + 1} /\ FD({m + 1}) = {m}
<1> DEFINE e == Expanded(k)
           S == {m \in Nat : m <= 7 => e[m].key \in Key /\ e[m].rc = {m}}
<1>1. TurnChain(e, 7, k)
  BY TurnChainIs
<1> HIDE DEF e
<1>2. e[0].key = k /\ e[0].rc = {0}
  BY <1>1 DEF TurnChain
<1>3. ASSUME NEW m \in 0 .. 6
      PROVE  e[m + 1].key = ExpandEncKey(e[m].key, e[m].rc) /\ e[m + 1].rc = F(e[m].rc)
  <2>1. m + 1 \in 1 .. 7 /\ (m + 1) - 1 = m
    OBVIOUS
  <2>2. e[m + 1] = Turned(e[m])
    BY <1>1, <2>1 DEF TurnChain
  <2> QED
    BY <2>2 DEF Turned
<1>4. ASSUME NEW m \in 0 .. 6
      PROVE  F({m}) = {m + 1} /\ FD({m + 1}) = {m} /\ {m} \in Byte
  <2>1. m # 7 /\ m + 1 # 0 /\ (m + 1) - 1 = m /\ m \in 0 .. 7
    OBVIOUS
  <2>2. Shl8({m}) = {m + 1}
    BY <2>1 DEF Shl8
  <2>3. Shr8({m + 1}) = {m}
    BY <2>1 DEF Shr8
  <2>4. F({m}) = Xor(Shl8({m}), {}) /\ FD({m + 1}) = Xor(Shr8({m + 1}), {})
    BY <2>1 DEF F, FD
  <2>5. {m} \in Byte
    BY <2>1 DEF Byte
  <2> QED
    BY <2>2, <2>3, <2>4, <2>5, XorLaws
<1>5. 0 \in S
  BY <1>2
<1>a. \A k0 \in Key, rc \in Byte : ExpandEncKey(k0, rc) \in Key /\ ExpandDecKey(ExpandEncKey(k0, rc), rc) = k0
  BY EncBytes, DecUndoes
<1>6. ASSUME NEW m \in Nat, m \in S
      PROVE  m + 1 \in S
  <2>1. CASE m + 1 <= 7
    <3> DEFINE kk == e[m].key
               rc == {m}
    <3>1. m \in 0 .. 6
      BY <2>1
    <3>2. kk \in Key /\ e[m].rc = rc
      BY <1>6, <3>1
    <3>3. rc \in Byte /\ F(rc) = {m + 1}
      BY <1>4, <3>1
    <3>4. e[m + 1].key = ExpandEncKey(kk, e[m].rc) /\ e[m + 1].rc = F(e[m].rc)
      BY <1>3, <3>1
    <3> HIDE DEF kk, rc
    <3>5. ExpandEncKey(kk, rc) \in Key
      BY <1>a, <3>2, <3>3
    <3>6. e[m + 1].key = ExpandEncKey(kk, rc) /\ e[m + 1].rc = F(rc)
      BY <3>2, <3>4
    <3> HIDE DEF S
    <3>7. e[m + 1].key \in Key
      BY <3>5, <3>6
    <3>8. e[m + 1].rc = {m + 1}
      BY <3>3, <3>6
    <3> QED
      BY <3>7, <3>8 DEF S
  <2> QED
    BY <2>1
<1>7. Nat \subseteq S
  BY <1>5, <1>6, SetInduction
<1>8. ASSUME NEW m \in 0 .. 7
      PROVE  e[m].key \in Key /\ e[m].rc = {m}
  BY <1>7
<1> HIDE DEF S
<1>9. ASSUME NEW m \in 0 .. 6
      PROVE  e[m + 1].key = ExpandEncKey(e[m].key, {m}) /\ ExpandDecKey(e[m + 1].key, {m}) = e[m].key
  <2> DEFINE kk == e[m].key
             rc == {m}
  <2>1. m \in 0 .. 7
    OBVIOUS
  <2>2. kk \in Key /\ e[m].rc = rc
    BY <1>8, <2>1
  <2>3. rc \in Byte
    BY <1>4
  <2>4. e[m + 1].key = ExpandEncKey(kk, e[m].rc)
    BY <1>3
  <2> HIDE DEF kk, rc
  <2>5. e[m + 1].key = ExpandEncKey(kk, rc)
    BY <2>2, <2>4
  <2>6. ExpandDecKey(e[m + 1].key, rc) = kk
    BY <1>a, <2>2, <2>3, <2>5
  <2> QED
    BY <2>5, <2>6 DEF kk, rc
<1> QED
  BY <1>2, <1>4, <1>8, <1>9 DEF e
-----------------------------------------------------------------------------
(* Append, on sequences as functions. *)
LEMMA AppendAt ==
  ASSUME NEW n \in Nat, NEW f, f = [m \in 1 .. n |-> f[m]], NEW x
  PROVE  Append(f, x) = [m \in 1 .. n + 1 |-> IF m <= n THEN f[m] ELSE x]
<1> DEFINE S == {f[m] : m \in 1 .. n} \cup {x}
<1>1. f \in [1 .. n -> S]
  OBVIOUS
<1>2. f \in Seq(S) /\ Len(f) = n
  BY <1>1
<1>3. x \in S
  OBVIOUS
<1> HIDE DEF S
<1>4. /\ Append(f, x) \in Seq(S) /\ Len(Append(f, x)) = n + 1
      /\ \A m \in 1 .. n : Append(f, x)[m] = f[m]
      /\ Append(f, x)[n + 1] = x
  BY <1>2, <1>3, AppendProperties
<1>5. Append(f, x) \in [1 .. n + 1 -> S]
  BY <1>4, LenProperties
<1>6. Append(f, x) = [m \in 1 .. n + 1 |-> Append(f, x)[m]]
  BY <1>5
<1>7. \A m \in 1 .. n + 1 : Append(f, x)[m] = IF m <= n THEN f[m] ELSE x
  BY <1>4
<1> QED
  BY <1>6, <1>7

(* A sequence to which x[1], x[2], ... are appended: all that were before  *)
(* the last are its beginnings.                                            *)
Grows(s, x, m, N) ==
  /\ s[0] = [k \in 1 .. m |-> s[0][k]]
  /\ \A t \in 1 .. N : s[t] = Append(s[t - 1], x[t])

LEMMA Grown ==
  ASSUME NEW m \in Nat, NEW N \in Nat, NEW s, NEW x, Grows(s, x, m, N)
  PROVE  /\ \A k \in 1 .. m : s[N][k] = s[0][k]
         /\ \A t \in 1 .. N : s[N][m + t] = x[t]
         /\ \A t \in 0 .. N : \A k \in 1 .. m + t : s[t][k] = s[N][k]
<1> DEFINE It(k) == IF k <= m THEN s[0][k] ELSE x[k - m]
           S == {t \in Nat : t <= N => s[t] = [k \in 1 .. m + t |-> It(k)]}
<1>1. 0 \in S
  BY DEF Grows
<1>2. ASSUME NEW t \in Nat, t \in S
      PROVE  t + 1 \in S
  <2> SUFFICES ASSUME t + 1 <= N
               PROVE  s[t + 1] = [k \in 1 .. m + (t + 1) |-> It(k)]
    OBVIOUS
  <2>1. s[t] = [k \in 1 .. m + t |-> It(k)]
    BY <1>2
  <2>2. s[t + 1] = Append(s[t], x[t + 1])
    <3>1. t + 1 \in 1 .. N /\ (t + 1) - 1 = t
      OBVIOUS
    <3> QED
      BY <3>1 DEF Grows
  <2> DEFINE f == s[t]
  <2>3. m + t \in Nat /\ f = [k \in 1 .. m + t |-> f[k]]
    BY <2>1
  <2> HIDE DEF f
  <2>4. Append(f, x[t + 1]) = [k \in 1 .. (m + t) + 1 |-> IF k <= m + t THEN f[k] ELSE x[t + 1]]
    BY <2>3, AppendAt
  <2>5. \A k \in 1 .. (m + t) + 1 : (IF k <= m + t THEN f[k] ELSE x[t + 1]) = It(k)
    <3>1. ASSUME NEW k \in 1 .. (m + t) + 1
          PROVE  (IF k <= m + t THEN f[k] ELSE x[t + 1]) = It(k)
      <4>1. CASE k <= m + t
        <5>1. k \in 1 .. m + t
          BY <4>1
        <5> QED
          BY <4>1, <5>1, <2>1 DEF f
      <4>2. CASE ~(k <= m + t)
        <5>1. k - m = t + 1 /\ ~(k <= m)
          BY <4>2
        <5> QED
          BY <4>2, <5>1
      <4> QED
        BY <4>1, <4>2
    <3> QED
      BY <3>1
  <2>6. (m + t) + 1 = m + (t + 1)
    OBVIOUS
  <2> HIDE DEF It
  <2> QED
    BY <2>2, <2>4, <2>5, <2>6 DEF f
<1>3. ASSUME NEW t \in 0 .. N, NEW k \in 1 .. m + t
      PROVE  s[t][k] = It(k)
  <2>1. Nat \subseteq S
    BY <1>1, <1>2, SetInduction
  <2>2. s[t] = [kk \in 1 .. m + t |-> It(kk)]
    BY <2>1
  <2> HIDE DEF It
  <2> QED
    BY <2>2
<1> HIDE DEF S
<1>4. \A k \in 1 .. m : s[N][k] = s[0][k]
  <2>1. ASSUME NEW k \in 1 .. m PROVE s[N][k] = s[0][k]
    <3>1. k \in 1 .. m + N /\ k <= m /\ N \in 0 .. N
      OBVIOUS
    <3> QED
      BY <1>3, <3>1
  <2> QED
    BY <2>1
<1>5. \A t \in 1 .. N : s[N][m + t] = x[t]
  <2>1. ASSUME NEW t \in 1 .. N PROVE s[N][m + t] = x[t]
    <3>1. m + t \in 1 .. m + N /\ ~(m + t <= m) /\ (m + t) - m = t /\ N \in 0 .. N
      OBVIOUS
    <3> QED
      BY <1>3, <3>1
  <2> QED
    BY <2>1
<1>6. \A t \in 0 .. N : \A k \in 1 .. m + t : s[t][k] = s[N][k]
  <2>1. ASSUME NEW t \in 0 .. N, NEW k \in 1 .. m + t PROVE s[t][k] = s[N][k]
    <3>1. k \in 1 .. m + N /\ N \in 0 .. N
      OBVIOUS
    <3> QED
      BY <1>3, <3>1
  <2> QED
    BY <2>1
<1> QED
  BY <1>4, <1>5, <1>6

(* The standard's key schedule: the words of a key, and those appended. *)
FirstWords(k) == [m \in 1 .. 8 |-> [b \in 0 .. 3 |-> k[4 * (m - 1) + b]]]
WordChain(s, n, k) ==
  /\ s[0] = FirstWords(k)
  /\ \A t \in 1 .. n : s[t] = Append(s[t - 1], NextWord(s[t - 1], (t) + 8))

LEMMA WordChains ==
  ASSUME NEW k
  PROVE  \A n \in Nat : \E s : WordChain(s, n, k)
<1> DEFINE S == {n \in Nat : \E s : WordChain(s, n, k)}
<1>1. 0 \in S
  <2>1. WordChain([t \in {0} |-> FirstWords(k)], 0, k)
    BY DEF WordChain
  <2> QED
    BY <2>1
<1>2. ASSUME NEW n \in Nat, n \in S
      PROVE  n + 1 \in S
  <2>1. PICK s : WordChain(s, n, k)
    BY <1>2
  <2> DEFINE new == Append(s[n], NextWord(s[n], (n + 1) + 8))
             y == [t \in 0 .. n + 1 |-> IF t = n + 1 THEN new ELSE s[t]]
  <2>2. y[0] = FirstWords(k)
    BY <2>1 DEF WordChain
  <2>3. ASSUME NEW t \in 1 .. n + 1
        PROVE  y[t] = Append(y[t - 1], NextWord(y[t - 1], (t) + 8))
    <3>1. y[t - 1] = s[t - 1]
      OBVIOUS
    <3>2. CASE t = n + 1
      <4>1. y[t] = new /\ t - 1 = n
        BY <3>2
      <4> QED
        BY <3>1, <3>2, <4>1
    <3>3. CASE t # n + 1
      <4>1. t \in 1 .. n /\ y[t] = s[t]
        BY <3>3
      <4> QED
        BY <2>1, <3>1, <4>1 DEF WordChain
    <3> QED
      BY <3>2, <3>3
  <2>4. WordChain(y, n + 1, k)
    BY <2>2, <2>3 DEF WordChain
  <2> QED
    BY <2>4
<1>3. Nat \subseteq S
  BY <1>1, <1>2, SetInduction
<1> QED
  BY <1>3

LEMMA WordChainIs ==
  ASSUME NEW k
  PROVE  \E s : WordChain(s, 52, k) /\ KeyWords(k) = s[52]
<1>1. PICK s : WordChain(s, 52, k)
  BY WordChains
<1> DEFINE A == [t \in 0 .. 52 |-> s[t]]
           Once(f) == [t \in 0 .. 52 |-> IF t = 0 THEN FirstWords(k)
                                      ELSE Append(f[t - 1], NextWord(f[t - 1], (t) + 8))]
           V == CHOOSE f : f = Once(f)
<1>2. A = Once(A)
  <2>1. ASSUME NEW t \in 0 .. 52
        PROVE  A[t] = IF t = 0 THEN FirstWords(k)
                      ELSE Append(A[t - 1], NextWord(A[t - 1], (t) + 8))
    <3>1. CASE t = 0
      BY <1>1, <3>1 DEF WordChain
    <3>2. CASE t # 0
      <4>1. t \in 1 .. 52 /\ t - 1 \in 0 .. 52
        BY <3>2
      <4> QED
        BY <1>1, <3>2, <4>1 DEF WordChain
    <3> QED
      BY <3>1, <3>2
  <2> QED
    BY <2>1
<1>3. V = Once(V)
  BY <1>2
<1>4. KeyWords(k) = V[52]
  BY DEF KeyWords, FirstWords
<1> HIDE DEF V
<1>5. WordChain(V, 52, k)
  <2>1. V[0] = FirstWords(k)
    BY <1>3
  <2>2. ASSUME NEW t \in 1 .. 52
        PROVE  V[t] = Append(V[t - 1], NextWord(V[t - 1], (t) + 8))
    <3>1. t \in 0 .. 52 /\ t # 0
      OBVIOUS
    <3> QED
      BY <1>3, <3>1
  <2> QED
    BY <2>1, <2>2 DEF WordChain
<1> QED
  BY <1>4, <1>5

(* What is added to byte b of word n, with the word before it. *)
Turn(before, n, b) ==
  CASE n % 8 = 1 -> Xor(SBox[before[(b + 1) % 4]], IF b = 0 THEN Rcon(n \div 8) ELSE {})
    [] n % 8 = 5 -> SBox[before[b]]
    [] OTHER -> before[b]

(* The words of a key: its own eight, and each of the others from two     *)
(* before it.                                                              *)
WordsFollow(w, k) ==
  /\ \A t \in 1 .. 8 : w[t] = FirstWords(k)[t]
  /\ \A t \in 9 .. 60 : w[t] = [b \in 0 .. 3 |-> Xor(w[t - 8][b], Turn(w[t - 1], t, b))]

LEMMA WordsAre ==
  ASSUME NEW k
  PROVE  WordsFollow(KeyWords(k), k)
<1>1. PICK w : WordChain(w, 52, k) /\ KeyWords(k) = w[52]
  BY WordChainIs
<1> DEFINE W == KeyWords(k)
           x == [t \in 1 .. 52 |-> NextWord(w[t - 1], t + 8)]
<1>2. w[0] = FirstWords(k) /\ \A t \in 1 .. 52 : w[t] = Append(w[t - 1], x[t])
  BY <1>1 DEF WordChain
<1>3. w[0] = [j \in 1 .. 8 |-> w[0][j]]
  BY <1>2 DEF FirstWords
<1>4. W = w[52] /\ \A t \in 1 .. 52 : x[t] = NextWord(w[t - 1], t + 8)
  BY <1>1
<1> HIDE DEF x, W
<1>5. Grows(w, x, 8, 52)
  BY <1>2, <1>3 DEF Grows
<1>6. /\ \A j \in 1 .. 8 : W[j] = w[0][j]
      /\ \A t \in 1 .. 52 : W[8 + t] = x[t]
      /\ \A t \in 0 .. 52 : \A j \in 1 .. 8 + t : w[t][j] = W[j]
  <2> DEFINE m == 8
             N == 52
  <2>1. m \in Nat /\ N \in Nat /\ Grows(w, x, m, N)
    BY <1>5
  <2> HIDE DEF m, N
  <2>2. /\ \A j \in 1 .. m : w[N][j] = w[0][j]
        /\ \A t \in 1 .. N : w[N][m + t] = x[t]
        /\ \A t \in 0 .. N : \A j \in 1 .. m + t : w[t][j] = w[N][j]
    BY <2>1, Grown
  <2> QED
    BY <1>4, <2>2 DEF m, N
<1>7. \A t \in 1 .. 8 : W[t] = FirstWords(k)[t]
  BY <1>2, <1>6
<1>8. ASSUME NEW t \in 9 .. 60
      PROVE  W[t] = [b \in 0 .. 3 |-> Xor(W[t - 8][b], Turn(W[t - 1], t, b))]
  <2> DEFINE n == t - 8
  <2>1. n \in 1 .. 52 /\ 8 + n = t /\ n + 8 = t /\ n - 1 \in 0 .. 52
    OBVIOUS
  <2>2. W[t] = NextWord(w[n - 1], t)
    <3>1. W[8 + n] = x[n] /\ x[n] = NextWord(w[n - 1], n + 8)
      BY <1>4, <1>6, <2>1
    <3> QED
      BY <2>1, <3>1
  <2>3. t - 1 \in 1 .. 8 + (n - 1) /\ t - 8 \in 1 .. 8 + (n - 1)
    OBVIOUS
  <2> HIDE DEF n
  <2>4. w[n - 1][t - 1] = W[t - 1] /\ w[n - 1][t - 8] = W[t - 8]
    BY <1>6, <2>1, <2>3
  <2> DEFINE v == w[n - 1]
             a == v[t - 1]
             c == v[t - 8]
  <2>5. NextWord(v, t) = Table([b \in 0 .. 3 |-> Xor(c[b], Turn(a, t, b))])
    BY DEF NextWord, Turn
  <2>6. NextWord(v, t) = [b \in 0 .. 3 |-> Xor(c[b], Turn(a, t, b))]
    BY <2>5, TableIs
  <2> QED
    BY <2>2, <2>4, <2>6
<1>9. WordsFollow(W, k)
  BY <1>7, <1>8 DEF WordsFollow
<1> QED
  BY <1>9 DEF W

(* The word before word i of a key N, of which the key before is k. *)
WordBefore(before, k, N, h) ==
  \A c \in 0 .. 3 : before[c] = IF h = 0 THEN k[28 + c] ELSE N[4 * (h - 1) + c]

(* It is what the code adds to the bytes of the key. *)
LEMMA TurnIs ==
  ASSUME SBoxAssumption, NEW k \in Key, NEW N \in Key, NEW m \in Nat,
         NEW h \in Nat, h <= 7, NEW b \in Nat, b <= 3, NEW before, WordBefore(before, k, N, h),
         NEW rc, rc = {m}, NEW t, t = 8 * (m + 1) + h + 1, NEW p, p = 4 * h + b
  PROVE  Turn(before, t, b) = Carry(k, N, rc, p)
<1>1. \A x \in Byte : SBox[x] = rj_sbox[x]
  BY DEF SBoxAssumption
<1>2. CASE h = 0
  <2>1. t % 8 = 1 /\ t \div 8 = m + 1 /\ p = b
    BY <1>2
  <2> DEFINE c == (b + 1) % 4
  <2>2. c \in 0 .. 3 /\ 28 + c \in KeyIndex
    BY DEF KeyIndex
  <2>3. before[c] = k[28 + c] /\ k[28 + c] \in Byte
    BY <1>2, <2>2 DEF Key, WordBefore
  <2>4. Rcon(t \div 8) = rc
    <3>1. (m + 1) - 1 = m
      OBVIOUS
    <3> QED
      BY <2>1, <3>1 DEF Rcon
  <2>5. Turn(before, t, b) = Xor(rj_sbox[k[28 + c]], IF b = 0 THEN rc ELSE {})
    <3>1. SBox[before[c]] = rj_sbox[k[28 + c]]
      BY <1>1, <2>3
    <3>2. Turn(before, t, b) = Xor(SBox[before[c]], IF b = 0 THEN Rcon(t \div 8) ELSE {})
      BY <2>1 DEF Turn
    <3> QED
      BY <3>1, <3>2, <2>4
  <2>6. CASE b = 0
    <3>1. 28 + c = 29 /\ p = 0
      BY <2>1, <2>6
    <3> QED
      <4>1. Carry(k, N, rc, p) = Xor(rj_sbox[k[29]], rc)
        <5>1. Carry(k, N, rc, 0) = Xor(rj_sbox[k[29]], rc)
          BY DEF Carry
        <5> QED
          BY <3>1, <5>1
      <4>2. Turn(before, t, b) = Xor(rj_sbox[k[29]], rc)
        BY <2>5, <2>6, <3>1
      <4> QED
        BY <4>1, <4>2
  <2>7. CASE b # 0
    <3>1. p # 0 /\ p \in 1 .. 3
      BY <2>1, <2>7
    <3>2. Carry(k, N, rc, p) = rj_sbox[k[28 + c]]
      BY <2>1, <3>1 DEF Carry
    <3>3. \A y : Xor(y, {}) = y
      BY DEF Xor
    <3> QED
      BY <2>5, <2>7, <3>2, <3>3
  <2> QED
    BY <2>6, <2>7
<1>3. CASE h = 4
  <2>1. t % 8 = 5 /\ p \in 16 .. 19 /\ p # 0 /\ p \notin 1 .. 3 /\ p - 4 = 4 * (h - 1) + b
    BY <1>3
  <2>2. before[b] = N[p - 4]
    BY <1>3, <2>1 DEF WordBefore
  <2>3. N[p - 4] \in Byte
    <3>1. p - 4 \in KeyIndex
      BY <2>1 DEF KeyIndex
    <3> QED
      BY <3>1 DEF Key
  <2>4. t % 8 # 1
    BY <2>1
  <2>5. Turn(before, t, b) = rj_sbox[N[p - 4]]
    BY <1>1, <2>1, <2>2, <2>3, <2>4 DEF Turn
  <2>6. Carry(k, N, rc, p) = rj_sbox[N[p - 4]]
    BY <2>1 DEF Carry
  <2> QED
    BY <2>5, <2>6
<1>4. CASE h # 0 /\ h # 4
  <2>1. t % 8 # 5 /\ t % 8 # 1
    <3>1. t % 8 = (h + 1) % 8
      OBVIOUS
    <3> QED
      BY <1>4, <3>1
  <2>2. p \notin 16 .. 19 /\ p # 0 /\ p \notin 1 .. 3 /\ p - 4 = 4 * (h - 1) + b
    BY <1>4
  <2>3. before[b] = N[p - 4]
    BY <1>4, <2>2 DEF WordBefore
  <2>4. Turn(before, t, b) = N[p - 4]
    BY <2>1, <2>3 DEF Turn
  <2>5. Carry(k, N, rc, p) = N[p - 4]
    BY <2>2 DEF Carry
  <2> QED
    BY <2>4, <2>5
<1> QED
  BY <1>2, <1>3, <1>4

(* Eight words are the key after as many turns. *)
LEMMA WordsExpanded ==
  ASSUME SBoxAssumption, NEW k \in Key
  PROVE  \A j \in 0 .. 59 : \A b \in 0 .. 3 :
           KeyWords(k)[j + 1][b] = Expanded(k)[j \div 8].key[4 * (j % 8) + b]
<1> DEFINE W == KeyWords(k)
           e(m) == Expanded(k)[m].key
           P(j) == \A b \in 0 .. 3 : W[j + 1][b] = e(j \div 8)[4 * (j % 8) + b]
           S == {n \in Nat : \A j \in 0 .. 59 : j < n => P(j)}
<1>1. /\ e(0) = k
      /\ \A m \in 0 .. 7 : e(m) \in Key
      /\ \A m \in 0 .. 6 : e(m + 1) = ExpandEncKey(e(m), {m})
  BY ExpandedIs
<1>w. WordsFollow(W, k)
  BY WordsAre
<1> HIDE DEF W, e
<1>2. \A t \in 1 .. 8 : W[t] = FirstWords(k)[t]
  BY <1>w DEF WordsFollow
<1>3. \A t \in 9 .. 60 : W[t] = [b \in 0 .. 3 |-> Xor(W[t - 8][b], Turn(W[t - 1], t, b))]
  BY <1>w DEF WordsFollow
<1>4. ASSUME NEW n \in 0 .. 59, n < 8
      PROVE  P(n)
  <2>1. n \div 8 = 0 /\ n % 8 = n /\ n + 1 \in 1 .. 8 /\ (n + 1) - 1 = n
    BY <1>4
  <2>2. W[n + 1] = FirstWords(k)[n + 1]
    BY <1>2, <2>1
  <2>3. FirstWords(k)[n + 1] = [b \in 0 .. 3 |-> k[4 * n + b]]
    BY <2>1 DEF FirstWords
  <2>4. \A b \in 0 .. 3 : W[n + 1][b] = k[4 * n + b]
    BY <2>2, <2>3
  <2> QED
    BY <1>1, <2>1, <2>4
<1>5. ASSUME NEW n \in 0 .. 59, n >= 8, \A j \in 0 .. 59 : j < n => P(j)
      PROVE  P(n)
  <2> DEFINE m == (n \div 8) - 1
             h == n % 8
  <2>1. m \in 0 .. 6 /\ m + 1 = n \div 8 /\ h \in 0 .. 7 /\ n = 8 * (m + 1) + h
    BY <1>5
  <2> DEFINE t == n + 1
             before == W[t - 1]
             N == e(m + 1)
             km == e(m)
  <2>2. t \in 9 .. 60 /\ t = 8 * (m + 1) + h + 1 /\ (n - 8) + 1 = t - 8 /\ (n - 1) + 1 = t - 1
    BY <1>5, <2>1
  <2>3. /\ n - 8 \in 0 .. 59 /\ n - 8 < n /\ n - 1 \in 0 .. 59 /\ n - 1 < n
        /\ (n - 8) \div 8 = m /\ (n - 8) % 8 = h
    <3> HIDE DEF m, h
    <3> QED
      BY <1>5, <2>1
  <2>4. P(n - 8) /\ P(n - 1)
    BY <1>5, <2>3
  <2>5. m + 1 \in 0 .. 7 /\ m \in 0 .. 7
    BY <2>1
  <2>6. N = OnceMore(km, N, {m}) /\ km \in Key /\ N \in Key
    <3>1. N = ExpandEncKey(km, {m}) /\ km \in Key /\ N \in Key
      BY <1>1, <2>1, <2>5
    <3> QED
      BY <3>1, EncIs
  <2>7. \A b \in 0 .. 3 : W[t - 8][b] = km[4 * h + b]
    BY <2>2, <2>3, <2>4
  <2>8. h = 0 => \A c \in 0 .. 3 : before[c] = km[28 + c]
    <3> SUFFICES ASSUME h = 0 PROVE \A c \in 0 .. 3 : before[c] = km[28 + c]
      OBVIOUS
    <3>1. (n - 1) \div 8 = m /\ (n - 1) % 8 = 7
      <4> HIDE DEF m, h
      <4> QED
        BY <2>1
    <3> QED
      BY <2>2, <2>4, <3>1
  <2>9. h # 0 => \A c \in 0 .. 3 : before[c] = N[4 * (h - 1) + c]
    <3> SUFFICES ASSUME h # 0 PROVE \A c \in 0 .. 3 : before[c] = N[4 * (h - 1) + c]
      OBVIOUS
    <3>1. (n - 1) \div 8 = m + 1 /\ (n - 1) % 8 = h - 1
      <4> HIDE DEF m, h
      <4> QED
        BY <2>1
    <3> QED
      BY <2>2, <2>4, <3>1
  <2>10. W[t] = [b \in 0 .. 3 |-> Xor(W[t - 8][b], Turn(before, t, b))]
    BY <1>3, <2>2
  <2>11. m \in Nat
    BY <2>1
  <2>a. WordBefore(before, km, N, h)
    BY <2>8, <2>9 DEF WordBefore
  <2>b. h \in Nat /\ h <= 7
    BY <2>1
  <2> HIDE DEF m, h, t, before, N, km
  <2>12. ASSUME NEW b \in 0 .. 3
         PROVE  W[t][b] = N[4 * h + b]
    <3>1. Turn(before, t, b) = Carry(km, N, {m}, 4 * h + b)
      <4> DEFINE rc == {m}
                 p == 4 * h + b
      <4>1. b \in Nat /\ b <= 3 /\ p = 4 * h + b /\ t = 8 * (m + 1) + h + 1 /\ rc = {m}
        BY <2>2
      <4> HIDE DEF p, rc
      <4>2. Turn(before, t, b) = Carry(km, N, rc, p)
        BY <2>6, <2>11, <2>a, <2>b, <4>1, TurnIs
      <4> QED
        BY <4>2 DEF p, rc
    <3>2. 4 * h + b \in KeyIndex
      BY <2>1 DEF KeyIndex
    <3>3. N[4 * h + b] = Xor(km[4 * h + b], Carry(km, N, {m}, 4 * h + b))
      <4> DEFINE q == 4 * h + b
      <4> HIDE DEF q
      <4>1. OnceMore(km, N, {m})[q] = Xor(km[q], Carry(km, N, {m}, q))
        BY <3>2 DEF OnceMore, q
      <4> QED
        BY <2>6, <4>1 DEF q
    <3>4. W[t][b] = Xor(W[t - 8][b], Turn(before, t, b))
      BY <2>10
    <3> QED
      BY <2>7, <3>1, <3>3, <3>4
  <2>13. W[n + 1] = W[t]
    BY DEF t
  <2>14. e(n \div 8) = N /\ n % 8 = h
    BY <2>1 DEF N, h
  <2> QED
    BY <2>12, <2>13, <2>14
<1>6. 0 \in S
  OBVIOUS
<1>7. ASSUME NEW n \in Nat, n \in S
      PROVE  n + 1 \in S
  <2>1. \A j \in 0 .. 59 : j < n => P(j)
    BY <1>7
  <2>2. n \in 0 .. 59 => P(n)
    <3> HIDE DEF P
    <3> QED
      BY <1>4, <1>5, <2>1
  <2> HIDE DEF P
  <2>3. \A j \in 0 .. 59 : j < n + 1 => P(j)
    <3>1. ASSUME NEW j \in 0 .. 59, j < n + 1
          PROVE  P(j)
      <4>1. j < n \/ j = n
        BY <3>1
      <4> QED
        BY <2>1, <2>2, <4>1
    <3> QED
      BY <3>1
  <2> QED
    BY <2>3
<1>8. Nat \subseteq S
  <2> HIDE DEF S
  <2> QED
    BY <1>6, <1>7, SetInduction
<1>9. \A j \in 0 .. 59 : P(j)
  <2>1. 60 \in S
    BY <1>8
  <2> HIDE DEF P
  <2> QED
    BY <2>1
<1> QED
  BY <1>9 DEF W, e

(* The lower half of the key. *)
Lower(k) == [n \in BlockIndex |-> k[n]]

LEMMA RoundKeysAre ==
  ASSUME SBoxAssumption, AesAssumption, NEW k \in AesKeys
  PROVE  /\ \A m \in 0 .. 7 : RoundKeys[k][2 * m] = Lower(Expanded(k)[m].key)
         /\ \A m \in 0 .. 6 : RoundKeys[k][2 * m + 1] = Upper(Expanded(k)[m].key)
         /\ \A r \in 0 .. 14 : RoundKeys[k][r] \in Block
<1> DEFINE W == KeyWords(k)
           e(m) == Expanded(k)[m].key
<1>1. k \in Key
  BY DEF AesAssumption
<1>2. \A m \in 0 .. 7 : e(m) \in Key
  BY <1>1, ExpandedIs
<1>3. \A j \in 0 .. 59 : \A b \in 0 .. 3 : W[j + 1][b] = e(j \div 8)[4 * (j % 8) + b]
  BY <1>1, WordsExpanded
<1>4. \A r \in 0 .. 14 : RoundKeys[k][r] = [n \in BlockIndex |-> W[4 * r + (n \div 4) + 1][n % 4]]
  <2> DEFINE R(w) == [r \in 0 .. 14 |-> Table([n \in BlockIndex |-> w[4 * r + (n \div 4) + 1][n % 4]])]
  <2>1. RoundKeys = [x \in AesKeys |-> Table(R(KeyWords(x)))]
    BY TableIs DEF RoundKeys
  <2>2. RoundKeys[k] = R(W)
    BY <2>1, TableIs
  <2>3. ASSUME NEW r \in 0 .. 14
        PROVE  R(W)[r] = [n \in BlockIndex |-> W[4 * r + (n \div 4) + 1][n % 4]]
    <3> DEFINE f == [n \in BlockIndex |-> W[4 * r + (n \div 4) + 1][n % 4]]
    <3>1. R(W)[r] = Table(f)
      OBVIOUS
    <3> QED
      BY <3>1, TableIs
  <2> QED
    BY <2>2, <2>3
<1> HIDE DEF W, e
<1>5. ASSUME NEW m \in 0 .. 7
      PROVE  RoundKeys[k][2 * m] = Lower(e(m)) /\ RoundKeys[k][2 * m] \in Block
  <2>1. ASSUME NEW n \in BlockIndex
        PROVE  W[4 * (2 * m) + (n \div 4) + 1][n % 4] = e(m)[n]
    <3> DEFINE j == 4 * (2 * m) + (n \div 4)
               b == n % 4
    <3>1. n \div 4 \in 0 .. 3 /\ b \in 0 .. 3 /\ n = 4 * (n \div 4) + b
      BY DEF BlockIndex
    <3>2. j \in 0 .. 59 /\ j \div 8 = m /\ 4 * (j % 8) + b = n
      <4> DEFINE q == n \div 4
      <4>1. q \in 0 .. 3 /\ n = 4 * q + b /\ j = 8 * m + q
        BY <3>1
      <4> HIDE DEF b, q, j
      <4>2. j \div 8 = m /\ j % 8 = q
        BY <4>1
      <4>3. j \in 0 .. 59
        BY <4>1
      <4> QED
        BY <4>1, <4>2, <4>3
    <3> HIDE DEF j, b
    <3>3. W[j + 1][b] = e(j \div 8)[4 * (j % 8) + b]
      BY <1>3, <3>1, <3>2
    <3> QED
      BY <3>2, <3>3 DEF j, b
  <2>2. 2 * m \in 0 .. 14
    OBVIOUS
  <2> DEFINE r == 2 * m
  <2>3. RoundKeys[k][r] = [n \in BlockIndex |-> W[4 * r + (n \div 4) + 1][n % 4]]
    BY <1>4, <2>2
  <2>4. RoundKeys[k][r] = [n \in BlockIndex |-> e(m)[n]]
    BY <2>1, <2>3
  <2>5. \A n \in BlockIndex : e(m)[n] \in Byte
    BY <1>2 DEF Key, BlockIndex, KeyIndex
  <2> QED
    BY <2>4, <2>5 DEF Lower, Block
<1>6. ASSUME NEW m \in 0 .. 6
      PROVE  RoundKeys[k][2 * m + 1] = Upper(e(m)) /\ RoundKeys[k][2 * m + 1] \in Block
  <2>1. ASSUME NEW n \in BlockIndex
        PROVE  W[4 * (2 * m + 1) + (n \div 4) + 1][n % 4] = e(m)[16 + n]
    <3> DEFINE j == 4 * (2 * m + 1) + (n \div 4)
               b == n % 4
    <3>1. n \div 4 \in 0 .. 3 /\ b \in 0 .. 3 /\ n = 4 * (n \div 4) + b
      BY DEF BlockIndex
    <3>2. j \in 0 .. 59 /\ j \div 8 = m /\ 4 * (j % 8) + b = 16 + n
      <4> DEFINE q == n \div 4
                 u == 4 + q
      <4>1. u \in 4 .. 7 /\ n = 4 * q + b /\ q \in 0 .. 3 /\ j = 8 * m + u /\ u = 4 + q
        BY <3>1
      <4> HIDE DEF b, q, j, u
      <4>2. j \div 8 = m /\ j % 8 = u
        BY <4>1
      <4> QED
        BY <3>1, <4>1, <4>2
    <3> HIDE DEF j, b
    <3>3. W[j + 1][b] = e(j \div 8)[4 * (j % 8) + b]
      BY <1>3, <3>1, <3>2
    <3> QED
      BY <3>2, <3>3 DEF j, b
  <2>2. 2 * m + 1 \in 0 .. 14
    OBVIOUS
  <2> DEFINE r == 2 * m + 1
  <2>3. RoundKeys[k][r] = [n \in BlockIndex |-> W[4 * r + (n \div 4) + 1][n % 4]]
    BY <1>4, <2>2
  <2>4. RoundKeys[k][r] = [n \in BlockIndex |-> e(m)[16 + n]]
    BY <2>1, <2>3
  <2>5. \A n \in BlockIndex : e(m)[16 + n] \in Byte
    <3>1. \A n \in BlockIndex : 16 + n \in KeyIndex
      BY DEF BlockIndex, KeyIndex
    <3>2. m \in 0 .. 7
      OBVIOUS
    <3> QED
      BY <1>2, <3>1, <3>2 DEF Key
  <2> QED
    BY <2>4, <2>5 DEF Upper, Block
<1>7. ASSUME NEW r \in 0 .. 14
      PROVE  RoundKeys[k][r] \in Block
  <2>1. CASE r % 2 = 0
    <3>1. r \div 2 \in 0 .. 7 /\ 2 * (r \div 2) = r
      BY <2>1
    <3> QED
      BY <1>5, <3>1
  <2>2. CASE r % 2 # 0
    <3>1. r \div 2 \in 0 .. 6 /\ 2 * (r \div 2) + 1 = r
      BY <2>2
    <3> QED
      BY <1>6, <3>1
  <2> QED
    BY <2>1, <2>2
<1> QED
  BY <1>5, <1>6, <1>7 DEF e
-----------------------------------------------------------------------------
(* The rounds.  Only half of the key that AddRoundKey is given is used. *)
LEMMA HalfKey ==
  ASSUME NEW s, NEW k
  PROVE  AddRoundKey(s, k) = AddRoundKey(s, Lower(k))
BY DEF AddRoundKey, Lower

(* On from round r: what the code has of the key, and the round's key. *)
OnTo(k, r, mem, rc) ==
  /\ r % 2 = 1 => /\ mem = Expanded(k)[r \div 2].key /\ rc = {r \div 2}
                  /\ RoundKeys[k][r] = Upper(mem)
  /\ r % 2 # 1 => /\ ExpandEncKey(mem, rc) = Expanded(k)[r \div 2].key /\ F(rc) = {r \div 2}
                  /\ RoundKeys[k][r] = Lower(ExpandEncKey(mem, rc))

LEMMA Onward ==
  ASSUME SBoxAssumption, AesAssumption, NEW k \in AesKeys, NEW r \in Nat, 1 <= r, r <= 14,
         NEW mem, mem = Expanded(k)[(r - 1) \div 2].key, NEW rc, rc = {(r - 1) \div 2}
  PROVE  OnTo(k, r, mem, rc)
<1>1. k \in Key
  BY DEF AesAssumption
<1> DEFINE m == (r - 1) \div 2
           l == r \div 2
           e(h) == Expanded(k)[h].key
<1>2. \A h \in 0 .. 6 : e(h + 1) = ExpandEncKey(e(h), {h}) /\ F({h}) = {h + 1}
  BY <1>1, ExpandedIs
<1>3. /\ \A h \in 0 .. 7 : RoundKeys[k][2 * h] = Lower(e(h))
      /\ \A h \in 0 .. 6 : RoundKeys[k][2 * h + 1] = Upper(e(h))
  BY RoundKeysAre
<1>4. mem = e(m) /\ rc = {m}
  OBVIOUS
<1>5. m \in 0 .. 6
  OBVIOUS
<1>6. CASE r % 2 = 1
  <2>1. m = l /\ r = 2 * m + 1
    BY <1>6
  <2> HIDE DEF m, l, e
  <2>2. RoundKeys[k][2 * m + 1] = Upper(e(m))
    BY <1>3, <1>5
  <2>3. mem = e(l) /\ rc = {l} /\ RoundKeys[k][r] = Upper(mem)
    BY <1>4, <2>1, <2>2
  <2> QED
    BY <1>6, <2>3 DEF l, e, OnTo
<1>7. CASE r % 2 # 1
  <2>1. m + 1 = l /\ r = 2 * l /\ l \in 0 .. 7
    BY <1>7
  <2> HIDE DEF m, l, e
  <2>2. RoundKeys[k][2 * l] = Lower(e(l))
    BY <1>3, <2>1
  <2>3. e(m + 1) = ExpandEncKey(e(m), {m}) /\ F({m}) = {m + 1}
    BY <1>2, <1>5
  <2>4. ExpandEncKey(mem, rc) = e(l) /\ F(rc) = {l}
    BY <1>4, <2>1, <2>3
  <2>5. RoundKeys[k][r] = Lower(ExpandEncKey(mem, rc))
    BY <2>1, <2>2, <2>4
  <2> QED
    BY <1>7, <2>4, <2>5 DEF l, e, OnTo
<1> QED
  BY <1>6, <1>7

(* And back. *)
BackTo(k, r, mem, rc) ==
  /\ r % 2 = 1 => /\ FD(rc) = {r \div 2}
                  /\ ExpandDecKey(mem, FD(rc)) = Expanded(k)[r \div 2].key
                  /\ RoundKeys[k][r] = Upper(ExpandDecKey(mem, FD(rc)))
  /\ r % 2 # 1 => /\ mem = Expanded(k)[r \div 2].key /\ rc = {r \div 2}
                  /\ RoundKeys[k][r] = Lower(mem)

LEMMA Backward ==
  ASSUME SBoxAssumption, AesAssumption, NEW k \in AesKeys, NEW r \in Nat, 1 <= r, r <= 13,
         NEW mem, mem = Expanded(k)[(r + 1) \div 2].key, NEW rc, rc = {(r + 1) \div 2}
  PROVE  BackTo(k, r, mem, rc)
<1>1. k \in Key
  BY DEF AesAssumption
<1> DEFINE m == (r + 1) \div 2
           l == r \div 2
           e(h) == Expanded(k)[h].key
<1>2. \A h \in 0 .. 6 : ExpandDecKey(e(h + 1), {h}) = e(h) /\ FD({h + 1}) = {h}
  BY <1>1, ExpandedIs
<1>3. /\ \A h \in 0 .. 7 : RoundKeys[k][2 * h] = Lower(e(h))
      /\ \A h \in 0 .. 6 : RoundKeys[k][2 * h + 1] = Upper(e(h))
  BY RoundKeysAre
<1>4. mem = e(m) /\ rc = {m}
  OBVIOUS
<1>5. l \in 0 .. 6
  OBVIOUS
<1>6. CASE r % 2 = 1
  <2>1. m = l + 1 /\ r = 2 * l + 1
    BY <1>6
  <2> HIDE DEF m, l, e
  <2>2. RoundKeys[k][2 * l + 1] = Upper(e(l))
    BY <1>3, <1>5
  <2>3. ExpandDecKey(e(l + 1), {l}) = e(l) /\ FD({l + 1}) = {l}
    BY <1>2, <1>5
  <2>4. FD(rc) = {l}
    BY <1>4, <2>1, <2>3
  <2>5. ExpandDecKey(mem, FD(rc)) = e(l)
    BY <1>4, <2>1, <2>3, <2>4
  <2>6. RoundKeys[k][r] = Upper(ExpandDecKey(mem, FD(rc)))
    BY <2>1, <2>2, <2>5
  <2> QED
    BY <1>6, <2>4, <2>5, <2>6 DEF l, e, BackTo
<1>7. CASE r % 2 # 1
  <2>1. m = l /\ r = 2 * l /\ l \in 0 .. 7
    BY <1>7
  <2> HIDE DEF m, l, e
  <2>2. RoundKeys[k][2 * l] = Lower(e(l))
    BY <1>3, <2>1
  <2>3. mem = e(l) /\ rc = {l} /\ RoundKeys[k][r] = Lower(mem)
    BY <1>4, <2>1, <2>2
  <2> QED
    BY <1>7, <2>3 DEF l, e, BackTo
<1> QED
  BY <1>6, <1>7

RoundChain(s, n, k, text) ==
  /\ s[0] = AddRoundKey(text, RoundKeys[k][0])
  /\ \A t \in 1 .. n : s[t] = Table(AddRoundKey(Mixed(ShiftRows(Substituted(s[t - 1]))), RoundKeys[k][t]))

LEMMA RoundChains ==
  ASSUME NEW k, NEW text
  PROVE  \A n \in Nat : \E s : RoundChain(s, n, k, text)
<1> DEFINE S == {n \in Nat : \E s : RoundChain(s, n, k, text)}
<1>1. 0 \in S
  <2>1. RoundChain([t \in {0} |-> AddRoundKey(text, RoundKeys[k][0])], 0, k, text)
    BY DEF RoundChain
  <2> QED
    BY <2>1
<1>2. ASSUME NEW n \in Nat, n \in S
      PROVE  n + 1 \in S
  <2>1. PICK s : RoundChain(s, n, k, text)
    BY <1>2
  <2> DEFINE new == Table(AddRoundKey(Mixed(ShiftRows(Substituted(s[n]))), RoundKeys[k][n + 1]))
             y == [t \in 0 .. n + 1 |-> IF t = n + 1 THEN new ELSE s[t]]
  <2>2. y[0] = AddRoundKey(text, RoundKeys[k][0])
    BY <2>1 DEF RoundChain
  <2>3. ASSUME NEW t \in 1 .. n + 1
        PROVE  y[t] = Table(AddRoundKey(Mixed(ShiftRows(Substituted(y[t - 1]))), RoundKeys[k][t]))
    <3>1. y[t - 1] = s[t - 1]
      OBVIOUS
    <3>2. CASE t = n + 1
      <4>1. y[t] = new /\ t - 1 = n
        BY <3>2
      <4> QED
        BY <3>1, <3>2, <4>1
    <3>3. CASE t # n + 1
      <4>1. t \in 1 .. n /\ y[t] = s[t]
        BY <3>3
      <4> QED
        BY <2>1, <3>1, <4>1 DEF RoundChain
    <3> QED
      BY <3>2, <3>3
  <2>4. RoundChain(y, n + 1, k, text)
    BY <2>2, <2>3 DEF RoundChain
  <2> QED
    BY <2>4
<1>3. Nat \subseteq S
  BY <1>1, <1>2, SetInduction
<1> QED
  BY <1>3

LEMMA RoundChainIs ==
  ASSUME NEW k, NEW text
  PROVE  RoundChain(Rounds(k, text), 13, k, text)
<1>1. PICK s : RoundChain(s, 13, k, text)
  BY RoundChains
<1> DEFINE A == [t \in 0 .. 13 |-> s[t]]
           Once(f) == [t \in 0 .. 13 |-> IF t = 0 THEN AddRoundKey(text, RoundKeys[k][0])
                                      ELSE Table(AddRoundKey(Mixed(ShiftRows(Substituted(f[t - 1]))), RoundKeys[k][t]))]
           V == CHOOSE f : f = Once(f)
<1>2. A = Once(A)
  <2>1. ASSUME NEW t \in 0 .. 13
        PROVE  A[t] = IF t = 0 THEN AddRoundKey(text, RoundKeys[k][0])
                      ELSE Table(AddRoundKey(Mixed(ShiftRows(Substituted(A[t - 1]))), RoundKeys[k][t]))
    <3>1. CASE t = 0
      BY <1>1, <3>1 DEF RoundChain
    <3>2. CASE t # 0
      <4>1. t \in 1 .. 13 /\ t - 1 \in 0 .. 13
        BY <3>2
      <4> QED
        BY <1>1, <3>2, <4>1 DEF RoundChain
    <3> QED
      BY <3>1, <3>2
  <2> QED
    BY <2>1
<1>3. V = Once(V)
  BY <1>2
<1>4. Rounds(k, text) = V
  BY DEF Rounds
<1> HIDE DEF V
<1>5. RoundChain(V, 13, k, text)
  <2>1. V[0] = AddRoundKey(text, RoundKeys[k][0])
    BY <1>3
  <2>2. ASSUME NEW t \in 1 .. 13
        PROVE  V[t] = Table(AddRoundKey(Mixed(ShiftRows(Substituted(V[t - 1]))), RoundKeys[k][t]))
    <3>1. t \in 0 .. 13 /\ t # 0
      OBVIOUS
    <3> QED
      BY <1>3, <3>1
  <2> QED
    BY <2>1, <2>2 DEF RoundChain
<1> QED
  BY <1>4, <1>5

Rounded(s) == MixColumns(ShiftRows(SubBytes(s)))

LEMMA RoundsAre ==
  ASSUME SBoxAssumption, AesAssumption, NEW k \in AesKeys, NEW text \in Block
  PROVE  /\ Rounds(k, text)[0] = AddRoundKey(text, RoundKeys[k][0])
         /\ \A r \in 1 .. 13 : Rounds(k, text)[r] = AddRoundKey(Rounded(Rounds(k, text)[r - 1]), RoundKeys[k][r])
         /\ \A r \in 0 .. 13 : Rounds(k, text)[r] \in Block
         /\ CipherOf(k, text) = AddRoundKey(ShiftRows(SubBytes(Rounds(k, text)[13])), RoundKeys[k][14])
<1> DEFINE s == Rounds(k, text)
           K == RoundKeys[k]
           S == {n \in Nat : n <= 13 => s[n] \in Block}
<1>1. \A r \in 0 .. 14 : K[r] \in Block
  BY RoundKeysAre
<1>2. RoundChain(s, 13, k, text)
  BY RoundChainIs
<1>3. CipherOf(k, text) = AddRoundKey(ShiftRows(Substituted(s[13])), K[14])
  BY DEF CipherOf
<1> HIDE DEF s
<1>4. s[0] = AddRoundKey(text, K[0])
  BY <1>2 DEF RoundChain
<1>5. ASSUME NEW r \in 1 .. 13
      PROVE  s[r] = AddRoundKey(Mixed(ShiftRows(Substituted(s[r - 1]))), K[r])
  <2> DEFINE x == AddRoundKey(Mixed(ShiftRows(Substituted(s[r - 1]))), K[r])
  <2>1. s[r] = Table(x)
    BY <1>2 DEF RoundChain
  <2> QED
    BY <2>1, TableIs
<1> HIDE DEF K
<1>6. ASSUME NEW a \in Block
      PROVE  /\ Mixed(ShiftRows(Substituted(a))) = Rounded(a) /\ Rounded(a) \in Block
             /\ Substituted(a) = SubBytes(a)
  <2>1. Substituted(a) = SubBytes(a) /\ SubBytes(a) \in Block
    BY Steps
  <2> DEFINE u == SubBytes(a)
  <2>2. u \in Block
    BY <2>1
  <2> HIDE DEF u
  <2>3. ShiftRows(u) \in Block
    BY <2>2, Steps
  <2> DEFINE v == ShiftRows(u)
  <2> HIDE DEF v
  <2>4. Mixed(v) = MixColumns(v) /\ MixColumns(v) \in Block
    BY <2>3, Mixing DEF v
  <2> QED
    BY <2>1, <2>4 DEF u, v, Rounded
<1>7. 0 \in S
  BY <1>1, <1>4, Keyed
<1>8. ASSUME NEW n \in Nat, n \in S
      PROVE  n + 1 \in S
  <2>1. CASE n + 1 <= 13
    <3> DEFINE r == n + 1
               a == s[n]
    <3>1. r \in 1 .. 13 /\ r - 1 = n /\ r \in 0 .. 14
      BY <2>1
    <3>2. a \in Block /\ K[r] \in Block
      BY <1>1, <1>8, <2>1, <3>1
    <3>3. s[r] = AddRoundKey(Mixed(ShiftRows(Substituted(a))), K[r])
      BY <1>5, <3>1
    <3> HIDE DEF r, a
    <3> DEFINE b == Rounded(a)
    <3>4. s[r] = AddRoundKey(b, K[r]) /\ b \in Block
      BY <1>6, <3>2, <3>3
    <3> HIDE DEF b
    <3>5. s[r] \in Block
      BY <3>2, <3>4, Keyed
    <3> QED
      BY <3>5 DEF r
  <2> QED
    BY <2>1
<1>9. Nat \subseteq S
  <2> HIDE DEF S
  <2> QED
    BY <1>7, <1>8, SetInduction
<1>10. \A r \in 0 .. 13 : s[r] \in Block
  BY <1>9
<1>11. ASSUME NEW r \in 1 .. 13
       PROVE  s[r] = AddRoundKey(Rounded(s[r - 1]), K[r])
  <2> DEFINE a == s[r - 1]
  <2>1. a \in Block
    <3>1. r - 1 \in 0 .. 13
      OBVIOUS
    <3> QED
      BY <1>10, <3>1
  <2>2. s[r] = AddRoundKey(Mixed(ShiftRows(Substituted(a))), K[r])
    BY <1>5
  <2> HIDE DEF a
  <2>3. s[r] = AddRoundKey(Rounded(a), K[r])
    BY <1>6, <2>1, <2>2
  <2> QED
    BY <2>3 DEF a
<1>12. CipherOf(k, text) = AddRoundKey(ShiftRows(SubBytes(s[13])), K[14])
  <2> DEFINE a == s[13]
  <2>1. a \in Block
    BY <1>10
  <2> HIDE DEF a
  <2>2. Substituted(a) = SubBytes(a)
    BY <1>6, <2>1
  <2> QED
    BY <1>3, <2>2 DEF a
<1> QED
  BY <1>4, <1>10, <1>11, <1>12 DEF s, K

(* A round undone: the code's, and its last. *)
LEMMA Undone ==
  ASSUME SBoxAssumption, NEW s \in Block, NEW k \in Block
  PROVE  LET back == SubBytesInv(ShiftRowsInv(MixColumnsInv(AddRoundKey(s, k))))
             last == SubBytesInv(ShiftRowsInv(AddRoundKey(s, k)))
         IN  /\ back \in Block /\ AddRoundKey(Rounded(back), k) = s
             /\ last \in Block /\ AddRoundKey(ShiftRows(SubBytes(last)), k) = s
<1> DEFINE a == AddRoundKey(s, k)
           b == MixColumnsInv(a)
           Sub(x) == SubBytesInv(ShiftRowsInv(x))
<1>1. a \in Block /\ AddRoundKey(a, k) = s
  BY Keyed
<1> HIDE DEF a
<1>2. b \in Block /\ MixColumns(b) = a
  BY <1>1, Mixing
<1> HIDE DEF b
<1>3. ASSUME NEW x \in Block
      PROVE  Sub(x) \in Block /\ ShiftRows(SubBytes(Sub(x))) = x
  <2> DEFINE u == ShiftRowsInv(x)
  <2>1. u \in Block /\ ShiftRows(u) = x
    BY Steps
  <2> HIDE DEF u
  <2>2. SubBytesInv(u) \in Block /\ SubBytes(SubBytesInv(u)) = u
    BY <2>1, Steps
  <2> QED
    BY <2>1, <2>2 DEF u
<1> HIDE DEF Sub
<1>4. Sub(b) \in Block /\ AddRoundKey(Rounded(Sub(b)), k) = s
  BY <1>1, <1>2, <1>3 DEF Rounded
<1>5. Sub(a) \in Block /\ AddRoundKey(ShiftRows(SubBytes(Sub(a))), k) = s
  BY <1>1, <1>3
<1> QED
  BY <1>4, <1>5 DEF a, b, Sub

(* No two blocks have the same ciphertext: each step of a round can be     *)
(* undone, and so can the key's.                                           *)
LEMMA RoundOneToOne ==
  ASSUME SBoxAssumption, NEW x \in Block, NEW y \in Block, NEW k \in Block
  PROVE  /\ AddRoundKey(Rounded(x), k) = AddRoundKey(Rounded(y), k) => x = y
         /\ AddRoundKey(ShiftRows(SubBytes(x)), k) = AddRoundKey(ShiftRows(SubBytes(y)), k) => x = y
<1> DEFINE Un(z) == SubBytesInv(ShiftRowsInv(z))
<1>1. ASSUME NEW z \in Block
      PROVE  /\ ShiftRows(SubBytes(z)) \in Block
             /\ Un(ShiftRows(SubBytes(z))) = z
  <2> DEFINE u == SubBytes(z)
  <2>1. u \in Block /\ SubBytesInv(u) = z
    BY Steps
  <2> HIDE DEF u
  <2>2. ShiftRows(u) \in Block /\ ShiftRowsInv(ShiftRows(u)) = u
    BY <2>1, Steps
  <2> QED
    BY <2>1, <2>2 DEF u
<1> HIDE DEF Un
<1>2. ASSUME NEW z \in Block
      PROVE  /\ MixColumns(z) \in Block /\ MixColumnsInv(MixColumns(z)) = z
             /\ AddRoundKey(AddRoundKey(z, k), k) = z
  BY Mixing, Keyed
<1> DEFINE s(z) == ShiftRows(SubBytes(z))
           m(z) == MixColumns(s(z))
<1>3. s(x) \in Block /\ s(y) \in Block /\ Un(s(x)) = x /\ Un(s(y)) = y
  BY <1>1
<1> HIDE DEF s
<1>4. /\ m(x) \in Block /\ m(y) \in Block
      /\ MixColumnsInv(m(x)) = s(x) /\ MixColumnsInv(m(y)) = s(y)
  BY <1>2, <1>3
<1> HIDE DEF m
<1>5. /\ AddRoundKey(AddRoundKey(m(x), k), k) = m(x) /\ AddRoundKey(AddRoundKey(m(y), k), k) = m(y)
      /\ AddRoundKey(AddRoundKey(s(x), k), k) = s(x) /\ AddRoundKey(AddRoundKey(s(y), k), k) = s(y)
  BY <1>2, <1>3, <1>4
<1>6. Rounded(x) = m(x) /\ Rounded(y) = m(y)
  BY DEF Rounded, m, s
<1>7. AddRoundKey(m(x), k) = AddRoundKey(m(y), k) => x = y
  BY <1>3, <1>4, <1>5
<1>8. AddRoundKey(s(x), k) = AddRoundKey(s(y), k) => x = y
  BY <1>3, <1>5
<1> QED
  BY <1>6, <1>7, <1>8 DEF s

LEMMA CipherOneToOne ==
  ASSUME SBoxAssumption, AesAssumption, NEW k \in AesKeys, NEW x \in Block, NEW y \in Block,
         CipherOf(k, x) = CipherOf(k, y)
  PROVE  x = y
<1> DEFINE K == RoundKeys[k]
           X == Rounds(k, x)
           Y == Rounds(k, y)
           S == {n \in Nat : n <= 13 => (X[n] = Y[n] => x = y)}
<1>1. \A r \in 0 .. 14 : K[r] \in Block
  BY RoundKeysAre
<1>2. /\ X[0] = AddRoundKey(x, K[0]) /\ \A r \in 0 .. 13 : X[r] \in Block
      /\ \A r \in 1 .. 13 : X[r] = AddRoundKey(Rounded(X[r - 1]), K[r])
      /\ CipherOf(k, x) = AddRoundKey(ShiftRows(SubBytes(X[13])), K[14])
  BY RoundsAre
<1>3. /\ Y[0] = AddRoundKey(y, K[0]) /\ \A r \in 0 .. 13 : Y[r] \in Block
      /\ \A r \in 1 .. 13 : Y[r] = AddRoundKey(Rounded(Y[r - 1]), K[r])
      /\ CipherOf(k, y) = AddRoundKey(ShiftRows(SubBytes(Y[13])), K[14])
  BY RoundsAre
<1> HIDE DEF K, X, Y
<1>4. 0 \in S
  <2>1. K[0] \in Block
    BY <1>1
  <2> DEFINE q == K[0]
  <2> HIDE DEF q
  <2>2. q \in Block /\ X[0] = AddRoundKey(x, q) /\ Y[0] = AddRoundKey(y, q)
    BY <1>2, <1>3, <2>1 DEF q
  <2>3. AddRoundKey(AddRoundKey(x, q), q) = x
    BY <2>2, Keyed
  <2>4. AddRoundKey(AddRoundKey(y, q), q) = y
    BY <2>2, Keyed
  <2> QED
    BY <2>2, <2>3, <2>4
<1>5. ASSUME NEW n \in Nat, n \in S
      PROVE  n + 1 \in S
  <2> SUFFICES ASSUME n + 1 <= 13, X[n + 1] = Y[n + 1]
               PROVE  x = y
    OBVIOUS
  <2>1. n \in 0 .. 13 /\ n + 1 \in 1 .. 13 /\ n + 1 \in 0 .. 14 /\ (n + 1) - 1 = n
    OBVIOUS
  <2> DEFINE a == X[n]
             b == Y[n]
             q == K[n + 1]
  <2>2. a \in Block /\ b \in Block /\ q \in Block
    BY <1>1, <1>2, <1>3, <2>1
  <2>3. X[n + 1] = AddRoundKey(Rounded(a), q) /\ Y[n + 1] = AddRoundKey(Rounded(b), q)
    BY <1>2, <1>3, <2>1
  <2>4. a = b => x = y
    BY <1>5, <2>1
  <2> HIDE DEF a, b, q
  <2>5. AddRoundKey(Rounded(a), q) = AddRoundKey(Rounded(b), q)
    BY <2>3
  <2>6. a = b
    BY <2>2, <2>5, RoundOneToOne
  <2> QED
    BY <2>4, <2>6
<1>6. Nat \subseteq S
  <2> HIDE DEF S
  <2> QED
    BY <1>4, <1>5, SetInduction
<1>7. X[13] = Y[13] => x = y
  BY <1>6
<1> DEFINE a == X[13]
           b == Y[13]
           q == K[14]
<1>8. a \in Block /\ b \in Block /\ q \in Block
  BY <1>1, <1>2, <1>3
<1>9. AddRoundKey(ShiftRows(SubBytes(a)), q) = AddRoundKey(ShiftRows(SubBytes(b)), q)
  BY <1>2, <1>3
<1> HIDE DEF a, b, q
<1>10. a = b
  BY <1>8, <1>9, RoundOneToOne
<1> QED
  BY <1>7, <1>10 DEF a, b

-----------------------------------------------------------------------------
(* Where encryption and decryption are before a round: the key in memory,  *)
(* the round key used last, and a block that is the standard's after that  *)
(* round of encrypting the one given, or the one that decrypts to it.      *)
Encrypting ==
  /\ round \in 1 .. 14
  /\ ctx_key = Expanded(given)[(round - 1) \div 2].key
  /\ rcon = {(round - 1) \div 2}
  /\ used = RoundKeys[given][round - 1]
  /\ buf = Rounds(given, old)[round - 1]

Decrypting ==
  /\ round \in 0 .. 13
  /\ ctx_key = Expanded(given)[(round + 1) \div 2].key
  /\ rcon = {(round + 1) \div 2}
  /\ used = RoundKeys[given][round + 1]
  /\ \A text \in Block : Rounds(given, text)[round] = buf => CipherOf(given, text) = old

AesInv ==
  /\ stage \in {"new", "idle", "encrypt", "encrypted", "decrypt", "decrypted"}
  /\ buf \in Block
  /\ stage # "new" => given \in AesKeys /\ enckey = given /\ deckey = Expanded(given)[7].key
  /\ stage = "encrypt" => Encrypting /\ old \in Block
  /\ stage = "decrypt" => Decrypting
  /\ stage = "encrypted" => used = RoundKeys[given][14] /\ buf = CipherOf(given, old)
  /\ stage = "decrypted" => used = RoundKeys[given][0] /\ CipherOf(given, buf) = old

(* What a key needs of the keys, of which only half is used. *)
LEMMA UseIs ==
  ASSUME NEW s, NEW k, Use(s, k)
  PROVE  buf' = AddRoundKey(s, Lower(k)) /\ used' = Lower(k)
BY HalfKey DEF Use, Lower

LEMMA AesStart == ASSUME SBoxAssumption, AesAssumption, AesInit PROVE AesInv
BY DEF AesAssumption, AesInit, AesInv

LEMMA SetupKeeps ==
  ASSUME SBoxAssumption, AesAssumption, AesInv, NEW k \in AesKeys, Setup(k)
  PROVE  AesInv'
<1>1. stage' = "idle" /\ given' = k /\ enckey' = k /\ buf' = buf
  BY DEF Setup
<1>2. deckey' = Expanded(k)[7].key
  BY DEF Setup
<1>3. deckey' = Expanded(given')[7].key
  BY <1>1, <1>2
<1>4. buf \in Block
  BY DEF AesInv
<1> QED
  BY <1>1, <1>3, <1>4 DEF AesInv

LEMMA EncryptKeeps ==
  ASSUME SBoxAssumption, AesAssumption, AesInv, Encrypt
  PROVE  AesInv'
<1>1. /\ stage = "idle" /\ stage' = "encrypt" /\ old' = buf /\ ctx_key' = enckey
      /\ round' = 1 /\ rcon' = {0} /\ Use(buf, enckey)
      /\ enckey' = enckey /\ deckey' = deckey /\ given' = given
  BY DEF Encrypt
<1>2. buf \in Block /\ given \in AesKeys /\ enckey = given /\ deckey = Expanded(given)[7].key
  BY <1>1 DEF AesInv
<1>3. buf' = AddRoundKey(buf, Lower(enckey)) /\ used' = Lower(enckey)
  BY <1>1, UseIs
<1>4. given \in Key
  BY <1>2 DEF AesAssumption
<1>5. Expanded(given)[0].key = given
  BY <1>4, ExpandedIs
<1>6. RoundKeys[given][0] = Lower(given) /\ RoundKeys[given][0] \in Block
  <2>1. RoundKeys[given][2 * 0] = Lower(Expanded(given)[0].key)
    BY <1>2, RoundKeysAre
  <2>2. RoundKeys[given][0] \in Block
    BY <1>2, RoundKeysAre
  <2> QED
    BY <1>5, <2>1, <2>2
<1>7. Rounds(given, buf)[0] = AddRoundKey(buf, RoundKeys[given][0])
  BY <1>2, RoundsAre
<1>8. buf' = Rounds(given', old')[0] /\ used' = RoundKeys[given'][0]
  BY <1>1, <1>2, <1>3, <1>6, <1>7
<1>9. buf' \in Block /\ old' \in Block
  BY <1>1, <1>2, <1>3, <1>6, Keyed
<1>10. ctx_key' = Expanded(given')[0].key
  BY <1>1, <1>2, <1>5
<1>11. round' - 1 = 0 /\ (round' - 1) \div 2 = 0 /\ round' \in 1 .. 14
  BY <1>1
<1>12. Encrypting'
  BY <1>1, <1>8, <1>10, <1>11 DEF Encrypting
<1>13. given' \in AesKeys /\ enckey' = given' /\ deckey' = Expanded(given')[7].key
  BY <1>1, <1>2
<1> QED
  BY <1>1, <1>9, <1>12, <1>13 DEF AesInv

(* A turn of encryption: what a step does to the key, as Onward has it. *)
LEMMA EncryptTurn ==
  ASSUME SBoxAssumption, AesAssumption, AesInv, stage = "encrypt"
  PROVE  /\ given \in AesKeys /\ old \in Block /\ buf \in Block /\ round \in 1 .. 14
         /\ enckey = given /\ deckey = Expanded(given)[7].key
         /\ buf = Rounds(given, old)[round - 1]
         /\ RoundKeys[given][round] \in Block
         /\ OnTo(given, round, ctx_key, rcon)
<1>1. /\ given \in AesKeys /\ old \in Block /\ buf \in Block
      /\ enckey = given /\ deckey = Expanded(given)[7].key
  BY DEF AesInv
<1>2. /\ round \in 1 .. 14 /\ buf = Rounds(given, old)[round - 1]
      /\ ctx_key = Expanded(given)[(round - 1) \div 2].key /\ rcon = {(round - 1) \div 2}
  BY DEF AesInv, Encrypting
<1>3. round \in Nat /\ 1 <= round /\ round <= 14 /\ round \in 0 .. 14
  BY <1>2
<1>4. RoundKeys[given][round] \in Block
  BY <1>1, <1>3, RoundKeysAre
<1>5. OnTo(given, round, ctx_key, rcon)
  BY <1>1, <1>2, <1>3, Onward
<1> QED
  BY <1>1, <1>2, <1>4, <1>5

LEMMA UpperIs ==
  ASSUME NEW k, Upper(k) \in Block
  PROVE  Lower(Upper(k)) = Upper(k)
BY DEF Lower, Upper

LEMMA EncryptRoundKeeps ==
  ASSUME SBoxAssumption, AesAssumption, AesInv, EncryptRound
  PROVE  AesInv'
<1> DEFINE mixed == Rounded(buf)
           K == RoundKeys[given][round]
<1>1. /\ stage = "encrypt" /\ stage' = "encrypt" /\ round < 14 /\ round' = round + 1
      /\ enckey' = enckey /\ deckey' = deckey /\ given' = given /\ old' = old
  BY DEF EncryptRound
<1>2. /\ given \in AesKeys /\ old \in Block /\ buf \in Block /\ round \in 1 .. 14
      /\ enckey = given /\ deckey = Expanded(given)[7].key
      /\ buf = Rounds(given, old)[round - 1] /\ K \in Block
  BY <1>1, EncryptTurn
<1>3. /\ ctx_key' = Expanded(given)[round \div 2].key /\ rcon' = {round \div 2}
      /\ used' = K /\ buf' = AddRoundKey(mixed, K)
  <2>1. CASE round % 2 = 1
    <3>1. Use(mixed, Upper(ctx_key)) /\ ctx_key' = ctx_key /\ rcon' = rcon
      BY <2>1 DEF EncryptRound, Rounded
    <3>2. /\ ctx_key = Expanded(given)[round \div 2].key /\ rcon = {round \div 2}
          /\ K = Upper(ctx_key)
      BY <1>1, <2>1, EncryptTurn DEF OnTo
    <3>3. buf' = AddRoundKey(mixed, Lower(Upper(ctx_key))) /\ used' = Lower(Upper(ctx_key))
      BY <3>1, UseIs
    <3>4. Lower(Upper(ctx_key)) = K
      BY <1>2, <3>2, UpperIs
    <3> QED
      BY <3>1, <3>2, <3>3, <3>4
  <2>2. CASE round % 2 # 1
    <3>1. /\ ctx_key' = ExpandEncKey(ctx_key, rcon) /\ rcon' = F(rcon) /\ Use(mixed, ctx_key')
      BY <2>2 DEF EncryptRound, Rounded
    <3>2. /\ ExpandEncKey(ctx_key, rcon) = Expanded(given)[round \div 2].key
          /\ F(rcon) = {round \div 2}
          /\ K = Lower(ExpandEncKey(ctx_key, rcon))
      BY <1>1, <2>2, EncryptTurn DEF OnTo
    <3>3. buf' = AddRoundKey(mixed, Lower(ctx_key')) /\ used' = Lower(ctx_key')
      BY <3>1, UseIs
    <3> QED
      BY <3>1, <3>2, <3>3
  <2> QED
    BY <2>1, <2>2
<1> HIDE DEF mixed, K
<1>4. round \in 1 .. 13 /\ round \in 0 .. 13
  BY <1>1, <1>2
<1>5. buf' = Rounds(given, old)[round] /\ buf' \in Block
  <2>1. /\ Rounds(given, old)[round] = AddRoundKey(Rounded(Rounds(given, old)[round - 1]), K)
        /\ Rounds(given, old)[round] \in Block
    BY <1>2, <1>4, RoundsAre DEF K
  <2> QED
    BY <1>2, <1>3, <2>1 DEF mixed
<1>6. round' - 1 = round /\ round' \in 1 .. 14
  BY <1>1, <1>4
<1>7. Encrypting'
  <2>1. used' = RoundKeys[given'][round' - 1]
    BY <1>1, <1>3, <1>6 DEF K
  <2>2. ctx_key' = Expanded(given')[(round' - 1) \div 2].key /\ rcon' = {(round' - 1) \div 2}
    BY <1>1, <1>3, <1>6
  <2>3. buf' = Rounds(given', old')[round' - 1]
    BY <1>1, <1>5, <1>6
  <2> QED
    BY <1>6, <2>1, <2>2, <2>3 DEF Encrypting
<1>8. given' \in AesKeys /\ enckey' = given' /\ deckey' = Expanded(given')[7].key /\ old' \in Block
  BY <1>1, <1>2
<1> QED
  BY <1>1, <1>5, <1>7, <1>8 DEF AesInv

LEMMA EncryptLastKeeps ==
  ASSUME SBoxAssumption, AesAssumption, AesInv, EncryptLast
  PROVE  AesInv'
<1> DEFINE last == ShiftRows(SubBytes(buf))
           K == RoundKeys[given][14]
<1>1. /\ stage = "encrypt" /\ stage' = "encrypted" /\ round = 14
      /\ ctx_key' = ExpandEncKey(ctx_key, rcon) /\ Use(last, ctx_key')
      /\ enckey' = enckey /\ deckey' = deckey /\ given' = given /\ old' = old
  BY DEF EncryptLast
<1>2. /\ given \in AesKeys /\ old \in Block /\ buf \in Block
      /\ enckey = given /\ deckey = Expanded(given)[7].key
      /\ buf = Rounds(given, old)[13] /\ K \in Block
      /\ K = Lower(ExpandEncKey(ctx_key, rcon))
  <2>1. round - 1 = 13 /\ round % 2 # 1
    BY <1>1
  <2> QED
    BY <1>1, <2>1, EncryptTurn DEF OnTo
<1>3. buf' = AddRoundKey(last, Lower(ctx_key')) /\ used' = Lower(ctx_key')
  BY <1>1, UseIs
<1>4. buf' = AddRoundKey(last, K) /\ used' = K
  BY <1>1, <1>2, <1>3
<1>5. last \in Block
  <2> DEFINE u == SubBytes(buf)
  <2>1. u \in Block
    BY <1>2, Steps
  <2> HIDE DEF u
  <2>2. ShiftRows(u) \in Block
    BY <2>1, Steps
  <2> QED
    BY <2>2 DEF u
<1>6. buf' = CipherOf(given, old)
  <2>1. CipherOf(given, old) = AddRoundKey(ShiftRows(SubBytes(Rounds(given, old)[13])), K)
    BY <1>2, RoundsAre
  <2> QED
    BY <1>2, <1>4, <2>1
<1> HIDE DEF last, K
<1>7. buf' \in Block
  BY <1>2, <1>4, <1>5, Keyed
<1>8. given' \in AesKeys /\ enckey' = given' /\ deckey' = Expanded(given')[7].key
  BY <1>1, <1>2
<1>9. used' = RoundKeys[given'][14] /\ buf' = CipherOf(given', old')
  BY <1>1, <1>4, <1>6 DEF K
<1> QED
  BY <1>1, <1>7, <1>8, <1>9 DEF AesInv

LEMMA DecryptKeeps ==
  ASSUME SBoxAssumption, AesAssumption, AesInv, Decrypt
  PROVE  AesInv'
<1> DEFINE K == RoundKeys[given][14]
<1>1. /\ stage = "idle" /\ stage' = "decrypt" /\ old' = buf /\ ctx_key' = deckey
      /\ used' = Lower(deckey) /\ round' = 13 /\ rcon' = {7}
      /\ buf' = SubBytesInv(ShiftRowsInv(AddRoundKey(buf, deckey)))
      /\ enckey' = enckey /\ deckey' = deckey /\ given' = given
  BY DEF Decrypt, Lower
<1>2. buf \in Block /\ given \in AesKeys /\ enckey = given /\ deckey = Expanded(given)[7].key
  BY <1>1 DEF AesInv
<1>3. K = Lower(deckey) /\ K \in Block
  <2>1. RoundKeys[given][2 * 7] = Lower(Expanded(given)[7].key) /\ RoundKeys[given][14] \in Block
    BY <1>2, RoundKeysAre
  <2>2. 2 * 7 = 14
    OBVIOUS
  <2> QED
    BY <1>2, <2>1, <2>2
<1> HIDE DEF K
<1>4. buf' = SubBytesInv(ShiftRowsInv(AddRoundKey(buf, K)))
  BY <1>1, <1>3, HalfKey
<1>5. buf' \in Block /\ AddRoundKey(ShiftRows(SubBytes(buf')), K) = buf
  BY <1>2, <1>3, <1>4, Undone
<1>6. ASSUME NEW text \in Block, Rounds(given, text)[13] = buf'
      PROVE  CipherOf(given, text) = buf
  <2>1. CipherOf(given, text) = AddRoundKey(ShiftRows(SubBytes(Rounds(given, text)[13])), K)
    BY <1>2, RoundsAre DEF K
  <2> QED
    BY <1>5, <1>6, <2>1
<1>7. (round' + 1) \div 2 = 7 /\ round' + 1 = 14 /\ round' \in 0 .. 13
  BY <1>1
<1>8. Decrypting'
  <2>1. used' = RoundKeys[given'][round' + 1]
    BY <1>1, <1>3, <1>7 DEF K
  <2>2. ctx_key' = Expanded(given')[(round' + 1) \div 2].key /\ rcon' = {(round' + 1) \div 2}
    BY <1>1, <1>2, <1>7
  <2>3. \A text \in Block : Rounds(given', text)[round'] = buf' => CipherOf(given', text) = old'
    BY <1>1, <1>6
  <2> QED
    BY <1>7, <2>1, <2>2, <2>3 DEF Decrypting
<1>9. given' \in AesKeys /\ enckey' = given' /\ deckey' = Expanded(given')[7].key
  BY <1>1, <1>2
<1> QED
  BY <1>1, <1>5, <1>8, <1>9 DEF AesInv

LEMMA DecryptRoundKeeps ==
  ASSUME SBoxAssumption, AesAssumption, AesInv, DecryptRound
  PROVE  AesInv'
<1> DEFINE K == RoundKeys[given][round]
<1>1. /\ stage = "decrypt" /\ stage' = "decrypt" /\ round > 0 /\ round' = round - 1
      /\ enckey' = enckey /\ deckey' = deckey /\ given' = given /\ old' = old
      /\ buf' = SubBytesInv(ShiftRowsInv(MixColumnsInv(AddRoundKey(buf, used'))))
  BY DEF DecryptRound
<1>2. /\ given \in AesKeys /\ buf \in Block
      /\ enckey = given /\ deckey = Expanded(given)[7].key
  BY <1>1 DEF AesInv
<1>3. /\ round \in 0 .. 13
      /\ ctx_key = Expanded(given)[(round + 1) \div 2].key /\ rcon = {(round + 1) \div 2}
      /\ \A text \in Block : Rounds(given, text)[round] = buf => CipherOf(given, text) = old
  BY <1>1 DEF AesInv, Decrypting
<1>4. round \in Nat /\ 1 <= round /\ round <= 13 /\ round \in 1 .. 13 /\ round \in 0 .. 14
  BY <1>1, <1>3
<1>5. K \in Block
  BY <1>2, <1>4, RoundKeysAre
<1>6. BackTo(given, round, ctx_key, rcon)
  BY <1>2, <1>3, <1>4, Backward
<1>7. /\ ctx_key' = Expanded(given)[round \div 2].key /\ rcon' = {round \div 2} /\ used' = K
  <2>1. CASE round % 2 = 1
    <3>1. rcon' = FD(rcon) /\ ctx_key' = ExpandDecKey(ctx_key, rcon') /\ used' = Upper(ctx_key')
      BY <2>1 DEF DecryptRound
    <3>2. ctx_key' = ExpandDecKey(ctx_key, FD(rcon))
      BY <3>1
    <3> QED
      BY <1>6, <2>1, <3>1, <3>2 DEF BackTo
  <2>2. CASE round % 2 # 1
    <3>1. used' = Lower(ctx_key) /\ ctx_key' = ctx_key /\ rcon' = rcon
      BY <2>2 DEF DecryptRound, Lower
    <3> QED
      BY <1>6, <2>2, <3>1 DEF BackTo
  <2> QED
    BY <2>1, <2>2
<1> HIDE DEF K
<1>8. buf' \in Block /\ AddRoundKey(Rounded(buf'), K) = buf
  <2>1. buf' = SubBytesInv(ShiftRowsInv(MixColumnsInv(AddRoundKey(buf, K))))
    BY <1>1, <1>7
  <2> QED
    BY <1>2, <1>5, <2>1, Undone
<1>9. ASSUME NEW text \in Block, Rounds(given, text)[round - 1] = buf'
      PROVE  CipherOf(given, text) = old
  <2>1. Rounds(given, text)[round] = AddRoundKey(Rounded(Rounds(given, text)[round - 1]), K)
    BY <1>2, <1>4, RoundsAre DEF K
  <2>2. Rounds(given, text)[round] = buf
    BY <1>8, <1>9, <2>1
  <2> QED
    BY <1>3, <2>2
<1>10. round' + 1 = round /\ round' \in 0 .. 13
  BY <1>1, <1>4
<1>11. Decrypting'
  <2>1. used' = RoundKeys[given'][round' + 1]
    BY <1>1, <1>7, <1>10 DEF K
  <2>2. ctx_key' = Expanded(given')[(round' + 1) \div 2].key /\ rcon' = {(round' + 1) \div 2}
    BY <1>1, <1>7, <1>10
  <2>3. \A text \in Block : Rounds(given', text)[round'] = buf' => CipherOf(given', text) = old'
    BY <1>1, <1>9
  <2> QED
    BY <1>10, <2>1, <2>2, <2>3 DEF Decrypting
<1>12. given' \in AesKeys /\ enckey' = given' /\ deckey' = Expanded(given')[7].key
  BY <1>1, <1>2
<1> QED
  BY <1>1, <1>8, <1>11, <1>12 DEF AesInv

LEMMA DecryptLastKeeps ==
  ASSUME SBoxAssumption, AesAssumption, AesInv, DecryptLast
  PROVE  AesInv'
<1> DEFINE K == RoundKeys[given][0]
<1>1. /\ stage = "decrypt" /\ stage' = "decrypted" /\ round = 0 /\ Use(buf, ctx_key)
      /\ enckey' = enckey /\ deckey' = deckey /\ given' = given /\ old' = old
  BY DEF DecryptLast, ctx
<1>2. /\ given \in AesKeys /\ buf \in Block
      /\ enckey = given /\ deckey = Expanded(given)[7].key
  BY <1>1 DEF AesInv
<1>3. /\ ctx_key = Expanded(given)[(round + 1) \div 2].key
      /\ \A text \in Block : Rounds(given, text)[0] = buf => CipherOf(given, text) = old
  BY <1>1 DEF AesInv, Decrypting
<1>4. K = Lower(ctx_key) /\ K \in Block
  <2>1. RoundKeys[given][2 * 0] = Lower(Expanded(given)[0].key) /\ RoundKeys[given][0] \in Block
    BY <1>2, RoundKeysAre
  <2>2. (round + 1) \div 2 = 0 /\ 2 * 0 = 0
    BY <1>1
  <2>3. ctx_key = Expanded(given)[0].key
    BY <1>3, <2>2
  <2> QED
    BY <2>1, <2>2, <2>3
<1> HIDE DEF K
<1>5. buf' = AddRoundKey(buf, K) /\ used' = K
  BY <1>1, <1>4, UseIs
<1>6. buf' \in Block /\ AddRoundKey(buf', K) = buf
  BY <1>2, <1>4, <1>5, Keyed
<1>7. CipherOf(given, buf') = old
  <2>1. Rounds(given, buf')[0] = AddRoundKey(buf', K)
    BY <1>2, <1>6, RoundsAre DEF K
  <2> QED
    BY <1>3, <1>6, <2>1
<1>8. given' \in AesKeys /\ enckey' = given' /\ deckey' = Expanded(given')[7].key
  BY <1>1, <1>2
<1>9. used' = RoundKeys[given'][0] /\ CipherOf(given', buf') = old'
  BY <1>1, <1>5, <1>7 DEF K
<1> QED
  BY <1>1, <1>6, <1>8, <1>9 DEF AesInv

LEMMA OthersKeep ==
  ASSUME SBoxAssumption, AesAssumption, AesInv, Return \/ Done \/ UNCHANGED aes_vars
  PROVE  AesInv'
<1>1. CASE Return
  <2>1. stage # "new" /\ stage' = "idle" /\ enckey' = enckey /\ deckey' = deckey /\ given' = given /\ buf' = buf
    BY <1>1 DEF Return, ctx
  <2> QED
    BY <2>1 DEF AesInv
<1>2. CASE Done
  <2>1. stage' = "new" /\ buf' = buf
    BY <1>2 DEF Done
  <2> QED
    BY <2>1 DEF AesInv
<1>3. CASE UNCHANGED aes_vars
  BY <1>3 DEF AesInv, Encrypting, Decrypting, aes_vars, ctx
<1> QED
  BY <1>1, <1>2, <1>3

(* The inductive invariant of the cipher. *)
THEOREM AesInvariance == AesSpec => []AesInv
<1>1. AesInit => AesInv
  BY AesAssumption, SBoxAssumption, AesStart
<1>2. AesInv /\ [AesNext]_aes_vars => AesInv'
  <2> SUFFICES ASSUME AesInv, [AesNext]_aes_vars
               PROVE  AesInv'
    OBVIOUS
  <2>1. ASSUME NEW k \in AesKeys, Setup(k)
        PROVE  AesInv'
    BY <2>1, AesAssumption, SBoxAssumption, SetupKeeps
  <2>2. CASE Encrypt
    BY <2>2, AesAssumption, SBoxAssumption, EncryptKeeps
  <2>3. CASE EncryptRound
    BY <2>3, AesAssumption, SBoxAssumption, EncryptRoundKeeps
  <2>4. CASE EncryptLast
    BY <2>4, AesAssumption, SBoxAssumption, EncryptLastKeeps
  <2>5. CASE Decrypt
    BY <2>5, AesAssumption, SBoxAssumption, DecryptKeeps
  <2>6. CASE DecryptRound
    BY <2>6, AesAssumption, SBoxAssumption, DecryptRoundKeeps
  <2>7. CASE DecryptLast
    BY <2>7, AesAssumption, SBoxAssumption, DecryptLastKeeps
  <2>8. CASE Return \/ Done \/ UNCHANGED aes_vars
    BY <2>8, AesAssumption, SBoxAssumption, OthersKeep
  <2> QED
    BY <2>1, <2>2, <2>3, <2>4, <2>5, <2>6, <2>7, <2>8 DEF AesNext
<1> QED
  BY <1>1, <1>2, PTL DEF AesSpec

(* AES-256 as the code computes it, with the two round keys in memory that *)
(* it turns on and back, uses in every round, of any number of calls in    *)
(* any order, the round key that FIPS 197's schedule has for the key.      *)
THEOREM AesSchedule == AesSpec => []ScheduleRight
<1>1. AesInv => ScheduleRight
  BY DEF AesInv, Encrypting, Decrypting, ScheduleRight
<1> QED
  BY <1>1, AesInvariance, PTL

(* Encryption gives the standard's ciphertext of the block, and decryption *)
(* the block of which it is given the ciphertext, for every key and block. *)
THEOREM AesCrypts == AesSpec => []CryptsRight
<1>1. AesInv => CryptsRight
  BY DEF AesInv, CryptsRight
<1> QED
  BY <1>1, AesInvariance, PTL

(* Decrypting undoes encrypting: what comes out of a decryption, of any    *)
(* call with any key, is the one block whose encryption it was given.      *)
THEOREM AesDecryptsBack ==
  AesSpec => [](stage = "decrypted" =>
                  \A text \in Block : old = CipherOf(given, text) => buf = text)
<1>1. AesInv => (stage = "decrypted" =>
                   \A text \in Block : old = CipherOf(given, text) => buf = text)
  <2> SUFFICES ASSUME AesInv, stage = "decrypted", NEW text \in Block, old = CipherOf(given, text)
               PROVE  buf = text
    OBVIOUS
  <2>1. given \in AesKeys /\ buf \in Block /\ CipherOf(given, buf) = CipherOf(given, text)
    BY DEF AesInv
  <2> QED
    BY <2>1, AesAssumption, SBoxAssumption, CipherOneToOne
<1> QED
  BY <1>1, AesInvariance, PTL
=============================================================================
