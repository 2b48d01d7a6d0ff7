--------------------------------- MODULE Pbkdf2 ---------------------------------
(***************************************************************************)
(* Key derivation: pbkdf2 of src/boot1/pbkdf2.c and the HMACs it calls,    *)
(* rmd160_hmac and sha512_hmac, which are the same but for their sizes.    *)
(*                                                                         *)
(* A byte is a set of atoms, the exclusive or of which it is: a byte of    *)
(* the passphrase or the salt, of the counter, of a digest, or what was in *)
(* memory before.  A hash's context is what it has been fed (HashStream    *)
(* shows that pieces do not matter), and a digest is ideal.  hmac_fn is    *)
(* one call after the other; ipad and opad are its arrays on the stack.    *)
(***************************************************************************)
EXTENDS Integers, Sequences, BitSets

CONSTANTS
  BLOCK_SZ,    \* RMD160_BLOCK_SZ or SHA512_BLOCK_SZ
  DIGEST_SZ,   \* hmac_digest_len, RMD160_DIGEST_SZ or SHA512_DIGEST_SZ
  PBKDF2_MAX_DIGEST_LENGTH,
  BYTE,        \* values of a byte of the counter, 256
  PassLengths, SaltLengths, KeyLengths, IterationCounts,  \* of a call
  OUT          \* bytes of memory from dk on

ASSUME Pbkdf2Assumption ==
  /\ BLOCK_SZ \in Nat /\ DIGEST_SZ \in 1 .. BLOCK_SZ
  /\ PBKDF2_MAX_DIGEST_LENGTH \in Nat /\ PBKDF2_MAX_DIGEST_LENGTH >= DIGEST_SZ
  /\ OUT \in Nat
  /\ PassLengths \cup SaltLengths \cup KeyLengths \subseteq Nat
  /\ IterationCounts \subseteq Nat \ {0}
  /\ \A n \in KeyLengths : n <= OUT

ZERO == {}
Atom(kind, of, k) == {<<kind, of, k>>}
Input(kind, n) == [k \in 1 .. n |-> Atom(kind, 0, k)]
Digest(ctx) == [k \in 1 .. DIGEST_SZ |-> Atom("digest", ctx, k)]
Masked(a, mask) == [k \in DOMAIN a |-> Xor(a[k], Atom(mask, 0, 0))]

(* s with what is in from over its first n bytes. *)
Over(s, from, n) == [k \in DOMAIN s |-> IF k <= n THEN from[k] ELSE s[k]]
Zeros(n) == [k \in 1 .. n |-> ZERO]

VARIABLES
  pc,
  pass, salt, keylen, iterations,   \* the call
  dk,            \* memory from the caller's dk on
  done,          \* by how much dk has been moved
  dklen, rem, i, c, ut, ux, saltp,  \* locals
  out, msg,      \* hmac_fn's dst and msg
  ipad, opad     \* its locals

args == <<pass, salt, keylen, iterations>>
locals == <<done, dklen, rem, i, c>>
hmac == <<out, msg, ipad, opad>>
vars == <<pc, args, dk, locals, ut, ux, saltp, hmac>>

Init ==
  /\ pc = "block"
  /\ \E n \in PassLengths : pass = Input("pass", n)
  /\ \E n \in SaltLengths : salt = Input("salt", n)
  /\ keylen \in KeyLengths
  /\ iterations \in IterationCounts
  /\ dk = Input("dk", OUT)
  /\ done = 0 /\ dklen = keylen /\ rem = 0 /\ i = 0 /\ c = 0
  /\ ut = Input("ut", PBKDF2_MAX_DIGEST_LENGTH)
  /\ ux = Input("ux", PBKDF2_MAX_DIGEST_LENGTH)
  /\ saltp = salt \o Input("heap", 4)
  /\ out = "ut" /\ msg = <<>>
  /\ ipad = Zeros(BLOCK_SZ) /\ opad = Zeros(BLOCK_SZ)
-----------------------------------------------------------------------------
(* A uint32_t in memory, lowest byte first, and what bswap makes of it. *)
ByteOf(n, place) == (n \div BYTE ^ place) % BYTE
LittleEndian(n) == <<ByteOf(n, 0), ByteOf(n, 1), ByteOf(n, 2), ByteOf(n, 3)>>
Swapped(s) == [k \in DOMAIN s |-> s[Len(s) + 1 - k]]

Counter == [k \in 1 .. 4 |-> Atom("count", 0, Swapped(LittleEndian(i'))[k])]

Call(dst, m) == out' = dst /\ msg' = m /\ pc' = "key"

Rem == IF dklen < DIGEST_SZ THEN dklen ELSE DIGEST_SZ

(* The next block of the key: the HMAC of the salt and the block's number. *)
NextBlock ==
  /\ pc = "block"
  /\ dklen > 0
  /\ i' = i + 1
  /\ rem' = Rem
  /\ saltp' = SubSeq(saltp, 1, Len(salt)) \o Counter
  /\ Call("ut", saltp')
  /\ c' = 0
  /\ UNCHANGED <<args, dk, done, dklen, ut, ux, ipad, opad>>

(* hmac_fn: a key longer than a block is hashed first. *)
Keyed == IF Len(pass) > BLOCK_SZ
           THEN Over(Zeros(BLOCK_SZ), Digest(pass), DIGEST_SZ)
           ELSE Over(Zeros(BLOCK_SZ), pass, Len(pass))

HmacKey ==
  /\ pc = "key"
  /\ ipad' = Masked(Keyed, "36") /\ opad' = Masked(Keyed, "5c")
  /\ pc' = "inner"
  /\ UNCHANGED <<args, dk, locals, ut, ux, saltp, out, msg>>

(* The inner digest goes over the beginning of ipad. *)
HmacInner ==
  /\ pc = "inner"
  /\ ipad' = Over(ipad, Digest(ipad \o msg), DIGEST_SZ)
  /\ pc' = "outer"
  /\ UNCHANGED <<args, dk, locals, ut, ux, saltp, out, msg, opad>>

HmacOuterOver(inner) ==
  /\ pc = "outer"
  /\ LET d == Digest(opad \o inner)
     IN  IF out = "ut" THEN ut' = Over(ut, d, DIGEST_SZ) /\ UNCHANGED ux
                       ELSE ux' = Over(ux, d, DIGEST_SZ) /\ UNCHANGED ut
  /\ ipad' = Zeros(BLOCK_SZ) /\ opad' = Zeros(BLOCK_SZ)
  /\ pc' = "hmac_done"
  /\ UNCHANGED <<args, dk, locals, saltp, out, msg>>

(* Mutant: all of ipad, not the digest in it. *)
HmacOuterAll == HmacOuterOver(ipad)

HmacOuter == HmacOuterOver(SubSeq(ipad, 1, DIGEST_SZ))

Placed(f(_)) == [k \in 1 .. OUT |-> IF k \in done + 1 .. done + rem THEN f(k) ELSE dk[k]]

CopyFirst ==
  /\ pc = "hmac_done" /\ out = "ut"
  /\ LET First(k) == ut[k - done] IN dk' = Placed(First)
  /\ c' = 1
  /\ pc' = "iterate"
  /\ UNCHANGED <<args, done, dklen, rem, i, ut, ux, saltp, hmac>>

Iterate ==
  /\ pc = "iterate"
  /\ c < iterations
  /\ Call("ux", SubSeq(ut, 1, DIGEST_SZ))
  /\ UNCHANGED <<args, dk, locals, ut, ux, saltp, ipad, opad>>

XorInTo(next) ==
  /\ pc = "hmac_done" /\ out = "ux"
  /\ LET Both(k) == Xor(dk[k], ux[k - done]) IN dk' = Placed(Both)
  /\ ut' = next
  /\ c' = c + 1
  /\ pc' = "iterate"
  /\ UNCHANGED <<args, done, dklen, rem, i, ux, saltp, hmac>>

(* Mutant: ut stays as it is. *)
XorInNoCopy == XorInTo(ut)

XorIn == XorInTo(ux)

BlockDone ==
  /\ pc = "iterate"
  /\ c >= iterations
  /\ done' = done + rem /\ dklen' = dklen - rem
  /\ pc' = "block"
  /\ UNCHANGED <<args, dk, rem, i, c, ut, ux, saltp, hmac>>

ReturnIf(enough) ==
  /\ pc = "block"
  /\ enough
  /\ pc' = "done"
  /\ UNCHANGED <<args, dk, locals, ut, ux, saltp, hmac>>

(* Mutant: the part of a block at the end is forgotten. *)
ReturnWholeBlocks == ReturnIf(dklen < DIGEST_SZ)

Return == ReturnIf(dklen <= 0)

Next == \/ NextBlock \/ HmacKey \/ HmacInner \/ HmacOuter
        \/ CopyFirst \/ Iterate \/ XorIn \/ BlockDone \/ Return

Spec == Init /\ [][Next]_vars /\ WF_vars(Next)
-----------------------------------------------------------------------------
(* RFC 2104.  The key is padded with zeros after it has been hashed, if it *)
(* is longer than a block.                                                 *)
HMAC(key, text) ==
  LET short == IF Len(key) > BLOCK_SZ THEN Digest(key) ELSE key
      K == short \o Zeros(BLOCK_SZ - Len(short))
  IN  Digest(Masked(K, "5c") \o Digest(Masked(K, "36") \o text))

(* RFC 2898, for a password P, a salt S and the block with number b.  U_1 *)
(* is made of the salt and the number, highest byte first, each other U of *)
(* the one before; the block is their exclusive or, and the key is the     *)
(* beginning of all blocks.                                                *)
INT(n) == [k \in 1 .. 4 |-> Atom("count", 0, ByteOf(n, 4 - k))]
U(P, S, b) ==
  LET u[n \in Nat \ {0}] == IF n = 1 THEN HMAC(P, S \o INT(b)) ELSE HMAC(P, u[n - 1])
  IN  u
XorAll(u) ==
  LET f[n \in Nat \ {0}] ==
        IF n = 1 THEN u[1] ELSE [k \in 1 .. DIGEST_SZ |-> Xor(f[n - 1][k], u[n][k])]
  IN  f
F(P, S, n, b) == XorAll(U(P, S, b))[n]
DerivedByte(n, k) ==
  F(pass, salt, n, 1 + (k - 1) \div DIGEST_SZ)[1 + ((k - 1) % DIGEST_SZ)]

(* hmac_fn leaves in its destination the HMAC of its message under the     *)
(* passphrase, for passphrases shorter and longer than a block.            *)
HmacRight ==
  pc = "hmac_done" => SubSeq(IF out = "ut" THEN ut ELSE ux, 1, DIGEST_SZ) = HMAC(pass, msg)

(* At every turn of the loops the key so far is what the RFC says: whole   *)
(* blocks, the c U's of the block under way, and beyond them, at any time, *)
(* the caller's memory as it was.                                          *)
KeySoFar ==
  /\ \A k \in 1 .. done : dk[k] = DerivedByte(iterations, k)
  /\ pc = "iterate" => \A k \in done + 1 .. done + rem : dk[k] = DerivedByte(c, k)
  /\ \A k \in keylen + 1 .. OUT : dk[k] = Atom("dk", 0, k)

(* The derivation ends, and then the whole key is there. *)
KeyComesOut == <>(pc = "done" /\ done = keylen)
=============================================================================
