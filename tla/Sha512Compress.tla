------------------------------ MODULE Sha512Compress -----------------------------
(***************************************************************************)
(* sha512_compress of src/boot1/sha512.c, one action per round.            *)
(*                                                                         *)
(* ctx->X slides over the message schedule: X[0] .. X[15] are the last 16  *)
(* words of it and X[16] the current one, so the block is gone when it     *)
(* returns.  abc are the eight working variables.                          *)
(***************************************************************************)
EXTENDS Integers, Sequences

INSTANCE Words WITH W <- 64

VARIABLES
  h,    \* ctx->h
  X,    \* ctx->X
  abc,
  j     \* the round, IDLE outside of the call

IDLE == -1

CH(x, y, z) == Xor(x \cap y, Not(x) \cap z)
MAJ(x, y, z) == Xor3(x \cap y, x \cap z, y \cap z)
BSIG0(x) == Xor3(Rotr(x, 28), Rotr(x, 34), Rotr(x, 39))
BSIG1(x) == Xor3(Rotr(x, 14), Rotr(x, 18), Rotr(x, 41))
SSIG0(x) == Xor3(Rotr(x, 1), Rotr(x, 8), Shr(x, 7))
SSIG1(x) == Xor3(Rotr(x, 19), Rotr(x, 61), Shr(x, 6))

K == <<
  <<\h428a,\h2f98,\hd728,\hae22>>, <<\h7137,\h4491,\h23ef,\h65cd>>, <<\hb5c0,\hfbcf,\hec4d,\h3b2f>>, <<\he9b5,\hdba5,\h8189,\hdbbc>>,
  <<\h3956,\hc25b,\hf348,\hb538>>, <<\h59f1,\h11f1,\hb605,\hd019>>, <<\h923f,\h82a4,\haf19,\h4f9b>>, <<\hab1c,\h5ed5,\hda6d,\h8118>>,
  <<\hd807,\haa98,\ha303,\h0242>>, <<\h1283,\h5b01,\h4570,\h6fbe>>, <<\h2431,\h85be,\h4ee4,\hb28c>>, <<\h550c,\h7dc3,\hd5ff,\hb4e2>>,
  <<\h72be,\h5d74,\hf27b,\h896f>>, <<\h80de,\hb1fe,\h3b16,\h96b1>>, <<\h9bdc,\h06a7,\h25c7,\h1235>>, <<\hc19b,\hf174,\hcf69,\h2694>>,
  <<\he49b,\h69c1,\h9ef1,\h4ad2>>, <<\hefbe,\h4786,\h384f,\h25e3>>, <<\h0fc1,\h9dc6,\h8b8c,\hd5b5>>, <<\h240c,\ha1cc,\h77ac,\h9c65>>,
  <<\h2de9,\h2c6f,\h592b,\h0275>>, <<\h4a74,\h84aa,\h6ea6,\he483>>, <<\h5cb0,\ha9dc,\hbd41,\hfbd4>>, <<\h76f9,\h88da,\h8311,\h53b5>>,
  <<\h983e,\h5152,\hee66,\hdfab>>, <<\ha831,\hc66d,\h2db4,\h3210>>, <<\hb003,\h27c8,\h98fb,\h213f>>, <<\hbf59,\h7fc7,\hbeef,\h0ee4>>,
  <<\hc6e0,\h0bf3,\h3da8,\h8fc2>>, <<\hd5a7,\h9147,\h930a,\ha725>>, <<\h06ca,\h6351,\he003,\h826f>>, <<\h1429,\h2967,\h0a0e,\h6e70>>,
  <<\h27b7,\h0a85,\h46d2,\h2ffc>>, <<\h2e1b,\h2138,\h5c26,\hc926>>, <<\h4d2c,\h6dfc,\h5ac4,\h2aed>>, <<\h5338,\h0d13,\h9d95,\hb3df>>,
  <<\h650a,\h7354,\h8baf,\h63de>>, <<\h766a,\h0abb,\h3c77,\hb2a8>>, <<\h81c2,\hc92e,\h47ed,\haee6>>, <<\h9272,\h2c85,\h1482,\h353b>>,
  <<\ha2bf,\he8a1,\h4cf1,\h0364>>, <<\ha81a,\h664b,\hbc42,\h3001>>, <<\hc24b,\h8b70,\hd0f8,\h9791>>, <<\hc76c,\h51a3,\h0654,\hbe30>>,
  <<\hd192,\he819,\hd6ef,\h5218>>, <<\hd699,\h0624,\h5565,\ha910>>, <<\hf40e,\h3585,\h5771,\h202a>>, <<\h106a,\ha070,\h32bb,\hd1b8>>,
  <<\h19a4,\hc116,\hb8d2,\hd0c8>>, <<\h1e37,\h6c08,\h5141,\hab53>>, <<\h2748,\h774c,\hdf8e,\heb99>>, <<\h34b0,\hbcb5,\he19b,\h48a8>>,
  <<\h391c,\h0cb3,\hc5c9,\h5a63>>, <<\h4ed8,\haa4a,\he341,\h8acb>>, <<\h5b9c,\hca4f,\h7763,\he373>>, <<\h682e,\h6ff3,\hd6b2,\hb8a3>>,
  <<\h748f,\h82ee,\h5def,\hb2fc>>, <<\h78a5,\h636f,\h4317,\h2f60>>, <<\h84c8,\h7814,\ha1f0,\hab72>>, <<\h8cc7,\h0208,\h1a64,\h39ec>>,
  <<\h90be,\hfffa,\h2363,\h1e28>>, <<\ha450,\h6ceb,\hde82,\hbde9>>, <<\hbef9,\ha3f7,\hb2c6,\h7915>>, <<\hc671,\h78f2,\he372,\h532b>>,
  <<\hca27,\h3ece,\hea26,\h619c>>, <<\hd186,\hb8c7,\h21c0,\hc207>>, <<\heada,\h7dd6,\hcde0,\heb1e>>, <<\hf57d,\h4f7f,\hee6e,\hd178>>,
  <<\h06f0,\h67aa,\h7217,\h6fba>>, <<\h0a63,\h7dc5,\ha2c8,\h98a6>>, <<\h113f,\h9804,\hbef9,\h0dae>>, <<\h1b71,\h0b35,\h131c,\h471b>>,
  <<\h28db,\h77f5,\h2304,\h7d84>>, <<\h32ca,\hab7b,\h40c7,\h2493>>, <<\h3c9e,\hbe0a,\h15c9,\hbebc>>, <<\h431d,\h67c4,\h9c10,\h0d4c>>,
  <<\h4cc5,\hd4be,\hcb3e,\h42b6>>, <<\h597f,\h299c,\hfc65,\h7e2a>>, <<\h5fcb,\h6fab,\h3ad6,\hfaec>>, <<\h6c44,\h198c,\h4a47,\h5817>>>>

IV == <<
  <<\h6a09,\he667,\hf3bc,\hc908>>, <<\hbb67,\hae85,\h84ca,\ha73b>>, <<\h3c6e,\hf372,\hfe94,\hf82b>>, <<\ha54f,\hf53a,\h5f1d,\h36f1>>,
  <<\h510e,\h527f,\hade6,\h82d1>>, <<\h9b05,\h688c,\h2b3e,\h6c1f>>, <<\h1f83,\hd9ab,\hfb41,\hbd6b>>, <<\h5be0,\hcd19,\h137e,\h2179>>>>

InitialH == [n \in 0 .. 7 |-> FromLimbs(IV[n + 1])]

(* The call, with the block in the first 16 words of ctx->X. *)
Enter(block) ==
  /\ j = IDLE
  /\ X' = [n \in 0 .. 16 |-> IF n < 16 THEN block[n] ELSE X[n]]
  /\ abc' = h
  /\ j' = 0
  /\ UNCHANGED h

(* The schedule's word for this round: while the block lasts X[0] is its   *)
(* word j, as it lies in memory.                                           *)
Current ==
  IF j > 15 THEN Plus(Sum3(SSIG1(X[14]), X[9], SSIG0(X[1])), X[0]) ELSE Bswap(X[0])

Round ==
  /\ j \in 0 .. 79
  /\ LET w == Current
         T1 == Plus(Sum3(abc[7], BSIG1(abc[4]), CH(abc[4], abc[5], abc[6])),
                    Plus(FromLimbs(K[j + 1]), w))
         T2 == Plus(BSIG0(abc[0]), MAJ(abc[0], abc[1], abc[2]))
     IN  /\ abc' = [n \in 0 .. 7 |-> CASE n = 0 -> Plus(T1, T2)
                                       [] n = 4 -> Plus(abc[3], T1)
                                       [] OTHER -> abc[n - 1]]
         /\ X' = [n \in 0 .. 16 |-> IF n < 15 THEN X[n + 1] ELSE w]
  /\ j' = j + 1
  /\ UNCHANGED h

Leave ==
  /\ j = 80
  /\ h' = [n \in 0 .. 7 |-> Plus(h[n], abc[n])]
  /\ j' = IDLE
  /\ UNCHANGED <<X, abc>>
-----------------------------------------------------------------------------
(* FIPS 180's schedule and rounds.  The schedule is a sequence of its own. *)
(* In a round only a and e are new, so the values that a and e have had    *)
(* say it all: b, c and d are the a of one, two and three rounds before,   *)
(* and f, g and h so the e.                                                *)
Scheduled(w, t) == Plus(Sum3(SSIG1(w[t - 2]), w[t - 7], SSIG0(w[t - 15])), w[t - 16])

Schedule(block) ==
  LET w[t \in 0 .. 64] ==
        IF t = 0 THEN [n \in 1 .. 16 |-> Bswap(block[n - 1])]
                 ELSE LET so == w[t - 1] IN Append(so, Scheduled(so, 16 + t))
  IN  w[64]

(* The values of a and e after round t, whose word is w, from those of     *)
(* before.                                                                 *)
Worked(s, t, w) ==
  LET s1 == s[t + 3]  s2 == s[t + 2]  s3 == s[t + 1]  s4 == s[t]
      T1 == Plus(Sum3(s4.e, BSIG1(s1.e), CH(s1.e, s2.e, s3.e)), Plus(FromLimbs(K[t]), w))
  IN  [a |-> Sum3(T1, BSIG0(s1.a), MAJ(s1.a, s2.a, s3.a)), e |-> Plus(s4.a, T1)]

Values(chain, block) ==
  LET w == Schedule(block)
      s[t \in 0 .. 80] ==
        IF t = 0 THEN [n \in 1 .. 4 |-> [a |-> chain[4 - n], e |-> chain[8 - n]]]
                 ELSE LET so == s[t - 1] IN Append(so, Worked(so, t, w[t]))
  IN  s[80]

Rounds(chain, block) ==
  LET s == Values(chain, block)
  IN  [n \in 0 .. 7 |-> IF n < 4 THEN s[84 - n].a ELSE s[88 - n].e]
=============================================================================
