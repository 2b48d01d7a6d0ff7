------------------------------ MODULE Rmd160Compress -----------------------------
(***************************************************************************)
(* rmd160_compress of src/boot1/rmd160.c, one action per round of its two  *)
(* lines, whose words and shifts come from the four tables.                *)
(***************************************************************************)
EXTENDS Integers, Sequences

INSTANCE Words WITH W <- 32

VARIABLES
  h,      \* ctx->h
  X,      \* ctx->X
  lines,  \* <<A, B, C, D, E>> and <<A_, B_, C_, D_, E_>>
  j       \* the round, IDLE outside of the call

IDLE == -1

f(n, x, y, z) ==
  CASE n <= 15 -> Xor3(x, y, z)
    [] n \in 16 .. 31 -> (x \cap y) \cup (Not(x) \cap z)
    [] n \in 32 .. 47 -> Xor(x \cup Not(y), z)
    [] n \in 48 .. 63 -> (x \cap z) \cup (y \cap Not(z))
    [] OTHER -> Xor(x, y \cup Not(z))

K == << <<0,0>>, <<\h5A82,\h7999>>, <<\h6ED9,\hEBA1>>, <<\h8F1B,\hBCDC>>, <<\hA953,\hFD4E>> >>
K_ == << <<\h50A2,\h8BE6>>, <<\h5C4D,\hD124>>, <<\h6D70,\h3EF3>>, <<\h7A6D,\h76E9>>, <<0,0>> >>

r == <<
  0, 1, 2, 3, 4, 5, 6, 7, 8, 9, 10, 11, 12, 13, 14, 15,
  7, 4, 13, 1, 10, 6, 15, 3, 12, 0, 9, 5, 2, 14, 11, 8,
  3, 10, 14, 4, 9, 15, 8, 1, 2, 7, 0, 6, 13, 11, 5, 12,
  1, 9, 11, 10, 0, 8, 12, 4, 13, 3, 7, 15, 14, 5, 6, 2,
  4, 0, 5, 9, 7, 12, 2, 10, 14, 1, 3, 8, 11, 6, 15, 13>>

r_ == <<
  5, 14, 7, 0, 9, 2, 11, 4, 13, 6, 15, 8, 1, 10, 3, 12,
  6, 11, 3, 7, 0, 13, 5, 10, 14, 15, 8, 12, 4, 9, 1, 2,
  15, 5, 1, 3, 7, 14, 6, 9, 11, 8, 12, 2, 10, 0, 4, 13,
  8, 6, 4, 1, 3, 11, 15, 0, 5, 12, 2, 13, 9, 7, 10, 14,
  12, 15, 10, 4, 1, 5, 8, 7, 6, 2, 13, 14, 0, 3, 9, 11>>

s == <<
  11, 14, 15, 12, 5, 8, 7, 9, 11, 13, 14, 15, 6, 7, 9, 8,
  7, 6, 8, 13, 11, 9, 7, 15, 7, 12, 15, 9, 11, 7, 13, 12,
  11, 13, 6, 7, 14, 9, 13, 15, 14, 8, 13, 6, 5, 12, 7, 5,
  11, 12, 14, 15, 14, 15, 9, 8, 9, 14, 5, 6, 8, 6, 5, 12,
  9, 15, 5, 11, 6, 8, 13, 12, 5, 12, 13, 14, 11, 8, 5, 6>>

s_ == <<
  8, 9, 9, 11, 13, 15, 15, 5, 7, 7, 8, 11, 14, 14, 12, 6,
  9, 13, 15, 7, 12, 8, 9, 11, 7, 7, 12, 7, 6, 15, 13, 11,
  9, 7, 15, 11, 8, 6, 6, 14, 12, 13, 5, 14, 13, 13, 7, 5,
  15, 5, 8, 11, 14, 14, 6, 14, 6, 9, 12, 9, 12, 5, 15, 8,
  8, 5, 12, 9, 12, 5, 14, 6, 8, 13, 6, 5, 15, 13, 11, 11>>

IV == << <<\h6745,\h2301>>, <<\hEFCD,\hAB89>>, <<\h98BA,\hDCFE>>, <<\h1032,\h5476>>, <<\hC3D2,\hE1F0>> >>

InitialH == [n \in 0 .. 4 |-> FromLimbs(IV[n + 1])]

(* The call, with the block in ctx->X; both lines start from ctx->h. *)
Enter(block) ==
  /\ j = IDLE
  /\ X' = block
  /\ lines' = [l \in 1 .. 2 |-> [n \in 1 .. 5 |-> h[n - 1]]]
  /\ j' = 0
  /\ UNCHANGED h

(* Mutant: the sum is rotated with E in it. *)
AdvancedLate(l, n, word, shift, k) ==
  LET A == l[1]  B == l[2]  C == l[3]  D == l[4]  E == l[5]
      T == Rol(Plus(Sum3(A, f(n, B, C, D), word), Plus(FromLimbs(k), E)), shift)
  IN  <<E, T, B, Rol(C, 10), D>>

(* A line after one round, with the function n. *)
Advanced(l, n, word, shift, k) ==
  LET A == l[1]  B == l[2]  C == l[3]  D == l[4]  E == l[5]
      T == Plus(Rol(Plus(Sum3(A, f(n, B, C, D), word), FromLimbs(k)), shift), E)
  IN  <<E, T, B, Rol(C, 10), D>>

Round ==
  /\ j \in 0 .. 79
  /\ lines' = <<Advanced(lines[1], j, X[r[j + 1]], s[j + 1], K[1 + (j \div 16)]),
                Advanced(lines[2], 79 - j, X[r_[j + 1]], s_[j + 1], K_[1 + (j \div 16)])>>
  /\ j' = j + 1
  /\ UNCHANGED <<h, X>>

(* The lines are added to ctx->h, each word to another one. *)
Leave ==
  /\ j = 80
  /\ h' = [n \in 0 .. 4 |-> Sum3(h[(n + 1) % 5], lines[1][1 + ((n + 2) % 5)],
                                   lines[2][1 + ((n + 3) % 5)])]
  /\ j' = IDLE
  /\ UNCHANGED <<X, lines>>
-----------------------------------------------------------------------------
(* RIPEMD-160's definition.  Each line reads the 16 words of the block     *)
(* once in each of its five rounds, in an order that comes from two        *)
(* permutations, and rotates by an amount that belongs to the round and    *)
(* the word.                                                               *)
rho == <<7, 4, 13, 1, 10, 6, 15, 3, 12, 0, 9, 5, 2, 14, 11, 8>>
Then(p) == [n \in 0 .. 15 |-> rho[1 + p[n]]]
From(p) == <<p, Then(p), Then(Then(p)), Then(Then(Then(p))), Then(Then(Then(Then(p))))>>
Orders == <<From([n \in 0 .. 15 |-> n]), From([n \in 0 .. 15 |-> (9 * n + 5) % 16])>>

Rotation == <<
  <<11, 14, 15, 12, 5, 8, 7, 9, 11, 13, 14, 15, 6, 7, 9, 8>>,
  <<12, 13, 11, 15, 6, 9, 9, 7, 12, 15, 11, 13, 7, 8, 7, 7>>,
  <<13, 15, 14, 11, 7, 7, 6, 8, 13, 14, 13, 12, 5, 5, 6, 9>>,
  <<14, 11, 12, 14, 8, 6, 5, 5, 15, 12, 15, 14, 9, 9, 8, 6>>,
  <<15, 12, 13, 13, 9, 5, 8, 6, 14, 11, 12, 11, 8, 6, 5, 5>> >>

(* In a round only B is new: C is the B before it, and D, E and A the      *)
(* three before that, rotated by 10.  This is the B after round t of line  *)
(* l, from those before.                                                   *)
NextB(l, b, t, block) ==
  LET round == 1 + ((t - 1) \div 16)
      word == Orders[l][round][(t - 1) % 16]
      n == IF l = 1 THEN t - 1 ELSE 80 - t
      k == IF l = 1 THEN K[round] ELSE K_[round]
      sum == Plus(Sum3(Rol(b[t], 10), f(n, b[t + 4], b[t + 3], Rol(b[t + 2], 10)), block[word]),
                  FromLimbs(k))
  IN  Plus(Rol(sum, Rotation[round][word + 1]), Rol(b[t + 1], 10))

(* The values of B in a line, after the five that chain stands for. *)
Values(l, chain, block) ==
  LET b[t \in 0 .. 80] ==
        IF t = 0
          THEN <<Rol(chain[0], 22), Rol(chain[4], 22), Rol(chain[3], 22), chain[2], chain[1]>>
          ELSE LET so == b[t - 1] IN Append(so, NextB(l, so, t, block))
  IN  b[80]

Line(b) == <<Rol(b[81], 10), b[85], b[84], Rol(b[83], 10), Rol(b[82], 10)>>
Rounds(chain, block) == <<Line(Values(1, chain, block)), Line(Values(2, chain, block))>>
=============================================================================
