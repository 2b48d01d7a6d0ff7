-------------------------------- MODULE MCHashing -------------------------------
(* Hashing with the constants of rmd160.c and of sha512.c: any message of   *)
(* up to two blocks, in pieces that fill, just miss and cross a block and   *)
(* whose sums reach every length on both sides of the padding's thresholds; *)
(* and messages with published digests: "abc", one that ends where the      *)
(* length no longer fits, one that is fed in many ways, and the two that    *)
(* the HMAC of the test programs' first test hashes.                        *)
EXTENDS Hashing

MCRmd160 ==
  [name |-> "rmd160", BLOCK_SZ |-> 64, X_SZ |-> 64, CLOBBERS |-> FALSE, THRESHOLD |-> 56,
   LEN_AT |-> 56, LEN_SZ |-> 8, LEN_FIELD |-> 8,
   Chunks |-> {0, 1, 8, 55, 64, 100}, MaxBytes |-> 130, message |-> ANY_MESSAGE, digest |-> <<>>]

MCSha512 ==
  [name |-> "sha512", BLOCK_SZ |-> 128, X_SZ |-> 136, CLOBBERS |-> TRUE, THRESHOLD |-> 120,
   LEN_AT |-> 120, LEN_SZ |-> 8, LEN_FIELD |-> 16,
   Chunks |-> {0, 1, 8, 111, 128, 200}, MaxBytes |-> 258, message |-> ANY_MESSAGE, digest |-> <<>>]

Vector(alg, msg, pieces, published) ==
  [alg EXCEPT !.message = msg, !.MaxBytes = Len(msg), !.Chunks = pieces, !.digest = published]

abc == <<97, 98, 99>>
digits == [n \in 1 .. 80 |-> 48 + (n % 10)]
letters == [n \in 1 .. 56 |-> 97 + ((n - 1) \div 4) + ((n - 1) % 4)]
HiThere == <<72, 105, 32, 84, 104, 101, 114, 101>>

(* A key of 20 bytes 0x0b in a block, under ipad or opad. *)
Pad(alg, unkeyed, keyed) == [n \in 1 .. alg.BLOCK_SZ |-> IF n <= 20 THEN keyed ELSE unkeyed]
Inner(alg) == Pad(alg, 54, 61) \o HiThere
Bytes(limbs) == [n \in 1 .. 2 * Len(limbs) |->
                   LET l == limbs[(n + 1) \div 2] IN IF n % 2 = 1 THEN l \div 256 ELSE l % 256]
Outer(alg, inner) == Pad(alg, 92, 87) \o Bytes(inner)

rmdInner == <<\h13e1, \he542, \h59fd, \h22e8, \h1840, \hea00, \h7b95, \h32d9, \ha594, \h748b>>
shaInner == <<
  \h1643, \h3344, \hd19d, \h4409, \hdc15, \hd2cf, \h5be4, \he7af, \h47b8, \h1a62, \h47d7, \ha5a4,
  \hd37e, \he29d, \h099b, \h6150, \h0058, \h39cd, \h5e21, \h0c3d, \h44c9, \hc23f, \h5ed6, \h7a01,
  \h256f, \h5e9b, \hfce3, \hd99a, \h61ca, \h38a7, \hc4d2, \hdff4>>

MCHashes ==
  {MCRmd160, MCSha512,
   Vector(MCRmd160, abc, {1, 3},
     <<\h8eb2, \h08f7, \he05d, \h987a, \h9b04, \h4a8e, \h98c6, \hb087, \hf15a, \h0bfc>>),
   Vector(MCRmd160, letters, {56},
     <<\h12a0, \h5338, \h4a9c, \h0c88, \he405, \ha06c, \h27dc, \hf49a, \hda62, \heb2b>>),
   Vector(MCRmd160, digits, {20, 64, 80},
     <<\h9b75, \h2e45, \h573d, \h4b39, \hf4db, \hd332, \h3cab, \h82bf, \h6332, \h6bfb>>),
   Vector(MCRmd160, Inner(MCRmd160), {8, 64}, rmdInner),
   Vector(MCRmd160, Outer(MCRmd160, rmdInner), {20, 64},
     <<\h24cb, \h4bd6, \h7d20, \hfc1a, \h5d2e, \hd773, \h2dcc, \h3937, \h7f0a, \h5668>>),
   Vector(MCSha512, abc, {3},
     <<\hddaf, \h35a1, \h9361, \h7aba, \hcc41, \h7349, \hae20, \h4131, \h12e6, \hfa4e, \h89a9, \h7ea2,
       \h0a9e, \heee6, \h4b55, \hd39a, \h2192, \h992a, \h274f, \hc1a8, \h36ba, \h3c23, \ha3fe, \hebbd,
       \h454d, \h4423, \h643c, \he80e, \h2a9a, \hc94f, \ha54c, \ha49f>>),
   Vector(MCSha512, Inner(MCSha512), {8, 128}, shaInner),
   Vector(MCSha512, Outer(MCSha512, shaInner), {64, 128},
     <<\h87aa, \h7cde, \ha5ef, \h619d, \h4ff0, \hb424, \h1a1d, \h6cb0, \h2379, \hf4e2, \hce4e, \hc278,
       \h7ad0, \hb305, \h45e1, \h7cde, \hdaa8, \h33b7, \hd6b8, \ha702, \h038b, \h274e, \haea3, \hf4e4,
       \hbe9d, \h914e, \heb61, \hf170, \h2e69, \h6c20, \h3a12, \h6854>>)}
=============================================================================
