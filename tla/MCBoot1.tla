-------------------------------- MODULE MCBoot1 --------------------------------
(* Boot1 with the heap of the code, the three entries of prfs[], and lines  *)
(* of up to 2 keys, of which one may be without a character, or of 64, the  *)
(* limit.                                                                   *)
EXTENDS Boot1

MCChars == {"a", "b", NUL}
MCLongest == [n \in 1 .. maxlen |-> "a"]
MCLines == UNION {[1 .. n -> MCChars] : n \in 0 .. 2} \cup {MCLongest}
MCPasses == {<<>>, <<"a">>, <<"a", "b">>, MCLongest}
MCSizes == {PASSPHRASE_SZ, dklen, XTS_CTX_SZ, SALT_LEN + 4}
=============================================================================
