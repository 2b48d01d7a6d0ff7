-------------------------------- MODULE MCBoot0 --------------------------------
(* Boot0 with sectors of 6 cells and a segment of 40, in which the places   *)
(* come in the order they have in memory: the image, boot0's stack, the     *)
(* BIOS's, boot0 itself, tc.hdr's sector.  The sizes are the largest safe   *)
(* one, the one after it, one that reaches boot0 and tc.hdr and one of more *)
(* sectors than AL counts.                                                  *)
EXTENDS Boot0, TLC

MCSizes == {SafeSize, SafeSize + 1, 34, 50}
MCBiosStacks == {BOOT0}
MCUnread == {SafeSize}
MCSymmetry == Permutations(Versions)
=============================================================================
