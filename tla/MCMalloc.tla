-------------------------------- MODULE MCMalloc --------------------------------
(* Malloc on a heap of 16 blocks of 2 bytes, two bytes of bitmap.  The sizes *)
(* take 3, 4, 7 and all 16 blocks, and only one is a multiple of BLOCK_SZ:   *)
(* calls split, merge, fragment and exhaust the heap, and their runs of      *)
(* blocks cross from one byte of the bitmap to the next.                     *)
EXTENDS Malloc

MCSizes == {5, 8, 13, 31}
=============================================================================
