---------------------------------- MODULE Heap ----------------------------------
(***************************************************************************)
(* What boot1's allocator (src/boot1/malloc.c) promises its callers, with  *)
(* the bitmap and its scan left out.                                       *)
(*                                                                         *)
(* A caller asks for sz bytes and is given the lowest run of free blocks   *)
(* that holds them, or NULL if there is none.  It gives memory back by     *)
(* naming the pointer and the size it asked for: the allocator keeps no    *)
(* sizes of its own.                                                       *)
(***************************************************************************)
EXTENDS HeapLayout

VARIABLES
  live,   \* the allocations the callers hold
  req,    \* the size a caller is asking for, NULL when no call is under way
  ret     \* the pointer the call that has just ended returned, else NULL

vars == <<live, req, ret>>

Init == /\ live = {}
        /\ req = NULL
        /\ ret = NULL

Request(sz) == /\ req = NULL
               /\ req' = sz
               /\ ret' = NULL
               /\ UNCHANGED live

Grant(b) == /\ req # NULL
            /\ IsFirstFit(Held(live), b, BlocksFor(req))
            /\ live' = live \cup {[ptr |-> PtrOf(b), sz |-> req]}
            /\ ret' = PtrOf(b)
            /\ req' = NULL

Refuse == /\ req # NULL
          /\ \A b \in Block : ~Fits(Held(live), b, BlocksFor(req))
          /\ ret' = NULL
          /\ req' = NULL
          /\ UNCHANGED live

Release(a) == /\ req = NULL
              /\ live' = live \ {a}
              /\ ret' = NULL
              /\ UNCHANGED req

Next == \/ \E sz \in Sizes : Request(sz)
        \/ \E b \in Block : Grant(b)
        \/ Refuse
        \/ \E a \in live : Release(a)

Spec == Init /\ [][Next]_vars
=============================================================================
