------------------------ MODULE MC_FreeListAllocator ------------------------
(* FreeListAllocator on a heap of a few bytes.  A header of size 4 and     *)
(* alignment 2 keeps the proportion of the real one, 16 and 8.             *)
EXTENDS FreeListAllocator

\* Smaller than a header, larger, and more aligned than one.
MCLayouts == {[size |-> 1, align |-> 1], [size |-> 6, align |-> 2],
              [size |-> 4, align |-> 4]}
=============================================================================
