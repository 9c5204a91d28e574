--------------------------- MODULE MCPageAllocator ---------------------------
(***************************************************************************)
(* PageAllocator for TLC: pages of two bytes, a word of four bits.  The    *)
(* callers' variables are interchangeable.                                 *)
(***************************************************************************)
EXTENDS PageAllocator, TLC

CONSTANTS h1, h2, h3, h4

MCFourHandles == {h1, h2, h3, h4}
MCSymmetry == Permutations(Handles)

MCPageSize == 2
MCWordSize == 16

(* one, two and three pages, nothing, and what wraps *)
MCSizes == {1, 4, 5, 0, 15}
=============================================================================
