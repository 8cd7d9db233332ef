--------------------------- MODULE MCSpiffsCache ---------------------------
(* An instance of SpiffsCache for TLC; the bounds are in the .cfg file. *)
EXTENDS SpiffsCache, TLC

CONSTANTS p1, p2, p3    \* pages

\* A block with its lookup page and one more, and the lookup page of another.
TwoBlocks == {{p1, p2}, {p3}}

LookupPages == {p1, p3}

Symmetry == Permutations(Bits) \cup Permutations(Objs)
=============================================================================
