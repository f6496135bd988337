------------------------- MODULE MCBoundedTTLCache -------------------------
(* An instance of BoundedTTLCache for TLC. *)
EXTENDS BoundedTTLCache, TLC

CONSTANTS k1, k2, k3, k4, k5

FiveKeys == {k1, k2, k3, k4, k5}
Symmetry == Permutations(Keys)
=============================================================================
