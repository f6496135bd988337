--------------------------- MODULE MCEffectQueue ---------------------------
(* Instances of EffectQueue for TLC. *)
EXTENDS EffectQueue

CONSTANTS k1, k2, r1, r2

TwoKeys == {k1, k2}
OneKey == {k1}
TwoRunners == {r1, r2}
OneRunner == {r1}
=============================================================================
