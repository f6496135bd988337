------------------------- MODULE MCApprovalSession -------------------------
(* An instance of ApprovalSession for TLC. *)
EXTENDS ApprovalSession, TLC

CONSTANTS h1, h2

TwoHandlers == {h1, h2}
Symmetry == Permutations(Handlers)
=============================================================================
