------------------------------ MODULE MCQueue -------------------------------
(* Instances of RubyQueue for TLC. *)
EXTENDS RubyQueue, TLC

CONSTANTS a, b, c, v, w

MCSymmetry == Permutations({v, w})
=============================================================================
