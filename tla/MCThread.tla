------------------------------ MODULE MCThread ------------------------------
(* Model values for RubyThread. *)
EXTENDS RubyThread, TLC

CONSTANTS m, a, b

MCThreads == {m, a, b}
MCThreads2 == {m, a}
MCSymmetry == Permutations({a, b})
=============================================================================
