------------------------------ MODULE MCMutex -------------------------------
(* Instances of RubyMutex for TLC. *)
EXTENDS RubyMutex, TLC

CONSTANTS main, a, b

MCThreads2 == {main, a}
MCThreads3 == {main, a, b}
MCSymmetry == Permutations({a, b})
=============================================================================
