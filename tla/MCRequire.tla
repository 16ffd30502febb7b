----------------------------- MODULE MCRequire ------------------------------
(* Instances of RubyRequire for TLC. *)
EXTENDS RubyRequire, TLC

CONSTANTS a, b, c, f, g, h

MCDeps == (g :> <<f>>) @@ (f :> <<h>>) @@ (h :> <<>>)
=============================================================================
