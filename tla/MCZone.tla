------------------------------- MODULE MCZone -------------------------------
(* The instances of ZoneCollector that TLC checks.                           *)
EXTENDS ZoneCollector, TLC

CONSTANTS p, q          \* blocks

MCSymmetry == Permutations({p, q})
=============================================================================
