-------------------------- MODULE MCGarbageCollector --------------------------
(***************************************************************************)
(* Model-checking instances of GarbageCollector.  Addresses are            *)
(* interchangeable, so safety runs use their permutations as a symmetry.   *)
(***************************************************************************)
EXTENDS GarbageCollector, TLC

Symmetry == Permutations(Obj)
=============================================================================
