------------------------------- MODULE MCMixins -------------------------------
(***************************************************************************)
(* Mixins for TLC: the middleware's threads are interchangeable, and the   *)
(* properties that are checked are about safety only.                      *)
(***************************************************************************)
EXTENDS Mixins, TLC

Symmetry == Permutations(Dispatchers)
=============================================================================
