-------------------------- MODULE MCLocalBootstrap --------------------------
(***************************************************************************)
(* Instances of LocalBootstrap for TLC.                                    *)
(***************************************************************************)
EXTENDS LocalBootstrap, TLC

Symmetry ==
  Permutations(Keys) \cup Permutations(Stores) \cup Permutations(Models)
    \cup Permutations(Hashes)
=============================================================================
