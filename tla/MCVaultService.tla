--------------------------- MODULE MCVaultService ---------------------------
(***************************************************************************)
(* Instances of VaultService for TLC.                                      *)
(***************************************************************************)
EXTENDS VaultService, TLC

Symmetry ==
  Permutations(Identities) \cup Permutations(Items) \cup Permutations(Versions)
    \cup Permutations(Nodes) \cup Permutations(Requests)
=============================================================================
