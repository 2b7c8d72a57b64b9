---------------------------- MODULE MCOnboarding ----------------------------
(***************************************************************************)
(* Instances of Onboarding for TLC.                                        *)
(***************************************************************************)
EXTENDS Onboarding, TLC

Symmetry ==
  Permutations(Ceremonies) \cup Permutations(Gateways) \cup Permutations(Requests)
=============================================================================
