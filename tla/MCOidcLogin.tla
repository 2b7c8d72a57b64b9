----------------------------- MODULE MCOidcLogin ----------------------------
(***************************************************************************)
(* Instances of OidcLogin for TLC.                                         *)
(***************************************************************************)
EXTENDS OidcLogin, TLC

Symmetry ==
  Permutations(Logins) \cup Permutations(Codes) \cup Permutations(Subjects)
    \cup Permutations(Sessions) \cup Permutations(Requests)
=============================================================================
