----------------------------- MODULE MCGuardian -----------------------------
(***************************************************************************)
(* Instances of Guardian for TLC.                                          *)
(***************************************************************************)
EXTENDS Guardian, TLC

\* Sums on both sides of every threshold, also by less than the credit, and
\* one that does not fit the width of its terms.
MCSent ==
  [device_integrity : {0, 25, 255}, network : {0, 20}, credential_exposure : {0, 45},
   session_context : {0}, anomaly : {0, 1}]

Symmetry == Permutations(Requests)
=============================================================================
