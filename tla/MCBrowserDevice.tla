--------------------------- MODULE MCBrowserDevice ---------------------------
(***************************************************************************)
(* An instance of BrowserDevice for TLC.                                   *)
(***************************************************************************)
EXTENDS BrowserDevice, TLC

Symmetry ==
  Permutations(Keys) \cup Permutations(Flows) \cup Permutations(Sessions)
    \cup Permutations(Users)
=============================================================================
