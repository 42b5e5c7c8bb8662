----------------------------- MODULE MCScreens -----------------------------
(***************************************************************************)
(* Instances of Screens for TLC.                                           *)
(***************************************************************************)
EXTENDS Screens

Symmetry == Permutations(Apps)
=============================================================================
