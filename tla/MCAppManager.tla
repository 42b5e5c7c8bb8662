---------------------------- MODULE MCAppManager ----------------------------
(***************************************************************************)
(* Instances of AppManager for TLC.                                        *)
(***************************************************************************)
EXTENDS AppManager, TLC

MCPaths == Apps \X Versions

Symmetry == Permutations(Versions)
=============================================================================
