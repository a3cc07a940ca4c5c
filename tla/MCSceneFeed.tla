---------------------------- MODULE MCSceneFeed -----------------------------
(***************************************************************************)
(* Instances of SceneFeed for TLC.                                         *)
(***************************************************************************)
EXTENDS SceneFeed, TLC

Symmetry == Permutations(Sessions)
=============================================================================
