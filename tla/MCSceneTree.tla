---------------------------- MODULE MCSceneTree -----------------------------
(* Three objects, two collections beside the scene's own, and any seven calls. *)
EXTENDS SceneTree

MCSymmetry == Permutations(Objects) \cup Permutations(Collections)
=============================================================================
