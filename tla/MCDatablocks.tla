---------------------------- MODULE MCDatablocks ----------------------------
(* Two objects, two meshes, three names, and any four calls or doings of the user. *)
EXTENDS Datablocks, TLC

MCSymmetry == Permutations(Objects) \cup Permutations(Meshes) \cup Permutations(Names)
=============================================================================
