---------------------------- MODULE MCSceneWatch ----------------------------
(***************************************************************************)
(* Instances of SceneWatch for TLC.                                        *)
(***************************************************************************)
EXTENDS SceneWatch

\* Constraint: a diff that says reset says so for good (SceneDiff, IfReset), and then the
\* properties ask nothing more of it.
NotReset == [change |-> "reset"] \notin ToSet(changes)

Symmetry == Permutations(Objects) \cup Permutations(Ids)
=============================================================================
