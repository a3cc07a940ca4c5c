------------------------------- MODULE MCFiles ------------------------------
(* The two managed roots share nothing: the run looks at one, then at the other. *)
EXTENDS Downloads, Artifacts

VARIABLE root

MCSymmetry == Permutations(Calls \cup Callers)
MCStems == {<<>>, <<[frame |-> 1]>>}
MCExportName == <<[copy |-> 0]>>

Init == root \in {"downloads", "renders"} /\ DownloadsInit /\ ArtifactsInit
Next == /\ UNCHANGED root
        /\ \/ root = "downloads" /\ DownloadsNext /\ UNCHANGED artifacts
           \/ root = "renders" /\ ArtifactsNext /\ UNCHANGED downloads

Spec == Init /\ [][Next]_<<root, downloads, artifacts>>
=============================================================================
