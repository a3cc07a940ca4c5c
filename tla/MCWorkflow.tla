----------------------------- MODULE MCWorkflow -----------------------------
(***************************************************************************)
(* Every workflow, with each choice a request makes; wall runs of two and  *)
(* of three segments.                                                      *)
(***************************************************************************)
EXTENDS Workflow

MCPrograms ==
  UNION { {PbrMaterial(b), GlassMaterial(b), EmissiveMaterial(b), CreateWall(b),
           CreateWallRun(Segments(3, b), b), CreateWallRun(Segments(2, FALSE), b), ThreePoint(b)} : b \in BOOLEAN }
  \cup {Scatter, ArrayAlongCurve}
  \cup { StudioRender(b, c) : b, c \in BOOLEAN }
  \cup { ProductTurntable(b, c) : b, c \in BOOLEAN }
  \cup { PrepareExport(r) : r \in PrepareRequests }
=============================================================================
