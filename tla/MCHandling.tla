----------------------------- MODULE MCHandling -----------------------------
(***************************************************************************)
(* Handling with the tools the server registers, and what is known of them. *)
(***************************************************************************)
EXTENDS Handling

Stage == INSTANCE StageOps
Look == INSTANCE LookOps
Shape == INSTANCE ShapeOps
File == INSTANCE FileOps
Motion == INSTANCE MotionOps

AllTools == Stage!StageTools \cup Look!LookTools \cup Shape!ShapeTools
            \cup File!FileTools \cup Motion!AnimationTools \cup Motion!RigTools

\* A property of a node may not be one of the node's own fields, and no name
\* may start with an underscore: the server lets both through.
NodeEdits == {"shader.node.create", "shader.node.update", "geometry_nodes.node.create",
              "geometry_nodes.node.update", "geometry_nodes.graph.build"}
KnownLate ==
  (NodeEdits \X {"forbidden property"})
  \cup ({"modifier.add", "modifier.update"} \X {"common property", "target of a type without"})
  \cup ({"shader.node.list", "geometry_nodes.node.list"} \X {"cursor"})
  \cup ({"render.settings.update", "render.execute"} \X {"view_transform"})
  \cup { << "image.load", "colorspace" >>, << "scene.world.update", "empty" >>,
         << "object.transform", "relative quaternion" >>,
         << "object.create", "empty_display_type" >>,
         << "rig.armature.create", "display_type" >>,
         << "animation.fcurve.update", "extrapolation" >> }
  \cup ({"rig.constraint.add"} \X
        {"target of a type without", "subtarget of a type without", "chain_length of a type without"})

KeepsSomething == {"render.execute", "render.viewport_screenshot", "texture.bake",
                   "object.create", "object.join"}

MeshEdits == {"mesh.extrude", "mesh.inset", "mesh.bevel", "mesh.subdivide", "mesh.loop_cut",
  "mesh.dissolve", "mesh.delete_elements", "mesh.merge_vertices", "mesh.remove_doubles", "mesh.fill",
  "mesh.bridge_edge_loops", "mesh.triangulate", "mesh.quads_from_tris"}
\* A bone may be gone when edit mode is left, which find_bone tells after the bump.
LookForTheirBone == {"rig.bone.create", "rig.bone.update", "rig.bone.parent"}

NoBump == MeshEdits \cup {"scene.openings.mark"}

\* Naming a node tree may switch it on; an analysis writes the mesh back.
WritingReads == {"mesh.analyze", "scene.mesh_analysis", "shader.socket.get"} \cup
  { d \o what : d \in {"shader", "geometry_nodes"},
                what \in {".tree.get", ".node.list", ".node.get", ".link.list"} }
=============================================================================
