------------------------------ MODULE ShapeOps ------------------------------
(***************************************************************************)
(* Objects, collections, meshes and modifiers.  Laid out like StageOps.    *)
(***************************************************************************)
EXTENDS Steps

-----------------------------------------------------------------------------
(* Objects *)

Rotation == {"rotation"}
PrimitiveOptions == {"option range", "option type"}
CreateObject == Rotation \cup PrimitiveOptions \cup
  {"type", "name", "location", "scale", "dimensions", "collection", "scale and dimensions"}
TransformObject == Rotation \cup
  {"object", "location", "scale", "dimensions", "relative", "local", "zero scale", "empty"}
ListObjects == {"name_contains", "types", "collection", "selected", "visible", "material",
                "has_modifier"} \cup Page
SetParent == {"object", "parent", "parent_type", "keep_transform", "bone type", "no bone",
              "parent is object by the same reference"}
SetOrigin == {"objects", "no objects", "mode", "point type", "no point"}
GetObject == {"object"}
DeleteObjects == {"objects", "no objects", "delete_children", "delete_data"}
DuplicateObjects == {"objects", "no objects", "linked", "count", "offset", "name_prefix",
                     "collection", "copies on top of each other"}
RenameObject == {"object", "name", "rename_data"}
VisibilityUpdate == {"objects", "viewport", "render"}
\* Mutant: the colour is not looked at before it is sent.
DisplayUpdateWithoutColor == {"objects", "no objects", "display_type", "show_wire", "show_in_front",
                              "show_name"}

DisplayUpdate == {"objects", "no objects", "display_type", "show_wire", "show_in_front",
                  "show_name", "color"}
ApplyTransforms == {"objects", "location", "rotation", "scale"}
JoinObjects == {"target", "sources", "no sources", "target in sources by the same reference"}
SeparateObject == {"object", "method"}
ConvertObjects == {"objects", "no objects", "target", "keep_original"}
ClearParent == {"objects", "no objects", "keep_transform"}

ObjectArg == Ref("object")
ObjectsArg == Needs({"objects", "no objects"}) ** Finds("objects")

ObjectList == Needs({"name_contains", "types"}) ** Ref("collection")
  ** Needs({"selected", "visible", "material", "has_modifier"}) ** Paged
ObjectGet == ObjectArg
\* What an empty looks like is the add-on's to check, when the empty is there;
\* an operator that makes a mesh selects it, and nobody selects what was.
BuildsMesh == Blender("primitive") ** Borrows("selection") ** Writes("object") ** Finds("object in view")
Builds == (Writes("object") ** Needs({"empty_display_type"})) \cup BuildsMesh
ObjectCreate ==
  Needs({"type", "name", "option type", "location"}) ** Builds ** Needs({"rotation", "scale", "dimensions"})
  ** Ref("collection") ** Bumps
\* A quaternion to turn by is refused where the object has been moved already.
ObjectTransform ==
  ObjectArg ** Needs({"relative", "local", "location"}) ** Writes("object")
  ** Needs({"rotation", "relative quaternion", "scale", "dimensions"}) ** Bumps
ObjectDelete == ObjectsArg ** Needs({"delete_children", "delete_data"}) ** Changes("object")
ObjectDuplicate == ObjectsArg ** Needs({"linked", "count", "offset", "name_prefix"})
                   ** Ref("collection") ** Changes("object")
ObjectRename == ObjectArg ** Needs({"name", "rename_data"}) ** Changes("object")
\* The parent is set before the bone is looked for.
ObjectSetParent ==
  ObjectArg ** Ref("parent") ** Needs({"parent_type", "keep_transform", "bone type"})
  ** Finds("no cycle") ** Writes("object") ** Maybe(Needs({"no bone"}) ** Finds("bone")) ** Bumps
ObjectClearParent == ObjectsArg ** Needs({"keep_transform"}) ** Changes("object")
ObjectVisibility == ObjectsArg ** Needs({"viewport", "render"}) ** Changes("object")
ObjectDisplay ==
  ObjectsArg ** Needs({"show_wire", "show_in_front", "show_name"})
  ** Each(Needs({"display_type"}) ** Writes("object") ** Needs({"color"})) ** Bumps
ObjectApply ==
  ObjectsArg ** Needs({"location", "rotation", "scale", "nothing to apply"})
  ** Each(Finds("data of its own") ** InObjectMode(Blender("apply") ** Writes("mesh"))) ** Bumps
\* When a source was selected, giving the context back trips over what is no
\* longer there and gives up.
ObjectJoin ==
  LET joins == Finds("sources in view") ** Blender("join") ** Writes("mesh")
  IN  Ref("target") ** Needs({"sources", "no sources"}) ** Finds("sources of the same type")
      ** (InObjectMode(joins) \cup (Finds("visible object") ** Borrows("context") ** joins)) ** Bumps
ObjectSeparate == ObjectArg ** Needs({"method"}) ** Finds("a mesh")
  ** InMode(Blender("separate") ** Writes("mesh")) ** Bumps
ObjectSetOrigin ==
  ObjectsArg ** Needs({"mode", "point type"})
  ** Guard({"cursor"}, Each(Needs({"no point"}) ** Borrows("cursor")
                            ** InObjectMode(Blender("origin") ** Writes("mesh")))) ** Bumps
ObjectConvert == ObjectsArg ** Needs({"target", "keep_original"})
  ** Each(InObjectMode(Blender("convert") ** Writes("object"))) ** Bumps

ObjectTools ==
  { Read("object.list", ListObjects, ObjectList),
    Read("object.get", GetObject, ObjectGet),
    Write("object.create", CreateObject, ObjectCreate),
    Write("object.delete", DeleteObjects, ObjectDelete),
    Write("object.duplicate", DuplicateObjects, ObjectDuplicate),
    Write("object.rename", RenameObject, ObjectRename),
    Write("object.transform", TransformObject, ObjectTransform),
    Write("object.transform.apply", ApplyTransforms, ObjectApply),
    Write("object.set_parent", SetParent, ObjectSetParent),
    Write("object.clear_parent", ClearParent, ObjectClearParent),
    Write("object.hide", VisibilityUpdate, ObjectVisibility),
    Write("object.show", VisibilityUpdate, ObjectVisibility),
    Write("object.set_display", DisplayUpdate, ObjectDisplay),
    Write("object.join", JoinObjects, ObjectJoin),
    Write("object.separate", SeparateObject, ObjectSeparate),
    Write("object.origin.set", SetOrigin, ObjectSetOrigin),
    Write("object.convert", ConvertObjects, ObjectConvert) }

-----------------------------------------------------------------------------
(* Collections *)

CreateCollection == {"name", "parent", "objects", "color_tag"}
CollectionMembership == {"collection", "objects", "no objects", "exclusive"}
CollectionVisibility == {"collection", "hide_viewport", "hide_render", "hide_select", "exclude",
                         "recursive", "empty"}
DeleteCollection == {"collection", "delete_objects", "recursive"}
ListCollections == {"name_contains", "parent", "recursive"} \cup Page
GetCollection == {"collection"}
RenameCollection == {"collection", "name"}

CollectionArg == Ref("collection")

CollectionList == Needs({"name_contains", "recursive"}) ** Ref("parent") ** Paged
CollectionGet == CollectionArg
\* The collection is in the file before the objects it is to hold are found.
CollectionCreate == Needs({"name"}) ** Ref("parent") ** Writes("collection") ** Needs({"color_tag"})
                    ** Ref("objects") ** Bumps
CollectionRename == CollectionArg ** Needs({"name"}) ** Changes("collection")
CollectionDelete == CollectionArg ** Needs({"delete_objects", "recursive"}) ** Finds("not the root")
                    ** Changes("collection")
CollectionLink == CollectionArg ** ObjectsArg ** Changes("collection")
CollectionUnlink == CollectionArg ** ObjectsArg
  ** Each(Finds("in another collection too") ** Writes("collection")) ** Bumps
CollectionMove == CollectionArg ** ObjectsArg ** Needs({"exclusive"}) ** Changes("collection")
CollectionSetVisibility ==
  CollectionArg ** Needs({"recursive", "hide_viewport", "hide_render", "hide_select", "exclude"})
  ** Each(Writes("collection") ** Maybe(Finds("in the view layer"))) ** Bumps

CollectionTools ==
  { Read("collection.list", ListCollections, CollectionList),
    Read("collection.get", GetCollection, CollectionGet),
    Write("collection.create", CreateCollection, CollectionCreate),
    Write("collection.rename", RenameCollection, CollectionRename),
    Write("collection.delete", DeleteCollection, CollectionDelete),
    Write("collection.link_object", CollectionMembership, CollectionLink),
    Write("collection.unlink_object", CollectionMembership, CollectionUnlink),
    Write("collection.move_object", CollectionMembership, CollectionMove),
    Write("collection.set_visibility", CollectionVisibility, CollectionSetVisibility) }

-----------------------------------------------------------------------------
(* Meshes.  An edit works on a copy; leaving the block writes it back and    *)
(* gives the mesh a new revision of its own.  The revision of the scene is   *)
(* left to the event Blender sends afterwards.                               *)

ElementSelection == {"no selection", "selection", "selection type", "expected_mesh_revision"}
OnElements == ElementSelection \cup {"object"}
Extrude == OnElements \cup {"offset", "along_normal", "offset and along_normal", "individual"}
Inset == OnElements \cup {"selection of faces", "thickness", "depth", "individual"}
Bevel == OnElements \cup {"amount", "segments", "profile", "offset_type", "clamp_overlap"}
Subdivide == OnElements \cup {"cuts", "smoothness", "use_smooth"}
LoopCut == {"object", "edge_index", "cuts", "expected_mesh_revision"}
Dissolve == OnElements \cup {"mode", "angle_limit"}
DeleteElements == OnElements \cup {"mode", "every element"}
MergeVertices == OnElements \cup {"distance"}
BridgeEdgeLoops == OnElements \cup {"selection of edges", "too few edges"}
Triangulate == OnElements \cup {"quad_method", "ngon_method"}
RecalculateNormals == {"object", "inside"}
MeshRefParams == {"object"}
GetVertices == {"object", "indices", "world_space", "expected_mesh_revision"} \cup Page
GetFaces == {"object", "indices", "include_normals", "expected_mesh_revision"} \cup Page
CreateMesh == {"name", "vertices", "no vertices", "too many vertices", "faces", "edges", "location",
               "collection"}
Fill == OnElements \cup {"use_grid_fill", "selection of edges", "every element"}
QuadsFromTris == OnElements \cup {"face_angle", "shape_angle"}

SelectionArgs == Needs({"selection", "selection type", "expected_mesh_revision"})
RequireSelection == Needs({"no selection"}) ** SelectionArgs
CheckMeshRevision == Finds("expected_mesh_revision")
MeshEdit(body) == Finds("a mesh") ** body ** Writes("mesh")
Elements == Finds("indices in range") ** Finds("elements")

MeshInfo == ObjectArg ** Finds("a mesh")
MeshVertices == MeshInfo ** Needs({"world_space", "indices", "expected_mesh_revision"})
                ** CheckMeshRevision ** Finds("indices in range") ** Paged
MeshFaces == MeshInfo ** Needs({"include_normals", "indices", "expected_mesh_revision"})
             ** CheckMeshRevision ** Finds("indices in range") ** Paged
\* A read in an edit session, and so one that writes.
MeshAnalyze == ObjectArg ** MeshEdit(Nothing)
MeshCreate ==
  Needs({"name", "vertices", "no vertices", "too many vertices", "faces", "edges"}) ** Writes("mesh")
  ** Ref("collection") ** Needs({"location"}) ** Bumps
MeshExtrude == ObjectArg ** RequireSelection
  ** Needs({"offset", "along_normal", "individual", "offset and along_normal"})
  ** CheckMeshRevision ** MeshEdit(Elements)
MeshInset == ObjectArg ** RequireSelection
  ** Needs({"selection of faces", "thickness", "depth", "individual"})
  ** CheckMeshRevision ** MeshEdit(Elements)
MeshBevel == ObjectArg ** RequireSelection
  ** Needs({"amount", "segments", "profile", "clamp_overlap", "offset_type"})
  ** CheckMeshRevision ** MeshEdit(Elements ** Blender("bevel"))
MeshSubdivide == ObjectArg ** SelectionArgs ** Needs({"cuts", "smoothness", "use_smooth"})
  ** CheckMeshRevision ** MeshEdit(Elements)
MeshLoopCut == ObjectArg ** Needs({"edge_index", "cuts", "expected_mesh_revision"})
  ** CheckMeshRevision ** MeshEdit(Finds("indices in range"))
MeshDissolve == ObjectArg ** Needs({"mode"}) ** SelectionArgs ** Needs({"angle_limit"})
  ** CheckMeshRevision ** MeshEdit(Finds("indices in range"))
MeshDeleteElements == ObjectArg ** RequireSelection ** Needs({"mode", "every element"})
  ** CheckMeshRevision ** MeshEdit(Finds("indices in range"))
MeshMerge == ObjectArg ** SelectionArgs ** Needs({"distance"})
  ** CheckMeshRevision ** MeshEdit(Finds("indices in range"))
MeshRecalculate == ObjectArg ** Needs({"inside"}) ** MeshEdit(Nothing) ** Bumps
MeshFlip == ObjectArg ** SelectionArgs ** CheckMeshRevision
            ** MeshEdit(Finds("indices in range")) ** Bumps
\* What the edit did not create is found out when it has been written back.
MeshFill == ObjectArg ** RequireSelection ** Needs({"selection of edges", "use_grid_fill"})
  ** CheckMeshRevision ** MeshEdit(Elements) ** Finds("a closed loop")
MeshBridge == ObjectArg ** RequireSelection ** Needs({"selection of edges", "too few edges"})
  ** CheckMeshRevision ** MeshEdit(Finds("indices in range")) ** Finds("two loops")
MeshTriangulate == ObjectArg ** SelectionArgs ** Needs({"quad_method", "ngon_method"})
  ** CheckMeshRevision ** MeshEdit(Finds("indices in range"))
MeshQuads == ObjectArg ** SelectionArgs ** Needs({"face_angle", "shape_angle"})
  ** CheckMeshRevision ** MeshEdit(Finds("indices in range") ** Finds("triangles"))

MeshTools ==
  { Read("mesh.info", MeshRefParams, MeshInfo),
    Read("mesh.analyze", MeshRefParams, MeshAnalyze),
    Read("mesh.vertices.get", GetVertices, MeshVertices),
    Read("mesh.faces.get", GetFaces, MeshFaces),
    Write("mesh.create", CreateMesh, MeshCreate),
    Write("mesh.extrude", Extrude, MeshExtrude),
    Write("mesh.inset", Inset, MeshInset),
    Write("mesh.bevel", Bevel, MeshBevel),
    Write("mesh.subdivide", Subdivide, MeshSubdivide),
    Write("mesh.loop_cut", LoopCut, MeshLoopCut),
    Write("mesh.dissolve", Dissolve, MeshDissolve),
    Write("mesh.delete_elements", DeleteElements, MeshDeleteElements),
    Write("mesh.merge_vertices", MergeVertices, MeshMerge),
    Write("mesh.remove_doubles", MergeVertices, MeshMerge),
    Write("mesh.normals.recalculate", RecalculateNormals, MeshRecalculate),
    Write("mesh.normals.flip", OnElements, MeshFlip),
    Write("mesh.fill", Fill, MeshFill),
    Write("mesh.bridge_edge_loops", BridgeEdgeLoops, MeshBridge),
    Write("mesh.triangulate", Triangulate, MeshTriangulate),
    Write("mesh.quads_from_tris", QuadsFromTris, MeshQuads) }

-----------------------------------------------------------------------------
(* Modifiers *)

ModifierType == {"type"}
CommonModifierSettings == {"show_viewport", "show_render", "show_in_editmode", "target"}
\* What a modifier is to be set to besides: a checked name and a value with its type.
ModifierProperties == {"property name", "dunder property", "value"}
UnknownFields == {"unknown field"}
AddModifier == ModifierType \cup CommonModifierSettings \cup ModifierProperties \cup UnknownFields
               \cup {"object", "name", "index", "no target"}
UpdateModifier == CommonModifierSettings \cup ModifierProperties \cup UnknownFields
                  \cup {"object", "modifier", "name", "empty"}
MoveModifier == {"object", "modifier", "to"}
ApplyModifier == {"object", "modifier", "apply_preceding"}
CopyModifiers == {"from", "to", "no destination", "modifiers", "replace",
                  "source among destinations by the same reference"}
ListModifiers == {"object", "modifier_type", "include_properties"} \cup Page
ModifierRefParams == {"object", "modifier"}

FindModifier == Ref("modifier")
\* Whether the type has a target, and which names are set through a field of
\* their own, the server does not ask.
SetModifierProperty == Needs({"dunder property", "common property"}) ** Finds("property")
                       ** Needs({"value"}) ** Blender("value fits") ** Writes("modifier")
ApplyCommon == Needs({"show_viewport", "show_render", "show_in_editmode"})
               ** Maybe(Needs({"target", "target of a type without"}) ** Finds("target"))
               ** Writes("modifier")
MovesTo == InObjectMode(Blender("move") ** Writes("modifier"))

ModifierList == ObjectArg ** Needs({"modifier_type", "include_properties"}) ** Paged
ModifierGet == ObjectArg ** FindModifier
ModifierAdd ==
  ObjectArg ** Needs({"type", "name"}) ** Blender("modifier") ** Writes("modifier") ** ApplyCommon
  ** Maybe(SetModifierProperty) ** Needs({"index"}) ** Maybe(MovesTo) ** Bumps
ModifierUpdate ==
  ObjectArg ** FindModifier ** Needs({"name", "empty"}) ** Writes("modifier") ** ApplyCommon
  ** Maybe(SetModifierProperty) ** Bumps
ModifierMove == ObjectArg ** FindModifier ** Needs({"to"}) ** MovesTo ** Bumps
ModifierRemove == ObjectArg ** FindModifier ** Changes("modifier")
ModifierApply ==
  ObjectArg ** FindModifier ** Needs({"apply_preceding"}) ** Finds("data of its own")
  ** InObjectMode(Each(Blender("apply") ** Writes("mesh"))) ** Bumps
ModifierCopy ==
  Ref("from") ** Needs({"to", "no destination"}) ** Finds("destinations")
  ** Needs({"modifiers", "replace"}) ** Finds("source elsewhere") ** Finds("modifiers")
  ** Changes("modifier")

ModifierTools ==
  { Read("modifier.list", ListModifiers, ModifierList),
    Read("modifier.get", ModifierRefParams, ModifierGet),
    Write("modifier.add", AddModifier, ModifierAdd),
    Write("modifier.update", UpdateModifier, ModifierUpdate),
    Write("modifier.move", MoveModifier, ModifierMove),
    Write("modifier.remove", ModifierRefParams, ModifierRemove),
    Write("modifier.apply", ApplyModifier, ModifierApply),
    Write("modifier.copy", CopyModifiers, ModifierCopy) }

ShapeTools == ObjectTools \cup CollectionTools \cup MeshTools \cup ModifierTools
=============================================================================
