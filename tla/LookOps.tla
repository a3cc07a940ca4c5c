------------------------------ MODULE LookOps ------------------------------
(***************************************************************************)
(* What a surface looks like: materials, node graphs of materials, worlds  *)
(* and geometry, UV maps, images and baking.  Laid out like StageOps.      *)
(***************************************************************************)
EXTENDS Steps

-----------------------------------------------------------------------------
(* Materials *)

PrincipledInputs == {"principled type", "principled range"}
MaterialSettings == {"blend_method", "use_backface_culling", "displacement_method", "viewport_color",
                     "alpha_threshold"}
CreateMaterial == PrincipledInputs \cup MaterialSettings \cup
                  {"name", "use_nodes", "assign_to", "principled without nodes"}
UpdateMaterial == PrincipledInputs \cup MaterialSettings \cup {"material", "name", "nothing given"}
AssignMaterial == {"material", "objects", "slot_index", "replace_all", "face_indices",
  "expected_mesh_revision", "faces of several objects", "slot_index and replace_all"}
ListMaterials == {"name_contains", "used_by", "unused"} \cup Page
MaterialRefParams == {"material"}
DeleteMaterial == {"material", "force"}
DuplicateMaterial == {"material", "name"}
UnassignMaterial == {"objects", "material", "remove_slot"}

WritesPrincipled ==
  Finds("principled node") ** Finds("socket of this build") ** Needs({"principled type"})
  ** Writes("material") ** Finds("normal map")
AppliesSettings == Finds("blend_method") ** Writes("material")
                   ** Needs({"displacement_method", "viewport_color", "alpha_threshold"})
\* A free slot is taken before another is added; which slot, only the object can tell.
Assigns == Finds("can hold materials") ** Finds("slot_index") ** Writes("slots")
\* The slot is written before the faces are looked at.
AssignsFaces == Finds("a mesh") ** Finds("expected_mesh_revision") ** Assigns ** Finds("face_indices")
                ** Writes("mesh")

MaterialList == Needs({"name_contains", "unused"}) ** Ref("used_by") ** Paged
MaterialGet == Ref("material")
MaterialCreate ==
  Needs({"name", "use_nodes"}) ** Writes("material") ** Maybe(WritesPrincipled)
  ** Maybe(AppliesSettings) ** Maybe(Ref("assign_to") ** Each(Assigns)) ** Bumps
MaterialUpdate ==
  Ref("material") ** Needs({"name", "empty"}) ** Maybe(Writes("material"))
  ** Maybe(WritesPrincipled) ** Maybe(AppliesSettings) ** Bumps
MaterialDuplicate == Ref("material") ** Needs({"name"}) ** Changes("material")
MaterialDelete == Ref("material") ** Needs({"force"}) ** Finds("no users") ** Changes("material")
MaterialAssign ==
  Ref("material") ** Ref("objects") ** Needs({"slot_index", "replace_all", "face_indices",
  "expected_mesh_revision"}) ** (Each(Assigns) \cup AssignsFaces) ** Bumps
MaterialUnassign == Ref("objects") ** Maybe(Ref("material")) ** Needs({"remove_slot"})
                    ** Changes("slots")
MaterialSlotList == Ref("object")

MaterialTools ==
  { Read("material.list", ListMaterials, MaterialList),
    Read("material.get", MaterialRefParams, MaterialGet),
    Write("material.create", CreateMaterial, MaterialCreate),
    Write("material.update", UpdateMaterial, MaterialUpdate),
    Write("material.duplicate", DuplicateMaterial, MaterialDuplicate),
    Write("material.delete", DeleteMaterial, MaterialDelete),
    Write("material.assign", AssignMaterial, MaterialAssign),
    Write("material.unassign", UnassignMaterial, MaterialUnassign),
    Read("material.slot.list", {"object"}, MaterialSlotList) }

-----------------------------------------------------------------------------
(* Node graphs, of any kind of tree *)

TreeTarget == {"tree", "material", "node_tree", "object"}
SocketSelector == {"selector"}
PropertyAssignment == {"property name", "dunder property", "value"}
SocketDefault == SocketSelector \cup {"value"}
CreateNode == TreeTarget \cup PropertyAssignment \cup SocketDefault \cup
              {"node_type", "name", "location"}
UpdateNode == TreeTarget \cup PropertyAssignment \cup SocketDefault \cup
              {"node", "name", "location", "mute", "empty"}
CreateLink == TreeTarget \cup SocketSelector \cup
              {"from", "to", "replace_existing", "from input", "to output", "itself"}
DeleteLink == TreeTarget \cup SocketSelector \cup {"from", "to", "from or to"}
GetTree == TreeTarget \cup {"nodes"}
NodeRefParams == TreeTarget \cup {"node"}
DeleteNode == NodeRefParams \cup {"force"}
ListNodes == TreeTarget \cup Page
ClearTree == TreeTarget \cup {"keep_output"}
GetSocket == NodeRefParams \cup SocketSelector \cup {"direction"}
SetSocketDefault == NodeRefParams \cup SocketDefault \cup {"force"}

\* resolve_tree: naming a tree may switch its nodes on, or make the world.
TreeArg ==
  Needs({"tree"})
  ** ((Ref("material") ** Maybe(Writes("use_nodes"))) \cup Ref("node_tree")
      \cup (Ref("object") ** Finds("modifier")) \cup Maybe(Writes("world")))
NodeArg == Ref("node")
SocketArg == Needs({"selector"}) ** Finds("socket")
DecodedValue == Needs({"value"}) ** Finds("value")
\* The server lets through every name that is not a dunder.
SetsProperty == Needs({"dunder property", "forbidden property"}) ** Finds("property") ** DecodedValue
                ** Blender("value fits") ** Writes("node")
SetsDefault == Finds("default value") ** DecodedValue ** Blender("value fits") ** Writes("node")
MakesNode == Finds("node_type") ** Writes("node") ** Needs({"location"}) ** Maybe(SetsProperty)
             ** Maybe(SocketArg ** SetsDefault)
\* The link that was there goes before Blender is asked for the new one.
LinksSockets == Maybe(Writes("old link")) ** Blender("link") ** Writes("link")

TreeGet == TreeArg ** Maybe(Needs({"nodes"}) ** Finds("nodes"))
TreeClear == TreeArg ** Needs({"keep_output"}) ** Changes("nodes")
NodeList == TreeArg ** Paged
NodeGet == TreeArg ** NodeArg
NodeCreate == TreeArg ** Needs({"node_type"}) ** MakesNode ** Bumps
NodeUpdate ==
  TreeArg ** NodeArg ** Needs({"name", "empty"}) ** Writes("node") ** Needs({"location", "mute"})
  ** Maybe(SetsProperty) ** Maybe(SocketArg ** SetsDefault) ** Bumps
NodeDelete == TreeArg ** NodeArg ** Needs({"force"}) ** Finds("not the output") ** Changes("node")
LinkList == TreeArg
LinkCreate == TreeArg ** Needs({"from", "to", "replace_existing"}) ** Finds("nodes") ** SocketArg
              ** LinksSockets ** Bumps
LinkDelete == TreeArg ** Needs({"from or to"}) ** Finds("nodes") ** SocketArg ** Changes("link")
SocketGet == TreeArg ** NodeArg ** Needs({"direction"}) ** SocketArg
SocketSetDefault == TreeArg ** NodeArg ** SocketArg ** Needs({"force"}) ** Finds("not linked")
                    ** SetsDefault ** Bumps

NodeTools(domain) ==
  { Read(domain \o ".tree.get", GetTree, TreeGet),
    Read(domain \o ".node.list", ListNodes, NodeList),
    Read(domain \o ".node.get", NodeRefParams, NodeGet),
    Write(domain \o ".node.create", CreateNode, NodeCreate),
    Write(domain \o ".node.update", UpdateNode, NodeUpdate),
    Write(domain \o ".node.delete", DeleteNode, NodeDelete),
    Read(domain \o ".link.list", TreeTarget, LinkList),
    Write(domain \o ".link.create", CreateLink, LinkCreate),
    Write(domain \o ".link.delete", DeleteLink, LinkDelete) }
ShaderTools == NodeTools("shader") \cup
  { Write("shader.tree.clear", ClearTree, TreeClear),
    Read("shader.socket.get", GetSocket, SocketGet),
    Write("shader.socket.set_default", SetSocketDefault, SocketSetDefault) }

-----------------------------------------------------------------------------
(* Groups of geometry nodes, their interface and the modifiers that run them *)

ListNodeGroups == {"name_contains", "used_by"} \cup Page
GroupRefParams == {"group"}
CreateNodeGroup == {"name", "with_geometry_io", "attach_to"}
DeleteNodeGroup == {"group", "force"}
AddInterfaceSocket == {"group", "name", "type", "direction", "min", "max", "description",
                       "default_value", "min above max", "bounds of no number"}
UpdateInterfaceSocket == {"group", "socket", "name", "min", "max", "description", "default_value",
                          "min above max", "empty"}
DeleteInterfaceSocket == {"group", "socket"}
AttachNodeGroup == {"object", "group", "modifier_name", "input name", "value"}
GeometryModifierRef == {"object", "modifier"}
BuildGraph == TreeTarget \cup PropertyAssignment \cup SocketDefault \cup
  {"nodes", "too many nodes", "key", "duplicate key", "node_type", "name", "location", "links",
   "link to a node outside the plan", "itself"}

GroupArg == Ref("group")
GroupList == Needs({"name_contains"}) ** Ref("used_by") ** Paged
GroupGet == GroupArg
GroupCreate == Needs({"name", "with_geometry_io"}) ** Writes("group")
               ** Maybe(Ref("attach_to") ** Blender("modifier") ** Writes("modifier")) ** Bumps
GroupDelete == GroupArg ** Needs({"force"}) ** Finds("no users") ** Changes("group")
InterfaceList == GroupArg
\* The socket is there before its default is decoded.
InterfaceAdd ==
  GroupArg ** Needs({"name", "type", "direction", "min", "max", "description"}) ** Writes("socket")
  ** Maybe(Needs({"default_value"}) ** Finds("default_value") ** Blender("value fits")) ** Bumps
InterfaceUpdate ==
  GroupArg ** Needs({"socket"}) ** Finds("socket") ** Needs({"name", "empty"}) ** Writes("socket")
  ** Needs({"min", "max", "description"})
  ** Maybe(Needs({"default_value"}) ** Finds("default_value") ** Blender("value fits")) ** Bumps
InterfaceDelete == GroupArg ** Needs({"socket"}) ** Finds("socket") ** Changes("socket")
\* The new modifier stays when an input it is to have does not exist.
GroupAttach ==
  Ref("object") ** GroupArg ** Needs({"modifier_name"}) ** Blender("modifier") ** Writes("modifier")
  ** Maybe(Finds("input") ** DecodedValue ** Blender("value fits")) ** Bumps
GroupDetach == Ref("object") ** Needs({"modifier"}) ** Finds("modifier") ** Changes("modifier")
GroupModifierList == Ref("object")
\* The whole plan has been looked at by the server; the tree is cleared first.
GraphBuild ==
  TreeArg ** Needs({"links", "nodes"}) ** Maybe(Writes("cleared")) ** Needs({"key", "duplicate key"})
  ** Each(MakesNode) ** Maybe(Needs({"link to a node outside the plan"}) ** SocketArg ** LinksSockets)
  ** Bumps

GeometryTools == NodeTools("geometry_nodes") \cup
  { Read("geometry_nodes.group.list", ListNodeGroups, GroupList),
    Read("geometry_nodes.group.get", GroupRefParams, GroupGet),
    Write("geometry_nodes.group.create", CreateNodeGroup, GroupCreate),
    Write("geometry_nodes.group.delete", DeleteNodeGroup, GroupDelete),
    Write("geometry_nodes.graph.build", BuildGraph, GraphBuild),
    Read("geometry_nodes.interface.list", GroupRefParams, InterfaceList),
    Write("geometry_nodes.interface.add_socket", AddInterfaceSocket, InterfaceAdd),
    Write("geometry_nodes.interface.update_socket", UpdateInterfaceSocket, InterfaceUpdate),
    Write("geometry_nodes.interface.delete_socket", DeleteInterfaceSocket, InterfaceDelete),
    Write("geometry_nodes.modifier.attach", AttachNodeGroup, GroupAttach),
    Write("geometry_nodes.modifier.detach", GeometryModifierRef, GroupDetach),
    Read("geometry_nodes.modifier.list", GeometryModifierRef, GroupModifierList) }

-----------------------------------------------------------------------------
(* UV maps *)

UvMapOperation == {"object", "name", "copy_active"}
UvObjectParams == {"object", "uv_map"}
Unwraps == {"object", "method", "uv_map", "selection", "margin", "angle_limit", "correct_aspect",
            "scale_to_bounds", "projection_size"}
PackIslands == {"objects", "margin", "rotate", "pack_together", "together with nothing"}
MarkSeam == {"object", "selection", "selection of edges", "every edge"}

MeshArg == Ref("object") ** Finds("a mesh")
\* The active map, or the one of that name, made where it does not exist.
ActivatesMap == Writes("uv map")
SelectsFaces == Maybe(Finds("selection in range")) ** Writes("selection of faces")

\* Mutant: listing the maps goes through the helper that makes one.
UvMapsActive == MeshArg ** ActivatesMap

UvMaps == MeshArg
UvMapCreate == MeshArg ** Needs({"name"}) ** Finds("no such map, fewer than 8")
               ** Needs({"copy_active"}) ** Changes("uv map")
UvMapDelete == MeshArg ** Needs({"name"}) ** Finds("uv map") ** Changes("uv map")
UvMapSetActive == MeshArg ** Needs({"name"}) ** Finds("uv map") ** Changes("active map")
UvUnwrap ==
  MeshArg ** Needs({"selection"}) ** Finds("expected_revision") ** Finds("viewport")
  ** Needs({"uv_map"}) ** ActivatesMap ** SelectsFaces ** Finds("operator")
  ** Needs({"margin", "angle_limit", "correct_aspect", "scale_to_bounds", "projection_size"})
  ** InMode(Blender("unwrap") ** Writes("uv coordinates")) ** Bumps
UvPack ==
  Ref("objects") ** Needs({"margin", "rotate", "pack_together"}) ** Finds("a mesh")
  ** Each(ActivatesMap ** SelectsFaces ** InMode(Blender("pack") ** Writes("uv coordinates"))) ** Bumps
UvAverage ==
  MeshArg ** Needs({"uv_map"}) ** ActivatesMap ** SelectsFaces
  ** InMode(Blender("average") ** Writes("uv coordinates")) ** Bumps
UvSeam == MeshArg ** Needs({"selection", "selection of edges", "every edge"})
          ** Finds("expected_revision") ** Finds("selection in range") ** Changes("seam")

UvTools ==
  { Read("uv.maps.list", {"object"}, UvMaps),
    Write("uv.map.create", UvMapOperation, UvMapCreate),
    Write("uv.map.delete", UvMapOperation, UvMapDelete),
    Write("uv.map.set_active", UvMapOperation, UvMapSetActive),
    Write("uv.pack_islands", PackIslands, UvPack),
    Write("uv.average_island_scale", UvObjectParams, UvAverage),
    Write("uv.mark_seam", MarkSeam, UvSeam),
    Write("uv.clear_seam", MarkSeam, UvSeam) }
UnwrapTools == { Write(op, Unwraps, UvUnwrap) : op \in
  {"uv.unwrap.angle_based", "uv.unwrap.conformal", "uv.smart_project", "uv.cube_project",
   "uv.cylinder_project", "uv.sphere_project", "uv.project_from_view"} }

-----------------------------------------------------------------------------
(* Images and baking.  Paths are the server's. *)

ListImages == {"name_contains", "missing", "unused"} \cup Page
ImageRefParams == {"image"}
RepathImages == {"directory", "images", "only_missing", "pack"}
LoadImage == {"source_path", "name", "pack", "colorspace type", "extension"}
Bake == {"target", "sources", "type", "width", "height", "margin", "samples", "uv_map",
  "cage_extrusion", "cage_object", "max_ray_distance", "format", "name", "connect_to_material",
  "output_path", "cage without sources", "target among sources"}

ImageArg == Ref("image")
ImageList == Needs({"name_contains", "missing", "unused"}) ** Paged
ImageGet == ImageArg
\* An image that cannot be read or packed is named in the answer, not an error.
ImageRepath == Needs({"directory"}) ** Finds("directory") ** Needs({"images"}) ** Finds("images")
               ** Maybe(Writes("image")) ** Bumps
\* The image is in the file before its colour space is found not to exist.
ImageLoad ==
  Needs({"source_path"}) ** Finds("file") ** Blender("load") ** Writes("image") ** Needs({"name"})
  ** Needs({"colorspace type", "colorspace"}) ** Needs({"pack"}) ** Maybe(Blender("pack")) ** Bumps
ImageReload == ImageArg ** Changes("image")
ImageRemove == ImageArg ** Changes("image")
\* Every material gets a node for the time of the bake, or for good when it is
\* to be connected; the image stays, and the settings of the bake do.
TextureBake ==
  LET bakes(nodes, back, after) ==
        nodes ** Guard(back, Borrows("engine") ** Borrows("bake settings")
          ** Maybe(Needs({"cage_extrusion", "max_ray_distance"}) ** Ref("cage_object"))
          ** InObjectMode(Blender("bake")) ** Needs({"format"}) ** Blender("save") ** Writes("disk"))
        ** after
  IN  Finds("cycles") ** Ref("target") ** Finds("a mesh") ** Ref("sources")
      ** Needs({"type", "width", "height", "margin", "samples", "output_path", "connect_to_material",
                "target among sources"})
      ** Finds("uv map") ** Needs({"uv_map"}) ** Maybe(Writes("active map")) ** Finds("material")
      ** Needs({"name"}) ** Writes("image")
      ** (bakes(Borrows("image nodes"), {"engine", "image nodes"}, Nothing)
          \cup bakes(Writes("image nodes"), {"engine"}, Writes("material")))
      ** Bumps

ImageTools ==
  { Read("image.list", ListImages, ImageList),
    Read("image.get", ImageRefParams, ImageGet),
    Write("image.repath", RepathImages, ImageRepath),
    Write("image.load", LoadImage, ImageLoad),
    Write("image.reload", ImageRefParams, ImageReload),
    Write("image.remove", ImageRefParams, ImageRemove),
    External("texture.bake", Bake, TextureBake) }

LookTools == MaterialTools \cup ShaderTools \cup GeometryTools \cup UvTools \cup UnwrapTools
             \cup ImageTools
=============================================================================
