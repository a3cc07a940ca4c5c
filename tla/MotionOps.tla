----------------------------- MODULE MotionOps -----------------------------
(***************************************************************************)
(* Animation and rigging: keyframes, curves, actions and strips            *)
(* (operations/animation.py), armatures, weights and constraints           *)
(* (operations/rigging.py), and what looks them over                       *)
(* (operations/diagnostics.py), each with what the server refuses.         *)
(***************************************************************************)
EXTENDS Steps

(* Animation *)

KeyTarget == {"target", "path", "channel"}
Keyframe == {"frame", "value", "interpolation", "easing", "easing of no easing"}
InsertKeyframes == {"object", "keyframes", "replace", "too many"} \cup KeyTarget \cup Keyframe
DeleteKeyframes == {"object", "frames", "frame_range", "nothing named", "range reversed"} \cup KeyTarget
ListKeyframes == {"object", "frame_range"} \cup KeyTarget \cup Page
SetInterpolation == {"object", "interpolation", "easing", "frame_range"} \cup KeyTarget
SetFrameRange == {"frame_start", "frame_end", "frame_step", "range reversed", "empty"}
UpdateFCurve == {"object", "data_path", "array_index", "muted", "locked", "extrapolation type", "cyclic"}
GetFCurve == {"object", "data_path", "array_index"}
ActionRefParams == {"action"}
CreateAction == {"name", "object", "fake_user"}
ActionAssignment == {"object", "action", "name", "create", "fake_user", "nothing to assign"}
GeneratedMotion == {"object", "start_frame", "end_frame", "interpolation", "key_start", "no duration",
                    "range reversed"}
RotationMotion == GeneratedMotion \cup {"axis", "degrees", "loop_forever", "no turn"}
MoveMotion == GeneratedMotion \cup {"to", "by", "to or by"}
ScaleMotion == GeneratedMotion \cup {"to", "scale not positive"}
LoopAnimation == {"object", "enabled"}
NlaTrackRefParams == {"object", "track"}
StripSettings == {"end_frame", "blend_type", "influence", "repeat"}
CreateNlaStrip == {"object", "track", "action", "start_frame", "name", "end before start"} \cup StripSettings
NlaStripRefParams == {"object", "track", "strip"} \cup StripSettings

\* location, rotation, scale and the hide flags have no fields, and arrive as
\* bare strings where a dictionary is wanted.
KeyTargetArg ==
  Misreads("target")
  \cup (Needs({"target"}) ** (Nothing \cup Needs({"path"}) \cup Finds("shape key or property")
        \cup (Finds("bone") ** Needs({"channel"})) \cup (Finds("material") ** Finds("socket"))))
\* owner, ensure_action: there before the first key.  A value is written before
\* it is keyed, frame by frame, on a frame that is the user's.
InsertsKeys(given) ==
  Writes("animation")
  ** Guard({"frame"}, Borrows("frame")
       ** Each(Needs(given) ** Finds("value fits") ** Writes("keys") ** Blender("key")))

KeyframeInsert ==
  Ref("object") ** Needs({"target", "keyframes", "replace"}) ** KeyTargetArg ** InsertsKeys(Keyframe) ** Bumps
KeyframeDelete ==
  Ref("object") ** Needs({"frames", "nothing named"})
  ** Maybe((Nothing \cup KeyTargetArg) ** Needs({"frame_range"}) ** Changes("keys"))
KeyframeList == Ref("object") ** Maybe((Nothing \cup KeyTargetArg) ** Needs({"frame_range"}) ** Paged)
InterpolationSet ==
  Ref("object") ** Needs({"interpolation", "easing"}) ** Finds("animation")
  ** (Nothing \cup KeyTargetArg) ** Needs({"frame_range"}) ** Changes("keys")
RangeSet ==
  Needs({"frame_start", "frame_end", "frame_step", "range reversed"}) ** Finds("range in order") ** Changes("scene")

FCurveArg == Ref("object") ** Needs({"data_path", "array_index"}) ** Finds("curve")
FCurveList == Ref("object") ** Paged
\* muted and locked are written before extrapolation is read.
FCurveUpdate ==
  FCurveArg ** Needs({"muted", "empty"}) ** Writes("curve")
  ** Needs({"locked", "extrapolation type", "extrapolation", "cyclic"}) ** Bumps

ActionList == Needs({"name_contains"}) ** Paged
ActionCreate == Needs({"name"}) ** Writes("action") ** Needs({"fake_user"}) ** Maybe(Ref("object")) ** Bumps
ActionAssign ==
  Ref("object") ** Needs({"create"})
  ** (Needs({"nothing to assign", "name"}) \cup Ref("action")) ** Writes("action") ** Needs({"fake_user"}) ** Bumps

\* _motion_args, and _insert: the handler of keyframe.insert with its bump taken out.
MotionArgs == Ref("object") ** Needs(GeneratedMotion)
CreateRotation ==
  MotionArgs ** Needs({"axis", "degrees", "loop_forever", "no turn"}) ** Writes("rotation mode") ** InsertsKeys({}) ** Bumps
CreateMove == MotionArgs ** Needs({"to", "by", "to or by"}) ** InsertsKeys({}) ** Bumps
CreateScale == MotionArgs ** Needs({"to", "scale not positive"}) ** InsertsKeys({}) ** Bumps
Loop == Ref("object") ** Needs({"enabled"}) ** Finds("animation") ** Changes("curves")

NlaTrackCreate == Ref("object") ** Needs({"name"}) ** Changes("tracks")
NlaTrackDelete == Ref("object") ** Needs({"track"}) ** Finds("track") ** Changes("tracks")
StripUpdate ==
  Needs({"end_frame"}) ** Writes("strip") ** Needs({"blend_type", "influence", "repeat"}) ** Bumps
\* The track is made where there is none, also when the strip then does not fit.
NlaStripCreate ==
  Ref("object") ** Needs({"track", "action"}) ** Finds("action") ** Needs({"start_frame"})
  ** Writes("tracks") ** Needs({"name"}) ** Blender("strip") ** StripUpdate
StripArg == Ref("object") ** Needs({"track", "strip"}) ** Finds("track") ** Finds("strip")

AnimationTools ==
  { Read("animation.frame.get", {}, Nothing),
    Write("animation.frame.set", {"frame"}, Needs({"frame"}) ** Changes("scene")),
    Read("animation.range.get", {}, Nothing),
    Write("animation.range.set", SetFrameRange, RangeSet),
    Write("animation.keyframe.insert", InsertKeyframes, KeyframeInsert),
    Write("animation.keyframe.delete", DeleteKeyframes, KeyframeDelete),
    Read("animation.keyframe.list", ListKeyframes, KeyframeList),
    Write("animation.interpolation.set", SetInterpolation, InterpolationSet),
    Read("animation.fcurve.list", {"object"} \cup Page, FCurveList),
    Read("animation.fcurve.get", GetFCurve, FCurveArg),
    Write("animation.fcurve.update", UpdateFCurve, FCurveUpdate),
    Read("animation.action.list", {"name_contains"} \cup Page, ActionList),
    Read("animation.action.get", ActionRefParams, Ref("action")),
    Write("animation.action.create", CreateAction, ActionCreate),
    Write("animation.action.assign", ActionAssignment, ActionAssign),
    Write("animation.action.delete", ActionRefParams, Ref("action") ** Changes("action")),
    Write("animation.create_rotation", RotationMotion, CreateRotation),
    Write("animation.create_move", MoveMotion, CreateMove),
    Write("animation.create_scale", ScaleMotion, CreateScale),
    Write("animation.loop", LoopAnimation, Loop),
    Read("animation.nla.track.list", {"object"}, Ref("object")),
    Write("animation.nla.track.create", {"object", "name"}, NlaTrackCreate),
    Write("animation.nla.track.delete", NlaTrackRefParams, NlaTrackDelete),
    Write("animation.nla.strip.create", CreateNlaStrip, NlaStripCreate),
    Write("animation.nla.strip.update", NlaStripRefParams, StripArg ** StripUpdate),
    Write("animation.nla.strip.delete", NlaStripRefParams, StripArg ** Changes("strip")) }

(* Armatures and bones *)

BoneSpec == {"name", "head", "tail", "roll", "deform", "zero length", "parent", "own parent", "connected to nothing"}
CreateArmature == BoneSpec \cup {"location", "show_names", "bone twice", "parent not before"}
ArmatureRefParams == {"armature"}
BoneRefParams == {"armature", "bone"}
CreateBone == {"armature"} \cup BoneSpec
UpdateBone == {"armature", "bone", "name", "head", "tail", "roll", "deform", "zero length", "empty"}
ListBones == {"armature", "name_contains", "deform_only", "parent"} \cup Page
ParentBone == {"armature", "bone", "parent", "connected", "own parent", "connected to nothing"}
MirrorBones == {"armature", "bones", "convention", "direction", "axis", "overwrite", "dry_run"}

ArmatureArg == Ref("armature") ** Finds("armature")
BoneArg == Needs({"bone"}) ** Finds("bone")

\* _create_bones: a name taken, or a parent that is not there, shows in edit mode.
MakesBone == Needs(BoneSpec) ** Finds("free name") ** Writes("bones") ** Maybe(Finds("parent"))
ArmatureCreate ==
  Needs({"name", "location"}) ** Writes("armature") ** Needs({"show_names", "display_type"})
  ** Maybe(InMode(MakesBone)) ** Bumps
\* find_bone looks once more for the bone of the answer: one that was connected to where
\* its own tail is has no length, and is gone when edit mode is left.
BoneIsKept == Finds("bone kept")
BoneCreate ==
  ArmatureArg ** Needs({"name", "parent", "connected", "roll", "deform"}) ** InMode(MakesBone)
  ** Bumps ** BoneIsKept
BoneList == ArmatureArg ** Needs({"name_contains", "deform_only", "parent"}) ** Paged
\* Whether an end moved alone leaves the bone a length is seen when it has moved.
BoneUpdate ==
  ArmatureArg ** BoneArg
  ** InMode(Needs({"head", "tail", "empty"}) ** Writes("bones") ** Finds("length left")
            ** Needs({"roll", "deform", "name"}))
  ** Bumps ** BoneIsKept
BoneDelete == ArmatureArg ** BoneArg ** InMode(Maybe(Writes("bones"))) ** Bumps
BoneParent ==
  ArmatureArg ** BoneArg ** Needs({"parent", "connected"}) ** Maybe(Finds("parent") ** Needs({"own parent"}))
  ** InMode(Maybe(Finds("no cycle")) ** Writes("bones")) ** Bumps ** BoneIsKept
\* The server knows six axes, mirroring three.
BoneMirror ==
  ArmatureArg ** Needs({"convention", "direction", "axis", "signed axis", "overwrite", "dry_run"})
  ** Maybe(InMode(Maybe(Writes("bones"))) ** Bumps)

(* Vertex groups and binding *)

VertexGroupOperation == {"object", "group", "vertices", "weight", "mode", "expected_mesh_revision"}
NormalizeWeights == {"objects", "groups", "lock_active", "max_influences", "dry_run"}
BindMesh == {"armature", "meshes", "weighting", "keep_existing_groups", "armature among the meshes"}

VertexGroupCreate == Ref("object") ** Needs({"group"}) ** Finds("free name") ** Changes("group")
VertexGroupDelete == Ref("object") ** Needs({"group"}) ** Finds("group") ** Changes("group")

\* Mutant: the group is made before the vertices are looked at.
VertexGroupFirst ==
  Ref("object") ** Finds("mesh") ** Needs({"group", "vertices", "weight", "mode", "expected_mesh_revision"})
  ** Finds("mesh revision") ** Needs({"empty"}) ** Changes("group") ** Finds("vertices") ** Changes("weights")

VertexGroupAssign ==
  Ref("object") ** Finds("mesh") ** Needs({"group", "vertices", "weight", "mode", "expected_mesh_revision"})
  ** Finds("mesh revision") ** Needs({"empty"}) ** Finds("vertices") ** Changes("weights")
\* The second object may turn out to be no mesh when the first is normalized.
Normalize ==
  Ref("objects") ** Needs({"groups", "max_influences", "dry_run"})
  ** (Each(Finds("mesh")) \cup (Each(Finds("mesh") ** Maybe(Writes("weights"))) ** Bumps))
\* Groups are gone before the next mesh is looked at, and before Blender binds.
MeshParent ==
  ArmatureArg ** Ref("meshes") ** Needs({"weighting", "keep_existing_groups"}) ** Finds("armature not among them")
  ** Each(Finds("mesh"))
  ** InObjectMode(Each(Finds("in the view layer") ** Maybe(Writes("weights"))) ** Blender("parent") ** Writes("parents"))
  ** Bumps

(* Constraints *)

ConstraintProperties == {"property name", "dunder property", "value"}
ConstraintOperation == ConstraintProperties \cup
  {"object", "bone", "type", "name", "target", "subtarget", "influence", "chain_length", "no target", "IK without bone"}
ListConstraints == {"object", "bone"}
ConstraintRefParams == ConstraintProperties \cup
  {"object", "bone", "constraint", "name", "target", "subtarget", "influence", "chain_length"}

ConstraintHolder == Ref("object") ** Needs({"bone"}) ** Maybe(Finds("bone"))
SetsConstraintProperty == Finds("property") ** Needs({"value"}) ** Writes("constraint")
\* _apply_constraint, on the constraint that add has made: what its type lacks
\* follows from the request.
ConstraintAdd ==
  ConstraintHolder ** Needs({"type"}) ** Blender("constraint type") ** Writes("constraint") ** Needs({"name"})
  ** Maybe(Needs({"target of a type without"}) ** Ref("target"))
  ** Needs({"subtarget", "subtarget of a type without", "influence", "chain_length", "chain_length of a type without"})
  ** Maybe(SetsConstraintProperty) ** Bumps
\* The same on one that is there: its type is the file's.
ConstraintArg == ConstraintHolder ** Needs({"constraint"}) ** Finds("constraint")
ConstraintUpdate ==
  ConstraintArg ** Needs({"empty"}) ** Maybe(Needs({"name"}) ** Writes("constraint"))
  ** Maybe(Finds("type with a target") ** Ref("target") ** Writes("constraint"))
  ** Needs({"subtarget"}) ** Finds("type with a subtarget") ** Needs({"influence", "chain_length"}) ** Finds("type with a chain")
  ** Maybe(SetsConstraintProperty) ** Bumps

(* Diagnostics *)

WeightDiagnostics == {"objects", "tolerance", "max_influences", "sample_limit"}
SymmetryDiagnostics == {"armature", "convention", "axis", "tolerance"}
FixNaming == {"armature", "convention", "rename_vertex_groups", "dry_run"}

WeightsCheck == Ref("objects") ** Needs({"tolerance", "max_influences", "sample_limit"}) ** Each(Finds("mesh"))
NamingCheck == ArmatureArg ** Needs({"convention"})
SymmetryCheck == ArmatureArg ** Needs({"axis", "signed axis", "tolerance", "convention"})
NamingFix ==
  ArmatureArg ** Needs({"convention", "rename_vertex_groups", "dry_run"}) ** Maybe(Maybe(Writes("bones")) ** Bumps)

RigTools ==
  { Read("rig.armature.list", {}, Needs({"name_contains"}) ** Paged),
    Read("rig.armature.get", ArmatureRefParams, ArmatureArg),
    Write("rig.armature.create", CreateArmature, ArmatureCreate),
    Read("rig.bone.list", ListBones, BoneList),
    Read("rig.bone.get", BoneRefParams, ArmatureArg ** BoneArg),
    Write("rig.bone.create", CreateBone, BoneCreate),
    Write("rig.bone.update", UpdateBone, BoneUpdate),
    Write("rig.bone.delete", BoneRefParams, BoneDelete),
    Write("rig.bone.parent", ParentBone, BoneParent),
    Write("rig.bone.mirror", MirrorBones, BoneMirror),
    Read("rig.vertex_group.list", {"object"}, Ref("object")),
    Write("rig.vertex_group.create", VertexGroupOperation, VertexGroupCreate),
    Write("rig.vertex_group.delete", VertexGroupOperation, VertexGroupDelete),
    Write("rig.vertex_group.assign", VertexGroupOperation, VertexGroupAssign),
    Write("rig.vertex_group.normalize", NormalizeWeights, Normalize),
    Write("rig.parent_mesh", BindMesh, MeshParent),
    Write("rig.auto_weights", BindMesh, MeshParent),
    Read("rig.constraint.list", ListConstraints, ConstraintHolder),
    Write("rig.constraint.add", ConstraintOperation, ConstraintAdd),
    Write("rig.constraint.update", ConstraintRefParams, ConstraintUpdate),
    Write("rig.constraint.remove", ConstraintRefParams, ConstraintArg ** Changes("constraint")),
    Read("rig.diagnostics.health", ArmatureRefParams, ArmatureArg),
    Read("rig.diagnostics.naming", SymmetryDiagnostics, NamingCheck),
    Read("rig.diagnostics.weights", WeightDiagnostics, WeightsCheck),
    Read("rig.diagnostics.symmetry", SymmetryDiagnostics, SymmetryCheck),
    Write("rig.fix.naming", FixNaming, NamingFix),
    Write("rig.fix.normalize_weights", NormalizeWeights, Normalize),
    Write("rig.fix.mirror_bones", MirrorBones, BoneMirror) }
=============================================================================
