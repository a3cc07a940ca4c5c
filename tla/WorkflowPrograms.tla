-------------------------- MODULE WorkflowPrograms --------------------------
(***************************************************************************)
(* The workflows of the workflow engine (crates/workflow-engine), each as  *)
(* the sequence of steps its body takes.  A step is a call of an operation *)
(* or a computation of the server's own; what an operation makes is named  *)
(* by its role ("camera", "key_light", ...).                               *)
(***************************************************************************)
EXTENDS Naturals, Sequences, FiniteSets

CONSTANT None  \* nothing is made, needed or undone

-----------------------------------------------------------------------------
(* Steps. *)

\* Run::step: an operation whose failure fails the run, which goes on to the next
\* step, to be skipped.
Call(op) ==
  [kind |-> "call", op |-> op, makes |-> None,
   reported |-> FALSE,  \* Run::created: it enters the report under its role
   undone |-> FALSE,    \* Run::compensate
   needsId |-> FALSE,   \* an answer without an id fails the run
   fatal |-> TRUE,      \* FALSE: Run::optional_step
   stops |-> FALSE,     \* the body returns at once when the step gives nothing
   needs |-> None,      \* taken only when the run knows this thing
   lists |-> {}, mends |-> {}, body |-> <<>>]

Optional(op) == [Call(op) EXCEPT !.fatal = FALSE]
Read(op)     == [Call(op) EXCEPT !.stops = TRUE]

\* Run::created_object, Run::created_material and the bodies that spell them out.
Make(op, thing) ==
  [Call(op) EXCEPT !.makes = thing, !.reported = TRUE, !.undone = TRUE,
                   !.needsId = TRUE, !.stops = TRUE]

\* An `if let Some(id)`: without an id it is passed over.
MakeIfKnown(op, thing) ==
  [Call(op) EXCEPT !.makes = thing, !.reported = TRUE, !.undone = TRUE, !.stops = TRUE]

\* A computation of the server's own that may refuse, and a list of ids put in
\* the report at once.
Check(what)    == [Read(what) EXCEPT !.kind = "check"]
Report(things) == [Call("created") EXCEPT !.kind = "report", !.lists = things]

\* Another workflow, called with the same executor and rollback_on_failure off.
Nest(program) == [Read("workflow") EXCEPT !.kind = "nest", !.body = program]

When(condition, steps) == IF condition THEN steps ELSE <<>>

-----------------------------------------------------------------------------
(* Materials, walls and node groups: plan, create, build, assign.  The     *)
(* plan was made once already to validate the request, so it succeeds.     *)

PbrMaterial(assign) ==
  <<Make("material.create", "material"), Call("shader.graph.build")>>
    \o When(assign, <<Call("material.assign")>>)

GlassMaterial(assign) ==
  <<Make("material.create", "material"), Call("shader.graph.build"),
    Optional("material.update")>> \o When(assign, <<Call("material.assign")>>)

EmissiveMaterial(assign) ==
  <<Make("material.create", "material"), Call("shader.graph.build")>>
    \o When(assign, <<Call("material.assign")>>)

CreateWall(material) ==
  <<Make("object.create", "object")>> \o When(material, <<Call("material.assign")>>)

\* WallRun::plan: a closed run joins the last point back to the first.
Segments(points, closed) == IF closed THEN points ELSE points - 1

Segment(i) == <<"wall_01", "wall_02", "wall_03">>[i]

CreateWallRun(n, material) ==
  [i \in 1..n |-> [MakeIfKnown("object.create", Segment(i)) EXCEPT !.reported = FALSE]]
    \o <<Report({Segment(i) : i \in 1..n})>>
    \o When(material, <<Call("material.assign")>>)

Scatter ==
  <<Make("geometry_nodes.group.create", "group"), Call("geometry_nodes.graph.build"),
    MakeIfKnown("geometry_nodes.modifier.attach", "modifier")>>

ArrayAlongCurve ==
  <<Make("geometry_nodes.group.create", "group"), Call("geometry_nodes.graph.build"),
    MakeIfKnown("geometry_nodes.modifier.attach", "modifier")>>

-----------------------------------------------------------------------------
(* Lighting, studio and turntable. *)

Lights == <<"key_light", "fill_light", "rim_light">>

\* bounds_from_object and ThreePointSpec::plan may refuse a request that was
\* validated: an empty has no size, and a key cooler than the fill drives the
\* fill's temperature past its limit.
ThreePoint(collection) ==
  <<Read("object.get"), Check("bounds_from_object"), Check("plan")>>
    \o When(~collection,
            <<[Optional("collection.create") EXCEPT !.makes = "collection", !.undone = TRUE]>>)
    \o [i \in 1..3 |-> Make("light.create", Lights[i])]

\* The camera is reused or made; without its id nothing is focused.
StudioCamera(reused) ==
  IF reused
  THEN <<Call("object.transform"), Call("camera.look_at"),
         Optional("camera.depth_of_field.update")>>
  ELSE <<MakeIfKnown("camera.create", "camera"),
         [Optional("camera.depth_of_field.update") EXCEPT !.needs = "camera"]>>

\* FramingRequest::solve refuses a direction without a length.
StudioRender(camera, skipLighting) ==
  <<Read("object.get"), Check("bounds_from_object"), Check("solve")>>
    \o StudioCamera(camera)
    \o <<Call("scene.world.update")>>
    \o When(~skipLighting, <<Nest(ThreePoint(FALSE))>>)
    \o <<Call("render.settings.update")>>

ProductTurntable(studio, render) ==
  <<Read("object.get"), Check("bounds_from_object")>>
    \o When(studio, <<Nest(StudioRender(FALSE, FALSE))>>)
    \o <<Make("object.create", "pivot"),
         [Call("object.set_parent") EXCEPT !.needs = "camera"],
         Call("animation.range.set"), Call("animation.create_rotation")>>
    \o When(render, <<Call("render.execute")>>)

-----------------------------------------------------------------------------
(* Export.  What an export check can find, and what each profile asks.     *)

Blocking == {"UNAPPLIED_SCALE", "NO_UV_MAP", "MISSING_TEXTURES", "TOO_MANY_INFLUENCES"}
Findings == Blocking \cup {"NOT_TRIANGULATED", "LOOSE_GEOMETRY", "UNSAFE_NAME"}

Profiles == {"GENERIC", "GAME_ASSET", "GLTF", "UNREAL", "UNITY"}

RulesFor(profile) ==
  CASE profile = "GENERIC" -> {"MISSING_TEXTURES", "LOOSE_GEOMETRY"}
    [] profile = "GLTF"    -> Findings \ {"UNSAFE_NAME"}
    [] OTHER               -> Findings

\* object_report gives the checker no bone influences, whatever the mesh has.
ObjectReport(problems) == problems \ {"TOO_MANY_INFLUENCES"}

\* Mutant: only the first of the blocking checks is made.
CheckScaleOnly(problems, profile) ==
  ObjectReport(problems) \cap RulesFor(profile) \cap {"UNAPPLIED_SCALE", "LOOSE_GEOMETRY"}

CheckObject(problems, profile) == ObjectReport(problems) \cap RulesFor(profile)

BlocksExport(findings) == findings \cap Blocking # {}

\* apply_fixes, in its order.  Triangulation reads the meshes and changes nothing.
ApplyFixes(fixes) ==
  When("apply_transforms" \in fixes,
       <<[Call("scene.apply_transforms") EXCEPT !.mends = {"UNAPPLIED_SCALE"}]>>)
    \o When("recalculate_normals" \in fixes, <<Call("scene.cleanup")>>)
    \o When("remove_loose_geometry" \in fixes,
            <<[Call("scene.cleanup") EXCEPT !.mends = {"LOOSE_GEOMETRY"}]>>)
    \o When("sanitize_names" \in fixes,
            <<[Call("scene.batch_rename") EXCEPT !.mends = {"UNSAFE_NAME"}]>>)
    \o When("triangulate" \in fixes, <<Call("scene.mesh_analysis")>>)

\* PrepareRequest::validate: a dry run neither mends nor exports.
PrepareRequests == { r \in [dryRun : BOOLEAN, fixes : SUBSET {"apply_transforms", "triangulate"},
                            export : BOOLEAN] : r.dryRun => r.fixes = {} /\ ~r.export }

\* The findings are of what the two reads return, and the export comes last.
PrepareExport(r) ==
  ApplyFixes(r.fixes)
    \o <<[Read("scene.mesh_analysis") EXCEPT !.kind = "analyse"],
         Read("scene.find_missing_textures")>>
    \o When(r.export, <<[Read("export") EXCEPT !.kind = "gate"],
                        [Call("io.export") EXCEPT !.makes = "file"]>>)
=============================================================================
