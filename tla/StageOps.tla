------------------------------ MODULE StageOps ------------------------------
(***************************************************************************)
(* Cameras, lights, the scene, the selection, rendering, the surfaces and  *)
(* the housekeeping of a scene: for each tool what the server refuses      *)
(* (blender-protocol), what the handler does (operations/), and the two    *)
(* together as the tools of mcp-server register them.  A fault is named    *)
(* after the argument that is wrong.                                       *)
(***************************************************************************)
EXTENDS Steps

-----------------------------------------------------------------------------
(* Cameras *)

Lens == {"lens"}
DepthOfField == {"enabled", "focus_object", "focus_distance", "f_stop", "blades", "dof_rotation", "ratio",
                 "focus_object and focus_distance"}
CameraSettings == Lens \cup DepthOfField \cup
  {"projection", "ortho_scale", "sensor_width", "sensor_height", "sensor_fit", "clip_start",
   "clip_end", "clip_start after clip_end", "shift", "depth_of_field"}
CreateCamera == CameraSettings \cup
  {"name", "location", "rotation", "look_at", "frame_objects", "set_active", "collection",
   "rotation and look_at", "frame_objects and location"}
UpdateCamera == CameraSettings \cup {"camera", "no camera", "name"}
TrackObject == {"camera", "target", "constraint", "focus_on_target", "camera is target by the same reference"}
AutoFrame == {"camera", "objects", "padding", "direction", "keep_position", "aim", "focus"}
\* The camera may be left out, also where the handler then refuses.
CameraRefParams == {"camera"}
CameraLookAt == {"camera", "point", "target", "point or target"}
UpdateDepthOfField == {"camera"} \cup DepthOfField
ListCameras == {"name_contains"} \cup Page

CameraArg == Needs({"camera"}) ** Finds("camera")
RequiredCamera == Needs({"no camera"}) ** CameraArg

DofArgs == Needs({"enabled"}) ** Writes("camera") ** Ref("focus_object")
           ** Needs({"focus_distance", "f_stop", "blades", "dof_rotation", "ratio"})
CameraArgs == Needs({"lens"}) ** Writes("camera")
  ** Needs({"projection", "ortho_scale", "sensor_width", "sensor_height", "clip_start", "clip_end",
            "sensor_fit", "shift"})
  ** DofArgs
Framed == Needs({"padding", "keep_position", "aim", "focus", "direction"})
          ** Finds("geometry") ** Writes("camera")

CameraList == Needs({"name_contains"}) ** Paged
CameraGet == CameraArg
\* _frame reads the framing arguments, which this request does not have.
CameraCreate ==
  Needs({"name"}) ** Writes("camera") ** Ref("collection") ** Needs({"location"}) ** CameraArgs
  ** Needs({"frame_objects"})
  ** ((Finds("frame_objects") ** Finds("geometry")) \cup Needs({"rotation", "look_at"}))
  ** Needs({"set_active"}) ** Bumps
CameraUpdate == RequiredCamera ** Needs({"empty", "name"}) ** Writes("camera") ** CameraArgs ** Bumps
CameraDelete == RequiredCamera ** Changes("camera")
CameraSetActive == RequiredCamera ** Changes("scene")
CameraLook == CameraArg ** (Needs({"point"}) \cup (Needs({"point or target"}) ** Ref("target")))
              ** Changes("camera")
CameraTrack == CameraArg ** Ref("target") ** Needs({"constraint", "camera is target"})
               ** Writes("camera") ** Needs({"focus_on_target"}) ** Bumps
CameraClearTracking == CameraArg ** Changes("camera")
CameraDof == CameraArg ** Needs({"empty"}) ** DofArgs ** Bumps
CameraAutoFrame == CameraArg ** Ref("objects") ** Finds("something visible") ** Framed ** Bumps

CameraTools ==
  { Read("camera.list", ListCameras, CameraList),
    Read("camera.get", CameraRefParams, CameraGet),
    Write("camera.create", CreateCamera, CameraCreate),
    Write("camera.update", UpdateCamera, CameraUpdate),
    Write("camera.delete", CameraRefParams, CameraDelete),
    Write("camera.set_active", CameraRefParams, CameraSetActive),
    Write("camera.look_at", CameraLookAt, CameraLook),
    Write("camera.track_object", TrackObject, CameraTrack),
    Write("camera.clear_tracking", CameraRefParams, CameraClearTracking),
    Write("camera.depth_of_field.update", UpdateDepthOfField, CameraDof),
    Write("camera.auto_frame", AutoFrame, CameraAutoFrame) }

-----------------------------------------------------------------------------
(* Lights *)

LightSettings ==
  {"energy", "color", "temperature", "radius", "angle", "shape", "size", "size_y", "spot_size",
   "spot_blend", "use_shadow", "diffuse_factor", "specular_factor", "volume_factor", "max_bounces"}
CreateLight == LightSettings \cup
  {"type", "name", "location", "look_at", "target", "rotation", "collection", "several aims"}
UpdateLight == LightSettings \cup {"light", "name", "light_type"}
LookAt == {"light", "point", "target", "point or target", "distance"}
ListLights == {"name_contains", "light_type"} \cup Page
LightRefParams == {"light"}

LightArgs == Needs({"energy", "temperature", "color", "radius", "angle", "shape", "size", "size_y",
  "spot_size", "spot_blend", "use_shadow", "diffuse_factor", "specular_factor", "volume_factor"})
TargetPoint(point) == Needs({point}) ** Maybe(Ref("target"))

LightList == Needs({"name_contains", "light_type"}) ** Paged
LightGet == Ref("light") ** Finds("a light")
LightCreate ==
  Needs({"type", "name"}) ** Writes("light") ** Ref("collection") ** Needs({"location", "rotation"})
  ** TargetPoint("look_at") ** LightArgs ** Bumps
\* Mutant: the revision is forgotten.
LightUpdateSilent ==
  Ref("light") ** Finds("a light") ** Needs({"empty", "name"}) ** Writes("light")
  ** Needs({"light_type"}) ** LightArgs

LightUpdate ==
  Ref("light") ** Finds("a light") ** Needs({"empty", "name"}) ** Writes("light")
  ** Needs({"light_type"}) ** LightArgs ** Bumps
LightDelete == Ref("light") ** Changes("light")
LightLook == Ref("light") ** TargetPoint("point") ** Needs({"point or target", "distance"}) ** Changes("light")

LightTools ==
  { Read("light.list", ListLights, LightList),
    Read("light.get", LightRefParams, LightGet),
    Write("light.create", CreateLight, LightCreate),
    Write("light.update", UpdateLight, LightUpdate),
    Write("light.delete", LightRefParams, LightDelete),
    Write("light.look_at", LookAt, LightLook) }
-----------------------------------------------------------------------------
(* The scene, its world and the selection *)

SceneSettings ==
  {"frame_start", "frame_end", "frame_start after frame_end", "frame_current", "fps", "unit_scale",
   "unit_system", "active_camera", "cursor_location", "gravity"}
WorldSettings == {"color", "strength", "hdri", "rotation_z", "transparent"}
SelectionUpdate == {"objects", "mode", "active", "objects or active"}

SceneSettingsUpdate ==
  Needs({"empty", "frame_start", "frame_end"}) ** Writes("scene")
  ** Needs({"frame_current", "fps", "unit_scale", "unit_system"}) ** Ref("active_camera")
  ** Finds("a camera") ** Needs({"cursor_location", "gravity"}) ** Bumps
\* The world and its nodes are made before anything is looked at.
WorldUpdate ==
  Writes("world") ** Needs({"color", "strength"})
  ** ((Ref("hdri") ** Needs({"rotation_z"})) \cup (Needs({"rotation_z"}) ** Finds("environment texture")))
  ** Needs({"transparent", "empty"}) ** Bumps
Selects ==
  Needs({"mode"}) ** Ref("objects") ** Maybe(Writes("selection"))
  ** Each(Finds("object in view") ** Writes("selection"))
  ** Ref("active") ** Finds("object in view") ** Bumps
SelectionClear == Changes("selection")
SelectionSetActive == Ref("object") ** Finds("object in view") ** Changes("selection")

SceneTools ==
  { Read("scene.summary", {}, Nothing), Read("scene.get", {}, Nothing),
    Write("scene.settings.update", SceneSettings, SceneSettingsUpdate),
    Read("scene.world.get", {}, Nothing),
    Write("scene.world.update", WorldSettings, WorldUpdate),
    Read("scene.statistics", {}, Nothing) }
SelectionTools ==
  { Read("selection.get", {}, Nothing),
    Write("selection.set", SelectionUpdate, Selects),
    Write("selection.add", SelectionUpdate, Selects),
    Write("selection.remove", SelectionUpdate, Selects),
    Write("selection.clear", {}, SelectionClear),
    Write("selection.set_active", {"object"}, SelectionSetActive) }

-----------------------------------------------------------------------------
(* Housekeeping *)

CleanupPasses == {"purge_orphans", "remove_empty_collections", "remove_loose_geometry",
  "remove_unused_material_slots", "merge_duplicate_materials", "recalculate_normals",
  "remove_invalid_modifiers"}
CleanupOptions == CleanupPasses \cup {"dry_run", "no pass"}
RenamePattern ==
  {"find", "replace", "regex type", "find and regex", "no replace", "prefix", "suffix",
   "strip_start", "strip_end", "case", "number_start", "number_padding", "number_position", "empty"}
BatchRename == RenamePattern \cup {"kind", "dry_run", "targets", "name_contains", "regex length"}
ApplySceneTransforms == {"objects", "location", "rotation", "scale", "nothing to apply"}

Cleanup == Needs(CleanupPasses \cup {"dry_run", "no pass"}) ** (Nothing \cup Changes("file"))
Purge == Needs({"dry_run"}) ** (Nothing \cup Changes("file"))
\* Every new name is worked out, and refused when empty, before the first is given.
RenameAll ==
  Needs({"kind", "dry_run"}) ** ((Needs({"targets"}) ** Finds("targets")) \cup Needs({"name_contains"}))
  ** Needs({"find", "replace", "regex type", "prefix", "suffix", "strip_start", "strip_end", "case",
            "number_start", "number_padding", "number_position", "find and regex", "no replace",
            "regex length", "regex", "a name left empty"})
  ** (Nothing \cup Changes("names"))
\* Objects Blender refuses are skipped; a hidden one ends the call.
AppliesTransforms ==
  Ref("objects") ** Needs({"location", "rotation", "scale", "nothing to apply"})
  ** Each(InObjectMode(Writes("mesh"))) ** Bumps
\* A read that opens an edit session on every mesh, and so writes each back.
AnalyseMeshes == Ref("objects") ** Each(Writes("mesh"))
FindDuplicates == Needs({"tolerance"})

UtilityTools ==
  { Write("scene.cleanup", CleanupOptions, Cleanup),
    Write("scene.purge_orphans", {"dry_run"}, Purge),
    Write("scene.batch_rename", BatchRename, RenameAll),
    Write("scene.apply_transforms", ApplySceneTransforms, AppliesTransforms),
    Read("scene.mesh_analysis", {"objects"}, AnalyseMeshes),
    Read("scene.find_duplicates", {"tolerance"}, FindDuplicates),
    Read("scene.find_missing_textures", {}, Nothing) }

-----------------------------------------------------------------------------
(* Surfaces and openings *)

InspectSurfaces == {"object", "tilt_degrees", "normal_tolerance_degrees", "plane_tolerance",
                    "min_area", "classification"} \cup Page
RaycastSurface == {"objects", "origin", "direction", "max_distance"}
InspectOpenings == {"host", "objects"}
MarkOpening == {"object", "kind", "host"}

SurfaceInspect ==
  Ref("object") ** Finds("a mesh") ** Needs({"tilt_degrees", "normal_tolerance_degrees",
  "plane_tolerance", "min_area", "classification"}) ** Finds("faces few enough") ** Paged
SurfaceRaycast == Ref("objects") ** Needs({"origin", "direction", "max_distance"})
OpeningsInspect == Maybe(Ref("host")) ** Maybe(Ref("objects"))
\* A custom property, which Blender does not report, and no bump.
OpeningsMark == Ref("object") ** Needs({"kind"}) ** Ref("host") ** Writes("opening")

SurfaceTools ==
  { Read("scene.surface.inspect", InspectSurfaces, SurfaceInspect),
    Read("scene.surface.raycast", RaycastSurface, SurfaceRaycast),
    Read("scene.openings.inspect", InspectOpenings, OpeningsInspect),
    Write("scene.openings.mark", MarkOpening, OpeningsMark) }

-----------------------------------------------------------------------------
(* Rendering.  The server picks output_path, and a path it picks is right. *)

RenderSettings ==
  {"engine", "resolution_x", "resolution_y", "resolution_percentage", "samples",
   "transparent_background", "format", "color_mode", "quality", "adaptive_threshold", "denoise",
   "max_bounces", "motion_blur", "view_transform type", "film_exposure", "use_gpu", "no alpha"}
RenderScope == {"scope"}
ExecuteRender == RenderSettings \cup RenderScope \cup {"camera", "name", "restore_settings"}
ViewportScreenshot == {"camera_view", "camera", "width", "height", "shading", "name", "camera alone"}
ArtifactPath == {"output_path"}

\* apply_settings: written one by one, whatever comes later.
RenderArgs(write) ==
  Needs({"engine"}) ** Finds("engine") ** write
  ** Needs({"resolution_x", "resolution_y", "resolution_percentage", "transparent_background",
            "format", "color_mode", "quality", "view_transform type", "view_transform",
            "film_exposure", "motion_blur", "samples"})
  ** Finds("sample count")
  ** Needs({"adaptive_threshold", "denoise", "max_bounces", "use_gpu"})

RenderSettingsUpdate == Needs({"empty"}) ** RenderArgs(Writes("settings")) ** Bumps
RenderEngineSet == Needs({"engine"}) ** Finds("engine") ** Changes("settings")
\* The camera and the settings are in place before the try that gives them back.
RenderExecute ==
  LET shoots(settings, back) ==
        RenderArgs(settings) ** Needs({"scope"})
        ** Guard(back, Borrows("frame") ** Borrows("output") ** Blender("render") ** Writes("disk"))
        ** Finds("image written")
  IN  Needs({"output_path"}) ** CameraArg ** Borrows("camera") ** Needs({"restore_settings"})
      ** (shoots(Borrows("settings"), {"frame", "output", "camera", "settings"})
          \cup shoots(Writes("settings"), {"frame", "output", "camera"}))
\* The shading is set before the buffer that may fail, and the try after it.
RenderScreenshot ==
  Finds("viewport") ** Needs({"output_path", "width", "height", "shading", "camera_view"})
  ** Borrows("shading") ** Blender("offscreen")
  ** Guard({"shading"}, (CameraArg ** Within("camera", Blender("draw"))) \cup Blender("draw"))
  ** Within("image", Writes("disk"))

RenderTools ==
  { Read("render.settings.get", {}, Nothing),
    Write("render.settings.update", RenderSettings, RenderSettingsUpdate),
    Write("render.engine.set", {"engine"}, RenderEngineSet),
    External("render.execute", ExecuteRender \cup ArtifactPath, RenderExecute),
    External("render.viewport_screenshot", ViewportScreenshot \cup ArtifactPath, RenderScreenshot) }

StageTools == CameraTools \cup LightTools \cup SceneTools \cup SelectionTools \cup UtilityTools
              \cup SurfaceTools \cup RenderTools
=============================================================================
