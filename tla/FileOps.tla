------------------------------ MODULE FileOps ------------------------------
(***************************************************************************)
(* Files in and out of Blender: import, export and saving, as tools/io.rs  *)
(* prepares the request and operations/io.py carries it out.  The server   *)
(* picks the absolute path, and a path it picks is right.                  *)
(***************************************************************************)
EXTENDS Steps

ManagedPath == {"root", "path"}
FormatOf == {"format", "no format from the name"}
ImportOptions == {"scale", "forward_axis", "up_axis", "import_animation", "import_materials",
                  "collection", "name_prefix"}
Import == ManagedPath \cup FormatOf \cup ImportOptions \cup {"extension", "axes alike"}
ExportOptions == {"scale", "forward_axis", "up_axis", "apply_modifiers", "triangulate", "export_materials",
                  "export_animation", "export_normals", "export_uvs", "textures", "frame_range"}
Export == ManagedPath \cup FormatOf \cup ExportOptions \cup
  {"selection", "animation in a still format", "materials in a bare format", "textures embedded"}
SaveFile == ManagedPath \cup {"compress"}

\* What require_capability finds in the handshake, then in Blender itself.
Operator == Finds("format")

\* The prefix and the collection are looked at when the objects are in the file.
IoImport ==
  Operator ** Finds("file there") 
  ** Needs({"scale", "forward_axis", "up_axis", "import_animation", "import_materials"})
  ** Blender("import") ** Writes("objects") ** Needs({"name_prefix"}) ** Ref("collection") ** Bumps

\* serde writes a variant without fields as a bare string: the dictionary the
\* handler wants is never sent for `scene`, the default, and `selected`.
ExportSelection ==
  Misreads("selection") \cup (Needs({"selection"}) ** Finds("objects to export"))
IoExport ==
  Operator ** ExportSelection ** Needs(ExportOptions)
  ** Within("selection", Blender("export") ** Writes("disk"))
  ** Finds("file written")
FileSave ==
  (Finds("saved before") \cup Nothing) ** Needs({"compress"}) ** Blender("save") ** Writes("disk")

FileTools ==
  { Read("io.capabilities", {}, Nothing),
    External("io.import", Import, IoImport),
    External("io.export", Export, IoExport),
    External("file.save", SaveFile, FileSave),
    Read("file.info", {}, Nothing) }
=============================================================================
