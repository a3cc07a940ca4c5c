----------------------------- MODULE Artifacts ------------------------------
(***************************************************************************)
(* Files Blender writes for a caller: renders, captures, bakes, exports    *)
(* and saves (mcp-server artifacts.rs, tools/render.rs, uv.rs, io.rs; the  *)
(* add-on's operations/render.py).  The server finds a free name, Blender  *)
(* writes under it some time later, one call after the other, and the      *)
(* server then takes the file into a bounded index.                        *)
(***************************************************************************)
EXTENDS Integers, FiniteSetsExt, SequencesExt

CONSTANTS
  Callers,     \* one per call
  Frames,      \* the frames of a range, 1..N
  Stems,       \* names callers give, as sequences of suffixes
  ExportName,  \* a path a caller gives to io.export or file.save
  SideFiles,   \* what some formats keep beside the file: buffers, materials, textures
  Capacity,    \* of the index
  MaxStops

ASSUME ArtifactAssumption ==
  /\ Capacity \in Nat \ {0} /\ MaxStops \in Nat
  /\ Stems \subseteq Seq([copy : Nat] \cup [frame : Nat])

VARIABLES
  job,      \* what each call is at
  written,  \* [path -> the call whose picture it holds], for every file there is
  queue,    \* calls Blender has yet to run: the first may have begun
  shot,     \* files the first of them has written
  index,    \* ArtifactStore::entries
  ended     \* how often the server was restarted

artifacts == <<job, written, queue, shot, index, ended>>

Exists(path) == path \in DOMAIN written

\* told: the files its answer names.  History: the calls that had succeeded (past), and
\* those that had been sent (sent), when it was given its name.
Unused == [pc |-> "idle", kind |-> "still", path |-> <<>>, told |-> {}, past |-> {}, sent |-> {}]

ArtifactsInit ==
  /\ job = [c \in Callers |-> Unused]
  /\ written = <<>> /\ queue = <<>> /\ shot = {} /\ index = <<>> /\ ended = 0

-----------------------------------------------------------------------------
(* ArtifactStore::allocate *)

Numbered(stem, n) == IF n = 0 THEN stem ELSE Append(stem, [copy |-> n])

\* Mutant: the name that was asked for, without a look at the directory.
AnyName(stem) == Numbered(stem, 0)

FreeName(stem) ==
  Numbered(stem, CHOOSE n \in 0..Cardinality(DOMAIN written) :
                   /\ ~Exists(Numbered(stem, n))
                   /\ \A k \in 0..(n - 1) : Exists(Numbered(stem, k)))

Succeeded == { c \in Callers : job[c].pc \in {"answered", "done"} }
Sent      == { c \in Callers : job[c].pc \notin {"idle", "named"} }

\* A capture or bake is a still.  An export takes the path it is given, as a save does:
\* it is one file, or one with others beside it (a bundle).
Allocate(c) ==
  /\ job[c].pc = "idle"
  /\ \E kind \in {"still", "range", "export", "bundle"}, stem \in Stems :
       job' = [job EXCEPT ![c] =
         [ pc |-> "named", kind |-> kind, told |-> {}, past |-> Succeeded, sent |-> Sent,
           path |-> IF kind \in {"export", "bundle"} THEN ExportName ELSE FreeName(stem) ]]
  /\ UNCHANGED <<written, queue, shot, index, ended>>

Send(c) ==
  /\ job[c].pc = "named"
  /\ job' = [job EXCEPT ![c].pc = "waiting"]
  /\ queue' = Append(queue, c)
  /\ UNCHANGED <<written, shot, index, ended>>

\* The server stops waiting; Blender has the call all the same.
TimeOut(c) ==
  /\ job[c].pc = "waiting" /\ job' = [job EXCEPT ![c].pc = "failed"]
  /\ UNCHANGED <<written, queue, shot, index, ended>>

-----------------------------------------------------------------------------
(* operations/render.py execute, texture.bake, the exporters *)

\* _frame_path: with more than one frame, a suffix that allocate never looked for.
FramePath(path, frame) == Append(path, [frame |-> frame])

Beside(path) == { Append(path, [side |-> s]) : s \in SideFiles }

Outputs(c) ==
  CASE job[c].kind = "range"  -> { FramePath(job[c].path, f) : f \in Frames }
    [] job[c].kind = "bundle" -> {job[c].path} \cup Beside(job[c].path)
    [] OTHER                  -> {job[c].path}

\* Mutant: an answer that names the path that was asked for, whatever was written.
PathAskedFor(c) == {job[c].path} \cap shot

\* An export answers with its destination only.
Produced(c) == IF job[c].kind = "bundle" THEN {job[c].path} ELSE shot

WriteFile ==
  /\ queue # <<>>
  /\ \E path \in Outputs(Head(queue)) \ shot :
       /\ written' = [p \in DOMAIN written \cup {path} |->
                        IF p = path THEN Head(queue) ELSE written[p]]
       /\ shot' = shot \cup {path}
  /\ UNCHANGED <<job, queue, index, ended>>

Finishes(c, pc, files) ==
  /\ job' = IF job[c].pc = "waiting" THEN [job EXCEPT ![c].pc = pc, ![c].told = files] ELSE job
  /\ queue' = Tail(queue) /\ shot' = {}
  /\ UNCHANGED <<written, index, ended>>

Succeed == queue # <<>> /\ shot = Outputs(Head(queue))
           /\ Finishes(Head(queue), "answered", Produced(Head(queue)))

\* A frame fails: what was written before stays on the disk.
BreakOff == queue # <<>> /\ shot # Outputs(Head(queue)) /\ Finishes(Head(queue), "failed", {})

-----------------------------------------------------------------------------
(* collect_artifacts, register, remember *)

Register(c) ==
  /\ job[c].pc = "answered"
  /\ LET files == SetToSeq(job[c].told)
         entries == index \o [k \in DOMAIN files |-> [path |-> files[k], of |-> c]]
     IN index' = SubSeq(entries, Max({1, Len(entries) - Capacity + 1}), Len(entries))
  /\ job' = [job EXCEPT ![c].pc = "done"]
  /\ UNCHANGED <<written, queue, shot, ended>>

\* The index is in memory; the files stay, and so do the calls Blender has.
StopServer ==
  /\ ended < MaxStops /\ ended' = ended + 1
  /\ index' = <<>>
  /\ job' = [c \in Callers |-> IF job[c].pc \in {"named", "waiting", "answered"}
                               THEN [job[c] EXCEPT !.pc = "failed"] ELSE job[c]]
  /\ UNCHANGED <<written, queue, shot>>

ArtifactsNext ==
  \/ \E c \in Callers : Allocate(c) \/ Send(c) \/ TimeOut(c) \/ Register(c)
  \/ WriteFile \/ Succeed \/ BreakOff \/ StopServer

ArtifactsSpec == ArtifactsInit /\ [][ArtifactsNext]_artifacts

-----------------------------------------------------------------------------

(* What an artifact in the index shows is what its own call made, or a call that was   *)
(* under way at the same time: never one that Blender had been sent before that call   *)
(* was named, as when it timed out and this is the retry; nor one that was named when   *)
(* it had succeeded, unless it is a range, whose frames allocate does not look for, or  *)
(* has a path the caller chose.                                                         *)
OnlyOverlappingCallsOverwrite ==
  \A k \in DOMAIN index :
    LET c == index[k].of  by == written[index[k].path]
    IN /\ by \notin job[c].sent
       /\ c \in job[by].past => job[by].kind # "still"

(* A call that succeeded names every file that it left on the disk, but for those that *)
(* an exporter puts beside its destination; and so no file on the disk is unaccounted   *)
(* for but those, and what calls left that failed, timed out or were cut off.           *)
SuccessNamesEveryFile ==
  \A path \in DOMAIN written :
    LET by == job[written[path]]
    IN by.pc \in {"answered", "done"} =>
         path \in by.told \/ (by.kind = "bundle" /\ path \in Beside(by.path))
=============================================================================
