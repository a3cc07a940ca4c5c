------------------------------ MODULE Workflow ------------------------------
(***************************************************************************)
(* One workflow in progress: Run (crates/workflow-engine/src/run.rs) as a  *)
(* stack of runs, for a workflow may run another, over an executor whose   *)
(* calls are carried out or not, and answered or not.                      *)
(***************************************************************************)
EXTENDS WorkflowPrograms, SequencesExt

CONSTANT Programs  \* the workflows, as sequences of steps

StepsOf(programs) == UNION { Range(p) : p \in programs }
Nested(programs) == { s.body : s \in { t \in StepsOf(programs) : t.kind = "nest" } }

\* What a workflow runs, and what that one runs; nothing is nested deeper.
Bodies == Nested(Programs) \cup Nested(Nested(Programs))

EarlierStep(p, i, kind) == \E j \in 1..(i - 1) : p[j].kind = kind

\* How the bodies are written: a step after which a body returns fails the run when it
\* gives nothing; what is made is compensated, but for a file; a nested body reports
\* what it makes, but for a collection; a file comes after a gate, and a gate after an
\* analysis, neither of which is passed over.
ASSUME ProgramsAssumption ==
  /\ Nested(Bodies) \subseteq Bodies
  /\ \A p \in Programs \cup Bodies :
       /\ p \in Seq(Range(p))
       /\ \A i \in DOMAIN p :
            LET s == p[i]
            IN /\ {s.reported, s.undone, s.needsId, s.fatal, s.stops} \subseteq BOOLEAN
               /\ s.stops => s.fatal
               /\ s.makes # None => s.undone \/ s.makes = "file"
               /\ s.makes = "file" => EarlierStep(p, i, "gate")
               /\ s.kind = "gate" => s.needs = None /\ EarlierStep(p, i, "analyse")
               /\ s.kind = "analyse" => s.fatal /\ s.makes = None /\ s.needs = None
  /\ \A s \in StepsOf(Bodies) : s.makes # None => s.reported \/ s.makes = "collection"

VARIABLES
  runs,      \* the outermost run first; the last is the one at work
  rollback,  \* rollback_on_failure of the outermost
  phase,     \* "running", "rolling back", "done"
  report,    \* RollbackReport: what was undone, and what could not be
  scene,     \* external: what the workflow's operations made and is still there
  problems,  \* external: what is wrong with the meshes
  profile,   \* the target an export is checked against
  findings,  \* what the last analysis found
  known      \* history: what an answer carried an id of

vars == <<runs, rollback, phase, report, scene, problems, profile, findings, known>>
external == <<scene, problems, profile, known>>

Top    == Len(runs)
Now    == runs[Top]
AtStep == phase = "running" /\ Now.at <= Len(Now.program)
Step   == Now.program[Now.at]

\* Run::new
NewRun(program) ==
  [program |-> program, at |-> 1, failed |-> FALSE, compensations |-> <<>>, created |-> {}]

\* prepare_export has nothing to roll back, and never does.
MayRollBack(program) ==
  IF \E i \in DOMAIN program : program[i].kind = "analyse" THEN {FALSE} ELSE BOOLEAN

Init ==
  /\ \E p \in Programs : runs = <<NewRun(p)>> /\ rollback \in MayRollBack(p)
  /\ phase = "running"
  /\ report = [undone |-> {}, failed |-> {}]
  /\ scene = {} /\ known = {} /\ findings = {}
  /\ problems \in SUBSET {"UNAPPLIED_SCALE", "MISSING_TEXTURES", "TOO_MANY_INFLUENCES"}
  /\ profile \in {"GENERIC", "GLTF"}

\* The run at work after its step: on to the next, or out of the body.
After(run, leaves) ==
  runs' = [runs EXCEPT ![Top] =
             [run EXCEPT !.at = IF leaves THEN Len(run.program) + 1 ELSE run.at + 1]]

\* Mutant: no compensation is registered.
TrackedForGood(run, s) == [run EXCEPT !.created = IF s.reported THEN @ \cup {s.makes} ELSE @]

\* What the run keeps of a thing it was given the id of.
Tracked(run, s) ==
  [run EXCEPT !.compensations = IF s.undone THEN Append(@, s.makes) ELSE @,
              !.created = IF s.reported THEN @ \cup {s.makes} ELSE @]

\* External: Blender carries the operation out.
CarriedOut(s) ==
  /\ scene' = IF s.makes = None THEN scene ELSE scene \cup {s.makes}
  /\ problems' \in {problems, problems \ s.mends}

-----------------------------------------------------------------------------
(* Steps of the run at work. *)

Calls == Step.kind \in {"call", "analyse"}
Taken == Step.needs = None \/ Step.needs \in Now.created

\* Mutant: a step is run although an earlier one failed.
GoesOn == AtStep /\ Calls /\ Taken

Asks == AtStep /\ Calls /\ Taken /\ ~Now.failed

\* A step after a failure is recorded as skipped, and a body that needs its
\* result returns.
Skip ==
  /\ AtStep
  /\ Step.kind # "nest"
  /\ Now.failed \/ ~Taken
  /\ After(Now, Now.failed /\ Step.stops)
  /\ UNCHANGED <<rollback, phase, report, findings, external>>

Answered ==
  /\ Asks
  /\ CarriedOut(Step)
  /\ known' = IF Step.makes = None THEN known ELSE known \cup {Step.makes}
  /\ findings' = IF Step.kind = "analyse" THEN CheckObject(problems, profile) ELSE findings
  /\ After(IF Step.makes = None THEN Now ELSE Tracked(Now, Step), FALSE)
  /\ UNCHANGED <<rollback, phase, report, profile>>

AnsweredWithoutId ==
  /\ Asks
  /\ Step.makes # None
  /\ CarriedOut(Step)
  /\ After([Now EXCEPT !.failed = Step.needsId], Step.needsId)
  /\ UNCHANGED <<rollback, phase, report, findings, known, profile>>

\* The call fails: it was refused, or carried out and its answer lost.
CallFails ==
  /\ Asks
  /\ CarriedOut(Step) \/ UNCHANGED <<scene, problems>>
  /\ After([Now EXCEPT !.failed = Step.fatal], Step.stops)
  /\ UNCHANGED <<rollback, phase, report, findings, known, profile>>

\* Run::note or Run::fail, as the computation goes.
Compute(ok) ==
  /\ AtStep
  /\ ~Now.failed
  /\ \/ Step.kind = "check"
     \/ Step.kind = "gate" /\ ok = ~BlocksExport(findings)
  /\ After([Now EXCEPT !.failed = ~ok], ~ok)
  /\ UNCHANGED <<rollback, phase, report, findings, external>>

List ==
  /\ AtStep
  /\ Step.kind = "report"
  /\ ~Now.failed
  /\ After([Now EXCEPT !.created = @ \cup (Step.lists \cap known)], FALSE)
  /\ UNCHANGED <<rollback, phase, report, findings, external>>

\* The nested workflow is run whether or not this run has failed.
Enter ==
  /\ AtStep
  /\ Step.kind = "nest"
  /\ runs' = Append(runs, NewRun(Step.body))
  /\ UNCHANGED <<rollback, phase, report, findings, external>>

\* What the parent takes over: the entities that have an id, to be deleted.
Adopt(parent, child) ==
  [parent EXCEPT !.created = @ \cup child.created,
                 !.compensations = @ \o SetToSeq(child.created),
                 !.failed = @ \/ child.failed]

Leave ==
  /\ phase = "running" /\ Now.at > Len(Now.program)
  /\ Top > 1
  /\ LET child  == Now
         parent == Adopt(runs[Top - 1], child)
     IN  runs' = Append(SubSeq(runs, 1, Top - 2),
                        [parent EXCEPT !.at = IF child.failed THEN Len(parent.program) + 1
                                                              ELSE @ + 1])
  /\ UNCHANGED <<rollback, phase, report, findings, external>>

-----------------------------------------------------------------------------
(* Run::finish of the outermost run, and the compensations. *)

RollsBack == Now.failed /\ rollback

Finish ==
  /\ phase = "running" /\ Now.at > Len(Now.program)
  /\ Top = 1
  /\ phase' = IF RollsBack THEN "rolling back" ELSE "done"
  /\ UNCHANGED <<runs, rollback, report, findings, external>>

\* The newest compensation is taken off and tried once.
Undoing(success) ==
  LET left == Now.compensations
      last == left[Len(left)]
  IN  /\ phase = "rolling back"
      /\ left # <<>>
      /\ runs' = <<[Now EXCEPT !.compensations = SubSeq(left, 1, Len(left) - 1)]>>
      /\ report' = IF success THEN [report EXCEPT !.undone = @ \cup {last}]
                              ELSE [report EXCEPT !.failed = @ \cup {last}]
      /\ scene' \in IF success THEN {scene \ {last}} ELSE {scene, scene \ {last}}
      /\ UNCHANGED <<rollback, phase, findings, problems, profile, known>>

Complete == report.failed = {}

\* Mutant: the report keeps what the rollback removed.
CreatedAnyway(created) == created

\* A clean rollback leaves nothing to report.
CreatedAtTheEnd(created) == IF Complete THEN {} ELSE created

RolledBack ==
  /\ phase = "rolling back"
  /\ Now.compensations = <<>>
  /\ phase' = "done"
  /\ runs' = <<[Now EXCEPT !.created = CreatedAtTheEnd(@)]>>
  /\ UNCHANGED <<rollback, report, findings, external>>

\* tools/workflows.rs: a failed run is an error of the tool that carries the report.
ToolResult == IF Now.failed THEN "error" ELSE "result"

Next ==
  \/ Skip \/ Answered \/ AnsweredWithoutId \/ CallFails
  \/ \E ok \in BOOLEAN : Compute(ok)
  \/ List \/ Enter \/ Leave \/ Finish
  \/ \E success \in BOOLEAN : Undoing(success)
  \/ RolledBack

Spec == Init /\ [][Next]_vars

-----------------------------------------------------------------------------

\* The collection a nested rig made: the studio is told of the lights only.
RigCollection == IF \E i \in DOMAIN runs[1].program : runs[1].program[i].kind = "nest"
                 THEN {"collection"} ELSE {}

\* A rollback that calls itself complete leaves nothing the workflow was given the
\* id of, but for the file of an export and the collection of a nested lighting rig.
CompleteRollbackLeavesNothingKnown ==
  phase = "done" /\ Now.failed /\ rollback /\ Complete
    => scene \cap known \subseteq RigCollection \cup {"file"}

\* The entities a workflow reports exist, unless its rollback reports failures.
ReportedEntitiesExist ==
  phase = "done" /\ Complete => Now.created \subseteq scene

\* An exported file was written from meshes that have nothing wrong with them that
\* blocks an export for its profile, but for bone influences, which nobody counts.
ExportedFilesPassedTheChecks ==
  "file" \in scene
    => problems \cap Blocking \cap RulesFor(profile) \subseteq {"TOO_MANY_INFLUENCES"}

\* Once a run has failed, nothing more is made for it, but by a rig it still enters.
NothingIsMadeAfterAFailure ==
  [][runs[1].failed /\ ~(scene' \subseteq scene) => Top > 1]_vars
=============================================================================
