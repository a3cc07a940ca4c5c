--------------------------- MODULE Workflow_proof ---------------------------
(***************************************************************************)
(* What a rollback leaves, what a report lists, what is exported and what  *)
(* is made after a failure: theorems about Workflow for any set of         *)
(* workflows that are written as ProgramsAssumption says, however deep     *)
(* they run one another.                                                   *)
(***************************************************************************)
EXTENDS Workflow, FiniteSetTheorems, TLAPS

-----------------------------------------------------------------------------
(* The invariant *)

AllPrograms == Programs \cup Bodies
AllSteps == StepsOf(AllPrograms)
Things == { s.makes : s \in AllSteps } \cup UNION { s.lists : s \in AllSteps }

Runs == [ program : AllPrograms, at : Nat \ {0}, failed : BOOLEAN,
          compensations : Seq(Things), created : SUBSET Things ]

TypeInv ==
  /\ runs \in Seq(Runs) /\ runs # <<>>
  /\ phase \in {"running", "rolling back", "done"}
  /\ phase # "running" => Top = 1
  /\ IsFiniteSet(known)
  /\ report = [undone |-> report.undone, failed |-> report.failed]

Clean == problems \cap Blocking \cap RulesFor(profile) \subseteq {"TOO_MANY_INFLUENCES"}
Seen  == ObjectReport(problems) \cap RulesFor(profile) \subseteq findings

Passed(run, kind) == \E j \in DOMAIN run.program : j < run.at /\ run.program[j].kind = kind

\* A run that has not failed knows what its last analysis found, or less is wrong by now,
\* and has come past no gate with meshes that should be held back.
Sound(run) == ~run.failed => /\ Passed(run, "analyse") => Seen
                             /\ Passed(run, "gate") => Clean

\* All runs but the last are at the step that runs the next one.
StackInv ==
  /\ \A i \in 1..Top : Sound(runs[i])
  /\ \A i \in 2..Top : runs[i].program \in Bodies
  /\ \A i \in 1..(Top - 1) :
       /\ runs[i].at \in DOMAIN runs[i].program
       /\ runs[i].program[runs[i].at].kind = "nest"

\* The outermost run compensates what it holds; the others hand it over as they end.
Holds(i, x) == IF i = 1 THEN x \in Range(runs[1].compensations) ELSE x \in runs[i].created

KnownInv ==
  /\ known \subseteq scene
  /\ \A i \in 1..Top : runs[i].created \subseteq known
  /\ \A x \in known : x = "file" \/ x \in RigCollection \/ \E i \in 1..Top : Holds(i, x)

FileInv == "file" \in scene => Clean

\* What is still known to be there is to be undone yet, or could not be.
LeftInv ==
  \A x \in scene \cap known :
    \/ x = "file" \/ x \in RigCollection
    \/ x \in Range(runs[1].compensations) \/ x \in report.failed

WorkflowInv ==
  /\ TypeInv /\ FileInv
  /\ phase = "running" => StackInv /\ KnownInv
  /\ phase = "rolling back" => LeftInv
  /\ CompleteRollbackLeavesNothingKnown /\ ReportedEntitiesExist

-----------------------------------------------------------------------------
(* Steps and programs *)

LEMMA StepFacts ==
  ASSUME NEW p \in AllPrograms, NEW i \in DOMAIN p
  PROVE  /\ DOMAIN p = 1..Len(p) /\ Len(p) \in Nat
         /\ p[i] \in AllSteps
         /\ p[i].makes \in Things /\ p[i].lists \subseteq Things
         /\ p[i].reported \in BOOLEAN /\ p[i].undone \in BOOLEAN /\ p[i].needsId \in BOOLEAN
         /\ p[i].fatal \in BOOLEAN /\ p[i].stops \in BOOLEAN
         /\ p[i].stops => p[i].fatal
         /\ p[i].makes # None => p[i].undone \/ p[i].makes = "file"
         /\ p[i].makes = "file" => EarlierStep(p, i, "gate")
         /\ p[i].kind = "gate" => p[i].needs = None /\ EarlierStep(p, i, "analyse")
         /\ p[i].kind = "analyse" => p[i].fatal /\ p[i].makes = None /\ p[i].needs = None
<1>1. p \in Seq(Range(p)) /\ p[i] \in Range(p)
  BY ProgramsAssumption DEF AllPrograms, Range
<1>2. DOMAIN p = 1..Len(p) /\ Len(p) \in Nat
  BY <1>1
<1>3. p[i] \in AllSteps
  BY <1>1 DEF AllSteps, StepsOf
<1>4. p[i].makes \in Things /\ p[i].lists \subseteq Things
  BY <1>3 DEF Things
<1>5. {p[i].reported, p[i].undone, p[i].needsId, p[i].fatal, p[i].stops} \subseteq BOOLEAN
  BY ProgramsAssumption DEF AllPrograms
<1>6. /\ p[i].stops => p[i].fatal
      /\ p[i].makes # None => p[i].undone \/ p[i].makes = "file"
      /\ p[i].makes = "file" => EarlierStep(p, i, "gate")
      /\ p[i].kind = "gate" => p[i].needs = None /\ EarlierStep(p, i, "analyse")
      /\ p[i].kind = "analyse" => p[i].fatal /\ p[i].makes = None /\ p[i].needs = None
  BY ProgramsAssumption DEF AllPrograms
<1> QED
  BY <1>2, <1>3, <1>4, <1>5, <1>6

LEMMA RangeOfAppend ==
  ASSUME NEW S, NEW q \in Seq(S), NEW x
  PROVE  /\ Append(q, x) \in Seq(S \cup {x})
         /\ Range(Append(q, x)) = Range(q) \cup {x}
<1>1. q \in Seq(S \cup {x}) /\ x \in S \cup {x}
  OBVIOUS
<1>2. /\ DOMAIN q = 1..Len(q) /\ DOMAIN Append(q, x) = 1..(Len(q) + 1) /\ Len(q) \in Nat
      /\ Append(q, x)[Len(q) + 1] = x /\ \A i \in 1..Len(q) : Append(q, x)[i] = q[i]
      /\ Append(q, x) \in Seq(S \cup {x})
  BY <1>1
<1> QED
  BY <1>2 DEF Range

LEMMA EnumerationFacts ==
  ASSUME NEW S, IsFiniteSet(S)
  PROVE  /\ SetToSeq(S) \in Seq(S)
         /\ \A i, j \in DOMAIN SetToSeq(S) : SetToSeq(S)[i] = SetToSeq(S)[j] => i = j
         /\ \A e \in S : \E i \in DOMAIN SetToSeq(S) : SetToSeq(S)[i] = e
<1> DEFINE n == Cardinality(S)
           q == SetToSeq(S)
<1>1. n \in Nat /\ ExistsBijection(1 .. n, S)
  BY FS_CardinalityType
<1>2. \E f \in [1 .. n -> S] : IsInjective(f)
  BY <1>1 DEF ExistsBijection, Bijection, Injection
<1>3. q \in [1 .. n -> S] /\ IsInjective(q)
  BY <1>2 DEF SetToSeq
<1> HIDE DEF q
<1>4. IsFiniteSet(1 .. n) /\ Cardinality(1 .. n) = n
  BY <1>1, FS_Interval
<1>5. q \in Injection(1 .. n, S)
  BY <1>3 DEF Injection
<1>6. q \in Surjection(1 .. n, S)
  BY <1>4, <1>5, FS_Injection
<1>7. DOMAIN q = 1 .. n /\ q \in Seq(S)
  BY <1>1, <1>3
<1> QED BY <1>3, <1>6, <1>7 DEF q, IsInjective, Surjection

LEMMA AllButTheLast ==
  ASSUME NEW S, NEW q \in Seq(S), q # <<>>
  PROVE  /\ SubSeq(q, 1, Len(q) - 1) \in Seq(S)
         /\ \A x \in Range(q) : x = q[Len(q)] \/ x \in Range(SubSeq(q, 1, Len(q) - 1))
<1> DEFINE less == SubSeq(q, 1, Len(q) - 1)
<1>1. Len(q) \in Nat \ {0} /\ DOMAIN q = 1..Len(q)
  OBVIOUS
<1>2. /\ less \in Seq(S) /\ Len(less) = Len(q) - 1 /\ DOMAIN less = 1..Len(less)
      /\ \A i \in 1..(Len(q) - 1) : less[i] = q[i]
  BY <1>1
<1> HIDE DEF less
<1>3. \A i \in DOMAIN q : i = Len(q) \/ (i \in DOMAIN less /\ less[i] = q[i])
  BY <1>1, <1>2
<1>4. \A x \in Range(q) : x = q[Len(q)] \/ x \in Range(less)
  BY <1>1, <1>3 DEF Range
<1> QED
  BY <1>2, <1>4 DEF less

LEMMA RangeOfConcat ==
  ASSUME NEW S, NEW a \in Seq(S), NEW b \in Seq(S)
  PROVE  a \o b \in Seq(S) /\ Range(a \o b) = Range(a) \cup Range(b)
<1> DEFINE c == a \o b
<1>1. /\ Len(a) \in Nat /\ Len(b) \in Nat /\ DOMAIN a = 1..Len(a) /\ DOMAIN b = 1..Len(b)
      /\ c \in Seq(S) /\ DOMAIN c = 1..(Len(a) + Len(b))
      /\ \A i \in 1..(Len(a) + Len(b)) : c[i] = IF i <= Len(a) THEN a[i] ELSE b[i - Len(a)]
  OBVIOUS
<1> HIDE DEF c
<1>2. \A i \in 1..Len(a) : i \in DOMAIN c /\ c[i] = a[i]
  BY <1>1
<1>3. ASSUME NEW i \in 1..Len(b) PROVE i + Len(a) \in DOMAIN c /\ c[i + Len(a)] = b[i]
  <2>1. /\ i + Len(a) \in 1..(Len(a) + Len(b)) /\ ~(i + Len(a) <= Len(a))
        /\ (i + Len(a)) - Len(a) = i
    BY <1>1
  <2> QED
    BY <1>1, <2>1
<1>4. \A i \in DOMAIN c : i \in DOMAIN a \/ i - Len(a) \in DOMAIN b
  BY <1>1
<1>5. Range(c) = Range(a) \cup Range(b)
  BY <1>1, <1>2, <1>3, <1>4 DEF Range
<1> QED
  BY <1>1, <1>5 DEF c

LEMMA BodyFacts ==
  /\ \A p \in AllPrograms : \A i \in DOMAIN p : p[i].kind = "nest" => p[i].body \in Bodies
  /\ \A p \in Bodies : \A i \in DOMAIN p :
       p[i].makes # None => p[i].reported \/ p[i].makes = "collection"
<1>1. ASSUME NEW p \in AllPrograms, NEW i \in DOMAIN p, p[i].kind = "nest"
      PROVE  p[i].body \in Bodies
  <2>1. p[i] \in Range(p)
    BY DEF Range
  <2>2. CASE p \in Programs
    <3>1. p[i].body \in Nested(Programs)
      BY <1>1, <2>1, <2>2 DEF Nested, StepsOf
    <3> QED
      BY <3>1 DEF Bodies
  <2>3. CASE p \in Bodies
    <3>1. p[i].body \in Nested(Bodies)
      BY <1>1, <2>1, <2>3 DEF Nested, StepsOf
    <3> QED
      BY <3>1, ProgramsAssumption
  <2> QED
    BY <2>2, <2>3 DEF AllPrograms
<1>2. ASSUME NEW p \in Bodies, NEW i \in DOMAIN p, p[i].makes # None
      PROVE  p[i].reported \/ p[i].makes = "collection"
  <2>1. p[i] \in StepsOf(Bodies)
    BY DEF StepsOf, Range
  <2> QED
    BY <1>2, <2>1, ProgramsAssumption
<1> QED
  BY <1>1, <1>2

\* The run at work.
LEMMA AtWork ==
  ASSUME TypeInv
  PROVE  /\ Top \in Nat \ {0} /\ DOMAIN runs = 1..Top /\ Now \in Runs
         /\ \A i \in 1..Top : runs[i] \in Runs
<1>1. runs \in Seq(Runs) /\ runs # <<>>
  BY DEF TypeInv
<1>2. Len(runs) \in Nat \ {0} /\ DOMAIN runs = 1..Len(runs)
  BY <1>1
<1>3. \A i \in 1..Len(runs) : runs[i] \in Runs
  BY <1>1
<1> QED
  BY <1>2, <1>3 DEF Top, Now

LEMMA AtStepFacts ==
  ASSUME TypeInv, AtStep
  PROVE  /\ phase = "running" /\ Now \in Runs /\ Now.program \in AllPrograms
         /\ Now.at \in DOMAIN Now.program /\ Step = Now.program[Now.at]
         /\ DOMAIN Now.program = 1..Len(Now.program) /\ Len(Now.program) \in Nat
<1>1. Now \in Runs /\ Now.program \in AllPrograms /\ Now.at \in Nat \ {0}
  BY AtWork DEF Runs
<1>2. Now.program \in Seq(Range(Now.program))
  BY <1>1, ProgramsAssumption DEF AllPrograms
<1> QED
  BY <1>1, <1>2 DEF AtStep, Step

\* The run after its step.
LEMMA AfterFacts ==
  ASSUME TypeInv, AtStep, NEW run \in Runs, run.program = Now.program, NEW leaves,
         After(run, leaves)
  PROVE  \E r \in Runs :
           /\ runs' = [runs EXCEPT ![Top] = r]
           /\ r.program = Now.program /\ r.failed = run.failed
           /\ r.created = run.created /\ r.compensations = run.compensations
           /\ ~leaves => r.at = run.at + 1
<1> DEFINE at == IF leaves THEN Len(run.program) + 1 ELSE run.at + 1
           r == [run EXCEPT !.at = at]
<1>1. at \in Nat \ {0}
  BY AtStepFacts DEF Runs
<1>2. ~leaves => at = run.at + 1
  OBVIOUS
<1>3. runs' = [runs EXCEPT ![Top] = r]
  BY DEF After
<1> HIDE DEF at
<1>4. /\ r \in Runs /\ r.program = run.program /\ r.failed = run.failed
      /\ r.created = run.created /\ r.compensations = run.compensations /\ r.at = at
  BY <1>1 DEF Runs
<1> QED
  BY <1>2, <1>3, <1>4

-----------------------------------------------------------------------------
(* Steps of the run at work *)

\* What a step may do to the scene, the answers and the findings.
StepEffect ==
  /\ phase' = "running" /\ profile' = profile /\ UNCHANGED report
  /\ scene \subseteq scene' /\ problems' \subseteq problems
  /\ findings' = findings \/ Seen'
  /\ "file" \in scene' => "file" \in scene \/ Clean
  /\ IsFiniteSet(known') /\ known \subseteq known' /\ known' \subseteq scene'

LEMMA StackStays ==
  ASSUME TypeInv, AtStep, NEW r \in Runs, r.program = Now.program,
         runs' = [runs EXCEPT ![Top] = r]
  PROVE  /\ runs' \in Seq(Runs) /\ runs' # <<>> /\ Top' = Top
         /\ runs'[Top] = r /\ \A i \in 1..(Top - 1) : runs'[i] = runs[i]
         /\ \A i \in 1..Top : runs'[i].program = runs[i].program
         /\ RigCollection' = RigCollection
<1>1. /\ Top \in Nat \ {0} /\ DOMAIN runs = 1..Top /\ \A i \in 1..Top : runs[i] \in Runs
      /\ runs \in Seq(Runs)
  BY AtWork DEF TypeInv
<1>2. runs' \in Seq(Runs) /\ Len(runs') = Len(runs)
  BY <1>1
<1>3. Top' = Top /\ runs' # <<>>
  BY <1>1, <1>2 DEF Top
<1>4. runs'[Top] = r /\ \A i \in 1..(Top - 1) : runs'[i] = runs[i]
  BY <1>1
<1>5. \A i \in 1..Top : runs'[i].program = runs[i].program
  BY <1>1, <1>4 DEF Now
<1>6. RigCollection' = RigCollection
  BY <1>1, <1>5 DEF RigCollection
<1> QED
  BY <1>2, <1>3, <1>4, <1>5, <1>6

LEMMA CleanStays == problems' \subseteq problems /\ profile' = profile
                    => (Clean => Clean') /\ (Seen /\ findings' = findings => Seen')
BY DEF Clean, Seen, ObjectReport

LEMMA RunGoesOn ==
  ASSUME WorkflowInv, AtStep, StepEffect,
         NEW r \in Runs, r.program = Now.program, runs' = [runs EXCEPT ![Top] = r],
         ~r.failed => /\ ~Now.failed /\ r.at = Now.at + 1
                      /\ Step.kind = "analyse" => Seen'
                      /\ Step.kind = "gate" => Clean,
         Now.created \subseteq r.created, r.created \subseteq known',
         Range(Now.compensations) \subseteq Range(r.compensations),
         \A x \in known' \ known :
           \/ x = "file" \/ (x = "collection" /\ Top > 1)
           \/ IF Top = 1 THEN x \in Range(r.compensations) ELSE x \in r.created
  PROVE  WorkflowInv'
<1> TypeInv /\ FileInv /\ StackInv /\ KnownInv
  BY AtStepFacts DEF WorkflowInv
<1>1. /\ runs' \in Seq(Runs) /\ runs' # <<>> /\ Top' = Top
      /\ runs'[Top] = r /\ \A i \in 1..(Top - 1) : runs'[i] = runs[i]
      /\ \A i \in 1..Top : runs'[i].program = runs[i].program
      /\ RigCollection' = RigCollection
  BY StackStays
<1>2. Top \in Nat \ {0} /\ \A i \in 1..Top : runs[i] \in Runs
  BY AtWork
<1>3. TypeInv'
  BY <1>1 DEF TypeInv, StepEffect
<1>4. (Clean => Clean') /\ (Seen => Seen')
  BY CleanStays DEF StepEffect
<1>5. FileInv'
  BY <1>4 DEF FileInv, StepEffect
<1>6. ASSUME NEW i \in 1..Top PROVE Sound(runs[i])'
  <2>1. CASE i # Top
    <3>1. runs'[i] = runs[i] /\ Sound(runs[i])
      BY <1>1, <1>2, <2>1 DEF StackInv
    <3> QED
      BY <1>4, <3>1 DEF Sound, Passed
  <2>2. CASE i = Top
    <3> SUFFICES ASSUME ~r.failed
                 PROVE  (Passed(r, "analyse") => Seen') /\ (Passed(r, "gate") => Clean')
      BY <1>1, <2>2 DEF Sound, Passed
    <3>1. /\ ~Now.failed /\ r.at = Now.at + 1 /\ Now.at \in Nat /\ Step = Now.program[Now.at]
          /\ DOMAIN Now.program = 1..Len(Now.program) /\ Len(Now.program) \in Nat
      BY AtStepFacts DEF Runs
    <3>2. ASSUME NEW kind, Passed(r, kind) PROVE Passed(Now, kind) \/ Step.kind = kind
      BY <3>1, <3>2 DEF Passed
    <3>3. Sound(Now)
      BY <1>2 DEF StackInv, Now
    <3> QED
      BY <1>4, <3>1, <3>2, <3>3 DEF Sound
  <2> QED
    BY <2>1, <2>2
<1>7. StackInv'
  BY <1>1, <1>2, <1>6 DEF StackInv
<1>8. Top > 1 => RigCollection = {"collection"}
  BY <1>2 DEF StackInv, RigCollection
<1>9. \A i \in 1..Top : \A x : Holds(i, x) => Holds(i, x)'
  BY <1>1, <1>2 DEF Holds, Now
<1>10. \A x : (IF Top = 1 THEN x \in Range(r.compensations) ELSE x \in r.created)
               => \E i \in 1..Top : Holds(i, x)'
  BY <1>1, <1>2 DEF Holds
<1>11. \A x \in known' : x = "file" \/ x \in RigCollection \/ \E i \in 1..Top : Holds(i, x)'
  BY <1>2, <1>8, <1>9, <1>10 DEF KnownInv
<1>12. \A i \in 1..Top : runs'[i].created \subseteq known'
  BY <1>1, <1>2 DEF KnownInv, StepEffect
<1>13. KnownInv'
  BY <1>1, <1>11, <1>12 DEF KnownInv, StepEffect, Holds
<1> QED
  BY <1>3, <1>5, <1>7, <1>13 DEF WorkflowInv, StepEffect, CompleteRollbackLeavesNothingKnown,
     ReportedEntitiesExist

-----------------------------------------------------------------------------
(* One lemma for each action *)

LEMMA SkipKeeps == ASSUME WorkflowInv, Skip PROVE WorkflowInv'
<1> TypeInv /\ StackInv /\ KnownInv /\ AtStep
  BY AtStepFacts DEF WorkflowInv, Skip, AtStep
<1>1. /\ Now \in Runs /\ Now.program \in AllPrograms /\ Now.at \in DOMAIN Now.program
      /\ Step = Now.program[Now.at] /\ Now.failed \in BOOLEAN
  BY AtStepFacts DEF Runs
<1>2. /\ Step.stops \in BOOLEAN
      /\ Step.kind = "gate" => Step.needs = None
      /\ Step.kind = "analyse" => Step.needs = None
  BY <1>1, StepFacts
<1> DEFINE leaves == Now.failed /\ Step.stops
<1>3. leaves \in BOOLEAN /\ After(Now, leaves)
  BY DEF Skip
<1>4. PICK r \in Runs : /\ runs' = [runs EXCEPT ![Top] = r] /\ r.program = Now.program
                        /\ r.failed = Now.failed /\ r.created = Now.created
                        /\ r.compensations = Now.compensations
                        /\ ~leaves => r.at = Now.at + 1
  BY <1>1, <1>3, AfterFacts
<1>5. StepEffect
  BY AtStepFacts DEF StepEffect, Skip, external, KnownInv, TypeInv
<1>6. ~r.failed => Step.kind # "gate" /\ Step.kind # "analyse"
  BY <1>2, <1>4 DEF Skip, Taken
<1>7. r.created \subseteq known'
  BY <1>4, AtWork DEF KnownInv, Skip, external, Now
<1>8. /\ ~r.failed => ~Now.failed /\ r.at = Now.at + 1
      /\ Now.created \subseteq r.created /\ Range(Now.compensations) \subseteq Range(r.compensations)
      /\ known' = known
  BY <1>4 DEF Skip, external
<1> QED
  BY <1>4, <1>5, <1>6, <1>7, <1>8, RunGoesOn

\* A step that is taken.
LEMMA AsksFacts ==
  ASSUME WorkflowInv, Asks
  PROVE  /\ TypeInv /\ StackInv /\ KnownInv /\ AtStep /\ phase = "running" /\ ~Now.failed
         /\ Now \in Runs /\ Now.program \in AllPrograms /\ Now.at \in DOMAIN Now.program
         /\ Step = Now.program[Now.at] /\ Now.created \subseteq known
         /\ Step.makes = "file" => Clean
         /\ Step.kind \in {"call", "analyse"}
<1>1. TypeInv /\ StackInv /\ KnownInv /\ AtStep /\ phase = "running" /\ ~Now.failed
      /\ Step.kind \in {"call", "analyse"}
  BY DEF WorkflowInv, Asks, AtStep, Calls
<1>2. /\ Now \in Runs /\ Now.program \in AllPrograms /\ Now.at \in DOMAIN Now.program
      /\ Step = Now.program[Now.at]
      /\ DOMAIN Now.program = 1..Len(Now.program) /\ Len(Now.program) \in Nat
  BY <1>1, AtStepFacts
<1>3. Now.created \subseteq known /\ Sound(Now)
  BY <1>1, AtWork DEF KnownInv, StackInv, Now
<1>4. ASSUME Step.makes = "file" PROVE Clean
  <2>1. EarlierStep(Now.program, Now.at, "gate")
    BY <1>2, <1>4, StepFacts
  <2>2. Passed(Now, "gate")
    BY <1>2, <2>1 DEF EarlierStep, Passed
  <2> QED
    BY <1>1, <1>3, <2>2 DEF Sound
<1> QED
  BY <1>1, <1>2, <1>3, <1>4

LEMMA CarriedOutFacts ==
  ASSUME WorkflowInv, Asks, CarriedOut(Step) \/ UNCHANGED <<scene, problems>>
  PROVE  /\ scene \subseteq scene' /\ problems' \subseteq problems
         /\ "file" \in scene' => "file" \in scene \/ Clean
BY AsksFacts DEF CarriedOut

LEMMA AnsweredKeeps == ASSUME WorkflowInv, Answered PROVE WorkflowInv'
<1> USE AsksFacts DEF Answered
<1> DEFINE kept == IF Step.makes = None THEN Now ELSE Tracked(Now, Step)
<1>1. /\ Step.makes \in Things /\ Step.reported \in BOOLEAN /\ Step.undone \in BOOLEAN
      /\ Step.makes # None => Step.undone \/ Step.makes = "file"
      /\ Step.kind = "analyse" => Step.makes = None
  BY StepFacts
<1>2. /\ Now.created \subseteq Things /\ Now.compensations \in Seq(Things)
      /\ Now.failed = FALSE /\ Now.program \in AllPrograms
  BY DEF Runs
<1>3. /\ kept \in Runs /\ kept.program = Now.program /\ kept.failed = FALSE /\ kept.at = Now.at
      /\ Step.makes = None => kept = Now
      /\ Step.makes # None =>
           /\ kept.created = IF Step.reported THEN Now.created \cup {Step.makes} ELSE Now.created
           /\ kept.compensations = IF Step.undone THEN Append(Now.compensations, Step.makes)
                                                  ELSE Now.compensations
  <2>1. CASE Step.makes = None
    BY <1>2, <2>1
  <2>2. CASE Step.makes # None
    <3> DEFINE c == IF Step.undone THEN Append(Now.compensations, Step.makes) ELSE Now.compensations
               m == IF Step.reported THEN Now.created \cup {Step.makes} ELSE Now.created
    <3>1. c \in Seq(Things) /\ m \subseteq Things
      BY <1>1, <1>2
    <3>2. kept = [Now EXCEPT !.compensations = c, !.created = m]
      BY <2>2 DEF Tracked
    <3> HIDE DEF c, m, kept
    <3>3. kept \in Runs /\ kept.program = Now.program /\ kept.failed = Now.failed
          /\ kept.at = Now.at /\ kept.created = m /\ kept.compensations = c
      BY <3>1, <3>2 DEF Runs
    <3> QED
      BY <1>2, <2>2, <3>3 DEF c, m
  <2> QED
    BY <2>1, <2>2
<1>4. After(kept, FALSE)
  OBVIOUS
<1> HIDE DEF kept
<1>5. PICK r \in Runs : /\ runs' = [runs EXCEPT ![Top] = r] /\ r.program = Now.program
                        /\ r.failed = kept.failed /\ r.created = kept.created
                        /\ r.compensations = kept.compensations /\ r.at = kept.at + 1
  BY <1>3, <1>4, AfterFacts
<1>6. /\ Range(Now.compensations) \subseteq Range(r.compensations)
      /\ Step.makes # None /\ Step.undone => Step.makes \in Range(r.compensations)
  <2>1. \A x : /\ Append(Now.compensations, x) \in Seq(Things \cup {x})
               /\ Range(Now.compensations) \subseteq Range(Append(Now.compensations, x))
               /\ x \in Range(Append(Now.compensations, x))
    <3> TAKE x
    <3>1. Range(Append(Now.compensations, x)) = Range(Now.compensations) \cup {x}
          /\ Append(Now.compensations, x) \in Seq(Things \cup {x})
      BY <1>2, RangeOfAppend
    <3> QED
      BY <3>1
  <2> QED
    BY <1>3, <1>5, <2>1
<1>7. Seen' \/ findings' = findings
  BY CarriedOutFacts DEF Seen, CheckObject, ObjectReport
<1>8. Step.kind = "analyse" => Seen'
  BY CarriedOutFacts DEF Seen, CheckObject, ObjectReport
<1>9. IsFiniteSet(known') /\ known \subseteq known' /\ known' \subseteq scene'
  BY FS_AddElement DEF TypeInv, KnownInv, CarriedOut
<1>10. StepEffect
  BY <1>7, <1>9, CarriedOutFacts DEF StepEffect
<1>11. Now.created \subseteq r.created /\ r.created \subseteq known'
  BY <1>3, <1>5
<1>12. Top > 1 /\ Step.makes # None => Step.makes = "collection" \/ Step.reported
  BY BodyFacts, AtWork DEF StackInv, Now
<1>13. ASSUME NEW x \in known' \ known
       PROVE  \/ x = "file" \/ (x = "collection" /\ Top > 1)
              \/ IF Top = 1 THEN x \in Range(r.compensations) ELSE x \in r.created
  <2>1. x = Step.makes /\ Step.makes # None
    BY <1>13
  <2> QED
    BY <1>1, <1>3, <1>5, <1>6, <1>12, <2>1, AtWork
<1> QED
  BY <1>3, <1>5, <1>6, <1>8, <1>10, <1>11, <1>13, RunGoesOn

LEMMA AnsweredWithoutIdKeeps == ASSUME WorkflowInv, AnsweredWithoutId PROVE WorkflowInv'
<1> USE AsksFacts DEF AnsweredWithoutId
<1> DEFINE kept == [Now EXCEPT !.failed = Step.needsId]
<1>1. Step.needsId \in BOOLEAN /\ (Step.kind = "analyse" => Step.makes = None)
  BY StepFacts
<1>2. /\ kept \in Runs /\ kept.program = Now.program /\ kept.failed = Step.needsId
      /\ kept.created = Now.created /\ kept.compensations = Now.compensations /\ kept.at = Now.at
  BY <1>1 DEF Runs
<1>3. After(kept, Step.needsId)
  OBVIOUS
<1> HIDE DEF kept
<1>4. PICK r \in Runs : /\ runs' = [runs EXCEPT ![Top] = r] /\ r.program = Now.program
                        /\ r.failed = kept.failed /\ r.created = kept.created
                        /\ r.compensations = kept.compensations
                        /\ ~Step.needsId => r.at = kept.at + 1
  BY <1>1, <1>2, <1>3, AfterFacts
<1>5. StepEffect
  BY CarriedOutFacts DEF StepEffect, TypeInv, KnownInv
<1>6. /\ ~r.failed => ~Now.failed /\ r.at = Now.at + 1
      /\ Now.created \subseteq r.created /\ Range(Now.compensations) \subseteq Range(r.compensations)
      /\ known' = known /\ r.created \subseteq known'
      /\ Step.kind # "gate" /\ Step.kind # "analyse"
  BY <1>1, <1>2, <1>4
<1> QED
  BY <1>4, <1>5, <1>6, RunGoesOn

LEMMA CallFailsKeeps == ASSUME WorkflowInv, CallFails PROVE WorkflowInv'
<1> USE AsksFacts DEF CallFails
<1> DEFINE kept == [Now EXCEPT !.failed = Step.fatal]
<1>1. /\ Step.fatal \in BOOLEAN /\ Step.stops \in BOOLEAN
      /\ Step.stops => Step.fatal
      /\ Step.kind = "analyse" => Step.fatal
  BY StepFacts
<1>2. /\ kept \in Runs /\ kept.program = Now.program /\ kept.failed = Step.fatal
      /\ kept.created = Now.created /\ kept.compensations = Now.compensations /\ kept.at = Now.at
  BY <1>1 DEF Runs
<1>3. After(kept, Step.stops)
  OBVIOUS
<1> HIDE DEF kept
<1>4. PICK r \in Runs : /\ runs' = [runs EXCEPT ![Top] = r] /\ r.program = Now.program
                        /\ r.failed = kept.failed /\ r.created = kept.created
                        /\ r.compensations = kept.compensations
                        /\ ~Step.stops => r.at = kept.at + 1
  BY <1>1, <1>2, <1>3, AfterFacts
<1>5. StepEffect
  BY CarriedOutFacts DEF StepEffect, TypeInv, KnownInv
<1>6. /\ ~r.failed => ~Now.failed /\ r.at = Now.at + 1
      /\ Now.created \subseteq r.created /\ Range(Now.compensations) \subseteq Range(r.compensations)
      /\ known' = known /\ r.created \subseteq known'
      /\ Step.kind # "gate" /\ (~r.failed => Step.kind # "analyse")
  BY <1>1, <1>2, <1>4
<1> QED
  BY <1>4, <1>5, <1>6, RunGoesOn

LEMMA ComputeKeeps == ASSUME WorkflowInv, NEW ok \in BOOLEAN, Compute(ok) PROVE WorkflowInv'
<1> USE DEF Compute
<1>1. TypeInv /\ StackInv /\ KnownInv /\ phase = "running"
  BY DEF WorkflowInv, AtStep
<1>2. /\ Now \in Runs /\ Now.program \in AllPrograms /\ Now.at \in DOMAIN Now.program
      /\ Step = Now.program[Now.at]
      /\ DOMAIN Now.program = 1..Len(Now.program) /\ Len(Now.program) \in Nat
  BY <1>1, AtStepFacts
<1>3. Now.created \subseteq known /\ Sound(Now)
  BY <1>1, AtWork DEF KnownInv, StackInv, Now
<1> DEFINE kept == [Now EXCEPT !.failed = ~ok]
           leaves == ~ok
<1>4. /\ kept \in Runs /\ kept.program = Now.program /\ kept.failed = ~ok
      /\ kept.created = Now.created /\ kept.compensations = Now.compensations /\ kept.at = Now.at
  BY <1>2 DEF Runs
<1>5. After(kept, leaves) /\ AtStep
  OBVIOUS
<1> HIDE DEF kept, leaves
<1>6. PICK r \in Runs : /\ runs' = [runs EXCEPT ![Top] = r] /\ r.program = Now.program
                        /\ r.failed = kept.failed /\ r.created = kept.created
                        /\ r.compensations = kept.compensations
                        /\ ~leaves => r.at = kept.at + 1
  BY <1>1, <1>4, <1>5, AfterFacts
<1>7. StepEffect
  BY <1>1 DEF StepEffect, TypeInv, KnownInv, external
<1>8. ASSUME Step.kind = "gate", ok PROVE Clean
  <2>1. EarlierStep(Now.program, Now.at, "analyse")
    BY <1>2, <1>8, StepFacts
  <2>2. Passed(Now, "analyse")
    BY <1>2, <2>1 DEF EarlierStep, Passed
  <2>3. Seen /\ ~BlocksExport(findings)
    BY <1>3, <1>8, <2>2 DEF Sound
  <2> QED
    BY <2>3 DEF Seen, BlocksExport, Clean, ObjectReport
<1>9. /\ ~r.failed => ok
      /\ ~r.failed => ~Now.failed /\ r.at = Now.at + 1
      /\ Now.created \subseteq r.created /\ Range(Now.compensations) \subseteq Range(r.compensations)
      /\ known' = known /\ r.created \subseteq known'
      /\ Step.kind # "analyse"
  BY <1>3, <1>4, <1>6 DEF external, leaves
<1> QED
  BY <1>6, <1>7, <1>8, <1>9, RunGoesOn

LEMMA ListKeeps == ASSUME WorkflowInv, List PROVE WorkflowInv'
<1> USE DEF List
<1>1. TypeInv /\ StackInv /\ KnownInv /\ phase = "running" /\ AtStep
  BY DEF WorkflowInv, AtStep
<1>2. /\ Now \in Runs /\ Now.program \in AllPrograms /\ Now.at \in DOMAIN Now.program
      /\ Step = Now.program[Now.at]
  BY <1>1, AtStepFacts
<1>3. Now.created \subseteq known
  BY <1>1, AtWork DEF KnownInv, Now
<1>4. Step.lists \subseteq Things
  BY <1>2, StepFacts
<1> DEFINE kept == [Now EXCEPT !.created = @ \cup (Step.lists \cap known)]
<1>5. /\ kept \in Runs /\ kept.program = Now.program /\ kept.failed = Now.failed
      /\ kept.created = Now.created \cup (Step.lists \cap known)
      /\ kept.compensations = Now.compensations /\ kept.at = Now.at
  BY <1>2, <1>4 DEF Runs
<1>6. After(kept, FALSE)
  OBVIOUS
<1> HIDE DEF kept
<1>7. PICK r \in Runs : /\ runs' = [runs EXCEPT ![Top] = r] /\ r.program = Now.program
                        /\ r.failed = kept.failed /\ r.created = kept.created
                        /\ r.compensations = kept.compensations /\ r.at = kept.at + 1
  BY <1>1, <1>5, <1>6, AfterFacts
<1>8. StepEffect
  BY <1>1 DEF StepEffect, TypeInv, KnownInv, external
<1>9. /\ ~r.failed => ~Now.failed /\ r.at = Now.at + 1
      /\ Now.created \subseteq r.created /\ Range(Now.compensations) \subseteq Range(r.compensations)
      /\ known' = known /\ r.created \subseteq known'
      /\ Step.kind # "analyse" /\ Step.kind # "gate"
  BY <1>3, <1>5, <1>7 DEF external
<1> QED
  BY <1>7, <1>8, <1>9, RunGoesOn

LEMMA EnterKeeps == ASSUME WorkflowInv, Enter PROVE WorkflowInv'
<1>1. /\ TypeInv /\ StackInv /\ KnownInv /\ FileInv /\ phase = "running" /\ AtStep
      /\ UNCHANGED <<rollback, phase, report, findings, scene, problems, profile, known>>
  BY DEF WorkflowInv, AtStep, Enter, external
<1>2. /\ Now \in Runs /\ Now.program \in AllPrograms /\ Now.at \in DOMAIN Now.program
      /\ Step = Now.program[Now.at]
  BY <1>1, AtStepFacts
<1>3. /\ Top \in Nat \ {0} /\ DOMAIN runs = 1..Top /\ (\A i \in 1..Top : runs[i] \in Runs)
      /\ runs \in Seq(Runs)
  BY <1>1, AtWork DEF TypeInv
<1> DEFINE r == NewRun(Step.body)
<1>4. Step.body \in Bodies /\ Step.kind = "nest"
  BY <1>2, BodyFacts DEF Enter
<1>5. /\ r \in Runs /\ r.program \in Bodies /\ r.at = 1 /\ r.created = {}
      /\ r.compensations = <<>>
  BY <1>4 DEF NewRun, Runs, AllPrograms
<1>6. runs' = Append(runs, r)
  BY DEF Enter
<1> HIDE DEF r
<1>7. /\ runs' \in Seq(Runs) /\ runs' # <<>> /\ Top' = Top + 1
      /\ runs'[Top + 1] = r /\ \A i \in 1..Top : runs'[i] = runs[i]
  BY <1>3, <1>5, <1>6 DEF Top
<1>8. RigCollection' = RigCollection
  BY <1>3, <1>7 DEF RigCollection
<1>9. TypeInv' /\ FileInv'
  BY <1>1, <1>7 DEF TypeInv, FileInv, Clean
<1>10. ~Passed(r, "analyse") /\ ~Passed(r, "gate")
  <2>1. DOMAIN r.program \subseteq Nat \ {0}
    <3>1. r.program \in Seq(Range(r.program))
      BY <1>5, ProgramsAssumption
    <3> QED
      BY <3>1
  <2> QED
    BY <1>5, <2>1 DEF Passed
<1>11. \A i \in 1..(Top + 1) : Sound(runs[i])'
  <2>1. \A i \in 1..Top : Sound(runs[i])'
    BY <1>1, <1>7 DEF StackInv, Sound, Passed, Seen, Clean
  <2>2. ASSUME NEW i \in 1..(Top + 1), i = Top + 1 PROVE Sound(runs[i])'
    <3>1. runs'[i] = r
      BY <1>7, <2>2
    <3> QED
      BY <1>10, <3>1 DEF Sound, Passed
  <2> QED
    BY <1>3, <2>1, <2>2
<1>12. StackInv'
  <2>1. runs'[Top].at \in DOMAIN runs'[Top].program
        /\ runs'[Top].program[runs'[Top].at].kind = "nest"
    BY <1>2, <1>3, <1>4, <1>7 DEF Now
  <2>2. \A i \in 2..(Top + 1) : runs'[i].program \in Bodies
    BY <1>1, <1>3, <1>5, <1>7 DEF StackInv
  <2>3. \A i \in 1..Top : /\ runs'[i].at \in DOMAIN runs'[i].program
                          /\ runs'[i].program[runs'[i].at].kind = "nest"
    BY <1>1, <1>3, <1>7, <2>1 DEF StackInv
  <2> QED
    BY <1>3, <1>7, <1>11, <2>2, <2>3 DEF StackInv
<1>13. KnownInv'
  <2>1. \A i \in 1..Top : \A x : Holds(i, x) => i \in 1..(Top + 1) /\ Holds(i, x)'
    BY <1>3, <1>7 DEF Holds
  <2>2. ASSUME NEW x \in known, x # "file", x \notin RigCollection
        PROVE  \E i \in 1..(Top + 1) : Holds(i, x)'
    <3>1. PICK i \in 1..Top : Holds(i, x)
      BY <1>1, <2>2 DEF KnownInv
    <3> QED
      BY <2>1, <3>1
  <2>3. \A i \in 1..(Top + 1) : runs'[i].created \subseteq known
    BY <1>1, <1>3, <1>5, <1>7 DEF KnownInv
  <2> QED
    BY <1>1, <1>7, <1>8, <2>2, <2>3 DEF KnownInv, Holds
<1> QED
  BY <1>1, <1>9, <1>12, <1>13 DEF WorkflowInv, CompleteRollbackLeavesNothingKnown,
     ReportedEntitiesExist

LEMMA LeaveKeeps == ASSUME WorkflowInv, Leave PROVE WorkflowInv'
<1>1. /\ TypeInv /\ StackInv /\ KnownInv /\ FileInv /\ phase = "running" /\ Top > 1
      /\ UNCHANGED <<rollback, phase, report, findings, scene, problems, profile, known>>
  BY DEF WorkflowInv, Leave, external
<1>2. /\ Top \in Nat \ {0} /\ DOMAIN runs = 1..Top /\ (\A i \in 1..Top : runs[i] \in Runs)
      /\ runs \in Seq(Runs)
  BY <1>1, AtWork DEF TypeInv
<1> DEFINE n == Top - 1
           child == runs[Top]
           parent == runs[n]
           adopted == Adopt(parent, child)
           q == [adopted EXCEPT !.at = IF child.failed THEN Len(adopted.program) + 1 ELSE @ + 1]
           handed == SetToSeq(child.created)
<1>3. n \in Nat \ {0} /\ child \in Runs /\ parent \in Runs /\ Top = n + 1
  BY <1>1, <1>2
<1>4. handed \in Seq(Things) /\ Range(handed) = child.created
  <2>1. child.created \subseteq known /\ child.created \subseteq Things
    BY <1>1, <1>2, <1>3 DEF KnownInv, Runs
  <2>2. IsFiniteSet(child.created)
    BY <1>1, <2>1, FS_Subset DEF TypeInv
  <2>3. /\ handed \in Seq(child.created)
        /\ \A e \in child.created : \E i \in DOMAIN handed : handed[i] = e
    BY <2>2, EnumerationFacts
  <2> HIDE DEF handed
  <2>4. handed \in Seq(Things) /\ \A i \in DOMAIN handed : handed[i] \in child.created
    BY <2>1, <2>3
  <2> QED
    BY <2>3, <2>4 DEF Range
<1>5. runs' = Append(SubSeq(runs, 1, n - 1), q)
  <2>1. Top - 2 = n - 1
    BY <1>2
  <2> QED
    BY <2>1 DEF Leave, Now
<1> HIDE DEF handed
<1>6. /\ q \in Runs /\ q.program = parent.program
      /\ q.created = parent.created \cup child.created
      /\ Range(q.compensations) = Range(parent.compensations) \cup child.created
      /\ ~q.failed => ~parent.failed /\ ~child.failed /\ q.at = parent.at + 1
  <2>1. /\ parent.compensations \o handed \in Seq(Things)
        /\ Range(parent.compensations \o handed) = Range(parent.compensations) \cup child.created
    BY <1>3, <1>4, RangeOfConcat DEF Runs
  <2>2. /\ parent.created \cup child.created \subseteq Things
        /\ parent.program \in AllPrograms /\ parent.at \in Nat \ {0}
        /\ parent.failed \in BOOLEAN /\ child.failed \in BOOLEAN
    BY <1>3 DEF Runs
  <2>3. Len(parent.program) + 1 \in Nat \ {0}
    <3>1. parent.program \in Seq(Range(parent.program))
      BY <2>2, ProgramsAssumption DEF AllPrograms
    <3> QED
      BY <3>1
  <2>4. PICK cs \in Seq(Things) : cs = parent.compensations \o handed
    BY <2>1
  <2>5. PICK made \in SUBSET Things : made = parent.created \cup child.created
    BY <2>2
  <2>6. PICK failed \in BOOLEAN : failed = (parent.failed \/ child.failed)
    BY <2>2
  <2>7. PICK at \in Nat \ {0} : at = IF child.failed THEN Len(parent.program) + 1 ELSE parent.at + 1
    BY <2>2, <2>3
  <2>8. adopted = [parent EXCEPT !.created = made, !.compensations = cs, !.failed = failed]
    BY <2>4, <2>5, <2>6 DEF Adopt, handed
  <2> HIDE DEF adopted
  <2>9. /\ adopted \in Runs /\ adopted.program = parent.program /\ adopted.at = parent.at
        /\ adopted.created = made /\ adopted.compensations = cs /\ adopted.failed = failed
    BY <1>3, <2>8 DEF Runs
  <2>10. q = [adopted EXCEPT !.at = at]
    BY <2>7, <2>9
  <2> HIDE DEF q
  <2>11. /\ q \in Runs /\ q.program = parent.program /\ q.at = at
         /\ q.created = made /\ q.compensations = cs /\ q.failed = failed
    BY <2>9, <2>10 DEF Runs
  <2> QED
    BY <2>1, <2>2, <2>4, <2>5, <2>6, <2>7, <2>11
<1> HIDE DEF q, adopted
<1>7. /\ runs' \in Seq(Runs) /\ runs' # <<>> /\ Top' = n
      /\ runs'[n] = q /\ \A i \in 1..(n - 1) : runs'[i] = runs[i]
  <2>1. /\ SubSeq(runs, 1, n - 1) \in Seq(Runs) /\ Len(SubSeq(runs, 1, n - 1)) = n - 1
        /\ \A i \in 1..(n - 1) : SubSeq(runs, 1, n - 1)[i] = runs[i]
    BY <1>2, <1>3
  <2> DEFINE below == SubSeq(runs, 1, n - 1)
  <2> HIDE DEF below, n
  <2>2. /\ Append(below, q) \in Seq(Runs) /\ Append(below, q) # <<>> /\ Len(Append(below, q)) = n
        /\ Append(below, q)[n] = q /\ \A i \in 1..(n - 1) : Append(below, q)[i] = below[i]
    BY <1>3, <1>6, <2>1 DEF below
  <2> QED
    BY <1>5, <2>1, <2>2 DEF Top, below
<1> HIDE DEF n, child, parent
<1>8. \A i \in 1..n : runs'[i].program = runs[i].program
  BY <1>3, <1>6, <1>7 DEF parent
<1>9. RigCollection' = RigCollection
  BY <1>3, <1>8 DEF RigCollection
<1>10. TypeInv' /\ FileInv'
  BY <1>1, <1>7 DEF TypeInv, FileInv, Clean
<1>11. /\ parent.at \in DOMAIN parent.program /\ parent.program[parent.at].kind = "nest"
       /\ Sound(parent)
  BY <1>1, <1>3 DEF StackInv, parent
<1>12. ASSUME NEW i \in 1..n PROVE Sound(runs[i])'
  <2>1. CASE i # n
    <3>1. runs'[i] = runs[i] /\ Sound(runs[i])
      BY <1>1, <1>3, <1>7, <2>1 DEF StackInv
    <3> QED
      BY <1>1, <3>1 DEF Sound, Passed, Seen, Clean
  <2>2. CASE i = n
    <3>1. runs'[i] = q
      BY <1>7, <2>2
    <3>2. \A kind : kind # "nest" /\ ~q.failed /\ Passed(q, kind) => Passed(parent, kind)
      <4>1. DOMAIN parent.program \subseteq Nat /\ parent.at \in Nat
        BY <1>3, AtWork, ProgramsAssumption DEF Runs, AllPrograms
      <4> QED
        BY <1>6, <1>11, <4>1 DEF Passed
    <3> QED
      BY <1>1, <1>6, <1>11, <3>1, <3>2 DEF Sound, Passed, Seen, Clean
  <2> QED
    BY <2>1, <2>2
<1>13. StackInv'
  <2>1. \A i \in 2..n : runs'[i].program \in Bodies
    BY <1>1, <1>3, <1>8 DEF StackInv
  <2>2. \A i \in 1..(n - 1) : /\ runs'[i].at \in DOMAIN runs'[i].program
                              /\ runs'[i].program[runs'[i].at].kind = "nest"
    <3> TAKE i \in 1..(n - 1)
    <3>1. i \in 1..(Top - 1) /\ runs'[i] = runs[i]
      BY <1>3, <1>7
    <3> QED
      BY <1>1, <3>1 DEF StackInv
  <2> QED
    BY <1>7, <1>12, <2>1, <2>2 DEF StackInv
<1>14. ASSUME NEW x, NEW i \in 1..Top, Holds(i, x) PROVE \E k \in 1..n : Holds(k, x)'
  <2>1. CASE i >= n
    <3>1. x \in Range(parent.compensations) \/ x \in parent.created \/ x \in child.created
      BY <1>3, <1>14, <2>1 DEF Holds, parent, child
    <3>2. n = 1 => x \in Range(parent.compensations) \/ x \in child.created
      BY <1>3, <1>14, <2>1 DEF Holds, parent, child
    <3>3. n # 1 => x \in parent.created \/ x \in child.created
      BY <1>3, <1>14, <2>1 DEF Holds, parent, child
    <3> QED
      BY <1>3, <1>6, <1>7, <3>2, <3>3 DEF Holds
  <2>2. CASE i < n
    BY <1>3, <1>7, <1>14, <2>2 DEF Holds
  <2> QED
    BY <1>3, <2>1, <2>2
<1>15. KnownInv'
  <2>1. \A x \in known : x = "file" \/ x \in RigCollection \/ \E i \in 1..n : Holds(i, x)'
    BY <1>1, <1>14 DEF KnownInv
  <2>2. q.created \subseteq known
    BY <1>1, <1>3, <1>6 DEF KnownInv, parent, child
  <2>3. \A i \in 1..n : runs'[i].created \subseteq known
    BY <1>1, <1>3, <1>7, <2>2 DEF KnownInv
  <2> QED
    BY <1>1, <1>7, <1>9, <2>1, <2>3 DEF KnownInv, Holds
<1> QED
  BY <1>1, <1>10, <1>13, <1>15 DEF WorkflowInv, CompleteRollbackLeavesNothingKnown,
     ReportedEntitiesExist

LEMMA FinishKeeps == ASSUME WorkflowInv, Finish PROVE WorkflowInv'
<1>1. /\ TypeInv /\ StackInv /\ KnownInv /\ FileInv /\ phase = "running" /\ Top = 1
      /\ UNCHANGED <<runs, rollback, report, findings, scene, problems, profile, known>>
      /\ phase' = IF RollsBack THEN "rolling back" ELSE "done"
  BY DEF WorkflowInv, Finish, external
<1> Top = 1
  BY <1>1
<1> 1 \in 1..Top
  OBVIOUS
<1> \A i \in 1..Top : i = 1
  OBVIOUS
<1>2. \A x \in known : x = "file" \/ x \in RigCollection \/ x \in Range(runs[1].compensations)
  BY <1>1 DEF KnownInv, Holds
<1>3. runs[1].created \subseteq scene /\ Now = runs[1]
  BY <1>1 DEF KnownInv, Now
<1>4. TypeInv' /\ FileInv' /\ LeftInv'
  BY <1>1, <1>2 DEF TypeInv, FileInv, Clean, LeftInv, Top, RigCollection
<1>5. CompleteRollbackLeavesNothingKnown' /\ ReportedEntitiesExist'
  BY <1>1, <1>3 DEF CompleteRollbackLeavesNothingKnown, ReportedEntitiesExist, RollsBack, Now, Top
<1>6. phase' # "running"
  BY <1>1
<1> QED
  BY <1>4, <1>5, <1>6 DEF WorkflowInv

LEMMA UndoingKeeps == ASSUME WorkflowInv, NEW success \in BOOLEAN, Undoing(success)
                      PROVE  WorkflowInv'
<1> DEFINE left == Now.compensations
           last == left[Len(left)]
           less == SubSeq(left, 1, Len(left) - 1)
           r == [Now EXCEPT !.compensations = less]
<1>1. /\ TypeInv /\ FileInv /\ LeftInv /\ phase = "rolling back" /\ left # <<>> /\ Top = 1
      /\ runs' = <<r>>
      /\ report' = IF success THEN [report EXCEPT !.undone = @ \cup {last}]
                              ELSE [report EXCEPT !.failed = @ \cup {last}]
      /\ scene' \in IF success THEN {scene \ {last}} ELSE {scene, scene \ {last}}
      /\ UNCHANGED <<rollback, phase, findings, problems, profile, known>>
  BY DEF WorkflowInv, Undoing, TypeInv
<1>2. Now \in Runs /\ left \in Seq(Things) /\ Now = runs[1]
  BY <1>1, AtWork DEF Runs, Now
<1>3. less \in Seq(Things) /\ \A x \in Range(left) : x = last \/ x \in Range(less)
  BY <1>1, <1>2, AllButTheLast
<1> HIDE DEF less
<1>4. r \in Runs /\ r.program = runs[1].program /\ r.compensations = less
  BY <1>2, <1>3 DEF Runs
<1> HIDE DEF r, last
<1>5. /\ runs' \in Seq(Runs) /\ runs' # <<>> /\ Top' = 1 /\ runs'[1] = r
      /\ RigCollection' = RigCollection
  <2>1. <<r>> \in Seq(Runs) /\ <<r>> # <<>> /\ Len(<<r>>) = 1 /\ <<r>>[1] = r
    BY <1>4
  <2>2. runs'[1] = r /\ Top' = 1
    BY <1>1, <2>1 DEF Top
  <2> QED
    BY <1>1, <1>4, <2>1, <2>2 DEF RigCollection
<1>6. TypeInv'
  BY <1>1, <1>5 DEF TypeInv
<1>7. FileInv'
  BY <1>1 DEF FileInv, Clean
<1>8. LeftInv'
  <2>1. /\ report.failed \subseteq report'.failed
        /\ success \/ last \in report'.failed
        /\ scene' \subseteq scene /\ (success => last \notin scene')
    BY <1>1 DEF TypeInv
  <2> QED
    BY <1>1, <1>2, <1>3, <1>4, <1>5, <2>1 DEF LeftInv
<1> QED
  BY <1>1, <1>6, <1>7, <1>8 DEF WorkflowInv, CompleteRollbackLeavesNothingKnown,
     ReportedEntitiesExist

LEMMA RolledBackKeeps == ASSUME WorkflowInv, RolledBack PROVE WorkflowInv'
<1> DEFINE r == [Now EXCEPT !.created = CreatedAtTheEnd(@)]
<1>1. /\ TypeInv /\ FileInv /\ LeftInv /\ Now.compensations = <<>> /\ Top = 1 /\ phase' = "done"
      /\ runs' = <<r>>
      /\ UNCHANGED <<rollback, report, findings, scene, problems, profile, known>>
  BY DEF WorkflowInv, RolledBack, TypeInv, external
<1>2. Now \in Runs /\ Now = runs[1]
  BY <1>1, AtWork DEF Now
<1>3. /\ r \in Runs /\ r.program = runs[1].program
      /\ Complete => r.created = {}
  BY <1>2 DEF Runs, CreatedAtTheEnd
<1> HIDE DEF r
<1>4. /\ runs' \in Seq(Runs) /\ runs' # <<>> /\ Top' = 1 /\ runs'[1] = r /\ Now' = r
      /\ RigCollection' = RigCollection
  <2>1. <<r>> \in Seq(Runs) /\ <<r>> # <<>> /\ Len(<<r>>) = 1 /\ <<r>>[1] = r
    BY <1>3
  <2>2. runs'[1] = r /\ Top' = 1
    BY <1>1, <2>1 DEF Top
  <2> QED
    BY <1>1, <1>3, <2>1, <2>2 DEF RigCollection, Now
<1>5. TypeInv' /\ FileInv'
  BY <1>1, <1>4 DEF TypeInv, FileInv, Clean
<1>6. ReportedEntitiesExist'
  BY <1>1, <1>3, <1>4 DEF ReportedEntitiesExist, Complete
<1>7. CompleteRollbackLeavesNothingKnown'
  <2>1. Range(runs[1].compensations) = {}
    BY <1>1, <1>2 DEF Range
  <2> QED
    BY <1>1, <1>4, <2>1 DEF LeftInv, Complete, CompleteRollbackLeavesNothingKnown
<1> QED
  BY <1>1, <1>5, <1>6, <1>7 DEF WorkflowInv

-----------------------------------------------------------------------------
(* The theorems *)

LEMMA WorkflowStart == Init => WorkflowInv
<1> SUFFICES ASSUME Init PROVE WorkflowInv
  OBVIOUS
<1>1. PICK p \in Programs : runs = <<NewRun(p)>>
  BY DEF Init
<1> DEFINE r == NewRun(p)
<1>2. r \in Runs /\ r.program = p /\ r.at = 1 /\ r.created = {} /\ r.failed = FALSE
  BY DEF NewRun, Runs, AllPrograms
<1>3. runs = <<r>>
  BY <1>1
<1> HIDE DEF r
<1>4. /\ runs \in Seq(Runs) /\ runs # <<>> /\ Top = 1 /\ runs[1] = r
  BY <1>2, <1>3 DEF Top
<1>5. /\ phase = "running" /\ scene = {} /\ known = {}
      /\ report = [undone |-> {}, failed |-> {}]
  BY DEF Init
<1>6. TypeInv /\ FileInv /\ KnownInv
  BY <1>2, <1>4, <1>5, FS_EmptySet DEF TypeInv, FileInv, KnownInv
<1>7. Sound(r)
  <2>1. p \in Seq(Range(p))
    BY ProgramsAssumption
  <2>2. DOMAIN p \subseteq Nat \ {0}
    BY <2>1
  <2> QED
    BY <1>2, <2>2 DEF Sound, Passed
<1>8. StackInv
  BY <1>4, <1>7 DEF StackInv
<1> QED
  BY <1>5, <1>6, <1>8 DEF WorkflowInv, CompleteRollbackLeavesNothingKnown, ReportedEntitiesExist

LEMMA WorkflowStep == WorkflowInv /\ [Next]_vars => WorkflowInv'
<1> SUFFICES ASSUME WorkflowInv, [Next]_vars PROVE WorkflowInv'
  OBVIOUS
<1>1. CASE UNCHANGED vars
  BY <1>1 DEF vars, WorkflowInv, TypeInv, FileInv, StackInv, KnownInv, LeftInv, Clean, Seen, Sound,
     Passed, Holds, Top, Now, RigCollection, CompleteRollbackLeavesNothingKnown,
     ReportedEntitiesExist, Complete
<1>2. CASE Next
  BY <1>2, SkipKeeps, AnsweredKeeps, AnsweredWithoutIdKeeps, CallFailsKeeps, ComputeKeeps, ListKeeps,
     EnterKeeps, LeaveKeeps, FinishKeeps, UndoingKeeps, RolledBackKeeps DEF Next
<1> QED
  BY <1>1, <1>2

LEMMA WorkflowInvariant == Spec => []WorkflowInv
BY WorkflowStart, WorkflowStep, PTL DEF Spec

\* A rollback that calls itself complete leaves nothing the workflow was given the id of,
\* but for a file and the collection of a nested rig, for any workflows and however deep
\* they run one another, whatever is refused, lost or answered without an id.
THEOREM CleanRollbacksAreClean == Spec => []CompleteRollbackLeavesNothingKnown
<1>1. WorkflowInv => CompleteRollbackLeavesNothingKnown
  BY DEF WorkflowInv
<1> QED
  BY <1>1, WorkflowInvariant, PTL

\* What a report lists is there, unless its rollback says that something failed.
THEOREM ReportsAreTrue == Spec => []ReportedEntitiesExist
<1>1. WorkflowInv => ReportedEntitiesExist
  BY DEF WorkflowInv
<1> QED
  BY <1>1, WorkflowInvariant, PTL

\* No file is written from meshes a check should have held back, but for the influences
\* that nobody counts.
THEOREM ExportsAreChecked == Spec => []ExportedFilesPassedTheChecks
<1>1. WorkflowInv => ExportedFilesPassedTheChecks
  BY DEF WorkflowInv, FileInv, Clean, ExportedFilesPassedTheChecks
<1> QED
  BY <1>1, WorkflowInvariant, PTL

\* Nothing is made for a run that has failed, but by a run it still enters.
THEOREM FailuresStopTheMaking == Spec => NothingIsMadeAfterAFailure
<1>1. ASSUME WorkflowInv, [Next]_vars
      PROVE  [runs[1].failed /\ ~(scene' \subseteq scene) => Top > 1]_vars
  <2> SUFFICES ASSUME Next, runs[1].failed, ~(scene' \subseteq scene) PROVE Top > 1
    BY <1>1 DEF vars
  <2>1. Top \in Nat \ {0}
    BY <1>1, AtWork DEF WorkflowInv
  <2>2. Answered \/ AnsweredWithoutId \/ CallFails
    BY DEF Next, Skip, Compute, List, Enter, Leave, Finish, Undoing, RolledBack, external
  <2>3. ~Now.failed
    BY <2>2 DEF Answered, AnsweredWithoutId, CallFails, Asks
  <2> QED
    BY <2>1, <2>3 DEF Now
<1> QED
  BY <1>1, WorkflowInvariant, PTL DEF Spec, NothingIsMadeAfterAFailure
=============================================================================
