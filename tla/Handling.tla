------------------------------ MODULE Handling ------------------------------
(***************************************************************************)
(* One tool call from end to end, for whatever table of tools: the server  *)
(* decodes and validates the arguments and forwards what passes            *)
(* (mcp-server registry), the add-on's dispatcher runs the handler and     *)
(* turns whatever it raises into an error answer (dispatcher.py), with the *)
(* try blocks that are open unwound on the way out.                        *)
(***************************************************************************)
EXTENDS Steps, Naturals, Functions

CONSTANTS
  Operations,      \* the tools: a set of what Tool of Steps makes
  FoundLate,       \* << tool, fault >>: what is refused when something has been written
  NotGivenBack,    \* the tools that may leave what is the user's changed
  LeftToTheEvent,  \* the tools that leave the revision to the event that follows
  LooksAgain,      \* the tools that look for what they made when they have advanced it
  ReadsThatWrite   \* the tools registered as reads that are none

NoFault == "none"  \* a request with nothing wrong in it

\* A run is a finite sequence of steps.
ASSUME TableAssumption ==
  \A t \in Operations : \A r \in t.runs : r \in Seq({ r[i] : i \in DOMAIN r })

VARIABLES
  tool,      \* the tool called
  fault,     \* the argument the caller got wrong
  run,       \* the way this request takes through the handler
  at,        \* the step it has come to
  open,      \* the try blocks entered and not left, the innermost first
  wrote,     \* what it has changed in the file
  borrowed,  \* what it has changed that is the user's
  bumped,    \* whether it has advanced the revision
  outcome    \* "pending" while the call is under way, then what becomes of it

vars == << tool, fault, run, at, open, wrote, borrowed, bumped, outcome >>

StepsThat(r, do) == { i \in DOMAIN r : r[i].do = do }
FaultsOf(t) == t.refused \cup UNION { UNION { r[i].what : i \in StepsThat(r, "needs") } : r \in t.runs }

Names == { t.op : t \in Operations }
ToolNamed == [n \in Names |-> CHOOSE t \in Operations : t.op = n]

Outcomes == {"pending", "refused", "argument", "document", "blender", "ok"}

Here(do) == outcome = "pending" /\ at \in DOMAIN run /\ run[at].do = do
What == run[at].what

Init == /\ tool \in Names
        /\ fault \in FaultsOf(ToolNamed[tool]) \cup {NoFault}
        /\ run = << >> /\ at = 0 /\ open = << >> /\ wrote = {} /\ borrowed = {} /\ bumped = FALSE
        /\ outcome = "pending"

\* decode, validate: what does not pass is never sent.
Refuse == /\ at = 0 /\ outcome = "pending"
          /\ fault \in ToolNamed[tool].refused
          /\ outcome' = "refused"
          /\ UNCHANGED << tool, fault, run, at, open, wrote, borrowed, bumped >>

\* call_typed, and the dispatcher finding the handler.
Forward == /\ at = 0 /\ outcome = "pending"
           /\ fault \notin ToolNamed[tool].refused
           /\ \E r \in ToolNamed[tool].runs : run' = r
           /\ at' = 1
           /\ UNCHANGED << tool, fault, open, wrote, borrowed, bumped, outcome >>

Passes == at' = at + 1 /\ UNCHANGED outcome
Raises(error) == outcome' = error /\ UNCHANGED at

\* A helper of _common.py looks at arguments; the one that is wrong is refused.
Check == /\ Here("needs")
         /\ IF fault \in What THEN Raises("argument") ELSE Passes
         /\ UNCHANGED << tool, fault, run, open, wrote, borrowed, bumped >>

\* Whether the file has it, only the file knows.
Find == /\ Here("finds")
        /\ Passes \/ Raises("document")
        /\ UNCHANGED << tool, fault, run, open, wrote, borrowed, bumped >>

\* The form is one the handler does not know, whatever the value.
Misread == /\ Here("misreads") /\ Raises("argument")
           /\ UNCHANGED << tool, fault, run, open, wrote, borrowed, bumped >>

AskBlender == /\ Here("blender")
              /\ Passes \/ Raises("blender")
              /\ UNCHANGED << tool, fault, run, open, wrote, borrowed, bumped >>

ChangeFile == /\ Here("writes") /\ Passes
              /\ wrote' = wrote \cup What
              /\ UNCHANGED << tool, fault, run, open, borrowed, bumped >>

Bump == /\ Here("bumps") /\ Passes
        /\ bumped' = TRUE
        /\ UNCHANGED << tool, fault, run, open, wrote, borrowed >>

Borrow == /\ Here("borrows") /\ Passes
          /\ borrowed' = borrowed \cup What
          /\ UNCHANGED << tool, fault, run, open, wrote, bumped >>

\* try:
Enter == /\ Here("guard") /\ Passes
         /\ open' = << run[at] >> \o open
         /\ UNCHANGED << tool, fault, run, wrote, borrowed, bumped >>

\* The end of the block, and its finally.
Leave == /\ Here("release") /\ Passes
         /\ open' = Tail(open)
         /\ borrowed' = borrowed \ What
         /\ UNCHANGED << tool, fault, run, wrote, bumped >>

\* An error passes through a finally.
Unwind == /\ outcome \in {"argument", "document", "blender"} /\ open # << >>
          /\ open' = Tail(open)
          /\ borrowed' = borrowed \ Head(open).what
          /\ UNCHANGED << tool, fault, run, at, wrote, bumped, outcome >>

\* The handler returns.
Return == /\ outcome = "pending" /\ at = Len(run) + 1 /\ at > 0
          /\ outcome' = "ok"
          /\ UNCHANGED << tool, fault, run, at, open, wrote, borrowed, bumped >>

Next == \/ Refuse \/ Forward
        \/ Check \/ Misread \/ Find \/ AskBlender \/ ChangeFile \/ Bump \/ Borrow
        \/ Enter \/ Leave \/ Unwind \/ Return

Spec == Init /\ [][Next]_vars

\* The answer is on its way: nothing more will happen in the handler.
Answered == outcome # "pending" /\ open = << >>

-----------------------------------------------------------------------------
Kind == ToolNamed[tool].kind

\* Whatever argument is wrong, it is the server or the handler's first lines
\* that say so: a caller who is told to correct an argument finds the file as
\* it was, and can call again.  The exceptions are known.  (The server's
\* validate and the order of each handler, together.)
ArgumentErrorsWriteNothing ==
  Answered /\ outcome = "argument" => wrote = {} \/ << tool, fault >> \in FoundLate

\* However a call ends, the mode, the selection, the cursor, the frame and the
\* settings the handler changed to do its work are the user's again.
\* (object_mode and the finally blocks, under every failure inside them.)
UserGetsBack == Answered => borrowed = {} \/ tool \in NotGivenBack

\* A caller that asks for what changed since its revision sees every call that
\* succeeded, and a call that failed does not move the revision, whatever it
\* left behind, but where a tool that looks again for what it made does not find it.
\* (ctx.bump of every handler.)
RevisionTellsOfSuccess ==
  /\ Answered /\ outcome = "ok" /\ Kind = "WRITE" /\ wrote # {} =>
       bumped \/ tool \in LeftToTheEvent
  /\ Answered /\ outcome # "ok" => ~bumped \/ (outcome = "document" /\ tool \in LooksAgain)

\* What is announced to the client as read-only, and kept out of an undo step,
\* changes nothing in the file, finished or failed.
ReadsWriteNothing == Kind = "READ" => wrote = {} \/ tool \in ReadsThatWrite

\* A request with nothing wrong in it is not told that something is: what the
\* server lets through, in the form it sends it, the handler understands.
\* tools/io.rs:51 "Export the scene, the selection, named objects or a
\* collection."  (serde's form of an argument against the handler's reading.)
SoundRequestsPass == Answered /\ fault = NoFault => outcome # "argument"

-----------------------------------------------------------------------------
(* How handlers are written: what the properties above need of a row of the  *)
(* table, read off its steps without running them.                           *)

WroteBefore(r, i) == \E j \in StepsThat(r, "writes") : j < i
CheckedBefore(r, i, f) == \E j \in StepsThat(r, "needs") : j < i /\ f \in r[j].what
BumpedBefore(r, i) == \E j \in StepsThat(r, "bumps") : j < i

\* The try blocks that are open after the first i steps, the innermost first.
AfterStep(blocks, step) ==
  CASE step.do = "guard"   -> << step >> \o blocks
    [] step.do = "release" -> Tail(blocks)
    [] OTHER               -> blocks

BlocksOf(r) ==
  LET blocks[i \in 0 .. Len(r)] == IF i = 0 THEN << >> ELSE AfterStep(blocks[i - 1], r[i])
  IN  blocks

BlocksAt(r, i) == BlocksOf(r)[i - 1]

\* An argument is looked at for the first time before anything is written.
ChecksComeFirst(t, r) ==
  \A i \in DOMAIN r : WroteBefore(r, i) =>
    /\ r[i].do # "misreads"
    /\ r[i].do = "needs" => \A f \in r[i].what \ t.refused :
         CheckedBefore(r, i, f) \/ << t.op, f >> \in FoundLate

\* What is borrowed is what a block around it gives back, whichever way it is left.
BorrowsInBlocks(r) ==
  /\ \A i \in StepsThat(r, "borrows") : r[i].what \subseteq UNION { b.what : b \in Range(BlocksAt(r, i)) }
  /\ \A i \in StepsThat(r, "release") : BlocksAt(r, i) # << >> /\ Head(BlocksAt(r, i)).what \subseteq r[i].what

\* The revision is advanced by a handler that writes, and when nothing can fail any more:
\* a handler that looks again for what it made is the exception.
BumpsAtTheEnd(t, r) ==
  /\ t.kind = "WRITE" /\ StepsThat(r, "writes") # {} =>
       StepsThat(r, "bumps") # {} \/ t.op \in LeftToTheEvent
  /\ \A i \in DOMAIN r : BumpedBefore(r, i) =>
       /\ r[i].do \notin {"blender", "misreads"}
       /\ r[i].do = "finds" => t.op \in LooksAgain
       /\ r[i].do = "needs" => \A f \in r[i].what \ t.refused : CheckedBefore(r, i, f)

\* Every handler is written as the four properties need it: it looks at an argument for
\* the first time before it writes, borrows what is the user's inside a try whose finally
\* gives it back, advances the revision once nothing can fail any more, and reads if it is
\* a read, with the exceptions known.  (operations/, handler by handler; nothing in the
\* dispatcher makes them so.)
HandlerIsInOrder == at # 0 =>
  /\ ChecksComeFirst(ToolNamed[tool], run)
  /\ BorrowsInBlocks(run) \/ tool \in NotGivenBack
  /\ BumpsAtTheEnd(ToolNamed[tool], run)
  /\ Kind = "READ" /\ StepsThat(run, "writes") # {} => tool \in ReadsThatWrite
=============================================================================
