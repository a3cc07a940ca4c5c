---------------------------- MODULE Transaction -----------------------------
(***************************************************************************)
(* Undo-backed transactions in the add-on (operations/transaction.py) on   *)
(* Blender's undo stack.  The stack holds the scenes that were pushed, and *)
(* its top stands for the present one: an undo restores the scene below    *)
(* the top, whatever has been done since the top was pushed.               *)
(***************************************************************************)
EXTENDS Naturals, Sequences

CONSTANTS
  None,          \* no transaction is open
  UndoAvailable  \* _undo_available: Blender has a window, and so an undo stack

ASSUME UndoAssumption == UndoAvailable \in BOOLEAN

VARIABLES
  scene,  \* the set of effects in the scene
  undo,   \* external: the scenes on Blender's undo stack
  owner,  \* _ACTIVE: who opened the transaction, or None
  steps,  \* _ACTIVE["steps"]
  start   \* history: the scene the open transaction began with

transactionVars == <<scene, undo, owner, steps, start>>

-----------------------------------------------------------------------------
UndoPush(now) == undo' = Append(undo, now)

\* Mutant: begin does not look for an open transaction.
BeginOver(b, ok) ==
  /\ ok = UndoAvailable
  /\ ok
  /\ UndoPush(scene)
  /\ owner' = b
  /\ steps' = 0
  /\ start' = scene
  /\ UNCHANGED scene

\* begin: refused without an undo stack and while a transaction is open.
Begin(b, ok) ==
  /\ ok = (UndoAvailable /\ owner = None)
  /\ IF ok
     THEN /\ UndoPush(scene)
          /\ owner' = b
          /\ steps' = 0
          /\ start' = scene
     ELSE UNCHANGED <<undo, owner, steps, start>>
  /\ UNCHANGED scene

\* step: a boundary after one operation, in whatever transaction is open.
Mark(now) ==
  IF owner = None THEN UNCHANGED <<undo, steps>>
                  ELSE UndoPush(now) /\ steps' = steps + 1

Step(ok) ==
  /\ ok = (owner # None)
  /\ Mark(scene)
  /\ UNCHANGED <<scene, owner, start>>

Commit(ok) ==
  /\ ok = (owner # None)
  /\ owner' = None
  /\ UNCHANGED <<scene, undo, steps, start>>

\* Mutant: one undo for each step.
UndosOfSteps == steps

\* How often a rollback undoes: once for each step, and once for the boundary
\* that begin pushed.
Undos == steps + 1

\* rollback: it gives up at the bottom of the stack, and the transaction is over
\* either way.
Rollback(ok) ==
  LET below  == Len(undo) - 1
      undone == IF below < Undos THEN below ELSE Undos
  IN  IF owner = None
      THEN ok = FALSE /\ UNCHANGED transactionVars
      ELSE /\ ok = (undone = Undos)
           /\ scene' = IF undone = 0 THEN scene ELSE undo[Len(undo) - undone]
           /\ undo' = SubSeq(undo, 1, Len(undo) - undone)
           /\ owner' = None
           /\ UNCHANGED <<steps, start>>

-----------------------------------------------------------------------------
(* External: the user at work in Blender; Blender pushes after each action. *)

UserEdits(effect) ==
  /\ scene' = scene \cup {effect}
  /\ UndoPush(scene')
  /\ UNCHANGED <<owner, steps, start>>

UserUndoes ==
  /\ Len(undo) > 1
  /\ scene' = undo[Len(undo) - 1]
  /\ undo' = SubSeq(undo, 1, Len(undo) - 1)
  /\ UNCHANGED <<owner, steps, start>>

TransactionInit ==
  /\ scene = {}
  /\ undo = <<{}>>
  /\ owner = None
  /\ steps = 0
  /\ start = {}
=============================================================================
