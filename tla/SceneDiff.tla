----------------------------- MODULE SceneDiff ------------------------------
(***************************************************************************)
(* The folding of a sequence of changes into the answer to scene.diff      *)
(* (scene-cache/src/diff.rs).  An entity map is a function from the ids in *)
(* it; node trees and the kinds of entities are left out, and of a         *)
(* modification's aspects only the name is told apart from the rest.       *)
(***************************************************************************)
EXTENDS SequencesExt

CONSTANT None   \* an absent name or selection

EmptyDiff ==
  [created |-> <<>>, modified |-> <<>>, deleted |-> {}, meshes |-> {},
   selection |-> None, reset |-> FALSE]

With(f, id, x) == [k \in DOMAIN f \cup {id} |-> IF k = id THEN x ELSE f[k]]

Without(f, id) == Restrict(f, DOMAIN f \ {id})

IfReset(d) ==
  [d EXCEPT !.created = <<>>, !.modified = <<>>, !.deleted = {}, !.meshes = {}, !.reset = TRUE]

IfCreated(d, c) ==
  [d EXCEPT !.deleted = @ \ {c.id}, !.created = With(@, c.id, c.name)]

\* Mutant: the entity is reported as deleted even if it was created in the range.
IfDeletedAlways(d, c) ==
  [d EXCEPT !.created = Without(@, c.id), !.modified = Without(@, c.id),
            !.meshes = @ \ {c.id}, !.deleted = @ \cup {c.id}]

IfDeleted(d, c) ==
  [d EXCEPT !.created = Without(@, c.id), !.modified = Without(@, c.id),
            !.meshes = @ \ {c.id},
            !.deleted = IF c.id \in DOMAIN d.created THEN @ ELSE @ \cup {c.id}]

\* A rename of an entity that is already in modified keeps that entry's previous name.
IfRenamed(d, c) ==
  IF c.id \in DOMAIN d.created
    THEN [d EXCEPT !.created[c.id] = c.to]
    ELSE LET entry == IF c.id \in DOMAIN d.modified
                        THEN [d.modified[c.id] EXCEPT !.name = c.to]
                        ELSE [name |-> c.to, previous |-> c.from]
         IN  [d EXCEPT !.modified = With(@, c.id, entry)]

IfModified(d, c) ==
  IF c.id \in DOMAIN d.created \cup DOMAIN d.modified
    THEN d
    ELSE [d EXCEPT !.modified = With(@, c.id, [name |-> None, previous |-> None])]

FoldStep(d, c) ==
  CASE c.change = "reset"     -> IfReset(d)
    [] c.change = "created"   -> IfCreated(d, c)
    [] c.change = "deleted"   -> IfDeleted(d, c)
    [] c.change = "renamed"   -> IfRenamed(d, c)
    [] c.change = "modified"  -> IfModified(d, c)
    [] c.change = "mesh"      -> [d EXCEPT !.meshes = @ \cup {c.id}]
    [] c.change = "selection" -> [d EXCEPT !.selection = c.selected]

DiffOf(changes) == FoldLeft(FoldStep, EmptyDiff, changes)
=============================================================================
