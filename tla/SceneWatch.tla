----------------------------- MODULE SceneWatch -----------------------------
(***************************************************************************)
(* The add-on's watch over the scene (events.py) and what a caller of      *)
(* scene.diff learns from it.  The user works; after an update of the      *)
(* dependency graph the add-on compares the scene with what it last saw    *)
(* and reports the differences; the server keeps the reports and folds     *)
(* those since the caller's snapshot.  Here no report is lost on the way:  *)
(* SceneFeed is about that.                                                *)
(*                                                                         *)
(* The model is of one session.  Nothing is reported outside one, and what *)
(* the watch last saw stays: a session begins with any baseline, the empty *)
(* one of a new add-on or a stale one of an earlier session.               *)
(***************************************************************************)
EXTENDS SceneDiff

CONSTANTS
  Objects,        \* the objects there may be
  Ids,            \* the values of mcp_id
  NameCount,      \* bound: the names, numbered as Blender lists the objects that have them
  SnapshotLimit,  \* SNAPSHOT_LIMIT
  MaxChanges,     \* bound: the reports after a snapshot
  MaxWork         \* bound: the user's steps between two updates

VARIABLES
  objects,    \* bpy.data.objects: the name and the mcp_id of each
  used,       \* the ids handed out so far
  selected,   \* the selected objects
  moved,      \* objects with a transform update not yet reported
  reshaped,   \* objects with a geometry update not yet reported
  work,       \* the steps since the last update
  snapshot,   \* _OBJECT_SNAPSHOT: names by id
  selection,  \* _SELECTION, as ids
  changes,    \* what the session's events have reported since the caller's snapshot
  mark        \* history: the scene of that snapshot, and the meshes edited after it

userVars   == <<objects, used, selected, moved, reshaped, work>>
reportVars == <<snapshot, selection, changes>>
vars       == <<userVars, reportVars, mark>>

Names == 1 .. NameCount

\* Names are unique in Blender.  Ids need not be: a user's copy of an object has its
\* custom properties, mcp_id among them, and an object of the user's has none at first.
Scenes ==
  {f \in UNION {[D -> [name : Names, id : Ids \cup {None}]] : D \in SUBSET Objects} :
     \A o, p \in DOMAIN f : f[o].name = f[p].name => o = p}

Small(f) == Cardinality(DOMAIN f) <= SnapshotLimit

Bearers(f, i) == {o \in DOMAIN f : f[o].id = i}

\* The ids of the objects in S, and those of all.
IdsOf(f, S) == {f[o].id : o \in S} \ {None}
IdsIn(f)    == IdsOf(f, DOMAIN f)

\* _snapshot_objects: of the objects with one id, the last one listed is in it.
Seen(f) == [i \in IdsIn(f) |-> Max({f[o].name : o \in Bearers(f, i)})]

\* What the watch compares with after it has looked.
Baseline(f) == IF Small(f) THEN Seen(f) ELSE <<>>

Marks == [objects : Scenes, selected : SUBSET Ids, reshaped : SUBSET Objects]

\* There are finitely many ids, and None is neither an id, a selection nor a snapshot.
ASSUME WatchAssumption ==
  /\ IsFiniteSet(Ids) /\ None \notin Ids
  /\ NameCount \in Nat /\ SnapshotLimit \in Nat /\ MaxChanges \in Nat /\ MaxWork \in Nat
  /\ \A S \in SUBSET Ids : S # None
  /\ None \notin Marks

TypeOK ==
  /\ objects \in Scenes
  /\ IdsIn(objects) \cup DOMAIN snapshot \subseteq used /\ used \subseteq Ids
  /\ selected \subseteq DOMAIN objects
  /\ moved \subseteq DOMAIN objects /\ reshaped \subseteq DOMAIN objects
  /\ work \in 0 .. MaxWork
  /\ snapshot \in [DOMAIN snapshot -> Names]
  /\ selection \subseteq Ids
  /\ Len(changes) <= MaxChanges
  /\ mark \in Marks \cup {None}
  /\ mark = None => changes = <<>>

Init ==
  /\ objects \in Scenes
  /\ snapshot \in {Baseline(f) : f \in Scenes}
  /\ used = IdsIn(objects) \cup DOMAIN snapshot
  /\ selected \in SUBSET DOMAIN objects
  /\ moved = {} /\ reshaped = {} /\ work = 0
  /\ selection \in SUBSET DOMAIN snapshot
  /\ changes = <<>>
  /\ mark = None

-----------------------------------------------------------------------------
(* The user *)

Works == work < MaxWork /\ work' = work + 1

Taken(n) == \E o \in DOMAIN objects : objects[o].name = n

Appears(o, n, i) ==
  /\ Works
  /\ o \notin DOMAIN objects /\ ~Taken(n)
  /\ objects' = With(objects, o, [name |-> n, id |-> i])
  /\ UNCHANGED <<used, selected, moved, reshaped, reportVars, mark>>

Create(o, n) == Appears(o, n, None)

\* Shift-D: the copy keeps the original's mcp_id, if that has one.
Copy(o, p, n) == o \in DOMAIN objects /\ Appears(p, n, objects[o].id)

Delete(o) ==
  /\ Works
  /\ o \in DOMAIN objects
  /\ objects' = Without(objects, o)
  /\ selected' = selected \ {o}
  /\ moved' = moved \ {o}
  /\ reshaped' = reshaped \ {o}
  /\ mark' = IF mark = None THEN None ELSE [mark EXCEPT !.reshaped = @ \ {o}]
  /\ UNCHANGED <<used, reportVars>>

Rename(o, n) ==
  /\ Works
  /\ o \in DOMAIN objects
  /\ ~Taken(n)
  /\ objects' = [objects EXCEPT ![o].name = n]
  /\ UNCHANGED <<used, selected, moved, reshaped, reportVars, mark>>

Move(o) ==
  /\ Works
  /\ o \in DOMAIN objects
  /\ moved' = moved \cup {o}
  /\ UNCHANGED <<objects, used, selected, reshaped, reportVars, mark>>

\* The history is of edits to objects that have an id to be known by.
Reshape(o) ==
  /\ Works
  /\ o \in DOMAIN objects
  /\ reshaped' = reshaped \cup {o}
  /\ mark' = IF mark = None \/ objects[o].id = None THEN mark
                ELSE [mark EXCEPT !.reshaped = @ \cup {o}]
  /\ UNCHANGED <<objects, used, selected, moved, reportVars>>

Select(S) ==
  /\ Works
  /\ S # selected
  /\ selected' = S
  /\ UNCHANGED <<objects, used, moved, reshaped, reportVars, mark>>

-----------------------------------------------------------------------------
(* The add-on *)

\* A list of reports in some order: those of one call are about different objects.
Reports(S) == SetToSeq(S)

Appeared(f) == {[change |-> "created", id |-> i, name |-> Seen(f)[i]] :
                  i \in IdsIn(f) \ DOMAIN snapshot}
Renamed(f)  == {[change |-> "renamed", id |-> i, from |-> snapshot[i], to |-> Seen(f)[i]] :
                  i \in {j \in IdsIn(f) \cap DOMAIN snapshot : snapshot[j] # Seen(f)[j]}}
Vanished(f) == {[change |-> "deleted", id |-> i] : i \in DOMAIN snapshot \ IdsIn(f)}

\* What the session's record holds after the caller's snapshot, with new reports at its end.
Since(reports) == IF mark = None THEN <<>> ELSE changes \o reports

\* _report_structural_changes
Structural(f) ==
  IF Small(f)
    THEN Reports(Appeared(f) \cup Renamed(f)) \o Reports(Vanished(f))
    ELSE IF snapshot # <<>> THEN <<[change |-> "reset"]>> ELSE <<>>

MeshReports(S)  == Reports({[change |-> "mesh", id |-> i] : i \in S})
MovedReports(S) == Reports({[change |-> "modified", id |-> i] : i \in S})

\* Mutant: an object is reported under one aspect only.
UpdatesEither(f) == MovedReports(IdsOf(f, moved)) \o MeshReports(IdsOf(f, reshaped \ moved))

\* _report_datablock_updates: an object without an id is passed over (peek_id).
Updates(f) == MeshReports(IdsOf(f, reshaped)) \o MovedReports(IdsOf(f, moved))

\* _report_selection
Selection(f) ==
  IF IdsOf(f, selected) # selection
    THEN <<[change |-> "selection", selected |-> IdsOf(f, selected)]>> ELSE <<>>

\* ensure_id: who will have been given an id at the end of an update, and which.  In a
\* scene small enough all have one before their updates are reported; in another only
\* the selected ones, after that.
Unidentified == {o \in IF Small(objects) THEN DOMAIN objects ELSE selected : objects[o].id = None}
NewIds       == {new \in [Unidentified -> Ids \ used] : IsInjective(new)}
Ensured(new) ==
  [o \in DOMAIN objects |->
     IF o \in DOMAIN new THEN [objects[o] EXCEPT !.id = new[o]] ELSE objects[o]]

\* on_depsgraph_update
Tick(new) ==
  /\ objects' = Ensured(new)
  /\ used' = used \cup IdsIn(objects')
  /\ moved' = {} /\ reshaped' = {} /\ work' = 0
  /\ changes' = Since(Structural(objects') \o Updates(IF Small(objects) THEN objects' ELSE objects)
                        \o Selection(objects'))
  /\ snapshot' = Baseline(objects')
  /\ selection' = IdsOf(objects', selected)
  /\ Len(changes') <= MaxChanges
  /\ UNCHANGED <<selected, mark>>

\* Any scene may take the place of this one; reset gives ids as an update does.
NewScenes ==
  {r \in [objects : Scenes, selected : SUBSET Objects] :
     /\ r.selected \subseteq DOMAIN r.objects
     /\ \A o \in IF Small(r.objects) THEN DOMAIN r.objects ELSE r.selected : r.objects[o].id # None}

Replaced(r) ==
  /\ objects' = r.objects /\ selected' = r.selected
  /\ used' = used \cup IdsIn(r.objects)
  /\ work' = 0
  /\ snapshot' = Baseline(r.objects)
  /\ selection' = {}   \* reset drops what _capture_selection returns
  /\ mark' = IF mark = None THEN None ELSE [mark EXCEPT !.reshaped = {}]

\* Mutant: updates of the old file are still pending in the new one.
ReloadKeepsUpdates(r) ==
  /\ Replaced(r)
  /\ changes' = Since(<<[change |-> "reset"]>>)
  /\ Len(changes') <= MaxChanges
  /\ UNCHANGED <<moved, reshaped>>

\* Mutant: the new scene becomes the baseline and nobody is told.
ReloadUnannounced(r) ==
  /\ Replaced(r)
  /\ moved' = {} /\ reshaped' = {}
  /\ UNCHANGED changes

\* on_load_post and on_undo_redo
Reload(r) ==
  /\ Replaced(r)
  /\ moved' = {} /\ reshaped' = {}
  /\ changes' = Since(<<[change |-> "reset"]>>)
  /\ Len(changes') <= MaxChanges

-----------------------------------------------------------------------------
(* The caller *)

\* The add-on has reported everything it is going to.
Reported ==
  /\ work = 0   \* an update has followed the user's last step
  /\ moved = {} /\ reshaped = {}
  /\ Unidentified = {}
  /\ snapshot = Baseline(objects)
  /\ selection = IdsOf(objects, selected)

\* The caller has a snapshot, and neither the scene then nor that now is too big to watch.
Watched == mark # None /\ Reported /\ Small(mark.objects) /\ Small(objects)

\* scene.snapshot, in a session that has begun.
Snapshot ==
  /\ Reported
  /\ mark = None
  /\ mark' = [objects |-> objects, selected |-> IdsOf(objects, selected), reshaped |-> {}]
  /\ UNCHANGED <<userVars, reportVars>>

-----------------------------------------------------------------------------
Next ==
  \/ \E o \in Objects : Delete(o) \/ Move(o) \/ Reshape(o)
  \/ \E o \in Objects, n \in Names : Create(o, n) \/ Rename(o, n)
  \/ \E o, p \in Objects, n \in Names : Copy(o, p, n)
  \/ \E S \in SUBSET DOMAIN objects : Select(S)
  \/ \E r \in NewScenes : Reload(r)
  \/ \E new \in NewIds : Tick(new)
  \/ Snapshot

Spec == Init /\ [][Next]_vars

-----------------------------------------------------------------------------
(* Properties *)

Diff == DiffOf(changes)

\* The names of the objects with id i.
NamesOf(f, i) == {f[o].name : o \in Bearers(f, i)}

\* The diff d says how the scene came from the one then to the one now.
IsDifference(d, then, now) ==
  /\ DOMAIN d.created = IdsIn(now) \ IdsIn(then)
  /\ \A i \in DOMAIN d.created : d.created[i] \in NamesOf(now, i)
  /\ d.deleted = IdsIn(then) \ IdsIn(now)
  /\ \A i \in IdsIn(then) \cap IdsIn(now) :
       NamesOf(then, i) \cap NamesOf(now, i) = {} => i \in DOMAIN d.modified
  /\ \A i \in DOMAIN d.modified \cap IdsIn(now) :
       d.modified[i].name \in {None} \cup NamesOf(now, i)

(* Unless it says reset, a diff is the exact difference between the scene of the
   caller's snapshot and the scene now, however often an object was created, renamed,
   renamed back or deleted on the way (diff.rs, fold; events.py,
   _report_structural_changes): the ids that appeared, each under a name of now, those
   that went away, and those whose object has another name.  Objects that share an id
   are one to it: a user's copy of an object that has an id does not appear by this,
   the original that goes away does not as long as the copy is there, and a name is
   that of either. *)
DiffIsTheDifference ==
  Watched => Diff.reset \/ IsDifference(Diff, mark.objects, objects)

(* A mesh that was edited after the caller's snapshot is named as stale by the id of its
   object, unless the object is gone: its indices must not be trusted (diff.rs,
   MeshInvalidated). *)
StaleMeshesAreNamed ==
  (mark # None /\ Reported) =>
    Diff.reset \/ IdsOf(objects, mark.reshaped) \subseteq Diff.meshes

(* Unless it says reset, a diff gives the ids of the selection of now, or none if they
   are the snapshot's (diff.rs, SelectionChanged). *)
SelectionFollows ==
  (mark # None /\ Reported) =>
    Diff.reset \/ IdsOf(objects, selected) =
                    (IF Diff.selection = None THEN mark.selected ELSE Diff.selection)

-----------------------------------------------------------------------------
(* What the documentation says and the code does not do *)

(* events.py says that above the limit a coarse invalidation is sent instead of the
   differences: then a diff over a change to which objects there are says reset. *)
BigScenesAreSuspect ==
  (mark # None /\ Reported /\ ~Small(objects)) =>
    Diff.reset \/ DOMAIN objects = DOMAIN mark.objects
=============================================================================
