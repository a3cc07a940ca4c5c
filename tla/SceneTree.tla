----------------------------- MODULE SceneTree ------------------------------
(***************************************************************************)
(* The object and collection handlers of the add-on                        *)
(* (blender_extension/operations/object.py, collection.py) on what they    *)
(* keep in Blender: which object is a child of which, the collections it   *)
(* is linked into, the tree of collections, what is hidden or excluded and *)
(* what the user has selected.  A handler runs to its end on Blender's     *)
(* main thread; one that raises leaves what it has done.                   *)
(***************************************************************************)
EXTENDS FiniteSetsExt, SequencesExt

CONSTANTS
  Objects,      \* what an object can be
  Collections,  \* collections other than the scene's own
  Root,         \* the scene's own collection
  None,
  MaxNamed,     \* bound on the objects one call names
  MaxCalls      \* bound on the calls

ASSUME NamesAssumption == None \notin Objects \cup Collections \cup {Root} /\ Root \notin Collections

VARIABLES
  parent,    \* of each object there is
  home,      \* home[o]: the collections o is linked into
  tree,      \* tree[c]: the collection that holds c, for each there is
  hidden,    \* objects that are hidden
  excluded,  \* collections that are excluded from the view layer
  selected, active,
  calls

vars == <<parent, home, tree, hidden, excluded, selected, active, calls>>
view == <<hidden, excluded>>

Live   == DOMAIN parent
Linked == DOMAIN tree \cup {Root}

Init ==
  /\ parent = [o \in {} |-> None] /\ home = [o \in {} |-> {}]
  /\ tree = [c \in {} |-> Root]
  /\ hidden = {} /\ excluded = {} /\ selected = {} /\ active = None
  /\ calls = 0

-----------------------------------------------------------------------------
(* Helpers of the handlers. *)

\* _is_ancestor, _descendants: along the parents of objects, or of collections.
Above(f, x) ==
  LET up[n \in 0..Cardinality(DOMAIN f)] ==
        IF n = 0 THEN {x} ELSE up[n - 1] \cup { f[y] : y \in up[n - 1] \cap DOMAIN f }
  IN  { f[y] : y \in up[Cardinality(DOMAIN f)] \cap DOMAIN f } \ {None}
Below(f, x) == { y \in DOMAIN f : x \in Above(f, y) }

\* One more object, or collection.
With(f, x, v) == [y \in DOMAIN f \cup {x} |-> IF y = x THEN v ELSE f[y]]

InView     == { o \in Live : home[o] \ excluded # {} }
Visible(o) == o \in InView \ hidden

\* External: Blender forgets that an object was selected when its view layer loses it.
Select(sel, act) ==
  /\ selected' = sel \cap InView'
  /\ active' = IF act \in InView' THEN act ELSE None
KeepSelection == Select(selected, active)

\* External: what Blender does with the children of an object that is removed.
WithoutObjects(gone) ==
  /\ parent' = [o \in Live \ gone |-> IF parent[o] \in gone THEN None ELSE parent[o]]
  /\ hidden' = hidden \ gone

\* Mutant: the block's own selection is left behind.
RestoredTo(o, gone) == Select({o} \ gone, IF o \in gone THEN None ELSE o)

\* object_mode, from its entry to the end of its `finally`: the block works on o
\* alone, unless o cannot be seen and it raises at once.  With nothing active before,
\* o stays active.  Reading the name of a selected object that is gone raises, which
\* ends the restoration: what came before it is selected again, and o stays active.
Restored(o, gone) ==
  LET kept == IF Visible(o) /\ active \in gone \cup {None} THEN o ELSE active
  IN  IF selected \cap gone = {}
      THEN Select(selected, kept)
      ELSE \E again \in SUBSET (selected \ gone) : Select(again, o)

Call == calls < MaxCalls /\ calls' = calls + 1

-----------------------------------------------------------------------------
(* object.* *)

\* A collection that is not found is noticed after the object is built (c = None);
\* the operators for meshes select what they make, the data API does not.
Create(o, c, byOperator) ==
  /\ Call
  /\ o \notin Live
  /\ parent' = With(parent, o, None)
  /\ home' = With(home, o, {IF c = None THEN Root ELSE c})
  /\ UNCHANGED <<tree, view>>
  /\ IF byOperator THEN Select({o}, o) ELSE KeepSelection

\* `seen` is asked for the name of an object that is gone when a descendant is
\* itself in the list: the call fails there.
Delete(S, deleteChildren) ==
  LET below == UNION { Below(parent, o) : o \in S }
  IN  /\ Call
      /\ \E more \in IF ~deleteChildren THEN {{}}
                     ELSE IF below \cap S = {} THEN {below} ELSE SUBSET below :
           LET gone == S \cup more
           IN  /\ WithoutObjects(gone)
               /\ home' = [o \in Live \ gone |-> home[o]]
      /\ UNCHANGED <<tree, excluded>>
      /\ KeepSelection

\* The copy has the parent of the original and goes where it was, or to c.
Duplicate(o, copy, c) ==
  /\ Call
  /\ copy \notin Live
  /\ parent' = With(parent, copy, parent[o])
  /\ \E there \in IF c = None THEN home[o] ELSE {c} : home' = With(home, copy, {there})
  /\ hidden' = IF o \in hidden THEN hidden \cup {copy} ELSE hidden
  /\ UNCHANGED <<tree, excluded>>
  /\ KeepSelection

\* Mutant: only the parent itself is looked at.
WouldCycleAtOnce(child, new) == child = new \/ parent[new] = child

WouldCycle(child, new) == child = new \/ child \in Above(parent, new)

\* A bone that does not exist is noticed after the parent is set.
SetParent(child, new) ==
  /\ Call
  /\ ~WouldCycle(child, new)
  /\ parent' = [parent EXCEPT ![child] = new]
  /\ UNCHANGED <<home, tree, view>>
  /\ KeepSelection

ClearParent(S) ==
  /\ Call
  /\ parent' = [o \in Live |-> IF o \in S THEN None ELSE parent[o]]
  /\ UNCHANGED <<home, tree, view>>
  /\ KeepSelection

\* object.hide and object.show
SetVisibility(S, hide) ==
  /\ Call
  /\ hidden' = IF hide THEN hidden \cup S ELSE hidden \ S
  /\ UNCHANGED <<parent, home, tree, excluded>>
  /\ Select(selected \ hidden', active)

\* object.transform.apply, object.origin.set, object.convert: one object after the
\* other in object mode; the first that is hidden or refused ends the call.
EditEach(S) ==
  /\ Call
  /\ UNCHANGED <<parent, home, tree, view>>
  /\ \E o \in S : Restored(o, {})

Join(target, sources) ==
  /\ Call
  /\ target \notin sources
  /\ IF Visible(target) /\ sources \subseteq InView
     THEN /\ WithoutObjects(sources)
          /\ home' = [o \in Live \ sources |-> home[o]]
          /\ UNCHANGED <<tree, excluded>>
          /\ Restored(target, sources)
     ELSE /\ UNCHANGED <<parent, home, tree, view>>
          /\ Restored(target, {})

Separate(o, part) ==
  /\ Call
  /\ part \notin Live
  /\ Visible(o)
  /\ parent' = With(parent, part, parent[o])
  /\ home' = With(home, part, home[o])
  /\ UNCHANGED <<tree, view>>
  /\ Restored(o, {})

-----------------------------------------------------------------------------
(* collection.* *)

\* _move_object
Moved(S, c, exclusive) ==
  [o \in Live |-> IF o \notin S THEN home[o] ELSE IF exclusive THEN {c} ELSE home[o] \cup {c}]

\* An object that is not found is noticed after the collection is linked: S = {}.
CreateCollection(c, under, S) ==
  /\ Call
  /\ c \in Collections \ DOMAIN tree
  /\ tree' = With(tree, c, under)
  /\ home' = Moved(S, c, TRUE)
  /\ UNCHANGED <<parent, view>>
  /\ KeepSelection

\* Mutant: what is left in no collection is not linked to the parent.
LinksLeft(left, up) == left

LinksOf(left, up) == IF left = {} THEN {up} ELSE left

DeleteCollection(c, deleteObjects, recursive) ==
  LET targets == {c} \cup IF recursive THEN Below(tree, c) ELSE {}
      inside  == { o \in Live : home[o] \cap targets # {} }
      gone    == IF deleteObjects THEN inside ELSE {}
  IN  /\ Call
      /\ WithoutObjects(gone)
      /\ home' = [o \in Live \ gone |->
                    IF o \in inside THEN LinksOf(home[o] \ targets, tree[c]) ELSE home[o]]
      /\ tree' = [d \in DOMAIN tree \ targets |-> IF tree[d] = c THEN tree[c] ELSE tree[d]]
      /\ excluded' = excluded \ targets
      /\ KeepSelection

LinkObject(c, S) ==
  /\ Call
  /\ home' = Moved(S, c, FALSE)
  /\ UNCHANGED <<parent, tree, view>>
  /\ KeepSelection

\* The first object that is in no other collection ends the call; those before it
\* are unlinked.
UnlinkObject(c, S) ==
  LET only == { o \in S : home[o] = {c} }
  IN  /\ Call
      /\ \E done \in IF only = {} THEN {S} ELSE SUBSET (S \ only) :
           home' = [o \in Live |-> IF o \in done THEN home[o] \ {c} ELSE home[o]]
      /\ UNCHANGED <<parent, tree, view>>
      /\ KeepSelection

MoveObject(c, S, exclusive) ==
  /\ Call
  /\ home' = Moved(S, c, exclusive)
  /\ UNCHANGED <<parent, tree, view>>
  /\ KeepSelection

\* External: excluding a collection excludes those below it, recursive or not.
Exclude(c, exclude) ==
  LET targets == {c} \cup Below(tree, c)
  IN  /\ Call
      /\ excluded' = IF exclude THEN excluded \cup targets ELSE excluded \ targets
      /\ UNCHANGED <<parent, home, tree, hidden>>
      /\ KeepSelection

-----------------------------------------------------------------------------
\* External: the user clicks.
UserSelects(S) ==
  /\ Call
  /\ UNCHANGED <<parent, home, tree, view>>
  /\ \E o \in S : Select(S \ hidden, o)

Some(S) == { T \in SUBSET S : T # {} /\ Cardinality(T) <= MaxNamed }

Next ==
  \/ \E o \in Objects, c \in Linked \cup {None}, b \in BOOLEAN : Create(o, c, b)
  \/ \E o \in Live, n \in Objects :
       Separate(o, n) \/ \E c \in Linked \cup {None} : Duplicate(o, n, c)
  \/ \E o, p \in Live : SetParent(o, p)
  \/ \E S \in Some(Live) :
       \/ ClearParent(S) \/ EditEach(S) \/ UserSelects(S)
       \/ \E b \in BOOLEAN : Delete(S, b) \/ SetVisibility(S, b)
       \/ \E o \in Live : Join(o, S)
       \/ \E c \in Linked : \/ LinkObject(c, S) \/ UnlinkObject(c, S)
                            \/ \E b \in BOOLEAN : MoveObject(c, S, b)
  \/ \E c \in Collections, d \in Linked, S \in SUBSET Live :
       Cardinality(S) < MaxNamed /\ CreateCollection(c, d, S)
  \/ \E c \in DOMAIN tree, b \in BOOLEAN :
       Exclude(c, b) \/ \E d \in BOOLEAN : DeleteCollection(c, b, d)

Spec == Init /\ [][Next]_vars

-----------------------------------------------------------------------------

\* No object is its own ancestor, and every collection hangs from the scene's own,
\* whatever calls came before and however many of them failed half way.
HierarchiesAreTrees ==
  /\ \A o \in Live : o \notin Above(parent, o)
  /\ \A c \in DOMAIN tree : Root \in Above(tree, c)

\* No object is left in no collection at all, invisible but still in the file.
EveryObjectIsInACollection == \A o \in Live : home[o] # {}

\* What is selected stays selected as long as it is there to be seen, and nothing else
\* becomes selected: only the user changes the selection, or an operator that makes an
\* object; only a call that removes objects can lose more of it.
SelectionIsTheUsers ==
  [][ \/ selected' = selected \cap (InView \ hidden)'
      \/ \E S \in Some(Live) : UserSelects(S)
      \/ \E o \in Live' \ Live : selected' \subseteq {o}
      \/ Live \ Live' # {} /\ selected' \subseteq selected ]_vars
=============================================================================
