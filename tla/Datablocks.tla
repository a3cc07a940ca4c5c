----------------------------- MODULE Datablocks -----------------------------
(***************************************************************************)
(* How the add-on names what is in a Blender file (blender_extension       *)
(* ids.py): objects by an id kept in a custom property and found through an *)
(* index of names, the elements of a mesh by indices that a revision of    *)
(* the mesh vouches for (operations/mesh.py, uv.py, modifier.py).  Blender *)
(* renames, copies, undoes and edits beside the bridge.                    *)
(***************************************************************************)
EXTENDS Integers, FiniteSetsExt, Functions

CONSTANTS
  Objects, Meshes, Names,
  Ids,           \* one per id that is ever given out, in order
  None,
  MaxCalls       \* bound on the calls and the user's doings

ASSUME BoundAssumption == MaxCalls \in Nat /\ IsFiniteSet(Objects)
                          /\ IsFiniteSet(Ids) /\ Ids = 1..Cardinality(Ids)
ASSUME NoneAssumption == None \notin Ids

VARIABLES
  file,    \* what Blender saves and undoes: see File
  saved,   \* the file as an undo step has it, or None
  index,   \* ids._CACHE: names by id, or None
  tagged,  \* meshes Blender has yet to report as changed
  torn,    \* meshes a call changed, failing before their revision was raised
  held,    \* what callers were told: object, revision, and the topology it was read from
  given,   \* ids callers were told, and of which object
  ids,     \* how many ids were given out
  topos,   \* how many topologies there were
  born,    \* objects and meshes there are or have been
  epoch,   \* raised when the file is reverted or the user edited it unseen
  calls

vars == <<file, saved, index, tagged, torn, held, given, ids, topos, born, epoch, calls>>
naming == <<index, given, ids, born>>
meshes == <<tagged, torn, held, topos>>

\* id and name of an object are custom property and name; copied: its id is not its own.
File == [ name : UNION { [L -> Names] : L \in SUBSET Objects },
          id : [Objects -> Ids \cup {None}], copied : SUBSET Ids,
          mesh : [Objects -> Meshes], topo : [Meshes -> Nat], rev : [Meshes -> Nat] ]

Live == DOMAIN file.name

\* One more object.
With(g, o, n) == [p \in DOMAIN g \cup {o} |-> IF p = o THEN n ELSE g[p]]

Init ==
  /\ \E o \in Objects, n \in Names, d \in Meshes :
       /\ born = {o, d}
       /\ file = [ name |-> [p \in {o} |-> n], id |-> [p \in Objects |-> None], copied |-> {},
                   mesh |-> [p \in Objects |-> d],
                   topo |-> [e \in Meshes |-> 0], rev |-> [e \in Meshes |-> 0] ]
  /\ saved = None /\ index = None /\ tagged = {} /\ torn = {} /\ held = {} /\ given = {}
  /\ ids = 0 /\ topos = 0 /\ epoch = 0 /\ calls = 0

Call == calls < MaxCalls /\ calls' = calls + 1

-----------------------------------------------------------------------------
(* ids.py *)

Named(f, n) == { o \in DOMAIN f.name : f.name[o] = n }

\* _rebuild: of two objects with one id, the one that comes last by name; here either.
Indexes(f) ==
  LET known == { f.id[o] : o \in DOMAIN f.name } \ {None}
  IN  { g \in [known -> Range(f.name)] :
          \A i \in known : \E o \in DOMAIN f.name : f.id[o] = i /\ f.name[o] = g[i] }

\* Mutant: what the index says is taken as it is, whoever has the name now.
FoundInIndex(i, g) == IF i \in DOMAIN g THEN Named(file, g[i]) ELSE {}

\* find, the first look: a stale entry names nothing, or another object.
Hit(i, g) ==
  IF i \in DOMAIN g THEN { o \in Named(file, g[i]) : file.id[o] = i } ELSE {}

\* find, with its one rescan: every index it may leave, and what it then returns.
Finds(i) ==
  IF index # None /\ Hit(i, index) # {}
  THEN { <<index, Hit(i, index)>> }
  ELSE { <<g, Hit(i, g)>> : g \in Indexes(file) }

\* invalidate_cache("object")
Invalidate == index' = None

\* ensure_id, in every answer about an object: the next ids to those that have none.
Told(f, S) ==
  LET new == { o \in S : f.id[o] = None }
  IN  /\ \E nth \in [new -> ids + 1 .. ids + Cardinality(new)] :
           /\ IsInjective(nth)
           /\ file' = [f EXCEPT !.id = [o \in Objects |-> IF o \in new THEN nth[o] ELSE f.id[o]]]
      /\ ids' = ids + Cardinality(new)
      /\ ids' <= Cardinality(Ids)
      /\ given' = given \cup { [id |-> file'.id[o], object |-> o, epoch |-> epoch] : o \in S }

-----------------------------------------------------------------------------
(* Revisions *)

\* next_mesh_revision
Raised(f, d) == [f EXCEPT !.rev[d] = @ + 1]

Changed(f, d) == [f EXCEPT !.topo[d] = topos + 1]

Current(d, expected) == expected = None \/ expected = file.rev[d]

\* Every answer carries the revision of the mesh as the handler leaves it.
Learn(f, o) ==
  held' = held \cup { [object |-> o, rev |-> f.rev[f.mesh[o]], topo |-> f.topo[f.mesh[o]],
                       epoch |-> epoch] }

\* Mutant: the session writes the mesh and leaves its revision.
WrittenUnseen(f, d) == Changed(f, d)

\* MeshEdit.__exit__ without an exception, for an edit that can change the topology.
Written(f, d) == Raised(Changed(f, d), d)

\* A session over the mesh of r.object.  Stale or missing indices, and whatever Blender
\* refuses, end it with nothing written: the call then changes nothing.
Edit(r) ==
  LET d == file.mesh[r.object]
  IN  /\ Call
      /\ Current(d, r.expected)
      /\ Told(Written(file, d), {r.object})
      /\ Learn(file', r.object)
      /\ topos' = topos + 1 /\ tagged' = tagged \cup {d}
      /\ UNCHANGED <<saved, index, torn, born, epoch>>

\* A session that keeps the topology writes the mesh all the same, so Blender reports it.
Touch(r) ==
  LET d == file.mesh[r.object]
  IN  /\ Call
      /\ Current(d, r.expected)
      /\ Told(file, {r.object})
      /\ Learn(file', r.object)
      /\ tagged' = tagged \cup {d}
      /\ UNCHANGED <<saved, index, torn, topos, born, epoch>>

-----------------------------------------------------------------------------
(* mesh.*: what the server lets through of each, and the session it runs. *)

Elements == {"VERTEX", "EDGE", "FACE"}
Requests == [ object : Live, type : Elements \cup {None}, all : BOOLEAN,
              expected : { h.rev : h \in held } \cup {None} ]

Extrude(r)           == r.type # None /\ Edit(r)
Inset(r)             == r.type = "FACE" /\ Edit(r)
Subdivide(r)         == Edit(r)
LoopCut(r)           == r.type = "EDGE" /\ ~r.all /\ Edit(r)
Dissolve(r)          == Edit(r)
DeleteElements(r)    == r.type # None /\ ~r.all /\ Edit(r)
MergeVertices(r)     == Edit(r)
Triangulate(r)       == Edit(r)
QuadsFromTris(r)     == Edit(r)
\* Edges that bound nothing raise once the session has been written: an answer is lost.
Fill(r)              == r.type = "EDGE" /\ Edit(r)
BridgeEdgeLoops(r)   == r.type = "EDGE" /\ ~r.all /\ Edit(r)
RecalculateNormals(r) == r.type = None /\ r.expected = None /\ Touch(r)
FlipNormals(r)       == Touch(r)
\* A read that opens a session, and so writes the mesh back.
Analyze(r)           == r.type = None /\ r.expected = None /\ Touch(r)
SetSeam(r)           == r.type = "EDGE" /\ ~r.all /\ Touch(r)
Unwrap(r)            == Touch(r)

\* Bevelling vertices returns from inside the session: the answer has the old revision.
Bevel(r) ==
  /\ r.type # None
  /\ IF r.type # "VERTEX" THEN Edit(r)
     ELSE LET d == file.mesh[r.object]
          IN  /\ Call
              /\ Current(d, r.expected)
              /\ Told(Written(file, d), {r.object})
              /\ Learn(file, r.object)
              /\ topos' = topos + 1 /\ tagged' = tagged \cup {d}
              /\ UNCHANGED <<index, torn, born, saved, epoch>>

EditMesh(r) ==
  \/ Extrude(r) \/ Inset(r) \/ Bevel(r) \/ Subdivide(r) \/ LoopCut(r) \/ Dissolve(r)
  \/ DeleteElements(r) \/ MergeVertices(r) \/ Fill(r) \/ BridgeEdgeLoops(r)
  \/ Triangulate(r) \/ QuadsFromTris(r)

TouchMesh(r) ==
  \/ RecalculateNormals(r) \/ FlipNormals(r) \/ Analyze(r) \/ SetSeam(r) \/ Unwrap(r)

\* mesh.info, mesh.vertices.get, mesh.faces.get
Read(o) ==
  /\ Call
  /\ Told(file, {o})
  /\ Learn(file', o)
  /\ UNCHANGED <<saved, index, tagged, torn, topos, born, epoch>>

-----------------------------------------------------------------------------
(* The other handlers that raise a revision, or make, name or remove objects. *)

\* modifier.apply with the modifiers before it: one that Blender refuses ends the call,
\* with those before it applied and the revision as it was.
ApplyModifiers(o, several, fails) ==
  LET d == file.mesh[o]
  IN  /\ Call
      /\ { p \in Live : file.mesh[p] = d } = {o}
      /\ fails => several
      /\ IF fails
         THEN /\ file' = Changed(file, d) /\ torn' = torn \cup {d}
              /\ UNCHANGED <<naming, held>>
         ELSE /\ Told(Written(file, d), {o}) /\ Learn(file', o) /\ UNCHANGED <<index, torn, born>>
      /\ topos' = topos + 1 /\ tagged' = tagged \cup {d}
      /\ UNCHANGED <<saved, epoch>>

\* object.create and mesh.create
Create(o, n, d) ==
  /\ Call
  /\ {o, d} \cap born = {} /\ Named(file, n) = {} /\ born' = born \cup {o, d}
  /\ Told(Written([file EXCEPT !.name = With(file.name, o, n), !.id[o] = None, !.mesh[o] = d], d), {o})
  /\ Learn(file', o)
  /\ topos' = topos + 1 /\ Invalidate
  /\ UNCHANGED <<saved, tagged, torn, epoch>>

\* Mutant: the copy keeps the id it inherits.
CopyOf(f, o, p, n) ==
  [f EXCEPT !.name = With(f.name, p, n), !.id[p] = f.id[o]]

\* object.duplicate takes the inherited id off the copy, and so does object.separate.
OwnCopyOf(f, o, p, n) ==
  [f EXCEPT !.name = With(f.name, p, n), !.id[p] = None]

Duplicate(o, p, n, linked, d) ==
  /\ Call
  /\ p \notin born /\ Named(file, n) = {}
  /\ linked \/ d \notin born
  /\ born' = born \cup {p} \cup IF linked THEN {} ELSE {d}
  /\ LET copy == OwnCopyOf(file, o, p, n)
     IN  Told(IF linked THEN [copy EXCEPT !.mesh[p] = file.mesh[o]]
              ELSE Raised([copy EXCEPT !.mesh[p] = d, !.topo[d] = file.topo[file.mesh[o]],
                                       !.rev[d] = file.rev[file.mesh[o]]], d), {p})
  /\ Learn(file', p)
  /\ Invalidate
  /\ UNCHANGED <<saved, tagged, torn, topos, epoch>>

Separate(o, p, n, d) ==
  /\ Call
  /\ {p, d} \cap born = {} /\ Named(file, n) = {} /\ born' = born \cup {p, d}
  /\ LET e    == file.mesh[o]
         part == [OwnCopyOf(file, o, p, n) EXCEPT !.mesh[p] = d, !.rev[d] = file.rev[e]]
     IN  /\ Told(Written([Raised(part, d) EXCEPT !.topo[d] = topos + 1], e), {o, p})
         /\ tagged' = tagged \cup {e}
  /\ Learn(file', o)
  /\ topos' = topos + 1 /\ Invalidate
  /\ UNCHANGED <<saved, torn, epoch>>

\* object.join: the sources are gone, and the target has all of their elements.
Join(o, p) ==
  /\ Call
  /\ o # p
  /\ Told(Written([file EXCEPT !.name = [q \in Live \ {p} |-> @[q]]], file.mesh[o]), {o})
  /\ Learn(file', o)
  /\ topos' = topos + 1 /\ tagged' = tagged \cup {file.mesh[o]} /\ Invalidate
  /\ UNCHANGED <<saved, torn, born, epoch>>

Rename(o, n) ==
  /\ Call
  /\ Named(file, n) = {}
  /\ Told([file EXCEPT !.name[o] = n], {o})
  /\ Invalidate
  /\ UNCHANGED <<saved, meshes, born, epoch>>

Delete(o) ==
  /\ Call
  /\ file' = [file EXCEPT !.name = [q \in Live \ {o} |-> @[q]]]
  /\ Invalidate
  /\ UNCHANGED <<saved, given, ids, meshes, born, epoch>>

\* Every call that names an object by its id looks it up first.
LookUp(i) ==
  /\ Call
  /\ \E f \in Finds(i) : index' = f[1]
  /\ UNCHANGED <<file, saved, given, ids, meshes, born, epoch>>

-----------------------------------------------------------------------------
(* Blender and its user. *)

\* events.py: one event, and one revision, for each object with an id that uses the mesh.
Report ==
  /\ tagged # {}
  /\ LET users(d) == { o \in Live : file.mesh[o] = d /\ file.id[o] # None }
     IN  file' = [file EXCEPT !.rev = [d \in Meshes |->
                    @[d] + IF d \in tagged THEN Cardinality(users(d)) ELSE 0]]
  /\ tagged' = {} /\ torn' = {}
  /\ UNCHANGED <<saved, naming, held, topos, epoch, calls>>

UserRenames(o, n) ==
  /\ Call
  /\ Named(file, n) = {}
  /\ file' = [file EXCEPT !.name[o] = n]
  /\ UNCHANGED <<saved, naming, meshes, epoch>>

\* The user's own copy, and the one object.convert keeps: the id goes with it.
UserCopies(o, p, n) ==
  /\ Call
  /\ p \notin born /\ Named(file, n) = {} /\ born' = born \cup {p}
  /\ file' = [CopyOf(file, o, p, n) EXCEPT !.mesh[p] = file.mesh[o],
                                            !.copied = @ \cup ({file.id[o]} \ {None})]
  /\ UNCHANGED <<saved, index, given, ids, meshes, epoch>>

\* While nobody is connected nothing is reported.
UserEditsUnseen(d) ==
  /\ Call
  /\ file' = Changed(file, d)
  /\ topos' = topos + 1 /\ epoch' = epoch + 1 /\ Invalidate
  /\ UNCHANGED <<saved, tagged, torn, held, given, ids, born>>

Push ==
  /\ Call
  /\ saved' = file
  /\ UNCHANGED <<file, naming, meshes, epoch>>

Undo ==
  /\ Call
  /\ saved # None
  /\ file' = [saved EXCEPT !.copied = @ \cup file.copied]
  /\ epoch' = epoch + 1 /\ Invalidate
  /\ UNCHANGED <<saved, given, ids, meshes, born>>

Next ==
  \/ \E r \in Requests : EditMesh(r) \/ TouchMesh(r)
  \/ \E o \in Live, b, fails \in BOOLEAN : ApplyModifiers(o, b, fails)
  \/ \E o \in Live : Read(o) \/ Delete(o) \/ \E p \in Live : Join(o, p)
  \/ \E o \in Objects, n \in Names, d \in Meshes : Create(o, n, d)
  \/ \E o \in Live, p \in Objects, n \in Names :
       \/ UserCopies(o, p, n)
       \/ \E d \in Meshes : Separate(o, p, n, d) \/ \E b \in BOOLEAN : Duplicate(o, p, n, b, d)
  \/ \E o \in Live, n \in Names : Rename(o, n) \/ UserRenames(o, n)
  \/ \E i \in Ids : LookUp(i)
  \/ \E d \in Meshes : UserEditsUnseen(d)
  \/ Report \/ Push \/ Undo

Spec == Init /\ [][Next]_vars

-----------------------------------------------------------------------------

\* A caller's revision lets its indices through only on the topology they were read
\* from, until the file is reverted or was edited while nobody was connected, and
\* except where a call failed half way and Blender has yet to report it.
IndicesAreGoodUntilReload ==
  \A h \in held :
    (/\ h.epoch = epoch /\ h.object \in Live
     /\ file.mesh[h.object] \notin torn /\ file.rev[file.mesh[h.object]] = h.rev)
    => file.topo[file.mesh[h.object]] = h.topo

\* An id that nobody copied is found as long as its object is there, and never turns
\* out to be another object, whatever was renamed, made or removed and however old the
\* index is.
IdsStayWithTheirObject ==
  \A g \in given : g.id \notin file.copied =>
    \A f \in Finds(g.id) :
      /\ f[2] \subseteq {g.object}
      /\ g.epoch = epoch /\ g.object \in Live => f[2] # {}

\* mesh.rs: stale indices are a clean error instead of a bevel of the wrong edge.
StaleIndicesAreRefused ==
  \A h \in held :
    h.object \in Live /\ file.rev[file.mesh[h.object]] = h.rev
      => file.topo[file.mesh[h.object]] = h.topo
=============================================================================
