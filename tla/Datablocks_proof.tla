-------------------------- MODULE Datablocks_proof --------------------------
(***************************************************************************)
(* That an id leads to one object and a revision to one topology, for any  *)
(* objects, meshes, names and number of calls.                             *)
(***************************************************************************)
EXTENDS Datablocks, FiniteSetTheorems, TLAPS

-----------------------------------------------------------------------------
(* The invariant *)

\* A file that holds what has been made (b), and no id that was not given out (n).
ShapeIn(f, b, n) ==
  /\ DOMAIN f = {"name", "id", "copied", "mesh", "topo", "rev"}
  /\ DOMAIN f.name \subseteq Objects \cap b
  /\ f.id \in [Objects -> 1..n \cup {None}]
  /\ f.mesh \in [Objects -> Meshes] /\ \A o \in DOMAIN f.name : f.mesh[o] \in b
  /\ f.topo \in [Meshes -> Nat] /\ f.rev \in [Meshes -> Nat]

Shape(f) == ShapeIn(f, born, ids)

TypeInv ==
  /\ Shape(file)
  /\ saved # None => Shape(saved) /\ saved.copied \subseteq file.copied
  /\ ids \in Nat /\ ids <= Cardinality(Ids)
  /\ topos \in Nat /\ epoch \in Nat
  /\ torn \subseteq tagged

\* Who has an id, would have it after an undo, or was given it in an answer.
Bearers(i) ==
  { o \in Live : file.id[o] = i }
  \cup { o \in Objects : saved # None /\ o \in DOMAIN saved.name /\ saved.id[o] = i }
  \cup { g.object : g \in { g \in given : g.id = i } }

OneBearer == \A i \in 1..ids : i \notin file.copied => \A o, p \in Bearers(i) : o = p

\* What callers were told an id of still has it, until the file is reverted.
GivenInv ==
  \A g \in given :
    /\ g.id \in 1..ids /\ g.object \in born \cap Objects /\ g.epoch \in 0..epoch
    /\ g.epoch = epoch /\ g.object \in Live => file.id[g.object] = g.id

\* A caller's revision is the present one of the mesh, or lower.
HeldInv ==
  \A h \in held :
    /\ h.object \in born \cap Objects /\ h.epoch \in 0..epoch /\ h.rev \in Nat
    /\ h.epoch = epoch /\ h.object \in Live =>
         LET d == file.mesh[h.object]
         IN  /\ file.id[h.object] # None
             /\ h.rev <= file.rev[d]
             /\ d \notin torn /\ file.rev[d] = h.rev => file.topo[d] = h.topo

IInv == TypeInv /\ OneBearer /\ GivenInv /\ HeldInv

-----------------------------------------------------------------------------
(* What steps have in common *)

\* The id of an object that was there stays, or is given to it now; one that was not
\* has none, or a new one, or a copied one.
IdStays(o)  == o \in Live /\ file'.id[o] = file.id[o]
IdIsNew(o)  == file'.id[o] \in ids + 1..ids' /\ (o \in born => o \in Live /\ file.id[o] = None)
IdIsNone(o) == o \notin born /\ file'.id[o] \in {None} \cup file'.copied

Became ==
  /\ file.copied \subseteq file'.copied
  /\ \A o \in Live' : IdStays(o) \/ IdIsNew(o) \/ IdIsNone(o)
  /\ \A o, p \in Live' : file'.id[o] = file'.id[p] /\ file'.id[o] \in ids + 1..ids' => o = p
  /\ given \subseteq given'
  /\ \A g \in given' \ given :
       g.object \in Live' /\ g.id = file'.id[g.object] /\ g.id # None /\ g.epoch = epoch'
  /\ ids <= ids' /\ born \subseteq born' /\ saved' = saved
  /\ epoch' \in {epoch, epoch + 1}

LEMMA NoneIsNoId == \A n \in Nat : n <= Cardinality(Ids) => None \notin 1..n
<1>1. Cardinality(Ids) \in Nat
  BY BoundAssumption, FS_CardinalityType
<1> QED
  BY <1>1, BoundAssumption, NoneAssumption

LEMMA IdsKept ==
  ASSUME IInv, TypeInv', Became
  PROVE  OneBearer' /\ GivenInv'
<1> USE DEF Live
<1>1. ids \in Nat /\ ids' \in Nat /\ ids <= ids' /\ None \notin 1..ids /\ None \notin 1..ids'
      /\ epoch \in Nat /\ epoch' \in Nat
  BY NoneIsNoId DEF TypeInv, IInv, Became
<1>2. /\ \A o \in Live : o \in born \cap Objects /\ file.id[o] \in 1..ids \cup {None}
      /\ \A o \in Live' : o \in born' \cap Objects /\ file'.id[o] \in 1..ids' \cup {None}
  BY DEF IInv, TypeInv, Shape, ShapeIn
<1>3. \A g \in given : g.id \in 1..ids
  BY DEF IInv, GivenInv
<1>4. OneBearer'
  <2> SUFFICES ASSUME NEW i \in 1..ids', i \notin file'.copied,
                      NEW o \in Bearers(i)', NEW p \in Bearers(i)'
               PROVE  o = p
    BY DEF OneBearer
  <2>1. CASE i \in 1..ids
    <3>1. \A q \in Live' : file'.id[q] = i => q \in Bearers(i)
      BY <1>1, <1>2, <2>1 DEF Became, IdStays, IdIsNew, IdIsNone, Bearers
    <3>2. \A g \in given' : g.id = i => g.object \in Bearers(i)
      BY <3>1 DEF Became, Bearers
    <3>3. Bearers(i)' \subseteq Bearers(i)
      BY <3>1, <3>2 DEF Bearers, Became
    <3> QED
      BY <3>3, <2>1 DEF OneBearer, IInv, Became
  <2>2. CASE i \notin 1..ids
    <3>1. \A q \in Objects : saved # None /\ q \in DOMAIN saved.name => saved.id[q] # i
      BY <2>2, <1>1 DEF IInv, TypeInv, Shape, ShapeIn
    <3>2. \A g \in given' : g.id = i => g.object \in Live' /\ file'.id[g.object] = i
      BY <2>2, <1>3 DEF Became
    <3>3. o \in Live' /\ file'.id[o] = i /\ p \in Live' /\ file'.id[p] = i
      BY <3>1, <3>2 DEF Bearers, Became
    <3> QED
      BY <3>3, <2>2, <1>1 DEF Became
  <2> QED
    BY <2>1, <2>2
<1>5. GivenInv'
  <2> SUFFICES ASSUME NEW g \in given'
               PROVE  /\ g.id \in 1..ids' /\ g.object \in born' \cap Objects /\ g.epoch \in 0..epoch'
                      /\ g.epoch = epoch' /\ g.object \in Live' => file'.id[g.object] = g.id
    BY DEF GivenInv
  <2>1. CASE g \notin given
    BY <2>1, <1>1, <1>2 DEF Became
  <2>2. CASE g \in given
    <3>1. g.id \in 1..ids /\ g.object \in born \cap Objects /\ g.epoch \in 0..epoch
          /\ (g.epoch = epoch /\ g.object \in Live => file.id[g.object] = g.id)
      BY <2>2 DEF IInv, GivenInv
    <3>2. g.id \in 1..ids' /\ g.object \in born' \cap Objects /\ g.epoch \in 0..epoch'
      BY <3>1, <1>1 DEF Became
    <3>3. ASSUME g.epoch = epoch', g.object \in Live' PROVE file'.id[g.object] = g.id
      <4>1. g.epoch = epoch
        BY <3>1, <3>3, <1>1 DEF Became
      <4>2. IdStays(g.object) \/ IdIsNew(g.object)
        BY <3>1, <3>3 DEF Became, IdIsNone
      <4> QED
        BY <4>1, <4>2, <3>1, <1>1 DEF IdStays, IdIsNew
    <3> QED
      BY <3>2, <3>3
  <2> QED
    BY <2>1, <2>2
<1> QED
  BY <1>4, <1>5

\* A mesh that somebody uses keeps its topology under its revision, or is marked.
Careful(f) ==
  \A o \in DOMAIN f.name \cap born :
    /\ o \in Live
    /\ file.id[o] # None =>
         LET d == file.mesh[o]
         IN  /\ f.mesh[o] = d
             /\ \/ f.rev[d] > file.rev[d]
                \/ /\ f.rev[d] = file.rev[d]
                   /\ d \in torn' \/ (d \notin torn /\ f.topo[d] = file.topo[d])

\* What an answer says of a mesh.
Learnt(h) ==
  /\ h.object \in Live' /\ file'.id[h.object] # None
  /\ h.epoch = epoch' /\ h.rev \in Nat
  /\ LET d == file'.mesh[h.object]
     IN  h.rev <= file'.rev[d] /\ (h.rev = file'.rev[d] => h.topo = file'.topo[d])

LEMMA HeldKept ==
  ASSUME IInv, TypeInv', born \subseteq born',
         \A h \in held' \ held : Learnt(h),
         \/ epoch' = epoch /\ Became /\ Careful(file')
         \/ epoch' = epoch + 1
  PROVE  HeldInv'
<1> USE DEF Live
<1>1. epoch \in Nat /\ epoch' \in Nat
  BY DEF IInv, TypeInv
<1>2. \A o \in Live' : o \in born' \cap Objects
  BY DEF TypeInv, Shape, ShapeIn
<1> SUFFICES ASSUME NEW h \in held'
             PROVE  /\ h.object \in born' \cap Objects /\ h.epoch \in 0..epoch' /\ h.rev \in Nat
                    /\ h.epoch = epoch' /\ h.object \in Live' =>
                         LET d == file'.mesh[h.object]
                         IN  /\ file'.id[h.object] # None
                             /\ h.rev <= file'.rev[d]
                             /\ d \notin torn' /\ file'.rev[d] = h.rev => file'.topo[d] = h.topo
  BY DEF HeldInv
<1>3. CASE h \notin held
  BY <1>3, <1>1, <1>2 DEF Learnt
<1>4. CASE h \in held
  <2>1. h.object \in born \cap Objects /\ h.epoch \in 0..epoch /\ h.rev \in Nat
    BY <1>4 DEF IInv, HeldInv
  <2>2. h.object \in born' \cap Objects /\ h.epoch \in 0..epoch' /\ h.rev \in Nat
    BY <2>1, <1>1
  <2>3. ASSUME h.epoch = epoch', h.object \in Live'
        PROVE  LET d == file'.mesh[h.object]
               IN  /\ file'.id[h.object] # None
                   /\ h.rev <= file'.rev[d]
                   /\ d \notin torn' /\ file'.rev[d] = h.rev => file'.topo[d] = h.topo
    <3>1. epoch' = epoch /\ Became /\ Careful(file')
      BY <2>1, <2>3, <1>1
    <3>2. h.object \in Live
      BY <3>1, <2>1, <2>3 DEF Careful
    <3> DEFINE d == file.mesh[h.object]
    <3>3. /\ file.id[h.object] # None /\ h.rev <= file.rev[d]
          /\ d \notin torn /\ file.rev[d] = h.rev => file.topo[d] = h.topo
      BY <3>1, <3>2, <2>3, <1>4 DEF IInv, HeldInv
    <3>4. /\ file'.mesh[h.object] = d
          /\ \/ file'.rev[d] > file.rev[d]
             \/ /\ file'.rev[d] = file.rev[d]
                /\ d \in torn' \/ (d \notin torn /\ file'.topo[d] = file.topo[d])
      BY <3>1, <3>3, <2>1, <2>3 DEF Careful
    <3>5. file.rev[d] \in Nat /\ file'.rev[d] \in Nat
      BY <3>2, <2>1 DEF IInv, TypeInv, Shape, ShapeIn
    <3>6. file'.id[h.object] # None
      <4>1. IdStays(h.object)
        BY <3>1, <3>3, <2>1, <2>3 DEF Became, IdIsNew, IdIsNone
      <4> QED
        BY <4>1, <3>3 DEF IdStays
    <3> QED
      BY <3>3, <3>4, <3>5, <3>6, <2>1
  <2> QED
    BY <2>2, <2>3
<1> QED
  BY <1>3, <1>4

-----------------------------------------------------------------------------
(* The calls *)

\* The file as a handler makes it, before ids are given out with the answer.
Derived(f) ==
  /\ ShapeIn(f, born', ids)
  /\ f.copied = file.copied
  /\ \A o \in DOMAIN f.name :
       \/ o \in Live /\ f.id[o] = file.id[o]
       \/ o \notin born /\ f.id[o] = None

\* What an answer says of o, on any way through a handler.
Says(f, o) ==
  \/ held' = held
  \/ Learn(file', o)
  \/ /\ Learn(file, o)
     /\ o \in Live /\ f.mesh[o] = file.mesh[o] /\ f.rev[f.mesh[o]] > file.rev[f.mesh[o]]

Tagged == torn' \subseteq tagged' /\ topos' \in Nat

LEMMA SavedKept ==
  ASSUME IInv, born \subseteq born', ids' \in Nat, ids <= ids', saved' = saved, saved # None
  PROVE  ShapeIn(saved, born', ids')
BY DEF IInv, TypeInv, Shape, ShapeIn

LEMMA ToldGives ==
  ASSUME IInv, born \subseteq born', saved' = saved, epoch' = epoch, Tagged,
         NEW f, Derived(f), NEW S \in SUBSET DOMAIN f.name, Told(f, S)
  PROVE  /\ TypeInv' /\ Became
         /\ file'.name = f.name /\ file'.mesh = f.mesh
         /\ file'.topo = f.topo /\ file'.rev = f.rev
         /\ \A o \in S : file'.id[o] # None
<1> DEFINE new == { o \in S : f.id[o] = None }
<1>1. S \subseteq Objects /\ f.id \in [Objects -> 1..ids \cup {None}] /\ ids \in Nat
  BY DEF Derived, ShapeIn, IInv, TypeInv
<1>2. Cardinality(new) \in Nat
  <2>1. new \subseteq Objects
    BY <1>1
  <2> QED
    BY <2>1, BoundAssumption, FS_Subset, FS_CardinalityType
<1> HIDE DEF new
<1>3. PICK nth \in [new -> ids + 1 .. ids + Cardinality(new)] :
        /\ IsInjective(nth)
        /\ file' = [f EXCEPT !.id = [o \in Objects |-> IF o \in new THEN nth[o] ELSE f.id[o]]]
  BY DEF Told, new
<1>4. /\ ids' = ids + Cardinality(new) /\ ids' <= Cardinality(Ids)
      /\ given' = given \cup { [id |-> file'.id[o], object |-> o, epoch |-> epoch] : o \in S }
  BY DEF Told, new
<1>5. ids' \in Nat /\ ids <= ids'
  BY <1>1, <1>2, <1>4
<1>6. /\ file'.name = f.name /\ file'.mesh = f.mesh /\ file'.copied = f.copied
      /\ file'.topo = f.topo /\ file'.rev = f.rev
      /\ file'.id = [o \in Objects |-> IF o \in new THEN nth[o] ELSE f.id[o]]
      /\ DOMAIN file' = {"name", "id", "copied", "mesh", "topo", "rev"}
  BY <1>3 DEF Derived, ShapeIn
<1>7. \A o \in Objects : IF o \in new THEN file'.id[o] \in ids + 1..ids' ELSE file'.id[o] = f.id[o]
  BY <1>3, <1>4, <1>6
<1>8. file'.id \in [Objects -> 1..ids' \cup {None}]
  BY <1>1, <1>5, <1>6, <1>7
<1>9. TypeInv'
  <2>1. ShapeIn(file', born', ids')
    BY <1>6, <1>8 DEF Derived, ShapeIn
  <2>2. saved # None => ShapeIn(saved, born', ids')
    BY <1>5, SavedKept
  <2> QED
    BY <2>1, <2>2, <1>4, <1>5, <1>6 DEF TypeInv, Shape, Tagged, IInv, Derived
<1>10. None \notin 1..ids'
  BY <1>4, <1>5, NoneIsNoId
<1>11. \A o \in S : file'.id[o] # None
  BY <1>1, <1>5, <1>7, <1>10 DEF new
<1>12. Became
  <2>1. \A o \in Live' : IdStays(o) \/ IdIsNew(o) \/ IdIsNone(o)
    <3> TAKE o \in Live'
    <3>1. o \in DOMAIN f.name /\ o \in Objects
      BY <1>6 DEF Live, Derived, ShapeIn
    <3>2. CASE o \in new
      BY <3>1, <3>2, <1>7 DEF Derived, IdIsNew, new
    <3>3. CASE o \notin new
      BY <3>1, <3>3, <1>7 DEF Derived, IdStays, IdIsNone
    <3> QED
      BY <3>2, <3>3
  <2>2. ASSUME NEW o \in Live', NEW p \in Live', file'.id[o] = file'.id[p],
               file'.id[o] \in ids + 1..ids'
        PROVE  o = p
    <3>1. o \in Objects /\ p \in Objects
      BY <1>6 DEF Live, Derived, ShapeIn
    <3>2. o \in new /\ p \in new
      <4>1. None \notin ids + 1..ids'
        BY <1>1, <1>5, <1>10
      <4> QED
        BY <3>1, <2>2, <1>1, <1>5, <1>7, <4>1
    <3>3. nth[o] = nth[p]
      BY <3>1, <3>2, <2>2, <1>6
    <3> QED
      BY <3>2, <3>3, <1>3 DEF IsInjective
  <2>3. \A g \in given' \ given :
          g.object \in Live' /\ g.id = file'.id[g.object] /\ g.id # None /\ g.epoch = epoch'
    <3> TAKE g \in given' \ given
    <3>1. PICK o \in S : g = [id |-> file'.id[o], object |-> o, epoch |-> epoch]
      BY <1>4
    <3> QED
      BY <3>1, <1>6, <1>11 DEF Live
  <2>4. given \subseteq given' /\ file.copied \subseteq file'.copied
    BY <1>4, <1>6 DEF Derived
  <2> QED
    BY <2>1, <2>2, <2>3, <2>4, <1>5 DEF Became, IInv, TypeInv
<1> QED
  BY <1>6, <1>9, <1>11, <1>12

LEMMA CallKeeps ==
  ASSUME IInv, born \subseteq born', saved' = saved, epoch' = epoch, Tagged,
         NEW f, Derived(f), Careful(f), NEW S \in SUBSET DOMAIN f.name, Told(f, S),
         NEW o \in S, Says(f, o)
  PROVE  IInv'
<1>1. /\ TypeInv' /\ Became
      /\ file'.name = f.name /\ file'.mesh = f.mesh
      /\ file'.topo = f.topo /\ file'.rev = f.rev
      /\ \A p \in S : file'.id[p] # None
  BY ToldGives
<1>2. Careful(file')
  BY <1>1 DEF Careful
<1>3. \A h \in held' \ held : Learnt(h)
  <2>1. o \in Live' /\ file'.id[o] # None /\ file'.mesh[o] \in Meshes /\ file'.rev \in [Meshes -> Nat]
    BY <1>1 DEF Live, TypeInv, Shape, ShapeIn
  <2>2. CASE Learn(file', o)
    BY <2>1, <2>2 DEF Learn, Learnt
  <2>3. CASE Learn(file, o) /\ o \in Live /\ f.mesh[o] = file.mesh[o]
             /\ f.rev[f.mesh[o]] > file.rev[f.mesh[o]]
    <3>1. file.rev[file.mesh[o]] \in Nat
      BY <2>3, <2>1, <1>1 DEF IInv, TypeInv, Shape, ShapeIn
    <3> QED
      BY <2>1, <2>3, <3>1, <1>1 DEF Learn, Learnt
  <2> QED
    BY <2>2, <2>3 DEF Says
<1> QED
  BY <1>1, <1>2, <1>3, IdsKept, HeldKept DEF IInv

\* What a raised revision, a new topology, and both make of a file.
RaisedFrom(w, f, d) ==
  /\ w.name = f.name /\ w.id = f.id /\ w.copied = f.copied /\ w.mesh = f.mesh
  /\ w.topo = f.topo /\ w.rev = [f.rev EXCEPT ![d] = f.rev[d] + 1]
ChangedFrom(w, f, d) ==
  /\ w.name = f.name /\ w.id = f.id /\ w.copied = f.copied /\ w.mesh = f.mesh
  /\ w.topo = [f.topo EXCEPT ![d] = topos + 1] /\ w.rev = f.rev
WrittenFrom(w, f, d) ==
  /\ w.name = f.name /\ w.id = f.id /\ w.copied = f.copied /\ w.mesh = f.mesh
  /\ w.topo = [f.topo EXCEPT ![d] = topos + 1] /\ w.rev = [f.rev EXCEPT ![d] = f.rev[d] + 1]

LEMMA RaisedFields ==
  ASSUME NEW f, NEW b, NEW n, ShapeIn(f, b, n), NEW d \in Meshes
  PROVE  ShapeIn(Raised(f, d), b, n) /\ RaisedFrom(Raised(f, d), f, d)
BY DEF ShapeIn, Raised, RaisedFrom

LEMMA ChangedFields ==
  ASSUME NEW f, NEW b, NEW n, ShapeIn(f, b, n), NEW d \in Meshes, topos \in Nat
  PROVE  ShapeIn(Changed(f, d), b, n) /\ ChangedFrom(Changed(f, d), f, d)
BY DEF ShapeIn, Changed, ChangedFrom

LEMMA WrittenFields ==
  ASSUME NEW f, NEW b, NEW n, ShapeIn(f, b, n), NEW d \in Meshes, topos \in Nat
  PROVE  ShapeIn(Written(f, d), b, n) /\ WrittenFrom(Written(f, d), f, d)
<1> DEFINE g == Changed(f, d)
<1>1. ShapeIn(g, b, n) /\ ChangedFrom(g, f, d)
  BY ChangedFields
<1>2. Written(f, d) = Raised(g, d)
  BY DEF Written
<1> HIDE DEF g
<1>3. ShapeIn(Raised(g, d), b, n) /\ RaisedFrom(Raised(g, d), g, d)
  BY <1>1, RaisedFields
<1> QED
  BY <1>1, <1>2, <1>3 DEF ChangedFrom, RaisedFrom, WrittenFrom

\* A file like the present one, but that some meshes may be new or have a higher revision.
LEMMA CarefulFile ==
  ASSUME IInv, torn \subseteq torn', NEW f,
         \A o \in DOMAIN f.name \cap born : o \in Live /\ f.mesh[o] = file.mesh[o],
         \A d \in Meshes \cap born : \/ f.rev[d] = file.rev[d] + 1
                                     \/ f.rev[d] = file.rev[d] /\ f.topo[d] = file.topo[d]
  PROVE  Careful(f)
<1> SUFFICES ASSUME NEW o \in DOMAIN f.name \cap born, file.id[o] # None
             PROVE  LET d == file.mesh[o]
                    IN  \/ f.rev[d] > file.rev[d]
                        \/ /\ f.rev[d] = file.rev[d]
                           /\ d \in torn' \/ (d \notin torn /\ f.topo[d] = file.topo[d])
  BY DEF Careful
<1>1. file.mesh[o] \in Meshes \cap born /\ file.rev[file.mesh[o]] \in Nat
  BY DEF IInv, TypeInv, Shape, ShapeIn, Live
<1> QED
  BY <1>1

LEMMA LiveMesh ==
  ASSUME IInv, NEW o \in Live
  PROVE  o \in Objects /\ o \in born /\ file.mesh[o] \in Meshes \cap born
BY DEF IInv, TypeInv, Shape, ShapeIn, Live

LEMMA WriteStep ==
  ASSUME IInv, NEW o \in Live, Told(Written(file, file.mesh[o]), {o}),
         Says(Written(file, file.mesh[o]), o),
         UNCHANGED <<born, saved, epoch, torn>>, topos' = topos + 1, tagged \subseteq tagged'
  PROVE  IInv'
<1> DEFINE d == file.mesh[o]
           f == Written(file, d)
<1>1. ShapeIn(file, born, ids) /\ topos \in Nat /\ d \in Meshes
  BY LiveMesh DEF IInv, TypeInv, Shape
<1>2. /\ ShapeIn(f, born, ids)
      /\ f.name = file.name /\ f.id = file.id /\ f.copied = file.copied /\ f.mesh = file.mesh
      /\ f.topo = [file.topo EXCEPT ![d] = topos + 1]
      /\ f.rev = [file.rev EXCEPT ![d] = file.rev[d] + 1]
  <2>1. ShapeIn(f, born, ids) /\ WrittenFrom(f, file, d)
    BY <1>1, WrittenFields
  <2> QED
    BY <2>1 DEF WrittenFrom
<1> HIDE DEF f
<1>3. Derived(f)
  BY <1>2 DEF Derived, Live
<1>4. Careful(f)
  BY <1>1, <1>2, CarefulFile DEF Live, ShapeIn
<1>5. Tagged /\ {o} \in SUBSET DOMAIN f.name
  BY <1>1, <1>2 DEF Tagged, IInv, TypeInv, Live
<1> QED
  BY <1>3, <1>4, <1>5, CallKeeps DEF f

LEMMA LookStep ==
  ASSUME IInv, NEW o \in Live, Told(file, {o}), Learn(file', o),
         UNCHANGED <<born, saved, epoch, torn, topos>>, tagged \subseteq tagged'
  PROVE  IInv'
<1>1. ShapeIn(file, born, ids)
  BY DEF IInv, TypeInv, Shape
<1>2. Derived(file)
  BY <1>1 DEF Derived, Live
<1>3. Careful(file)
  BY CarefulFile DEF Live
<1>4. Tagged /\ {o} \in SUBSET DOMAIN file.name
  BY DEF Tagged, IInv, TypeInv, Live
<1> QED
  BY <1>2, <1>3, <1>4, CallKeeps DEF Says

LEMMA EditStep == ASSUME IInv, NEW r, r.object \in Live, Edit(r) PROVE IInv'
BY WriteStep DEF Edit, Says

LEMMA TouchStep == ASSUME IInv, NEW r, r.object \in Live, Touch(r) PROVE IInv'
BY LookStep DEF Touch

LEMMA BevelStep == ASSUME IInv, NEW r, r.object \in Live, Bevel(r) PROVE IInv'
<1> DEFINE d == file.mesh[r.object]
<1>1. CASE r.type # "VERTEX"
  BY <1>1, EditStep DEF Bevel
<1>2. CASE r.type = "VERTEX"
  <2>1. Says(Written(file, d), r.object)
    <3>1. /\ Written(file, d).mesh = file.mesh
          /\ Written(file, d).rev = [file.rev EXCEPT ![d] = file.rev[d] + 1]
      <4>1. ShapeIn(file, born, ids) /\ topos \in Nat /\ d \in Meshes
        BY LiveMesh DEF IInv, TypeInv, Shape
      <4> HIDE DEF d
      <4>2. WrittenFrom(Written(file, d), file, d)
        BY <4>1, WrittenFields
      <4> QED
        BY <4>2 DEF WrittenFrom
    <3>2. file.rev \in [Meshes -> Nat] /\ d \in Meshes
      BY LiveMesh DEF IInv, TypeInv, Shape, ShapeIn
    <3>3. Learn(file, r.object)
      BY <1>2 DEF Bevel
    <3> QED
      BY <3>1, <3>2, <3>3 DEF Says
  <2> QED
    BY <1>2, <2>1, WriteStep DEF Bevel
<1> QED
  BY <1>1, <1>2

LEMMA MeshSteps ==
  ASSUME IInv, NEW r \in Requests, EditMesh(r) \/ TouchMesh(r)
  PROVE  IInv'
<1>1. r.object \in Live
  BY DEF Requests
<1>2. CASE Bevel(r)
  BY <1>1, <1>2, BevelStep
<1>3. CASE TouchMesh(r)
  <2>1. Touch(r)
    BY <1>3 DEF TouchMesh, RecalculateNormals, FlipNormals, Analyze, SetSeam, Unwrap
  <2> QED
    BY <1>1, <2>1, TouchStep
<1>4. CASE EditMesh(r) /\ ~Bevel(r)
  <2>1. Edit(r)
    BY <1>4 DEF EditMesh, Extrude, Inset, Subdivide, LoopCut, Dissolve, DeleteElements,
       MergeVertices, Fill, BridgeEdgeLoops, Triangulate, QuadsFromTris
  <2> QED
    BY <1>1, <2>1, EditStep
<1> QED
  BY <1>2, <1>3, <1>4

LEMMA ReadStep == ASSUME IInv, NEW o \in Live, Read(o) PROVE IInv'
BY LookStep DEF Read

\* A step that tells nobody anything.
LEMMA QuietKeeps ==
  ASSUME IInv, UNCHANGED <<saved, epoch, ids, given, held>>, born \subseteq born', Tagged,
         ShapeIn(file', born', ids), file.copied \subseteq file'.copied,
         \A o \in Live' : IdStays(o) \/ IdIsNone(o),
         Careful(file')
  PROVE  IInv'
<1>1. TypeInv'
  BY SavedKept DEF TypeInv, Shape, Tagged, IInv
<1>2. Became
  BY DEF Became, IInv, TypeInv
<1> QED
  BY <1>1, <1>2, IdsKept, HeldKept DEF IInv

LEMMA ApplyStep ==
  ASSUME IInv, NEW o \in Live, NEW several, NEW fails, ApplyModifiers(o, several, fails)
  PROVE  IInv'
<1> DEFINE d == file.mesh[o]
           f == Changed(file, d)
<1>1. CASE ~fails
  BY <1>1, WriteStep DEF ApplyModifiers, Says
<1>2. CASE fails
  <2>1. ShapeIn(file, born, ids) /\ topos \in Nat /\ d \in Meshes
    BY LiveMesh DEF IInv, TypeInv, Shape
  <2>2. /\ ShapeIn(f, born, ids)
        /\ f.name = file.name /\ f.id = file.id /\ f.copied = file.copied /\ f.mesh = file.mesh
        /\ f.topo = [file.topo EXCEPT ![d] = topos + 1] /\ f.rev = file.rev
    <3> HIDE DEF d
    <3>1. ShapeIn(f, born, ids) /\ ChangedFrom(f, file, d)
      BY <2>1, ChangedFields
    <3> QED
      BY <3>1 DEF ChangedFrom
  <2>3. /\ file' = f /\ torn' = torn \cup {d} /\ tagged' = tagged \cup {d} /\ topos' = topos + 1
        /\ UNCHANGED <<saved, epoch, naming, held>>
    BY <1>2 DEF ApplyModifiers
  <2> HIDE DEF f
  <2>4. Careful(file')
    <3> SUFFICES ASSUME NEW p \in DOMAIN file'.name \cap born
                 PROVE  /\ p \in Live /\ file'.mesh[p] = file.mesh[p]
                        /\ file'.rev[file.mesh[p]] = file.rev[file.mesh[p]]
                        /\ \/ file.mesh[p] \in torn'
                           \/ /\ file.mesh[p] \notin torn
                              /\ file'.topo[file.mesh[p]] = file.topo[file.mesh[p]]
                           \/ file.mesh[p] \in torn
      BY <2>3 DEF Careful
    <3> QED
      BY <2>1, <2>2, <2>3, LiveMesh DEF Live, ShapeIn
  <2>5. Tagged /\ ids' = ids /\ born' = born
    BY <2>1, <2>3 DEF Tagged, IInv, TypeInv, naming
  <2>6. \A p \in Live' : IdStays(p)
    BY <2>2, <2>3 DEF IdStays, Live
  <2> QED
    BY <2>2, <2>3, <2>4, <2>5, <2>6, QuietKeeps DEF naming
<1> QED
  BY <1>1, <1>2

LEMMA CreateStep ==
  ASSUME IInv, NEW o \in Objects, NEW n \in Names, NEW d \in Meshes, Create(o, n, d)
  PROVE  IInv'
<1> DEFINE e == [file EXCEPT !.name = With(file.name, o, n), !.id[o] = None, !.mesh[o] = d]
           f == Written(e, d)
<1>1. ShapeIn(file, born, ids) /\ topos \in Nat
  BY DEF IInv, TypeInv, Shape
<1>2. /\ o \notin born /\ d \notin born /\ born' = born \cup {o, d} /\ topos' = topos + 1
      /\ Told(f, {o}) /\ Learn(file', o) /\ UNCHANGED <<saved, tagged, torn, epoch>>
  BY DEF Create
<1>3. /\ ShapeIn(e, born', ids)
      /\ DOMAIN e.name = Live \cup {o}
      /\ e.id = [file.id EXCEPT ![o] = None] /\ e.copied = file.copied
      /\ e.mesh = [file.mesh EXCEPT ![o] = d] /\ e.topo = file.topo /\ e.rev = file.rev
  <2>1. /\ e.name = With(file.name, o, n)
        /\ e.id = [file.id EXCEPT ![o] = None] /\ e.copied = file.copied
        /\ e.mesh = [file.mesh EXCEPT ![o] = d] /\ e.topo = file.topo /\ e.rev = file.rev
        /\ DOMAIN e = {"name", "id", "copied", "mesh", "topo", "rev"}
    BY <1>1 DEF ShapeIn
  <2>2. DOMAIN e.name = Live \cup {o}
    BY <2>1 DEF With, Live
  <2> HIDE DEF e
  <2> QED
    BY <1>1, <1>2, <2>1, <2>2 DEF ShapeIn, Live
<1> HIDE DEF e
<1>4. /\ ShapeIn(f, born', ids)
      /\ f.name = e.name /\ f.id = e.id /\ f.copied = e.copied /\ f.mesh = e.mesh
      /\ f.topo = [e.topo EXCEPT ![d] = topos + 1]
      /\ f.rev = [e.rev EXCEPT ![d] = e.rev[d] + 1]
  <2>1. ShapeIn(f, born', ids) /\ WrittenFrom(f, e, d)
    BY <1>1, <1>3, WrittenFields
  <2> QED
    BY <2>1 DEF WrittenFrom
<1> HIDE DEF f
<1>5. Derived(f)
  BY <1>1, <1>2, <1>3, <1>4 DEF Derived, Live, ShapeIn
<1>6. Careful(f)
  <2>1. \A p \in DOMAIN f.name \cap born : p \in Live /\ f.mesh[p] = file.mesh[p]
    BY <1>1, <1>2, <1>3, <1>4 DEF Live, ShapeIn
  <2>2. \A c \in Meshes \cap born : f.rev[c] = file.rev[c] /\ f.topo[c] = file.topo[c]
    BY <1>1, <1>2, <1>3, <1>4 DEF ShapeIn
  <2> QED
    BY <1>2, <2>1, <2>2, CarefulFile
<1>7. Tagged /\ {o} \in SUBSET DOMAIN f.name
  BY <1>1, <1>2, <1>3, <1>4 DEF Tagged, IInv, TypeInv
<1> QED
  BY <1>2, <1>5, <1>6, <1>7, CallKeeps DEF Says

LEMMA CopyFields ==
  ASSUME IInv, NEW o \in Live, NEW p \in Objects, NEW n \in Names
  PROVE  LET e == OwnCopyOf(file, o, p, n)
         IN  /\ DOMAIN e = {"name", "id", "copied", "mesh", "topo", "rev"}
             /\ DOMAIN e.name = Live \cup {p}
             /\ e.id = [file.id EXCEPT ![p] = None] /\ e.copied = file.copied
             /\ e.mesh = file.mesh /\ e.topo = file.topo /\ e.rev = file.rev
BY DEF OwnCopyOf, With, Live, IInv, TypeInv, Shape, ShapeIn

LEMMA DuplicateStep ==
  ASSUME IInv, NEW o \in Live, NEW p \in Objects, NEW n \in Names, NEW linked \in BOOLEAN,
         NEW d \in Meshes, Duplicate(o, p, n, linked, d)
  PROVE  IInv'
<1> DEFINE e == OwnCopyOf(file, o, p, n)
           c == file.mesh[o]
           l == [e EXCEPT !.mesh[p] = c]
           m == [e EXCEPT !.mesh[p] = d, !.topo[d] = file.topo[c], !.rev[d] = file.rev[c]]
           f == IF linked THEN l ELSE Raised(m, d)
<1>1. ShapeIn(file, born, ids) /\ topos \in Nat /\ c \in Meshes \cap born
      /\ file.topo[c] \in Nat /\ file.rev[c] \in Nat
  BY LiveMesh DEF IInv, TypeInv, Shape, ShapeIn
<1>2. /\ p \notin born /\ (linked \/ d \notin born)
      /\ born' = born \cup {p} \cup IF linked THEN {} ELSE {d}
      /\ Told(f, {p}) /\ Learn(file', p) /\ UNCHANGED <<saved, tagged, torn, topos, epoch>>
  BY DEF Duplicate
<1>3. /\ DOMAIN e = {"name", "id", "copied", "mesh", "topo", "rev"}
      /\ DOMAIN e.name = Live \cup {p}
      /\ e.id = [file.id EXCEPT ![p] = None] /\ e.copied = file.copied
      /\ e.mesh = file.mesh /\ e.topo = file.topo /\ e.rev = file.rev
  BY CopyFields
<1> HIDE DEF c, e
<1>4. /\ DOMAIN l = {"name", "id", "copied", "mesh", "topo", "rev"}
      /\ l.name = e.name /\ l.id = e.id /\ l.copied = e.copied
      /\ l.mesh = [e.mesh EXCEPT ![p] = c] /\ l.topo = e.topo /\ l.rev = e.rev
  BY <1>3
<1>5. /\ DOMAIN m = {"name", "id", "copied", "mesh", "topo", "rev"}
      /\ m.name = e.name /\ m.id = e.id /\ m.copied = e.copied
      /\ m.mesh = [e.mesh EXCEPT ![p] = d] /\ m.topo = [e.topo EXCEPT ![d] = file.topo[c]]
      /\ m.rev = [e.rev EXCEPT ![d] = file.rev[c]]
  BY <1>3
<1> HIDE DEF l, m
<1>6. linked => ShapeIn(l, born', ids)
  BY <1>1, <1>2, <1>3, <1>4 DEF ShapeIn, Live
<1>7. ~linked => ShapeIn(m, born', ids)
  BY <1>1, <1>2, <1>3, <1>5 DEF ShapeIn, Live
<1>8. /\ ShapeIn(f, born', ids)
      /\ f.name = e.name /\ f.id = e.id /\ f.copied = e.copied
      /\ \A q \in Objects : q # p => f.mesh[q] = file.mesh[q]
      /\ \A b \in Meshes \cap born : f.topo[b] = file.topo[b] /\ f.rev[b] = file.rev[b]
  <2>1. CASE linked
    BY <2>1, <1>1, <1>3, <1>4, <1>6 DEF ShapeIn
  <2>2. CASE ~linked
    <3>1. /\ ShapeIn(Raised(m, d), born', ids)
          /\ Raised(m, d).name = m.name /\ Raised(m, d).id = m.id
          /\ Raised(m, d).copied = m.copied /\ Raised(m, d).mesh = m.mesh
          /\ Raised(m, d).topo = m.topo /\ Raised(m, d).rev = [m.rev EXCEPT ![d] = m.rev[d] + 1]
      <4>1. ShapeIn(Raised(m, d), born', ids) /\ RaisedFrom(Raised(m, d), m, d)
        BY <2>2, <1>7, RaisedFields
      <4> QED
        BY <4>1 DEF RaisedFrom
    <3>2. d \notin born
      BY <2>2, <1>2
    <3> QED
      BY <2>2, <3>1, <3>2, <1>1, <1>3, <1>5 DEF ShapeIn
  <2> QED
    BY <2>1, <2>2
<1> HIDE DEF f
<1>9. Derived(f)
  BY <1>1, <1>2, <1>3, <1>8 DEF Derived, Live, ShapeIn
<1>10. Careful(f)
  <2>1. \A q \in DOMAIN f.name \cap born : q \in Live /\ f.mesh[q] = file.mesh[q]
    BY <1>1, <1>2, <1>3, <1>8 DEF Live, ShapeIn
  <2> QED
    BY <1>2, <1>8, <2>1, CarefulFile
<1>11. Tagged /\ {p} \in SUBSET DOMAIN f.name
  BY <1>1, <1>2, <1>3, <1>8 DEF Tagged, IInv, TypeInv
<1> QED
  BY <1>2, <1>9, <1>10, <1>11, CallKeeps DEF Says

LEMMA SeparateStep ==
  ASSUME IInv, NEW o \in Live, NEW p \in Objects, NEW n \in Names, NEW d \in Meshes,
         Separate(o, p, n, d)
  PROVE  IInv'
<1> DEFINE e == OwnCopyOf(file, o, p, n)
           c == file.mesh[o]
           m == [e EXCEPT !.mesh[p] = d, !.rev[d] = file.rev[c]]
           t == [Raised(m, d) EXCEPT !.topo[d] = topos + 1]
           f == Written(t, c)
<1>1. ShapeIn(file, born, ids) /\ topos \in Nat /\ c \in Meshes \cap born
      /\ file.rev[c] \in Nat
  BY LiveMesh DEF IInv, TypeInv, Shape, ShapeIn
<1>2. /\ p \notin born /\ d \notin born /\ born' = born \cup {p, d} /\ topos' = topos + 1
      /\ Told(f, {o, p}) /\ Learn(file', o) /\ tagged' = tagged \cup {c}
      /\ UNCHANGED <<saved, torn, epoch>>
  BY DEF Separate
<1>3. /\ DOMAIN e = {"name", "id", "copied", "mesh", "topo", "rev"}
      /\ DOMAIN e.name = Live \cup {p}
      /\ e.id = [file.id EXCEPT ![p] = None] /\ e.copied = file.copied
      /\ e.mesh = file.mesh /\ e.topo = file.topo /\ e.rev = file.rev
  BY CopyFields
<1> HIDE DEF c, e
<1>4. /\ DOMAIN m = {"name", "id", "copied", "mesh", "topo", "rev"}
      /\ m.name = e.name /\ m.id = e.id /\ m.copied = e.copied
      /\ m.mesh = [e.mesh EXCEPT ![p] = d] /\ m.topo = e.topo
      /\ m.rev = [e.rev EXCEPT ![d] = file.rev[c]]
  BY <1>3
<1> HIDE DEF m
<1>5. ShapeIn(m, born', ids)
  BY <1>1, <1>2, <1>3, <1>4 DEF ShapeIn, Live
<1>6. /\ ShapeIn(Raised(m, d), born', ids)
      /\ Raised(m, d).name = m.name /\ Raised(m, d).id = m.id
      /\ Raised(m, d).copied = m.copied /\ Raised(m, d).mesh = m.mesh
      /\ Raised(m, d).topo = m.topo /\ Raised(m, d).rev = [m.rev EXCEPT ![d] = m.rev[d] + 1]
  <2>1. ShapeIn(Raised(m, d), born', ids) /\ RaisedFrom(Raised(m, d), m, d)
    BY <1>5, RaisedFields
  <2> QED
    BY <2>1 DEF RaisedFrom
<1>7. /\ ShapeIn(t, born', ids)
      /\ t.name = m.name /\ t.id = m.id /\ t.copied = m.copied /\ t.mesh = m.mesh
      /\ t.topo = [m.topo EXCEPT ![d] = topos + 1]
      /\ t.rev = [m.rev EXCEPT ![d] = m.rev[d] + 1]
  BY <1>1, <1>6 DEF ShapeIn
<1> HIDE DEF t
<1>8. /\ ShapeIn(f, born', ids)
      /\ f.name = t.name /\ f.id = t.id /\ f.copied = t.copied /\ f.mesh = t.mesh
      /\ f.topo = [t.topo EXCEPT ![c] = topos + 1]
      /\ f.rev = [t.rev EXCEPT ![c] = t.rev[c] + 1]
  <2>1. ShapeIn(t, born', ids) /\ c \in Meshes /\ topos \in Nat
    BY <1>1, <1>7
  <2>2. ShapeIn(f, born', ids) /\ WrittenFrom(f, t, c)
    BY <2>1, WrittenFields
  <2> QED
    BY <2>2 DEF WrittenFrom
<1> HIDE DEF f
<1>9. Derived(f)
  BY <1>1, <1>2, <1>3, <1>4, <1>7, <1>8 DEF Derived, Live, ShapeIn
<1>10. Careful(f)
  <2>1. \A q \in DOMAIN f.name \cap born : q \in Live /\ f.mesh[q] = file.mesh[q]
    BY <1>1, <1>2, <1>3, <1>4, <1>7, <1>8 DEF Live, ShapeIn
  <2>2. \A b \in Meshes \cap born : \/ f.rev[b] = file.rev[b] + 1
                                    \/ f.rev[b] = file.rev[b] /\ f.topo[b] = file.topo[b]
    <3>1. \A b \in Meshes \cap born : t.rev[b] = file.rev[b] /\ t.topo[b] = file.topo[b]
      BY <1>1, <1>2, <1>3, <1>4, <1>7 DEF ShapeIn
    <3> QED
      BY <1>1, <1>7, <1>8, <3>1 DEF ShapeIn
  <2> QED
    BY <1>2, <2>1, <2>2, CarefulFile
<1>11. Tagged /\ {o, p} \in SUBSET DOMAIN f.name
  BY <1>1, <1>2, <1>3, <1>4, <1>7, <1>8 DEF Tagged, IInv, TypeInv
<1> QED
  BY <1>2, <1>9, <1>10, <1>11, CallKeeps DEF Says

LEMMA JoinStep ==
  ASSUME IInv, NEW o \in Live, NEW p \in Live, Join(o, p)
  PROVE  IInv'
<1> DEFINE e == [file EXCEPT !.name = [q \in Live \ {p} |-> file.name[q]]]
           c == file.mesh[o]
           f == Written(e, c)
<1>1. ShapeIn(file, born, ids) /\ topos \in Nat /\ c \in Meshes \cap born
  BY LiveMesh DEF IInv, TypeInv, Shape
<1>2. /\ o # p /\ Told(f, {o}) /\ Learn(file', o) /\ topos' = topos + 1
      /\ tagged' = tagged \cup {c} /\ UNCHANGED <<saved, torn, born, epoch>>
  BY DEF Join
<1>3. /\ ShapeIn(e, born, ids)
      /\ DOMAIN e.name = Live \ {p}
      /\ e.id = file.id /\ e.copied = file.copied
      /\ e.mesh = file.mesh /\ e.topo = file.topo /\ e.rev = file.rev
  BY <1>1 DEF ShapeIn, Live
<1> HIDE DEF c, e
<1>4. /\ ShapeIn(f, born, ids)
      /\ f.name = e.name /\ f.id = e.id /\ f.copied = e.copied /\ f.mesh = e.mesh
      /\ f.topo = [e.topo EXCEPT ![c] = topos + 1]
      /\ f.rev = [e.rev EXCEPT ![c] = e.rev[c] + 1]
  <2>1. ShapeIn(f, born, ids) /\ WrittenFrom(f, e, c)
    BY <1>1, <1>3, WrittenFields
  <2> QED
    BY <2>1 DEF WrittenFrom
<1> HIDE DEF f
<1>5. Derived(f)
  BY <1>1, <1>2, <1>3, <1>4 DEF Derived, Live
<1>6. Careful(f)
  BY <1>1, <1>2, <1>3, <1>4, CarefulFile DEF ShapeIn
<1>7. Tagged /\ {o} \in SUBSET DOMAIN f.name
  BY <1>1, <1>2, <1>3, <1>4 DEF Tagged, IInv, TypeInv
<1> QED
  BY <1>2, <1>5, <1>6, <1>7, CallKeeps DEF Says

LEMMA RenameStep ==
  ASSUME IInv, NEW o \in Live, NEW n \in Names, Rename(o, n)
  PROVE  IInv'
<1> DEFINE f == [file EXCEPT !.name[o] = n]
<1>1. ShapeIn(file, born, ids)
  BY DEF IInv, TypeInv, Shape
<1>2. Told(f, {o}) /\ UNCHANGED <<saved, tagged, torn, held, topos, born, epoch>>
  BY DEF Rename, meshes
<1>3. /\ ShapeIn(f, born, ids)
      /\ DOMAIN f.name = Live
      /\ f.id = file.id /\ f.copied = file.copied
      /\ f.mesh = file.mesh /\ f.topo = file.topo /\ f.rev = file.rev
  BY <1>1 DEF ShapeIn, Live
<1> HIDE DEF f
<1>4. Derived(f)
  BY <1>1, <1>2, <1>3 DEF Derived, Live
<1>5. Careful(f)
  BY <1>1, <1>2, <1>3, CarefulFile DEF ShapeIn
<1>6. Tagged /\ {o} \in SUBSET DOMAIN f.name
  BY <1>2, <1>3 DEF Tagged, IInv, TypeInv
<1> QED
  BY <1>2, <1>4, <1>5, <1>6, CallKeeps DEF Says

LEMMA DeleteStep ==
  ASSUME IInv, NEW o \in Live, Delete(o)
  PROVE  IInv'
<1>1. ShapeIn(file, born, ids)
  BY DEF IInv, TypeInv, Shape
<1>2. /\ file' = [file EXCEPT !.name = [q \in Live \ {o} |-> file.name[q]]]
      /\ UNCHANGED <<saved, given, ids, tagged, torn, held, topos, born, epoch>>
  BY DEF Delete, meshes
<1>3. /\ ShapeIn(file', born, ids)
      /\ Live' = Live \ {o} /\ Live' = DOMAIN file'.name
      /\ file'.id = file.id /\ file'.copied = file.copied
      /\ file'.mesh = file.mesh /\ file'.topo = file.topo /\ file'.rev = file.rev
  BY <1>1, <1>2 DEF ShapeIn, Live
<1>4. Careful(file')
  BY <1>2, <1>3, CarefulFile
<1>5. Tagged
  BY <1>2 DEF Tagged, IInv, TypeInv
<1>6. \A p \in Live' : IdStays(p)
  BY <1>3 DEF IdStays
<1> QED
  BY <1>2, <1>3, <1>4, <1>5, <1>6, QuietKeeps

\* What changes neither the file nor what anybody was told.
LEMMA StillKeeps ==
  ASSUME IInv, UNCHANGED <<file, epoch, ids, given, held, tagged, torn, topos, born>>,
         saved' \in {saved, file}
  PROVE  IInv'
<1>1. TypeInv'
  BY DEF IInv, TypeInv, Shape
<1>2. OneBearer'
  <2>1. \A i : Bearers(i)' \subseteq Bearers(i)
    BY DEF Bearers, Live
  <2> QED
    BY <2>1 DEF OneBearer, IInv
<1>3. GivenInv' /\ HeldInv'
  BY DEF GivenInv, HeldInv, IInv, Live
<1> QED
  BY <1>1, <1>2, <1>3 DEF IInv

LEMMA UserRenamesStep ==
  ASSUME IInv, NEW o \in Live, NEW n \in Names, UserRenames(o, n)
  PROVE  IInv'
<1>1. ShapeIn(file, born, ids)
  BY DEF IInv, TypeInv, Shape
<1>2. /\ file' = [file EXCEPT !.name[o] = n]
      /\ UNCHANGED <<saved, given, ids, tagged, torn, held, topos, born, epoch>>
  BY DEF UserRenames, naming, meshes
<1>3. /\ ShapeIn(file', born, ids)
      /\ Live' = Live /\ Live' = DOMAIN file'.name
      /\ file'.id = file.id /\ file'.copied = file.copied
      /\ file'.mesh = file.mesh /\ file'.topo = file.topo /\ file'.rev = file.rev
  BY <1>1, <1>2 DEF ShapeIn, Live
<1>4. Careful(file')
  BY <1>2, <1>3, CarefulFile
<1>5. Tagged
  BY <1>2 DEF Tagged, IInv, TypeInv
<1>6. \A p \in Live' : IdStays(p)
  BY <1>3 DEF IdStays
<1> QED
  BY <1>2, <1>3, <1>4, <1>5, <1>6, QuietKeeps

LEMMA UserCopiesStep ==
  ASSUME IInv, NEW o \in Live, NEW p \in Objects, NEW n \in Names, UserCopies(o, p, n)
  PROVE  IInv'
<1>1. ShapeIn(file, born, ids) /\ file.mesh[o] \in Meshes \cap born /\ o \in Objects
  BY LiveMesh DEF IInv, TypeInv, Shape
<1>2. /\ p \notin born /\ born' = born \cup {p}
      /\ file' = [CopyOf(file, o, p, n) EXCEPT !.mesh[p] = file.mesh[o],
                    !.copied = @ \cup ({file.id[o]} \ {None})]
      /\ UNCHANGED <<saved, given, ids, tagged, torn, held, topos, epoch>>
  BY DEF UserCopies, meshes
<1>3. /\ DOMAIN file' = {"name", "id", "copied", "mesh", "topo", "rev"}
      /\ file'.name = With(file.name, p, n)
      /\ file'.id = [file.id EXCEPT ![p] = file.id[o]]
      /\ file'.copied = file.copied \cup ({file.id[o]} \ {None})
      /\ file'.mesh = [file.mesh EXCEPT ![p] = file.mesh[o]]
      /\ file'.topo = file.topo /\ file'.rev = file.rev
  BY <1>1, <1>2 DEF ShapeIn, CopyOf
<1>4. Live' = Live \cup {p} /\ Live' = DOMAIN file'.name
  BY <1>3 DEF Live, With
<1>5. ShapeIn(file', born', ids)
  <2>1. DOMAIN file'.name \subseteq Objects \cap born'
    BY <1>1, <1>2, <1>4 DEF ShapeIn, Live
  <2>2. file'.id \in [Objects -> 1..ids \cup {None}] /\ file'.mesh \in [Objects -> Meshes]
    BY <1>1, <1>3 DEF ShapeIn
  <2>3. \A q \in DOMAIN file'.name : file'.mesh[q] \in born'
    BY <1>1, <1>2, <1>3, <1>4 DEF ShapeIn, Live
  <2> QED
    BY <1>1, <1>3, <2>1, <2>2, <2>3 DEF ShapeIn
<1>6. \A q \in Live' : q # p => q \in Live /\ q \in Objects /\ file'.id[q] = file.id[q]
                                /\ file'.mesh[q] = file.mesh[q]
  BY <1>1, <1>3, <1>4 DEF ShapeIn, Live
<1>7. Careful(file')
  <2>1. \A q \in DOMAIN file'.name \cap born : q \in Live /\ file'.mesh[q] = file.mesh[q]
    BY <1>2, <1>4, <1>6
  <2> QED
    BY <1>2, <1>3, <2>1, CarefulFile
<1>8. Tagged
  BY <1>2 DEF Tagged, IInv, TypeInv
<1>9. \A q \in Live' : IdStays(q) \/ IdIsNone(q)
  <2>1. IdIsNone(p)
    BY <1>1, <1>2, <1>3 DEF IdIsNone, ShapeIn
  <2> QED
    BY <1>6, <2>1 DEF IdStays
<1> QED
  BY <1>2, <1>3, <1>5, <1>7, <1>8, <1>9, QuietKeeps

LEMMA UnseenStep ==
  ASSUME IInv, NEW d \in Meshes, UserEditsUnseen(d)
  PROVE  IInv'
<1>1. ShapeIn(file, born, ids) /\ topos \in Nat /\ epoch \in Nat
  BY DEF IInv, TypeInv, Shape
<1>2. /\ file' = Changed(file, d) /\ topos' = topos + 1 /\ epoch' = epoch + 1
      /\ UNCHANGED <<saved, given, ids, tagged, torn, held, born>>
  BY DEF UserEditsUnseen
<1>3. /\ ShapeIn(file', born, ids)
      /\ file'.name = file.name /\ file'.id = file.id /\ file'.copied = file.copied
  <2>1. ShapeIn(file', born, ids) /\ ChangedFrom(file', file, d)
    BY <1>1, <1>2, ChangedFields
  <2> QED
    BY <2>1 DEF ChangedFrom
<1>4. TypeInv'
  BY <1>1, <1>2, <1>3 DEF IInv, TypeInv, Shape
<1>5. Became
  BY <1>1, <1>2, <1>3 DEF Became, IdStays, Live, IInv, TypeInv
<1> QED
  BY <1>2, <1>4, <1>5, IdsKept, HeldKept DEF IInv

LEMMA UndoStep ==
  ASSUME IInv, Undo
  PROVE  IInv'
<1>1. ShapeIn(saved, born, ids) /\ saved.copied \subseteq file.copied /\ epoch \in Nat /\ saved # None
  BY DEF IInv, TypeInv, Shape, Undo
<1>2. /\ file' = [saved EXCEPT !.copied = @ \cup file.copied] /\ epoch' = epoch + 1
      /\ UNCHANGED <<saved, given, ids, tagged, torn, held, topos, born>>
  BY DEF Undo, meshes
<1>3. /\ ShapeIn(file', born, ids) /\ file'.copied = file.copied
      /\ file'.name = saved.name /\ file'.id = saved.id
  BY <1>1, <1>2 DEF ShapeIn
<1>4. TypeInv'
  BY <1>1, <1>2, <1>3 DEF IInv, TypeInv, Shape
<1>5. OneBearer'
  <2>1. \A i : Bearers(i)' \subseteq Bearers(i)
    BY <1>1, <1>2, <1>3 DEF Bearers, Live, ShapeIn
  <2> QED
    BY <1>2, <1>3, <2>1 DEF OneBearer, IInv
<1>6. GivenInv'
  BY <1>1, <1>2 DEF GivenInv, IInv
<1>7. HeldInv'
  BY <1>2, <1>4, HeldKept
<1> QED
  BY <1>4, <1>5, <1>6, <1>7 DEF IInv

LEMMA ReportStep ==
  ASSUME IInv, Report
  PROVE  IInv'
<1> DEFINE users(d) == { o \in Live : file.mesh[o] = d /\ file.id[o] # None }
           more(d)  == IF d \in tagged THEN Cardinality(users(d)) ELSE 0
<1>1. ShapeIn(file, born, ids) /\ torn \subseteq tagged
  BY DEF IInv, TypeInv, Shape
<1>2. /\ file' = [file EXCEPT !.rev = [d \in Meshes |-> file.rev[d] + more(d)]]
      /\ tagged' = {} /\ torn' = {}
      /\ UNCHANGED <<saved, given, ids, born, held, topos, epoch>>
  BY DEF Report, naming
<1>3. \A d : IsFiniteSet(users(d)) /\ Cardinality(users(d)) \in Nat
  <2> SUFFICES ASSUME NEW d PROVE IsFiniteSet(users(d)) /\ Cardinality(users(d)) \in Nat
    OBVIOUS
  <2>1. users(d) \subseteq Objects
    BY <1>1 DEF ShapeIn, Live
  <2> QED
    BY <2>1, BoundAssumption, FS_Subset, FS_CardinalityType
<1>4. \A o \in Live : file.id[o] # None => Cardinality(users(file.mesh[o])) > 0
  <2> SUFFICES ASSUME NEW o \in Live, file.id[o] # None
               PROVE  Cardinality(users(file.mesh[o])) > 0
    OBVIOUS
  <2>1. o \in users(file.mesh[o])
    OBVIOUS
  <2> DEFINE S == users(file.mesh[o])
  <2>2. IsFiniteSet(S) /\ Cardinality(S) \in Nat /\ S # {}
    BY <1>3, <2>1
  <2> HIDE DEF S
  <2>3. Cardinality(S) > 0
    BY <2>2, FS_EmptySet
  <2> QED
    BY <2>3 DEF S
<1>5. \A d \in Meshes : more(d) \in Nat
  BY <1>3
<1> HIDE DEF more
<1>6. /\ ShapeIn(file', born, ids)
      /\ Live' = Live /\ Live' = DOMAIN file'.name
      /\ file'.id = file.id /\ file'.copied = file.copied
      /\ file'.mesh = file.mesh /\ file'.topo = file.topo
      /\ file'.rev = [d \in Meshes |-> file.rev[d] + more(d)]
  BY <1>1, <1>2, <1>5 DEF ShapeIn, Live
<1>7. Careful(file')
  <2> SUFFICES ASSUME NEW o \in Live, file.id[o] # None
               PROVE  LET d == file.mesh[o]
                      IN  \/ file'.rev[d] > file.rev[d]
                          \/ file'.rev[d] = file.rev[d] /\ d \notin torn
    BY <1>6 DEF Careful
  <2> DEFINE d == file.mesh[o]
  <2>1. d \in Meshes /\ file.rev[d] \in Nat /\ file'.rev[d] = file.rev[d] + more(d)
    BY <1>1, <1>6, LiveMesh DEF ShapeIn
  <2>2. CASE d \in tagged
    <3>1. more(d) \in Nat /\ more(d) > 0
      BY <2>2, <1>3, <1>4 DEF more
    <3> QED
      BY <2>1, <3>1
  <2>3. CASE d \notin tagged
    <3>1. more(d) = 0
      BY <2>3 DEF more
    <3> QED
      BY <2>1, <2>3, <3>1, <1>1
  <2> QED
    BY <2>2, <2>3
<1>8. Tagged
  BY <1>2 DEF Tagged, IInv, TypeInv
<1>9. \A p \in Live' : IdStays(p)
  BY <1>6 DEF IdStays
<1> QED
  BY <1>2, <1>6, <1>7, <1>8, <1>9, QuietKeeps

-----------------------------------------------------------------------------
(* The theorems *)

LEMMA InitHolds == ASSUME Init PROVE IInv
<1>1. PICK o \in Objects, n \in Names, d \in Meshes :
        /\ born = {o, d}
        /\ file = [ name |-> [p \in {o} |-> n], id |-> [p \in Objects |-> None], copied |-> {},
                    mesh |-> [p \in Objects |-> d],
                    topo |-> [e \in Meshes |-> 0], rev |-> [e \in Meshes |-> 0] ]
  BY DEF Init
<1>2. /\ saved = None /\ tagged = {} /\ torn = {} /\ held = {} /\ given = {}
      /\ ids = 0 /\ topos = 0 /\ epoch = 0
  BY DEF Init
<1>3. Cardinality(Ids) \in Nat
  BY BoundAssumption, FS_CardinalityType
<1>4. TypeInv
  <2>1. ShapeIn(file, born, ids)
    BY <1>1, <1>2 DEF ShapeIn
  <2> QED
    BY <1>2, <1>3, <2>1 DEF TypeInv, Shape
<1>5. OneBearer /\ GivenInv /\ HeldInv
  BY <1>2 DEF OneBearer, GivenInv, HeldInv
<1> QED
  BY <1>4, <1>5 DEF IInv

LEMMA NextKeeps == ASSUME IInv, [Next]_vars PROVE IInv'
<1>1. CASE UNCHANGED vars
  BY <1>1, StillKeeps DEF vars
<1>2. CASE \E r \in Requests : EditMesh(r) \/ TouchMesh(r)
  BY <1>2, MeshSteps
<1>3. CASE \E o \in Live, b, fails \in BOOLEAN : ApplyModifiers(o, b, fails)
  BY <1>3, ApplyStep
<1>4. CASE \E o \in Live : Read(o) \/ Delete(o) \/ \E p \in Live : Join(o, p)
  BY <1>4, ReadStep, DeleteStep, JoinStep
<1>5. CASE \E o \in Objects, n \in Names, d \in Meshes : Create(o, n, d)
  BY <1>5, CreateStep
<1>6. CASE \E o \in Live, p \in Objects, n \in Names :
             \/ UserCopies(o, p, n)
             \/ \E d \in Meshes : Separate(o, p, n, d) \/ \E b \in BOOLEAN : Duplicate(o, p, n, b, d)
  BY <1>6, UserCopiesStep, SeparateStep, DuplicateStep
<1>7. CASE \E o \in Live, n \in Names : Rename(o, n) \/ UserRenames(o, n)
  BY <1>7, RenameStep, UserRenamesStep
<1>8. CASE (\E i \in Ids : LookUp(i)) \/ Push
  BY <1>8, StillKeeps DEF LookUp, Push, naming, meshes
<1>9. CASE \E d \in Meshes : UserEditsUnseen(d)
  BY <1>9, UnseenStep
<1>10. CASE Report \/ Undo
  BY <1>10, ReportStep, UndoStep
<1> QED
  BY <1>1, <1>2, <1>3, <1>4, <1>5, <1>6, <1>7, <1>8, <1>9, <1>10 DEF Next

LEMMA InvariantHolds == Spec => []IInv
<1>1. Init => IInv
  BY InitHolds
<1>2. IInv /\ [Next]_vars => IInv'
  BY NextKeeps
<1> QED
  BY <1>1, <1>2, PTL DEF Spec

(* Whatever is edited, applied, copied, separated or joined, and whatever Blender       *)
(* reports in between, a revision a caller holds lets its indices through only on the   *)
(* topology they were read from (expected_mesh_revision, mesh.py), until the file is    *)
(* reverted, is edited while nobody is connected, or a call failed half way.            *)
THEOREM RevisionsVouchForIndices == Spec => []IndicesAreGoodUntilReload
<1>1. IInv => IndicesAreGoodUntilReload
  BY DEF IInv, HeldInv, IndicesAreGoodUntilReload
<1> QED
  BY <1>1, InvariantHolds, PTL

LEMMA IdsLead == ASSUME IInv PROVE IdsStayWithTheirObject
<1> SUFFICES ASSUME NEW g \in given, g.id \notin file.copied, NEW f \in Finds(g.id)
             PROVE  /\ f[2] \subseteq {g.object}
                    /\ g.epoch = epoch /\ g.object \in Live => f[2] # {}
  BY DEF IdsStayWithTheirObject
<1>1. g.id \in 1..ids
  BY DEF IInv, GivenInv
<1>2. \A o \in Live : file.id[o] = g.id => o = g.object
  <2> TAKE o \in Live
  <2> HAVE file.id[o] = g.id
  <2>1. o \in Bearers(g.id) /\ g.object \in Bearers(g.id)
    BY DEF Bearers
  <2> QED
    BY <1>1, <2>1 DEF IInv, OneBearer
<1>3. PICK index2 : f = <<index2, Hit(g.id, index2)>>
                    /\ (index2 \in Indexes(file) \/ Hit(g.id, index2) # {})
  <2>1. CASE index # None /\ Hit(g.id, index) # {}
    BY <2>1 DEF Finds
  <2>2. CASE ~(index # None /\ Hit(g.id, index) # {})
    <3>1. f \in { <<h, Hit(g.id, h)>> : h \in Indexes(file) }
      BY <2>2 DEF Finds
    <3> QED
      BY <3>1
  <2> QED
    BY <2>1, <2>2
<1>4. f[2] \subseteq {g.object}
  BY <1>2, <1>3 DEF Hit, Named, Live
<1>5. ASSUME g.epoch = epoch, g.object \in Live, index2 \in Indexes(file)
      PROVE  Hit(g.id, index2) # {}
  <2>1. file.id[g.object] = g.id /\ g.id # None
    <3>1. None \notin 1..ids
      BY NoneIsNoId DEF IInv, TypeInv
    <3> QED
      BY <1>1, <1>5, <3>1 DEF IInv, GivenInv
  <2> DEFINE bearing == { file.id[o] : o \in DOMAIN file.name } \ {None}
  <2>2. g.id \in bearing
    BY <1>5, <2>1 DEF Live
  <2>3. /\ DOMAIN index2 = bearing
        /\ \A i \in bearing : \E o \in DOMAIN file.name : file.id[o] = i /\ file.name[o] = index2[i]
    BY <1>5 DEF Indexes
  <2>4. PICK o \in DOMAIN file.name : file.id[o] = g.id /\ file.name[o] = index2[g.id]
    BY <2>2, <2>3
  <2>5. g.id \in DOMAIN index2 /\ o \in Named(file, index2[g.id])
    BY <2>2, <2>3, <2>4 DEF Named
  <2> QED
    BY <2>4, <2>5 DEF Hit
<1>6. g.epoch = epoch /\ g.object \in Live => f[2] # {}
  BY <1>3, <1>5
<1> QED
  BY <1>4, <1>6

(* An id that was told to a caller and copied by nobody leads to its object and to no    *)
(* other, whatever was renamed, created, deleted or undone since the index was made (the *)
(* one rescan of find, ids.py).                                                          *)
THEOREM IdsLeadToTheirObject == Spec => []IdsStayWithTheirObject
<1>1. IInv => IdsStayWithTheirObject
  BY IdsLead
<1> QED
  BY <1>1, InvariantHolds, PTL
=============================================================================
