-------------------------- MODULE SceneTree_proof ---------------------------
(***************************************************************************)
(* No object is lost from every collection, the selection stays the user's *)
(* and the hierarchies stay trees: theorems about SceneTree for any number *)
(* of objects, collections and calls.                                      *)
(***************************************************************************)
EXTENDS SceneTree, FiniteSetTheorems, WellFoundedInduction, TLAPS

\* Every object there is, and no other, is linked somewhere.
IInv == /\ DOMAIN home = Live
        /\ EveryObjectIsInACollection

USE DEF Live

LEMMA SameObjects ==
  ASSUME IInv, UNCHANGED home, DOMAIN parent' = DOMAIN parent
  PROVE  IInv'
BY DEF IInv, EveryObjectIsInACollection

LEMMA OneMore ==
  ASSUME IInv, NEW o, NEW p, NEW where, where # {},
         parent' = With(parent, o, p), home' = With(home, o, where)
  PROVE  IInv'
BY DEF IInv, EveryObjectIsInACollection, With

LEMMA SomeLess ==
  ASSUME IInv, NEW gone, WithoutObjects(gone), home' = [o \in Live \ gone |-> home[o]]
  PROVE  IInv'
BY DEF IInv, EveryObjectIsInACollection, WithoutObjects

LEMMA MovedStaysLinked ==
  ASSUME IInv, NEW S, NEW c, NEW exclusive \in BOOLEAN,
         home' = Moved(S, c, exclusive), UNCHANGED parent
  PROVE  IInv'
BY DEF IInv, EveryObjectIsInACollection, Moved

-----------------------------------------------------------------------------

LEMMA ObjectSteps ==
  ASSUME IInv, NEW o \in Live, NEW n \in Objects, NEW c \in Linked \cup {None},
         Separate(o, n) \/ Duplicate(o, n, c)
  PROVE  IInv'
<1>1. CASE Separate(o, n)
  <2>1. home[o] # {}
    BY DEF IInv, EveryObjectIsInACollection
  <2> QED
    BY <1>1, <2>1, OneMore DEF Separate
<1>2. CASE Duplicate(o, n, c)
  <2>1. PICK there : home' = With(home, n, {there})
    BY <1>2 DEF Duplicate
  <2> QED
    BY <1>2, <2>1, OneMore DEF Duplicate
<1> QED
  BY <1>1, <1>2

LEMMA DeleteStep ==
  ASSUME IInv, NEW S, NEW b \in BOOLEAN, Delete(S, b)
  PROVE  IInv'
<1>1. PICK gone : WithoutObjects(gone) /\ home' = [o \in Live \ gone |-> home[o]]
  BY DEF Delete
<1> QED
  BY <1>1, SomeLess

LEMMA JoinStep ==
  ASSUME IInv, NEW o, NEW S, Join(o, S)
  PROVE  IInv'
<1>1. \/ WithoutObjects(S) /\ home' = [p \in Live \ S |-> home[p]]
      \/ UNCHANGED <<parent, home>>
  BY DEF Join
<1> QED
  BY <1>1, SomeLess, SameObjects

LEMMA DeleteCollectionStep ==
  ASSUME IInv, NEW c, NEW b \in BOOLEAN, NEW d \in BOOLEAN, DeleteCollection(c, b, d)
  PROVE  IInv'
<1> DEFINE targets == {c} \cup IF d THEN Below(tree, c) ELSE {}
           inside  == { o \in Live : home[o] \cap targets # {} }
           gone    == IF b THEN inside ELSE {}
<1>1. /\ WithoutObjects(gone)
      /\ home' = [o \in Live \ gone |->
                    IF o \in inside THEN LinksOf(home[o] \ targets, tree[c]) ELSE home[o]]
  BY DEF DeleteCollection
<1>2. \A left, up : LinksOf(left, up) # {}
  BY DEF LinksOf
<1> HIDE DEF targets, inside, gone
<1> QED
  BY <1>1, <1>2 DEF IInv, EveryObjectIsInACollection, WithoutObjects

LEMMA UnlinkStep ==
  ASSUME IInv, NEW c, NEW S, UnlinkObject(c, S)
  PROVE  IInv'
<1>1. PICK done : /\ \A o \in done : home[o] # {c}
                  /\ home' = [o \in Live |-> IF o \in done THEN home[o] \ {c} ELSE home[o]]
  BY DEF UnlinkObject
<1>2. UNCHANGED parent
  BY DEF UnlinkObject
<1>3. \A o \in Live : home[o] # {} /\ (o \in done => home[o] \ {c} # {})
  BY <1>1 DEF IInv, EveryObjectIsInACollection
<1> QED
  BY <1>1, <1>2, <1>3 DEF IInv, EveryObjectIsInACollection

LEMMA Step == IInv /\ [Next]_vars => IInv'
<1> SUFFICES ASSUME IInv, [Next]_vars PROVE IInv'
  OBVIOUS
<1>1. CASE UNCHANGED vars
  BY <1>1, SameObjects DEF vars
<1>2. ASSUME NEW o \in Objects, NEW c \in Linked \cup {None}, NEW b \in BOOLEAN, Create(o, c, b)
      PROVE  IInv'
  BY <1>2, OneMore DEF Create
<1>3. ASSUME NEW o \in Live, NEW p \in Live, SetParent(o, p) PROVE IInv'
  BY <1>3, SameObjects DEF SetParent
<1>4. ASSUME NEW S, ClearParent(S) \/ EditEach(S) \/ UserSelects(S) PROVE IInv'
  BY <1>4, SameObjects DEF ClearParent, EditEach, UserSelects
<1>5. ASSUME NEW S, NEW b \in BOOLEAN, Delete(S, b) \/ SetVisibility(S, b) PROVE IInv'
  BY <1>5, DeleteStep, SameObjects DEF SetVisibility
<1>6. ASSUME NEW S, NEW c, LinkObject(c, S) \/ (\E b \in BOOLEAN : MoveObject(c, S, b)) PROVE IInv'
  BY <1>6, MovedStaysLinked DEF LinkObject, MoveObject
<1>7. ASSUME NEW S, NEW c, NEW d, CreateCollection(c, d, S) PROVE IInv'
  BY <1>7, MovedStaysLinked DEF CreateCollection
<1>8. ASSUME NEW c, NEW b \in BOOLEAN, Exclude(c, b) PROVE IInv'
  BY <1>8, SameObjects DEF Exclude
<1>9. ASSUME NEW o \in Live, NEW n \in Objects, Separate(o, n) PROVE IInv'
  BY <1>9, ObjectSteps
<1> QED
  BY <1>1, <1>2, <1>3, <1>4, <1>5, <1>6, <1>7, <1>8, <1>9, ObjectSteps, JoinStep, UnlinkStep,
     DeleteCollectionStep DEF Next

(* Whatever is created, copied, linked, moved, unlinked and deleted, and however a call *)
(* fails half way, every object stays in some collection.                               *)
THEOREM NoObjectIsLost == Spec => []EveryObjectIsInACollection
<1>1. Init => IInv
  BY DEF Init, IInv, EveryObjectIsInACollection
<1>2. IInv => EveryObjectIsInACollection
  BY DEF IInv
<1> QED
  BY <1>1, <1>2, Step, PTL DEF Spec

-----------------------------------------------------------------------------
(* The selection *)

\* What is selected can be seen.
SelectedInv == hidden \subseteq Live /\ selected \subseteq InView \ hidden

UsersOwn ==
  \/ selected' = selected \cap (InView \ hidden)'
  \/ \E S \in Some(Live) : UserSelects(S)
  \/ \E o \in Live' \ Live : selected' \subseteq {o}
  \/ Live \ Live' # {} /\ selected' \subseteq selected

\* The selection is kept, but for what is gone or cannot be seen any more.
LEMMA Kept ==
  ASSUME SelectedInv, NEW act, Select(selected, act), hidden' \cap Live \subseteq hidden,
         hidden' \subseteq Live'
  PROVE  SelectedInv' /\ UsersOwn
BY DEF SelectedInv, Select, InView, UsersOwn

LEMMA RestoredIsKept ==
  ASSUME NEW o, Restored(o, {})
  PROVE  \E act : Select(selected, act)
BY DEF Restored

LEMMA CreateSelects ==
  ASSUME IInv, SelectedInv, NEW o \in Objects, NEW c \in Linked \cup {None}, NEW b \in BOOLEAN,
         Create(o, c, b)
  PROVE  SelectedInv' /\ UsersOwn
<1>1. Live' = Live \cup {o} /\ o \notin Live /\ hidden' = hidden
  BY DEF Create, With, view
<1>2. CASE b
  <2>1. selected' = {o} \cap InView'
    BY <1>2 DEF Create, Select
  <2> QED
    BY <1>1, <2>1 DEF SelectedInv, UsersOwn
<1>3. CASE ~b
  <2>1. Select(selected, active)
    BY <1>3 DEF Create, KeepSelection
  <2> QED
    BY <1>1, <2>1, Kept DEF SelectedInv
<1> QED
  BY <1>2, <1>3

LEMMA DuplicateSelects ==
  ASSUME IInv, SelectedInv, NEW o \in Live, NEW n \in Objects, NEW c \in Linked \cup {None},
         Duplicate(o, n, c)
  PROVE  SelectedInv' /\ UsersOwn
<1>1. Live' = Live \cup {n} /\ n \notin Live /\ hidden' \subseteq hidden \cup {n}
  BY DEF Duplicate, With
<1>2. Select(selected, active)
  BY DEF Duplicate, KeepSelection
<1> QED
  BY <1>1, <1>2, Kept DEF SelectedInv

LEMMA JoinSelects ==
  ASSUME IInv, SelectedInv, NEW o \in Live, NEW S \in Some(Live), Join(o, S)
  PROVE  SelectedInv' /\ UsersOwn
<1>1. CASE WithoutObjects(S) /\ Restored(o, S)
  <2>1. Live' = Live \ S /\ hidden' = hidden \ S /\ Live \ Live' # {}
    BY <1>1 DEF WithoutObjects, Some
  <2>2. CASE selected \cap S = {}
    <3>1. \E act : Select(selected, act)
      BY <1>1, <2>2 DEF Restored
    <3> QED
      BY <2>1, <3>1, Kept DEF SelectedInv
  <2>3. CASE selected \cap S # {}
    <3>1. PICK again \in SUBSET (selected \ S) : Select(again, o)
      BY <1>1, <2>3 DEF Restored
    <3>2. selected' = again \cap InView'
      BY <3>1 DEF Select
    <3> QED
      BY <2>1, <3>1, <3>2 DEF SelectedInv, UsersOwn
  <2> QED
    BY <2>2, <2>3
<1>2. CASE UNCHANGED <<parent, home, tree, view>> /\ Restored(o, {})
  BY <1>2, RestoredIsKept, Kept DEF SelectedInv, view
<1> QED
  BY <1>1, <1>2 DEF Join

LEMMA ObjectsGoSelects ==
  ASSUME IInv, SelectedInv, NEW S, KeepSelection, WithoutObjects(S)
  PROVE  SelectedInv' /\ UsersOwn
<1>1. Live' = Live \ S /\ hidden' = hidden \ S
  BY DEF WithoutObjects
<1> QED
  BY <1>1, Kept DEF SelectedInv, KeepSelection

LEMMA SelectionStep ==
  IInv /\ SelectedInv /\ [Next]_vars => SelectedInv' /\ [UsersOwn]_vars
<1> SUFFICES ASSUME IInv, SelectedInv, Next PROVE SelectedInv' /\ UsersOwn
  BY DEF vars, view, SelectedInv, InView
<1>1. ASSUME UNCHANGED <<hidden, parent>>, KeepSelection PROVE SelectedInv' /\ UsersOwn
  BY <1>1, Kept DEF SelectedInv, KeepSelection
<1>2. ASSUME NEW o \in Live, NEW n \in Objects, Separate(o, n) PROVE SelectedInv' /\ UsersOwn
  <2>1. Live' = Live \cup {n} /\ n \notin Live /\ hidden' = hidden /\ Restored(o, {})
    BY <1>2 DEF Separate, With, view
  <2> QED
    BY <2>1, RestoredIsKept, Kept DEF SelectedInv
<1>3. ASSUME NEW o \in Live, NEW p \in Live, SetParent(o, p) PROVE SelectedInv' /\ UsersOwn
  <2>1. Live' = Live /\ hidden' = hidden /\ Select(selected, active)
    BY <1>3 DEF SetParent, KeepSelection, view
  <2> QED
    BY <2>1, Kept DEF SelectedInv
<1>4. ASSUME NEW S \in Some(Live), ClearParent(S) PROVE SelectedInv' /\ UsersOwn
  <2>1. Live' = Live /\ hidden' = hidden /\ Select(selected, active)
    BY <1>4 DEF ClearParent, KeepSelection, view
  <2> QED
    BY <2>1, Kept DEF SelectedInv
<1>5. ASSUME NEW S \in Some(Live), EditEach(S) PROVE SelectedInv' /\ UsersOwn
  BY <1>5, RestoredIsKept, Kept DEF EditEach, SelectedInv, view
<1>6. ASSUME NEW S \in Some(Live), UserSelects(S) PROVE SelectedInv' /\ UsersOwn
  <2>1. Live' = Live /\ hidden' = hidden
    BY <1>6 DEF UserSelects, view
  <2>2. selected' \subseteq InView' \ hidden
    BY <1>6 DEF UserSelects, Select
  <2> QED
    BY <1>6, <2>1, <2>2 DEF SelectedInv, UsersOwn
<1>7. ASSUME NEW S \in Some(Live), NEW b \in BOOLEAN, Delete(S, b) PROVE SelectedInv' /\ UsersOwn
  BY <1>7, ObjectsGoSelects DEF Delete
<1>8. ASSUME NEW S \in Some(Live), NEW b \in BOOLEAN, SetVisibility(S, b)
      PROVE  SelectedInv' /\ UsersOwn
  <2>1. Live' = Live /\ hidden' \subseteq Live /\ InView' = InView
        /\ selected' = (selected \ hidden') \cap InView'
    BY <1>8 DEF SetVisibility, Select, SelectedInv, InView, Some
  <2> QED
    BY <2>1 DEF SelectedInv, UsersOwn
<1>9. ASSUME NEW S, NEW c, LinkObject(c, S) \/ UnlinkObject(c, S)
                            \/ \E b \in BOOLEAN : MoveObject(c, S, b)
      PROVE  SelectedInv' /\ UsersOwn
  BY <1>1, <1>9 DEF LinkObject, UnlinkObject, MoveObject, view
<1>10. ASSUME NEW S, NEW c, NEW d, CreateCollection(c, d, S) PROVE SelectedInv' /\ UsersOwn
  BY <1>1, <1>10 DEF CreateCollection, view
<1>11. ASSUME NEW c, NEW b \in BOOLEAN, Exclude(c, b) PROVE SelectedInv' /\ UsersOwn
  BY <1>1, <1>11 DEF Exclude
<1>12. ASSUME NEW c, NEW b \in BOOLEAN, NEW d \in BOOLEAN, DeleteCollection(c, b, d)
       PROVE  SelectedInv' /\ UsersOwn
  BY <1>12, ObjectsGoSelects DEF DeleteCollection
<1> QED
  BY <1>2, <1>3, <1>4, <1>5, <1>6, <1>7, <1>8, <1>9, <1>10, <1>11, <1>12, CreateSelects,
     DuplicateSelects, JoinSelects DEF Next

(* No handler changes what the user has selected, but to drop what is gone or out of *)
(* sight and to select an object that an operator makes.                             *)
THEOREM SelectionStaysTheUsers == Spec => SelectionIsTheUsers
<1>1. Init => IInv /\ SelectedInv
  BY DEF Init, IInv, EveryObjectIsInACollection, SelectedInv
<1> QED
  BY <1>1, Step, SelectionStep, PTL DEF Spec, SelectionIsTheUsers, UsersOwn

-----------------------------------------------------------------------------
(* What lies above *)

LEMMA LessWellFounded == IsWellFoundedOn({p \in Nat \X Nat : p[1] < p[2]}, Nat)
BY NatLessThanWellFounded DEF OpToRel

LEMMA LeastNat ==
  ASSUME NEW T \in SUBSET Nat, T # {}
  PROVE  \E x \in T : \A y \in T : x <= y
<1> DEFINE R == {p \in Nat \X Nat : p[1] < p[2]}
<1>1. IsWellFoundedOn(R, Nat)
  BY LessWellFounded
<1> HIDE DEF R
<1>2. PICK x \in T : \A y \in T : ~(<<y, x>> \in R)
  BY <1>1, WFMin
<1>3. \A y \in T : ~(y < x)
  BY <1>2 DEF R
<1> QED
  BY <1>3

\* One step further up, and g: what is met on the way up from x, in up to n steps.
Further(f, S) == S \cup { f[y] : y \in S \cap DOMAIN f }
Climbs(f, x, n, g) == g = [k \in 0..n |-> IF k = 0 THEN {x} ELSE Further(f, g[k - 1])]

LEMMA ClimbsExist ==
  ASSUME NEW f, NEW x, NEW n \in Nat
  PROVE  \E g : Climbs(f, x, n, g)
<1> DEFINE Bad == { k \in Nat : ~\E g : Climbs(f, x, k, g) }
<1> SUFFICES ASSUME Bad # {} PROVE FALSE
  OBVIOUS
<1> HIDE DEF Bad
<1>1. Bad \in SUBSET Nat
  BY DEF Bad
<1>2. PICK k \in Bad : \A j \in Bad : k <= j
  BY <1>1, LeastNat
<1>3. k \in Nat /\ ~\E g : Climbs(f, x, k, g)
  BY DEF Bad
<1>4. CASE k = 0
  <2> DEFINE g == [j \in 0..0 |-> {x}]
  <2>1. \A j \in 0..0 : j = 0
    OBVIOUS
  <2>2. Climbs(f, x, 0, g)
    BY <2>1 DEF Climbs
  <2> QED
    BY <1>3, <1>4, <2>2
<1>5. CASE k # 0
  <2> DEFINE m == k - 1
  <2>1. m \in Nat /\ m < k /\ k = m + 1
    BY <1>3, <1>5
  <2>2. m \notin Bad
    BY <1>2, <1>3, <2>1
  <2> HIDE DEF m
  <2>3. PICK h : Climbs(f, x, m, h)
    BY <2>1, <2>2 DEF Bad
  <2> DEFINE g == [j \in 0..(m + 1) |-> IF j = m + 1 THEN Further(f, h[m]) ELSE h[j]]
             q == [j \in 0..(m + 1) |-> IF j = 0 THEN {x} ELSE Further(f, g[j - 1])]
  <2>4. ASSUME NEW j \in 0..(m + 1) PROVE g[j] = q[j]
    <3>1. CASE j = m + 1
      <4>1. j # 0 /\ j - 1 = m /\ m \in 0..(m + 1) /\ m # m + 1
        BY <2>1, <3>1
      <4>2. g[m] = h[m]
        BY <4>1
      <4>3. g[j] = Further(f, h[m]) /\ q[j] = Further(f, g[m])
        BY <3>1, <4>1
      <4> HIDE DEF g, q
      <4> QED
        BY <4>2, <4>3
    <3>2. CASE j # m + 1 /\ j # 0
      <4>1. j \in 0..m /\ j - 1 \in 0..(m + 1) /\ j - 1 # m + 1
        BY <2>1, <3>2
      <4>2. g[j] = h[j] /\ q[j] = Further(f, g[j - 1]) /\ g[j - 1] = h[j - 1]
        BY <3>2, <4>1
      <4>3. h[j] = Further(f, h[j - 1])
        BY <2>3, <3>2, <4>1 DEF Climbs
      <4> HIDE DEF g, q
      <4> QED
        BY <4>2, <4>3
    <3>3. CASE j = 0
      <4>1. 0 \in 0..m /\ 0 \in 0..(m + 1) /\ 0 # m + 1
        BY <2>1
      <4>2. g[0] = h[0] /\ q[0] = {x}
        BY <4>1
      <4>3. h[0] = {x}
        BY <2>3, <4>1 DEF Climbs
      <4> HIDE DEF g, q
      <4> QED
        BY <3>3, <4>2, <4>3
    <3> QED
      BY <3>1, <3>2, <3>3
  <2>5. g = q
    <3>1. g = [j \in 0..(m + 1) |-> g[j]] /\ q = [j \in 0..(m + 1) |-> q[j]]
      OBVIOUS
    <3> HIDE DEF g, q
    <3> QED
      BY <2>4, <3>1
  <2>6. Climbs(f, x, m + 1, g)
    <3> HIDE DEF g
    <3> QED
      BY <2>5 DEF Climbs
  <2> QED
    BY <1>3, <2>1, <2>6
<1> QED
  BY <1>4, <1>5

LEMMA AboveClimbs ==
  ASSUME NEW f, IsFiniteSet(DOMAIN f), NEW x
  PROVE  LET n == Cardinality(DOMAIN f)
         IN  \E g : /\ Climbs(f, x, n, g)
                    /\ Above(f, x) = { f[y] : y \in g[n] \cap DOMAIN f } \ {None}
<1> DEFINE n == Cardinality(DOMAIN f)
           Up(g) == g = [k \in 0..n |-> IF k = 0 THEN {x}
                                        ELSE g[k - 1] \cup { f[y] : y \in g[k - 1] \cap DOMAIN f }]
           up == CHOOSE g : Up(g)
<1>1. n \in Nat
  BY FS_CardinalityType
<1>2. Above(f, x) = { f[y] : y \in up[n] \cap DOMAIN f } \ {None}
  BY DEF Above
<1>3. \A g : Up(g) <=> Climbs(f, x, n, g)
  BY DEF Climbs, Further
<1>4. \E g : Up(g)
  <2>1. \E g : Climbs(f, x, n, g)
    BY <1>1, ClimbsExist
  <2> HIDE DEF Up
  <2> QED
    BY <1>3, <2>1
<1>5. Up(up)
  <2> HIDE DEF Up
  <2> QED
    BY <1>4
<1> HIDE DEF Up, up
<1> QED
  BY <1>2, <1>3, <1>5

LEMMA ClimbStarts ==
  ASSUME NEW f, NEW x, NEW n \in Nat, NEW g, Climbs(f, x, n, g)
  PROVE  g[0] = {x}
<1>1. 0 \in 0..n
  OBVIOUS
<1> QED
  BY <1>1 DEF Climbs

LEMMA ClimbGoesOn ==
  ASSUME NEW f, NEW x, NEW n \in Nat, NEW g, Climbs(f, x, n, g), NEW k \in 1..n
  PROVE  g[k] = Further(f, g[k - 1])
<1>1. k \in 0..n /\ k # 0
  OBVIOUS
<1> QED
  BY <1>1 DEF Climbs

\* A set that f does not lead out of.
Closed(f, S) == \A y \in S \cap DOMAIN f : f[y] \in S

LEMMA ClimbStaysInside ==
  ASSUME NEW f, NEW x, NEW n \in Nat, NEW g, Climbs(f, x, n, g), NEW S, x \in S, Closed(f, S)
  PROVE  \A k \in 0..n : g[k] \subseteq S
<1> DEFINE Bad == { k \in 0..n : ~(g[k] \subseteq S) }
<1> SUFFICES ASSUME Bad # {} PROVE FALSE
  OBVIOUS
<1> HIDE DEF Bad
<1>1. Bad \in SUBSET Nat
  BY DEF Bad
<1>2. PICK k \in Bad : \A j \in Bad : k <= j
  BY <1>1, LeastNat
<1>3. k \in 0..n /\ ~(g[k] \subseteq S)
  BY DEF Bad
<1>4. k # 0
  BY <1>3, ClimbStarts
<1>5. k \in 1..n /\ k - 1 \in 0..n /\ k - 1 < k
  BY <1>3, <1>4
<1>6. g[k - 1] \subseteq S
  BY <1>2, <1>5 DEF Bad
<1>7. g[k] = Further(f, g[k - 1])
  BY <1>5, ClimbGoesOn
<1> QED
  BY <1>3, <1>6, <1>7 DEF Further, Closed

\* After as many steps as f has arguments, nothing new is met.
LEMMA ClimbEnds ==
  ASSUME NEW f, IsFiniteSet(DOMAIN f), NEW x, NEW g, Climbs(f, x, Cardinality(DOMAIN f), g)
  PROVE  /\ x \in g[Cardinality(DOMAIN f)]
         /\ \A y \in g[Cardinality(DOMAIN f)] \cap DOMAIN f :
              f[y] \in DOMAIN f => f[y] \in g[Cardinality(DOMAIN f)]
<1> DEFINE D == DOMAIN f
           n == Cardinality(D)
           Ends(S) == \A y \in S \cap D : f[y] \in D => f[y] \in S
           Good(k) == x \in g[k] /\ (Ends(g[k]) \/ Cardinality(g[k] \cap D) >= k)
           Bad == { k \in 0..n : ~Good(k) }
<1>1. n \in Nat
  BY FS_CardinalityType
<1>2. ASSUME NEW k \in 1..n, Good(k - 1) PROVE Good(k)
  <2>1. g[k] = Further(f, g[k - 1])
    BY <1>1, <1>2, ClimbGoesOn
  <2>2. x \in g[k] /\ g[k - 1] \subseteq g[k]
    BY <1>2, <2>1 DEF Further
  <2>3. CASE Ends(g[k - 1])
    <3>1. \A y \in g[k] \cap D : y \in g[k - 1]
      BY <2>1, <2>3 DEF Further
    <3> QED
      BY <2>2, <2>3, <3>1
  <2>4. CASE ~Ends(g[k - 1])
    <3>1. PICK y \in g[k - 1] \cap D : f[y] \in D /\ f[y] \notin g[k - 1]
      BY <2>4
    <3>2. f[y] \in g[k] \cap D
      BY <2>1, <3>1 DEF Further
    <3> DEFINE A == g[k - 1] \cap D
               B == g[k] \cap D
               z == f[y]
    <3>3. A \cup {z} \subseteq B /\ z \notin A /\ A \subseteq D /\ B \subseteq D
      BY <2>2, <3>1, <3>2
    <3>4. Cardinality(A) >= k - 1
      BY <1>2, <2>4
    <3> HIDE DEF A, B, z
    <3>5. IsFiniteSet(A) /\ IsFiniteSet(B)
      BY <3>3, FS_Subset
    <3>6. Cardinality(A \cup {z}) = Cardinality(A) + 1 /\ Cardinality(A) \in Nat
      BY <3>3, <3>5, FS_AddElement, FS_CardinalityType
    <3>7. Cardinality(A \cup {z}) <= Cardinality(B) /\ Cardinality(B) \in Nat
      BY <3>3, <3>5, FS_Subset, FS_CardinalityType
    <3>8. Cardinality(B) >= k
      BY <3>4, <3>6, <3>7
    <3> QED
      BY <2>2, <3>8 DEF B
  <2> QED
    BY <2>3, <2>4
<1>3. Good(0)
  <2>1. g[0] = {x}
    BY <1>1, ClimbStarts
  <2>2. IsFiniteSet(g[0] \cap D)
    BY FS_Subset
  <2>3. Cardinality(g[0] \cap D) >= 0
    BY <2>2, FS_CardinalityType
  <2> QED
    BY <2>1, <2>3
<1>4. Good(n)
  <2> SUFFICES ASSUME ~Good(n) PROVE FALSE
    OBVIOUS
  <2>1. n \in Bad /\ Bad \in SUBSET Nat
    BY <1>1
  <2> HIDE DEF Good
  <2>2. PICK k \in Bad : \A j \in Bad : k <= j
    BY <2>1, LeastNat
  <2>3. k \in 0..n /\ ~Good(k) /\ k # 0
    BY <1>3
  <2>4. k \in 1..n /\ k - 1 \in 0..n /\ k - 1 < k
    BY <1>1, <2>3
  <2>5. Good(k - 1)
    BY <2>2, <2>4
  <2> QED
    BY <1>2, <2>3, <2>4, <2>5
<1>5. CASE Cardinality(g[n] \cap D) >= n
  <2> DEFINE B == g[n] \cap D
  <2>1. B \subseteq D
    OBVIOUS
  <2> HIDE DEF B
  <2>2. Cardinality(B) <= Cardinality(D) /\ Cardinality(B) \in Nat
    BY <2>1, FS_Subset, FS_CardinalityType
  <2>3. Cardinality(B) = Cardinality(D)
    BY <1>1, <1>5, <2>2 DEF B
  <2>4. B = D
    BY <2>1, <2>3, FS_Subset
  <2> QED
    BY <1>4, <2>4 DEF B
<1> QED
  BY <1>4, <1>5

\* Above(f, x) is what every way up from x leads to, and no more.
LEMMA AboveIsInside ==
  ASSUME NEW f, IsFiniteSet(DOMAIN f), NEW x, NEW S, x \in DOMAIN f => f[x] \in S, Closed(f, S)
  PROVE  Above(f, x) \subseteq S
<1> DEFINE n == Cardinality(DOMAIN f)
<1>1. n \in Nat
  BY FS_CardinalityType
<1>2. PICK g : /\ Climbs(f, x, n, g)
               /\ Above(f, x) = { f[y] : y \in g[n] \cap DOMAIN f } \ {None}
  BY AboveClimbs
<1> HIDE DEF n
<1>3. Closed(f, S \cup {x})
  BY DEF Closed
<1>4. g[n] \subseteq S \cup {x}
  BY <1>1, <1>2, <1>3, ClimbStaysInside
<1> QED
  BY <1>2, <1>4 DEF Closed

LEMMA AboveGoesOn ==
  ASSUME NEW f, IsFiniteSet(DOMAIN f), None \notin DOMAIN f, NEW x
  PROVE  /\ x \in DOMAIN f => f[x] \in Above(f, x) \cup {None}
         /\ Closed(f, Above(f, x) \cup {None})
         /\ None \notin Above(f, x)
<1> DEFINE n == Cardinality(DOMAIN f)
<1>1. PICK g : /\ Climbs(f, x, n, g)
               /\ Above(f, x) = { f[y] : y \in g[n] \cap DOMAIN f } \ {None}
  BY AboveClimbs
<1>2. x \in g[n] /\ \A y \in g[n] \cap DOMAIN f : f[y] \in DOMAIN f => f[y] \in g[n]
  BY <1>1, ClimbEnds
<1> HIDE DEF n
<1> QED
  BY <1>1, <1>2 DEF Closed

\* What is above a parent is above the child.
LEMMA AboveInherits ==
  ASSUME NEW f, IsFiniteSet(DOMAIN f), None \notin DOMAIN f, NEW x \in DOMAIN f, f[x] \in DOMAIN f
  PROVE  f[x] \in Above(f, x) /\ Above(f, f[x]) \subseteq Above(f, x)
<1> DEFINE S == Above(f, x) \cup {None}
<1>1. f[x] \in Above(f, x) /\ Closed(f, S)
  BY AboveGoesOn
<1>2. f[f[x]] \in S
  BY <1>1 DEF Closed
<1> HIDE DEF S
<1>3. Above(f, f[x]) \subseteq S
  BY <1>1, <1>2, AboveIsInside
<1>4. None \notin Above(f, f[x])
  BY AboveGoesOn
<1> QED
  BY <1>1, <1>3, <1>4 DEF S

-----------------------------------------------------------------------------
(* Trees: every way up comes down in rank until it ends at the top *)

Ranks(f, top, rank) ==
  /\ rank \in [DOMAIN f -> Nat]
  /\ \A x \in DOMAIN f : f[x] = top \/ (f[x] \in DOMAIN f /\ rank[f[x]] < rank[x])

IsTree(f, top) == IsFiniteSet(DOMAIN f) /\ \E rank : Ranks(f, top, rank)

LEMMA TreeHasNoCycle ==
  ASSUME NEW f, NEW top, IsTree(f, top), top \notin DOMAIN f, NEW x \in DOMAIN f
  PROVE  x \notin Above(f, x)
<1>1. PICK rank : Ranks(f, top, rank)
  BY DEF IsTree
<1> DEFINE S == {top} \cup { y \in DOMAIN f : rank[y] < rank[x] }
<1>2. f[x] \in S /\ x \notin S
  BY <1>1 DEF Ranks
<1>3. ASSUME NEW y \in S \cap DOMAIN f PROVE f[y] \in S
  BY <1>1, <1>3 DEF Ranks
<1>4. Closed(f, S)
  BY <1>3 DEF Closed
<1> HIDE DEF S
<1> QED
  BY <1>2, <1>4, AboveIsInside DEF IsTree

LEMMA TreeReachesItsTop ==
  ASSUME NEW f, NEW top, IsTree(f, top), top # None, None \notin DOMAIN f, NEW x \in DOMAIN f
  PROVE  top \in Above(f, x)
<1>1. PICK rank : Ranks(f, top, rank)
  BY DEF IsTree
<1>2. IsFiniteSet(DOMAIN f)
  BY DEF IsTree
<1> DEFINE Bad == { rank[y] : y \in { z \in DOMAIN f : top \notin Above(f, z) } }
<1> SUFFICES ASSUME Bad # {} PROVE FALSE
  BY <1>1
<1>3. Bad \in SUBSET Nat
  BY <1>1 DEF Ranks
<1>4. PICK k \in Bad : \A j \in Bad : k <= j
  <2> HIDE DEF Bad
  <2> QED
    BY <1>3, LeastNat
<1>5. PICK y \in DOMAIN f : k = rank[y] /\ top \notin Above(f, y)
  OBVIOUS
<1>6. f[y] # top
  BY <1>2, <1>5, AboveGoesOn
<1>7. f[y] \in DOMAIN f /\ rank[f[y]] < rank[y] /\ rank[y] \in Nat /\ rank[f[y]] \in Nat
  BY <1>1, <1>6 DEF Ranks
<1>8. top \notin Above(f, f[y])
  BY <1>2, <1>5, <1>7, AboveInherits
<1>9. rank[f[y]] \in Bad
  BY <1>7, <1>8
<1> QED
  BY <1>4, <1>5, <1>7, <1>9

LEMMA TreeGrows ==
  ASSUME NEW f, NEW top, IsTree(f, top), NEW x, x \notin DOMAIN f, NEW v \in DOMAIN f \cup {top}
  PROVE  IsTree(With(f, x, v), top)
<1>1. PICK rank : Ranks(f, top, rank)
  BY DEF IsTree
<1> DEFINE g == With(f, x, v)
           up == IF v \in DOMAIN f THEN rank[v] + 1 ELSE 0
           new == [y \in DOMAIN g |-> IF y = x THEN up ELSE rank[y]]
<1>2. /\ DOMAIN g = DOMAIN f \cup {x} /\ g[x] = v
      /\ \A y \in DOMAIN f : g[y] = f[y] /\ y # x
  BY DEF With
<1>3. IsFiniteSet(DOMAIN g)
  BY <1>2, FS_AddElement DEF IsTree
<1>4. up \in Nat /\ (v \in DOMAIN f => rank[v] < up)
  BY <1>1 DEF Ranks
<1> HIDE DEF g, up
<1>5. /\ new \in [DOMAIN g -> Nat] /\ new[x] = up /\ \A y \in DOMAIN f : new[y] = rank[y]
  BY <1>1, <1>2, <1>4 DEF Ranks
<1> HIDE DEF new
<1>6. Ranks(g, top, new)
  BY <1>1, <1>2, <1>4, <1>5 DEF Ranks
<1> QED
  BY <1>3, <1>6 DEF IsTree, g

\* Some are gone, some hang from the top, and some from what their parent hung from.
LEMMA TreeShrinks ==
  ASSUME NEW f, NEW top, IsTree(f, top), top \notin DOMAIN f, NEW g, DOMAIN g \subseteq DOMAIN f,
         \A x \in DOMAIN g :
           \/ g[x] = top
           \/ g[x] \in DOMAIN g /\ (g[x] = f[x] \/ (f[x] \in DOMAIN f /\ g[x] = f[f[x]]))
  PROVE  IsTree(g, top)
<1>1. PICK rank : Ranks(f, top, rank)
  BY DEF IsTree
<1> DEFINE new == [y \in DOMAIN g |-> rank[y]]
<1>2. IsFiniteSet(DOMAIN g)
  BY FS_Subset DEF IsTree
<1>3. new \in [DOMAIN g -> Nat]
  BY <1>1 DEF Ranks
<1>4. ASSUME NEW x \in DOMAIN g, g[x] # top PROVE g[x] \in DOMAIN g /\ new[g[x]] < new[x]
  <2>1. g[x] \in DOMAIN g /\ new[g[x]] = rank[g[x]] /\ new[x] = rank[x]
    BY <1>4
  <2>2. CASE g[x] = f[x]
    BY <1>1, <1>4, <2>1, <2>2 DEF Ranks
  <2>3. CASE f[x] \in DOMAIN f /\ g[x] = f[f[x]]
    <3> DEFINE y == f[x]
               z == f[y]
    <3>1. y \in DOMAIN f /\ z # top /\ y # top
      BY <1>4, <2>3
    <3>2. z \in DOMAIN f /\ rank[z] < rank[y] /\ rank[y] < rank[x]
      BY <1>1, <3>1 DEF Ranks
    <3>3. rank[x] \in Nat /\ rank[y] \in Nat /\ rank[z] \in Nat
      BY <1>1, <3>1, <3>2 DEF Ranks
    <3>4. g[x] = z
      BY <2>3
    <3> HIDE DEF y, z, new
    <3> QED
      BY <2>1, <3>2, <3>3, <3>4
  <2> QED
    BY <1>4, <2>2, <2>3
<1>5. Ranks(g, top, new)
  BY <1>3, <1>4 DEF Ranks
<1> QED
  BY <1>2, <1>5 DEF IsTree

LEMMA TreeLeadsUp ==
  ASSUME NEW f, NEW top, IsTree(f, top), NEW x \in DOMAIN f
  PROVE  f[x] \in DOMAIN f \cup {top}
BY DEF IsTree, Ranks

\* Moving a part of the tree below something that is not in that part.
LEMMA TreeMoves ==
  ASSUME NEW f, IsTree(f, None), None \notin DOMAIN f, NEW x \in DOMAIN f, NEW v \in DOMAIN f,
         x # v, x \notin Above(f, v)
  PROVE  IsTree([f EXCEPT ![x] = v], None)
<1>1. PICK rank : Ranks(f, None, rank)
  BY DEF IsTree
<1>2. IsFiniteSet(DOMAIN f)
  BY DEF IsTree
<1> DEFINE g == [f EXCEPT ![x] = v]
           part == {x} \cup { y \in DOMAIN f : x \in Above(f, y) }
           new == [y \in DOMAIN f |-> IF y \in part THEN rank[y] + (rank[v] + 1) ELSE rank[y]]
<1>3. DOMAIN g = DOMAIN f /\ g[x] = v /\ \A y \in DOMAIN f \ {x} : g[y] = f[y]
  OBVIOUS
<1>4. x \in part /\ v \notin part
  OBVIOUS
<1>5. ASSUME NEW y \in DOMAIN f \ part, f[y] \in DOMAIN f PROVE f[y] \notin part
  BY <1>2, <1>5, AboveInherits
<1> HIDE DEF part, g
<1>6. \A y \in DOMAIN f : rank[y] \in Nat
  BY <1>1 DEF Ranks
<1>7. \A y \in DOMAIN f : f[y] = None \/ (f[y] \in DOMAIN f /\ rank[f[y]] < rank[y])
  BY <1>1 DEF Ranks
<1>8. new \in [DOMAIN f -> Nat]
  BY <1>6
<1>9. ASSUME NEW y \in DOMAIN f, g[y] # None PROVE g[y] \in DOMAIN f /\ new[g[y]] < new[y]
  <2>1. CASE y = x
    <3>1. new[v] = rank[v] /\ new[x] = rank[x] + (rank[v] + 1)
      BY <1>4
    <3> HIDE DEF new
    <3> QED
      BY <1>3, <1>6, <2>1, <3>1
  <2>2. CASE y # x
    <3> DEFINE z == f[y]
    <3>1. g[y] = z /\ z \in DOMAIN f /\ rank[z] < rank[y]
      BY <1>3, <1>7, <1>9, <2>2
    <3>2. y \notin part => z \notin part
      BY <1>5, <3>1
    <3> HIDE DEF z
    <3>3. /\ new[y] = IF y \in part THEN rank[y] + (rank[v] + 1) ELSE rank[y]
          /\ new[z] = IF z \in part THEN rank[z] + (rank[v] + 1) ELSE rank[z]
      BY <3>1
    <3>4. rank[y] \in Nat /\ rank[z] \in Nat /\ rank[v] \in Nat
      BY <1>6, <3>1
    <3> HIDE DEF new
    <3> QED
      BY <3>1, <3>2, <3>3, <3>4
  <2> QED
    BY <2>1, <2>2
<1> HIDE DEF new
<1>10. Ranks(g, None, new)
  BY <1>3, <1>8, <1>9 DEF Ranks
<1> QED
  BY <1>2, <1>3, <1>10 DEF IsTree, g

-----------------------------------------------------------------------------
(* The two hierarchies *)

TreeInv ==
  /\ Live \subseteq Objects
  /\ IsTree(parent, None)
  /\ DOMAIN tree \subseteq Collections
  /\ IsTree(tree, Root)

LEMMA Tops ==
  ASSUME TreeInv
  PROVE  /\ None \notin Live /\ None \notin DOMAIN tree
         /\ Root \notin DOMAIN tree /\ Root # None
BY NamesAssumption DEF TreeInv

LEMMA ObjectIsAdded ==
  ASSUME TreeInv, NEW o \in Objects \ Live, NEW p \in Live \cup {None}, parent' = With(parent, o, p),
         UNCHANGED tree
  PROVE  TreeInv'
<1>1. IsTree(With(parent, o, p), None)
  BY TreeGrows DEF TreeInv
<1>2. DOMAIN With(parent, o, p) = Live \cup {o}
  BY DEF With
<1> QED
  BY <1>1, <1>2 DEF TreeInv

LEMMA ObjectsAreFreed ==
  ASSUME TreeInv, NEW gone, NEW freed,
         parent' = [o \in Live \ gone |-> IF freed[o] \/ parent[o] \in gone THEN None ELSE parent[o]]
  PROVE  Live' \subseteq Objects /\ IsTree(parent, None)'
<1> DEFINE g == parent'
<1>1. DOMAIN g = Live \ gone
  OBVIOUS
<1>2. ASSUME NEW o \in DOMAIN g PROVE g[o] = None \/ (g[o] \in DOMAIN g /\ g[o] = parent[o])
  <2>1. parent[o] \in Live \cup {None}
    BY <1>1, TreeLeadsUp DEF TreeInv
  <2> QED
    BY <1>1, <2>1
<1>3. None \notin Live
  BY Tops
<1> HIDE DEF g
<1>4. IsTree(g, None)
  BY <1>1, <1>2, <1>3, TreeShrinks DEF TreeInv
<1> QED
  BY <1>1, <1>4 DEF g, TreeInv

LEMMA ObjectsGo ==
  ASSUME TreeInv, NEW gone, WithoutObjects(gone)
  PROVE  Live' \subseteq Objects /\ IsTree(parent, None)'
<1> DEFINE freed == [o \in Live |-> FALSE]
<1>1. parent' = [o \in Live \ gone |-> IF freed[o] \/ parent[o] \in gone THEN None ELSE parent[o]]
  BY DEF WithoutObjects
<1> HIDE DEF freed
<1> QED
  BY <1>1, ObjectsAreFreed

LEMMA ParentIsCleared ==
  ASSUME TreeInv, NEW S, ClearParent(S)
  PROVE  TreeInv'
<1> DEFINE freed == [o \in Live |-> o \in S]
           none  == {}
<1>1. parent' = [o \in Live \ none |-> IF freed[o] \/ parent[o] \in none THEN None ELSE parent[o]]
  BY DEF ClearParent
<1> HIDE DEF freed, none
<1>2. Live' \subseteq Objects /\ IsTree(parent, None)'
  BY <1>1, ObjectsAreFreed
<1> QED
  BY <1>2 DEF TreeInv, ClearParent

LEMMA ParentIsSet ==
  ASSUME TreeInv, NEW o \in Live, NEW p \in Live, SetParent(o, p)
  PROVE  TreeInv'
<1>1. o # p /\ o \notin Above(parent, p)
  BY DEF SetParent, WouldCycle
<1>2. IsTree([parent EXCEPT ![o] = p], None)
  BY <1>1, Tops, TreeMoves DEF TreeInv
<1> QED
  BY <1>2 DEF TreeInv, SetParent

LEMMA CollectionIsAdded ==
  ASSUME TreeInv, NEW c \in Collections, NEW d \in Linked, NEW S, CreateCollection(c, d, S)
  PROVE  TreeInv'
<1>1. IsTree(With(tree, c, d), Root)
  BY TreeGrows DEF TreeInv, CreateCollection, Linked
<1>2. DOMAIN With(tree, c, d) = DOMAIN tree \cup {c}
  BY DEF With
<1> QED
  BY <1>1, <1>2 DEF TreeInv, CreateCollection

LEMMA CollectionIsDeleted ==
  ASSUME TreeInv, NEW c \in DOMAIN tree, NEW b \in BOOLEAN, NEW r \in BOOLEAN,
         DeleteCollection(c, b, r)
  PROVE  TreeInv'
<1> DEFINE targets == {c} \cup IF r THEN Below(tree, c) ELSE {}
           g == tree'
<1>1. g = [d \in DOMAIN tree \ targets |-> IF tree[d] = c THEN tree[c] ELSE tree[d]]
  BY DEF DeleteCollection
<1>2. DOMAIN g = DOMAIN tree \ targets
  BY <1>1
<1>3. /\ IsFiniteSet(DOMAIN tree) /\ None \notin DOMAIN tree /\ Root \notin DOMAIN tree
      /\ IsTree(tree, Root)
  BY Tops DEF TreeInv, IsTree
<1>4. tree[c] # c
  <2>1. PICK rank : Ranks(tree, Root, rank)
    BY <1>3 DEF IsTree
  <2> QED
    BY <1>3, <2>1 DEF Ranks
<1>5. ASSUME NEW d \in DOMAIN tree \ targets, tree[d] \in DOMAIN tree, r
      PROVE  tree[d] \notin targets
  <2>1. tree[d] \in Above(tree, d) /\ Above(tree, tree[d]) \subseteq Above(tree, d)
    BY <1>3, <1>5, AboveInherits
  <2> QED
    BY <1>5, <2>1 DEF Below
<1>6. ASSUME NEW d \in DOMAIN g
      PROVE  \/ g[d] = Root
             \/ g[d] \in DOMAIN g /\ (g[d] = tree[d] \/ (tree[d] \in DOMAIN tree /\ g[d] = tree[tree[d]]))
  <2>1. /\ d \in DOMAIN tree \ targets
        /\ g[d] = IF tree[d] = c THEN tree[c] ELSE tree[d]
    BY <1>1, <1>2
  <2>2. tree[d] \in DOMAIN tree \cup {Root} /\ tree[c] \in DOMAIN tree \cup {Root}
    BY <1>3, <2>1, TreeLeadsUp
  <2>3. CASE r
    <3>1. tree[d] \in DOMAIN tree => tree[d] \notin targets
      BY <1>5, <2>1, <2>3
    <3>2. tree[d] # c
      BY <3>1
    <3> HIDE DEF targets, g
    <3> QED
      BY <1>2, <2>1, <2>2, <3>1, <3>2
  <2>4. CASE ~r
    <3>1. targets = {c}
      BY <2>4
    <3> HIDE DEF targets, g
    <3> QED
      BY <1>2, <1>4, <2>1, <2>2, <3>1
  <2> QED
    BY <2>3, <2>4
<1> HIDE DEF targets, g
<1>7. IsTree(g, Root)
  BY <1>2, <1>3, <1>6, TreeShrinks
<1>8. Live' \subseteq Objects /\ IsTree(parent, None)'
  BY ObjectsGo DEF DeleteCollection
<1> QED
  BY <1>2, <1>7, <1>8 DEF TreeInv, g

LEMMA TreeStep == TreeInv /\ [Next]_vars => TreeInv'
<1> SUFFICES ASSUME TreeInv, [Next]_vars PROVE TreeInv'
  OBVIOUS
<1>0. ASSUME UNCHANGED <<parent, tree>> PROVE TreeInv'
  BY <1>0 DEF TreeInv
<1>1. CASE UNCHANGED vars
  BY <1>0, <1>1 DEF vars
<1>2. ASSUME NEW o \in Objects, NEW c \in Linked \cup {None}, NEW b \in BOOLEAN, Create(o, c, b)
      PROVE  TreeInv'
  BY <1>2, ObjectIsAdded DEF Create
<1>3. ASSUME NEW o \in Live, NEW n \in Objects,
             Separate(o, n) \/ \E c \in Linked \cup {None} : Duplicate(o, n, c)
      PROVE  TreeInv'
  <2>1. n \notin Live /\ parent' = With(parent, n, parent[o]) /\ UNCHANGED tree
    BY <1>3 DEF Separate, Duplicate
  <2>2. parent[o] \in Live \cup {None}
    BY TreeLeadsUp DEF TreeInv
  <2> QED
    BY <2>1, <2>2, ObjectIsAdded
<1>4. ASSUME NEW S, EditEach(S) \/ UserSelects(S) \/ \E b \in BOOLEAN : SetVisibility(S, b)
      PROVE  TreeInv'
  BY <1>0, <1>4 DEF EditEach, UserSelects, SetVisibility
<1>5. ASSUME NEW S, NEW b \in BOOLEAN, Delete(S, b) PROVE TreeInv'
  <2>1. UNCHANGED tree /\ \E gone : WithoutObjects(gone)
    BY <1>5 DEF Delete
  <2> QED
    BY <2>1, ObjectsGo DEF TreeInv
<1>6. ASSUME NEW o, NEW S, Join(o, S) PROVE TreeInv'
  <2>1. CASE WithoutObjects(S) /\ UNCHANGED tree
    BY <2>1, ObjectsGo DEF TreeInv
  <2> QED
    BY <1>0, <1>6, <2>1 DEF Join
<1>7. ASSUME NEW S, NEW c, LinkObject(c, S) \/ UnlinkObject(c, S)
                           \/ \E b \in BOOLEAN : MoveObject(c, S, b)
      PROVE  TreeInv'
  BY <1>0, <1>7 DEF LinkObject, UnlinkObject, MoveObject
<1>8. ASSUME NEW c, NEW b \in BOOLEAN, Exclude(c, b) PROVE TreeInv'
  BY <1>0, <1>8 DEF Exclude
<1> QED
  BY <1>1, <1>2, <1>3, <1>4, <1>5, <1>6, <1>7, <1>8, ParentIsCleared, ParentIsSet,
     CollectionIsAdded, CollectionIsDeleted DEF Next

LEMMA TreesHaveNoCycles == TreeInv => HierarchiesAreTrees
<1> SUFFICES ASSUME TreeInv PROVE HierarchiesAreTrees
  OBVIOUS
<1>1. \A o \in Live : o \notin Above(parent, o)
  BY Tops, TreeHasNoCycle DEF TreeInv
<1>2. \A c \in DOMAIN tree : Root \in Above(tree, c)
  BY Tops, TreeReachesItsTop DEF TreeInv
<1> QED
  BY <1>1, <1>2 DEF HierarchiesAreTrees

(* However objects are parented, copied, joined and removed and collections made and      *)
(* deleted, no object becomes its own ancestor and no collection is cut off from the      *)
(* scene's own.                                                                           *)
THEOREM HierarchiesStayTrees == Spec => []HierarchiesAreTrees
<1>1. Init => TreeInv
  <2>1. \A f : DOMAIN f = {} => \A top : IsTree(f, top)
    <3> SUFFICES ASSUME NEW f, DOMAIN f = {}, NEW top PROVE IsTree(f, top)
      OBVIOUS
    <3>1. Ranks(f, top, [x \in {} |-> 0])
      BY DEF Ranks
    <3> QED
      BY <3>1, FS_EmptySet DEF IsTree
  <2> QED
    BY <2>1 DEF Init, TreeInv
<1> QED
  BY <1>1, TreeStep, TreesHaveNoCycles, PTL DEF Spec
=============================================================================
