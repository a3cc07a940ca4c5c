------------------------- MODULE SceneWatch_proof --------------------------
(***************************************************************************)
(* Theorems about SceneWatch, for any objects, names and limits: what a    *)
(* caller of scene.diff learns is what happened to the scene.              *)
(***************************************************************************)
EXTENDS SceneWatch, FiniteSetTheorems, SequenceTheorems, WellFoundedInduction, TLAPS

-----------------------------------------------------------------------------
(* Folding one change after the other.  FoldLeft is defined by a recursive function on
   the subsets of a sequence's domain; what it comes to on the first j positions. *)

LEMMA LessWellFounded == IsWellFoundedOn({p \in Nat \X Nat : p[1] < p[2]}, Nat)
BY NatLessThanWellFounded DEF OpToRel

LEMMA LeastNat ==
  ASSUME NEW T \in SUBSET Nat, T # {}
  PROVE  \E x \in T : \A y \in T : x <= y
<1> DEFINE R == {p \in Nat \X Nat : p[1] < p[2]}
<1>1. IsWellFoundedOn(R, Nat)
  BY LessWellFounded
<1> HIDE DEF R
<1>2. PICK x \in T : \A y \in T : ~(<<y, x>> \in R)
  BY <1>1, WFMin
<1>3. \A y \in T : ~(y < x)
  BY <1>2 DEF R
<1> QED BY <1>3

\* g folds the changes at the positions in any set among 1 .. n.
Folds(c, n, g) ==
  g = [s \in SUBSET (1 .. n) |->
         IF s = {} THEN EmptyDiff ELSE FoldStep(g[s \ {Max(s)}], c[Max(s)])]

LEMMA MaxLast ==
  ASSUME NEW n \in Nat, NEW s \in SUBSET (1 .. n + 1), n + 1 \in s
  PROVE  Max(s) = n + 1 /\ s \ {n + 1} \in SUBSET (1 .. n)
<1>1. \A y \in s : n + 1 >= y
  OBVIOUS
<1>2. \A x \in s : (\A y \in s : x >= y) => x = n + 1
  OBVIOUS
<1>3. Max(s) = n + 1
  BY <1>1, <1>2 DEF Max
<1> QED BY <1>3

LEMMA FoldsExist ==
  ASSUME NEW c, NEW n \in Nat
  PROVE  \E g : Folds(c, n, g)
<1> DEFINE Bad == {k \in Nat : ~\E g : Folds(c, k, g)}
<1> SUFFICES ASSUME Bad # {} PROVE FALSE
  OBVIOUS
<1> HIDE DEF Bad
<1>1. Bad \in SUBSET Nat
  BY DEF Bad
<1>2. PICK k \in Bad : \A j \in Bad : k <= j
  BY <1>1, LeastNat
<1>3. k \in Nat /\ ~\E g : Folds(c, k, g)
  BY DEF Bad
<1>4. CASE k = 0
  <2> DEFINE g == [s \in SUBSET (1 .. 0) |-> EmptyDiff]
  <2>1. \A s \in SUBSET (1 .. 0) : s = {}
    OBVIOUS
  <2>2. Folds(c, 0, g)
    BY <2>1 DEF Folds
  <2> QED BY <1>3, <1>4, <2>2
<1>5. CASE k # 0
  <2> DEFINE m == k - 1
  <2>1. m \in Nat /\ m < k /\ k = m + 1
    BY <1>3, <1>5
  <2>2. m \notin Bad
    BY <1>2, <1>3, <2>1
  <2> HIDE DEF m
  <2>3. PICK f : Folds(c, m, f)
    BY <2>1, <2>2 DEF Bad
  <2> DEFINE g == [s \in SUBSET (1 .. m + 1) |->
                     IF m + 1 \in s THEN FoldStep(f[s \ {m + 1}], c[m + 1]) ELSE f[s]]
             h == [s \in SUBSET (1 .. m + 1) |->
                     IF s = {} THEN EmptyDiff ELSE FoldStep(g[s \ {Max(s)}], c[Max(s)])]
  <2>4. \A s \in SUBSET (1 .. m) : s \in SUBSET (1 .. m + 1) /\ g[s] = f[s]
    <3> SUFFICES ASSUME NEW s \in SUBSET (1 .. m)
                 PROVE  s \in SUBSET (1 .. m + 1) /\ g[s] = f[s]
      OBVIOUS
    <3>1. s \in SUBSET (1 .. m + 1) /\ m + 1 \notin s
      BY <2>1
    <3> QED BY <3>1
  <2>5. ASSUME NEW s \in SUBSET (1 .. m + 1) PROVE g[s] = h[s]
    <3>1. CASE m + 1 \in s
      <4>1. Max(s) = m + 1 /\ s \ {m + 1} \in SUBSET (1 .. m)
        BY <2>1, <3>1, MaxLast
      <4>2. g[s \ {m + 1}] = f[s \ {m + 1}]
        BY <2>4, <4>1
      <4>3. g[s] = FoldStep(f[s \ {m + 1}], c[m + 1])
        BY <3>1
      <4>4. h[s] = FoldStep(g[s \ {Max(s)}], c[Max(s)])
        BY <3>1
      <4> HIDE DEF g, h
      <4> QED BY <4>1, <4>2, <4>3, <4>4
    <3>2. CASE m + 1 \notin s
      <4>1. s \in SUBSET (1 .. m)
        BY <2>1, <3>2
      <4>2. g[s] = f[s] /\ g[s \ {Max(s)}] = f[s \ {Max(s)}]
        BY <2>4, <4>1
      <4>3. f[s] = IF s = {} THEN EmptyDiff ELSE FoldStep(f[s \ {Max(s)}], c[Max(s)])
        BY <2>3, <4>1 DEF Folds
      <4>4. h[s] = IF s = {} THEN EmptyDiff ELSE FoldStep(g[s \ {Max(s)}], c[Max(s)])
        OBVIOUS
      <4> HIDE DEF g, h
      <4> QED BY <4>2, <4>3, <4>4
    <3> QED BY <3>1, <3>2
  <2>6. g = h
    <3>1. g = [s \in SUBSET (1 .. m + 1) |-> g[s]] /\ h = [s \in SUBSET (1 .. m + 1) |-> h[s]]
      OBVIOUS
    <3> HIDE DEF g, h
    <3> QED BY <2>5, <3>1
  <2>7. Folds(c, m + 1, g)
    <3> HIDE DEF g
    <3> QED BY <2>6 DEF Folds
  <2> QED BY <1>3, <2>1, <2>7
<1> QED BY <1>4, <1>5

LEMMA FoldsSteps ==
  ASSUME NEW c, NEW n \in Nat, NEW g, Folds(c, n, g), NEW j \in 1 .. n
  PROVE  g[1 .. 0] = EmptyDiff /\ g[1 .. j] = FoldStep(g[1 .. j - 1], c[j])
<1>1. 1 .. 0 = {} /\ {} \in SUBSET (1 .. n)
  OBVIOUS
<1>2. g[1 .. 0] = EmptyDiff
  BY <1>1 DEF Folds
<1>3. 1 .. j \in SUBSET (1 .. n) /\ 1 .. j # {} /\ (1 .. j) \ {j} = 1 .. j - 1
  OBVIOUS
<1>4. Max(1 .. j) = j
  <2>1. j - 1 \in Nat /\ 1 .. j \in SUBSET (1 .. (j - 1) + 1) /\ (j - 1) + 1 \in 1 .. j
        /\ (j - 1) + 1 = j
    OBVIOUS
  <2>2. Max(1 .. j) = (j - 1) + 1
    BY <2>1, MaxLast
  <2> QED BY <2>1, <2>2
<1> QED BY <1>2, <1>3, <1>4 DEF Folds

\* Two sequences that agree up to n fold alike up to there.
LEMMA FoldsAgree ==
  ASSUME NEW c, NEW d, NEW n \in Nat, NEW m \in Nat, n <= m,
         NEW g, Folds(c, n, g), NEW h, Folds(d, m, h),
         \A j \in 1 .. n : c[j] = d[j]
  PROVE  g[1 .. n] = h[1 .. n]
<1> DEFINE Bad == {k \in 0 .. n : g[1 .. k] # h[1 .. k]}
<1> SUFFICES ASSUME Bad # {} PROVE FALSE
  OBVIOUS
<1> HIDE DEF Bad
<1>1. Bad \in SUBSET Nat
  BY DEF Bad
<1>2. PICK k \in Bad : \A j \in Bad : k <= j
  BY <1>1, LeastNat
<1>3. k \in 0 .. n /\ g[1 .. k] # h[1 .. k]
  BY DEF Bad
<1>4. CASE k = 0
  <2>1. g[{}] = EmptyDiff /\ h[{}] = EmptyDiff
    BY DEF Folds
  <2>2. 1 .. 0 = {}
    OBVIOUS
  <2> QED BY <1>3, <1>4, <2>1, <2>2
<1>5. CASE k # 0
  <2>1. k \in 1 .. n /\ k \in 1 .. m /\ k - 1 \in 0 .. n /\ k - 1 < k /\ k \in Nat
    BY <1>3, <1>5
  <2>2. k - 1 \notin Bad
    BY <1>2, <2>1
  <2>3. g[1 .. k - 1] = h[1 .. k - 1]
    BY <2>1, <2>2 DEF Bad
  <2>4. g[1 .. k] = FoldStep(g[1 .. k - 1], c[k])
    BY <2>1, FoldsSteps
  <2>5. h[1 .. k] = FoldStep(h[1 .. k - 1], d[k])
    BY <2>1, FoldsSteps
  <2> QED BY <1>3, <2>1, <2>3, <2>4, <2>5
<1> QED BY <1>4, <1>5

LEMMA DiffFolds ==
  ASSUME NEW S, NEW c \in Seq(S)
  PROVE  \E g : Folds(c, Len(c), g) /\ DiffOf(c) = g[1 .. Len(c)]
<1> DEFINE n == Len(c)
           Iter(g) == g = [s \in SUBSET DOMAIN c |->
                             IF s = {} THEN EmptyDiff ELSE FoldStep(g[s \ {Max(s)}], c[Max(s)])]
           iter == CHOOSE g : Iter(g)
<1>1. DOMAIN c = 1 .. n /\ n \in Nat
  OBVIOUS
<1>2. DiffOf(c) = iter[DOMAIN c]
  BY DEF DiffOf, FoldLeft, MapThenFoldSet
<1>3. \A g : Iter(g) <=> Folds(c, n, g)
  BY <1>1 DEF Folds
<1>4. \E g : Iter(g)
  <2>1. \E g : Folds(c, n, g)
    BY <1>1, FoldsExist
  <2> HIDE DEF Iter
  <2> QED BY <1>3, <2>1
<1>5. Iter(iter)
  <2> HIDE DEF Iter
  <2> QED BY <1>4
<1> HIDE DEF Iter, iter, n
<1>6. Folds(c, n, iter) /\ DiffOf(c) = iter[1 .. n]
  BY <1>1, <1>2, <1>3, <1>5
<1> QED BY <1>6 DEF n

LEMMA DiffOfNothing == DiffOf(<<>>) = EmptyDiff
<1>1. <<>> \in Seq({}) /\ Len(<<>>) = 0
  OBVIOUS
<1>2. PICK g : Folds(<<>>, 0, g) /\ DiffOf(<<>>) = g[1 .. 0]
  BY <1>1, DiffFolds
<1>3. 1 .. 0 = {}
  OBVIOUS
<1>4. g[{}] = EmptyDiff
  BY <1>2 DEF Folds
<1> QED BY <1>2, <1>3, <1>4

LEMMA DiffOfAppend ==
  ASSUME NEW S, NEW c \in Seq(S), NEW e \in S
  PROVE  DiffOf(Append(c, e)) = FoldStep(DiffOf(c), e)
<1> DEFINE n == Len(c)
           d == Append(c, e)
<1>1. /\ n \in Nat /\ d \in Seq(S) /\ Len(d) = n + 1
      /\ (\A j \in 1 .. n : c[j] = d[j]) /\ d[n + 1] = e
  OBVIOUS
<1>2. PICK g : Folds(c, n, g) /\ DiffOf(c) = g[1 .. n]
  BY DiffFolds
<1> HIDE DEF n, d
<1>3. PICK h : Folds(d, n + 1, h) /\ DiffOf(d) = h[1 .. n + 1]
  BY <1>1, DiffFolds
<1>4. n <= n + 1 /\ n + 1 \in Nat /\ n + 1 \in 1 .. n + 1 /\ (n + 1) - 1 = n
  BY <1>1
<1>5. g[1 .. n] = h[1 .. n]
  BY <1>1, <1>2, <1>3, <1>4, FoldsAgree
<1>6. h[1 .. n + 1] = FoldStep(h[1 .. (n + 1) - 1], d[n + 1])
  BY <1>3, <1>4, FoldsSteps
<1>7. h[1 .. n + 1] = FoldStep(h[1 .. n], e)
  BY <1>1, <1>4, <1>6
<1> QED BY <1>2, <1>3, <1>5, <1>7 DEF d

-----------------------------------------------------------------------------
(* Folding the reports of a set, in whatever order they come *)

LEMMA EnumerationFacts ==
  ASSUME NEW S, IsFiniteSet(S)
  PROVE  /\ SetToSeq(S) \in Seq(S)
         /\ \A i, j \in DOMAIN SetToSeq(S) : SetToSeq(S)[i] = SetToSeq(S)[j] => i = j
         /\ \A e \in S : \E i \in DOMAIN SetToSeq(S) : SetToSeq(S)[i] = e
<1> DEFINE n == Cardinality(S)
           q == SetToSeq(S)
<1>1. n \in Nat /\ ExistsBijection(1 .. n, S)
  BY FS_CardinalityType
<1>2. \E f \in [1 .. n -> S] : IsInjective(f)
  BY <1>1 DEF ExistsBijection, Bijection, Injection
<1>3. q \in [1 .. n -> S] /\ IsInjective(q)
  BY <1>2 DEF SetToSeq
<1> HIDE DEF q
<1>4. IsFiniteSet(1 .. n) /\ Cardinality(1 .. n) = n
  BY <1>1, FS_Interval
<1>5. q \in Injection(1 .. n, S)
  BY <1>3 DEF Injection
<1>6. q \in Surjection(1 .. n, S)
  BY <1>4, <1>5, FS_Injection
<1>7. DOMAIN q = 1 .. n /\ q \in Seq(S)
  BY <1>1, <1>3
<1> QED BY <1>3, <1>6, <1>7 DEF q, IsInjective, Surjection

LEMMA ConcatAppend ==
  ASSUME NEW S, NEW c \in Seq(S), NEW a \in Seq(S), NEW e \in S
  PROVE  c \o Append(a, e) = Append(c \o a, e)
<1>1. Append(a, e) = a \o <<e>> /\ <<e>> \in Seq(S)
  BY AppendIsConcat
<1>2. c \o a \in Seq(S) /\ Append(c \o a, e) = (c \o a) \o <<e>>
  BY AppendIsConcat, ConcatProperties
<1>3. (c \o a) \o <<e>> = c \o (a \o <<e>>)
  BY <1>1, ConcatAssociative
<1> QED BY <1>1, <1>2, <1>3

LEMMA PrefixGrows ==
  ASSUME NEW S, NEW q \in Seq(S), NEW k \in 1 .. Len(q)
  PROVE  /\ SubSeq(q, 1, k - 1) \in Seq(S) /\ q[k] \in S
         /\ SubSeq(q, 1, k) = Append(SubSeq(q, 1, k - 1), q[k])
<1> DEFINE a == SubSeq(q, 1, k - 1)
           z == SubSeq(q, 1, k)
           y == Append(a, q[k])
<1>1. /\ Len(q) \in Nat /\ k \in Nat /\ k - 1 \in Nat
      /\ a \in Seq(S) /\ Len(a) = k - 1 /\ \A i \in 1 .. k - 1 : a[i] = q[i]
  OBVIOUS
<1>2. z \in Seq(S) /\ Len(z) = k /\ \A i \in 1 .. k : z[i] = q[i]
  BY <1>1
<1>3. q[k] \in S
  OBVIOUS
<1> HIDE DEF a, z
<1>4. /\ y \in Seq(S) /\ Len(y) = k
      /\ \A i \in 1 .. k - 1 : y[i] = a[i]
      /\ y[k] = q[k]
  BY <1>1, <1>3
<1> HIDE DEF y
<1>5. \A i \in 1 .. k : i \in 1 .. k - 1 \/ i = k
  BY <1>1
<1>6. \A i \in 1 .. k : y[i] = z[i]
  BY <1>1, <1>2, <1>4, <1>5
<1>7. y = [i \in 1 .. k |-> y[i]] /\ z = [i \in 1 .. k |-> z[i]]
  BY <1>2, <1>4
<1>8. y = z
  BY <1>6, <1>7
<1> QED BY <1>1, <1>3, <1>8 DEF a, z, y

\* G[T] are the diffs that may have come out once the reports in T are folded.
LEMMA FoldReports ==
  ASSUME NEW R, NEW c \in Seq(R), NEW S \in SUBSET R, IsFiniteSet(S), NEW G,
         DiffOf(c) \in G[{}],
         \A T \in SUBSET S, e \in S : e \notin T =>
           \A d \in G[T] : FoldStep(d, e) \in G[T \cup {e}]
  PROVE  c \o Reports(S) \in Seq(R) /\ DiffOf(c \o Reports(S)) \in G[S]
<1> DEFINE q == SetToSeq(S)
           n == Len(q)
           Upto(k) == {q[i] : i \in 1 .. k}
           Bad == {k \in 0 .. n : DiffOf(c \o SubSeq(q, 1, k)) \notin G[Upto(k)]}
<1>1. /\ q \in Seq(S) /\ \A i, j \in DOMAIN q : q[i] = q[j] => i = j
      /\ \A e \in S : \E i \in DOMAIN q : q[i] = e
  BY EnumerationFacts
<1> HIDE DEF q
<1>2. q \in Seq(R) /\ n \in Nat /\ DOMAIN q = 1 .. n /\ \A i \in 1 .. n : q[i] \in S
  BY <1>1
<1> HIDE DEF n
<1>3. ASSUME Bad # {} PROVE FALSE
  <2> HIDE DEF Bad
  <2>1. Bad \in SUBSET Nat
    BY <1>2 DEF Bad
  <2>2. PICK k \in Bad : \A j \in Bad : k <= j
    BY <1>3, <2>1, LeastNat
  <2>3. k \in 0 .. n /\ DiffOf(c \o SubSeq(q, 1, k)) \notin G[Upto(k)]
    BY DEF Bad
  <2>4. CASE k = 0
    <3>1. SubSeq(q, 1, 0) = <<>>
      BY <1>2
    <3>2. c \o <<>> = c
      BY ConcatEmptySeq
    <3>3. Upto(0) = {}
      OBVIOUS
    <3> HIDE DEF Upto
    <3> QED BY <2>3, <2>4, <3>1, <3>2, <3>3
  <2>5. CASE k # 0
    <3> DEFINE a == SubSeq(q, 1, k - 1)
    <3>1. k \in 1 .. n /\ k - 1 \in 0 .. n /\ k - 1 < k /\ k \in Nat
      BY <1>2, <2>3, <2>5
    <3>2. k - 1 \notin Bad
      BY <2>2, <3>1
    <3>3. DiffOf(c \o a) \in G[Upto(k - 1)]
      BY <3>1, <3>2 DEF Bad
    <3>4. a \in Seq(R) /\ q[k] \in R /\ SubSeq(q, 1, k) = Append(a, q[k])
      BY <1>2, <3>1, PrefixGrows DEF n
    <3> HIDE DEF a
    <3>5. c \o Append(a, q[k]) = Append(c \o a, q[k])
      BY <3>4, ConcatAppend
    <3>6. c \o a \in Seq(R)
      BY <3>4, ConcatProperties
    <3>7. DiffOf(Append(c \o a, q[k])) = FoldStep(DiffOf(c \o a), q[k])
      BY <3>4, <3>6, DiffOfAppend
    <3>8. Upto(k - 1) \in SUBSET S /\ q[k] \in S /\ q[k] \notin Upto(k - 1)
      BY <1>1, <1>2, <3>1
    <3>9. Upto(k) = Upto(k - 1) \cup {q[k]}
      <4>1. 1 .. k = (1 .. k - 1) \cup {k}
        BY <3>1
      <4> QED BY <4>1
    <3> HIDE DEF Upto
    <3>10. FoldStep(DiffOf(c \o a), q[k]) \in G[Upto(k)]
      BY <3>3, <3>8, <3>9
    <3> QED BY <2>3, <3>4, <3>5, <3>7, <3>10
  <2> QED BY <2>4, <2>5
<1>4. DiffOf(c \o SubSeq(q, 1, n)) \in G[Upto(n)]
  <2>1. n \in 0 .. n
    BY <1>2
  <2>2. n \notin Bad
    <3> HIDE DEF Bad
    <3> QED BY <1>3
  <2> HIDE DEF Upto
  <2> QED BY <2>1, <2>2
<1>5. SubSeq(q, 1, n) = q
  BY <1>2 DEF n
<1>6. Upto(n) = S
  BY <1>1, <1>2
<1>7. c \o q \in Seq(R)
  BY <1>2, ConcatProperties
<1> QED BY <1>4, <1>5, <1>6, <1>7 DEF q, Reports

-----------------------------------------------------------------------------
(* What one change makes of a diff *)

\* Functions on some of the ids.
Partial(X) == UNION {[D -> X] : D \in SUBSET Ids}

Entries == [name : {None} \cup Names, previous : {None} \cup Names]

Diffs == [created : Partial(Names), modified : Partial(Entries), deleted : SUBSET Ids,
          meshes : SUBSET Ids, selection : {None} \cup SUBSET Ids, reset : BOOLEAN]

Creations == [change : {"created"}, id : Ids, name : Names]
Renamings == [change : {"renamed"}, id : Ids, from : Names, to : Names]
Deletions == [change : {"deleted"}, id : Ids]
Edits     == [change : {"mesh"}, id : Ids]
Movements == [change : {"modified"}, id : Ids]
Resets    == [change : {"reset"}]
Picks     == [change : {"selection"}, selected : SUBSET Ids]

Changes == Creations \cup Renamings \cup Deletions \cup Edits \cup Movements \cup Resets
             \cup Picks

\* The diff d says how the scene C came out of the scene T.
Relates(d, T, C) ==
  /\ DOMAIN d.created = DOMAIN C \ DOMAIN T
  /\ \A o \in DOMAIN d.created : d.created[o] = C[o]
  /\ d.deleted = DOMAIN T \ DOMAIN C
  /\ \A o \in DOMAIN T \cap DOMAIN C : T[o] # C[o] => o \in DOMAIN d.modified
  /\ \A o \in DOMAIN d.modified :
       d.modified[o].name = None \/ (o \in DOMAIN T \cap DOMAIN C /\ d.modified[o].name = C[o])

\* It also names the meshes in M and has the selection x; all of it unless it says reset,
\* and how the scene came out only if the scene was watched (w).
Tells(w, T, d, C, M, x) ==
  /\ d \in Diffs
  /\ \/ d.reset
     \/ (w => Relates(d, T, C)) /\ M \subseteq d.meshes /\ d.selection = x

LEMMA PartialTypes ==
  ASSUME NEW X, NEW f \in Partial(X)
  PROVE  DOMAIN f \in SUBSET Ids /\ f \in [DOMAIN f -> X] /\ \A o \in DOMAIN f : f[o] \in X
<1>1. PICK D \in SUBSET Ids : f \in [D -> X]
  BY DEF Partial
<1> QED BY <1>1

LEMMA Partials ==
  ASSUME NEW X, NEW D \in SUBSET Ids, NEW f \in [D -> X]
  PROVE  f \in Partial(X)
BY DEF Partial

LEMMA Added ==
  ASSUME NEW X, NEW f \in Partial(X), NEW o \in Ids, NEW x \in X
  PROVE  With(f, o, x) \in Partial(X)
<1>1. DOMAIN f \in SUBSET Ids /\ \A p \in DOMAIN f : f[p] \in X
  BY PartialTypes
<1>2. With(f, o, x) \in [DOMAIN f \cup {o} -> X] /\ DOMAIN f \cup {o} \in SUBSET Ids
  BY <1>1 DEF With
<1> QED BY <1>2, Partials

LEMMA Removed ==
  ASSUME NEW X, NEW f \in Partial(X), NEW o
  PROVE  /\ Without(f, o) \in Partial(X) /\ DOMAIN Without(f, o) = DOMAIN f \ {o}
         /\ \A p \in DOMAIN f \ {o} : Without(f, o)[p] = f[p]
<1> DEFINE g == Without(f, o)
<1>1. DOMAIN f \in SUBSET Ids /\ \A p \in DOMAIN f : f[p] \in X
  BY PartialTypes
<1>2. g = [p \in DOMAIN f \ {o} |-> f[p]]
  BY DEF Without, Restrict
<1> HIDE DEF g
<1>3. g \in [DOMAIN f \ {o} -> X] /\ DOMAIN f \ {o} \in SUBSET Ids
  BY <1>1, <1>2
<1>4. g \in Partial(X)
  BY <1>3, Partials
<1> QED BY <1>2, <1>4 DEF g

LEMMA DiffTypes ==
  ASSUME NEW d \in Diffs
  PROVE  /\ d.created \in Partial(Names) /\ d.modified \in Partial(Entries)
         /\ d.deleted \in SUBSET Ids /\ d.meshes \in SUBSET Ids
         /\ d.selection \in {None} \cup SUBSET Ids /\ d.reset \in BOOLEAN
BY DEF Diffs

LEMMA TellsCreated ==
  ASSUME NEW w, NEW T, NEW M, NEW x, NEW C \in Partial(Names), NEW D \in Partial(Names),
         NEW e \in Creations, NEW d, Tells(w, T, d, C, M, x),
         w => e.id \notin DOMAIN C /\ e.id \notin DOMAIN T,
         DOMAIN D = DOMAIN C \cup {e.id}, D[e.id] = e.name,
         \A o \in DOMAIN C \ {e.id} : D[o] = C[o]
  PROVE  Tells(w, T, FoldStep(d, e), D, M, x)
<1> DEFINE f == FoldStep(d, e)
           g == With(d.created, e.id, e.name)
<1>1. d \in Diffs /\ e.id \in Ids /\ e.name \in Names /\ e.change = "created"
  BY DEF Tells, Creations
<1>2. /\ g \in Partial(Names) /\ DOMAIN g = DOMAIN d.created \cup {e.id} /\ g[e.id] = e.name
      /\ \A p \in DOMAIN d.created : p # e.id => g[p] = d.created[p]
  <2> DEFINE a == d.created
             i == e.id
             n == e.name
  <2>1. a \in Partial(Names) /\ i \in Ids /\ n \in Names
    BY <1>1, DiffTypes
  <2> HIDE DEF a, i, n
  <2>2. With(a, i, n) \in Partial(Names)
    BY ONLY <2>1, Added
  <2>3. /\ DOMAIN With(a, i, n) = DOMAIN a \cup {i} /\ With(a, i, n)[i] = n
        /\ \A p \in DOMAIN a : p # i => With(a, i, n)[p] = a[p]
    BY DEF With
  <2> QED BY ONLY <2>2, <2>3 DEF a, i, n
<1>3. f = [d EXCEPT !.deleted = @ \ {e.id}, !.created = g]
  BY <1>1 DEF FoldStep, IfCreated
<1> HIDE DEF f, g
<1>4. f \in Diffs
  BY <1>1, <1>2, <1>3 DEF Diffs
<1>5. /\ f.created = g /\ f.modified = d.modified /\ f.deleted = d.deleted \ {e.id}
      /\ f.meshes = d.meshes /\ f.selection = d.selection /\ f.reset = d.reset
  BY <1>1, <1>3 DEF Diffs
<1>6. w /\ Relates(d, T, C) => Relates(f, T, D)
  BY <1>2, <1>5 DEF Relates
<1> QED BY <1>4, <1>5, <1>6 DEF Tells, f

LEMMA TellsRenamed ==
  ASSUME NEW w, NEW T, NEW M, NEW x, NEW C \in Partial(Names), NEW D \in Partial(Names),
         NEW e \in Renamings, NEW d, Tells(w, T, d, C, M, x),
         w => e.id \in DOMAIN C,
         DOMAIN D = DOMAIN C \cup {e.id}, D[e.id] = e.to,
         \A o \in DOMAIN C \ {e.id} : D[o] = C[o]
  PROVE  Tells(w, T, FoldStep(d, e), D, M, x)
<1> DEFINE f == FoldStep(d, e)
<1>1. d \in Diffs /\ e.id \in Ids /\ e.from \in Names /\ e.to \in Names /\ e.change = "renamed"
  BY DEF Tells, Renamings
<1>2. /\ d.created \in Partial(Names) /\ d.modified \in Partial(Entries)
      /\ DOMAIN d.created \in SUBSET Ids /\ d.created \in [DOMAIN d.created -> Names]
  BY <1>1, DiffTypes, PartialTypes
<1>3. f = IfRenamed(d, e)
  BY <1>1 DEF FoldStep
<1>4. CASE e.id \in DOMAIN d.created
  <2> DEFINE g == [d.created EXCEPT ![e.id] = e.to]
  <2>1. g \in [DOMAIN d.created -> Names]
    BY <1>1, <1>2
  <2>2. g \in Partial(Names)
    BY <1>2, <2>1, Partials
  <2>3. /\ DOMAIN g = DOMAIN d.created /\ g[e.id] = e.to
        /\ \A p \in DOMAIN d.created : p # e.id => g[p] = d.created[p]
    BY <1>2, <1>4
  <2>4. f = [d EXCEPT !.created = g]
    BY <1>3, <1>4 DEF IfRenamed
  <2> HIDE DEF f, g
  <2>5. f \in Diffs
    BY <1>1, <2>2, <2>4 DEF Diffs
  <2>6. /\ f.created = g /\ f.modified = d.modified /\ f.deleted = d.deleted
        /\ f.meshes = d.meshes /\ f.selection = d.selection /\ f.reset = d.reset
    BY <1>1, <2>4 DEF Diffs
  <2>7. w /\ Relates(d, T, C) => Relates(f, T, D)
    BY <1>4, <2>3, <2>6 DEF Relates
  <2> QED BY <2>5, <2>6, <2>7 DEF Tells, f
<1>5. CASE e.id \notin DOMAIN d.created
  <2> DEFINE entry == IF e.id \in DOMAIN d.modified
                        THEN [d.modified[e.id] EXCEPT !.name = e.to]
                        ELSE [name |-> e.to, previous |-> e.from]
             g == With(d.modified, e.id, entry)
  <2>1. entry \in Entries /\ entry.name = e.to
    <3>1. CASE e.id \in DOMAIN d.modified
      <4>1. d.modified[e.id] \in Entries
        BY <1>2, <3>1, PartialTypes
      <4> QED BY <1>1, <3>1, <4>1 DEF Entries
    <3>2. CASE e.id \notin DOMAIN d.modified
      BY <1>1, <3>2 DEF Entries
    <3> QED BY <3>1, <3>2
  <2>2. f = [d EXCEPT !.modified = g]
    BY <1>3, <1>5 DEF IfRenamed
  <2> HIDE DEF entry
  <2>3. /\ g \in Partial(Entries) /\ DOMAIN g = DOMAIN d.modified \cup {e.id} /\ g[e.id] = entry
        /\ \A p \in DOMAIN d.modified : p # e.id => g[p] = d.modified[p]
    <3> DEFINE a == d.modified
               i == e.id
    <3>1. a \in Partial(Entries) /\ i \in Ids /\ entry \in Entries
      BY <1>1, <1>2, <2>1
    <3> HIDE DEF a, i, f
    <3>2. With(a, i, entry) \in Partial(Entries)
      BY ONLY <3>1, Added
    <3>3. /\ DOMAIN With(a, i, entry) = DOMAIN a \cup {i} /\ With(a, i, entry)[i] = entry
          /\ \A p \in DOMAIN a : p # i => With(a, i, entry)[p] = a[p]
      BY DEF With
    <3> QED BY ONLY <3>2, <3>3 DEF a, i
  <2> HIDE DEF f, g
  <2>4. f \in Diffs
    BY <1>1, <2>2, <2>3 DEF Diffs
  <2>5. /\ f.created = d.created /\ f.modified = g /\ f.deleted = d.deleted
        /\ f.meshes = d.meshes /\ f.selection = d.selection /\ f.reset = d.reset
    BY <1>1, <2>2 DEF Diffs
  <2>6. ASSUME w, Relates(d, T, C) PROVE Relates(f, T, D)
    <3>1. e.id \in DOMAIN T \cap DOMAIN C
      BY <1>5, <2>6 DEF Relates
    <3>2. \A o \in DOMAIN g : g[o].name = None \/ (o \in DOMAIN T \cap DOMAIN D /\ g[o].name = D[o])
      BY <2>1, <2>3, <2>6, <3>1 DEF Relates
    <3> QED BY <1>5, <2>3, <2>5, <2>6, <3>1, <3>2 DEF Relates
  <2> QED BY <2>4, <2>5, <2>6 DEF Tells, f
<1> QED BY <1>4, <1>5

LEMMA TellsDeleted ==
  ASSUME NEW w, NEW T, NEW M, NEW x, NEW C \in Partial(Names), NEW D \in Partial(Names),
         NEW e \in Deletions, NEW d, Tells(w, T, d, C, M, x),
         w => e.id \in DOMAIN C, e.id \notin M,
         DOMAIN D = DOMAIN C \ {e.id}, \A o \in DOMAIN D : D[o] = C[o]
  PROVE  Tells(w, T, FoldStep(d, e), D, M, x)
<1> DEFINE f == FoldStep(d, e)
           g == Without(d.created, e.id)
           h == Without(d.modified, e.id)
           gone == IF e.id \in DOMAIN d.created THEN d.deleted ELSE d.deleted \cup {e.id}
<1>1. d \in Diffs /\ e.id \in Ids /\ e.change = "deleted"
  BY DEF Tells, Deletions
<1>2. /\ g \in Partial(Names) /\ DOMAIN g = DOMAIN d.created \ {e.id}
      /\ \A p \in DOMAIN d.created \ {e.id} : g[p] = d.created[p]
      /\ h \in Partial(Entries) /\ DOMAIN h = DOMAIN d.modified \ {e.id}
      /\ \A p \in DOMAIN d.modified \ {e.id} : h[p] = d.modified[p]
  <2>1. d.created \in Partial(Names) /\ d.modified \in Partial(Entries)
    BY <1>1, DiffTypes
  <2>2. /\ g \in Partial(Names) /\ DOMAIN g = DOMAIN d.created \ {e.id}
        /\ \A p \in DOMAIN d.created \ {e.id} : g[p] = d.created[p]
    <3> DEFINE a == d.created
               i == e.id
    <3> HIDE DEF a, i
    <3>1. a \in Partial(Names)
      BY ONLY <2>1 DEF a
    <3>2. /\ Without(a, i) \in Partial(Names) /\ DOMAIN Without(a, i) = DOMAIN a \ {i}
          /\ \A p \in DOMAIN a \ {i} : Without(a, i)[p] = a[p]
      BY ONLY <3>1, Removed
    <3> QED BY ONLY <3>2 DEF a, i
  <2>3. /\ h \in Partial(Entries) /\ DOMAIN h = DOMAIN d.modified \ {e.id}
        /\ \A p \in DOMAIN d.modified \ {e.id} : h[p] = d.modified[p]
    <3> DEFINE a == d.modified
               i == e.id
    <3> HIDE DEF a, i
    <3>1. a \in Partial(Entries)
      BY ONLY <2>1 DEF a
    <3>2. /\ Without(a, i) \in Partial(Entries) /\ DOMAIN Without(a, i) = DOMAIN a \ {i}
          /\ \A p \in DOMAIN a \ {i} : Without(a, i)[p] = a[p]
      BY ONLY <3>1, Removed
    <3> QED BY ONLY <3>2 DEF a, i
  <2> HIDE DEF g, h
  <2> QED BY ONLY <2>2, <2>3
<1>3. f = [d EXCEPT !.created = g, !.modified = h, !.meshes = @ \ {e.id}, !.deleted = gone]
  BY <1>1 DEF FoldStep, IfDeleted
<1>4. gone \in SUBSET Ids
  BY <1>1, DiffTypes
<1> HIDE DEF f, g, h
<1>5. f \in Diffs
  <2> HIDE DEF gone
  <2> QED BY <1>1, <1>2, <1>3, <1>4 DEF Diffs
<1>6. /\ f.created = g /\ f.modified = h /\ f.deleted = gone
      /\ f.meshes = d.meshes \ {e.id} /\ f.selection = d.selection /\ f.reset = d.reset
  <2> HIDE DEF gone
  <2> QED BY <1>1, <1>3 DEF Diffs
<1>7. ASSUME w, Relates(d, T, C) PROVE Relates(f, T, D)
  <2>1. DOMAIN g = DOMAIN D \ DOMAIN T /\ \A o \in DOMAIN g : g[o] = D[o]
    BY <1>2, <1>7 DEF Relates
  <2>2. gone = DOMAIN T \ DOMAIN D
    BY <1>7 DEF Relates
  <2>3. \A o \in DOMAIN T \cap DOMAIN D : T[o] # D[o] => o \in DOMAIN h
    BY <1>2, <1>7 DEF Relates
  <2>4. \A o \in DOMAIN h : h[o].name = None \/ (o \in DOMAIN T \cap DOMAIN D /\ h[o].name = D[o])
    BY <1>2, <1>7 DEF Relates
  <2> HIDE DEF gone
  <2> QED BY <1>6, <2>1, <2>2, <2>3, <2>4 DEF Relates
<1> HIDE DEF gone
<1> QED BY <1>5, <1>6, <1>7 DEF Tells, f

LEMMA TellsMoved ==
  ASSUME NEW w, NEW T, NEW M, NEW x, NEW C \in Partial(Names),
         NEW e \in Movements, NEW d, Tells(w, T, d, C, M, x)
  PROVE  Tells(w, T, FoldStep(d, e), C, M, x)
<1> DEFINE f == FoldStep(d, e)
           entry == [name |-> None, previous |-> None]
           g == With(d.modified, e.id, entry)
<1>1. d \in Diffs /\ e.id \in Ids /\ e.change = "modified" /\ entry \in Entries
  BY DEF Tells, Movements, Entries
<1>2. f = IF e.id \in DOMAIN d.created \cup DOMAIN d.modified
            THEN d ELSE [d EXCEPT !.modified = g]
  BY <1>1 DEF FoldStep, IfModified
<1>3. entry.name = None
  OBVIOUS
<1> HIDE DEF entry
<1>4. /\ g \in Partial(Entries) /\ DOMAIN g = DOMAIN d.modified \cup {e.id} /\ g[e.id] = entry
      /\ \A p \in DOMAIN d.modified : p # e.id => g[p] = d.modified[p]
  <2> DEFINE a == d.modified
             i == e.id
  <2>1. a \in Partial(Entries) /\ i \in Ids /\ entry \in Entries
    BY <1>1, DiffTypes DEF entry
  <2> HIDE DEF a, i
  <2>2. With(a, i, entry) \in Partial(Entries)
    BY ONLY <2>1, Added
  <2>3. /\ DOMAIN With(a, i, entry) = DOMAIN a \cup {i} /\ With(a, i, entry)[i] = entry
        /\ \A p \in DOMAIN a : p # i => With(a, i, entry)[p] = a[p]
    BY DEF With
  <2> QED BY ONLY <2>2, <2>3 DEF a, i
<1> HIDE DEF f, g
<1>5. CASE f = d
  BY <1>5 DEF f
<1>6. CASE f = [d EXCEPT !.modified = g] /\ e.id \notin DOMAIN d.modified
  <2>1. f \in Diffs
    BY <1>1, <1>4, <1>6 DEF Diffs
  <2>2. /\ f.created = d.created /\ f.modified = g /\ f.deleted = d.deleted
        /\ f.meshes = d.meshes /\ f.selection = d.selection /\ f.reset = d.reset
    BY <1>1, <1>6 DEF Diffs
  <2>3. Relates(d, T, C) => Relates(f, T, C)
    BY <1>3, <1>4, <1>6, <2>2 DEF Relates
  <2> QED BY <2>1, <2>2, <2>3 DEF Tells, f
<1> QED BY <1>2, <1>5, <1>6

LEMMA TellsEdited ==
  ASSUME NEW w, NEW T, NEW M, NEW x, NEW C,
         NEW e \in Edits, NEW d, Tells(w, T, d, C, M, x)
  PROVE  Tells(w, T, FoldStep(d, e), C, M \cup {e.id}, x)
<1> DEFINE f == FoldStep(d, e)
<1>1. d \in Diffs /\ e.id \in Ids /\ e.change = "mesh"
  BY DEF Tells, Edits
<1>2. f = [d EXCEPT !.meshes = @ \cup {e.id}]
  BY <1>1 DEF FoldStep
<1> HIDE DEF f
<1>3. f \in Diffs
  BY <1>1, <1>2 DEF Diffs
<1>4. /\ f.created = d.created /\ f.modified = d.modified /\ f.deleted = d.deleted
      /\ f.meshes = d.meshes \cup {e.id} /\ f.selection = d.selection /\ f.reset = d.reset
  BY <1>1, <1>2 DEF Diffs
<1>5. Relates(d, T, C) => Relates(f, T, C)
  BY <1>4 DEF Relates
<1> QED BY <1>3, <1>4, <1>5 DEF Tells, f

LEMMA TellsSelected ==
  ASSUME NEW w, NEW T, NEW M, NEW x, NEW C,
         NEW e \in Picks, NEW d, Tells(w, T, d, C, M, x)
  PROVE  Tells(w, T, FoldStep(d, e), C, M, e.selected) /\ FoldStep(d, e).reset = d.reset
<1> DEFINE f == FoldStep(d, e)
<1>1. d \in Diffs /\ e.selected \in SUBSET Ids /\ e.change = "selection"
  BY DEF Tells, Picks
<1>2. f = [d EXCEPT !.selection = e.selected]
  BY <1>1 DEF FoldStep
<1> HIDE DEF f
<1>3. f \in Diffs
  BY <1>1, <1>2 DEF Diffs
<1>4. /\ f.created = d.created /\ f.modified = d.modified /\ f.deleted = d.deleted
      /\ f.meshes = d.meshes /\ f.selection = e.selected /\ f.reset = d.reset
  BY <1>1, <1>2 DEF Diffs
<1>5. Relates(d, T, C) => Relates(f, T, C)
  BY <1>4 DEF Relates
<1> QED BY <1>3, <1>4, <1>5 DEF Tells, f

LEMMA ResetTypes ==
  ASSUME NEW d \in Diffs, NEW e \in Resets
  PROVE  FoldStep(d, e) \in Diffs /\ FoldStep(d, e).reset
<1>1. FoldStep(d, e) = IfReset(d)
  BY DEF FoldStep, Resets
<1>2. <<>> \in Partial(Names) /\ <<>> \in Partial(Entries)
  <2>1. <<>> \in [{} -> Names] /\ <<>> \in [{} -> Entries]
    OBVIOUS
  <2> QED BY <2>1, Partials
<1>3. IfReset(d) \in Diffs /\ IfReset(d).reset
  BY <1>2 DEF IfReset, Diffs
<1> QED BY <1>1, <1>3

LEMMA NothingTells ==
  ASSUME NEW T
  PROVE  /\ EmptyDiff \in Diffs /\ EmptyDiff.selection = None /\ EmptyDiff.meshes = {}
         /\ Relates(EmptyDiff, T, T)
<1>1. <<>> \in Partial(Names) /\ <<>> \in Partial(Entries) /\ DOMAIN <<>> = {}
  <2>1. <<>> \in [{} -> Names] /\ <<>> \in [{} -> Entries] /\ DOMAIN <<>> = {}
    OBVIOUS
  <2> QED BY <2>1, Partials
<1>2. EmptyDiff \in Diffs
  BY <1>1 DEF EmptyDiff, Diffs
<1>3. Relates(EmptyDiff, T, T)
  BY <1>1 DEF EmptyDiff, Relates
<1> QED BY <1>2, <1>3 DEF EmptyDiff

-----------------------------------------------------------------------------
(* What the reports of one update make of a diff: A is the scene last seen, B the scene now *)

Fresh(A, B) == {[change |-> "created", id |-> o, name |-> B[o]] : o \in DOMAIN B \ DOMAIN A}
Named(A, B) == {[change |-> "renamed", id |-> o, from |-> A[o], to |-> B[o]] :
                  o \in {p \in DOMAIN B \cap DOMAIN A : A[p] # B[p]}}
Gone(A, B)  == {[change |-> "deleted", id |-> o] : o \in DOMAIN A \ DOMAIN B}

About(T) == {e.id : e \in T}

\* The scene A with the objects in K as they are in B, and with every object of B so.
Half(A, B, K) == [o \in DOMAIN A \cup K |-> IF o \in K THEN B[o] ELSE A[o]]
Both(A, B)    == [o \in DOMAIN A \cup DOMAIN B |-> IF o \in DOMAIN B THEN B[o] ELSE A[o]]

LEMMA FiniteImage ==
  ASSUME NEW X, IsFiniteSet(X), NEW f
  PROVE  IsFiniteSet({f[o] : o \in X})
<1> DEFINE Y == {f[o] : o \in X}
           g == [o \in X |-> f[o]]
<1>1. g \in Surjection(X, Y)
  BY DEF Surjection
<1> HIDE DEF Y, g
<1>2. IsFiniteSet(Y)
  BY <1>1, FS_Surjection
<1> QED BY <1>2 DEF Y

LEMMA FiniteReports ==
  ASSUME NEW A \in Partial(Names), NEW B \in Partial(Names), NEW K \in SUBSET Ids
  PROVE  /\ IsFiniteSet(Fresh(A, B)) /\ IsFiniteSet(Named(A, B)) /\ IsFiniteSet(Gone(A, B))
         /\ IsFiniteSet({[change |-> "mesh", id |-> o] : o \in K})
         /\ IsFiniteSet({[change |-> "modified", id |-> o] : o \in K})
<1>1. IsFiniteSet(Ids)
  BY WatchAssumption DEF WatchAssumption
<1>2. DOMAIN A \in SUBSET Ids /\ DOMAIN B \in SUBSET Ids
  BY PartialTypes
<1>3. IsFiniteSet(Fresh(A, B))
  <2> DEFINE X == DOMAIN B \ DOMAIN A
             f == [o \in X |-> [change |-> "created", id |-> o, name |-> B[o]]]
  <2>1. IsFiniteSet(X)
    BY <1>1, <1>2, FS_Subset
  <2>2. Fresh(A, B) = {f[o] : o \in X}
    BY DEF Fresh
  <2> HIDE DEF X, f
  <2> QED BY <2>1, <2>2, FiniteImage
<1>4. IsFiniteSet(Named(A, B))
  <2> DEFINE X == {p \in DOMAIN B \cap DOMAIN A : A[p] # B[p]}
             f == [o \in X |-> [change |-> "renamed", id |-> o, from |-> A[o], to |-> B[o]]]
  <2>1. IsFiniteSet(X)
    BY <1>1, <1>2, FS_Subset
  <2>2. Named(A, B) = {f[o] : o \in X}
    BY DEF Named
  <2> HIDE DEF X, f
  <2> QED BY <2>1, <2>2, FiniteImage
<1>5. IsFiniteSet(Gone(A, B))
  <2> DEFINE X == DOMAIN A \ DOMAIN B
             f == [o \in X |-> [change |-> "deleted", id |-> o]]
  <2>1. IsFiniteSet(X)
    BY <1>1, <1>2, FS_Subset
  <2>2. Gone(A, B) = {f[o] : o \in X}
    BY DEF Gone
  <2> HIDE DEF X, f
  <2> QED BY <2>1, <2>2, FiniteImage
<1>6. IsFiniteSet(K)
  BY <1>1, FS_Subset
<1>7. IsFiniteSet({[change |-> "mesh", id |-> o] : o \in K})
  <2> DEFINE f == [o \in K |-> [change |-> "mesh", id |-> o]]
  <2>1. {[change |-> "mesh", id |-> o] : o \in K} = {f[o] : o \in K}
    OBVIOUS
  <2> HIDE DEF f
  <2> QED BY <1>6, <2>1, FiniteImage
<1>8. IsFiniteSet({[change |-> "modified", id |-> o] : o \in K})
  <2> DEFINE f == [o \in K |-> [change |-> "modified", id |-> o]]
  <2>1. {[change |-> "modified", id |-> o] : o \in K} = {f[o] : o \in K}
    OBVIOUS
  <2> HIDE DEF f
  <2> QED BY <1>6, <2>1, FiniteImage
<1> QED BY <1>3, <1>4, <1>5, <1>7, <1>8

LEMMA HalfWay ==
  ASSUME NEW A \in Partial(Names), NEW B \in Partial(Names), NEW K \in SUBSET DOMAIN B
  PROVE  Half(A, B, K) \in Partial(Names)
<1>1. /\ DOMAIN A \in SUBSET Ids /\ \A p \in DOMAIN A : A[p] \in Names
      /\ DOMAIN B \in SUBSET Ids /\ \A p \in DOMAIN B : B[p] \in Names
  BY PartialTypes
<1>2. DOMAIN A \cup K \in SUBSET Ids /\ Half(A, B, K) \in [DOMAIN A \cup K -> Names]
  BY <1>1 DEF Half
<1> QED BY <1>2, Partials

LEMMA HalfWayEnds ==
  ASSUME NEW A \in Partial(Names), NEW B \in Partial(Names)
  PROVE  /\ Half(A, B, {}) = A
         /\ Half(A, B, About(Fresh(A, B) \cup Named(A, B))) = Both(A, B)
<1> DEFINE K == About(Fresh(A, B) \cup Named(A, B))
<1>1. A = [o \in DOMAIN A |-> A[o]]
  BY PartialTypes
<1>2. Half(A, B, {}) = A
  BY <1>1 DEF Half
<1>3. \A o : o \in K <=> o \in DOMAIN B /\ (o \in DOMAIN A => A[o] # B[o])
  <2>1. \A e \in Fresh(A, B) : e.id \in DOMAIN B \ DOMAIN A
    BY DEF Fresh
  <2>2. \A e \in Named(A, B) : e.id \in DOMAIN B \cap DOMAIN A /\ A[e.id] # B[e.id]
    BY DEF Named
  <2>3. ASSUME NEW o \in DOMAIN B \ DOMAIN A PROVE \E e \in Fresh(A, B) : e.id = o
    <3> DEFINE e == [change |-> "created", id |-> o, name |-> B[o]]
    <3>1. e \in Fresh(A, B) /\ e.id = o
      BY DEF Fresh
    <3> QED BY <3>1
  <2>4. ASSUME NEW o \in DOMAIN B \cap DOMAIN A, A[o] # B[o] PROVE \E e \in Named(A, B) : e.id = o
    <3> DEFINE e == [change |-> "renamed", id |-> o, from |-> A[o], to |-> B[o]]
    <3>1. e \in Named(A, B) /\ e.id = o
      BY <2>4 DEF Named
    <3> QED BY <3>1
  <2> QED BY <2>1, <2>2, <2>3, <2>4 DEF About
<1> HIDE DEF K
<1>4. DOMAIN A \cup K = DOMAIN A \cup DOMAIN B
  BY <1>3
<1>5. \A o \in DOMAIN A \cup DOMAIN B :
        (IF o \in K THEN B[o] ELSE A[o]) = (IF o \in DOMAIN B THEN B[o] ELSE A[o])
  BY <1>3
<1>6. Half(A, B, K) = Both(A, B)
  BY <1>4, <1>5 DEF Half, Both
<1> QED BY <1>2, <1>6 DEF K

LEMMA NewsFacts ==
  ASSUME NEW A \in Partial(Names), NEW B \in Partial(Names)
  PROVE  /\ \A e \in Fresh(A, B) : e \in Creations /\ e.id \in DOMAIN B \ DOMAIN A /\ e.name = B[e.id]
         /\ \A e \in Named(A, B) : e \in Renamings /\ e.id \in DOMAIN B \cap DOMAIN A /\ e.to = B[e.id]
         /\ \A e \in Gone(A, B) : e \in Deletions /\ e.id \in DOMAIN A \ DOMAIN B
         /\ \A e, f \in Fresh(A, B) \cup Named(A, B) : e.id = f.id => e = f
         /\ \A e, f \in Gone(A, B) : e.id = f.id => e = f
<1>1. /\ DOMAIN A \in SUBSET Ids /\ \A p \in DOMAIN A : A[p] \in Names
      /\ DOMAIN B \in SUBSET Ids /\ \A p \in DOMAIN B : B[p] \in Names
  BY PartialTypes
<1>2. \A e \in Fresh(A, B) :
        /\ e \in Creations /\ e.id \in DOMAIN B \ DOMAIN A
        /\ e = [change |-> "created", id |-> e.id, name |-> B[e.id]]
  BY <1>1 DEF Fresh, Creations
<1>3. \A e \in Named(A, B) :
        /\ e \in Renamings /\ e.id \in DOMAIN B \cap DOMAIN A
        /\ e = [change |-> "renamed", id |-> e.id, from |-> A[e.id], to |-> B[e.id]]
  BY <1>1 DEF Named, Renamings
<1>4. \A e \in Gone(A, B) :
        /\ e \in Deletions /\ e.id \in DOMAIN A \ DOMAIN B
        /\ e = [change |-> "deleted", id |-> e.id]
  BY <1>1 DEF Gone, Deletions
<1>5. \A e \in Fresh(A, B) : e.name = B[e.id]
  BY <1>2
<1>6. \A e \in Named(A, B) : e.to = B[e.id]
  BY <1>3
<1>7. ASSUME NEW e \in Fresh(A, B) \cup Named(A, B), NEW f \in Fresh(A, B) \cup Named(A, B), e.id = f.id
      PROVE  e = f
  <2>1. CASE e \in Fresh(A, B)
    <3>1. f \in Fresh(A, B)
      BY <1>2, <1>3, <1>7, <2>1
    <3> QED BY <1>2, <1>7, <2>1, <3>1
  <2>2. CASE e \in Named(A, B)
    <3>1. f \in Named(A, B)
      BY <1>2, <1>3, <1>7, <2>2
    <3> QED BY <1>3, <1>7, <2>2, <3>1
  <2> QED BY <2>1, <2>2
<1>8. ASSUME NEW e \in Gone(A, B), NEW f \in Gone(A, B), e.id = f.id PROVE e = f
  BY <1>4, <1>8
<1> QED BY <1>2, <1>3, <1>4, <1>5, <1>6, <1>7, <1>8

LEMMA FoldNews ==
  ASSUME NEW w, NEW T, NEW M, NEW x, NEW A \in Partial(Names), NEW B \in Partial(Names),
         NEW c \in Seq(Changes), Tells(w, T, DiffOf(c), A, M, x),
         w => (DOMAIN T \ DOMAIN A) \cap DOMAIN B = {}
  PROVE  LET news == Reports(Fresh(A, B) \cup Named(A, B)) IN
         c \o news \in Seq(Changes) /\ Tells(w, T, DiffOf(c \o news), Both(A, B), M, x)
<1> DEFINE S == Fresh(A, B) \cup Named(A, B)
           G == [K \in SUBSET S |-> {d \in Diffs : Tells(w, T, d, Half(A, B, About(K)), M, x)}]
<1>1. /\ \A e \in Fresh(A, B) : e \in Creations /\ e.id \in DOMAIN B \ DOMAIN A /\ e.name = B[e.id]
      /\ \A e \in Named(A, B) : e \in Renamings /\ e.id \in DOMAIN B \cap DOMAIN A /\ e.to = B[e.id]
      /\ \A e, f \in S : e.id = f.id => e = f
  BY NewsFacts
<1>2. S \in SUBSET Changes
  BY <1>1 DEF Changes
<1>3. IsFiniteSet(S)
  <2>1. {} \in SUBSET Ids
    OBVIOUS
  <2>2. IsFiniteSet(Fresh(A, B)) /\ IsFiniteSet(Named(A, B))
    BY <2>1, FiniteReports
  <2> QED BY <2>2, FS_Union
<1>4. \A K \in SUBSET S : \A d : d \in G[K] <=> Tells(w, T, d, Half(A, B, About(K)), M, x)
  BY DEF Tells
<1> HIDE DEF S, G
<1>5. DiffOf(c) \in G[{}]
  <2>1. About({}) = {} /\ {} \in SUBSET S
    BY DEF About
  <2>2. Half(A, B, {}) = A
    BY HalfWayEnds
  <2> QED BY <1>4, <2>1, <2>2
<1>6. ASSUME NEW K \in SUBSET S, NEW e \in S, e \notin K, NEW d \in G[K]
      PROVE  FoldStep(d, e) \in G[K \cup {e}]
  <2> DEFINE o == e.id
             L == About(K)
             C == Half(A, B, L)
             D == Half(A, B, L \cup {o})
  <2>1. /\ L \in SUBSET DOMAIN B /\ o \in DOMAIN B
        /\ o \notin L /\ About(K \cup {e}) = L \cup {o}
    BY <1>1, <1>6 DEF About, S
  <2> HIDE DEF o, L
  <2>2. /\ DOMAIN C = DOMAIN A \cup L
        /\ DOMAIN D = DOMAIN C \cup {o} /\ D[o] = B[o]
        /\ \A p \in DOMAIN C \ {o} : D[p] = C[p]
    BY <2>1 DEF Half
  <2>3. C \in Partial(Names) /\ D \in Partial(Names)
    <3>1. L \cup {o} \in SUBSET DOMAIN B
      BY <2>1
    <3> QED BY <2>1, <3>1, HalfWay
  <2> HIDE DEF C, D
  <2>4. Tells(w, T, d, C, M, x)
    BY <1>4 DEF C, L
  <2>5. Tells(w, T, FoldStep(d, e), D, M, x)
    <3>1. CASE e \in Fresh(A, B)
      <4>1. e \in Creations /\ D[e.id] = e.name /\ DOMAIN D = DOMAIN C \cup {e.id}
        BY <1>1, <2>2, <3>1 DEF o
      <4>2. w => e.id \notin DOMAIN C /\ e.id \notin DOMAIN T
        BY <1>1, <2>1, <2>2, <3>1 DEF o
      <4>3. \A p \in DOMAIN C \ {e.id} : D[p] = C[p]
        BY <2>2 DEF o
      <4> QED BY <2>2, <2>3, <2>4, <4>1, <4>2, <4>3, TellsCreated
    <3>2. CASE e \in Named(A, B)
      <4>1. e \in Renamings /\ D[e.id] = e.to /\ DOMAIN D = DOMAIN C \cup {e.id}
        BY <1>1, <2>2, <3>2 DEF o
      <4>2. w => e.id \in DOMAIN C
        BY <1>1, <2>2, <3>2
      <4>3. \A p \in DOMAIN C \ {e.id} : D[p] = C[p]
        BY <2>2 DEF o
      <4> QED BY <2>2, <2>3, <2>4, <4>1, <4>2, <4>3, TellsRenamed
    <3> QED BY <3>1, <3>2 DEF S
  <2>6. K \cup {e} \in SUBSET S
    OBVIOUS
  <2> QED BY <1>4, <2>1, <2>5, <2>6 DEF D, L
<1>7. c \o Reports(S) \in Seq(Changes) /\ DiffOf(c \o Reports(S)) \in G[S]
  BY <1>2, <1>3, <1>5, <1>6, FoldReports
<1>8. Tells(w, T, DiffOf(c \o Reports(S)), Half(A, B, About(S)), M, x)
  <2>1. S \in SUBSET S
    OBVIOUS
  <2> QED BY <1>4, <1>7, <2>1
<1>9. Half(A, B, About(S)) = Both(A, B)
  BY HalfWayEnds DEF S
<1> QED BY <1>7, <1>8, <1>9 DEF S

LEMMA FoldGone ==
  ASSUME NEW w, NEW T, NEW M, NEW x, NEW A \in Partial(Names), NEW B \in Partial(Names),
         NEW c \in Seq(Changes), Tells(w, T, DiffOf(c), Both(A, B), M, x),
         M \subseteq DOMAIN B
  PROVE  LET gone == Reports(Gone(A, B)) IN
         c \o gone \in Seq(Changes) /\ Tells(w, T, DiffOf(c \o gone), B, M, x)
<1> DEFINE S == Gone(A, B)
           Rest(L) == [o \in (DOMAIN A \cup DOMAIN B) \ L |-> Both(A, B)[o]]
           G == [K \in SUBSET S |-> {d \in Diffs : Tells(w, T, d, Rest(About(K)), M, x)}]
<1>1. /\ \A e \in S : e \in Deletions /\ e.id \in DOMAIN A \ DOMAIN B
      /\ \A e, f \in S : e.id = f.id => e = f
  BY NewsFacts
<1>2. S \in SUBSET Changes
  BY <1>1 DEF Changes
<1>3. IsFiniteSet(S)
  <2>1. {} \in SUBSET Ids
    OBVIOUS
  <2> QED BY <2>1, FiniteReports
<1>4. \A K \in SUBSET S : \A d : d \in G[K] <=> Tells(w, T, d, Rest(About(K)), M, x)
  BY DEF Tells
<1>5. ASSUME NEW L PROVE Rest(L) \in Partial(Names)
  <2>1. /\ DOMAIN A \in SUBSET Ids /\ \A p \in DOMAIN A : A[p] \in Names
        /\ DOMAIN B \in SUBSET Ids /\ \A p \in DOMAIN B : B[p] \in Names
    BY PartialTypes
  <2>2. /\ (DOMAIN A \cup DOMAIN B) \ L \in SUBSET Ids
        /\ Rest(L) \in [(DOMAIN A \cup DOMAIN B) \ L -> Names]
    BY <2>1 DEF Both
  <2> QED BY <2>2, Partials
<1>6. Rest({}) = Both(A, B)
  BY DEF Both
<1>7. Rest(About(S)) = B
  <2>1. \A o : o \in About(S) <=> o \in DOMAIN A \ DOMAIN B
    <3>1. ASSUME NEW o \in DOMAIN A \ DOMAIN B PROVE \E e \in S : e.id = o
      <4> DEFINE e == [change |-> "deleted", id |-> o]
      <4>1. e \in S /\ e.id = o
        BY DEF Gone
      <4> QED BY <4>1
    <3> QED BY <1>1, <3>1 DEF About
  <2>2. (DOMAIN A \cup DOMAIN B) \ About(S) = DOMAIN B
    BY <2>1
  <2>3. \A o \in DOMAIN B : Both(A, B)[o] = B[o]
    BY DEF Both
  <2>4. B = [o \in DOMAIN B |-> B[o]]
    BY PartialTypes
  <2> HIDE DEF S
  <2> QED BY <2>2, <2>3, <2>4
<1>8. ASSUME NEW L, NEW o
      PROVE  /\ DOMAIN Rest(L \cup {o}) = DOMAIN Rest(L) \ {o}
             /\ \A p \in DOMAIN Rest(L \cup {o}) : Rest(L \cup {o})[p] = Rest(L)[p]
             /\ DOMAIN Rest(L) = (DOMAIN A \cup DOMAIN B) \ L
  OBVIOUS
<1> HIDE DEF S, G, Rest
<1>9. DiffOf(c) \in G[{}]
  <2>1. About({}) = {} /\ {} \in SUBSET S
    BY DEF About
  <2> QED BY <1>4, <1>6, <2>1
<1>10. ASSUME NEW K \in SUBSET S, NEW e \in S, e \notin K, NEW d \in G[K]
       PROVE  FoldStep(d, e) \in G[K \cup {e}]
  <2> DEFINE o == e.id
             L == About(K)
             C == Rest(L)
             D == Rest(L \cup {o})
  <2>1. /\ o \notin L /\ About(K \cup {e}) = L \cup {o} /\ o \in DOMAIN A \ DOMAIN B
    BY <1>1, <1>10 DEF About
  <2>2. Tells(w, T, d, C, M, x)
    BY <1>4
  <2> HIDE DEF o, L
  <2>3. C \in Partial(Names) /\ D \in Partial(Names)
    BY <1>5
  <2>4. DOMAIN D = DOMAIN C \ {o} /\ (\A p \in DOMAIN D : D[p] = C[p]) /\ o \in DOMAIN C
    BY <1>8, <2>1
  <2> HIDE DEF C, D
  <2>5. Tells(w, T, FoldStep(d, e), D, M, x)
    <3>1. e \in Deletions /\ e.id \in DOMAIN C /\ e.id \notin M /\ DOMAIN D = DOMAIN C \ {e.id}
      BY <1>1, <2>1, <2>4 DEF o
    <3> QED BY <2>2, <2>3, <2>4, <3>1, TellsDeleted
  <2>6. K \cup {e} \in SUBSET S
    OBVIOUS
  <2> QED BY <1>4, <2>1, <2>5, <2>6 DEF D
<1>11. c \o Reports(S) \in Seq(Changes) /\ DiffOf(c \o Reports(S)) \in G[S]
  BY <1>2, <1>3, <1>9, <1>10, FoldReports
<1>12. Tells(w, T, DiffOf(c \o Reports(S)), B, M, x)
  <2>1. S \in SUBSET S
    OBVIOUS
  <2> QED BY <1>4, <1>7, <1>11, <2>1
<1> QED BY <1>11, <1>12 DEF S

LEMMA FoldEdits ==
  ASSUME NEW w, NEW T, NEW M, NEW x, NEW C, NEW K \in SUBSET Ids,
         NEW c \in Seq(Changes), Tells(w, T, DiffOf(c), C, M, x)
  PROVE  LET edits == Reports({[change |-> "mesh", id |-> o] : o \in K}) IN
         c \o edits \in Seq(Changes) /\ Tells(w, T, DiffOf(c \o edits), C, M \cup K, x)
<1> DEFINE S == {[change |-> "mesh", id |-> o] : o \in K}
           G == [L \in SUBSET S |-> {d \in Diffs : Tells(w, T, d, C, M \cup About(L), x)}]
<1>1. \A e \in S : e \in Edits /\ e.id \in K
  BY DEF Edits
<1>2. S \in SUBSET Changes
  BY <1>1 DEF Changes
<1>3. IsFiniteSet(S)
  <2>1. <<>> \in [{} -> Names]
    OBVIOUS
  <2>2. <<>> \in Partial(Names)
    BY <2>1, Partials
  <2> QED BY <2>2, FiniteReports
<1>4. \A L \in SUBSET S : \A d : d \in G[L] <=> Tells(w, T, d, C, M \cup About(L), x)
  BY DEF Tells
<1>5. About(S) = K
  <2>1. ASSUME NEW o \in K PROVE \E e \in S : e.id = o
    <3> DEFINE e == [change |-> "mesh", id |-> o]
    <3>1. e \in S /\ e.id = o
      OBVIOUS
    <3> QED BY <3>1
  <2> QED BY <1>1, <2>1 DEF About
<1> HIDE DEF S, G
<1>6. DiffOf(c) \in G[{}]
  <2>1. About({}) = {} /\ {} \in SUBSET S
    BY DEF About
  <2> QED BY <1>4, <2>1
<1>7. ASSUME NEW L \in SUBSET S, NEW e \in S, e \notin L, NEW d \in G[L]
      PROVE  FoldStep(d, e) \in G[L \cup {e}]
  <2> DEFINE N == M \cup About(L)
  <2>1. Tells(w, T, d, C, N, x) /\ e \in Edits
    BY <1>1, <1>4
  <2>2. M \cup About(L \cup {e}) = N \cup {e.id}
    BY DEF About
  <2> HIDE DEF N
  <2>3. Tells(w, T, FoldStep(d, e), C, N \cup {e.id}, x)
    BY <2>1, TellsEdited
  <2>4. L \cup {e} \in SUBSET S
    OBVIOUS
  <2> QED BY <1>4, <2>2, <2>3, <2>4
<1>8. c \o Reports(S) \in Seq(Changes) /\ DiffOf(c \o Reports(S)) \in G[S]
  BY <1>2, <1>3, <1>6, <1>7, FoldReports
<1>9. Tells(w, T, DiffOf(c \o Reports(S)), C, M \cup K, x)
  <2>1. S \in SUBSET S
    OBVIOUS
  <2> QED BY <1>4, <1>5, <1>8, <2>1
<1> QED BY <1>8, <1>9 DEF S

LEMMA FoldMoves ==
  ASSUME NEW w, NEW T, NEW M, NEW x, NEW C \in Partial(Names), NEW K \in SUBSET Ids,
         NEW c \in Seq(Changes), Tells(w, T, DiffOf(c), C, M, x)
  PROVE  LET moves == Reports({[change |-> "modified", id |-> o] : o \in K}) IN
         c \o moves \in Seq(Changes) /\ Tells(w, T, DiffOf(c \o moves), C, M, x)
<1> DEFINE S == {[change |-> "modified", id |-> o] : o \in K}
           G == [L \in SUBSET S |-> {d \in Diffs : Tells(w, T, d, C, M, x)}]
<1>1. \A e \in S : e \in Movements
  BY DEF Movements
<1>2. S \in SUBSET Changes
  BY <1>1 DEF Changes
<1>3. IsFiniteSet(S)
  BY FiniteReports
<1>4. \A L \in SUBSET S : \A d : d \in G[L] <=> Tells(w, T, d, C, M, x)
  BY DEF Tells
<1> HIDE DEF S, G
<1>5. DiffOf(c) \in G[{}]
  BY <1>4
<1>6. ASSUME NEW L \in SUBSET S, NEW e \in S, e \notin L, NEW d \in G[L]
      PROVE  FoldStep(d, e) \in G[L \cup {e}]
  <2>1. Tells(w, T, d, C, M, x) /\ e \in Movements
    BY <1>1, <1>4
  <2>2. Tells(w, T, FoldStep(d, e), C, M, x)
    BY <2>1, TellsMoved
  <2>3. L \cup {e} \in SUBSET S
    OBVIOUS
  <2> QED BY <1>4, <2>2, <2>3
<1>7. c \o Reports(S) \in Seq(Changes) /\ DiffOf(c \o Reports(S)) \in G[S]
  BY <1>2, <1>3, <1>5, <1>6, FoldReports
<1>8. Tells(w, T, DiffOf(c \o Reports(S)), C, M, x)
  <2>1. S \in SUBSET S
    OBVIOUS
  <2> QED BY <1>4, <1>7, <2>1
<1> QED BY <1>7, <1>8 DEF S

-----------------------------------------------------------------------------
(* Scenes, and what the watch sees of them *)

LEMMA SceneTypes ==
  ASSUME NEW f \in Scenes
  PROVE  /\ DOMAIN f \in SUBSET Objects
         /\ f \in [DOMAIN f -> [name : Names, id : Ids \cup {None}]]
         /\ \A o \in DOMAIN f : f[o].name \in Names /\ f[o].id \in Ids \cup {None}
         /\ \A o, p \in DOMAIN f : f[o].name = f[p].name => o = p
<1>1. PICK D \in SUBSET Objects : f \in [D -> [name : Names, id : Ids \cup {None}]]
  BY DEF Scenes
<1>2. \A o, p \in DOMAIN f : f[o].name = f[p].name => o = p
  BY DEF Scenes
<1> QED BY <1>1, <1>2

LEMMA AreScenes ==
  ASSUME NEW D \in SUBSET Objects, NEW f \in [D -> [name : Names, id : Ids \cup {None}]],
         \A o, p \in D : f[o].name = f[p].name => o = p
  PROVE  f \in Scenes
BY DEF Scenes

LEMMA IdsFacts ==
  ASSUME NEW f \in Scenes, NEW S \in SUBSET DOMAIN f
  PROVE  /\ IdsOf(f, S) \in SUBSET Ids /\ IdsOf(f, S) \subseteq IdsIn(f)
         /\ \A i \in IdsOf(f, S) : \E o \in S : f[o].id = i
         /\ \A o \in S : f[o].id # None => f[o].id \in IdsOf(f, S)
<1>1. \A o \in DOMAIN f : f[o].id \in Ids \cup {None}
  BY SceneTypes
<1> QED BY <1>1 DEF IdsOf, IdsIn

LEMMA MaxName ==
  ASSUME NEW S \in SUBSET Names, S # {}
  PROVE  Max(S) \in S
<1> DEFINE T == {NameCount - n : n \in S}
<1>1. NameCount \in Nat /\ \A n \in S : n \in Nat /\ n <= NameCount
  BY WatchAssumption DEF WatchAssumption, Names
<1>2. T \in SUBSET Nat /\ T # {}
  BY <1>1
<1>3. PICK t \in T : \A y \in T : t <= y
  <2> HIDE DEF T
  <2> QED BY <1>2, LeastNat
<1>4. PICK m \in S : t = NameCount - m
  OBVIOUS
<1>5. \A n \in S : m >= n
  <2> SUFFICES ASSUME NEW n \in S PROVE m >= n
    OBVIOUS
  <2>1. t <= NameCount - n
    BY <1>3
  <2> QED BY <1>1, <1>4, <2>1
<1> QED BY <1>5 DEF Max

LEMMA SeenFacts ==
  ASSUME NEW f \in Scenes
  PROVE  /\ Seen(f) \in Partial(Names) /\ DOMAIN Seen(f) = IdsIn(f)
         /\ \A i \in IdsIn(f) : Seen(f)[i] \in NamesOf(f, i)
<1>1. /\ IdsIn(f) \in SUBSET Ids
      /\ \A i \in IdsIn(f) : \E o \in DOMAIN f : f[o].id = i
  <2>1. DOMAIN f \in SUBSET DOMAIN f /\ IdsIn(f) = IdsOf(f, DOMAIN f)
    BY DEF IdsIn
  <2> QED BY <2>1, IdsFacts
<1>2. DOMAIN Seen(f) = IdsIn(f) /\ \A i \in IdsIn(f) : Seen(f)[i] = Max(NamesOf(f, i))
  BY DEF Seen, NamesOf
<1>3. ASSUME NEW i \in IdsIn(f) PROVE Seen(f)[i] \in NamesOf(f, i) /\ Seen(f)[i] \in Names
  <2>1. NamesOf(f, i) \in SUBSET Names
    BY SceneTypes DEF NamesOf, Bearers
  <2>2. NamesOf(f, i) # {}
    BY <1>1 DEF NamesOf, Bearers
  <2>3. Max(NamesOf(f, i)) \in NamesOf(f, i)
    BY <2>1, <2>2, MaxName
  <2> QED BY <1>2, <2>1, <2>3
<1>4. Seen(f) \in [IdsIn(f) -> Names]
  <2>1. Seen(f) = [i \in IdsIn(f) |-> Seen(f)[i]]
    BY DEF Seen
  <2> QED BY <1>3, <2>1
<1> QED BY <1>1, <1>2, <1>3, <1>4, Partials

LEMMA BaselineFacts ==
  ASSUME NEW f \in Scenes
  PROVE  /\ Baseline(f) \in Partial(Names) /\ Baseline(f) \in [DOMAIN Baseline(f) -> Names]
         /\ DOMAIN Baseline(f) \subseteq IdsIn(f)
<1>1. <<>> \in Partial(Names) /\ DOMAIN <<>> = {}
  <2>1. <<>> \in [{} -> Names] /\ DOMAIN <<>> = {}
    OBVIOUS
  <2> QED BY <2>1, Partials
<1>2. Baseline(f) \in Partial(Names) /\ DOMAIN Baseline(f) \subseteq IdsIn(f)
  BY <1>1, SeenFacts DEF Baseline
<1> QED BY <1>2, PartialTypes

LEMMA TypeFacts ==
  ASSUME TypeOK
  PROVE  /\ objects \in Scenes /\ snapshot \in Partial(Names)
         /\ IdsIn(objects) \in SUBSET Ids /\ DOMAIN snapshot \in SUBSET Ids
<1>1. objects \in Scenes /\ DOMAIN snapshot \in SUBSET Ids /\ snapshot \in [DOMAIN snapshot -> Names]
  BY DEF TypeOK
<1>2. IdsIn(objects) \in SUBSET Ids
  BY DEF TypeOK
<1> QED BY <1>1, <1>2, Partials

-----------------------------------------------------------------------------
(* What an update reports *)

LEMMA ReportsAreChanges ==
  ASSUME TypeOK, NEW f \in Scenes, NEW K \in SUBSET Ids
  PROVE  /\ Reports(Appeared(f) \cup Renamed(f)) \in Seq(Changes)
         /\ Reports(Vanished(f)) \in Seq(Changes)
         /\ MeshReports(K) \in Seq(Changes) /\ MovedReports(K) \in Seq(Changes)
         /\ Appeared(f) = Fresh(snapshot, Seen(f)) /\ Renamed(f) = Named(snapshot, Seen(f))
         /\ Vanished(f) = Gone(snapshot, Seen(f))
<1> DEFINE B == Seen(f)
<1>1. snapshot \in Partial(Names) /\ B \in Partial(Names) /\ DOMAIN B = IdsIn(f)
  BY TypeFacts, SeenFacts
<1>2. /\ Appeared(f) = Fresh(snapshot, B) /\ Renamed(f) = Named(snapshot, B)
      /\ Vanished(f) = Gone(snapshot, B)
  <2> SUFFICES /\ Appeared(f) = Fresh(snapshot, Seen(f)) /\ Renamed(f) = Named(snapshot, Seen(f))
               /\ Vanished(f) = Gone(snapshot, Seen(f))
    OBVIOUS
  <2>1. DOMAIN Seen(f) = IdsIn(f)
    BY SeenFacts
  <2> QED BY <2>1 DEF Appeared, Renamed, Vanished, Fresh, Named, Gone
<1> HIDE DEF B
<1>3. /\ \A e \in Fresh(snapshot, B) : e \in Changes
      /\ \A e \in Named(snapshot, B) : e \in Changes
      /\ \A e \in Gone(snapshot, B) : e \in Changes
  BY <1>1, NewsFacts DEF Changes
<1>4. ASSUME NEW S \in SUBSET Changes, IsFiniteSet(S) PROVE Reports(S) \in Seq(Changes)
  <2>1. SetToSeq(S) \in Seq(S)
    BY <1>4, EnumerationFacts
  <2> QED BY <2>1 DEF Reports
<1>5. /\ IsFiniteSet(Fresh(snapshot, B)) /\ IsFiniteSet(Named(snapshot, B))
      /\ IsFiniteSet(Gone(snapshot, B))
  BY <1>1, FiniteReports
<1>6. Reports(Appeared(f) \cup Renamed(f)) \in Seq(Changes) /\ Reports(Vanished(f)) \in Seq(Changes)
  BY <1>2, <1>3, <1>4, <1>5, FS_Union
<1>7. MeshReports(K) \in Seq(Changes)
  <2> DEFINE S == {[change |-> "mesh", id |-> i] : i \in K}
  <2>1. IsFiniteSet(S)
    BY <1>1, FiniteReports
  <2>2. S \in SUBSET Changes
    BY DEF Changes, Edits
  <2> HIDE DEF S
  <2>3. Reports(S) \in Seq(Changes)
    BY <1>4, <2>1, <2>2
  <2> QED BY <2>3 DEF S, MeshReports
<1>8. MovedReports(K) \in Seq(Changes)
  <2> DEFINE S == {[change |-> "modified", id |-> i] : i \in K}
  <2>1. IsFiniteSet(S)
    BY <1>1, FiniteReports
  <2>2. S \in SUBSET Changes
    BY DEF Changes, Movements
  <2> HIDE DEF S
  <2>3. Reports(S) \in Seq(Changes)
    BY <1>4, <2>1, <2>2
  <2> QED BY <2>3 DEF S, MovedReports
<1> QED BY <1>2, <1>6, <1>7, <1>8 DEF B

\* A diff that says reset tells whatever is asked, and one that tells of a selection
\* that is none says reset.
LEMMA ResetTells ==
  ASSUME NEW w, NEW T, NEW d \in Diffs, NEW C, NEW M, NEW x
  PROVE  /\ d.reset => Tells(w, T, d, C, M, x)
         /\ x \notin {None} \cup SUBSET Ids => (Tells(w, T, d, C, M, x) => d.reset)
BY DiffTypes DEF Tells

LEMMA StructuralTells ==
  ASSUME TypeOK, NEW f \in Scenes, NEW w, NEW T, NEW M, NEW x, NEW c \in Seq(Changes),
         M \subseteq IdsIn(f), Tells(w, T, DiffOf(c), snapshot, M, x),
         ~DiffOf(c).reset /\ w => (DOMAIN T \ DOMAIN snapshot) \cap IdsIn(f) = {}
  PROVE  /\ c \o Structural(f) \in Seq(Changes)
         /\ Tells(w, T, DiffOf(c \o Structural(f)), Baseline(f), M, x)
         /\ ~Small(f) /\ snapshot # <<>> => DiffOf(c \o Structural(f)).reset
<1> DEFINE a == Reports(Appeared(f) \cup Renamed(f))
           b == Reports(Vanished(f))
           B == Seen(f)
<1>1. snapshot \in Partial(Names) /\ B \in Partial(Names) /\ DOMAIN B = IdsIn(f)
  BY TypeFacts, SeenFacts
<1>2. /\ a \in Seq(Changes) /\ b \in Seq(Changes)
      /\ a = Reports(Fresh(snapshot, B) \cup Named(snapshot, B))
      /\ b = Reports(Gone(snapshot, B))
  <2>1. {} \in SUBSET Ids
    OBVIOUS
  <2> QED BY <2>1, ReportsAreChanges
<1>3. Baseline(f) = IF Small(f) THEN B ELSE <<>>
  BY DEF Baseline
<1> HIDE DEF a, b, B
<1>4. ASSUME NEW v, NEW N, NEW y, N \subseteq IdsIn(f),
             Tells(v, T, DiffOf(c), snapshot, N, y),
             v => (DOMAIN T \ DOMAIN snapshot) \cap IdsIn(f) = {}
      PROVE  (c \o a) \o b \in Seq(Changes) /\ Tells(v, T, DiffOf((c \o a) \o b), B, N, y)
  <2>1. c \o a \in Seq(Changes) /\ Tells(v, T, DiffOf(c \o a), Both(snapshot, B), N, y)
    BY <1>1, <1>2, <1>4, FoldNews
  <2> QED BY <1>1, <1>2, <1>4, <2>1, FoldGone
<1>5. CASE Small(f)
  <2>1. c \o Structural(f) = (c \o a) \o b
    <3>1. Structural(f) = a \o b
      BY <1>5 DEF Structural, a, b
    <3> QED BY <1>2, <3>1, ConcatAssociative
  <2>2. CASE DiffOf(c).reset
    <3>1. PICK y : y \notin {None} \cup SUBSET Ids
      BY NoSetContainsEverything
    <3>2. DiffOf(c) \in Diffs
      BY DEF Tells
    <3>3. Tells(FALSE, T, DiffOf(c), snapshot, {}, y)
      BY <2>2, <3>2, ResetTells
    <3>4. /\ (c \o a) \o b \in Seq(Changes)
          /\ Tells(FALSE, T, DiffOf((c \o a) \o b), B, {}, y)
      BY <1>4, <3>3
    <3>5. DiffOf((c \o a) \o b) \in Diffs
      BY <3>4 DEF Tells
    <3>6. DiffOf((c \o a) \o b).reset
      BY <3>1, <3>4, <3>5, ResetTells
    <3> QED BY <1>5, <2>1, <3>4, <3>5, <3>6, ResetTells
  <2>3. CASE ~DiffOf(c).reset
    BY <1>3, <1>4, <1>5, <2>1, <2>3
  <2> QED BY <2>2, <2>3
<1>6. CASE ~Small(f) /\ snapshot # <<>>
  <2> DEFINE e == [change |-> "reset"]
  <2>1. e \in Resets /\ e \in Changes
    BY DEF Resets, Changes
  <2>2. Structural(f) = <<e>>
    BY <1>6 DEF Structural
  <2> HIDE DEF e
  <2>3. c \o Structural(f) = Append(c, e) /\ c \o Structural(f) \in Seq(Changes)
    BY <2>1, <2>2, AppendIsConcat, AppendProperties
  <2>4. DiffOf(c \o Structural(f)) = FoldStep(DiffOf(c), e)
    BY <2>1, <2>3, DiffOfAppend
  <2>5. DiffOf(c) \in Diffs
    BY DEF Tells
  <2>6. FoldStep(DiffOf(c), e) \in Diffs /\ FoldStep(DiffOf(c), e).reset
    BY <2>1, <2>5, ResetTypes
  <2> QED BY <2>3, <2>4, <2>6, ResetTells
<1>7. CASE ~Small(f) /\ snapshot = <<>>
  <2>1. Structural(f) = <<>> /\ Baseline(f) = snapshot
    BY <1>3, <1>7 DEF Structural
  <2>2. c \o Structural(f) = c
    BY <2>1, ConcatEmptySeq
  <2> QED BY <1>7, <2>1, <2>2
<1> QED BY <1>5, <1>6, <1>7

-----------------------------------------------------------------------------
(* The inductive invariant *)

\* The ids of the edited meshes that have been reported.
Told == IdsOf(objects, mark.reshaped \ reshaped)

\* What went away since the caller's snapshot has not come back behind the watch's back.
NoneCameBack ==
  Small(mark.objects) => (IdsIn(mark.objects) \ DOMAIN snapshot) \cap IdsIn(objects) = {}

SelectionKnown ==
  selection = IF Diff.selection = None THEN mark.selected ELSE Diff.selection

\* The meshes of the history are of objects there are, and had an id when edited.
HistoryInv ==
  /\ IdsIn(mark.objects) \subseteq used
  /\ mark.reshaped \subseteq DOMAIN objects
  /\ \A o \in mark.reshaped : objects[o].id # None

DiffInv ==
  /\ HistoryInv
  /\ Tells(Small(mark.objects), Seen(mark.objects), Diff, snapshot, Told, Diff.selection)
  /\ Diff.reset \/ (NoneCameBack /\ SelectionKnown)

WatchInv ==
  /\ TypeOK
  /\ changes \in Seq(Changes)
  /\ mark # None => DiffInv

LEMMA MarkTypes ==
  ASSUME TypeOK, mark # None
  PROVE  mark \in Marks /\ mark.objects \in Scenes /\ mark.selected \in SUBSET Ids
           /\ mark.reshaped \in SUBSET Objects
BY DEF TypeOK, Marks

\* A mark with other edits in its history.
LEMMA MarkEdited ==
  ASSUME TypeOK, mark # None, NEW R \in SUBSET Objects, NEW m,
         m = [mark EXCEPT !.reshaped = R]
  PROVE  m \in Marks /\ m # None /\ m.objects = mark.objects /\ m.selected = mark.selected
           /\ m.reshaped = R
BY MarkTypes, WatchAssumption DEF WatchAssumption, Marks

\* The steps that report nothing: what they may do to the scene and to the mark.
LEMMA Unreported ==
  ASSUME WatchInv, TypeOK', UNCHANGED reportVars, used' = used,
         mark = None => mark' = None,
         mark # None =>
           /\ mark' # None /\ mark'.objects = mark.objects /\ mark'.selected = mark.selected
           /\ mark'.reshaped \subseteq DOMAIN objects'
           /\ \A o \in mark'.reshaped : objects'[o].id # None
           /\ Told' \subseteq Told,
         IdsIn(objects') \subseteq IdsIn(objects)
  PROVE  WatchInv'
<1>1. snapshot' = snapshot /\ selection' = selection /\ changes' = changes /\ Diff' = Diff
  BY DEF reportVars, Diff
<1>2. CASE mark = None
  BY <1>1, <1>2 DEF WatchInv
<1>3. CASE mark # None
  <2>1. DiffInv
    BY <1>3 DEF WatchInv
  <2>2. Tells(Small(mark'.objects), Seen(mark'.objects), Diff', snapshot', Told', Diff'.selection)
    <3>1. Tells(Small(mark.objects), Seen(mark.objects), Diff, snapshot, Told, Diff.selection)
      BY <2>1 DEF DiffInv
    <3>2. Tells(Small(mark.objects), Seen(mark.objects), Diff, snapshot, Told', Diff.selection)
      <4> HIDE DEF Diff
      <4> QED BY <1>3, <3>1 DEF Tells
    <3> QED BY <1>1, <1>3, <3>2
  <2>3. Diff'.reset \/ (NoneCameBack' /\ SelectionKnown')
    <3> HIDE DEF Diff
    <3>1. ASSUME NoneCameBack PROVE NoneCameBack'
      BY <1>1, <1>3, <3>1 DEF NoneCameBack
    <3>2. ASSUME SelectionKnown PROVE SelectionKnown'
      BY <1>1, <1>3, <3>2 DEF SelectionKnown
    <3> QED BY <1>1, <2>1, <3>1, <3>2 DEF DiffInv
  <2>4. HistoryInv'
    BY <1>3, <2>1 DEF DiffInv, HistoryInv
  <2>5. DiffInv'
    BY <2>2, <2>3, <2>4 DEF DiffInv
  <2> QED BY <1>1, <2>5 DEF WatchInv
<1> QED BY <1>2, <1>3

LEMMA AppearsInv ==
  ASSUME WatchInv, NEW o \in Objects, NEW n \in Names, NEW i, i = None \/ i \in IdsIn(objects),
         Appears(o, n, i)
  PROVE  WatchInv'
<1> DEFINE D == DOMAIN objects \cup {o}
           new == [name |-> n, id |-> i]
<1>1. /\ objects \in Scenes /\ IdsIn(objects) \in SUBSET Ids /\ DOMAIN objects \in SUBSET Objects
      /\ \A p \in DOMAIN objects : objects[p] \in [name : Names, id : Ids \cup {None}]
      /\ \A p, q \in DOMAIN objects : objects[p].name = objects[q].name => p = q
  BY TypeFacts, SceneTypes DEF WatchInv
<1>2. /\ o \notin DOMAIN objects /\ \A p \in DOMAIN objects : objects[p].name # n
      /\ objects' = [p \in D |-> IF p = o THEN new ELSE objects[p]]
      /\ used' = used /\ reshaped' = reshaped /\ mark' = mark /\ UNCHANGED reportVars
      /\ selected' = selected /\ moved' = moved
  BY DEF Appears, Taken, With
<1>3. new \in [name : Names, id : Ids \cup {None}] /\ new.name = n /\ new.id = i
  BY <1>1
<1> HIDE DEF new
<1>4. /\ DOMAIN objects' = D /\ objects'[o] = new
      /\ \A p \in DOMAIN objects : objects'[p] = objects[p]
  BY <1>2
<1>5. objects' \in Scenes
  <2>1. objects' \in [D -> [name : Names, id : Ids \cup {None}]]
    BY <1>1, <1>2, <1>3
  <2>2. \A p, q \in D : objects'[p].name = objects'[q].name => p = q
    BY <1>1, <1>2, <1>3, <1>4
  <2> QED BY <1>1, <2>1, <2>2, AreScenes
<1>6. IdsIn(objects') \subseteq IdsIn(objects)
  BY <1>3, <1>4 DEF IdsIn, IdsOf
<1>7. TypeOK'
  <2>1. work' \in 0 .. MaxWork
    BY WatchAssumption DEF WatchInv, TypeOK, Appears, Works, WatchAssumption
  <2> HIDE DEF Marks
  <2> QED BY <1>2, <1>4, <1>5, <1>6, <2>1 DEF WatchInv, TypeOK, reportVars
<1>8. mark # None => /\ mark.reshaped \subseteq DOMAIN objects
                     /\ \A p \in mark.reshaped : objects[p].id # None
  BY DEF WatchInv, DiffInv, HistoryInv
<1>9. mark # None => Told' \subseteq Told
  BY <1>2, <1>4, <1>8 DEF Told, IdsOf
<1> QED BY <1>2, <1>4, <1>6, <1>7, <1>8, <1>9, Unreported

LEMMA CreateInv ==
  ASSUME WatchInv, NEW o \in Objects, NEW n \in Names, Create(o, n)
  PROVE  WatchInv'
BY AppearsInv DEF Create

LEMMA CopyInv ==
  ASSUME WatchInv, NEW o \in Objects, NEW p \in Objects, NEW n \in Names, Copy(o, p, n)
  PROVE  WatchInv'
<1>1. o \in DOMAIN objects /\ Appears(p, n, objects[o].id)
  BY DEF Copy
<1>2. objects[o].id = None \/ objects[o].id \in IdsIn(objects)
  BY <1>1 DEF IdsIn, IdsOf
<1> QED BY <1>1, <1>2, AppearsInv

LEMMA DeleteInv ==
  ASSUME WatchInv, NEW o \in Objects, Delete(o)
  PROVE  WatchInv'
<1>1. objects' = Without(objects, o) /\ DOMAIN objects' = DOMAIN objects \ {o}
        /\ \A p \in DOMAIN objects' : objects'[p] = objects[p]
  BY DEF Delete, Without, Restrict
<1>2. /\ used' = used /\ reshaped' = reshaped \ {o} /\ UNCHANGED reportVars
      /\ selected' = selected \ {o} /\ moved' = moved \ {o}
      /\ mark' = IF mark = None THEN None ELSE [mark EXCEPT !.reshaped = mark.reshaped \ {o}]
  BY DEF Delete
<1>3. TypeOK
  BY DEF WatchInv
<1>4. mark # None => /\ mark' \in Marks /\ mark' # None
                     /\ mark'.objects = mark.objects /\ mark'.selected = mark.selected
                     /\ mark'.reshaped = mark.reshaped \ {o}
  <2> SUFFICES ASSUME mark # None
               PROVE  /\ mark' \in Marks /\ mark' # None
                      /\ mark'.objects = mark.objects /\ mark'.selected = mark.selected
                      /\ mark'.reshaped = mark.reshaped \ {o}
    OBVIOUS
  <2>1. mark.reshaped \ {o} \in SUBSET Objects
    BY <1>3, MarkTypes
  <2>2. mark' = [mark EXCEPT !.reshaped = mark.reshaped \ {o}]
    BY <1>2
  <2> QED BY <1>3, <2>1, <2>2, MarkEdited
<1>5. IdsIn(objects') \subseteq IdsIn(objects)
  BY <1>1 DEF IdsIn, IdsOf
<1>6. objects' \in Scenes
  <2>1. /\ objects \in Scenes /\ DOMAIN objects \in SUBSET Objects
        /\ \A p \in DOMAIN objects : objects[p] \in [name : Names, id : Ids \cup {None}]
        /\ \A p, q \in DOMAIN objects : objects[p].name = objects[q].name => p = q
    BY <1>3, TypeFacts, SceneTypes
  <2>2. objects' = [p \in DOMAIN objects \ {o} |-> objects[p]]
    BY DEF Delete, Without, Restrict
  <2>3. objects' \in [DOMAIN objects \ {o} -> [name : Names, id : Ids \cup {None}]]
    BY <2>1, <2>2
  <2>4. \A p, q \in DOMAIN objects \ {o} : objects'[p].name = objects'[q].name => p = q
    BY <1>1, <2>1
  <2> QED BY <2>1, <2>3, <2>4, AreScenes
<1>7. TypeOK'
  <2>1. work' \in 0 .. MaxWork
    BY WatchAssumption DEF WatchInv, TypeOK, Delete, Works, WatchAssumption
  <2>2. mark' \in Marks \cup {None} /\ (mark' = None => mark = None)
    BY <1>2, <1>4
  <2> HIDE DEF Marks
  <2> QED BY <1>1, <1>2, <1>3, <1>5, <1>6, <2>1, <2>2 DEF TypeOK, reportVars
<1>8. mark # None => /\ mark.reshaped \subseteq DOMAIN objects
                     /\ \A p \in mark.reshaped : objects[p].id # None
  BY DEF WatchInv, DiffInv, HistoryInv
<1>9. mark # None => Told' \subseteq Told
  BY <1>1, <1>2, <1>4, <1>8 DEF Told, IdsOf
<1> QED BY <1>1, <1>2, <1>4, <1>5, <1>7, <1>8, <1>9, Unreported

LEMMA RenameInv ==
  ASSUME WatchInv, NEW o \in Objects, NEW n \in Names, Rename(o, n)
  PROVE  WatchInv'
<1>1. /\ objects \in Scenes /\ DOMAIN objects \in SUBSET Objects
      /\ \A p \in DOMAIN objects : objects[p] \in [name : Names, id : Ids \cup {None}]
      /\ \A p, q \in DOMAIN objects : objects[p].name = objects[q].name => p = q
  BY TypeFacts, SceneTypes DEF WatchInv
<1>2. /\ o \in DOMAIN objects /\ \A p \in DOMAIN objects : objects[p].name # n
      /\ objects' = [objects EXCEPT ![o] = [objects[o] EXCEPT !.name = n]]
      /\ used' = used /\ reshaped' = reshaped /\ mark' = mark /\ UNCHANGED reportVars
      /\ selected' = selected /\ moved' = moved
  BY DEF Rename, Taken
<1>3. /\ DOMAIN objects' = DOMAIN objects
      /\ objects'[o] \in [name : Names, id : Ids \cup {None}]
      /\ objects'[o].name = n /\ objects'[o].id = objects[o].id
      /\ \A p \in DOMAIN objects : p # o => objects'[p] = objects[p]
  BY <1>1, <1>2
<1>4. \A p \in DOMAIN objects : objects'[p].id = objects[p].id
  BY <1>3
<1>5. objects' \in Scenes
  <2>1. objects' \in [DOMAIN objects -> [name : Names, id : Ids \cup {None}]]
    <3>1. objects' = [p \in DOMAIN objects |-> objects'[p]]
      BY <1>2
    <3> QED BY <1>1, <1>3, <3>1
  <2>2. \A p, q \in DOMAIN objects : objects'[p].name = objects'[q].name => p = q
    BY <1>1, <1>2, <1>3
  <2> QED BY <1>1, <2>1, <2>2, AreScenes
<1>6. IdsIn(objects') \subseteq IdsIn(objects)
  BY <1>3, <1>4 DEF IdsIn, IdsOf
<1>7. TypeOK'
  <2>1. work' \in 0 .. MaxWork
    BY WatchAssumption DEF WatchInv, TypeOK, Rename, Works, WatchAssumption
  <2> HIDE DEF Marks
  <2> QED BY <1>2, <1>3, <1>5, <1>6, <2>1 DEF WatchInv, TypeOK, reportVars
<1>8. mark # None => /\ mark.reshaped \subseteq DOMAIN objects
                     /\ \A p \in mark.reshaped : objects[p].id # None
  BY DEF WatchInv, DiffInv, HistoryInv
<1>9. mark # None => Told' \subseteq Told
  BY <1>2, <1>4, <1>8 DEF Told, IdsOf
<1> QED BY <1>2, <1>3, <1>4, <1>6, <1>7, <1>8, <1>9, Unreported

\* A step that leaves the scene and the mark alone.
LEMMA UnreportedSame ==
  ASSUME WatchInv, TypeOK', UNCHANGED reportVars, used' = used, objects' = objects, mark' = mark,
         reshaped \subseteq reshaped'
  PROVE  WatchInv'
<1>1. mark # None => HistoryInv
  BY DEF WatchInv, DiffInv
<1>2. mark # None => Told' \subseteq Told
  BY DEF Told, IdsOf
<1> QED BY <1>1, <1>2, Unreported DEF HistoryInv

LEMMA MoveInv ==
  ASSUME WatchInv, NEW o \in Objects, Move(o)
  PROVE  WatchInv'
<1>1. TypeOK'
  <2>1. work' \in 0 .. MaxWork
    BY WatchAssumption DEF WatchInv, TypeOK, Move, Works, WatchAssumption
  <2> QED BY <2>1 DEF WatchInv, TypeOK, Move, reportVars, Marks
<1> QED BY <1>1, UnreportedSame DEF Move

LEMMA SelectInv ==
  ASSUME WatchInv, NEW S \in SUBSET DOMAIN objects, Select(S)
  PROVE  WatchInv'
<1>1. TypeOK'
  <2>1. work' \in 0 .. MaxWork
    BY WatchAssumption DEF WatchInv, TypeOK, Select, Works, WatchAssumption
  <2> QED BY <2>1 DEF WatchInv, TypeOK, Select, reportVars, Marks
<1> QED BY <1>1, UnreportedSame DEF Select

LEMMA ReshapeInv ==
  ASSUME WatchInv, NEW o \in Objects, Reshape(o)
  PROVE  WatchInv'
<1>1. /\ objects' = objects /\ used' = used /\ reshaped' = reshaped \cup {o} /\ UNCHANGED reportVars
      /\ selected' = selected /\ moved' = moved /\ o \in DOMAIN objects /\ TypeOK
  BY DEF Reshape, WatchInv
<1>2. TypeOK' /\ (mark # None => mark' # None) /\ (mark = None => mark' = None)
  <2>1. work' \in 0 .. MaxWork
    BY WatchAssumption DEF WatchInv, TypeOK, Reshape, Works, WatchAssumption
  <2>2. mark' \in Marks \cup {None} /\ (mark' = None <=> mark = None)
    <3>1. CASE mark = None \/ objects[o].id = None
      BY <1>1, <3>1 DEF Reshape, TypeOK
    <3>2. CASE ~(mark = None \/ objects[o].id = None)
      <4>1. mark' = [mark EXCEPT !.reshaped = mark.reshaped \cup {o}]
        BY <3>2 DEF Reshape
      <4>2. mark.reshaped \cup {o} \in SUBSET Objects
        BY <1>1, <3>2, MarkTypes
      <4> QED BY <1>1, <3>2, <4>1, <4>2, MarkEdited
    <3> QED BY <3>1, <3>2
  <2> HIDE DEF Marks
  <2> QED BY <1>1, <2>1, <2>2 DEF TypeOK, reportVars
<1>3. CASE mark = None \/ objects[o].id = None
  BY <1>1, <1>2, <1>3, UnreportedSame DEF Reshape
<1>4. CASE ~(mark = None \/ objects[o].id = None)
  <2>1. /\ mark'.objects = mark.objects /\ mark'.selected = mark.selected
        /\ mark'.reshaped = mark.reshaped \cup {o}
    <3>1. mark' = [mark EXCEPT !.reshaped = mark.reshaped \cup {o}]
      BY <1>4 DEF Reshape
    <3>2. mark.reshaped \cup {o} \in SUBSET Objects
      BY <1>1, <1>4, MarkTypes
    <3> QED BY <1>1, <1>4, <3>1, <3>2, MarkEdited
  <2>2. HistoryInv
    BY <1>4 DEF WatchInv, DiffInv
  <2>3. Told' \subseteq Told
    BY <1>1, <2>1 DEF Told, IdsOf
  <2>4. /\ mark'.reshaped \subseteq DOMAIN objects'
        /\ \A p \in mark'.reshaped : objects'[p].id # None
    BY <1>1, <1>4, <2>1, <2>2 DEF HistoryInv
  <2>5. IdsIn(objects') \subseteq IdsIn(objects)
    BY <1>1
  <2> QED BY <1>1, <1>2, <1>4, <2>1, <2>3, <2>4, <2>5, Unreported
<1> QED BY <1>3, <1>4

LEMMA ReloadInv ==
  ASSUME WatchInv, NEW r \in NewScenes, Reload(r)
  PROVE  WatchInv'
<1> DEFINE e == [change |-> "reset"]
           f == r.objects
<1>1. e \in Resets /\ e \in Changes
  BY DEF Resets, Changes
<1>2. changes' = IF mark = None THEN <<>> ELSE changes \o <<e>>
  BY DEF Reload, Since
<1> HIDE DEF e
<1>3. TypeOK /\ changes \in Seq(Changes)
  BY DEF WatchInv
<1>4. changes' \in Seq(Changes) /\ (mark # None => changes' = Append(changes, e))
  BY <1>1, <1>2, <1>3, AppendIsConcat, AppendProperties
<1>5. f \in Scenes /\ r.selected \subseteq DOMAIN f
  BY DEF NewScenes
<1>6. /\ objects' = f /\ selected' = r.selected /\ used' = used \cup IdsIn(f) /\ work' = 0
      /\ snapshot' = Baseline(f) /\ selection' = {} /\ moved' = {} /\ reshaped' = {}
      /\ Len(changes') <= MaxChanges
      /\ mark' = IF mark = None THEN None ELSE [mark EXCEPT !.reshaped = {}]
  BY DEF Reload, Replaced
<1> HIDE DEF f
<1>7. mark # None => /\ mark' \in Marks /\ mark' # None /\ mark'.objects = mark.objects
                     /\ mark'.selected = mark.selected /\ mark'.reshaped = {}
  BY <1>3, <1>6, MarkEdited
<1>8. TypeOK'
  <2>1. /\ snapshot' \in [DOMAIN snapshot' -> Names] /\ DOMAIN snapshot' \subseteq IdsIn(f)
        /\ IdsIn(f) \in SUBSET Ids
    <3>1. DOMAIN f \in SUBSET DOMAIN f /\ IdsIn(f) = IdsOf(f, DOMAIN f)
      BY DEF IdsIn
    <3>2. IdsIn(f) \in SUBSET Ids
      BY <1>5, <3>1, IdsFacts
    <3> QED BY <1>5, <1>6, <3>2, BaselineFacts
  <2>2. work' \in 0 .. MaxWork
    BY <1>6, WatchAssumption DEF WatchAssumption
  <2>3. mark' = None => changes' = <<>>
    BY <1>2, <1>7
  <2>4. mark' \in Marks \cup {None}
    BY <1>6, <1>7
  <2> HIDE DEF Marks
  <2> QED BY <1>3, <1>5, <1>6, <2>1, <2>2, <2>3, <2>4 DEF TypeOK
<1>9. ASSUME mark' # None PROVE DiffInv'
  <2>1. mark # None
    BY <1>6, <1>9
  <2>2. Diff' = FoldStep(Diff, e)
    BY <1>1, <1>3, <1>4, <2>1, DiffOfAppend DEF Diff
  <2>3. DiffInv
    BY <2>1 DEF WatchInv
  <2>4. Diff \in Diffs
    BY <2>3 DEF DiffInv, Tells
  <2>5. Diff' \in Diffs /\ Diff'.reset
    BY <1>1, <2>2, <2>4, ResetTypes
  <2>6. Tells(Small(mark'.objects), Seen(mark'.objects), Diff', snapshot', Told', Diff'.selection)
    BY <2>5, ResetTells
  <2>7. HistoryInv'
    BY <1>6, <1>7, <2>1, <2>3 DEF DiffInv, HistoryInv
  <2> QED BY <2>5, <2>6, <2>7 DEF DiffInv
<1> QED BY <1>4, <1>8, <1>9 DEF WatchInv

LEMMA SnapshotInv ==
  ASSUME WatchInv, Snapshot
  PROVE  WatchInv'
<1> DEFINE m == [objects |-> objects, selected |-> IdsOf(objects, selected), reshaped |-> {}]
<1>1. mark' = m /\ mark = None /\ UNCHANGED <<userVars, reportVars>> /\ Reported
  BY DEF Snapshot
<1>2. TypeOK /\ objects \in Scenes /\ IdsOf(objects, selected) \in SUBSET Ids
  BY IdsFacts DEF WatchInv, TypeOK
<1>3. m \in Marks /\ m # None
  BY <1>2, WatchAssumption DEF Marks, WatchAssumption
<1>4. m.objects = objects /\ m.selected = IdsOf(objects, selected) /\ m.reshaped = {}
  OBVIOUS
<1> HIDE DEF m
<1>5. changes = <<>> /\ changes' = <<>> /\ Diff' = EmptyDiff
  BY <1>1, <1>2, DiffOfNothing DEF TypeOK, reportVars, Diff
<1>6. /\ objects' = objects /\ used' = used /\ selected' = selected
      /\ snapshot' = snapshot /\ selection' = selection
  BY <1>1 DEF userVars, reportVars
<1>7. TypeOK'
  <2> HIDE DEF Marks
  <2> QED BY <1>1, <1>2, <1>3, <1>5, <1>6 DEF TypeOK, userVars, reportVars
<1>8. /\ EmptyDiff \in Diffs /\ EmptyDiff.selection = None
      /\ Relates(EmptyDiff, Seen(objects), Seen(objects))
  BY NothingTells
<1>9. Told' = {}
  BY <1>1, <1>4 DEF Told, IdsOf
<1>10. /\ Small(objects) => snapshot = Seen(objects)
       /\ selection = IdsOf(objects, selected)
  BY <1>1 DEF Reported, Baseline
<1>11. Tells(Small(mark'.objects), Seen(mark'.objects), Diff', snapshot', Told', Diff'.selection)
  BY <1>1, <1>4, <1>5, <1>6, <1>8, <1>9, <1>10 DEF Tells
<1>12. NoneCameBack' /\ SelectionKnown'
  <2>1. DOMAIN Seen(objects) = IdsIn(objects)
    BY <1>2, SeenFacts
  <2> QED BY <1>1, <1>4, <1>5, <1>6, <1>8, <1>10, <2>1 DEF NoneCameBack, SelectionKnown
<1>13. HistoryInv'
  BY <1>1, <1>2, <1>4, <1>6 DEF TypeOK, HistoryInv
<1>14. DiffInv'
  BY <1>11, <1>12, <1>13 DEF DiffInv
<1> QED BY <1>5, <1>7, <1>14 DEF WatchInv

\* The reports of an update before that of the selection, and what is known once they are
\* folded: f is the scene the watch has looked at, E the meshes and V the objects it names.
BeforeSelection(f, E, V) == ((changes \o Structural(f)) \o MeshReports(E)) \o MovedReports(V)

LEMMA ChangesTell ==
  ASSUME TypeOK, changes \in Seq(Changes), NEW f \in Scenes, NEW E \in SUBSET Ids,
         NEW V \in SUBSET Ids, NEW w, NEW T, NEW M, NEW x, M \subseteq IdsIn(f),
         Tells(w, T, Diff, snapshot, M, x),
         ~Diff.reset /\ w => (DOMAIN T \ DOMAIN snapshot) \cap IdsIn(f) = {}
  PROVE  LET c == BeforeSelection(f, E, V) IN
         /\ c \in Seq(Changes)
         /\ Tells(w, T, DiffOf(c), Baseline(f), M \cup E, x)
         /\ ~Small(f) /\ snapshot # <<>> => DiffOf(c).reset
<1> DEFINE edits == MeshReports(E)
           moves == MovedReports(V)
           c1 == changes \o Structural(f)
           c2 == c1 \o edits
           B == Baseline(f)
<1>1. /\ B \in Partial(Names)
      /\ edits = Reports({[change |-> "mesh", id |-> i] : i \in E})
      /\ moves = Reports({[change |-> "modified", id |-> i] : i \in V})
  BY BaselineFacts DEF MeshReports, MovedReports
<1>2. /\ c1 \in Seq(Changes) /\ Tells(w, T, DiffOf(c1), B, M, x)
      /\ ~Small(f) /\ snapshot # <<>> => DiffOf(c1).reset
  BY StructuralTells DEF Diff
<1> HIDE DEF c1, B, edits, moves
<1>3. ASSUME NEW v, NEW N, NEW y, Tells(v, T, DiffOf(c1), B, N, y)
      PROVE  c2 \o moves \in Seq(Changes) /\ Tells(v, T, DiffOf(c2 \o moves), B, N \cup E, y)
  <2>1. c2 \in Seq(Changes) /\ Tells(v, T, DiffOf(c2), B, N \cup E, y)
    BY <1>1, <1>2, <1>3, FoldEdits
  <2> HIDE DEF c2
  <2> QED BY <1>1, <2>1, FoldMoves
<1>4. c2 \o moves \in Seq(Changes) /\ Tells(w, T, DiffOf(c2 \o moves), B, M \cup E, x)
  BY <1>2, <1>3
<1>5. ASSUME DiffOf(c1).reset PROVE DiffOf(c2 \o moves).reset
  <2>1. PICK y : y \notin {None} \cup SUBSET Ids
    BY NoSetContainsEverything
  <2>2. DiffOf(c1) \in Diffs
    BY <1>2 DEF Tells
  <2>3. Tells(FALSE, T, DiffOf(c1), B, {}, y)
    BY <1>5, <2>2, ResetTells
  <2> HIDE DEF c2
  <2>4. Tells(FALSE, T, DiffOf(c2 \o moves), B, {} \cup E, y)
    BY <1>3, <2>3
  <2>5. DiffOf(c2 \o moves) \in Diffs
    BY <2>4 DEF Tells
  <2> QED BY <2>1, <2>4, <2>5, ResetTells
<1>6. BeforeSelection(f, E, V) = c2 \o moves
  BY DEF BeforeSelection, c1, edits, moves
<1> QED BY <1>2, <1>4, <1>5, <1>6 DEF B

\* The ids given at an update are new, and nothing else of the scene changes.
LEMMA EnsuredFacts ==
  ASSUME TypeOK, NEW new \in NewIds
  PROVE  LET f == Ensured(new) IN
         /\ f \in Scenes /\ DOMAIN f = DOMAIN objects
         /\ \A o \in DOMAIN objects : objects[o].id # None => f[o].id = objects[o].id
         /\ IdsIn(f) \subseteq IdsIn(objects) \cup (Ids \ used)
<1> DEFINE f == Ensured(new)
           R == [name : Names, id : Ids \cup {None}]
<1>1. /\ DOMAIN objects \in SUBSET Objects /\ \A o \in DOMAIN objects : objects[o] \in R
      /\ \A p, q \in DOMAIN objects : objects[p].name = objects[q].name => p = q
  BY TypeFacts, SceneTypes
<1>2. /\ new \in [Unidentified -> Ids \ used] /\ DOMAIN new = Unidentified
      /\ \A o \in Unidentified : objects[o].id = None
  BY DEF NewIds, Unidentified
<1>3. f = [o \in DOMAIN objects |->
             IF o \in DOMAIN new THEN [objects[o] EXCEPT !.id = new[o]] ELSE objects[o]]
  BY DEF Ensured
<1> HIDE DEF f
<1>4. ASSUME NEW o \in DOMAIN objects
      PROVE  /\ f[o] \in R /\ f[o].name = objects[o].name
             /\ f[o].id = objects[o].id \/ (objects[o].id = None /\ f[o].id \in Ids \ used)
  <2>1. CASE o \in DOMAIN new
    <3>1. new[o] \in Ids \ used /\ objects[o].id = None
      BY <1>2, <2>1
    <3>2. f[o] = [objects[o] EXCEPT !.id = new[o]] /\ objects[o] \in R
      BY <1>1, <1>3, <2>1
    <3> QED BY <3>1, <3>2
  <2>2. CASE o \notin DOMAIN new
    BY <1>1, <1>3, <2>2
  <2> QED BY <2>1, <2>2
<1>5. f \in [DOMAIN objects -> R] /\ DOMAIN f = DOMAIN objects
  BY <1>3, <1>4
<1>6. f \in Scenes
  <2>1. \A p, q \in DOMAIN objects : f[p].name = f[q].name => p = q
    BY <1>1, <1>4
  <2> QED BY <1>1, <1>5, <2>1, AreScenes
<1>7. IdsIn(f) \subseteq IdsIn(objects) \cup (Ids \ used)
  BY <1>4, <1>5 DEF IdsIn, IdsOf
<1> QED BY <1>4, <1>5, <1>6, <1>7 DEF f

\* The scene whose ids an update's reports name.
Peeked == IF Small(objects) THEN objects' ELSE objects

LEMMA TickFacts ==
  ASSUME TypeOK, NEW new \in NewIds, Tick(new)
  PROVE  /\ objects' \in Scenes /\ DOMAIN objects' = DOMAIN objects
         /\ Small(objects') = Small(objects)
         /\ \A o \in DOMAIN objects : objects[o].id # None => objects'[o].id = objects[o].id
         /\ IdsIn(objects') \subseteq IdsIn(objects) \cup (Ids \ used)
         /\ IdsIn(objects') \in SUBSET Ids
         /\ IdsOf(Peeked, reshaped) \in SUBSET Ids /\ IdsOf(Peeked, moved) \in SUBSET Ids
         /\ IdsOf(objects', selected) \in SUBSET Ids
<1>1. objects' = Ensured(new)
  BY DEF Tick
<1>2. /\ objects' \in Scenes /\ DOMAIN objects' = DOMAIN objects
      /\ \A o \in DOMAIN objects : objects[o].id # None => objects'[o].id = objects[o].id
      /\ IdsIn(objects') \subseteq IdsIn(objects) \cup (Ids \ used)
  BY <1>1, EnsuredFacts
<1>3. Small(objects') = Small(objects)
  BY <1>2 DEF Small
<1>4. IdsIn(objects') \in SUBSET Ids
  BY <1>2, TypeFacts
<1>5. Peeked \in Scenes /\ DOMAIN Peeked = DOMAIN objects
  BY <1>2, TypeFacts DEF Peeked
<1>6. reshaped \in SUBSET DOMAIN objects /\ moved \in SUBSET DOMAIN objects
        /\ selected \in SUBSET DOMAIN objects
  BY DEF TypeOK
<1>7. IdsOf(Peeked, reshaped) \in SUBSET Ids /\ IdsOf(Peeked, moved) \in SUBSET Ids
  BY <1>5, <1>6, IdsFacts
<1>8. IdsOf(objects', selected) \in SUBSET Ids
  BY <1>2, <1>6, IdsFacts
<1> QED BY <1>2, <1>3, <1>4, <1>7, <1>8

LEMMA TickReports ==
  ASSUME WatchInv, mark # None, NEW new \in NewIds, Tick(new)
  PROVE  /\ changes' = BeforeSelection(objects', IdsOf(Peeked, reshaped), IdsOf(Peeked, moved))
                         \o Selection(objects')
         /\ Selection(objects') \in Seq(Changes)
<1> DEFINE f == objects'
           E == IdsOf(Peeked, reshaped)
           V == IdsOf(Peeked, moved)
           edits == MeshReports(E)
           moves == MovedReports(V)
           s == Structural(f)
           z == Selection(f)
<1>1. TypeOK /\ changes \in Seq(Changes)
  BY DEF WatchInv
<1>2. f \in Scenes /\ E \in SUBSET Ids /\ V \in SUBSET Ids /\ IdsOf(f, selected) \in SUBSET Ids
  BY <1>1, TickFacts
<1>3. changes' = changes \o ((s \o (edits \o moves)) \o z)
  <2>1. changes' = Since(Structural(objects') \o Updates(Peeked) \o Selection(objects'))
    BY DEF Tick, Peeked
  <2> QED BY <2>1 DEF Since, Updates
<1>4. BeforeSelection(f, E, V) = ((changes \o s) \o edits) \o moves
  BY DEF BeforeSelection
<1>5. z \in Seq(Changes)
  <2> DEFINE e == [change |-> "selection", selected |-> IdsOf(f, selected)]
  <2>1. e \in Changes
    BY <1>2 DEF Changes, Picks
  <2>2. z = IF IdsOf(f, selected) # selection THEN <<e>> ELSE <<>>
    BY DEF Selection
  <2> HIDE DEF e, z
  <2> QED BY <2>1, <2>2
<1>6. edits \in Seq(Changes) /\ moves \in Seq(Changes)
  <2> HIDE DEF f, E, V
  <2> QED BY <1>1, <1>2, ReportsAreChanges
<1>7. s \in Seq(Changes)
  <2> HIDE DEF f
  <2>1. {} \in SUBSET Ids
    OBVIOUS
  <2>2. Reports(Appeared(f) \cup Renamed(f)) \in Seq(Changes) /\ Reports(Vanished(f)) \in Seq(Changes)
    BY <1>1, <1>2, <2>1, ReportsAreChanges
  <2>3. Reports(Appeared(f) \cup Renamed(f)) \o Reports(Vanished(f)) \in Seq(Changes)
    BY <2>2, ConcatProperties
  <2>4. <<[change |-> "reset"]>> \in Seq(Changes)
    <3>1. [change |-> "reset"] \in Changes
      BY DEF Changes, Resets
    <3> QED BY <3>1
  <2> QED BY <2>3, <2>4 DEF Structural
<1> HIDE DEF f, E, V, edits, moves, s, z
<1> DEFINE u == s \o edits
           v == u \o moves
<1>8. s \o (edits \o moves) = v
  BY <1>6, <1>7
<1>9. u \in Seq(Changes)
  BY <1>6, <1>7
<1>10. changes \o u = (changes \o s) \o edits
  BY <1>1, <1>6, <1>7
<1> HIDE DEF u
<1>11. v \in Seq(Changes)
  BY <1>6, <1>9
<1>12. changes \o v = (changes \o u) \o moves
  BY <1>1, <1>6, <1>9
<1> HIDE DEF v
<1>13. changes \o (v \o z) = (changes \o v) \o z
  BY <1>1, <1>5, <1>11
<1>14. changes' = BeforeSelection(f, E, V) \o z
  BY <1>3, <1>4, <1>8, <1>10, <1>12, <1>13
<1> QED BY <1>5, <1>14 DEF f, E, V, z

LEMMA TickTells ==
  ASSUME WatchInv, mark # None, NEW new \in NewIds, Tick(new)
  PROVE  /\ changes' \in Seq(Changes)
         /\ Diff.reset \/ (~Small(objects) /\ snapshot # <<>>) => Diff'.reset
         /\ Tells(Small(mark.objects), Seen(mark.objects), Diff', snapshot', Told',
                  IF selection' = selection THEN Diff.selection ELSE selection')
<1> DEFINE w == Small(mark.objects)
           T == Seen(mark.objects)
           x == Diff.selection
           f == objects'
           E == IdsOf(Peeked, reshaped)
           V == IdsOf(Peeked, moved)
           B == snapshot'
           now == selection'
           c == BeforeSelection(f, E, V)
<1>1. TypeOK /\ changes \in Seq(Changes) /\ DiffInv /\ HistoryInv /\ mark.objects \in Scenes
  BY MarkTypes DEF WatchInv, DiffInv
<1>2. /\ f \in Scenes /\ E \in SUBSET Ids /\ V \in SUBSET Ids
      /\ DOMAIN f = DOMAIN objects /\ Small(f) = Small(objects)
      /\ \A o \in DOMAIN objects : objects[o].id # None => f[o].id = objects[o].id
      /\ IdsIn(f) \subseteq IdsIn(objects) \cup (Ids \ used)
      /\ now \in SUBSET Ids
  BY <1>1, TickFacts DEF Tick
<1>3. /\ B = Baseline(f) /\ now = IdsOf(f, selected)
      /\ changes' = c \o Selection(f) /\ Selection(f) \in Seq(Changes)
  BY TickReports DEF Tick
<1>4. DOMAIN T = IdsIn(mark.objects)
  BY <1>1, SeenFacts
<1>5. Told \subseteq IdsIn(f)
  <2>1. \A o \in mark.reshaped : o \in DOMAIN objects /\ f[o].id = objects[o].id
    BY <1>1, <1>2 DEF HistoryInv
  <2> QED BY <1>2, <2>1 DEF Told, IdsIn, IdsOf
<1>6. Told' \subseteq Told \cup E
  <2>1. \A o \in mark.reshaped : /\ o \in DOMAIN objects /\ f[o].id = objects[o].id
                                 /\ Peeked[o].id = objects[o].id
    BY <1>1, <1>2 DEF HistoryInv, Peeked
  <2>2. mark' = mark
    BY DEF Tick
  <2> QED BY <2>1, <2>2 DEF Told, IdsOf
<1>7. ~Diff.reset /\ w => (DOMAIN T \ DOMAIN snapshot) \cap IdsIn(f) = {}
  <2>1. IdsIn(mark.objects) \subseteq used
    BY <1>1 DEF HistoryInv
  <2>2. ~Diff.reset => NoneCameBack
    BY <1>1 DEF DiffInv
  <2> HIDE DEF T, f
  <2> QED BY <1>2, <1>4, <2>1, <2>2 DEF NoneCameBack
<1>8. Tells(w, T, Diff, snapshot, Told, x) /\ Diff \in Diffs
  BY <1>1 DEF DiffInv, Tells
<1> HIDE DEF w, T, x, f, E, V, B, now
<1>9. /\ c \in Seq(Changes) /\ Tells(w, T, DiffOf(c), B, Told \cup E, x)
      /\ ~Small(f) /\ snapshot # <<>> => DiffOf(c).reset
  BY <1>1, <1>2, <1>3, <1>5, <1>7, <1>8, ChangesTell
<1>10. Diff.reset => DiffOf(c).reset
  <2> SUFFICES ASSUME Diff.reset PROVE DiffOf(c).reset
    OBVIOUS
  <2>1. PICK y : y \notin {None} \cup SUBSET Ids
    BY NoSetContainsEverything
  <2>2. Tells(FALSE, T, Diff, snapshot, {}, y)
    BY <1>8, ResetTells
  <2>3. Tells(FALSE, T, DiffOf(c), B, {} \cup E, y)
    BY <1>1, <1>2, <1>3, <2>2, ChangesTell
  <2> HIDE DEF c
  <2>4. DiffOf(c) \in Diffs
    BY <2>3 DEF Tells
  <2> QED BY <2>1, <2>3, <2>4, ResetTells
<1> HIDE DEF c
<1>11. Tells(w, T, DiffOf(c), B, Told', x)
  BY <1>6, <1>9 DEF Tells
<1>12. CASE now = selection
  <2>1. Selection(f) = <<>>
    BY <1>3, <1>12 DEF Selection
  <2>2. changes' = c
    BY <1>3, <1>9, <2>1, ConcatEmptySeq
  <2> QED BY <1>2, <1>9, <1>10, <1>11, <1>12, <2>2 DEF Diff, w, T, x, B, now
<1>13. CASE now # selection
  <2> DEFINE e == [change |-> "selection", selected |-> now]
  <2>1. e \in Picks /\ e \in Changes /\ e.selected = now
    BY <1>2 DEF Changes, Picks
  <2>2. Selection(f) = <<e>>
    BY <1>3, <1>13 DEF Selection
  <2> HIDE DEF e
  <2>3. changes' = Append(c, e) /\ Append(c, e) \in Seq(Changes)
    BY <1>3, <1>9, <2>1, <2>2, AppendIsConcat, AppendProperties
  <2>4. Diff' = FoldStep(DiffOf(c), e)
    BY <1>9, <2>1, <2>3, DiffOfAppend DEF Diff
  <2>5. Tells(w, T, Diff', B, Told', now)
    BY <1>11, <2>1, <2>4, TellsSelected
  <2>6. Diff'.reset = DiffOf(c).reset
    BY <1>11, <2>1, <2>4, TellsSelected
  <2>7. (IF now = selection THEN Diff.selection ELSE now) = now
    BY <1>13
  <2>8. Diff.reset \/ (~Small(objects) /\ snapshot # <<>>) => Diff'.reset
    BY <1>2, <1>9, <1>10, <2>6
  <2>9. changes' \in Seq(Changes)
    BY <2>3
  <2> QED BY <2>5, <2>7, <2>8, <2>9 DEF w, T, B, now
<1> QED BY <1>12, <1>13

LEMMA TickInv ==
  ASSUME WatchInv, NEW new \in NewIds, Tick(new)
  PROVE  WatchInv'
<1>1. TypeOK /\ changes \in Seq(Changes)
  BY DEF WatchInv
<1>2. /\ mark' = mark /\ used' = used \cup IdsIn(objects') /\ moved' = {} /\ reshaped' = {}
      /\ work' = 0 /\ snapshot' = Baseline(objects') /\ selected' = selected
      /\ selection' = IdsOf(objects', selected) /\ Len(changes') <= MaxChanges
  BY DEF Tick
<1>3. /\ objects' \in Scenes /\ DOMAIN objects' = DOMAIN objects
      /\ Small(objects') = Small(objects)
      /\ \A o \in DOMAIN objects : objects[o].id # None => objects'[o].id = objects[o].id
      /\ IdsIn(objects') \subseteq IdsIn(objects) \cup (Ids \ used)
      /\ IdsIn(objects') \in SUBSET Ids /\ selection' \in SUBSET Ids
  BY <1>1, <1>2, TickFacts
<1>4. TypeOK'
  <2>1. snapshot' \in [DOMAIN snapshot' -> Names] /\ DOMAIN snapshot' \subseteq IdsIn(objects')
    BY <1>2, <1>3, BaselineFacts
  <2>2. work' \in 0 .. MaxWork
    BY <1>2, WatchAssumption DEF WatchAssumption
  <2>3. mark' = None => changes' = <<>>
    BY DEF Tick, Since
  <2> HIDE DEF Marks
  <2> QED BY <1>1, <1>2, <1>3, <2>1, <2>2, <2>3 DEF TypeOK
<1>5. CASE mark = None
  <2>1. mark' = None /\ changes' = <<>>
    BY <1>5 DEF Tick, Since
  <2> QED BY <1>4, <2>1 DEF WatchInv
<1>6. CASE mark # None
  <2>1. DiffInv /\ HistoryInv
    BY <1>6 DEF WatchInv, DiffInv
  <2> DEFINE y == IF selection' = selection THEN Diff.selection ELSE selection'
  <2>2. /\ changes' \in Seq(Changes)
        /\ (Diff.reset \/ (~Small(objects) /\ snapshot # <<>>) => Diff'.reset)
        /\ Tells(Small(mark.objects), Seen(mark.objects), Diff', snapshot', Told', y)
    BY <1>6, TickTells
  <2>3. Diff' \in Diffs
    BY <2>2 DEF Tells
  <2>4. HistoryInv'
    BY <1>2, <1>3, <2>1 DEF HistoryInv
  <2>5. CASE Diff'.reset
    <3>1. Tells(Small(mark'.objects), Seen(mark'.objects), Diff', snapshot', Told', Diff'.selection)
      BY <2>3, <2>5, ResetTells
    <3> QED BY <1>4, <2>2, <2>4, <2>5, <3>1 DEF WatchInv, DiffInv
  <2>6. CASE ~Diff'.reset
    <3>1. Diff'.selection = y
      BY <2>2, <2>6 DEF Tells
    <3>2. Tells(Small(mark'.objects), Seen(mark'.objects), Diff', snapshot', Told', Diff'.selection)
      BY <1>2, <2>2, <3>1
    <3>3. NoneCameBack /\ SelectionKnown
      BY <2>1, <2>2, <2>6 DEF DiffInv
    <3>4. SelectionKnown'
      <4>1. selection' # None
        BY <1>3, WatchAssumption DEF WatchAssumption
      <4> QED BY <1>2, <3>1, <3>3, <4>1 DEF SelectionKnown
    <3>5. NoneCameBack'
      <4>1. CASE Small(objects)
        <5>1. DOMAIN snapshot' = IdsIn(objects')
          BY <1>2, <1>3, <4>1, SeenFacts DEF Baseline
        <5> QED BY <1>2, <5>1 DEF NoneCameBack
      <4>2. CASE ~Small(objects)
        <5>1. snapshot = <<>> /\ snapshot' = <<>>
          BY <1>2, <1>3, <2>2, <2>6, <4>2 DEF Baseline
        <5>2. IdsIn(mark.objects) \subseteq used
          BY <2>1 DEF HistoryInv
        <5> QED BY <1>2, <1>3, <3>3, <5>1, <5>2 DEF NoneCameBack
      <4> QED BY <4>1, <4>2
    <3> QED BY <1>4, <2>2, <2>4, <3>2, <3>4, <3>5 DEF WatchInv, DiffInv
  <2> QED BY <2>5, <2>6
<1> QED BY <1>5, <1>6

LEMMA InitInv ==
  ASSUME Init
  PROVE  WatchInv
<1>1. objects \in Scenes /\ IdsIn(objects) \in SUBSET Ids
  <2>1. objects \in Scenes
    BY DEF Init
  <2>2. DOMAIN objects \in SUBSET DOMAIN objects /\ IdsIn(objects) = IdsOf(objects, DOMAIN objects)
    BY DEF IdsIn
  <2> QED BY <2>1, <2>2, IdsFacts
<1>2. snapshot \in [DOMAIN snapshot -> Names] /\ DOMAIN snapshot \in SUBSET Ids
  <2>1. PICK f \in Scenes : snapshot = Baseline(f)
    BY DEF Init
  <2> QED BY <2>1, BaselineFacts, PartialTypes
<1>3. work \in 0 .. MaxWork /\ Len(changes) <= MaxChanges
  BY WatchAssumption DEF Init, WatchAssumption
<1>4. TypeOK
  <2> HIDE DEF Marks
  <2> QED BY <1>1, <1>2, <1>3 DEF Init, TypeOK
<1> QED BY <1>4 DEF Init, WatchInv

LEMMA NextInv ==
  ASSUME WatchInv, [Next]_vars
  PROVE  WatchInv'
<1>1. CASE UNCHANGED vars
  <2>1. WatchInv' = WatchInv
    BY <1>1 DEF WatchInv, TypeOK, DiffInv, HistoryInv, Told, NoneCameBack, SelectionKnown, Diff,
               vars, userVars, reportVars
  <2> QED BY <2>1
<1>2. ASSUME NEW o \in Objects, Delete(o) \/ Move(o) \/ Reshape(o) PROVE WatchInv'
  BY <1>2, DeleteInv, MoveInv, ReshapeInv
<1>3. ASSUME NEW o \in Objects, NEW n \in Names, Create(o, n) \/ Rename(o, n) PROVE WatchInv'
  BY <1>3, CreateInv, RenameInv
<1>4. ASSUME NEW o \in Objects, NEW p \in Objects, NEW n \in Names, Copy(o, p, n) PROVE WatchInv'
  BY <1>4, CopyInv
<1>5. ASSUME NEW S \in SUBSET DOMAIN objects, Select(S) PROVE WatchInv'
  BY <1>5, SelectInv
<1>6. ASSUME NEW r \in NewScenes, Reload(r) PROVE WatchInv'
  BY <1>6, ReloadInv
<1>7. ASSUME NEW new \in NewIds, Tick(new) PROVE WatchInv'
  BY <1>7, TickInv
<1> QED BY <1>1, <1>2, <1>3, <1>4, <1>5, <1>6, <1>7, SnapshotInv DEF Next

LEMMA WatchInvariant == Spec => []WatchInv
<1>1. Init => WatchInv
  BY InitInv
<1>2. WatchInv /\ [Next]_vars => WatchInv'
  BY NextInv
<1> QED BY <1>1, <1>2, PTL DEF Spec

\* With nothing left to report, the baseline is the scene and every edit has been told of.
LEMMA ReportedTells ==
  ASSUME WatchInv, mark # None, Reported
  PROVE  /\ DiffInv
         /\ Diff.reset \/ (/\ Small(mark.objects) /\ Small(objects)
                                => Relates(Diff, Seen(mark.objects), Seen(objects))
                           /\ IdsOf(objects, mark.reshaped) \subseteq Diff.meshes
                           /\ SelectionKnown)
<1>1. DiffInv
  BY DEF WatchInv
<1>2. Told = IdsOf(objects, mark.reshaped)
  <2>1. mark.reshaped \ reshaped = mark.reshaped
    BY DEF Reported
  <2> QED BY <2>1 DEF Told
<1>3. Small(objects) => snapshot = Seen(objects)
  BY DEF Reported, Baseline
<1> HIDE DEF Diff
<1> QED BY <1>1, <1>2, <1>3 DEF DiffInv, Tells

\* What the watch has seen of two scenes, and the scenes.
LEMMA SeenDifference ==
  ASSUME NEW then \in Scenes, NEW now \in Scenes, NEW d, Relates(d, Seen(then), Seen(now))
  PROVE  IsDifference(d, then, now)
<1>1. /\ DOMAIN Seen(then) = IdsIn(then) /\ \A i \in IdsIn(then) : Seen(then)[i] \in NamesOf(then, i)
      /\ DOMAIN Seen(now) = IdsIn(now) /\ \A i \in IdsIn(now) : Seen(now)[i] \in NamesOf(now, i)
  BY SeenFacts
<1>2. \A i \in IdsIn(then) \cap IdsIn(now) :
        NamesOf(then, i) \cap NamesOf(now, i) = {} => Seen(then)[i] # Seen(now)[i]
  BY <1>1
<1> QED BY <1>1, <1>2 DEF Relates, IsDifference

-----------------------------------------------------------------------------
(* The theorems *)

(* The watch's baseline, the pending updates and the caller's mark stay what events.py
   takes them for, whatever the user does between two updates. *)
THEOREM WatchTypeCorrect == Spec => []TypeOK
<1>1. WatchInv => TypeOK
  BY DEF WatchInv
<1> QED BY <1>1, WatchInvariant, PTL

(* Folding the reports of any number of updates (diff.rs, fold) gives the exact
   difference between the scene of the snapshot and the scene now, for scenes of any
   size under the limit and any history of creations, copies, renames, moves and
   deletions (events.py, _report_structural_changes), objects that share an id counting
   as one. *)
THEOREM DiffsAreExact == Spec => []DiffIsTheDifference
<1>1. WatchInv => DiffIsTheDifference
  <2> SUFFICES ASSUME WatchInv, Watched, ~Diff.reset
               PROVE  DiffIsTheDifference
    BY DEF DiffIsTheDifference
  <2>1. Relates(Diff, Seen(mark.objects), Seen(objects))
    BY ReportedTells DEF Watched
  <2>2. mark.objects \in Scenes /\ objects \in Scenes
    BY MarkTypes, TypeFacts DEF WatchInv, Watched
  <2> HIDE DEF Diff
  <2>3. IsDifference(Diff, mark.objects, objects)
    BY <2>1, <2>2, SeenDifference
  <2> QED BY <2>3 DEF DiffIsTheDifference
<1> QED BY <1>1, WatchInvariant, PTL

(* No mesh edited after the snapshot is missing from a diff that does not say reset,
   unless the object is gone (diff.rs, MeshInvalidated): indices into it that a caller
   still holds are known to be stale. *)
THEOREM EditedMeshesAreNamed == Spec => []StaleMeshesAreNamed
<1>1. WatchInv => StaleMeshesAreNamed
  BY ReportedTells DEF StaleMeshesAreNamed
<1> QED BY <1>1, WatchInvariant, PTL

(* A caller who knows the selection of its snapshot and applies a diff that does not say
   reset has the selection of now (diff.rs, SelectionChanged; events.py,
   _report_selection). *)
THEOREM SelectionsAreFollowed == Spec => []SelectionFollows
<1>1. WatchInv => SelectionFollows
  BY ReportedTells DEF SelectionFollows, SelectionKnown, Reported
<1> QED BY <1>1, WatchInvariant, PTL
=============================================================================
