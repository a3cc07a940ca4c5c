---------------------------- MODULE Tools_proof -----------------------------
(***************************************************************************)
(* What tool calls leave behind.  The two managed roots: theorems about    *)
(* Artifacts for any number of calls, frames and names, whatever times     *)
(* out, fails or is restarted; and about Downloads for any number of       *)
(* calls, files, chunks and versions, whatever is deleted and however      *)
(* often the server is restarted.  And theorems about Handling for any     *)
(* table of tools whose handlers are in order.                             *)
(***************************************************************************)
EXTENDS Downloads, Artifacts, Handling, SequenceTheorems, FiniteSetTheorems, WellFoundedInduction, TLAPS

-----------------------------------------------------------------------------
(* Artifacts: the invariant *)

Fields(j) == j = [ pc |-> j.pc, kind |-> j.kind, path |-> j.path, told |-> j.told,
                   past |-> j.past, sent |-> j.sent ]

\* The files a job accounts for.
Named(j) == j.told \cup { path \in Beside(j.path) : j.kind = "bundle" }

WrittenBy(c) == { path \in DOMAIN written : written[path] = c }

\* A call is with Blender once at most, and its caller may have given it up.
QueueInv ==
  /\ DOMAIN job = Callers /\ \A c \in Callers : Fields(job[c])
  /\ queue \in Seq(Callers)
  /\ \A j, k \in DOMAIN queue : queue[j] = queue[k] => j = k
  /\ \A k \in DOMAIN queue : job[queue[k]].pc \in {"waiting", "failed"}
  /\ \A path \in DOMAIN written : written[path] \in Callers

\* Only the first of them has written anything yet, and what it has written is known.
UnbegunInv ==
  /\ \A c \in Callers : job[c].pc \in {"idle", "named"} => WrittenBy(c) = {}
  /\ \A k \in DOMAIN queue : k > 1 => WrittenBy(queue[k]) = {}
  /\ queue = <<>> => shot = {}
  /\ queue # <<>> => WrittenBy(Head(queue)) \subseteq shot

ToldInv == \A c \in Callers : job[c].pc \in {"answered", "done"} => WrittenBy(c) \subseteq Named(job[c])

ArtifactsInv == QueueInv /\ UnbegunInv /\ ToldInv

-----------------------------------------------------------------------------
(* The steps *)

LEMMA ServerSteps ==
  ASSUME ArtifactsInv, NEW c \in Callers, Allocate(c) \/ TimeOut(c) \/ Register(c)
  PROVE  ArtifactsInv'
<1>1. UNCHANGED <<written, queue, shot>> /\ \A d \in Callers \ {c} : job'[d] = job[d]
  BY DEF ArtifactsInv, QueueInv, Allocate, TimeOut, Register
<1>2. Fields(job[c]) /\ DOMAIN job = Callers /\ DOMAIN job' = Callers
  BY DEF ArtifactsInv, QueueInv, Allocate, TimeOut, Register
<1>3. /\ Fields(job'[c])
      /\ \/ job[c].pc = "idle" /\ job'[c].pc = "named"
         \/ job[c].pc = "waiting" /\ job'[c].pc = "failed"
         \/ job[c].pc = "answered" /\ job'[c].pc = "done" /\ Named(job'[c]) = Named(job[c])
  <2>1. CASE Allocate(c)
    BY <1>2, <2>1 DEF Allocate, Fields
  <2>2. CASE TimeOut(c)
    BY <1>2, <2>2 DEF TimeOut, Fields
  <2>3. CASE Register(c)
    <3>1. job[c].pc = "answered" /\ job'[c] = [job[c] EXCEPT !.pc = "done"]
      BY <1>2, <2>3 DEF Register
    <3> QED
      BY <1>2, <3>1 DEF Fields, Named
  <2> QED
    BY <2>1, <2>2, <2>3
<1>4. QueueInv'
  BY <1>1, <1>2, <1>3 DEF ArtifactsInv, QueueInv
<1>5. \A d \in Callers : WrittenBy(d)' = WrittenBy(d)
  BY <1>1 DEF WrittenBy
<1>6. UnbegunInv' /\ ToldInv'
  BY <1>1, <1>3, <1>5 DEF ArtifactsInv, QueueInv, UnbegunInv, ToldInv, WrittenBy
<1> QED
  BY <1>4, <1>6 DEF ArtifactsInv

LEMMA SendStep ==
  ASSUME ArtifactsInv, NEW c \in Callers, Send(c)
  PROVE  ArtifactsInv'
<1>1. UNCHANGED <<written, shot>> /\ (\A d \in Callers \ {c} : job'[d] = job[d])
      /\ DOMAIN job' = Callers /\ queue' = Append(queue, c) /\ job[c].pc = "named"
      /\ queue \in Seq(Callers)
  BY DEF ArtifactsInv, QueueInv, Send
<1>2. Fields(job'[c]) /\ job'[c].pc = "waiting"
  BY DEF ArtifactsInv, QueueInv, Send, Fields
<1>3. /\ DOMAIN queue = 1..Len(queue) /\ DOMAIN queue' = 1..(Len(queue) + 1)
      /\ queue'[Len(queue) + 1] = c /\ \A k \in DOMAIN queue : queue'[k] = queue[k]
      /\ Len(queue) \in Nat /\ queue' \in Seq(Callers) /\ queue' # <<>>
      /\ Head(queue') = (IF queue = <<>> THEN c ELSE Head(queue))
  BY <1>1
<1>4. \A k \in DOMAIN queue : queue[k] # c
  BY <1>1 DEF ArtifactsInv, QueueInv
<1>5. QueueInv'
  BY <1>1, <1>2, <1>3, <1>4 DEF ArtifactsInv, QueueInv
<1>6. WrittenBy(c) = {}
  BY <1>1 DEF ArtifactsInv, UnbegunInv
<1>7. UnbegunInv' /\ ToldInv'
  BY <1>1, <1>2, <1>3, <1>6 DEF ArtifactsInv, UnbegunInv, ToldInv, WrittenBy
<1> QED
  BY <1>5, <1>7 DEF ArtifactsInv

LEMMA WriteStep == ArtifactsInv /\ WriteFile => ArtifactsInv'
<1> SUFFICES ASSUME ArtifactsInv, WriteFile PROVE ArtifactsInv'
  OBVIOUS
<1> DEFINE h == Head(queue)
<1>1. PICK path : /\ written' = [p \in DOMAIN written \cup {path} |-> IF p = path THEN h ELSE written[p]]
                  /\ shot' = shot \cup {path}
                  /\ queue # <<>> /\ UNCHANGED <<job, queue>>
  BY DEF WriteFile
<1>2. h \in Callers /\ 1 \in DOMAIN queue /\ h = queue[1]
  BY <1>1 DEF ArtifactsInv, QueueInv
<1>3. /\ DOMAIN written' = DOMAIN written \cup {path} /\ written'[path] = h
      /\ \A p \in DOMAIN written \ {path} : written'[p] = written[p]
  BY <1>1
<1>4. QueueInv'
  BY <1>1, <1>2, <1>3 DEF ArtifactsInv, QueueInv
<1>5. WrittenBy(h)' \subseteq WrittenBy(h) \cup {path}
  BY <1>1, <1>3 DEF WrittenBy
<1>6. \A d \in Callers \ {h} : WrittenBy(d)' \subseteq WrittenBy(d)
  BY <1>3 DEF WrittenBy
<1>7. UnbegunInv' /\ ToldInv'
  BY <1>1, <1>2, <1>5, <1>6 DEF ArtifactsInv, QueueInv, UnbegunInv, ToldInv
<1> QED
  BY <1>4, <1>7 DEF ArtifactsInv

LEMMA FinishStep ==
  ASSUME ArtifactsInv, queue # <<>>, NEW pc \in {"answered", "failed"}, NEW names,
         Finishes(Head(queue), pc, names),
         pc = "answered" => shot \subseteq Named([job[Head(queue)] EXCEPT !.told = names])
  PROVE  ArtifactsInv'
<1> DEFINE h == Head(queue)
<1>1. h \in Callers /\ 1 \in DOMAIN queue /\ h = queue[1] /\ queue \in Seq(Callers)
  BY DEF ArtifactsInv, QueueInv
<1>2. /\ UNCHANGED written /\ queue' = Tail(queue) /\ shot' = {}
      /\ DOMAIN job' = Callers /\ \A d \in Callers \ {h} : job'[d] = job[d]
  BY <1>1 DEF Finishes, ArtifactsInv, QueueInv
<1>3. /\ Fields(job'[h])
      /\ job'[h].pc \in {"failed", "answered"}
      /\ job'[h].pc = "answered" => shot \subseteq Named(job'[h])
  <2>1. Fields(job[h]) /\ DOMAIN job = Callers /\ job[h].pc \in {"waiting", "failed"}
    BY <1>1 DEF ArtifactsInv, QueueInv
  <2>2. CASE job[h].pc = "waiting"
    <3>1. job'[h] = [job[h] EXCEPT !.pc = pc, !.told = names]
      BY <1>1, <2>1, <2>2 DEF Finishes
    <3>2. Named([job[h] EXCEPT !.told = names]) = Named(job'[h])
      BY <2>1, <3>1 DEF Fields, Named
    <3> QED
      BY <2>1, <3>1, <3>2 DEF Fields
  <2>3. CASE job[h].pc = "failed"
    BY <2>1, <2>3 DEF Finishes
  <2> QED
    BY <2>1, <2>2, <2>3
<1>4. /\ DOMAIN queue = 1..Len(queue) /\ DOMAIN queue' = 1..(Len(queue) - 1)
      /\ \A k \in DOMAIN queue' : queue'[k] = queue[k + 1] /\ k + 1 \in DOMAIN queue
      /\ Len(queue) \in Nat \ {0} /\ queue' \in Seq(Callers)
  BY <1>1, <1>2
<1>5. \A k \in DOMAIN queue' : queue'[k] # h
  BY <1>1, <1>4 DEF ArtifactsInv, QueueInv
<1>6. QueueInv'
  BY <1>1, <1>2, <1>3, <1>4, <1>5 DEF ArtifactsInv, QueueInv
<1>7. \A d \in Callers : WrittenBy(d)' = WrittenBy(d)
  BY <1>2 DEF WrittenBy
<1>8. \A k \in DOMAIN queue' : WrittenBy(queue'[k]) = {}
  BY <1>4 DEF ArtifactsInv, UnbegunInv
<1>9. queue' # <<>> => Head(queue') = queue'[1] /\ 1 \in DOMAIN queue'
  BY <1>4
<1>10. UnbegunInv'
  <2>1. \A d \in Callers : job'[d].pc \in {"idle", "named"} => WrittenBy(d)' = {}
    BY <1>2, <1>3, <1>7 DEF ArtifactsInv, UnbegunInv
  <2>2. \A k \in DOMAIN queue' : { p \in DOMAIN written' : written'[p] = queue'[k] } = {}
    BY <1>2, <1>8 DEF WrittenBy
  <2>3. \A k \in DOMAIN queue' : k > 1 => WrittenBy(queue[k])' = {}
    BY <2>2 DEF WrittenBy
  <2>4. queue' # <<>> => WrittenBy(Head(queue))' = {}
    BY <1>9, <2>2 DEF WrittenBy
  <2> QED
    BY <1>2, <2>1, <2>3, <2>4 DEF UnbegunInv
<1>11. ToldInv'
  BY <1>2, <1>3, <1>7 DEF ArtifactsInv, UnbegunInv, ToldInv
<1> QED
  BY <1>6, <1>10, <1>11 DEF ArtifactsInv

LEMMA StopStep == ArtifactsInv /\ StopServer => ArtifactsInv'
<1> SUFFICES ASSUME ArtifactsInv, StopServer PROVE ArtifactsInv'
  OBVIOUS
<1>1. UNCHANGED <<written, queue, shot>> /\ DOMAIN job' = Callers
  BY DEF StopServer
<1>2. \A c \in Callers :
        /\ Fields(job'[c])
        /\ job'[c] = job[c] \/ (job[c].pc # "idle" /\ job'[c].pc = "failed")
  <2> SUFFICES ASSUME NEW c \in Callers
               PROVE  /\ Fields(job'[c])
                      /\ job'[c] = job[c] \/ (job[c].pc # "idle" /\ job'[c].pc = "failed")
    OBVIOUS
  <2>1. Fields(job[c])
    BY DEF ArtifactsInv, QueueInv
  <2>2. CASE job[c].pc \in {"named", "waiting", "answered"}
    <3>1. job'[c] = [job[c] EXCEPT !.pc = "failed"]
      BY <2>2 DEF StopServer
    <3> QED
      BY <2>1, <2>2, <3>1 DEF Fields
  <2>3. CASE job[c].pc \notin {"named", "waiting", "answered"}
    <3>1. job'[c] = job[c]
      BY <2>3 DEF StopServer
    <3> QED
      BY <2>1, <3>1
  <2> QED
    BY <2>2, <2>3
<1>3. QueueInv'
  BY <1>1, <1>2 DEF ArtifactsInv, QueueInv
<1>4. UnbegunInv' /\ ToldInv'
  BY <1>1, <1>2 DEF ArtifactsInv, UnbegunInv, ToldInv, WrittenBy
<1> QED
  BY <1>3, <1>4 DEF ArtifactsInv

-----------------------------------------------------------------------------
(* A call that succeeded names every file *)

LEMMA ArtifactsStart == ArtifactsInit => ArtifactsInv
BY DEF ArtifactsInit, ArtifactsInv, QueueInv, UnbegunInv, ToldInv, WrittenBy, Fields, Unused

LEMMA HeadIsCaller == ArtifactsInv /\ queue # <<>> => Head(queue) \in Callers
BY DEF ArtifactsInv, QueueInv

LEMMA ArtifactsStep == ArtifactsInv /\ [ArtifactsNext]_artifacts => ArtifactsInv'
<1> SUFFICES ASSUME ArtifactsInv, [ArtifactsNext]_artifacts PROVE ArtifactsInv'
  OBVIOUS
<1>1. CASE UNCHANGED artifacts
  BY <1>1 DEF artifacts, ArtifactsInv, QueueInv, UnbegunInv, ToldInv, WrittenBy
<1>2. CASE Succeed
  <2>1. shot \subseteq Named([job[Head(queue)] EXCEPT !.told = Produced(Head(queue))])
    BY <1>2, HeadIsCaller DEF Succeed, Produced, Outputs, Named, Fields, ArtifactsInv, QueueInv
  <2> QED
    BY <1>2, <2>1, FinishStep DEF Succeed
<1>3. CASE BreakOff
  BY <1>3, FinishStep DEF BreakOff
<1> QED
  BY <1>1, <1>2, <1>3, ServerSteps, SendStep, WriteStep, StopStep DEF ArtifactsNext

(* Whatever a call that succeeded left on the disk, its answer names, for any number of *)
(* calls and frames, across time-outs, failures half way and restarts.                  *)
THEOREM AnswersNameEveryFile == ArtifactsSpec => []SuccessNamesEveryFile
<1>1. ArtifactsInv => SuccessNamesEveryFile
  BY DEF ArtifactsInv, QueueInv, ToldInv, WrittenBy, Named, SuccessNamesEveryFile
<1> QED
  BY <1>1, ArtifactsStart, ArtifactsStep, PTL DEF ArtifactsSpec

-----------------------------------------------------------------------------
(* The name that allocate finds is free *)

LEMMA LessWellFounded == IsWellFoundedOn({p \in Nat \X Nat : p[1] < p[2]}, Nat)
BY NatLessThanWellFounded DEF OpToRel

LEMMA LeastNat ==
  ASSUME NEW T \in SUBSET Nat, T # {}
  PROVE  \E x \in T : \A y \in T : x <= y
<1> DEFINE R == {p \in Nat \X Nat : p[1] < p[2]}
<1>1. IsWellFoundedOn(R, Nat)
  BY LessWellFounded
<1> HIDE DEF R
<1>2. PICK x \in T : \A y \in T : ~(<<y, x>> \in R)
  BY <1>1, WFMin
<1>3. \A y \in T : ~(y < x)
  BY <1>2 DEF R
<1> QED
  BY <1>3

\* No two numbers come to one name.
LEMMA NumbersDiffer ==
  ASSUME NEW stem \in Stems, NEW m \in Nat, NEW n \in Nat, Numbered(stem, m) = Numbered(stem, n)
  PROVE  m = n
<1> DEFINE Endings == [copy : Nat] \cup [frame : Nat]
<1>1. stem \in Seq(Endings)
  BY ArtifactAssumption
<1>2. \A k \in Nat : [copy |-> k] \in Endings /\ [copy |-> k].copy = k
  OBVIOUS
<1> HIDE DEF Endings
<1>3. ASSUME NEW k \in Nat
      PROVE  /\ Len(Append(stem, [copy |-> k])) = Len(stem) + 1
             /\ Append(stem, [copy |-> k])[Len(stem) + 1] = [copy |-> k]
  <2> DEFINE suffix == [copy |-> k]
  <2>1. suffix \in Endings
    BY <1>2
  <2> HIDE DEF suffix
  <2>2. /\ Len(Append(stem, suffix)) = Len(stem) + 1
        /\ Append(stem, suffix)[Len(stem) + 1] = suffix
    BY <1>1, <2>1
  <2> QED
    BY <2>2 DEF suffix
<1>4. Len(stem) \in Nat
  BY <1>1
<1>5. CASE m # 0 /\ n # 0
  <2>1. [copy |-> m] = [copy |-> n]
    BY <1>3, <1>5 DEF Numbered
  <2> QED
    BY <1>2, <2>1
<1>6. ASSUME NEW k \in Nat PROVE Append(stem, [copy |-> k]) # stem
  <2>1. Len(Append(stem, [copy |-> k])) # Len(stem)
    BY <1>3, <1>4
  <2> QED
    BY <2>1
<1> QED
  BY <1>5, <1>6 DEF Numbered

LEMMA FreeNameIsFree ==
  ASSUME IsFiniteSet(DOMAIN written), NEW stem \in Stems
  PROVE  ~Exists(FreeName(stem))
<1> DEFINE N == Cardinality(DOMAIN written)
           Free == { n \in 0..N : ~Exists(Numbered(stem, n)) }
           Least(n) == ~Exists(Numbered(stem, n)) /\ \A k \in 0..(n - 1) : Exists(Numbered(stem, k))
<1>1. N \in Nat
  BY FS_CardinalityType
<1>2. Free # {}
  <2> SUFFICES ASSUME Free = {} PROVE FALSE
    OBVIOUS
  <2> DEFINE name == [n \in 0..N |-> Numbered(stem, n)]
  <2>1. name \in [0..N -> DOMAIN written]
    BY DEF Exists
  <2>2. IsFiniteSet(0..N) /\ Cardinality(0..N) = N + 1
    BY <1>1, FS_Interval
  <2>3. N < Cardinality(0..N)
    BY <1>1, <2>2
  <2>4. \A m, n \in 0..N : name[m] = name[n] => m = n
    BY <1>1, NumbersDiffer
  <2> HIDE DEF name
  <2>5. \E m, n \in 0..N : m # n /\ name[m] = name[n]
    <3> DEFINE S == 0..N
               T == DOMAIN written
    <3>1. IsFiniteSet(S) /\ IsFiniteSet(T) /\ Cardinality(T) < Cardinality(S) /\ name \in [S -> T]
      BY <2>1, <2>2, <2>3
    <3> HIDE DEF S, T
    <3>2. \E m, n \in S : m # n /\ name[m] = name[n]
      BY <3>1, FS_PigeonHole
    <3> QED
      BY <3>2 DEF S
  <2> QED
    BY <2>4, <2>5
<1>3. \E n \in 0..N : Least(n)
  <2>1. Free \in SUBSET Nat
    BY <1>1
  <2> HIDE DEF Free
  <2>2. PICK n \in Free : \A k \in Free : n <= k
    BY <1>2, <2>1, LeastNat
  <2>3. n \in 0..N /\ ~Exists(Numbered(stem, n))
    BY DEF Free
  <2>4. ASSUME NEW k \in 0..(n - 1) PROVE Exists(Numbered(stem, k))
    <3>1. k \in 0..N /\ ~(n <= k)
      BY <1>1, <2>3
    <3> QED
      BY <2>2, <3>1 DEF Free
  <2> QED
    BY <2>3, <2>4
<1> DEFINE chosen == CHOOSE n \in 0..N : Least(n)
<1>4. Least(chosen)
  <2> HIDE DEF Least
  <2> QED
    BY <1>3
<1>5. FreeName(stem) = Numbered(stem, chosen)
  BY DEF FreeName
<1> HIDE DEF chosen
<1> QED
  BY <1>4, <1>5

-----------------------------------------------------------------------------
(* What the index says of the files *)

\* An entry is a file that a call answered with.
Registered == { e \in [path : DOMAIN written, of : Callers] :
                  job[e.of].pc = "done" /\ e.path \in job[e.of].told }

\* What the index, an answer or Blender itself has named is on the disk.
OnDiskInv ==
  /\ IsFiniteSet(DOMAIN written)
  /\ shot \subseteq DOMAIN written
  /\ \A c \in Callers : job[c].told \subseteq DOMAIN written
  /\ index \in Seq(Registered)

LEMMA SetToSeqNames ==
  ASSUME NEW S, IsFiniteSet(S)
  PROVE  SetToSeq(S) \in Seq(S)
<1> DEFINE n == Cardinality(S)
<1>1. n \in Nat /\ ExistsBijection(1..n, S)
  BY FS_CardinalityType
<1>2. PICK b : b \in Bijection(1..n, S)
  BY <1>1 DEF ExistsBijection
<1>3. b \in [1..n -> S] /\ IsInjective(b)
  BY <1>2 DEF Bijection, Injection
<1>4. SetToSeq(S) \in [1..n -> S]
  BY <1>3 DEF SetToSeq
<1> QED
  BY <1>1, <1>4

LEMMA RegisterKeepsIndex ==
  ASSUME ArtifactsInv, OnDiskInv, NEW c \in Callers, Register(c)
  PROVE  index' \in Seq(Registered')
<1> DEFINE E == Registered'
           names == SetToSeq(job[c].told)
           added == [k \in DOMAIN names |-> [path |-> names[k], of |-> c]]
           entries == index \o added
           from == Max({1, Len(entries) - Capacity + 1})
<1>1. index' = SubSeq(entries, from, Len(entries))
  BY DEF Register
<1>2. names \in Seq(job[c].told)
  <2>1. IsFiniteSet(job[c].told)
    BY FS_Subset DEF OnDiskInv
  <2> QED
    BY <2>1, SetToSeqNames
<1> HIDE DEF names
<1>3. added \in Seq(E)
  <2>1. DOMAIN names = 1..Len(names) /\ Len(names) \in Nat
        /\ \A k \in 1..Len(names) : names[k] \in job[c].told
    BY <1>2
  <2>2. job'[c].pc = "done" /\ job'[c].told = job[c].told /\ written' = written
        /\ job[c].told \subseteq DOMAIN written
    BY DEF Register, ArtifactsInv, QueueInv, Fields, OnDiskInv
  <2>3. \A k \in 1..Len(names) : [path |-> names[k], of |-> c] \in E
    BY <2>1, <2>2 DEF Registered
  <2>4. added \in [1..Len(names) -> E]
    BY <2>1, <2>3
  <2> HIDE DEF added, E
  <2> QED
    BY <2>1, <2>4
<1> HIDE DEF added
<1>4. index \in Seq(E)
  <2>1. Registered \subseteq E
    BY DEF Register, Registered, ArtifactsInv, QueueInv, Fields
  <2> HIDE DEF E
  <2> QED
    BY <2>1, SeqMonotonic DEF OnDiskInv
<1> HIDE DEF E
<1>5. entries \in Seq(E)
  BY <1>3, <1>4, ConcatProperties
<1> HIDE DEF entries
<1>6. Len(entries) \in Nat /\ DOMAIN entries = 1..Len(entries)
      /\ \A k \in 1..Len(entries) : entries[k] \in E
  BY <1>5
<1>7. from \in Int /\ 1 <= from
  <2> DEFINE T == {1, Len(entries) - Capacity + 1}
  <2>1. T \subseteq Int /\ 1 \in T
    BY <1>6, ArtifactAssumption
  <2>2. \E x \in T : \A y \in T : x >= y
    BY <1>6, ArtifactAssumption
  <2> HIDE DEF T
  <2>3. Max(T) \in T /\ \A y \in T : Max(T) >= y
    BY <2>2 DEF Max
  <2>4. from = Max(T)
    BY DEF T
  <2> HIDE DEF from
  <2> QED
    BY <2>1, <2>3, <2>4
<1> HIDE DEF from
<1>8. \A k \in from..Len(entries) : entries[k] \in E
  BY <1>6, <1>7
<1>9. SubSeq(entries, from, Len(entries)) \in Seq(E)
  BY <1>6, <1>7, <1>8, SubSeqProperties
<1> QED
  BY <1>1, <1>9 DEF E

\* An entry stays one: the call it is of is done, and a file is never removed.
LEMMA EntriesStay ==
  ASSUME OnDiskInv, DOMAIN written \subseteq DOMAIN written', UNCHANGED index,
         \A d \in Callers : job[d].pc = "done" => job'[d] = job[d]
  PROVE  index' \in Seq(Registered')
<1>1. Registered \subseteq Registered'
  BY DEF Registered
<1> DEFINE S == Registered
           T == Registered'
<1> HIDE DEF S, T
<1>2. index \in Seq(S) /\ S \subseteq T
  BY <1>1 DEF OnDiskInv, S, T
<1>3. index \in Seq(T)
  BY <1>2, SeqMonotonic
<1> QED
  BY <1>3 DEF T

LEMMA OnDiskStep ==
  ASSUME ArtifactsInv, OnDiskInv, [ArtifactsNext]_artifacts
  PROVE  OnDiskInv'
<1> DOMAIN job = Callers /\ \A c \in Callers : Fields(job[c])
  BY DEF ArtifactsInv, QueueInv
<1>1. ASSUME UNCHANGED <<written, index>>, shot' \in {shot, {}},
             \A d \in Callers : job[d].pc = "done" => job'[d] = job[d],
             \A d \in Callers : job'[d].told \subseteq DOMAIN written
      PROVE  OnDiskInv'
  BY <1>1, EntriesStay DEF OnDiskInv
<1>2. ASSUME NEW c \in Callers, Allocate(c) \/ Send(c) \/ TimeOut(c) PROVE OnDiskInv'
  <2>1. UNCHANGED <<written, shot, index>> /\ \A d \in Callers \ {c} : job'[d] = job[d]
    BY <1>2 DEF Allocate, Send, TimeOut
  <2>2. job[c].pc # "done"
    BY <1>2 DEF Allocate, Send, TimeOut
  <2>3. job'[c].told \in {job[c].told, {}}
    <3>1. CASE Allocate(c)
      BY <3>1 DEF Allocate
    <3>2. CASE Send(c) \/ TimeOut(c)
      BY <3>2 DEF Send, TimeOut, Fields
    <3> QED
      BY <1>2, <3>1, <3>2
  <2> QED
    BY <1>1, <2>1, <2>2, <2>3 DEF OnDiskInv
<1>3. ASSUME NEW c \in Callers, Register(c) PROVE OnDiskInv'
  <2>1. UNCHANGED <<written, shot>> /\ \A d \in Callers : job'[d].told = job[d].told
    BY <1>3 DEF Register, Fields
  <2> QED
    BY <1>3, <2>1, RegisterKeepsIndex DEF OnDiskInv
<1>4. CASE WriteFile
  <2>1. PICK path : /\ written' = [p \in DOMAIN written \cup {path} |->
                                     IF p = path THEN Head(queue) ELSE written[p]]
                    /\ shot' = shot \cup {path} /\ UNCHANGED <<job, index>>
    BY <1>4 DEF WriteFile
  <2>2. DOMAIN written' = DOMAIN written \cup {path}
    BY <2>1
  <2>3. IsFiniteSet(DOMAIN written')
    BY <2>2, FS_AddElement DEF OnDiskInv
  <2>4. index' \in Seq(Registered')
    BY <2>1, <2>2, EntriesStay
  <2> QED
    BY <2>1, <2>2, <2>3, <2>4 DEF OnDiskInv
<1>5. CASE Succeed \/ BreakOff
  <2>1. PICK c \in Callers, pc \in {"answered", "failed"}, names \in SUBSET shot : Finishes(c, pc, names)
    <3>1. Head(queue) \in Callers
      BY <1>5, HeadIsCaller DEF Succeed, BreakOff
    <3>2. CASE Succeed
      BY <3>1, <3>2 DEF Succeed, Produced, Outputs
    <3>3. CASE BreakOff
      BY <3>1, <3>3 DEF BreakOff
    <3> QED
      BY <1>5, <3>2, <3>3
  <2>2. job' = job \/ (job[c].pc = "waiting" /\ job' = [job EXCEPT ![c].pc = pc, ![c].told = names])
    BY <2>1 DEF Finishes
  <2>3. \A d \in Callers : \/ job'[d] = job[d]
                           \/ job[d].pc # "done" /\ job'[d].told = names
    BY <2>2 DEF Fields
  <2>4. shot' = {} /\ UNCHANGED <<written, index>>
    BY <2>1 DEF Finishes
  <2> QED
    BY <1>1, <2>3, <2>4 DEF OnDiskInv
<1>6. CASE StopServer
  <2>1. index' = <<>> /\ UNCHANGED <<written, shot>> /\ \A c \in Callers : job'[c].told = job[c].told
    BY <1>6 DEF StopServer, Fields
  <2> QED
    BY <2>1 DEF OnDiskInv
<1>7. CASE UNCHANGED artifacts
  BY <1>1, <1>7 DEF artifacts, OnDiskInv
<1> QED
  BY <1>2, <1>3, <1>4, <1>5, <1>6, <1>7 DEF ArtifactsNext

-----------------------------------------------------------------------------
(* Who writes over whom *)

\* What a call knew of the others when it was named is so for good: those sent before it
\* are ahead of it in the queue, or out of it; and those that had succeeded have an answer.
HistoryInv ==
  /\ \A c \in Callers : c \notin job[c].sent
  /\ \A c \in Callers : \A d \in job[c].sent : d \in Callers /\ job[d].pc \notin {"idle", "named"}
  /\ \A c \in Callers : \A d \in job[c].past :
       d \in Callers /\ job[d].pc \in {"answered", "done", "failed"}

OrderInv ==
  /\ \A j, k \in DOMAIN queue : queue[j] \in job[queue[k]].sent => j < k
  /\ \A c \in Callers, k \in DOMAIN queue :
       job[c].pc \in {"answered", "done"} => queue[k] \notin job[c].sent

\* What Blender has written for a call shows that call while the call is running.
ShotInv == \A path \in shot : path \in DOMAIN written /\ written[path] = Head(queue)

TakenInv ==
  \A c \in Callers : job[c].pc \in {"answered", "done"} =>
    \A path \in job[c].told : path \in DOMAIN written /\ written[path] \notin job[c].sent

\* A still is written where it was allocated, and no answer of its past names that.
StillInv ==
  \A c \in Callers : job[c].kind = "still" =>
    /\ WrittenBy(c) \subseteq {job[c].path}
    /\ \A d \in job[c].past : job[c].path \notin job[d].told

OverlapInv == HistoryInv /\ OrderInv /\ ShotInv /\ TakenInv /\ StillInv

LEMMA AllocateOverlap ==
  ASSUME ArtifactsInv, OnDiskInv, OverlapInv, NEW c \in Callers, Allocate(c)
  PROVE  OverlapInv'
<1> DOMAIN job = Callers /\ \A d \in Callers : Fields(job[d])
  BY DEF ArtifactsInv, QueueInv
<1>1. PICK kind \in {"still", "range", "export", "bundle"}, stem \in Stems :
        job' = [job EXCEPT ![c] =
          [ pc |-> "named", kind |-> kind, told |-> {}, past |-> Succeeded, sent |-> Sent,
            path |-> IF kind \in {"export", "bundle"} THEN ExportName ELSE FreeName(stem) ]]
  BY DEF Allocate
<1>2. /\ job[c].pc = "idle" /\ UNCHANGED <<written, queue, shot>>
      /\ \A d \in Callers \ {c} : job'[d] = job[d]
      /\ job'[c].pc = "named" /\ job'[c].past = Succeeded /\ job'[c].sent = Sent
      /\ job'[c].told = {} /\ job'[c].kind = kind
      /\ kind = "still" => job'[c].path = FreeName(stem)
  BY <1>1 DEF Allocate
<1>3. HistoryInv'
  BY <1>2 DEF OverlapInv, HistoryInv, Succeeded, Sent
<1>4. OrderInv' /\ ShotInv' /\ TakenInv'
  <2>1. \A k \in DOMAIN queue : queue[k] \in Callers /\ queue[k] # c
    BY <1>2 DEF ArtifactsInv, QueueInv
  <2> QED
    BY <1>2, <2>1 DEF OverlapInv, OrderInv, ShotInv, TakenInv
<1>5. StillInv'
  <2>1. kind = "still" => \A d \in Callers : job'[c].path \notin job[d].told
    BY <1>2, FreeNameIsFree DEF OnDiskInv, Exists
  <2>2. WrittenBy(c)' = {} /\ \A d \in Callers : WrittenBy(d)' = WrittenBy(d)
    BY <1>2 DEF ArtifactsInv, UnbegunInv, WrittenBy
  <2>3. ASSUME job'[c].kind = "still" PROVE \A d \in job'[c].past : job'[c].path \notin job'[d].told
    BY <1>2, <2>1, <2>3 DEF Succeeded
  <2>4. ASSUME NEW d \in Callers \ {c}, NEW e \in job[d].past PROVE job'[e].told = job[e].told
    BY <1>2 DEF OverlapInv, HistoryInv
  <2> QED
    BY <1>2, <2>2, <2>3, <2>4 DEF OverlapInv, StillInv
<1> QED
  BY <1>3, <1>4, <1>5 DEF OverlapInv

\* A step that gives a call no name of its own leaves what the call knew, and the answers.
LEMMA OthersKeepHistory ==
  ASSUME ArtifactsInv, OverlapInv, UNCHANGED written,
         \A d \in Callers : /\ job'[d].kind = job[d].kind /\ job'[d].path = job[d].path
                            /\ job'[d].past = job[d].past /\ job'[d].sent = job[d].sent
                            /\ job'[d].pc \in {"idle", "named"} => job[d].pc \in {"idle", "named"}
                            /\ job[d].pc \in {"answered", "done", "failed"} =>
                                 job'[d].pc \in {"answered", "done", "failed"} /\ job'[d].told = job[d].told
  PROVE  HistoryInv' /\ StillInv'
<1>1. HistoryInv'
  BY DEF OverlapInv, HistoryInv
<1>2. \A d \in Callers : WrittenBy(d)' = WrittenBy(d)
  BY DEF WrittenBy
<1>3. StillInv'
  BY <1>2 DEF OverlapInv, HistoryInv, StillInv
<1> QED
  BY <1>1, <1>3

LEMMA ServerOverlap ==
  ASSUME ArtifactsInv, OverlapInv,
         (\E c \in Callers : TimeOut(c) \/ Register(c)) \/ StopServer \/ UNCHANGED artifacts
  PROVE  OverlapInv'
<1> DOMAIN job = Callers /\ \A d \in Callers : Fields(job[d])
  BY DEF ArtifactsInv, QueueInv
<1>1. UNCHANGED <<written, queue, shot>>
  BY DEF TimeOut, Register, StopServer, artifacts
<1>2. ASSUME NEW d \in Callers
      PROVE  /\ job'[d].kind = job[d].kind /\ job'[d].path = job[d].path /\ job'[d].told = job[d].told
             /\ job'[d].past = job[d].past /\ job'[d].sent = job[d].sent
             /\ \/ job'[d].pc = job[d].pc
                \/ job[d].pc # "idle" /\ job[d].pc # "done" /\ job'[d].pc = "failed"
                \/ job[d].pc = "answered" /\ job'[d].pc = "done"
  <2>1. CASE \E c \in Callers : TimeOut(c) \/ Register(c)
    BY <2>1 DEF TimeOut, Register, Fields
  <2>2. CASE StopServer
    BY <2>2 DEF StopServer, Fields
  <2>3. CASE UNCHANGED artifacts
    BY <2>3 DEF artifacts
  <2> QED
    BY <2>1, <2>2, <2>3
<1>3. HistoryInv' /\ StillInv'
  BY <1>1, <1>2, OthersKeepHistory
<1>4. OrderInv' /\ ShotInv' /\ TakenInv'
  BY <1>1, <1>2 DEF OverlapInv, OrderInv, ShotInv, TakenInv, ArtifactsInv, QueueInv
<1> QED
  BY <1>3, <1>4 DEF OverlapInv

LEMMA SendOverlap ==
  ASSUME ArtifactsInv, OverlapInv, NEW c \in Callers, Send(c)
  PROVE  OverlapInv'
<1> DOMAIN job = Callers /\ \A d \in Callers : Fields(job[d])
  BY DEF ArtifactsInv, QueueInv
<1>1. UNCHANGED <<written, shot>> /\ queue' = Append(queue, c) /\ job[c].pc = "named"
      /\ queue \in Seq(Callers)
  BY DEF Send, ArtifactsInv, QueueInv
<1>2. ASSUME NEW d \in Callers
      PROVE  /\ job'[d].kind = job[d].kind /\ job'[d].path = job[d].path /\ job'[d].told = job[d].told
             /\ job'[d].past = job[d].past /\ job'[d].sent = job[d].sent
             /\ job'[d].pc = (IF d = c THEN "waiting" ELSE job[d].pc)
  BY DEF Send, Fields
<1>3. HistoryInv' /\ StillInv'
  BY <1>1, <1>2, OthersKeepHistory
<1>4. /\ DOMAIN queue = 1..Len(queue) /\ DOMAIN queue' = 1..(Len(queue) + 1)
      /\ queue'[Len(queue) + 1] = c /\ \A k \in DOMAIN queue : queue'[k] = queue[k] /\ queue[k] \in Callers
      /\ Len(queue) \in Nat
      /\ queue # <<>> => Head(queue') = Head(queue)
  BY <1>1
<1>5. \A d \in Callers : c \notin job[d].sent
  BY <1>1 DEF OverlapInv, HistoryInv
<1>6. OrderInv'
  <2>1. ASSUME NEW j \in DOMAIN queue', NEW k \in DOMAIN queue', queue'[j] \in job'[queue'[k]].sent
        PROVE  j < k
    <3>1. j # Len(queue) + 1
      BY <1>2, <1>4, <1>5, <2>1
    <3>2. CASE k = Len(queue) + 1
      BY <1>4, <3>1, <3>2
    <3>3. CASE k # Len(queue) + 1
      <4>1. j \in DOMAIN queue /\ k \in DOMAIN queue
        BY <1>4, <3>1, <3>3
      <4> QED
        BY <1>2, <1>4, <2>1, <4>1 DEF OverlapInv, OrderInv
    <3> QED
      BY <3>2, <3>3
  <2>2. ASSUME NEW d \in Callers, NEW k \in DOMAIN queue', job'[d].pc \in {"answered", "done"}
        PROVE  queue'[k] \notin job'[d].sent
    <3>1. k \in DOMAIN queue \/ queue'[k] = c
      BY <1>4
    <3> QED
      BY <1>2, <1>4, <1>5, <2>2, <3>1 DEF OverlapInv, OrderInv
  <2> QED
    BY <2>1, <2>2 DEF OrderInv
<1>7. ShotInv' /\ TakenInv'
  BY <1>1, <1>2, <1>4 DEF OverlapInv, ShotInv, TakenInv, ArtifactsInv, UnbegunInv
<1> QED
  BY <1>3, <1>6, <1>7 DEF OverlapInv

LEMMA WriteOverlap ==
  ASSUME ArtifactsInv, OverlapInv, WriteFile
  PROVE  OverlapInv'
<1> DEFINE h == Head(queue)
<1>1. PICK path \in Outputs(h) :
        /\ written' = [p \in DOMAIN written \cup {path} |-> IF p = path THEN h ELSE written[p]]
        /\ shot' = shot \cup {path}
        /\ queue # <<>> /\ UNCHANGED <<job, queue>>
  BY DEF WriteFile
<1>2. h \in Callers /\ 1 \in DOMAIN queue /\ h = queue[1]
  BY <1>1 DEF ArtifactsInv, QueueInv
<1>3. /\ DOMAIN written' = DOMAIN written \cup {path} /\ written'[path] = h
      /\ \A p \in DOMAIN written \ {path} : written'[p] = written[p]
  BY <1>1
<1>4. HistoryInv' /\ OrderInv'
  BY <1>1 DEF OverlapInv, HistoryInv, OrderInv
<1>5. ShotInv' /\ TakenInv'
  <2>1. ShotInv'
    BY <1>1, <1>3 DEF OverlapInv, ShotInv
  <2>2. ASSUME NEW c \in Callers, job[c].pc \in {"answered", "done"}, NEW p \in job[c].told
        PROVE  p \in DOMAIN written' /\ written'[p] \notin job[c].sent
    <3>1. p \in DOMAIN written /\ written[p] \notin job[c].sent
      BY <2>2 DEF OverlapInv, TakenInv
    <3>2. h \notin job[c].sent
      BY <1>2, <2>2 DEF OverlapInv, OrderInv
    <3> QED
      BY <1>3, <3>1, <3>2
  <2>3. TakenInv'
    BY <1>1, <2>2 DEF TakenInv
  <2> QED
    BY <2>1, <2>3
<1>6. job[h].kind = "still" => path = job[h].path
  BY <1>1 DEF Outputs
<1>7. StillInv'
  <2>1. ASSUME NEW c \in Callers, job[c].kind = "still" PROVE WrittenBy(c)' \subseteq {job[c].path}
    <3>1. WrittenBy(c) \subseteq {job[c].path}
      BY <2>1 DEF OverlapInv, StillInv
    <3>2. WrittenBy(c)' \subseteq WrittenBy(c) \cup (IF c = h THEN {path} ELSE {})
      BY <1>3 DEF WrittenBy
    <3> QED
      BY <1>6, <2>1, <3>1, <3>2
  <2>2. UNCHANGED job
    BY <1>1
  <2>3. \A c \in Callers : job[c].kind = "still" => \A d \in job[c].past : job[c].path \notin job[d].told
    BY DEF OverlapInv, StillInv
  <2> QED
    BY <2>1, <2>2, <2>3 DEF StillInv
<1> QED
  BY <1>4, <1>5, <1>7 DEF OverlapInv

LEMMA FinishOverlap ==
  ASSUME ArtifactsInv, OverlapInv, queue # <<>>, NEW pc \in {"answered", "failed"},
         NEW names \in SUBSET shot, Finishes(Head(queue), pc, names)
  PROVE  OverlapInv'
<1> DEFINE h == Head(queue)
<1> DOMAIN job = Callers /\ \A d \in Callers : Fields(job[d])
  BY DEF ArtifactsInv, QueueInv
<1>1. h \in Callers /\ 1 \in DOMAIN queue /\ h = queue[1] /\ queue \in Seq(Callers)
  BY DEF ArtifactsInv, QueueInv
<1>2. UNCHANGED written /\ queue' = Tail(queue) /\ shot' = {}
      /\ job' = (IF job[h].pc = "waiting" THEN [job EXCEPT ![h].pc = pc, ![h].told = names] ELSE job)
  BY DEF Finishes
<1>3. ASSUME NEW d \in Callers
      PROVE  /\ job'[d].kind = job[d].kind /\ job'[d].path = job[d].path
             /\ job'[d].past = job[d].past /\ job'[d].sent = job[d].sent
             /\ \/ job'[d].pc = job[d].pc /\ job'[d].told = job[d].told
                \/ /\ d = h /\ job[d].pc = "waiting"
                   /\ job'[d].pc \in {"answered", "failed"} /\ job'[d].told = names
  BY <1>1, <1>2 DEF Fields
<1>4. HistoryInv' /\ StillInv'
  BY <1>2, <1>3, OthersKeepHistory
<1>5. /\ DOMAIN queue = 1..Len(queue) /\ DOMAIN queue' = 1..(Len(queue) - 1)
      /\ \A k \in DOMAIN queue' : queue'[k] = queue[k + 1] /\ k + 1 \in DOMAIN queue /\ queue[k + 1] \in Callers
      /\ Len(queue) \in Nat \ {0}
  BY <1>1, <1>2
<1>6. \A k \in DOMAIN queue : queue[k] \notin job[h].sent
  BY <1>1, <1>5 DEF OverlapInv, OrderInv
<1>7. OrderInv'
  <2>1. ASSUME NEW j \in DOMAIN queue', NEW k \in DOMAIN queue', queue'[j] \in job'[queue'[k]].sent
        PROVE  j < k
    <3>1. queue[j + 1] \in job[queue[k + 1]].sent
      BY <1>3, <1>5, <2>1
    <3>2. j + 1 < k + 1
      BY <1>5, <3>1 DEF OverlapInv, OrderInv
    <3> QED
      BY <1>5, <3>2
  <2>2. ASSUME NEW d \in Callers, NEW k \in DOMAIN queue', job'[d].pc \in {"answered", "done"}
        PROVE  queue'[k] \notin job'[d].sent
    BY <1>3, <1>5, <1>6, <2>2 DEF OverlapInv, OrderInv
  <2> QED
    BY <2>1, <2>2 DEF OrderInv
<1>8. TakenInv'
  BY <1>1, <1>2, <1>3 DEF OverlapInv, TakenInv, ShotInv, HistoryInv
<1> QED
  BY <1>2, <1>4, <1>7, <1>8 DEF OverlapInv, ShotInv

LEMMA OverlapStep ==
  ASSUME ArtifactsInv, OnDiskInv, OverlapInv, [ArtifactsNext]_artifacts
  PROVE  OverlapInv'
<1>1. CASE Succeed
  <2>1. Produced(Head(queue)) \subseteq shot
    BY <1>1 DEF Succeed, Produced, Outputs
  <2> QED
    BY <1>1, <2>1, FinishOverlap DEF Succeed
<1>2. CASE BreakOff
  BY <1>2, FinishOverlap DEF BreakOff
<1> QED
  BY <1>1, <1>2, AllocateOverlap, ServerOverlap, SendOverlap, WriteOverlap DEF ArtifactsNext

(* What an artifact in the index shows is what its own call made, or a call under way at  *)
(* the same time: whatever was sent before the call was named has had its turn before, and *)
(* a still that is named after the call succeeded has another path.  For any number of     *)
(* calls, frames and names and an index of any size, across time-outs and restarts.        *)
THEOREM OnlyOverlapIsOverwritten == ArtifactsSpec => []OnlyOverlappingCallsOverwrite
<1>1. ArtifactsInit => OnDiskInv /\ OverlapInv
  <2> SUFFICES ASSUME ArtifactsInit PROVE OnDiskInv /\ OverlapInv
    OBVIOUS
  <2>1. DOMAIN written = {} /\ index = <<>> /\ shot = {} /\ queue = <<>>
        /\ \A c \in Callers : /\ job[c].told = {} /\ job[c].past = {} /\ job[c].sent = {}
                              /\ job[c].pc = "idle"
    BY DEF ArtifactsInit, Unused
  <2>2. OnDiskInv
    BY <2>1, FS_EmptySet DEF OnDiskInv
  <2>3. OverlapInv
    BY <2>1 DEF OverlapInv, HistoryInv, OrderInv, ShotInv, TakenInv, StillInv, WrittenBy
  <2> QED
    BY <2>2, <2>3
<1>2. ArtifactsInv /\ OnDiskInv /\ OverlapInv => OnlyOverlappingCallsOverwrite
  <2> SUFFICES ASSUME ArtifactsInv, OnDiskInv, OverlapInv, NEW k \in DOMAIN index
               PROVE  LET c == index[k].of  by == written[index[k].path]
                      IN  /\ by \notin job[c].sent
                          /\ c \in job[by].past => job[by].kind # "still"
    BY DEF OnlyOverlappingCallsOverwrite
  <2> DEFINE c == index[k].of
             path == index[k].path
             by == written[path]
  <2>1. c \in Callers /\ path \in DOMAIN written /\ job[c].pc = "done" /\ path \in job[c].told
    <3> DEFINE E == Registered
    <3> HIDE DEF E
    <3>1. index \in Seq(E)
      BY DEF OnDiskInv, E
    <3>2. index[k] \in E
      BY <3>1, LenProperties, ElementOfSeq
    <3> QED
      BY <3>2 DEF E, Registered
  <2>2. by \in Callers
    BY <2>1 DEF ArtifactsInv, QueueInv
  <2>3. by \notin job[c].sent
    BY <2>1 DEF OverlapInv, TakenInv
  <2>4. c \in job[by].past => job[by].kind # "still"
    BY <2>1, <2>2 DEF OverlapInv, StillInv, WrittenBy
  <2> QED
    BY <2>3, <2>4
<1> QED
  BY <1>1, <1>2, ArtifactsStart, ArtifactsStep, OnDiskStep, OverlapStep, PTL DEF ArtifactsSpec

USE DEF Idle, Runs, Ends, Answers, Fails, Mishap, files

-----------------------------------------------------------------------------
(* Downloads: the invariant *)

IsWriting(c) == call[c].pc = "writing"

TypeInv ==
  /\ call \in [Calls -> Call] /\ DOMAIN data = Inodes
  /\ part \in [Files -> Inodes \cup {None}] /\ dest \in [Files -> Inodes \cup {None}]
  /\ manifest.entries \in Entries \cup {None, Broken} /\ manifest.by \in Calls \cup {None}
  /\ upstream \in 1..Versions

\* A name is of an inode made for it, and a file has its two names for two inodes.
NamesInv ==
  \A f \in Files :
    /\ part[f] # None => part[f][2] = f /\ part[f] # dest[f]
    /\ dest[f] # None => dest[f][2] = f

\* A call that writes has a file of its plan open, and writes a version there is.
OpenInv ==
  \A c \in Calls : IsWriting(c) =>
    call[c].inode \in Inodes /\ File(c) \in call[c].todo /\ call[c].version \in 1..Versions

\* An inode is in use.
Used(i) == \/ \E d \in Calls : call[d].inode = i
           \/ \E f \in Files : part[f] = i \/ dest[f] = i

\* A call has used no inode of its own for a file that it has yet to fetch.
Ahead(c, f) == \/ call[c].pc \in {"idle", "checking"}
               \/ call[c].pc \in {"fetching", "writing"}
                  /\ f \in call[c].todo /\ ~IsOpen(f, c)
FreshInv == \A c \in Calls, f \in Files : Ahead(c, f) => ~Used(<<c, f>>)

\* Who writes alone has the temporary name, and has written what is there.  Of two who
\* have the same file open, neither does.  While a file is open, what has its temporary
\* name is shared, or what everybody writes in.
AloneInv == \A c \in Calls : IsWriting(c) /\ call[c].inode \notin mixed =>
  part[File(c)] = call[c].inode /\ data[call[c].inode] = [k \in 1..call[c].at |-> call[c].version]
SharedInv == \A c, d \in Calls : c # d /\ IsWriting(c) /\ IsWriting(d) /\ File(c) = File(d)
                                 => call[c].inode \in mixed
PartInv == \A c \in Calls : IsWriting(c) /\ part[File(c)] # None
                            => part[File(c)] = call[c].inode \/ part[File(c)] \in mixed

DownloadsInv == TypeInv /\ NamesInv /\ OpenInv /\ FreshInv /\ AloneInv /\ SharedInv /\ PartInv
        /\ WholeUnlessShared

-----------------------------------------------------------------------------
(* Types *)

LEMMA InodeFacts ==
  /\ None \notin Inodes
  /\ \A i \in Inodes : i[2] \in Files
  /\ \A c \in Calls, f \in Files :
       <<c, f>> \in Inodes /\ <<c, f>>[1] = c /\ <<c, f>>[2] = f
BY DownloadAssumption DEF Inodes

LEMMA Zeros == 0 \in 0..Chunks /\ 0 \in 0..Versions
BY DownloadAssumption

LEMMA EmptyEntries == <<>> \in Entries
<1>1. <<>> \in [{} -> 1..Versions]
  OBVIOUS
<1> QED
  BY <1>1 DEF Entries

LEMMA IdleIsACall == ASSUME NEW pc \in {"idle", "answered", "failed"}
                     PROVE  [Idle EXCEPT !.pc = pc] \in Call
BY EmptyEntries, DownloadAssumption DEF Call

LEMMA EntriesFacts ==
  ASSUME NEW got \in Entries
  PROVE  DOMAIN got \subseteq Files /\ \A f \in DOMAIN got : got[f] \in 1..Versions
BY DEF Entries

LEMMA EntriesGrow ==
  ASSUME NEW got \in Entries, NEW f \in Files, NEW v \in 1..Versions
  PROVE  [g \in DOMAIN got \cup {f} |-> IF g = f THEN v ELSE got[g]] \in Entries
<1>1. PICK S \in SUBSET Files : got \in [S -> 1..Versions]
  BY DEF Entries
<1>2. [g \in DOMAIN got \cup {f} |-> IF g = f THEN v ELSE got[g]] \in [S \cup {f} -> 1..Versions]
  BY <1>1
<1> QED
  BY <1>2, S \cup {f} \in SUBSET Files DEF Entries

LEMMA CallOpens ==
  ASSUME NEW k \in Call, NEW i \in Inodes, NEW n \in 0..Chunks, NEW v \in 0..Versions
  PROVE  [k EXCEPT !.pc = "writing", !.inode = i, !.at = n, !.version = v] \in Call
BY DEF Call

LEMMA CallMoves ==
  ASSUME NEW k \in Call, NEW n \in 0..Chunks, NEW v \in 0..Versions,
         NEW todo \in SUBSET Files, NEW got \in Entries
  PROVE  [k EXCEPT !.pc = "fetching", !.inode = None, !.at = n, !.version = v,
                   !.todo = todo, !.got = got] \in Call
BY DEF Call

LEMMA ReclaimKeeps ==
  ASSUME TypeInv, Reclaim
  PROVE  /\ DOMAIN data' = Inodes
         /\ \A i \in Inodes : Used(i)' => data'[i] = data[i] /\ (i \in mixed' <=> i \in mixed)
BY DEF Reclaim, Used

LEMMA TypeStep ==
  ASSUME TypeInv, OpenInv, [DownloadsNext]_downloads
  PROVE  TypeInv'
<1>1. CASE UNCHANGED downloads
  BY <1>1 DEF downloads, TypeInv
<1>2. ASSUME NEW c \in Calls, Plan(c) PROVE TypeInv'
  <2>1. Idle \in Call
    BY EmptyEntries, DownloadAssumption DEF Call
  <2>2. PICK asks \in Plans, force \in BOOLEAN :
          call' = [call EXCEPT ![c] =
            IF force \/ manifest.entries \in {None, Broken, <<>>}
            THEN [[Idle EXCEPT !.asks = asks] EXCEPT !.pc = "fetching", !.todo = asks]
            ELSE [[Idle EXCEPT !.asks = asks] EXCEPT
                    !.pc = "checking", !.todo = DOMAIN manifest.entries,
                    !.got = manifest.entries, !.from = manifest.by]]
    BY <1>2 DEF Plan
  <2>3. asks \in SUBSET Files
    BY DownloadAssumption
  <2>4. [[Idle EXCEPT !.asks = asks] EXCEPT !.pc = "fetching", !.todo = asks] \in Call
    BY <2>1, <2>3 DEF Call
  <2>5. ASSUME manifest.entries \notin {None, Broken, <<>>}
        PROVE  [[Idle EXCEPT !.asks = asks] EXCEPT
                 !.pc = "checking", !.todo = DOMAIN manifest.entries,
                 !.got = manifest.entries, !.from = manifest.by] \in Call
    <3>1. manifest.entries \in Entries /\ DOMAIN manifest.entries \subseteq Files
      BY <2>5, EntriesFacts DEF TypeInv
    <3> QED
      BY <2>1, <2>3, <3>1 DEF Call, TypeInv
  <2>6. call' \in [Calls -> Call]
    BY <2>2, <2>4, <2>5 DEF TypeInv
  <2> QED
    BY <1>2, <2>6 DEF Plan, TypeInv
<1>3. ASSUME NEW c \in Calls, NEW f \in Files, CheckFile(c, f) PROVE TypeInv'
  <2>1. call[c] \in Call
    BY DEF TypeInv
  <2>2. [call[c] EXCEPT !.pc = "fetching", !.todo = call[c].asks, !.got = <<>>, !.from = None] \in Call
    BY <2>1, EmptyEntries DEF Call
  <2>3. [call[c] EXCEPT !.todo = call[c].todo \ {f}] \in Call
    BY <2>1 DEF Call
  <2>4. call' \in [Calls -> Call]
    BY <1>3, <2>2, <2>3, IdleIsACall DEF CheckFile, TypeInv
  <2> QED
    BY <1>3, <2>4 DEF CheckFile, TypeInv
<1>4. ASSUME NEW c \in Calls, NEW f \in Files, Open(c, f) PROVE TypeInv'
  <2>1. part' \in [Files -> Inodes \cup {None}]
    BY <1>4, InodeFacts DEF Open, TypeInv
  <2> DEFINE i == IF part[f] = None THEN <<c, f>> ELSE part[f]
  <2>2. i \in Inodes /\ call[c] \in Call /\ upstream \in 0..Versions
    BY InodeFacts, DownloadAssumption DEF TypeInv
  <2> HIDE DEF i
  <2>3. [call[c] EXCEPT !.pc = "writing", !.inode = i, !.at = 0, !.version = upstream] \in Call
    BY <2>2, CallOpens, Zeros
  <2>4. call' \in [Calls -> Call]
    BY <1>4, <2>3 DEF Open, TypeInv, i
  <2> QED
    BY <1>4, <2>1, <2>4 DEF Open, TypeInv
<1>5. ASSUME NEW c \in Calls, WriteChunk(c) PROVE TypeInv'
  <2>1. call' \in [Calls -> Call]
    BY <1>5, DownloadAssumption DEF WriteChunk, TypeInv, Call
  <2> QED
    BY <1>5, <2>1 DEF WriteChunk, TypeInv
<1>6. ASSUME NEW c \in Calls, Break(c) PROVE TypeInv'
  <2>1. call' \in [Calls -> Call]
    BY <1>6, IdleIsACall DEF Break, TypeInv
  <2> QED
    BY <1>6, <2>1, ReclaimKeeps DEF Break, TypeInv
<1>7. ASSUME NEW c \in Calls, MoveIntoPlace(c) PROVE TypeInv'
  <2>1. File(c) \in Files /\ call[c] \in Call /\ IsWriting(c)
    BY <1>7, InodeFacts DEF MoveIntoPlace, TypeInv, OpenInv, IsWriting, File
  <2>2. call[c].version \in 1..Versions /\ call[c].got \in Entries
    BY <2>1 DEF OpenInv, Call
  <2> DEFINE got == [g \in DOMAIN call[c].got \cup {File(c)} |->
                        IF g = File(c) THEN call[c].version ELSE call[c].got[g]]
  <2>3. got \in Entries
    BY <2>1, <2>2, EntriesGrow
  <2> HIDE DEF got
  <2>4. [call[c] EXCEPT !.pc = "fetching", !.inode = None, !.at = 0, !.version = 0,
                        !.todo = call[c].todo \ {File(c)}, !.got = got] \in Call
    BY <2>1, <2>3, CallMoves, Zeros DEF Call
  <2>5. call' \in [Calls -> Call]
    BY <1>7, <2>4, IdleIsACall DEF MoveIntoPlace, TypeInv, got
  <2>6. part' \in [Files -> Inodes \cup {None}] /\ dest' \in [Files -> Inodes \cup {None}]
    BY <1>7, <2>1 DEF MoveIntoPlace, TypeInv
  <2> QED
    BY <1>7, <2>5, <2>6, ReclaimKeeps DEF MoveIntoPlace, TypeInv
<1>8. ASSUME NEW c \in Calls, Refused(c) PROVE TypeInv'
  <2>1. call' \in [Calls -> Call]
    BY <1>8, IdleIsACall DEF Refused, TypeInv
  <2> QED
    BY <1>8, <2>1, ReclaimKeeps DEF Refused, TypeInv
<1>9. ASSUME NEW c \in Calls, CreateManifest(c) PROVE TypeInv'
  <2>1. [call[c] EXCEPT !.pc = "recording"] \in Call
    BY DEF TypeInv, Call
  <2>2. call' \in [Calls -> Call]
    BY <1>9, <2>1, IdleIsACall DEF CreateManifest, TypeInv
  <2> QED
    BY <1>9, <2>2 DEF CreateManifest, TypeInv
<1>10. ASSUME NEW c \in Calls, WriteManifest(c) PROVE TypeInv'
  <2>1. call' \in [Calls -> Call] /\ call[c].got \in Entries
    BY <1>10, IdleIsACall DEF WriteManifest, TypeInv, Call
  <2> QED
    BY <1>10, <2>1 DEF WriteManifest, TypeInv
<1>11. CASE Publish
  BY <1>11, DownloadAssumption DEF Publish, TypeInv
<1>12. ASSUME NEW f \in Files, Delete(f) PROVE TypeInv'
  BY <1>12, ReclaimKeeps DEF Delete, TypeInv
<1>13. CASE RestartServer
  <2>1. call' \in [Calls -> Call]
    BY <1>13, IdleIsACall DEF RestartServer, TypeInv
  <2> QED
    BY <1>13, <2>1, ReclaimKeeps DEF RestartServer, TypeInv
<1> QED
  BY <1>1, <1>2, <1>3, <1>4, <1>5, <1>6, <1>7, <1>8, <1>9, <1>10, <1>11, <1>12, <1>13
     DEF DownloadsNext

-----------------------------------------------------------------------------
(* A calm step opens and writes nothing *)

Whole(i) == \E v \in 1..Versions : IsVersion(data[i], v)

\* The file gets the inode that had its temporary name, which is whole or shared.
Moved(f) == part[f] # None /\ dest'[f] = part[f] /\ part'[f] = None
            /\ (part[f] \notin mixed => Whole(part[f]))

Calm ==
  /\ \A c \in Calls : IsWriting(c)' => IsWriting(c) /\ call'[c] = call[c]
  /\ \A c \in Calls : call'[c].inode \in {call[c].inode, None}
  /\ \A c \in Calls, f \in Files : Ahead(c, f)' => Ahead(c, f)
  /\ \A i \in Inodes : Used(i)' => data'[i] = data[i] /\ (i \in mixed' <=> i \in mixed)
  /\ \A f \in Files : part'[f] \in {part[f], None} /\ (dest'[f] \in {dest[f], None} \/ Moved(f))
  /\ \A c \in Calls : IsWriting(c)' /\ call[c].inode \notin mixed => part'[File(c)] = part[File(c)]

LEMMA CalmKeeps ==
  ASSUME DownloadsInv, TypeInv', Calm
  PROVE  DownloadsInv'
<1> USE DEF DownloadsInv
<1>1. \A i \in Inodes : Used(i)' => Used(i)
  BY InodeFacts DEF Calm, Used, Moved
<1>2. NamesInv'
  BY <1>1 DEF Calm, NamesInv, Moved, TypeInv
<1>3. OpenInv'
  BY DEF Calm, OpenInv, File
<1>4. FreshInv'
  BY <1>1, InodeFacts DEF Calm, FreshInv
<1>5. ASSUME NEW c \in Calls, IsWriting(c)'
      PROVE  /\ IsWriting(c) /\ call'[c] = call[c] /\ File(c)' = File(c)
             /\ call[c].inode \in Inodes /\ File(c) \in Files
             /\ data'[call[c].inode] = data[call[c].inode]
             /\ call[c].inode \in mixed' <=> call[c].inode \in mixed
  <2>1. IsWriting(c) /\ call'[c] = call[c]
    BY <1>5 DEF Calm
  <2>2. call[c].inode \in Inodes
    BY <2>1 DEF OpenInv
  <2>3. \A i \in Inodes : i = call'[c].inode => Used(i)'
    BY DEF Used
  <2> QED
    BY <2>1, <2>2, <2>3, InodeFacts DEF Calm, File
<1>6. AloneInv'
  BY <1>5 DEF Calm, AloneInv
<1>7. SharedInv'
  BY <1>5 DEF SharedInv
<1>8. ASSUME NEW f \in Files, part'[f] # None
      PROVE  part'[f] = part[f] /\ (part[f] \in mixed' <=> part[f] \in mixed)
  <2>1. part'[f] = part[f] /\ part[f] \in Inodes
    BY <1>8 DEF Calm, TypeInv
  <2>2. \A i \in Inodes : i = part'[f] => Used(i)'
    BY DEF Used
  <2> QED
    BY <2>1, <2>2 DEF Calm
<1>9. PartInv'
  BY <1>5, <1>8 DEF PartInv
<1>10. ASSUME NEW f \in Files, dest'[f] # None, dest'[f] \notin mixed'
       PROVE  \E v \in 1..Versions : IsVersion(Content(f)', v)
  <2>1. dest'[f] \in Inodes /\ \A i \in Inodes : i = dest'[f] => Used(i)'
    BY <1>10 DEF TypeInv, Used
  <2>2. data'[dest'[f]] = data[dest'[f]] /\ dest'[f] \notin mixed
    BY <2>1, <1>10 DEF Calm
  <2>3. Content(f)' = data[dest'[f]]
    BY <1>10, <2>2 DEF Content
  <2>4. CASE dest'[f] = dest[f]
    BY <2>2, <2>3, <2>4, <1>10 DEF WholeUnlessShared, Content
  <2>5. CASE Moved(f)
    BY <2>2, <2>3, <2>5 DEF Moved, Whole
  <2> QED
    BY <1>10, <2>4, <2>5 DEF Calm
<1>11. WholeUnlessShared'
  BY <1>10 DEF WholeUnlessShared
<1> QED
  BY <1>2, <1>3, <1>4, <1>6, <1>7, <1>9, <1>11

\* A look at a file leads to an answer, to the next file or to the fetching of all.
Checks(c) == \E f \in Files : CheckFile(c, f)

LEMMA ChecksGoOn ==
  ASSUME TypeInv, NEW c \in Calls, Checks(c)
  PROVE  /\ call[c].pc = "checking"
         /\ call'[c].inode \in {call[c].inode, None}
         /\ \/ call'[c].pc = "answered"
            \/ /\ call'[c].pc = "checking" /\ call'[c].todo \subseteq call[c].todo
               /\ call'[c].got = call[c].got /\ call'[c].from = call[c].from
            \/ call'[c].pc = "fetching" /\ call'[c].got = <<>>
<1> call[c] \in Call /\ DOMAIN call = Calls
  BY DEF TypeInv
<1>1. PICK f \in Files : CheckFile(c, f)
  BY DEF Checks
<1>2. \/ call'[c] = [Idle EXCEPT !.pc = "answered"]
      \/ call'[c] = [call[c] EXCEPT !.todo = call[c].todo \ {f}]
      \/ call'[c] = [call[c] EXCEPT !.pc = "fetching", !.todo = call[c].asks, !.got = <<>>, !.from = None]
  BY <1>1 DEF CheckFile
<1> QED
  BY <1>1, <1>2 DEF CheckFile, Call

\* The steps that leave the files alone, and those that end calls.
LEMMA QuietSteps ==
  ASSUME DownloadsInv, TypeInv', UNCHANGED files,
         \/ UNCHANGED call
         \/ \E c \in Calls : Plan(c) \/ Checks(c) \/ CreateManifest(c) \/ WriteManifest(c)
  PROVE  Calm
<1>1. CASE UNCHANGED call
  BY <1>1 DEF Calm, IsWriting, Ahead, IsOpen, File
<1>2. ASSUME NEW c \in Calls, Plan(c) \/ Checks(c) \/ CreateManifest(c) \/ WriteManifest(c)
      PROVE  Calm
  <2>1. \A d \in Calls \ {c} : call'[d] = call[d]
    <3> DOMAIN call = Calls
      BY DEF DownloadsInv, TypeInv
    <3>1. CASE Plan(c)
      BY <3>1 DEF Plan
    <3>2. CASE Checks(c)
      BY <3>2 DEF Checks, CheckFile
    <3>3. CASE CreateManifest(c) \/ WriteManifest(c)
      BY <3>3 DEF CreateManifest, WriteManifest
    <3> QED
      BY <1>2, <3>1, <3>2, <3>3
  <2>2. /\ ~IsWriting(c) /\ call'[c].pc # "writing" /\ call'[c].inode \in {call[c].inode, None}
        /\ \A f \in Files : Ahead(c, f)' => Ahead(c, f)
    <3> call[c] \in Call /\ DOMAIN call = Calls
      BY DEF DownloadsInv, TypeInv
    <3>1. CASE Plan(c)
      <4>1. call[c].pc = "idle" /\ call'[c].pc \in {"checking", "fetching"} /\ call'[c].inode = None
        <5>1. PICK asks \in Plans, force \in BOOLEAN :
                call' = [call EXCEPT ![c] =
                  IF force \/ manifest.entries \in {None, Broken, <<>>}
                  THEN [[Idle EXCEPT !.asks = asks] EXCEPT !.pc = "fetching", !.todo = asks]
                  ELSE [[Idle EXCEPT !.asks = asks] EXCEPT
                          !.pc = "checking", !.todo = DOMAIN manifest.entries,
                          !.got = manifest.entries, !.from = manifest.by]]
          BY <3>1, Zenon DEF Plan
        <5>2. call'[c].pc \in {"checking", "fetching"} /\ call'[c].inode = None
          BY <5>1
        <5> QED
          BY <3>1, <5>2 DEF Plan
      <4> QED
        BY <4>1 DEF IsWriting, Ahead
    <3>2. CASE Checks(c)
      <4>1. /\ call[c].pc = "checking" /\ call'[c].pc \in {"answered", "fetching", "checking"}
            /\ call'[c].inode \in {call[c].inode, None}
        BY <3>2, ChecksGoOn DEF DownloadsInv
      <4> QED
        BY <4>1 DEF IsWriting, Ahead
    <3>3. CASE CreateManifest(c)
      <4>1. /\ call[c].pc = "fetching" /\ call'[c].pc \in {"answered", "recording"}
            /\ call'[c].inode \in {call[c].inode, None}
        BY <3>3 DEF CreateManifest, Call
      <4> QED
        BY <4>1 DEF IsWriting, Ahead
    <3>4. CASE WriteManifest(c)
      <4>1. call[c].pc = "recording" /\ call'[c].pc = "answered" /\ call'[c].inode = None
        BY <3>4 DEF WriteManifest
      <4> QED
        BY <4>1 DEF IsWriting, Ahead
    <3> QED
      BY <1>2, <3>1, <3>2, <3>3, <3>4
  <2>3. \A d \in Calls, f \in Files : Ahead(d, f)' => Ahead(d, f)
    BY <2>1, <2>2 DEF Ahead, IsOpen, File
  <2> QED
    BY <2>1, <2>2, <2>3 DEF Calm, IsWriting, File
<1> QED
  BY <1>1, <1>2

\* What is over is failed or answered.
LEMMA EndingSteps ==
  ASSUME DownloadsInv, TypeInv', Reclaim, UNCHANGED dest,
         NEW S \in SUBSET Calls,
         \A c \in S : call'[c] = [Idle EXCEPT !.pc = "failed"],
         \A c \in Calls \ S : call'[c] = call[c],
         \/ UNCHANGED part
         \/ \E c \in S : IsWriting(c) /\ part' = [part EXCEPT ![File(c)] = None]
  PROVE  Calm
<1>1. \A c \in S : call'[c].pc = "failed" /\ call'[c].inode = None
  OBVIOUS
<1>2. \A c \in Calls : IsWriting(c)' => IsWriting(c) /\ call'[c] = call[c] /\ c \notin S
  BY <1>1 DEF IsWriting
<1>3. \A c \in Calls, f \in Files : Ahead(c, f)' => Ahead(c, f)
  BY <1>1 DEF Ahead, IsOpen, File
<1>4. \A f \in Files : part'[f] \in {part[f], None} /\ dest'[f] = dest[f]
  BY DEF DownloadsInv, TypeInv
<1>5. ASSUME NEW c \in Calls, IsWriting(c)', call[c].inode \notin mixed
      PROVE  part'[File(c)] = part[File(c)]
  BY <1>2, <1>5, InodeFacts DEF DownloadsInv, TypeInv, SharedInv, OpenInv, File
<1> QED
  BY <1>1, <1>2, <1>3, <1>4, <1>5, ReclaimKeeps DEF Calm, DownloadsInv

LEMMA DeleteIsCalm ==
  ASSUME DownloadsInv, TypeInv', NEW f \in Files, Delete(f)
  PROVE  Calm
BY ReclaimKeeps DEF Calm, Delete, DownloadsInv, TypeInv, IsWriting, Ahead, IsOpen, File

LEMMA MoveIsCalm ==
  ASSUME DownloadsInv, TypeInv', NEW c \in Calls, MoveIntoPlace(c), part[File(c)] # None
  PROVE  Calm
<1> DEFINE f == File(c)
<1>1. /\ IsWriting(c) /\ f \in Files /\ f \in call[c].todo /\ call[c] \in Call
      /\ call[c].version \in 1..Versions
  BY InodeFacts DEF MoveIntoPlace, IsWriting, DownloadsInv, TypeInv, OpenInv, File
<1>2. /\ dest' = [dest EXCEPT ![f] = part[f]] /\ part' = [part EXCEPT ![f] = None]
      /\ \A d \in Calls \ {c} : call'[d] = call[d]
      /\ call'[c].pc = "fetching" /\ call'[c].inode = None /\ call'[c].todo = call[c].todo \ {f}
  BY <1>1 DEF MoveIntoPlace, DownloadsInv, TypeInv, Call
<1>3. Moved(f)
  <2>1. ASSUME part[f] \notin mixed PROVE Whole(part[f])
    <3>1. call[c].inode = part[f]
      BY <1>1, <2>1 DEF DownloadsInv, PartInv
    <3>2. data[part[f]] = [k \in 1..Chunks |-> call[c].version]
      BY <1>1, <2>1, <3>1 DEF DownloadsInv, AloneInv, MoveIntoPlace, IsComplete
    <3> QED
      BY <1>1, <3>2 DEF Whole, IsVersion
  <2> QED
    BY <1>1, <1>2, <2>1 DEF Moved, DownloadsInv, TypeInv
<1>4. \A g \in Files : part'[g] \in {part[g], None} /\ (dest'[g] = dest[g] \/ Moved(g))
  BY <1>2, <1>3 DEF DownloadsInv, TypeInv
<1>5. \A d \in Calls, g \in Files : Ahead(d, g)' => Ahead(d, g)
  BY <1>1, <1>2 DEF Ahead, IsOpen, IsWriting, File
<1>6. ASSUME NEW d \in Calls, IsWriting(d)', call[d].inode \notin mixed
      PROVE  part'[File(d)] = part[File(d)]
  <2>1. d # c /\ IsWriting(d) /\ File(d) \in Files
    BY <1>2, <1>6, InodeFacts DEF IsWriting, DownloadsInv, OpenInv, File
  <2>2. File(d) # f
    BY <1>1, <1>6, <2>1 DEF DownloadsInv, SharedInv
  <2> QED
    BY <1>2, <2>1, <2>2 DEF DownloadsInv, TypeInv
<1> QED
  BY <1>2, <1>4, <1>5, <1>6, ReclaimKeeps DEF Calm, DownloadsInv, MoveIntoPlace, IsWriting

-----------------------------------------------------------------------------
(* Opening and writing *)

LEMMA OpenKeeps ==
  ASSUME DownloadsInv, TypeInv', NEW c \in Calls, NEW f \in Files, Open(c, f)
  PROVE  DownloadsInv'
<1> DEFINE i == IF part[f] = None THEN <<c, f>> ELSE part[f]
<1> USE DEF DownloadsInv
<1>1. /\ i \in Inodes /\ i[2] = f /\ i # dest[f] /\ i # None
      /\ ~IsWriting(c) /\ Ahead(c, f)
  <2>1. ~IsWriting(c) /\ Ahead(c, f)
    BY DEF Open, IsWriting, Ahead, IsOpen, IsNext
  <2>2. CASE part[f] = None
    <3>1. ~Used(<<c, f>>)
      BY <2>1 DEF FreshInv
    <3> QED
      BY <2>1, <2>2, <3>1, InodeFacts DEF Used
  <2>3. CASE part[f] # None
    BY <2>1, <2>3, InodeFacts DEF TypeInv, NamesInv
  <2> QED
    BY <2>1, <2>2, <2>3
<1>2. \A j \in Inodes : Used(j)' => Used(j) \/ j = <<c, f>>
  BY <1>1, InodeFacts DEF Open, TypeInv, Used, Call
<1>3. /\ call'[c].pc = "writing" /\ call'[c].inode = i /\ call'[c].at = 0
      /\ call'[c].version = upstream /\ call'[c].todo = call[c].todo
      /\ \A d \in Calls \ {c} : call'[d] = call[d]
  BY DEF Open, TypeInv, Call
<1>4. /\ part' = [part EXCEPT ![f] = i] /\ dest' = dest
      /\ data' = [data EXCEPT ![i] = <<>>]
      /\ \A j \in Inodes \ {i} : j \in mixed' <=> j \in mixed
      /\ (\E d \in Calls : IsOpen(f, d)) => i \in mixed'
  BY DEF Open
<1> HIDE DEF i
<1>5. NamesInv'
  BY <1>1, <1>4 DEF NamesInv, TypeInv
<1>6. OpenInv'
  BY <1>1, <1>3 DEF OpenInv, IsWriting, File, Open, IsNext, TypeInv
<1>7. FreshInv'
  <2>1. \A d \in Calls, g \in Files : Ahead(d, g)' => Ahead(d, g) /\ ~(d = c /\ g = f)
    BY <1>1, <1>3 DEF Ahead, IsOpen, File, Open
  <2> QED
    BY <1>2, <2>1, InodeFacts DEF FreshInv
<1>8. ASSUME NEW d \in Calls, d # c, IsWriting(d)', File(d)' = f
      PROVE  IsWriting(d) /\ call[d].inode \in mixed' /\ i \in mixed'
  <2>1. IsWriting(d) /\ File(d) = f /\ IsOpen(f, d) /\ call[d].inode \in Inodes
    BY <1>3, <1>8 DEF IsWriting, File, IsOpen, OpenInv
  <2>2. i \in mixed'
    BY <1>4, <2>1
  <2>3. call[d].inode \notin mixed => call[d].inode = i
    BY <1>1, <2>1, InodeFacts DEF AloneInv, i
  <2> QED
    BY <1>4, <2>1, <2>2, <2>3
<1>9. ASSUME NEW d \in Calls, IsWriting(d)', File(d)' # f
      PROVE  /\ d # c /\ IsWriting(d) /\ call'[d] = call[d] /\ File(d)' = File(d)
             /\ File(d) \in Files /\ call[d].inode \in Inodes \ {i}
             /\ part'[File(d)] = part[File(d)] /\ data'[call[d].inode] = data[call[d].inode]
             /\ call[d].inode \in mixed' <=> call[d].inode \in mixed
  <2>1. d # c /\ IsWriting(d) /\ call'[d] = call[d] /\ File(d)' = File(d)
    BY <1>1, <1>3, <1>9 DEF IsWriting, File
  <2>2. call[d].inode \in Inodes \ {i} /\ File(d) \in Files
    BY <1>1, <1>9, <2>1, InodeFacts DEF OpenInv, File
  <2> QED
    BY <1>4, <1>9, <2>1, <2>2 DEF TypeInv
<1>10. File(c)' = f /\ IsWriting(c)'
  BY <1>1, <1>3 DEF File, IsWriting
<1>11. AloneInv'
  <2>1. ASSUME NEW d \in Calls, IsWriting(d)', call'[d].inode \notin mixed'
        PROVE  /\ part'[File(d)'] = call'[d].inode
               /\ data'[call'[d].inode] = [k \in 1..call'[d].at |-> call'[d].version]
    <3>1. CASE d = c
      <4>1. <<>> = [k \in 1..0 |-> upstream]
        OBVIOUS
      <4> QED
        BY <1>1, <1>3, <1>4, <1>10, <3>1, <4>1 DEF TypeInv
    <3>2. CASE d # c /\ File(d)' = f
      BY <1>3, <1>8, <2>1, <3>2
    <3>3. CASE File(d)' # f
      BY <1>9, <2>1, <3>3 DEF AloneInv
    <3> QED
      BY <3>1, <3>2, <3>3
  <2> QED
    BY <2>1 DEF AloneInv
<1>12. SharedInv'
  <2>1. ASSUME NEW d \in Calls, NEW e \in Calls, d # e, IsWriting(d)', IsWriting(e)',
               File(d)' = File(e)'
        PROVE  call'[d].inode \in mixed'
    <3>1. CASE d = c
      BY <1>3, <1>8, <1>10, <2>1, <3>1
    <3>2. CASE d # c /\ File(d)' = f
      BY <1>3, <1>8, <2>1, <3>2
    <3>3. CASE File(d)' # f
      BY <1>9, <2>1, <3>3 DEF SharedInv
    <3> QED
      BY <3>1, <3>2, <3>3
  <2> QED
    BY <2>1 DEF SharedInv
<1>13. PartInv'
  <2>1. ASSUME NEW d \in Calls, IsWriting(d)', part'[File(d)'] # None
        PROVE  part'[File(d)'] = call'[d].inode \/ part'[File(d)'] \in mixed'
    <3>1. CASE d = c
      BY <1>3, <1>4, <1>10, <3>1 DEF TypeInv
    <3>2. CASE d # c /\ File(d)' = f
      BY <1>4, <1>8, <2>1, <3>2 DEF TypeInv
    <3>3. CASE File(d)' # f
      <4>1. part[File(d)] # None /\ part[File(d)] = part'[File(d)']
        BY <1>9, <2>1, <3>3
      <4>2. part[File(d)] \in Inodes /\ part[File(d)] # i
        BY <1>1, <1>9, <2>1, <3>3, <4>1 DEF NamesInv, TypeInv
      <4> QED
        BY <1>4, <1>9, <2>1, <3>3, <4>1, <4>2 DEF PartInv
    <3> QED
      BY <3>1, <3>2, <3>3
  <2> QED
    BY <2>1 DEF PartInv
<1>14. WholeUnlessShared'
  <2>1. ASSUME NEW g \in Files, dest[g] # None PROVE dest[g] \in Inodes \ {i}
    BY <1>1, <2>1 DEF TypeInv, NamesInv
  <2> QED
    BY <1>4, <2>1 DEF WholeUnlessShared, Content
<1> QED
  BY <1>5, <1>6, <1>7, <1>11, <1>12, <1>13, <1>14

LEMMA WriteKeeps ==
  ASSUME DownloadsInv, TypeInv', NEW c \in Calls, WriteChunk(c)
  PROVE  DownloadsInv'
<1> DEFINE i == call[c].inode
<1> USE DEF DownloadsInv
<1>1. IsWriting(c) /\ i \in Inodes /\ File(c) \in Files /\ call[c].at \in 0..Chunks
  BY InodeFacts DEF WriteChunk, IsWriting, OpenInv, TypeInv, Call, File
<1>2. /\ call' = [call EXCEPT ![c].at = @ + 1] /\ UNCHANGED <<part, dest, mixed>>
      /\ data' = [data EXCEPT ![i] = Put(@, call[c].at + 1, call[c].version)]
  BY DEF WriteChunk
<1>3. \A d \in Calls :
        /\ call'[d].pc = call[d].pc /\ call'[d].inode = call[d].inode
        /\ call'[d].todo = call[d].todo /\ call'[d].version = call[d].version
        /\ d # c => call'[d] = call[d]
  BY <1>2 DEF TypeInv, Call
<1>4. NamesInv' /\ OpenInv' /\ SharedInv' /\ PartInv'
  BY <1>2, <1>3 DEF NamesInv, OpenInv, SharedInv, PartInv, IsWriting, File
<1>5. FreshInv'
  BY <1>2, <1>3 DEF FreshInv, Ahead, IsOpen, File, Used
<1>6. AloneInv'
  <2>1. ASSUME NEW d \in Calls, IsWriting(d), call[d].inode \notin mixed
        PROVE  /\ part[File(d)] = call[d].inode
               /\ data'[call[d].inode] = [k \in 1..call'[d].at |-> call[d].version]
    <3>1. part[File(d)] = call[d].inode
          /\ data[call[d].inode] = [k \in 1..call[d].at |-> call[d].version]
      BY <2>1 DEF AloneInv
    <3>2. CASE d = c
      <4>1. data'[i] = Put([k \in 1..call[c].at |-> call[c].version], call[c].at + 1, call[c].version)
        BY <1>1, <1>2, <3>1, <3>2 DEF TypeInv
      <4>2. call'[c].at = call[c].at + 1
        BY <1>2 DEF TypeInv, Call
      <4>3. ASSUME NEW n \in Nat, NEW v
            PROVE  Put([k \in 1..n |-> v], n + 1, v) = [k \in 1..(n + 1) |-> v]
        BY DEF Put
      <4>4. call[c].at \in Nat
        BY <1>1, DownloadAssumption
      <4>5. data'[i] = [k \in 1..(call[c].at + 1) |-> call[c].version]
        BY <4>1, <4>3, <4>4
      <4> QED
        BY <3>1, <3>2, <4>2, <4>5
    <3>3. CASE d # c
      <4>1. call[d].inode # i
        BY <1>1, <2>1, <3>3 DEF SharedInv, File
      <4> QED
        BY <1>2, <1>3, <2>1, <3>1, <3>3, <4>1
    <3> QED
      BY <3>2, <3>3
  <2> QED
    BY <1>2, <1>3, <2>1 DEF AloneInv, IsWriting, File
<1>7. WholeUnlessShared'
  <2>1. ASSUME NEW f \in Files, dest[f] # None, dest[f] \notin mixed PROVE dest[f] # i
    <3> SUFFICES ASSUME dest[f] = i PROVE FALSE
      OBVIOUS
    <3>1. File(c) = f
      BY <2>1 DEF NamesInv, File
    <3>2. part[f] = i
      BY <1>1, <2>1, <3>1 DEF AloneInv
    <3> QED
      BY <1>1, <3>2, InodeFacts DEF NamesInv
  <2> QED
    BY <1>2, <2>1 DEF WholeUnlessShared, Content
<1> QED
  BY <1>4, <1>5, <1>6, <1>7

-----------------------------------------------------------------------------
(* A file in the cache is whole *)

LEMMA DownloadsStart == DownloadsInit => DownloadsInv
<1> SUFFICES ASSUME DownloadsInit PROVE DownloadsInv
  OBVIOUS
<1>1. Idle \in Call
  BY EmptyEntries, Zeros DEF Call
<1>2. TypeInv
  BY <1>1, DownloadAssumption DEF DownloadsInit, TypeInv
<1> QED
  BY <1>2, InodeFacts DEF DownloadsInit, DownloadsInv, NamesInv, OpenInv, FreshInv, AloneInv, SharedInv,
     PartInv, WholeUnlessShared, IsWriting, Used

\* Every step but those that open a file or write is calm.
LEMMA MostStepsAreCalm ==
  ASSUME DownloadsInv, TypeInv', [DownloadsNext]_downloads
  PROVE  Calm \/ (\E c \in Calls, f \in Files : Open(c, f)) \/ (\E c \in Calls : WriteChunk(c))
<1> DOMAIN call = Calls /\ DOMAIN part = Files
  BY DEF DownloadsInv, TypeInv
<1>1. CASE UNCHANGED downloads \/ Publish
  <2>1. UNCHANGED <<call, files>>
    BY <1>1 DEF downloads, Publish
  <2> QED
    BY <2>1, QuietSteps
<1>2. ASSUME NEW c \in Calls,
             Plan(c) \/ Checks(c) \/ CreateManifest(c) \/ WriteManifest(c)
      PROVE  Calm
  <2>1. UNCHANGED files
    BY <1>2 DEF Plan, Checks, CheckFile, CreateManifest, WriteManifest
  <2> QED
    BY <1>2, <2>1, QuietSteps
<1>3. ASSUME NEW c \in Calls, Break(c) PROVE Calm
  <2>1. /\ IsWriting(c) /\ Reclaim /\ UNCHANGED dest /\ part' = [part EXCEPT ![File(c)] = None]
        /\ call'[c] = [Idle EXCEPT !.pc = "failed"] /\ \A d \in Calls \ {c} : call'[d] = call[d]
    BY <1>3 DEF Break, IsWriting
  <2> QED
    BY <2>1, {c} \in SUBSET Calls, c \in {c}, EndingSteps
<1>4. ASSUME NEW c \in Calls, MoveIntoPlace(c) PROVE Calm
  <2>1. CASE part[File(c)] # None
    BY <1>4, <2>1, MoveIsCalm
  <2>2. CASE part[File(c)] = None
    <3>1. /\ Reclaim /\ UNCHANGED <<part, dest>>
          /\ call'[c] = [Idle EXCEPT !.pc = "failed"] /\ \A d \in Calls \ {c} : call'[d] = call[d]
      BY <1>4, <2>2 DEF MoveIntoPlace
    <3> QED
      BY <3>1, {c} \in SUBSET Calls, EndingSteps
  <2> QED
    BY <2>1, <2>2
<1>5. ASSUME NEW c \in Calls, Refused(c) PROVE Calm
  <2>1. /\ Reclaim /\ UNCHANGED <<part, dest>>
        /\ call'[c] = [Idle EXCEPT !.pc = "failed"] /\ \A d \in Calls \ {c} : call'[d] = call[d]
    BY <1>5 DEF Refused
  <2> QED
    BY <2>1, {c} \in SUBSET Calls, EndingSteps
<1>6. ASSUME NEW f \in Files, Delete(f) PROVE Calm
  BY <1>6, DeleteIsCalm
<1>7. CASE RestartServer
  <2> DEFINE S == { c \in Calls : Runs(c) }
  <2>1. /\ Reclaim /\ UNCHANGED <<part, dest>> /\ S \in SUBSET Calls
        /\ \A c \in S : call'[c] = [Idle EXCEPT !.pc = "failed"]
        /\ \A c \in Calls \ S : call'[c] = call[c]
    BY <1>7 DEF RestartServer
  <2> HIDE DEF S
  <2> QED
    BY <2>1, EndingSteps
<1> QED
  BY <1>1, <1>2, <1>3, <1>4, <1>5, <1>6, <1>7 DEF DownloadsNext, Checks

LEMMA DownloadsStep == DownloadsInv /\ [DownloadsNext]_downloads => DownloadsInv'
<1> SUFFICES ASSUME DownloadsInv, [DownloadsNext]_downloads PROVE DownloadsInv'
  OBVIOUS
<1>1. TypeInv'
  BY TypeStep DEF DownloadsInv
<1> QED
  BY <1>1, MostStepsAreCalm, CalmKeeps, OpenKeeps, WriteKeeps

(* A file of the cache is one version, whole, for any number of calls at once, whatever *)
(* breaks off, is deleted or restarted, unless two calls had it open together.          *)
THEOREM CachedFilesAreWhole == DownloadsSpec => []WholeUnlessShared
<1>1. DownloadsInv => WholeUnlessShared
  BY DEF DownloadsInv
<1> QED
  BY <1>1, DownloadsStart, DownloadsStep, PTL DEF DownloadsSpec

-----------------------------------------------------------------------------
(* What the cache answers is true *)

\* The inode that b made for f has no temporary name any more.  Under the file's own name
\* it is shared, or holds the version v.
Kept(b, f, v) ==
  /\ part[f] # <<b, f>>
  /\ dest[f] = <<b, f>> /\ dest[f] \notin mixed => IsVersion(data[dest[f]], v)

\* A call that is over has recorded what it fetched.
Recorded(b, entries) ==
  /\ b \in Calls /\ call[b].pc = "answered"
  /\ entries \in Entries /\ \A f \in DOMAIN entries : Kept(b, f, entries[f])

FetchedInv == \A c \in Calls : call[c].pc \in {"fetching", "writing", "recording"} =>
  /\ DOMAIN call[c].got \cap call[c].todo = {}
  /\ \A f \in DOMAIN call[c].got : Kept(c, f, call[c].got[f])
ReadInv == \A c \in Calls : call[c].pc = "checking" => Recorded(call[c].from, call[c].got)
ManifestInv == manifest.entries \in {None, Broken} \/ Recorded(manifest.by, manifest.entries)

KnownInv == FetchedInv /\ ReadInv /\ ManifestInv

LEMMA KeptStays ==
  ASSUME DownloadsInv, TypeInv', [DownloadsNext]_downloads,
         NEW b \in Calls, NEW f \in Files, NEW v, Kept(b, f, v), ~Open(b, f)
  PROVE  Kept(b, f, v)'
<1> <<b, f>> \in Inodes /\ <<b, f>> # None
  BY InodeFacts
<1> USE DEF DownloadsInv
<1>1. CASE Calm
  <2>1. part'[f] # <<b, f>>
    BY <1>1 DEF Calm, Kept
  <2>2. ASSUME dest'[f] = <<b, f>>, <<b, f>> \notin mixed' PROVE IsVersion(data'[<<b, f>>], v)
    <3>1. dest[f] = <<b, f>>
      BY <1>1, <2>2 DEF Calm, Kept, Moved
    <3>2. Used(<<b, f>>)'
      BY <2>2 DEF Used
    <3>3. data'[<<b, f>>] = data[<<b, f>>] /\ <<b, f>> \notin mixed
      BY <1>1, <2>2, <3>2 DEF Calm
    <3> QED
      BY <3>1, <3>3 DEF Kept, IsVersion
  <2> QED
    BY <2>1, <2>2 DEF Kept
<1>2. ASSUME NEW c \in Calls, NEW g \in Files, Open(c, g) PROVE Kept(b, f, v)'
  <2> DEFINE i == IF part[g] = None THEN <<c, g>> ELSE part[g]
  <2>1. /\ part' = [part EXCEPT ![g] = i] /\ UNCHANGED dest
        /\ data' = [data EXCEPT ![i] = <<>>]
        /\ \A j \in Inodes \ {i} : j \in mixed' <=> j \in mixed
    BY <1>2 DEF Open
  <2>2. i # <<b, f>>
    BY <1>2, InodeFacts DEF Kept, NamesInv
  <2> HIDE DEF i
  <2>3. part'[f] # <<b, f>>
    BY <2>1, <2>2 DEF Kept, TypeInv
  <2>4. data'[<<b, f>>] = data[<<b, f>>] /\ (<<b, f>> \in mixed' <=> <<b, f>> \in mixed)
    BY <2>1, <2>2 DEF TypeInv
  <2> QED
    BY <2>1, <2>3, <2>4 DEF Kept, IsVersion
<1>3. ASSUME NEW c \in Calls, WriteChunk(c) PROVE Kept(b, f, v)'
  <2>1. /\ UNCHANGED <<part, dest, mixed>> /\ IsWriting(c) /\ call[c].inode \in Inodes
        /\ data' = [data EXCEPT ![call[c].inode] = Put(@, call[c].at + 1, call[c].version)]
    BY <1>3 DEF WriteChunk, IsWriting, OpenInv
  <2>2. ASSUME dest[f] = <<b, f>>, <<b, f>> \notin mixed PROVE call[c].inode # <<b, f>>
    <3> SUFFICES ASSUME call[c].inode = <<b, f>> PROVE FALSE
      OBVIOUS
    <3>1. File(c) = f
      BY InodeFacts DEF File
    <3>2. part[f] = <<b, f>>
      BY <2>1, <2>2, <3>1 DEF AloneInv
    <3> QED
      BY <3>2 DEF Kept
  <2>3. ASSUME dest[f] = <<b, f>>, <<b, f>> \notin mixed PROVE data'[<<b, f>>] = data[<<b, f>>]
    BY <2>1, <2>2, <2>3
  <2> QED
    BY <2>1, <2>3 DEF Kept, IsVersion
<1> QED
  BY <1>1, <1>2, <1>3, MostStepsAreCalm

\* What a step does to what a call has, and to the manifest.
LEMMA CallsGoOn ==
  ASSUME TypeInv, OpenInv, [DownloadsNext]_downloads, NEW c \in Calls, ~MoveIntoPlace(c)
  PROVE  \/ call'[c] = call[c]
         \/ call'[c].pc \in {"answered", "failed"} /\ call[c].pc # "answered"
         \/ call'[c].pc = "fetching" /\ call'[c].got = <<>> /\ call[c].pc # "answered"
         \/ /\ call'[c].pc = "checking" /\ call[c].pc # "answered"
            /\ call'[c].got = manifest.entries /\ call'[c].from = manifest.by
            /\ manifest.entries \notin {None, Broken}
         \/ /\ call[c].pc = "checking" /\ call'[c].pc = "checking"
            /\ call'[c].got = call[c].got /\ call'[c].from = call[c].from
         \/ /\ call[c].pc \in {"fetching", "writing"} /\ call'[c].pc \in {"writing", "recording"}
            /\ call'[c].got = call[c].got /\ call'[c].todo = call[c].todo
<1> DOMAIN call = Calls /\ call[c] \in Call
  BY DEF TypeInv
<1>1. CASE UNCHANGED call
  BY <1>1
<1>2. ASSUME NEW d \in Calls, d # c, \/ Plan(d) \/ Checks(d) \/ WriteChunk(d) \/ Break(d)
             \/ MoveIntoPlace(d) \/ Refused(d) \/ CreateManifest(d) \/ WriteManifest(d)
             \/ \E f \in Files : Open(d, f)
      PROVE  call'[c] = call[c]
  BY <1>2 DEF Plan, Checks, CheckFile, WriteChunk, Break, MoveIntoPlace, Refused, CreateManifest,
     WriteManifest, Open
<1>3. CASE Plan(c)
  <2>1. PICK asks \in Plans, force \in BOOLEAN :
          call' = [call EXCEPT ![c] =
            IF force \/ manifest.entries \in {None, Broken, <<>>}
            THEN [[Idle EXCEPT !.asks = asks] EXCEPT !.pc = "fetching", !.todo = asks]
            ELSE [[Idle EXCEPT !.asks = asks] EXCEPT
                    !.pc = "checking", !.todo = DOMAIN manifest.entries,
                    !.got = manifest.entries, !.from = manifest.by]]
    BY <1>3 DEF Plan
  <2> QED
    BY <1>3, <2>1 DEF Plan
<1>4. CASE Checks(c)
  BY <1>4, ChecksGoOn
<1>5. ASSUME NEW f \in Files, Open(c, f)
      PROVE  /\ call[c].pc = "fetching" /\ call'[c].pc = "writing"
             /\ call'[c].got = call[c].got /\ call'[c].todo = call[c].todo
  BY <1>5 DEF Open, Call
<1>6. CASE WriteChunk(c)
  <2>1. /\ call[c].pc = "writing" /\ call'[c].pc = "writing"
        /\ call'[c].got = call[c].got /\ call'[c].todo = call[c].todo
    BY <1>6 DEF WriteChunk, Call
  <2> QED
    BY <2>1
<1>7. CASE Break(c) \/ Refused(c)
  BY <1>7 DEF Break, Refused
<1>8. CASE CreateManifest(c)
  <2>1. /\ call[c].pc = "fetching"
        /\ \/ call'[c] = [call[c] EXCEPT !.pc = "recording"]
           \/ call'[c] = [Idle EXCEPT !.pc = "answered"]
    BY <1>8 DEF CreateManifest
  <2> QED
    BY <2>1 DEF Call
<1>9. CASE WriteManifest(c)
  BY <1>9 DEF WriteManifest
<1>10. CASE RestartServer
  BY <1>10 DEF RestartServer
<1>11. CASE UNCHANGED downloads \/ Publish \/ \E f \in Files : Delete(f)
  BY <1>1, <1>11 DEF downloads, Publish, Delete
<1> QED
  BY <1>2, <1>3, <1>4, <1>5, <1>6, <1>7, <1>8, <1>9, <1>10, <1>11 DEF DownloadsNext, Checks

LEMMA RecordedStays ==
  ASSUME DownloadsInv, TypeInv', [DownloadsNext]_downloads, NEW b, NEW entries, Recorded(b, entries)
  PROVE  Recorded(b, entries)'
<1>1. b \in Calls /\ call[b].pc = "answered" /\ entries \in Entries
  BY DEF Recorded
<1>2. ~MoveIntoPlace(b) /\ \A f \in Files : ~Open(b, f)
  BY <1>1 DEF MoveIntoPlace, Open
<1>3. call'[b].pc = "answered"
  BY <1>1, <1>2, CallsGoOn DEF DownloadsInv
<1>4. \A f \in DOMAIN entries : Kept(b, f, entries[f])'
  BY <1>1, <1>2, KeptStays, EntriesFacts DEF Recorded
<1> QED
  BY <1>1, <1>3, <1>4 DEF Recorded

LEMMA MoveGoesOn ==
  ASSUME TypeInv, NEW c \in Calls, MoveIntoPlace(c)
  PROVE  IF part[File(c)] = None
         THEN call'[c].pc = "failed"
         ELSE /\ call'[c].pc = "fetching"
              /\ call'[c] =
                   [call[c] EXCEPT
                      !.pc = "fetching", !.inode = None, !.at = 0, !.version = 0,
                      !.todo = call[c].todo \ {File(c)},
                      !.got = [g \in DOMAIN call[c].got \cup {File(c)} |->
                                 IF g = File(c) THEN call[c].version ELSE call[c].got[g]]]
<1> DOMAIN call = Calls /\ call[c] \in Call
  BY DEF TypeInv
<1>1. CASE part[File(c)] = None
  BY <1>1 DEF MoveIntoPlace
<1>2. CASE part[File(c)] # None
  <2> DEFINE f == File(c)
             k == [call[c] EXCEPT
                      !.pc = "fetching", !.inode = None, !.at = 0, !.version = 0,
                      !.todo = call[c].todo \ {f},
                      !.got = [g \in DOMAIN call[c].got \cup {f} |->
                                 IF g = f THEN call[c].version ELSE call[c].got[g]]]
  <2>1. call' = [call EXCEPT ![c] = k]
    BY <1>2 DEF MoveIntoPlace
  <2>2. k.pc = "fetching"
    BY DEF Call
  <2> HIDE DEF k
  <2>3. call'[c] = k
    BY <2>1
  <2> QED
    BY <1>2, <2>2, <2>3 DEF k
<1> QED
  BY <1>1, <1>2

LEMMA MoveKeeps ==
  ASSUME DownloadsInv, TypeInv', NEW c \in Calls, MoveIntoPlace(c), NEW f \in Files, f = File(c),
         part[f] # None, NEW v, v = call[c].version
  PROVE  Kept(c, f, v)'
<1>1. IsWriting(c) /\ IsComplete(c)
  BY DEF MoveIntoPlace, IsWriting
<1>2. dest'[f] = part[f] /\ part'[f] = None /\ part[f] \in Inodes /\ Reclaim
  BY DEF MoveIntoPlace, DownloadsInv, TypeInv
<1>3. ASSUME part[f] = <<c, f>>, <<c, f>> \notin mixed'
      PROVE  IsVersion(data'[<<c, f>>], v)
  <2>1. Used(<<c, f>>)'
    BY <1>2, <1>3 DEF Used
  <2>2. data'[<<c, f>>] = data[<<c, f>>] /\ <<c, f>> \notin mixed
    BY <1>2, <1>3, <2>1, ReclaimKeeps DEF DownloadsInv
  <2>3. call[c].inode = <<c, f>>
    BY <1>1, <1>3, <2>2 DEF DownloadsInv, PartInv
  <2>4. data[<<c, f>>] = [k \in 1..Chunks |-> v]
    BY <1>1, <2>2, <2>3 DEF DownloadsInv, AloneInv, IsComplete
  <2> QED
    BY <2>2, <2>4 DEF IsVersion
<1>4. None # <<c, f>>
  BY InodeFacts
<1> QED
  BY <1>2, <1>3, <1>4 DEF Kept, IsVersion

LEMMA FetchedStays ==
  ASSUME DownloadsInv, FetchedInv, TypeInv', [DownloadsNext]_downloads
  PROVE  FetchedInv'
<1> SUFFICES ASSUME NEW c \in Calls, call'[c].pc \in {"fetching", "writing", "recording"}
             PROVE  /\ DOMAIN call'[c].got \cap call'[c].todo = {}
                    /\ \A f \in DOMAIN call'[c].got : \A v : v = call'[c].got[f] => Kept(c, f, v)'
  BY DEF FetchedInv, Kept
<1> call[c] \in Call /\ call'[c] \in Call /\ call[c].got \in Entries
  BY DEF DownloadsInv, TypeInv, Call
<1>1. ASSUME call[c].pc \in {"fetching", "writing", "recording"},
             NEW f \in DOMAIN call[c].got, NEW v, v = call[c].got[f]
      PROVE  Kept(c, f, v)'
  <2>1. f \in Files /\ f \notin call[c].todo /\ Kept(c, f, v)
    BY <1>1, EntriesFacts DEF FetchedInv
  <2>2. ~Open(c, f)
    BY <2>1 DEF Open, IsNext
  <2> QED
    BY <2>1, <2>2, KeptStays
<1>2. CASE ~MoveIntoPlace(c)
  <2>1. CASE call'[c].got = <<>>
    BY <2>1
  <2>2. CASE /\ call[c].pc \in {"fetching", "writing", "recording"}
             /\ call'[c].got = call[c].got /\ call'[c].todo = call[c].todo
    BY <1>1, <2>2 DEF FetchedInv
  <2> QED
    BY <1>2, <2>1, <2>2, CallsGoOn DEF DownloadsInv
<1>3. CASE MoveIntoPlace(c)
  <2> DEFINE got == call[c].got
             asked == call[c].todo
  <2>1. PICK f \in Files, v \in 1..Versions : f = File(c) /\ v = call[c].version /\ f \in asked
    BY <1>3, InodeFacts DEF MoveIntoPlace, IsWriting, DownloadsInv, OpenInv, File
  <2>2. part[f] # None
    BY <1>3, <2>1 DEF MoveIntoPlace, DownloadsInv, TypeInv
  <2>3. part[File(c)] # None
    BY <2>1, <2>2
  <2>4. /\ call'[c].todo = asked \ {f}
        /\ call'[c].got = [g \in DOMAIN got \cup {f} |-> IF g = f THEN v ELSE got[g]]
    <3>1. call'[c] = [call[c] EXCEPT
                        !.pc = "fetching", !.inode = None, !.at = 0, !.version = 0,
                        !.todo = asked \ {File(c)},
                        !.got = [g \in DOMAIN got \cup {File(c)} |->
                                   IF g = File(c) THEN call[c].version ELSE got[g]]]
      BY <1>3, <2>3, MoveGoesOn DEF DownloadsInv
    <3>2. /\ call'[c].todo = asked \ {File(c)}
          /\ call'[c].got = [g \in DOMAIN got \cup {File(c)} |->
                                IF g = File(c) THEN call[c].version ELSE got[g]]
      BY <3>1 DEF Call
    <3> QED
      BY <2>1, <3>2
  <2>5. Kept(c, f, v)'
    BY <1>3, <2>1, <2>2, MoveKeeps
  <2>6. call[c].pc = "writing"
    BY <1>3 DEF MoveIntoPlace
  <2>7. DOMAIN got \cap asked = {}
    BY <2>6 DEF FetchedInv
  <2>8. \A g \in DOMAIN got : \A w : w = got[g] => Kept(c, g, w)'
    BY <1>1, <2>6
  <2> HIDE DEF got, asked
  <2> QED
    BY <2>4, <2>5, <2>7, <2>8
<1> QED
  BY <1>2, <1>3

LEMMA KnownStep ==
  ASSUME DownloadsInv, KnownInv, TypeInv', [DownloadsNext]_downloads
  PROVE  KnownInv'
<1>1. FetchedInv'
  BY FetchedStays DEF KnownInv
<1>2. ReadInv'
  <2> SUFFICES ASSUME NEW c \in Calls, call'[c].pc = "checking",
                      NEW b, b = call'[c].from, NEW entries, entries = call'[c].got
               PROVE  Recorded(b, entries)'
    BY DEF ReadInv, Recorded, Kept
  <2>1. ~MoveIntoPlace(c)
    BY MoveGoesOn DEF DownloadsInv
  <2>2. Recorded(b, entries)
    BY <2>1, CallsGoOn DEF DownloadsInv, KnownInv, ReadInv, ManifestInv
  <2> QED
    BY <2>2, RecordedStays
<1>3. ManifestInv'
  <2> SUFFICES ASSUME NEW b, b = manifest'.by, NEW entries, entries = manifest'.entries,
                      entries \notin {None, Broken}
               PROVE  Recorded(b, entries)'
    BY DEF ManifestInv, Recorded, Kept
  <2>1. CASE UNCHANGED manifest
    <3>1. Recorded(b, entries)
      BY <2>1 DEF KnownInv, ManifestInv
    <3> QED
      BY <3>1, RecordedStays
  <2>2. ASSUME NEW c \in Calls, WriteManifest(c) PROVE Recorded(b, entries)'
    <3>1. b = c /\ entries = call[c].got /\ call[c].pc = "recording" /\ call'[c].pc = "answered"
      BY <2>2 DEF WriteManifest, DownloadsInv, TypeInv
    <3>2. entries \in Entries
      BY <3>1 DEF DownloadsInv, TypeInv, Call
    <3>3. ASSUME NEW f \in DOMAIN entries, NEW v, v = entries[f] PROVE Kept(c, f, v)'
      <4>1. Kept(c, f, v) /\ f \in Files
        BY <3>1, <3>2, <3>3, EntriesFacts DEF KnownInv, FetchedInv
      <4>2. ~Open(c, f)
        BY <3>1 DEF Open
      <4> QED
        BY <4>1, <4>2, KeptStays
    <3> QED
      BY <3>1, <3>2, <3>3 DEF Recorded
  <2>3. UNCHANGED manifest \/ manifest'.entries = Broken \/ \E c \in Calls : WriteManifest(c)
    <3>1. ASSUME NEW c \in Calls, \/ Plan(c) \/ Checks(c) \/ WriteChunk(c) \/ Break(c)
                 \/ MoveIntoPlace(c) \/ Refused(c) \/ \E f \in Files : Open(c, f)
          PROVE  UNCHANGED manifest
      BY <3>1 DEF Plan, Checks, CheckFile, WriteChunk, Break, MoveIntoPlace, Refused, Open
    <3>2. ASSUME NEW c \in Calls, CreateManifest(c)
          PROVE  UNCHANGED manifest \/ manifest'.entries = Broken
      BY <3>2 DEF CreateManifest
    <3>3. ASSUME UNCHANGED downloads \/ Publish \/ RestartServer \/ \E f \in Files : Delete(f)
          PROVE  UNCHANGED manifest
      BY <3>3 DEF downloads, Publish, RestartServer, Delete
    <3> QED
      BY <3>1, <3>2, <3>3 DEF DownloadsNext, Checks
  <2> QED
    BY <2>1, <2>2, <2>3
<1> QED
  BY <1>1, <1>2, <1>3 DEF KnownInv

TrueHits ==
  \A c \in Calls : call[c].pc = "checking" /\ call'[c].pc \in {"checking", "answered"} =>
    \A f \in DOMAIN call[c].got \ call'[c].todo :
      \/ dest[f] = None /\ f \notin call[c].todo
      \/ dest[f] # None /\ dest[f] \in mixed
      \/ dest[f] # None /\ dest[f][1] # call[c].from
      \/ IsVersion(Content(f), call[c].got[f])

\* Only a look takes a file off the list, and one of the right size is there.
LEMMA LooksAreTaken ==
  ASSUME DownloadsInv, [DownloadsNext]_downloads, NEW c \in Calls, call[c].pc = "checking",
         call'[c].pc \in {"checking", "answered"}, NEW f \in call[c].todo, f \notin call'[c].todo
  PROVE  dest[f] # None
<1> call[c] \in Call /\ DOMAIN call = Calls
  BY DEF DownloadsInv, TypeInv
<1>1. PICK g \in Files : CheckFile(c, g)
  <2>1. ASSUME NEW d \in Calls, d # c, \/ Plan(d) \/ Checks(d) \/ WriteChunk(d) \/ Break(d)
               \/ MoveIntoPlace(d) \/ Refused(d) \/ CreateManifest(d) \/ WriteManifest(d)
               \/ \E g \in Files : Open(d, g)
        PROVE  call'[c] = call[c]
    BY <2>1 DEF Plan, Checks, CheckFile, WriteChunk, Break, MoveIntoPlace, Refused, CreateManifest,
       WriteManifest, Open
  <2>2. ~(Plan(c) \/ WriteChunk(c) \/ Break(c) \/ MoveIntoPlace(c) \/ Refused(c)
          \/ CreateManifest(c) \/ WriteManifest(c) \/ \E g \in Files : Open(c, g))
    BY DEF Plan, WriteChunk, Break, MoveIntoPlace, Refused, CreateManifest, WriteManifest, Open
  <2>3. ~(UNCHANGED downloads \/ Publish \/ RestartServer \/ \E g \in Files : Delete(g))
    BY DEF downloads, Publish, RestartServer, Delete
  <2> QED
    BY <2>1, <2>2, <2>3 DEF DownloadsNext, Checks
<1>2. SizeIsRight(g) /\ f = g
  <2>1. \/ SizeIsRight(g) /\ call[c].todo = {g}
        \/ SizeIsRight(g) /\ call'[c] = [call[c] EXCEPT !.todo = call[c].todo \ {g}]
        \/ call'[c] = [call[c] EXCEPT !.pc = "fetching", !.todo = call[c].asks, !.got = <<>>, !.from = None]
    BY <1>1 DEF CheckFile
  <2> QED
    BY <2>1 DEF Call
<1>3. DOMAIN Content(f) = 1..Chunks /\ 1 \in 1..Chunks
  BY <1>2, DownloadAssumption DEF SizeIsRight
<1>4. DOMAIN <<>> = {}
  OBVIOUS
<1> QED
  BY <1>3, <1>4 DEF Content

LEMMA HitStep ==
  ASSUME DownloadsInv, KnownInv, TypeInv', [DownloadsNext]_downloads
  PROVE  TrueHits
<1> SUFFICES ASSUME NEW c \in Calls, call[c].pc = "checking", call'[c].pc \in {"checking", "answered"},
                    NEW f \in DOMAIN call[c].got, f \notin call'[c].todo,
                    ~(dest[f] = None /\ f \notin call[c].todo),
                    ~(dest[f] # None /\ dest[f] \in mixed),
                    ~(dest[f] # None /\ dest[f][1] # call[c].from)
             PROVE  IsVersion(Content(f), call[c].got[f])
  BY DEF TrueHits
<1>1. /\ call[c].from \in Calls /\ call[c].got \in Entries
      /\ Kept(call[c].from, f, call[c].got[f])
  BY DEF KnownInv, ReadInv, Recorded
<1>2. f \in Files
  BY <1>1, EntriesFacts
<1>3. dest[f] # None
  BY LooksAreTaken
<1>4. dest[f] \in Inodes /\ dest[f][2] = f /\ dest[f][1] = call[c].from
  BY <1>2, <1>3 DEF DownloadsInv, TypeInv, NamesInv
<1>5. dest[f] = <<call[c].from, f>>
  BY <1>4 DEF Inodes
<1> QED
  BY <1>1, <1>3, <1>5 DEF Kept, Content

(* What the cache answers is on the disk as the manifest has it, for any number of calls, *)
(* files and versions, whatever breaks off or is restarted, but for what the user deleted *)
(* after the look at it, two calls had open together or another call put in the place of. *)
THEOREM TheCacheIsTruthful == DownloadsSpec => HitsAreTrue
<1>1. DownloadsInit => KnownInv
  BY DEF DownloadsInit, KnownInv, FetchedInv, ReadInv, ManifestInv
<1>2. DownloadsInv /\ KnownInv /\ [DownloadsNext]_downloads => KnownInv' /\ [TrueHits]_downloads
  BY TypeStep, KnownStep, HitStep DEF DownloadsInv
<1> QED
  BY <1>1, <1>2, DownloadsStart, DownloadsStep, PTL DEF DownloadsSpec, HitsAreTrue, TrueHits
-----------------------------------------------------------------------------
(* Handling: the try blocks that are open *)

Opens(r, n, g) == g = [i \in 0..n |-> IF i = 0 THEN << >> ELSE AfterStep(g[i - 1], r[i])]

LEMMA OpensExist ==
  ASSUME NEW r, NEW n \in Nat
  PROVE  \E g : Opens(r, n, g)
<1> DEFINE Bad == { k \in Nat : ~\E g : Opens(r, k, g) }
<1> SUFFICES ASSUME Bad # {} PROVE FALSE
  OBVIOUS
<1> HIDE DEF Bad
<1>1. Bad \in SUBSET Nat
  BY DEF Bad
<1>2. PICK k \in Bad : \A j \in Bad : k <= j
  BY <1>1, LeastNat
<1>3. k \in Nat /\ ~\E g : Opens(r, k, g)
  BY DEF Bad
<1>4. k # 0
  <2> DEFINE g == [i \in 0..0 |-> << >>]
  <2>1. \A i \in 0..0 : i = 0
    OBVIOUS
  <2>2. Opens(r, 0, g)
    BY <2>1 DEF Opens
  <2> QED
    BY <1>3, <2>2
<1> DEFINE m == k - 1
<1>5. m \in Nat /\ m < k /\ k = m + 1
  BY <1>3, <1>4
<1>6. m \notin Bad
  BY <1>2, <1>3, <1>5
<1> HIDE DEF m
<1>7. PICK h : Opens(r, m, h)
  BY <1>5, <1>6 DEF Bad
<1> DEFINE g == [i \in 0..(m + 1) |-> IF i = m + 1 THEN AfterStep(h[m], r[m + 1]) ELSE h[i]]
           q == [i \in 0..(m + 1) |-> IF i = 0 THEN << >> ELSE AfterStep(g[i - 1], r[i])]
<1>8. ASSUME NEW i \in 0..(m + 1) PROVE g[i] = q[i]
  <2>1. CASE i = m + 1
    <3>1. i # 0 /\ i - 1 = m /\ m \in 0..(m + 1) /\ m # m + 1
      BY <1>5, <2>1
    <3>2. g[m] = h[m]
      BY <3>1
    <3>3. g[i] = AfterStep(h[m], r[m + 1]) /\ q[i] = AfterStep(g[m], r[i])
      BY <2>1, <3>1
    <3> HIDE DEF g, q
    <3> QED
      BY <2>1, <3>2, <3>3
  <2>2. CASE i # m + 1 /\ i # 0
    <3>1. i \in 0..m /\ i - 1 \in 0..(m + 1) /\ i - 1 # m + 1
      BY <1>5, <2>2
    <3>2. g[i] = h[i] /\ q[i] = AfterStep(g[i - 1], r[i]) /\ g[i - 1] = h[i - 1]
      BY <2>2, <3>1
    <3>3. h[i] = AfterStep(h[i - 1], r[i])
      BY <1>7, <2>2, <3>1 DEF Opens
    <3> HIDE DEF g, q
    <3> QED
      BY <3>2, <3>3
  <2>3. CASE i = 0
    <3>1. 0 \in 0..m /\ 0 \in 0..(m + 1) /\ 0 # m + 1
      BY <1>5
    <3>2. g[0] = h[0] /\ q[0] = << >>
      BY <3>1
    <3>3. h[0] = << >>
      BY <1>7, <3>1 DEF Opens
    <3> HIDE DEF g, q
    <3> QED
      BY <2>3, <3>2, <3>3
  <2> QED
    BY <2>1, <2>2, <2>3
<1>9. g = q
  <2>1. g = [i \in 0..(m + 1) |-> g[i]] /\ q = [i \in 0..(m + 1) |-> q[i]]
    OBVIOUS
  <2> HIDE DEF g, q
  <2> QED
    BY <1>8, <2>1
<1>10. Opens(r, m + 1, g)
  <2> HIDE DEF g
  <2> QED
    BY <1>9 DEF Opens
<1> QED
  BY <1>3, <1>5, <1>10

\* What the recursion comes to, one step at a time.
LEMMA BlocksStep ==
  ASSUME NEW S, NEW r \in Seq(S)
  PROVE  /\ BlocksAt(r, 1) = << >>
         /\ \A i \in DOMAIN r : BlocksAt(r, i + 1) = AfterStep(BlocksAt(r, i), r[i])
<1> DEFINE n == Len(r)
           Is(g) == g = [i \in 0..n |-> IF i = 0 THEN << >> ELSE AfterStep(g[i - 1], r[i])]
           b == CHOOSE g : Is(g)
<1>1. n \in Nat /\ DOMAIN r = 1..n
  OBVIOUS
<1>2. BlocksOf(r) = b
  BY DEF BlocksOf
<1>3. \A g : Is(g) <=> Opens(r, n, g)
  BY DEF Opens
<1>4. \E g : Is(g)
  <2>1. \E g : Opens(r, n, g)
    BY <1>1, OpensExist
  <2> HIDE DEF Is, n
  <2> QED
    BY <1>3, <2>1
<1>5. Is(b)
  <2> HIDE DEF Is
  <2> QED
    BY <1>4
<1> HIDE DEF b, n
<1>6. 0 \in 0..n /\ 1 - 1 = 0 /\ b[0] = << >>
  BY <1>1, <1>5
<1>7. ASSUME NEW i \in DOMAIN r PROVE b[i] = AfterStep(b[i - 1], r[i]) /\ i + 1 - 1 = i
  <2>1. i \in 0..n /\ i # 0 /\ i + 1 - 1 = i
    BY <1>1
  <2> QED
    BY <1>5, <2>1
<1> HIDE DEF Is
<1> QED
  BY <1>2, <1>6, <1>7 DEF BlocksAt

-----------------------------------------------------------------------------
(* Handling: the invariant *)

Row == ToolNamed[tool]

\* The call is of a registered tool; what was forwarded passed the server.
CallInv ==
  /\ tool \in Names /\ outcome \in Outcomes /\ at \in Nat /\ bumped \in BOOLEAN
  /\ at = 0 => /\ run = << >> /\ open = << >> /\ wrote = {} /\ borrowed = {} /\ ~bumped
               /\ outcome \in {"pending", "refused"}
  /\ at # 0 => /\ run \in Row.runs /\ fault \notin Row.refused
               /\ at <= Len(run) + 1 /\ outcome # "refused"

\* What has happened so far are the steps before this one.
SoFarInv ==
  /\ wrote # {} => WroteBefore(run, at)
  /\ bumped <=> BumpedBefore(run, at)
  /\ ~CheckedBefore(run, at, fault)

\* Why the call ended where it did.
EndInv ==
  /\ outcome = "ok" => at = Len(run) + 1
  /\ outcome \in {"argument", "document", "blender"} => at \in DOMAIN run
  /\ outcome = "argument" => \/ run[at].do = "misreads"
                             \/ run[at].do = "needs" /\ fault \in run[at].what
  /\ outcome = "document" => run[at].do = "finds"
  /\ outcome = "blender"  => run[at].do = "blender"

\* What is borrowed is given back by a block that is still open.
BlocksInv ==
  at # 0 /\ BorrowsInBlocks(run) =>
    /\ open \in Seq({ run[i] : i \in DOMAIN run })
    /\ outcome = "pending" => open = BlocksAt(run, at)
    /\ borrowed \subseteq UNION { b.what : b \in Range(open) }

HandlingInv == CallInv /\ SoFarInv /\ EndInv /\ BlocksInv

LEMMA RowIsOfTheTable ==
  ASSUME tool \in Names
  PROVE  Row \in Operations /\ Row.op = tool
BY DEF Row, ToolNamed, Names

LEMMA RunIsASequence ==
  ASSUME CallInv, at # 0
  PROVE  /\ run \in Seq({ run[i] : i \in DOMAIN run })
         /\ Len(run) \in Nat /\ DOMAIN run = 1..Len(run)
<1>1. Row \in Operations /\ run \in Row.runs
  BY RowIsOfTheTable DEF CallInv
<1>2. run \in Seq({ run[i] : i \in DOMAIN run })
  BY <1>1, TableAssumption
<1> QED
  BY <1>2

-----------------------------------------------------------------------------
(* Handling: the steps *)

LEMMA StartOfACall == Init => HandlingInv
<1> SUFFICES ASSUME Init PROVE HandlingInv
  OBVIOUS
<1>1. DOMAIN run = {}
  BY DEF Init
<1> QED
  BY <1>1 DEF Init, HandlingInv, CallInv, SoFarInv, EndInv, BlocksInv, Outcomes, StepsThat, BumpedBefore,
              CheckedBefore

LEMMA RefuseStep == HandlingInv /\ Refuse => HandlingInv'
<1> SUFFICES ASSUME HandlingInv, Refuse PROVE HandlingInv'
  OBVIOUS
<1>1. CallInv' /\ EndInv' /\ BlocksInv'
  BY DEF HandlingInv, CallInv, EndInv, BlocksInv, Refuse, Outcomes, Row
<1>2. SoFarInv'
  BY DEF HandlingInv, SoFarInv, Refuse, StepsThat, WroteBefore, BumpedBefore, CheckedBefore
<1> QED
  BY <1>1, <1>2 DEF HandlingInv

LEMMA ForwardStep == HandlingInv /\ Forward => HandlingInv'
<1> SUFFICES ASSUME HandlingInv, Forward PROVE HandlingInv'
  OBVIOUS
<1>1. /\ run' \in Row.runs /\ at' = 1 /\ at = 0 /\ outcome = "pending"
      /\ UNCHANGED << tool, fault, open, wrote, borrowed, bumped, outcome >>
      /\ fault \notin Row.refused
  BY DEF Forward, Row
<1>2. run' \in Seq({ run'[i] : i \in DOMAIN run' })
  BY <1>1, RowIsOfTheTable, TableAssumption DEF HandlingInv, CallInv
<1>3. Len(run') \in Nat /\ DOMAIN run' = 1..Len(run')
  BY <1>2
<1>4. CallInv' /\ EndInv'
  BY <1>1, <1>3 DEF HandlingInv, CallInv, EndInv, Row
<1>5. SoFarInv'
  BY <1>1, <1>3 DEF HandlingInv, CallInv, SoFarInv, StepsThat, WroteBefore, BumpedBefore, CheckedBefore
<1>6. BlocksAt(run', 1) = << >>
  BY <1>2, BlocksStep
<1>7. open' = << >> /\ borrowed' = {}
  BY <1>1 DEF HandlingInv, CallInv
<1>8. BlocksInv'
  BY <1>1, <1>6, <1>7 DEF BlocksInv
<1> QED
  BY <1>4, <1>5, <1>8 DEF HandlingInv

\* The handler goes on to the next step.
LEMMA PassingStep ==
  ASSUME HandlingInv, outcome = "pending", at \in DOMAIN run, Passes, UNCHANGED << tool, fault, run >>,
         run[at].do = "needs" => fault \notin run[at].what,
         wrote' # {} => wrote # {} \/ run[at].do = "writes",
         bumped' = (bumped \/ run[at].do = "bumps")
  PROVE  (CallInv /\ SoFarInv /\ EndInv)'
<1>1. at # 0
  BY DEF HandlingInv, CallInv
<1>2. Len(run) \in Nat /\ DOMAIN run = 1..Len(run)
  BY <1>1, RunIsASequence DEF HandlingInv
<1>3. at' = at + 1 /\ outcome' = "pending" /\ at \in Nat
  BY <1>2 DEF Passes
<1>4. CallInv' /\ EndInv'
  BY <1>1, <1>2, <1>3 DEF HandlingInv, CallInv, EndInv, Row
<1>5. \A j \in DOMAIN run : j < at' <=> j < at \/ j = at
  BY <1>2, <1>3
<1>6. wrote' # {} => WroteBefore(run', at')
  BY <1>5 DEF HandlingInv, SoFarInv, WroteBefore, StepsThat
<1>7. bumped' <=> BumpedBefore(run', at')
  BY <1>5 DEF HandlingInv, SoFarInv, BumpedBefore, StepsThat
<1>8. ~CheckedBefore(run', at', fault')
  BY <1>5 DEF HandlingInv, SoFarInv, CheckedBefore, StepsThat
<1> QED
  BY <1>4, <1>6, <1>7, <1>8 DEF SoFarInv

\* A step that opens and closes no block.
LEMMA PlainBlocks ==
  ASSUME HandlingInv, outcome = "pending", at \in DOMAIN run, Passes, UNCHANGED << run, open >>,
         run[at].do \notin {"guard", "release"},
         borrowed' \subseteq borrowed \cup (IF run[at].do = "borrows" THEN run[at].what ELSE {})
  PROVE  BlocksInv'
<1> SUFFICES ASSUME BorrowsInBlocks(run)
             PROVE  /\ open' \in Seq({ run'[i] : i \in DOMAIN run' })
                    /\ open' = BlocksAt(run', at')
                    /\ borrowed' \subseteq UNION { b.what : b \in Range(open') }
  BY DEF BlocksInv
<1>1. at # 0
  BY DEF HandlingInv, CallInv
<1>2. /\ open \in Seq({ run[i] : i \in DOMAIN run }) /\ open = BlocksAt(run, at)
      /\ borrowed \subseteq UNION { b.what : b \in Range(open) }
  BY <1>1 DEF HandlingInv, BlocksInv
<1>3. BlocksAt(run, at + 1) = AfterStep(open, run[at])
  BY <1>1, <1>2, RunIsASequence, BlocksStep DEF HandlingInv
<1>4. AfterStep(open, run[at]) = open
  BY DEF AfterStep
<1>5. run[at].do = "borrows" => run[at].what \subseteq UNION { b.what : b \in Range(open) }
  BY <1>2 DEF BorrowsInBlocks, StepsThat
<1> QED
  BY <1>2, <1>3, <1>4, <1>5 DEF Passes

LEMMA EnterBlocks == HandlingInv /\ Enter => BlocksInv'
<1> SUFFICES ASSUME HandlingInv, Enter, BorrowsInBlocks(run)
             PROVE  /\ open' \in Seq({ run'[i] : i \in DOMAIN run' })
                    /\ open' = BlocksAt(run', at')
                    /\ borrowed' \subseteq UNION { b.what : b \in Range(open') }
  BY DEF BlocksInv, Enter
<1>1. at # 0 /\ at \in DOMAIN run /\ run[at].do = "guard" /\ outcome = "pending"
      /\ open' = << run[at] >> \o open /\ at' = at + 1 /\ UNCHANGED << run, borrowed >>
  BY DEF HandlingInv, CallInv, Enter, Here, Passes
<1> DEFINE S == { run[i] : i \in DOMAIN run }
<1>2. /\ open \in Seq(S) /\ open = BlocksAt(run, at)
      /\ borrowed \subseteq UNION { b.what : b \in Range(open) }
  BY <1>1 DEF HandlingInv, BlocksInv
<1>3. BlocksAt(run, at + 1) = << run[at] >> \o open
  BY <1>1, <1>2, RunIsASequence, BlocksStep DEF HandlingInv, AfterStep
<1>4. run[at] \in S
  BY <1>1
<1> HIDE DEF S
<1>5. open' \in Seq(S) /\ \A k \in DOMAIN open : k + 1 \in DOMAIN open' /\ open'[k + 1] = open[k]
  BY <1>1, <1>2, <1>4
<1>6. Range(open) \subseteq Range(open')
  BY <1>5 DEF Range
<1> QED
  BY <1>1, <1>2, <1>3, <1>5, <1>6 DEF S

\* A block is left, at its end or by an error.
LEMMA BlockLeft ==
  ASSUME NEW S, open \in Seq(S), open # << >>, open' = Tail(open),
         borrowed \subseteq UNION { b.what : b \in Range(open) },
         borrowed' \subseteq borrowed \ Head(open).what
  PROVE  open' \in Seq(S) /\ borrowed' \subseteq UNION { b.what : b \in Range(open') }
<1>1. open' \in Seq(S) /\ \A k \in DOMAIN open : k # 1 => k - 1 \in DOMAIN open' /\ open'[k - 1] = open[k]
  OBVIOUS
<1>2. ASSUME NEW b \in Range(open), b # Head(open) PROVE b \in Range(open')
  <2>1. PICK k \in DOMAIN open : b = open[k]
    BY <1>2 DEF Range
  <2>2. k # 1
    BY <1>2, <2>1
  <2> QED
    BY <1>1, <2>1, <2>2 DEF Range
<1>3. ASSUME NEW x \in borrowed' PROVE \E b \in Range(open') : x \in b.what
  <2>1. PICK b \in Range(open) : x \in b.what
    BY <1>3
  <2>2. b # Head(open)
    BY <1>3, <2>1
  <2> QED
    BY <1>2, <2>1, <2>2
<1> QED
  BY <1>1, <1>3

LEMMA LeaveBlocks == HandlingInv /\ Leave => BlocksInv'
<1> SUFFICES ASSUME HandlingInv, Leave, BorrowsInBlocks(run)
             PROVE  /\ open' \in Seq({ run'[i] : i \in DOMAIN run' })
                    /\ open' = BlocksAt(run', at')
                    /\ borrowed' \subseteq UNION { b.what : b \in Range(open') }
  BY DEF BlocksInv, Leave
<1>1. at # 0 /\ at \in DOMAIN run /\ run[at].do = "release" /\ outcome = "pending"
      /\ open' = Tail(open) /\ borrowed' = borrowed \ run[at].what /\ at' = at + 1 /\ UNCHANGED run
  BY DEF HandlingInv, CallInv, Leave, Here, Passes, What
<1> DEFINE S == { run[i] : i \in DOMAIN run }
<1>2. /\ open \in Seq(S) /\ open = BlocksAt(run, at)
      /\ borrowed \subseteq UNION { b.what : b \in Range(open) }
  BY <1>1 DEF HandlingInv, BlocksInv
<1>3. BlocksAt(run, at + 1) = Tail(open)
  BY <1>1, <1>2, RunIsASequence, BlocksStep DEF HandlingInv, AfterStep
<1>4. open # << >> /\ Head(open).what \subseteq run[at].what
  BY <1>1, <1>2 DEF BorrowsInBlocks, StepsThat
<1> HIDE DEF S
<1>5. open' \in Seq(S) /\ borrowed' \subseteq UNION { b.what : b \in Range(open') }
  BY <1>1, <1>2, <1>4, BlockLeft
<1> QED
  BY <1>1, <1>3, <1>5 DEF S

\* The handler raises: the step it has come to is why.
LEMMA RaisingStep ==
  ASSUME HandlingInv, outcome = "pending", at \in DOMAIN run,
         UNCHANGED << tool, fault, run, at, open, wrote, borrowed, bumped >>,
         \/ outcome' = "argument" /\ (run[at].do = "misreads" \/ (run[at].do = "needs" /\ fault \in run[at].what))
         \/ outcome' = "document" /\ run[at].do = "finds"
         \/ outcome' = "blender" /\ run[at].do = "blender"
  PROVE  HandlingInv'
<1>1. at # 0
  BY DEF HandlingInv, CallInv
<1>2. CallInv' /\ EndInv' /\ BlocksInv'
  BY <1>1 DEF HandlingInv, CallInv, EndInv, BlocksInv, Outcomes, Row
<1>3. SoFarInv'
  BY DEF HandlingInv, SoFarInv, WroteBefore, BumpedBefore, CheckedBefore
<1> QED
  BY <1>2, <1>3 DEF HandlingInv

LEMMA UnwindStep == HandlingInv /\ Unwind => HandlingInv'
<1> SUFFICES ASSUME HandlingInv, Unwind PROVE HandlingInv'
  OBVIOUS
<1>1. /\ outcome \in {"argument", "document", "blender"} /\ open # << >> /\ open' = Tail(open)
      /\ borrowed' = borrowed \ Head(open).what
      /\ UNCHANGED << tool, fault, run, at, wrote, bumped, outcome >>
  BY DEF Unwind
<1>2. at # 0
  BY <1>1 DEF HandlingInv, CallInv
<1>3. CallInv' /\ EndInv'
  BY <1>1, <1>2 DEF HandlingInv, CallInv, EndInv, Row
<1>4. SoFarInv'
  BY <1>1 DEF HandlingInv, SoFarInv, WroteBefore, BumpedBefore, CheckedBefore
<1> DEFINE S == { run[i] : i \in DOMAIN run }
<1>5. ASSUME BorrowsInBlocks(run)
      PROVE  open' \in Seq(S) /\ borrowed' \subseteq UNION { b.what : b \in Range(open') }
  <2>1. open \in Seq(S) /\ borrowed \subseteq UNION { b.what : b \in Range(open) }
    BY <1>2, <1>5 DEF HandlingInv, BlocksInv
  <2> HIDE DEF S
  <2> QED
    BY <1>1, <2>1, BlockLeft
<1>6. BlocksInv'
  BY <1>1, <1>5 DEF BlocksInv
<1> QED
  BY <1>3, <1>4, <1>6 DEF HandlingInv

LEMMA ReturnStep == HandlingInv /\ Return => HandlingInv'
<1> SUFFICES ASSUME HandlingInv, Return PROVE HandlingInv'
  OBVIOUS
<1>1. at # 0 /\ at = Len(run) + 1 /\ outcome' = "ok"
      /\ UNCHANGED << tool, fault, run, at, open, wrote, borrowed, bumped >>
  BY DEF HandlingInv, CallInv, Return
<1>2. CallInv' /\ EndInv' /\ BlocksInv'
  BY <1>1 DEF HandlingInv, CallInv, EndInv, BlocksInv, Outcomes, Row
<1>3. SoFarInv'
  BY <1>1 DEF HandlingInv, SoFarInv, WroteBefore, BumpedBefore, CheckedBefore
<1> QED
  BY <1>2, <1>3 DEF HandlingInv

LEMMA HandlingStep == HandlingInv /\ [Next]_vars => HandlingInv'
<1> SUFFICES ASSUME HandlingInv, [Next]_vars PROVE HandlingInv'
  OBVIOUS
<1>1. ASSUME Check PROVE HandlingInv'
  <2>1. CASE fault \in What
    BY <1>1, <2>1, RaisingStep DEF Check, Here, What, Raises
  <2>2. CASE fault \notin What
    BY <1>1, <2>2, PassingStep, PlainBlocks DEF Check, Here, What, HandlingInv, CallInv
  <2> QED
    BY <2>1, <2>2
<1>2. ASSUME Misread PROVE HandlingInv'
  BY <1>2, RaisingStep DEF Misread, Here, Raises
<1>3. ASSUME Find PROVE HandlingInv'
  <2>1. CASE Passes
    BY <1>3, <2>1, PassingStep, PlainBlocks DEF Find, Here, HandlingInv, CallInv
  <2>2. CASE Raises("document")
    BY <1>3, <2>2, RaisingStep DEF Find, Here, Raises
  <2> QED
    BY <1>3, <2>1, <2>2 DEF Find
<1>4. ASSUME AskBlender PROVE HandlingInv'
  <2>1. CASE Passes
    BY <1>4, <2>1, PassingStep, PlainBlocks DEF AskBlender, Here, HandlingInv, CallInv
  <2>2. CASE Raises("blender")
    BY <1>4, <2>2, RaisingStep DEF AskBlender, Here, Raises
  <2> QED
    BY <1>4, <2>1, <2>2 DEF AskBlender
<1>5. ASSUME ChangeFile PROVE HandlingInv'
  BY <1>5, PassingStep, PlainBlocks DEF ChangeFile, Here, HandlingInv, CallInv
<1>6. ASSUME Bump PROVE HandlingInv'
  BY <1>6, PassingStep, PlainBlocks DEF Bump, Here, HandlingInv, CallInv
<1>7. ASSUME Borrow PROVE HandlingInv'
  BY <1>7, PassingStep, PlainBlocks DEF Borrow, Here, What, HandlingInv, CallInv
<1>8. ASSUME Enter PROVE HandlingInv'
  BY <1>8, PassingStep, EnterBlocks DEF Enter, Here, HandlingInv, CallInv
<1>9. ASSUME Leave PROVE HandlingInv'
  BY <1>9, PassingStep, LeaveBlocks DEF Leave, Here, HandlingInv, CallInv
<1>10. CASE UNCHANGED vars
  <2>1. CallInv' /\ EndInv' /\ BlocksInv'
    BY <1>10 DEF vars, HandlingInv, CallInv, EndInv, BlocksInv, Row
  <2>2. SoFarInv'
    BY <1>10 DEF vars, HandlingInv, SoFarInv, WroteBefore, BumpedBefore, CheckedBefore
  <2> QED
    BY <2>1, <2>2 DEF HandlingInv
<1> QED
  BY <1>1, <1>2, <1>3, <1>4, <1>5, <1>6, <1>7, <1>8, <1>9, <1>10,
     RefuseStep, ForwardStep, UnwindStep, ReturnStep DEF Next

LEMMA CallsAreInOrder == Spec => []HandlingInv
BY StartOfACall, HandlingStep, PTL DEF Spec

-----------------------------------------------------------------------------
(* Handling: what follows from the way handlers are written *)

LEMMA RunIsInOrder ==
  ASSUME HandlerIsInOrder, HandlingInv, at # 0
  PROVE  /\ Row.op = tool
         /\ ChecksComeFirst(Row, run) /\ BumpsAtTheEnd(Row, run)
         /\ BorrowsInBlocks(run) \/ tool \in NotGivenBack
         /\ Row.kind = "READ" /\ StepsThat(run, "writes") # {} => tool \in ReadsThatWrite
BY RowIsOfTheTable DEF HandlerIsInOrder, HandlingInv, CallInv, Row, Kind

(* For whatever tools, if their handlers look at an argument for the first time before      *)
(* they write, but where that is known: an argument error leaves the file as it was.        *)
THEOREM ArgumentErrorsAreHarmless == Spec /\ []HandlerIsInOrder => []ArgumentErrorsWriteNothing
<1>1. HandlerIsInOrder /\ HandlingInv => ArgumentErrorsWriteNothing
  <2> SUFFICES ASSUME HandlerIsInOrder, HandlingInv PROVE ArgumentErrorsWriteNothing
    OBVIOUS
  <2> SUFFICES ASSUME outcome = "argument", wrote # {} PROVE << tool, fault >> \in FoundLate
    BY DEF ArgumentErrorsWriteNothing
  <2>1. at # 0 /\ at \in DOMAIN run /\ WroteBefore(run, at) /\ ~CheckedBefore(run, at, fault)
        /\ fault \notin Row.refused
    BY DEF HandlingInv, CallInv, SoFarInv, EndInv
  <2>2. run[at].do = "misreads" \/ (run[at].do = "needs" /\ fault \in run[at].what)
    BY DEF HandlingInv, EndInv
  <2> QED
    BY <2>1, <2>2, RunIsInOrder DEF ChecksComeFirst
<1> QED
  BY <1>1, CallsAreInOrder, PTL

(* For whatever tools, if their handlers borrow only in blocks that give it back, but for   *)
(* those known not to: what is the user's is the user's again when a call is answered,      *)
(* whatever failed at whatever step.                                                        *)
THEOREM TheUserGetsEverythingBack == Spec /\ []HandlerIsInOrder => []UserGetsBack
<1>1. HandlerIsInOrder /\ HandlingInv => UserGetsBack
  <2> SUFFICES ASSUME HandlerIsInOrder, HandlingInv PROVE UserGetsBack
    OBVIOUS
  <2> SUFFICES ASSUME Answered, borrowed # {} PROVE tool \in NotGivenBack
    BY DEF UserGetsBack
  <2>1. at # 0 /\ open = << >>
    BY DEF HandlingInv, CallInv, Answered
  <2>2. Range(open) = {}
    BY <2>1 DEF Range
  <2>3. ~BorrowsInBlocks(run)
    BY <2>1, <2>2 DEF HandlingInv, BlocksInv
  <2> QED
    BY <2>1, <2>3, RunIsInOrder
<1> QED
  BY <1>1, CallsAreInOrder, PTL

(* For whatever tools, if their handlers advance the revision when they write, but where     *)
(* the event does it, and when nothing can fail any more but a second look at what was made: *)
(* every call that succeeded and wrote is seen by who asks for what changed, and a call that  *)
(* failed is not, but where that look found nothing.                                          *)
THEOREM RevisionsTellOfSuccess == Spec /\ []HandlerIsInOrder => []RevisionTellsOfSuccess
<1>1. HandlerIsInOrder /\ HandlingInv => RevisionTellsOfSuccess
  <2> SUFFICES ASSUME HandlerIsInOrder, HandlingInv PROVE RevisionTellsOfSuccess
    OBVIOUS
  <2>1. ASSUME outcome = "ok", Kind = "WRITE", wrote # {} PROVE bumped \/ tool \in LeftToTheEvent
    <3>1. at # 0 /\ at = Len(run) + 1
      BY <2>1 DEF HandlingInv, CallInv, EndInv
    <3>2. Len(run) \in Nat /\ DOMAIN run = 1..Len(run)
      BY <3>1, RunIsASequence DEF HandlingInv
    <3>3. StepsThat(run, "writes") # {}
      BY <2>1 DEF HandlingInv, SoFarInv, WroteBefore
    <3>4. StepsThat(run, "bumps") # {} \/ tool \in LeftToTheEvent
      BY <2>1, <3>1, <3>3, RunIsInOrder DEF BumpsAtTheEnd, Kind, Row
    <3>5. \A j \in StepsThat(run, "bumps") : j < at
      BY <3>1, <3>2 DEF StepsThat
    <3> QED
      BY <3>4, <3>5 DEF HandlingInv, SoFarInv, BumpedBefore
  <2>2. ASSUME outcome # "pending", outcome # "ok"
        PROVE  ~bumped \/ (outcome = "document" /\ tool \in LooksAgain)
    <3> SUFFICES ASSUME bumped PROVE outcome = "document" /\ tool \in LooksAgain
      OBVIOUS
    <3>1. at # 0
      BY DEF HandlingInv, CallInv
    <3>2. outcome \in {"argument", "document", "blender"}
      BY <2>2, <3>1 DEF HandlingInv, CallInv, Outcomes
    <3>3. at \in DOMAIN run /\ BumpedBefore(run, at) /\ ~CheckedBefore(run, at, fault)
          /\ fault \notin Row.refused
      BY <3>1, <3>2 DEF HandlingInv, CallInv, SoFarInv, EndInv
    <3> QED
      BY <3>1, <3>2, <3>3, RunIsInOrder DEF BumpsAtTheEnd, HandlingInv, EndInv
  <2> QED
    BY <2>1, <2>2 DEF RevisionTellsOfSuccess, Answered
<1> QED
  BY <1>1, CallsAreInOrder, PTL

(* For whatever tools, if no handler of a read has a step that writes, but for those known: *)
(* a read changes nothing, finished or not.                                                 *)
THEOREM ReadsAreReads == Spec /\ []HandlerIsInOrder => []ReadsWriteNothing
<1>1. HandlerIsInOrder /\ HandlingInv => ReadsWriteNothing
  <2> SUFFICES ASSUME HandlerIsInOrder, HandlingInv PROVE ReadsWriteNothing
    OBVIOUS
  <2> SUFFICES ASSUME Kind = "READ", wrote # {} PROVE tool \in ReadsThatWrite
    BY DEF ReadsWriteNothing
  <2>1. at # 0 /\ StepsThat(run, "writes") # {}
    BY DEF HandlingInv, CallInv, SoFarInv, WroteBefore
  <2> QED
    BY <2>1, RunIsInOrder DEF Kind, Row
<1> QED
  BY <1>1, CallsAreInOrder, PTL
=============================================================================
