---------------------------- MODULE Batch_proof -----------------------------
(***************************************************************************)
(* Theorems about Batch, for any number of batches and any plans, faults   *)
(* and actions of the user: types, whose the open transaction is and what  *)
(* a rollback leaves, and what runs and is reported of a batch.            *)
(***************************************************************************)
EXTENDS Batch, WellFoundedInduction, SequenceTheorems, TLAPS

-----------------------------------------------------------------------------
(* The longest run *)

LEMMA LessWellFounded == IsWellFoundedOn({p \in Nat \X Nat : p[1] < p[2]}, Nat)
BY NatLessThanWellFounded DEF OpToRel

LEMMA LeastNat ==
  ASSUME NEW T \in SUBSET Nat, T # {}
  PROVE  \E x \in T : \A y \in T : x <= y
<1> DEFINE R == {p \in Nat \X Nat : p[1] < p[2]}
<1>1. IsWellFoundedOn(R, Nat)
  BY LessWellFounded
<1> HIDE DEF R
<1>2. PICK x \in T : \A y \in T : ~(<<y, x>> \in R)
  BY <1>1, WFMin
<1>3. \A y \in T : ~(y < x)
  BY <1>2 DEF R
<1> QED BY <1>3

LEMMA GreatestNat ==
  ASSUME NEW n \in Nat, NEW T \in SUBSET (0 .. n), T # {}
  PROVE  Max(T) \in T /\ \A y \in T : y <= Max(T)
<1> DEFINE U == {u \in 0 .. n : n - u \in T}
<1>1. \A x \in T : x \in 0 .. n /\ n - x \in 0 .. n /\ n - (n - x) = x
  OBVIOUS
<1>2. \A x \in T : n - x \in U
  BY <1>1
<1>3. U \in SUBSET Nat
  OBVIOUS
<1>4. U # {}
  BY <1>2
<1> HIDE DEF U
<1>5. PICK u \in U : \A y \in U : u <= y
  BY <1>3, <1>4, LeastNat
<1>6. u \in 0 .. n /\ n - u \in T
  BY DEF U
<1>7. \A y \in T : n - u >= y
  BY <1>1, <1>2, <1>5, <1>6
<1> QED BY <1>6, <1>7 DEF Max

LEMMA PlanTypes ==
  ASSUME NEW b \in Batches, plan \in [Batches -> Plans]
  PROVE  Size(b) \in Nat
BY PlanAssumption DEF Size

LEMMA RunEndType ==
  ASSUME NEW b \in Batches, plan \in [Batches -> Plans], NEW i \in Nat \ {0}
  PROVE  RunEnd(b, i) \in Nat
<1> DEFINE T == {i - 1} \cup {j \in i .. Size(b) : \A k \in i .. j : Coalesces(Op(b, k))}
           n == IF i <= Size(b) THEN Size(b) ELSE i
<1>1. n \in Nat /\ T \in SUBSET (0 .. n) /\ T # {}
  BY PlanTypes
<1> HIDE DEF T, n
<1>2. Max(T) \in T /\ T \in SUBSET Nat
  BY <1>1, GreatestNat
<1> QED BY <1>2 DEF RunEnd, T

-----------------------------------------------------------------------------
(* The queue of requests *)

LEMMA AppendFacts ==
  ASSUME NEW S, NEW q \in Seq(S), NEW e \in S
  PROVE  /\ Append(q, e) \in Seq(S)
         /\ DOMAIN Append(q, e) = DOMAIN q \cup {Len(q) + 1}
         /\ Len(q) + 1 \notin DOMAIN q
         /\ \A k \in DOMAIN q : k < Len(q) + 1
         /\ \A k \in DOMAIN q : Append(q, e)[k] = q[k]
         /\ Append(q, e)[Len(q) + 1] = e
OBVIOUS

(* r is q without the element at k; p gives the old positions of what is left. *)
Drops(q, r, k, p) ==
  /\ \A j \in DOMAIN r : p[j] \in DOMAIN q /\ p[j] # k /\ r[j] = q[p[j]]
  /\ \A i, j \in DOMAIN r : i < j => p[i] < p[j]
  /\ \A i \in DOMAIN q : i # k => \E j \in DOMAIN r : p[j] = i

LEMMA DropsElements ==
  ASSUME NEW q, NEW r, NEW k, NEW p, Drops(q, r, k, p)
  PROVE  /\ \A j \in DOMAIN r : p[j] \in DOMAIN q /\ p[j] # k /\ r[j] = q[p[j]]
         /\ \A i \in DOMAIN q : i # k => \E j \in DOMAIN r : r[j] = q[i]
<1>1. \A j \in DOMAIN r : p[j] \in DOMAIN q /\ p[j] # k /\ r[j] = q[p[j]]
  BY DEF Drops
<1>2. ASSUME NEW i \in DOMAIN q, i # k
      PROVE  \E j \in DOMAIN r : r[j] = q[i]
  <2>1. PICK j \in DOMAIN r : p[j] = i
    BY <1>2 DEF Drops
  <2>2. r[j] = q[i]
    BY <1>1, <2>1
  <2> QED BY <2>2
<1> QED BY <1>1, <1>2

LEMMA TailDrops ==
  ASSUME NEW S, NEW q \in Seq(S), q # <<>>
  PROVE  /\ Tail(q) \in Seq(S) /\ 1 \in DOMAIN q /\ Head(q) = q[1] /\ Head(q) \in S
         /\ \A k \in DOMAIN q : k # 1 => 1 < k
         /\ \E p : Drops(q, Tail(q), 1, p)
<1> DEFINE p == [j \in DOMAIN Tail(q) |-> j + 1]
<1>1. /\ Len(q) \in Nat \ {0} /\ DOMAIN q = 1 .. Len(q)
      /\ DOMAIN Tail(q) = 1 .. Len(q) - 1
      /\ \A k \in 1 .. Len(q) - 1 : Tail(q)[k] = q[k + 1]
      /\ Tail(q) \in Seq(S) /\ Head(q) = q[1] /\ q[1] \in S
  OBVIOUS
<1>2. \A i \in 1 .. Len(q) : i # 1 => 1 < i /\ i - 1 \in 1 .. Len(q) - 1 /\ p[i - 1] = i
  BY <1>1
<1>3. \A j \in 1 .. Len(q) - 1 : p[j] = j + 1 /\ j + 1 \in 1 .. Len(q) /\ j + 1 # 1
  BY <1>1
<1>4. \A i, j \in 1 .. Len(q) - 1 : i < j => p[i] < p[j]
  BY <1>1
<1> HIDE DEF p
<1>5. Drops(q, Tail(q), 1, p)
  BY <1>1, <1>2, <1>3, <1>4 DEF Drops
<1> QED BY <1>1, <1>2, <1>5

Without(q, k) == SubSeq(q, 1, k - 1) \o SubSeq(q, k + 1, Len(q))

LEMMA ConcatFacts ==
  ASSUME NEW S, NEW a \in Seq(S), NEW c \in Seq(S)
  PROVE  /\ a \o c \in Seq(S) /\ Len(a \o c) = Len(a) + Len(c)
         /\ DOMAIN (a \o c) = 1 .. Len(a) + Len(c)
         /\ \A j \in 1 .. Len(a) : (a \o c)[j] = a[j]
         /\ \A j \in Len(a) + 1 .. Len(a) + Len(c) : (a \o c)[j] = c[j - Len(a)]
<1>1. a \o c \in Seq(S) /\ Len(a \o c) = Len(a) + Len(c)
  OBVIOUS
<1>2. DOMAIN (a \o c) = 1 .. Len(a) + Len(c)
  OBVIOUS
<1>3. \A j \in 1 .. Len(a) : (a \o c)[j] = a[j]
  OBVIOUS
<1>4. \A j \in Len(a) + 1 .. Len(a) + Len(c) : (a \o c)[j] = c[j - Len(a)]
  OBVIOUS
<1> QED BY <1>1, <1>2, <1>3, <1>4

LEMMA WithoutDrops ==
  ASSUME NEW S, NEW q \in Seq(S), NEW k \in DOMAIN q
  PROVE  Without(q, k) \in Seq(S) /\ \E p : Drops(q, Without(q, k), k, p)
<1> DEFINE a == SubSeq(q, 1, k - 1)
           c == SubSeq(q, k + 1, Len(q))
           p == [j \in 1 .. Len(q) - 1 |-> IF j < k THEN j ELSE j + 1]
<1>1. Len(q) \in Nat \ {0} /\ k \in 1 .. Len(q) /\ DOMAIN q = 1 .. Len(q)
  OBVIOUS
<1>2. a \in Seq(S) /\ Len(a) = k - 1 /\ \A j \in 1 .. k - 1 : a[j] = q[j]
  BY <1>1
<1>3. c \in Seq(S) /\ Len(c) = Len(q) - k /\ \A j \in 1 .. Len(q) - k : c[j] = q[k + j]
  BY <1>1
<1> HIDE DEF a, c
<1>4. /\ a \o c \in Seq(S) /\ Len(a \o c) = Len(a) + Len(c)
      /\ \A j \in 1 .. Len(a) : (a \o c)[j] = a[j]
      /\ \A j \in Len(a) + 1 .. Len(a) + Len(c) : (a \o c)[j] = c[j - Len(a)]
      /\ DOMAIN (a \o c) = 1 .. Len(a) + Len(c)
  <2>1. a \in Seq(S) /\ c \in Seq(S)
    BY <1>2, <1>3
  <2> HIDE DEF p
  <2> QED BY ONLY <2>1, ConcatFacts
<1>5. DOMAIN (a \o c) = 1 .. Len(q) - 1
  BY <1>1, <1>2, <1>3, <1>4
<1>6. ASSUME NEW j \in 1 .. Len(q) - 1
      PROVE  p[j] \in 1 .. Len(q) /\ p[j] # k /\ (a \o c)[j] = q[p[j]]
  <2>1. CASE j < k
    <3>1. p[j] = j /\ j \in 1 .. k - 1
      BY <1>1, <2>1
    <3> QED BY <1>1, <1>2, <1>4, <3>1
  <2>2. CASE j >= k
    <3>1. p[j] = j + 1 /\ j + 1 \in 1 .. Len(q) /\ j + 1 # k
      BY <1>1, <2>2
    <3>2. /\ j \in Len(a) + 1 .. Len(a) + Len(c)
          /\ j - Len(a) \in 1 .. Len(q) - k /\ k + (j - Len(a)) = j + 1
      BY <1>1, <1>2, <1>3, <2>2
    <3> HIDE DEF p
    <3> QED BY <1>3, <1>4, <3>1, <3>2
  <2>3. j < k \/ j >= k
    BY <1>1
  <2> HIDE DEF p
  <2> QED BY <2>1, <2>2, <2>3
<1>7. \A i, j \in 1 .. Len(q) - 1 : i < j => p[i] < p[j]
  BY <1>1
<1>8. ASSUME NEW i \in 1 .. Len(q), i # k
      PROVE  \E j \in 1 .. Len(q) - 1 : p[j] = i
  <2>1. CASE i < k
    <3>1. i \in 1 .. Len(q) - 1 /\ p[i] = i
      BY <1>1, <2>1
    <3> QED BY <3>1
  <2>2. CASE i > k
    <3>1. i - 1 \in 1 .. Len(q) - 1 /\ p[i - 1] = i
      BY <1>1, <2>2
    <3> QED BY <3>1
  <2> QED BY <1>1, <1>8, <2>1, <2>2
<1> HIDE DEF p
<1>9. Drops(q, a \o c, k, p)
  BY <1>1, <1>5, <1>6, <1>7, <1>8 DEF Drops
<1> QED BY <1>4, <1>9 DEF Without, a, c

-----------------------------------------------------------------------------
(* Types, and one awaited request for each caller *)

LEMMA RequestTypes ==
  ASSUME NEW b \in Batches, NEW kind \in {"begin", "step", "commit", "rollback"}
  PROVE  /\ Request(b, kind) \in Requests
         /\ Request(b, kind).by = b /\ Request(b, kind).kind = kind
         /\ Request(b, kind).heard /\ ~Request(b, kind).mark
BY DEF Request, Requests

LEMMA OperationsTypes ==
  ASSUME NEW b \in Batches, NEW i \in Nat, NEW j \in Nat
  PROVE  /\ Operations(b, i, j) \in Requests
         /\ Operations(b, i, j).by = b /\ Operations(b, i, j).kind = "ops"
         /\ Operations(b, i, j).heard
         /\ Operations(b, i, j).mark => Atomic(b)
<1> DEFINE halts == ~CarriesOn(b)
           marked == Atomic(b) /\ i < j
<1>1. halts \in BOOLEAN /\ marked \in BOOLEAN /\ (marked => Atomic(b))
  BY DEF CarriesOn, Atomic
<1>2. Operations(b, i, j) =
        [Request(b, "ops") EXCEPT !.first = i, !.last = j, !.stop = halts, !.mark = marked]
  BY DEF Operations
<1> HIDE DEF halts, marked
<1>3. Operations(b, i, j) =
        [by |-> b, kind |-> "ops", first |-> i, last |-> j, stop |-> halts,
         mark |-> marked, out |-> <<>>, heard |-> TRUE]
  BY <1>2 DEF Request
<1>4. <<>> \in Seq(BOOLEAN)
  OBVIOUS
<1> QED BY <1>1, <1>3, <1>4 DEF Requests

Listening(b) == \E k \in DOMAIN inbox : inbox[k].by = b /\ inbox[k].heard

Single == \A j, k \in DOMAIN inbox :
  inbox[j].by = inbox[k].by /\ inbox[j].heard /\ inbox[k].heard => j = k

\* What a step that touches the queue has to keep of it.
QueueInv ==
  /\ inbox \in Seq(Requests)
  /\ waiting \in [Batches -> BOOLEAN]
  /\ reply \in [Batches -> Seq(BOOLEAN)]
  /\ \A b \in Batches : waiting[b] <=> Listening(b)
  /\ \A b \in Batches : waiting[b] => reply[b] = <<>>
  /\ Single

ServerTypes ==
  /\ plan \in [Batches -> Plans]
  /\ phase \in [Batches -> Phases]
  /\ index \in [Batches -> Nat \ {0}]
  /\ results \in [Batches -> Seq([index : Nat, how : {"ok", "failed", "lost"}])]
  /\ outcome \in [Batches -> Outcomes]

AddonTypes ==
  /\ scene \subseteq Effects
  /\ undo \in Seq(SUBSET Effects) /\ undo # <<>>
  /\ owner \in Batches \cup {None}
  /\ steps \in Nat
  /\ start \subseteq Effects

HistoryTypes ==
  /\ ran \in [Batches -> Seq(Nat)]
  /\ faults \in Nat /\ work \in Nat
  /\ disturbed \subseteq Batches

\* Between two calls nothing is awaited.
Rests == \A b \in Batches : phase[b] \in {"idle", "ready", "over", "done"} => ~waiting[b]

TypeInv == ServerTypes /\ AddonTypes /\ HistoryTypes /\ QueueInv /\ Rests

LEMMA TypeInvTypes == TypeInv => TypeOK
<1> SUFFICES ASSUME TypeInv PROVE TypeOK
  OBVIOUS
<1>1. ASSUME NEW b \in Batches
      PROVE  waiting[b] = (\E k \in DOMAIN inbox : inbox[k].by = b /\ inbox[k].heard)
  <2>1. waiting[b] \in BOOLEAN /\ (waiting[b] <=> Listening(b))
    BY DEF TypeInv, QueueInv
  <2> QED BY <2>1 DEF Listening
<1> QED BY <1>1 DEF TypeInv, ServerTypes, AddonTypes, HistoryTypes, QueueInv, TypeOK

LEMMA TypeInit == Init => TypeInv
<1> SUFFICES ASSUME Init PROVE TypeInv
  OBVIOUS
<1> USE DEF Init, TransactionInit
<1>1. ServerTypes
  BY DEF ServerTypes, Phases, Outcomes
<1>2. AddonTypes /\ HistoryTypes
  BY DEF AddonTypes, HistoryTypes
<1>3. QueueInv /\ Rests
  BY DEF QueueInv, Listening, Single, Rests
<1> QED BY <1>1, <1>2, <1>3 DEF TypeInv

LEMMA SendKeepsQueue ==
  ASSUME QueueInv, NEW b \in Batches, ~waiting[b],
         NEW r \in Requests, r.by = b, r.heard, Send(b, r)
  PROVE  QueueInv' /\ \A c \in Batches \ {b} : waiting'[c] = waiting[c] /\ reply'[c] = reply[c]
<1> DEFINE n == Len(inbox) + 1
<1>1. /\ inbox' \in Seq(Requests)
      /\ DOMAIN inbox' = DOMAIN inbox \cup {n} /\ n \notin DOMAIN inbox
      /\ \A k \in DOMAIN inbox : inbox'[k] = inbox[k]
      /\ inbox'[n] = r
  BY AppendFacts DEF QueueInv, Send
<1> HIDE DEF n
<1>2. /\ waiting' = [waiting EXCEPT ![b] = TRUE] /\ reply' = [reply EXCEPT ![b] = <<>>]
      /\ <<>> \in Seq(BOOLEAN)
  BY DEF Send
<1>3. waiting' \in [Batches -> BOOLEAN] /\ reply' \in [Batches -> Seq(BOOLEAN)]
  BY <1>2 DEF QueueInv
<1>4. ASSUME NEW c \in Batches PROVE waiting'[c] <=> Listening(c)'
  <2>1. CASE c = b
    <3>1. waiting'[b]
      BY <1>2 DEF QueueInv
    <3>2. Listening(b)'
      BY <1>1 DEF Listening
    <3> QED BY <2>1, <3>1, <3>2
  <2>2. CASE c # b
    <3>1. waiting'[c] = waiting[c]
      BY <1>2, <2>2 DEF QueueInv
    <3>2. Listening(c)' <=> Listening(c)
      BY <1>1, <2>2 DEF Listening
    <3> QED BY <3>1, <3>2 DEF QueueInv
  <2> QED BY <2>1, <2>2
<1>5. \A c \in Batches : waiting'[c] => reply'[c] = <<>>
  BY <1>2 DEF QueueInv
<1>6. ~Listening(b)
  BY DEF QueueInv
<1>7. Single'
  BY <1>1, <1>6 DEF QueueInv, Single, Listening
<1>8. \A c \in Batches \ {b} : waiting'[c] = waiting[c] /\ reply'[c] = reply[c]
  BY <1>2 DEF QueueInv
<1> QED BY <1>1, <1>3, <1>4, <1>5, <1>7, <1>8 DEF QueueInv

\* The queue without the request at k, and its caller no longer waiting if it was heard.
LEMMA DropKeepsQueue ==
  ASSUME QueueInv, inbox' \in Seq(Requests), NEW k \in DOMAIN inbox, NEW p,
         Drops(inbox, inbox', k, p),
         waiting' \in [Batches -> BOOLEAN], reply' \in [Batches -> Seq(BOOLEAN)],
         \A c \in Batches :
           waiting'[c] = (IF inbox[k].heard /\ c = inbox[k].by THEN FALSE ELSE waiting[c]),
         \A c \in Batches : waiting'[c] => reply'[c] = reply[c]
  PROVE  QueueInv'
<1>1. \A c \in Batches : waiting'[c] => reply'[c] = <<>>
  BY DEF QueueInv
<1>2. ASSUME NEW c \in Batches PROVE waiting'[c] <=> Listening(c)'
  <2>1. CASE inbox[k].heard /\ c = inbox[k].by
    <3>1. \A j \in DOMAIN inbox' : ~(inbox'[j].by = c /\ inbox'[j].heard)
      <4> SUFFICES ASSUME NEW j \in DOMAIN inbox', inbox'[j].by = c, inbox'[j].heard
                   PROVE  FALSE
        OBVIOUS
      <4>1. p[j] \in DOMAIN inbox /\ p[j] # k /\ inbox'[j] = inbox[p[j]]
        BY DropsElements
      <4>2. inbox[p[j]].by = inbox[k].by /\ inbox[p[j]].heard /\ inbox[k].heard
        BY <2>1, <4>1
      <4>3. p[j] = k
        BY <4>1, <4>2 DEF QueueInv, Single
      <4> QED BY <4>1, <4>3
    <3> QED BY <2>1, <3>1 DEF Listening
  <2>2. CASE ~(inbox[k].heard /\ c = inbox[k].by)
    <3>1. Listening(c)' <=> Listening(c)
      <4>1. \A j \in DOMAIN inbox' : p[j] \in DOMAIN inbox /\ inbox'[j] = inbox[p[j]]
        BY DropsElements
      <4>2. \A i \in DOMAIN inbox : i # k => \E j \in DOMAIN inbox' : inbox'[j] = inbox[i]
        BY DropsElements
      <4>3. Listening(c)' => Listening(c)
        BY <4>1 DEF Listening
      <4>4. ASSUME Listening(c) PROVE Listening(c)'
        <5>1. PICK i \in DOMAIN inbox : inbox[i].by = c /\ inbox[i].heard
          BY <4>4 DEF Listening
        <5>2. i # k
          BY <2>2, <5>1
        <5>3. PICK j \in DOMAIN inbox' : inbox'[j] = inbox[i]
          BY <4>2, <5>2
        <5> QED BY <5>1, <5>3 DEF Listening
      <4> QED BY <4>3, <4>4
    <3> QED BY <2>2, <3>1 DEF QueueInv
  <2> QED BY <2>1, <2>2
<1>3. Single'
  <2> SUFFICES ASSUME NEW i \in DOMAIN inbox', NEW j \in DOMAIN inbox',
                      inbox'[i].by = inbox'[j].by, inbox'[i].heard, inbox'[j].heard
               PROVE  i = j
    BY DEF Single
  <2>1. p[i] = p[j]
    BY DEF Drops, QueueInv, Single
  <2>2. i \in Int /\ j \in Int /\ p[i] \in Int /\ p[j] \in Int
    BY DEF Drops, QueueInv
  <2> QED BY <2>1, <2>2 DEF Drops
<1> QED BY <1>1, <1>2, <1>3 DEF QueueInv

LEMMA AnswerKeepsQueue ==
  ASSUME QueueInv, inbox # <<>>, NEW answer \in Seq(BOOLEAN), Answer(answer)
  PROVE  /\ QueueInv'
         /\ \A c \in Batches : waiting'[c] => waiting[c]
<1>1. PICK p : Drops(inbox, Tail(inbox), 1, p)
  BY TailDrops DEF QueueInv
<1>2. /\ Tail(inbox) \in Seq(Requests) /\ 1 \in DOMAIN inbox
      /\ Head(inbox) = inbox[1] /\ Head(inbox) \in Requests
  BY TailDrops DEF QueueInv
<1>3. inbox' = Tail(inbox)
  BY DEF Answer
<1>4. inbox[1].by \in Batches /\ inbox[1].heard \in BOOLEAN
  BY <1>2 DEF Requests
<1>5. CASE inbox[1].heard
  <2>1. /\ waiting' = [waiting EXCEPT ![inbox[1].by] = FALSE]
        /\ reply' = [reply EXCEPT ![inbox[1].by] = answer] \/ reply' = reply
    BY <1>2, <1>5 DEF Answer, Awaited
  <2>2. /\ waiting' \in [Batches -> BOOLEAN] /\ reply' \in [Batches -> Seq(BOOLEAN)]
        /\ \A c \in Batches :
             waiting'[c] = (IF inbox[1].heard /\ c = inbox[1].by THEN FALSE ELSE waiting[c])
        /\ \A c \in Batches : waiting'[c] => reply'[c] = reply[c]
    BY <1>4, <1>5, <2>1 DEF QueueInv
  <2>3. QueueInv'
    BY <1>1, <1>2, <1>3, <2>2, DropKeepsQueue
  <2> QED BY <2>2, <2>3
<1>6. CASE ~inbox[1].heard
  <2>1. waiting' = waiting /\ reply' = reply
    BY <1>2, <1>6 DEF Answer, Awaited
  <2>2. QueueInv'
    BY <1>1, <1>2, <1>3, <1>6, <2>1, DropKeepsQueue DEF QueueInv
  <2> QED BY <2>1, <2>2
<1> QED BY <1>5, <1>6

LEMMA ReportTypes ==
  ASSUME ServerTypes, NEW b \in Batches, NEW how \in {"ok", "failed", "lost"}, Report(b, how)
  PROVE  results' \in [Batches -> Seq([index : Nat, how : {"ok", "failed", "lost"}])]
BY DEF ServerTypes, Report

LEMMA FunctionsAreSequences ==
  ASSUME NEW S, NEW n \in Nat, NEW f \in [1 .. n -> S]
  PROVE  f \in Seq(S)
OBVIOUS

LEMMA EntriesTypes ==
  ASSUME NEW b \in Batches, index[b] \in Nat, reply[b] \in Seq(BOOLEAN)
  PROVE  Entries(b) \in Seq([index : Nat, how : {"ok", "failed", "lost"}])
<1>1. Len(reply[b]) \in Nat /\ DOMAIN reply[b] = 1 .. Len(reply[b])
  OBVIOUS
<1>2. \A k \in 1 .. Len(reply[b]) : index[b] + k - 1 \in Nat
  BY <1>1
<1>3. Entries(b) \in [1 .. Len(reply[b]) -> [index : Nat, how : {"ok", "failed", "lost"}]]
  BY <1>1, <1>2 DEF Entries
<1> QED BY <1>1, <1>3, FunctionsAreSequences

LEMMA ServerSendTypes ==
  ASSUME TypeInv, NEW b \in Batches, NEW r \in Requests, r.by = b, r.heard,
         ~waiting[b], Send(b, r), ServerTypes', AddonTypes', HistoryTypes',
         phase'[b] \notin {"idle", "ready", "over", "done"},
         \A c \in Batches \ {b} : phase'[c] = phase[c]
  PROVE  TypeInv'
<1>1. QueueInv' /\ \A c \in Batches \ {b} : waiting'[c] = waiting[c]
  BY SendKeepsQueue DEF TypeInv
<1>2. Rests'
  BY <1>1 DEF TypeInv, Rests
<1> QED BY <1>1, <1>2 DEF TypeInv

LEMMA ServerTypesNext ==
  ASSUME TypeInv, NEW b \in Batches, Server(b)
  PROVE  TypeInv'
<1> USE DEF TypeInv, Goto, Phases, Outcomes
<1>1. AddonTypes' /\ HistoryTypes'
  BY DEF Server, Refuse, Open, Opened, Start, SendRun, RunLost, RunAnswered, FailHere, SendOne,
         OneAnswered, Marked, Finish, Close, Closed, Quiet, transactionVars, AddonTypes,
         HistoryTypes
<1>2. phase[b] \in {"idle", "ready", "over", "done"} => ~waiting[b]
  BY DEF Rests
<1>3. ASSUME UNCHANGED <<inbox, waiting, reply>>, ServerTypes', ~waiting[b],
             \A c \in Batches \ {b} : phase'[c] = phase[c]
      PROVE  TypeInv'
  <2>1. QueueInv'
    BY <1>3 DEF QueueInv, Listening, Single
  <2>2. Rests'
    BY <1>3 DEF Rests
  <2> QED BY <1>1, <1>3, <2>1, <2>2
<1> USE DEF ServerTypes
<1>4. CASE Refuse(b)  BY <1>2, <1>3, <1>4 DEF Refuse
<1>5. CASE Open(b)
  <2>1. ServerTypes' /\ phase'[b] = "opening" /\ \A c \in Batches \ {b} : phase'[c] = phase[c]
    BY <1>5 DEF Open
  <2> QED BY <1>1, <1>2, <1>5, <2>1, RequestTypes, ServerSendTypes DEF Open
<1>6. CASE Opened(b)  BY <1>3, <1>6 DEF Opened
<1>7. CASE Start(b)   BY <1>2, <1>3, <1>7 DEF Start
<1>8. CASE SendRun(b)
  <2>1. ServerTypes' /\ phase'[b] = "run" /\ \A c \in Batches \ {b} : phase'[c] = phase[c]
    BY <1>8 DEF SendRun
  <2>2. index[b] \in Nat /\ RunEnd(b, index[b]) \in Nat
    BY RunEndType
  <2> DEFINE r == Operations(b, index[b], RunEnd(b, index[b]))
  <2>3. r \in Requests /\ r.by = b /\ r.heard
    BY <2>2, OperationsTypes
  <2>4. Send(b, r) /\ ~waiting[b]
    BY <1>2, <1>8 DEF SendRun, InRange
  <2> HIDE DEF r
  <2> QED BY <1>1, <2>1, <2>3, <2>4, ServerSendTypes
<1>9. CASE RunLost(b)
  <2>1. results' \in [Batches -> Seq([index : Nat, how : {"ok", "failed", "lost"}])]
    BY <1>9, ReportTypes DEF RunLost
  <2> QED BY <1>3, <1>9, <2>1 DEF RunLost
<1>10. CASE RunAnswered(b)
  <2>1. Entries(b) \in Seq([index : Nat, how : {"ok", "failed", "lost"}]) /\ Consumed(b) \in Nat
    BY EntriesTypes DEF QueueInv, Consumed
  <2>2. results' \in [Batches -> Seq([index : Nat, how : {"ok", "failed", "lost"}])]
    BY <1>10, <2>1, ConcatFacts DEF RunAnswered
  <2>3. index[b] + Consumed(b) \in Nat \ {0}
    BY <2>1
  <2>4. \/ UNCHANGED index /\ phase' = [phase EXCEPT ![b] = "over"]
        \/ /\ index' = [index EXCEPT ![b] = @ + Consumed(b)]
           /\ phase' = [phase EXCEPT ![b] = "ready"]
    BY <1>10 DEF RunAnswered
  <2>5. UNCHANGED <<plan, outcome, inbox, waiting, reply>> /\ ~waiting[b]
    BY <1>10 DEF RunAnswered
  <2>6. ServerTypes' /\ \A c \in Batches \ {b} : phase'[c] = phase[c]
    BY <2>2, <2>3, <2>4, <2>5
  <2> QED BY <1>3, <2>5, <2>6
<1>11. CASE FailHere(b)
  <2>1. results' \in [Batches -> Seq([index : Nat, how : {"ok", "failed", "lost"}])]
    BY <1>11, ReportTypes DEF FailHere
  <2>2. ServerTypes' /\ \A c \in Batches \ {b} : phase'[c] = phase[c]
    <3>1. /\ index' = index \/ index' = [index EXCEPT ![b] = @ + 1]
          /\ phase' = [phase EXCEPT ![b] = "over"] \/ phase' = [phase EXCEPT ![b] = "ready"]
      BY <1>11 DEF FailHere, AfterFailure
    <3>2. UNCHANGED <<plan, outcome>>
      BY <1>11 DEF FailHere
    <3>3. index' \in [Batches -> Nat \ {0}]
      <4>1. index[b] + 1 \in Nat \ {0}
        OBVIOUS
      <4> QED BY <3>1, <4>1
    <3>4. phase' \in [Batches -> Phases] /\ \A c \in Batches \ {b} : phase'[c] = phase[c]
      BY <3>1
    <3> QED BY <2>1, <3>2, <3>3, <3>4
  <2> QED BY <1>2, <1>3, <1>11, <2>2 DEF FailHere, Alone, InRange
<1>12. CASE SendOne(b)
  <2>1. ServerTypes' /\ phase'[b] = "one" /\ \A c \in Batches \ {b} : phase'[c] = phase[c]
    BY <1>12 DEF SendOne
  <2> DEFINE r == Operations(b, index[b], index[b])
  <2>2. r \in Requests /\ r.by = b /\ r.heard
    BY OperationsTypes
  <2>3. Send(b, r) /\ ~waiting[b]
    BY <1>2, <1>12 DEF SendOne, Alone, InRange
  <2> HIDE DEF r
  <2> QED BY <1>1, <2>1, <2>2, <2>3, ServerSendTypes
<1>13. CASE OneAnswered(b)
  <2>1. PICK how \in {"ok", "failed", "lost"} : Report(b, how)
    BY <1>13 DEF OneAnswered
  <2>2. results' \in [Batches -> Seq([index : Nat, how : {"ok", "failed", "lost"}])]
    BY <2>1, ReportTypes
  <2>3. ServerTypes' /\ \A c \in Batches \ {b} : phase'[c] = phase[c]
    <3>1. /\ index' = index \/ index' = [index EXCEPT ![b] = @ + 1]
          /\ \/ phase' = [phase EXCEPT ![b] = "marking"] \/ phase' = [phase EXCEPT ![b] = "over"]
             \/ phase' = [phase EXCEPT ![b] = "ready"]
      BY <1>13 DEF OneAnswered, AfterFailure
    <3>2. UNCHANGED <<plan, outcome>>
      BY <1>13 DEF OneAnswered
    <3>3. index' \in [Batches -> Nat \ {0}]
      <4>1. index[b] + 1 \in Nat \ {0}
        OBVIOUS
      <4> QED BY <3>1, <4>1
    <3>4. phase' \in [Batches -> Phases] /\ \A c \in Batches \ {b} : phase'[c] = phase[c]
      BY <3>1
    <3> QED BY <2>2, <3>2, <3>3, <3>4
  <2>4. CASE Send(b, Request(b, "step")) /\ phase'[b] = "marking"
    <3> DEFINE r == Request(b, "step")
    <3>1. r \in Requests /\ r.by = b /\ r.heard
      BY RequestTypes
    <3>2. Send(b, r) /\ ~waiting[b]
      BY <1>13, <2>4 DEF OneAnswered
    <3> HIDE DEF r
    <3> QED BY <1>1, <2>3, <2>4, <3>1, <3>2, ServerSendTypes
  <2>5. CASE UNCHANGED <<inbox, waiting, reply>>
    BY <1>3, <1>13, <2>3, <2>5 DEF OneAnswered
  <2> QED BY <1>13, <2>4, <2>5 DEF OneAnswered
<1>14. CASE Marked(b)  BY <1>3, <1>14 DEF Marked
<1>15. CASE Finish(b)  BY <1>2, <1>3, <1>15 DEF Finish, Leaving
<1>16. CASE Close(b)
  <2>1. ServerTypes' /\ phase'[b] = "closing" /\ \A c \in Batches \ {b} : phase'[c] = phase[c]
    BY <1>16 DEF Close
  <2> QED BY <1>1, <1>2, <1>16, <2>1, RequestTypes, ServerSendTypes DEF Close, Leaving
<1>17. CASE Closed(b)  BY <1>3, <1>17 DEF Closed
<1> QED BY <1>4, <1>5, <1>6, <1>7, <1>8, <1>9, <1>10, <1>11, <1>12, <1>13, <1>14, <1>15, <1>16,
           <1>17 DEF Server

\* The request at k, rewritten.
LEMMA RewriteFacts ==
  ASSUME NEW k \in DOMAIN inbox, inbox \in Seq(Requests), NEW r \in Requests,
         r.by = inbox[k].by
  PROVE  /\ [inbox EXCEPT ![k] = r] \in Seq(Requests)
         /\ DOMAIN [inbox EXCEPT ![k] = r] = DOMAIN inbox
         /\ \A j \in DOMAIN inbox : [inbox EXCEPT ![k] = r][j] = IF j = k THEN r ELSE inbox[j]
OBVIOUS

LEMMA AnswerTypes ==
  ASSUME TypeInv, inbox # <<>>, NEW answer \in Seq(BOOLEAN), Answer(answer), AddonTypes',
         ran' \in [Batches -> Seq(Nat)], UNCHANGED <<work, disturbed>>
  PROVE  TypeInv'
<1>1. QueueInv' /\ \A c \in Batches : waiting'[c] => waiting[c]
  BY AnswerKeepsQueue DEF TypeInv
<1>2. UNCHANGED <<plan, phase, index, results, outcome>>
  BY DEF Answer
<1>3. faults' \in Nat
  BY DEF Answer, TypeInv, HistoryTypes
<1>4. Rests'
  BY <1>1, <1>2 DEF TypeInv, Rests
<1> QED BY <1>1, <1>2, <1>3, <1>4 DEF TypeInv, ServerTypes, HistoryTypes

LEMMA PushTypes ==
  ASSUME AddonTypes, NEW now \in SUBSET Effects
  PROVE  Append(undo, now) \in Seq(SUBSET Effects) /\ Append(undo, now) # <<>>
BY DEF AddonTypes

LEMMA UndoTypes ==
  ASSUME AddonTypes, NEW n \in Nat, n < Len(undo)
  PROVE  /\ undo[Len(undo) - n] \in SUBSET Effects
         /\ SubSeq(undo, 1, Len(undo) - n) \in Seq(SUBSET Effects)
         /\ SubSeq(undo, 1, Len(undo) - n) # <<>>
         /\ Len(SubSeq(undo, 1, Len(undo) - n)) = Len(undo) - n
         /\ \A k \in 1 .. Len(undo) - n : SubSeq(undo, 1, Len(undo) - n)[k] = undo[k]
<1>1. undo \in Seq(SUBSET Effects) /\ Len(undo) \in Nat /\ Len(undo) - n \in 1 .. Len(undo)
  BY DEF AddonTypes
<1> DEFINE T == SUBSET Effects
           m == Len(undo) - n
<1>2. undo \in Seq(T) /\ m \in 1 .. Len(undo)
  BY <1>1
<1> HIDE DEF T, m
<1>3. /\ undo[m] \in T /\ SubSeq(undo, 1, m) \in Seq(T) /\ Len(SubSeq(undo, 1, m)) = m
      /\ \A k \in 1 .. m : SubSeq(undo, 1, m)[k] = undo[k]
  BY <1>2
<1>4. SubSeq(undo, 1, m) # <<>>
  BY <1>2, <1>3
<1> QED BY <1>3, <1>4 DEF T, m

\* What a rollback leaves of the stack.
Undone == LET below == Len(undo) - 1 IN IF below < Undos THEN below ELSE Undos

LEMMA UndoneType == AddonTypes => Undone \in Nat /\ Undone < Len(undo)
<1> SUFFICES ASSUME AddonTypes PROVE Undone \in Nat /\ Undone < Len(undo)
  OBVIOUS
<1>1. Len(undo) \in Nat \ {0} /\ steps \in Nat
  BY DEF AddonTypes
<1> QED BY <1>1 DEF Undone, Undos

LEMMA HeadTypes ==
  ASSUME inbox \in Seq(Requests), inbox # <<>>
  PROVE  /\ Head(inbox) \in Requests /\ Head(inbox) = inbox[1] /\ 1 \in DOMAIN inbox
         /\ Head(inbox).by \in Batches /\ Head(inbox).first \in Nat
         /\ Head(inbox).out \in Seq(BOOLEAN)
<1>1. Head(inbox) \in Requests /\ Head(inbox) = inbox[1] /\ 1 \in DOMAIN inbox
  BY TailDrops
<1> QED BY <1>1 DEF Requests

LEMMA TransactTypes == TypeInv /\ Transact => TypeInv'
<1> SUFFICES ASSUME TypeInv, Transact PROVE TypeInv'
  OBVIOUS
<1>1. Head(inbox) \in Requests /\ Head(inbox).by \in Batches /\ inbox # <<>>
  BY HeadTypes DEF TypeInv, QueueInv, Transact
<1>2. PICK ok \in BOOLEAN :
        /\ \/ Begin(Head(inbox).by, ok)
           \/ Step(ok)
           \/ Commit(ok)
           \/ Rollback(ok)
        /\ Respond(ok)
  BY DEF Transact
<1>3. AddonTypes'
  <2>1. AddonTypes
    BY DEF TypeInv
  <2>2. CASE Begin(Head(inbox).by, ok)
    BY <1>1, <2>1, <2>2, PushTypes DEF Begin, UndoPush, AddonTypes
  <2>3. CASE Step(ok)
    <3>1. scene \in SUBSET Effects /\ steps + 1 \in Nat
      BY <2>1 DEF AddonTypes
    <3>2. Append(undo, scene) \in Seq(SUBSET Effects) /\ Append(undo, scene) # <<>>
      BY <2>1, <3>1, PushTypes
    <3>3. \/ UNCHANGED <<undo, steps>>
          \/ undo' = Append(undo, scene) /\ steps' = steps + 1
      BY <2>3 DEF Step, Mark, UndoPush
    <3>4. UNCHANGED <<scene, owner, start>>
      BY <2>3 DEF Step
    <3> QED BY <2>1, <3>1, <3>2, <3>3, <3>4 DEF AddonTypes
  <2>4. CASE Commit(ok)
    BY <2>1, <2>4 DEF Commit, AddonTypes
  <2>5. CASE Rollback(ok)
    <3>1. CASE owner = None
      BY <2>1, <2>5, <3>1 DEF Rollback, transactionVars, AddonTypes
    <3>2. CASE owner # None
      <4>1. /\ scene' = (IF Undone = 0 THEN scene ELSE undo[Len(undo) - Undone])
            /\ undo' = SubSeq(undo, 1, Len(undo) - Undone)
            /\ owner' = None /\ UNCHANGED <<steps, start>>
        BY <2>5, <3>2 DEF Rollback, Undone
      <4> QED BY <2>1, <4>1, UndoneType, UndoTypes DEF AddonTypes
    <3> QED BY <3>1, <3>2
  <2> QED BY <1>2, <2>2, <2>3, <2>4, <2>5
<1>4. <<ok>> \in Seq(BOOLEAN) /\ Answer(<<ok>>)
  BY <1>2 DEF Respond
<1>5. ran' \in [Batches -> Seq(Nat)] /\ UNCHANGED <<work, disturbed>>
  BY DEF Transact, TypeInv, HistoryTypes
<1> QED BY <1>1, <1>3, <1>4, <1>5, AnswerTypes

LEMMA RunNextTypes == TypeInv /\ RunNext => TypeInv'
<1> SUFFICES ASSUME TypeInv, RunNext PROVE TypeInv'
  OBVIOUS
<1> DEFINE r == Head(inbox)
           i == r.first + Len(r.out)
<1>1. /\ r = inbox[1] /\ r \in Requests /\ 1 \in DOMAIN inbox /\ inbox # <<>>
      /\ r.by \in Batches /\ i \in Nat /\ r.out \in Seq(BOOLEAN)
  BY HeadTypes DEF TypeInv, QueueInv, RunNext
<1>2. PICK how \in {"ok", "failed", "half"} :
        LET out == Append(r.out, how = "ok")
        IN  /\ Perform(r.by, i, how, r.mark)
            /\ IF Ends(r, i, how)
               THEN Answer(out)
               ELSE inbox' = [inbox EXCEPT ![1].out = out] /\ UNCHANGED <<serverVars, faults>>
  BY DEF RunNext
<1> DEFINE out == Append(r.out, how = "ok")
<1>3. out \in Seq(BOOLEAN)
  BY <1>1
<1>4. UNCHANGED <<work, disturbed>>
  BY DEF RunNext
<1>5. Perform(r.by, i, how, r.mark)
  BY <1>2
<1>6. Answer(out) \/ (inbox' = [inbox EXCEPT ![1].out = out] /\ UNCHANGED <<serverVars, faults>>)
  BY <1>2
<1> HIDE DEF r, i, out
<1>7. AddonTypes' /\ ran' \in [Batches -> Seq(Nat)]
  <2>1. <<r.by, i>> \in Effects /\ scene \in SUBSET Effects /\ steps + 1 \in Nat
    BY <1>1 DEF Effects, TypeInv, AddonTypes
  <2>2. scene' \in SUBSET Effects
    BY <1>5, <2>1 DEF Perform
  <2>3. Append(undo, scene') \in Seq(SUBSET Effects) /\ Append(undo, scene') # <<>>
    BY <2>2, PushTypes DEF TypeInv
  <2>4. UNCHANGED <<undo, steps>> \/ (undo' = Append(undo, scene') /\ steps' = steps + 1)
    BY <1>5 DEF Perform, Mark, UndoPush
  <2>5. UNCHANGED <<owner, start>>
    BY <1>5 DEF Perform
  <2>6. AddonTypes'
    BY <2>1, <2>2, <2>3, <2>4, <2>5 DEF TypeInv, AddonTypes
  <2>7. ran' = [ran EXCEPT ![r.by] = Append(@, i)]
    BY <1>5 DEF Perform
  <2>8. ran[r.by] \in Seq(Nat)
    BY <1>1 DEF TypeInv, HistoryTypes
  <2>9. Append(ran[r.by], i) \in Seq(Nat)
    BY <1>1, <2>8
  <2> QED BY <2>6, <2>7, <2>9 DEF TypeInv, HistoryTypes
<1>8. CASE Answer(out)
  BY <1>1, <1>3, <1>4, <1>7, <1>8, AnswerTypes
<1>9. CASE inbox' = [inbox EXCEPT ![1].out = out] /\ UNCHANGED <<serverVars, faults>>
  <2>1. [inbox[1] EXCEPT !.out = out] \in Requests
    BY <1>1, <1>3 DEF Requests
  <2>2. /\ inbox' \in Seq(Requests) /\ DOMAIN inbox' = DOMAIN inbox
        /\ \A k \in DOMAIN inbox : inbox'[k].by = inbox[k].by /\ inbox'[k].heard = inbox[k].heard
    BY <1>1, <1>9, <2>1, RewriteFacts DEF TypeInv, QueueInv
  <2>3. QueueInv'
    BY <1>9, <2>2 DEF TypeInv, QueueInv, Listening, Single, serverVars
  <2> QED BY <1>4, <1>7, <1>9, <2>3 DEF TypeInv, ServerTypes, HistoryTypes, Rests, serverVars
<1> QED BY <1>6, <1>8, <1>9

LEMMA FailRests ==
  ASSUME TypeInv, QueueInv', \A c \in Batches : waiting'[c] => waiting[c], faults' \in Nat,
         UNCHANGED <<plan, phase, index, results, outcome, ran, work, disturbed>>,
         UNCHANGED transactionVars
  PROVE  TypeInv'
BY DEF TypeInv, ServerTypes, AddonTypes, HistoryTypes, Rests, transactionVars

LEMMA FailTypes ==
  ASSUME TypeInv, NEW b \in Batches, Fail(b)
  PROVE  TypeInv'
<1>1. /\ faults' \in Nat /\ waiting' = [waiting EXCEPT ![b] = FALSE]
      /\ UNCHANGED <<plan, phase, index, results, reply, outcome, ran, work, disturbed>>
      /\ UNCHANGED transactionVars
  BY DEF Fail, TypeInv, HistoryTypes
<1>2. /\ waiting' \in [Batches -> BOOLEAN]
      /\ \A c \in Batches : waiting'[c] = (IF c = b THEN FALSE ELSE waiting[c])
  BY <1>1 DEF TypeInv, QueueInv
<1>3. PICK k \in DOMAIN inbox :
        /\ inbox[k].by = b /\ inbox[k].heard
        /\ \/ inbox' = [inbox EXCEPT ![k].heard = FALSE]
           \/ inbox' = Without(inbox, k)
  BY DEF Fail, Without
<1>4. inbox \in Seq(Requests) /\ inbox[k] \in Requests
  BY DEF TypeInv, QueueInv
<1>5. CASE inbox' = Without(inbox, k)
  <2>1. inbox' \in Seq(Requests) /\ \E p : Drops(inbox, inbox', k, p)
    BY <1>4, <1>5, WithoutDrops
  <2>2. PICK p : Drops(inbox, inbox', k, p)
    BY <2>1
  <2>3. QueueInv /\ reply' \in [Batches -> Seq(BOOLEAN)]
    BY <1>1 DEF TypeInv, QueueInv
  <2> QED BY <1>1, <1>2, <1>3, <2>1, <2>2, <2>3, DropKeepsQueue, FailRests
<1>6. CASE inbox' = [inbox EXCEPT ![k].heard = FALSE]
  <2> DEFINE r == [inbox[k] EXCEPT !.heard = FALSE]
  <2>1. r \in Requests /\ r.by = inbox[k].by /\ ~r.heard
    BY <1>4 DEF Requests
  <2>2. inbox' = [inbox EXCEPT ![k] = r]
    BY <1>6
  <2> HIDE DEF r
  <2>3. /\ inbox' \in Seq(Requests) /\ DOMAIN inbox' = DOMAIN inbox
        /\ \A j \in DOMAIN inbox : inbox'[j] = IF j = k THEN r ELSE inbox[j]
    BY <1>4, <2>1, <2>2, RewriteFacts
  <2>4. \A j \in DOMAIN inbox : inbox[j].by = b /\ inbox[j].heard => j = k
    BY <1>3 DEF TypeInv, QueueInv, Single
  <2>5. ASSUME NEW c \in Batches PROVE waiting'[c] <=> Listening(c)'
    <3>1. CASE c = b
      BY <1>2, <2>1, <2>3, <2>4, <3>1 DEF Listening
    <3>2. CASE c # b
      <4>1. Listening(c)' <=> Listening(c)
        BY <1>3, <2>1, <2>3, <3>2 DEF Listening
      <4> QED BY <1>2, <3>2, <4>1 DEF TypeInv, QueueInv
    <3> QED BY <3>1, <3>2
  <2>6. Single'
    BY <2>1, <2>3 DEF TypeInv, QueueInv, Single
  <2>7. \A c \in Batches : waiting'[c] => reply'[c] = <<>>
    BY <1>1, <1>2 DEF TypeInv, QueueInv
  <2>8. QueueInv'
    BY <1>1, <1>2, <2>3, <2>5, <2>6, <2>7 DEF TypeInv, QueueInv
  <2> QED BY <1>1, <1>2, <2>8, FailRests
<1> QED BY <1>3, <1>5, <1>6

LEMMA UserTypes == TypeInv /\ User => TypeInv'
<1> SUFFICES ASSUME TypeInv, User PROVE TypeInv'
  OBVIOUS
<1>1. work' \in Nat /\ UNCHANGED <<serverVars, inbox, ran, faults>>
  BY DEF User, TypeInv, HistoryTypes
<1>2. disturbed' \subseteq Batches
  BY DEF User, TypeInv, HistoryTypes, AddonTypes
<1>3. QueueInv' /\ Rests' /\ ServerTypes'
  BY <1>1 DEF serverVars, TypeInv, QueueInv, Listening, Single, Rests, ServerTypes
<1>4. AddonTypes'
  <2>1. CASE UserEdits(<<"user", work>>)
    <3>1. <<"user", work>> \in Effects /\ scene \in SUBSET Effects
      BY DEF TypeInv, HistoryTypes, AddonTypes, Effects
    <3>2. scene' \in SUBSET Effects
      BY <2>1, <3>1 DEF UserEdits
    <3>3. undo' = Append(undo, scene') /\ UNCHANGED <<owner, steps, start>>
      BY <2>1 DEF UserEdits, UndoPush
    <3>4. Append(undo, scene') \in Seq(SUBSET Effects) /\ Append(undo, scene') # <<>>
      BY <3>2, PushTypes DEF TypeInv
    <3> QED BY <3>2, <3>3, <3>4 DEF TypeInv, AddonTypes
  <2>2. CASE UserUndoes
    <3>1. /\ 1 < Len(undo) /\ scene' = undo[Len(undo) - 1]
          /\ undo' = SubSeq(undo, 1, Len(undo) - 1) /\ UNCHANGED <<owner, steps, start>>
      BY <2>2 DEF UserUndoes
    <3> QED BY <3>1, UndoTypes DEF TypeInv, AddonTypes
  <2> QED BY <2>1, <2>2 DEF User
<1> QED BY <1>1, <1>2, <1>3, <1>4 DEF TypeInv, HistoryTypes

LEMMA TypeNext == TypeInv /\ [Next]_vars => TypeInv'
<1> SUFFICES ASSUME TypeInv, [Next]_vars PROVE TypeInv'
  OBVIOUS
<1>1. ASSUME NEW b \in Batches, Server(b) PROVE TypeInv'
  BY <1>1, ServerTypesNext
<1>2. ASSUME NEW b \in Batches, Fail(b) PROVE TypeInv'
  BY <1>2, FailTypes
<1>3. CASE Transact  BY <1>3, TransactTypes
<1>4. CASE RunNext   BY <1>4, RunNextTypes
<1>5. CASE User      BY <1>5, UserTypes
<1>6. CASE UNCHANGED vars
  BY <1>6 DEF vars, serverVars, transactionVars, TypeInv, ServerTypes, AddonTypes, HistoryTypes,
              QueueInv, Listening, Single, Rests
<1> QED BY <1>1, <1>2, <1>3, <1>4, <1>5, <1>6 DEF Next, Done

(* Every variable keeps its type, and whatever is lost, given up on or answered late, a
   caller awaits an answer exactly while one request of its own is still to be answered
   to it: no answer is taken for another (batch.rs, execute; pending.rs, complete). *)
THEOREM BatchTypeCorrect == Spec => []TypeOK
<1>1. Spec => []TypeInv
  BY TypeInit, TypeNext, PTL DEF Spec
<1> QED BY <1>1, TypeInvTypes, PTL

-----------------------------------------------------------------------------
(* Whose the open transaction is *)

\* A request that is on its way and the batch that sent it.
Fits(r) ==
  /\ r.kind = "begin" =>
       Atomic(r.by) /\ phase[r.by] \in {"opening", "done"} /\ reply[r.by] = <<>>
  /\ r.kind # "begin" /\ Atomic(r.by) => owner = r.by /\ phase[r.by] \notin {"idle", "opening"}
  /\ ~Atomic(r.by) => r.kind = "ops" /\ phase[r.by] # "idle"
  /\ r.kind \in {"commit", "rollback"} => phase[r.by] \in {"closing", "done"}

\* A begin is alone in the queue, a commit or a rollback is the last of its batch.
Ordered == \A j, k \in DOMAIN inbox : inbox[j].by = inbox[k].by =>
  /\ inbox[k].kind = "begin" => j = k
  /\ inbox[k].kind \in {"commit", "rollback"} => j <= k

\* A batch that works under a transaction owns it.
Holds(b) ==
  /\ phase[b] \in {"opening", "marking", "closing"} => Atomic(b)
  /\ phase[b] \in {"ready", "run", "one", "marking", "over"} /\ Atomic(b) => owner = b
  /\ phase[b] = "opening" /\ reply[b] = <<TRUE>> => owner = b

OwnedInv == /\ \A k \in DOMAIN inbox : Fits(inbox[k])
            /\ Ordered
            /\ \A b \in Batches : Holds(b)

-----------------------------------------------------------------------------
(* What a step of the server does *)

ServerFrame(b) ==
  /\ UNCHANGED <<plan, transactionVars, ran, disturbed>>
  /\ \A c \in Batches \ {b} :
       /\ phase'[c] = phase[c] /\ results'[c] = results[c] /\ outcome'[c] = outcome[c]
       /\ index'[c] = index[c]

\* The phases around a request that is sent, and its kind.
Sends(b, kind) ==
  \/ phase[b] = "idle" /\ phase'[b] = "opening" /\ kind = "begin" /\ Atomic(b)
  \/ phase[b] = "ready" /\ phase'[b] \in {"run", "one"} /\ kind = "ops"
  \/ phase[b] = "one" /\ phase'[b] = "marking" /\ kind = "step" /\ Atomic(b)
  \/ /\ phase[b] \in {"ready", "over"} /\ phase'[b] = "closing" /\ Atomic(b)
     /\ kind = (IF Succeeded(b) THEN "commit" ELSE "rollback") /\ results' = results

\* The phases around a step that sends nothing.
Moves(b) ==
  \/ phase[b] = "idle" /\ phase'[b] = "done" /\ outcome'[b] = "refused"
  \/ phase[b] = "idle" /\ phase'[b] = "ready" /\ ~Atomic(b) /\ outcome' = outcome
  \/ phase[b] = "opening" /\ phase'[b] = "ready" /\ reply[b] = <<TRUE>> /\ outcome' = outcome
  \/ phase[b] = "opening" /\ phase'[b] = "done" /\ outcome'[b] = "notOpened"
  \/ /\ phase[b] \in {"ready", "run", "one", "marking"} /\ phase'[b] \in {"ready", "over"}
     /\ outcome' = outcome
  \/ phase[b] \in {"ready", "over"} /\ phase'[b] = "done" /\ ~Atomic(b) /\ outcome'[b] = "finished"
  \/ /\ phase[b] = "closing" /\ phase'[b] = "done" /\ results' = results
     /\ outcome'[b] = "rolledBack" => reply[b] = <<TRUE>> /\ ~Succeeded(b)

LEMMA ServerSteps ==
  ASSUME TypeInv, NEW b \in Batches, Server(b)
  PROVE  /\ ServerFrame(b)
         /\ ~waiting[b]
         /\ \/ /\ outcome' = outcome
               /\ \E r \in Requests : r.by = b /\ r.heard /\ Send(b, r) /\ Sends(b, r.kind)
            \/ UNCHANGED <<inbox, waiting, reply>> /\ Moves(b)
<1> USE DEF Goto
<1>1. /\ phase \in [Batches -> Phases] /\ outcome \in [Batches -> Outcomes]
      /\ index \in [Batches -> Nat \ {0}]
      /\ results \in [Batches -> Seq([index : Nat, how : {"ok", "failed", "lost"}])]
  BY DEF TypeInv, ServerTypes
<1>2. ServerFrame(b)
  BY <1>1 DEF ServerFrame, Server, Refuse, Open, Opened, Start, SendRun, RunLost, RunAnswered,
     FailHere, SendOne, OneAnswered, Marked, Finish, Close, Closed, Quiet, Report, AfterFailure
<1>3. phase[b] \in {"idle", "ready", "over", "done"} => ~waiting[b]
  BY DEF TypeInv, Rests
<1>4. ~waiting[b]
  BY <1>3 DEF Server, Refuse, Open, Opened, Start, SendRun, RunLost, RunAnswered, FailHere,
     SendOne, OneAnswered, Marked, Finish, Close, Closed, Leaving, Alone, InRange
<1> DEFINE Goal == \/ /\ outcome' = outcome
                      /\ \E r \in Requests : r.by = b /\ r.heard /\ Send(b, r) /\ Sends(b, r.kind)
                   \/ UNCHANGED <<inbox, waiting, reply>> /\ Moves(b)
<1> SUFFICES Goal
  BY <1>2, <1>4
<1>5. ASSUME NEW r \in Requests, r.by = b, r.heard, Send(b, r), Sends(b, r.kind),
             outcome' = outcome
      PROVE  Goal
  BY <1>5
<1>6. ASSUME UNCHANGED <<inbox, waiting, reply>>, Moves(b)
      PROVE  Goal
  BY <1>6
<1> HIDE DEF Goal
<1>7. CASE Refuse(b)
  BY <1>1, <1>6, <1>7 DEF Refuse, Moves
<1>8. CASE Open(b)
  <2> DEFINE r == Request(b, "begin")
  <2>1. r \in Requests /\ r.by = b /\ r.heard /\ r.kind = "begin"
    BY RequestTypes
  <2>2. Send(b, r) /\ outcome' = outcome
    BY <1>8 DEF Open
  <2> HIDE DEF r
  <2>3. Sends(b, r.kind)
    BY <1>1, <1>8, <2>1 DEF Open, Sends
  <2> QED BY <1>5, <2>1, <2>2, <2>3
<1>9. CASE Opened(b)
  BY <1>1, <1>6, <1>9 DEF Opened, Moves
<1>10. CASE Start(b)
  BY <1>1, <1>6, <1>10 DEF Start, Moves
<1>11. CASE SendRun(b)
  <2> DEFINE r == Operations(b, index[b], RunEnd(b, index[b]))
  <2>1. r \in Requests /\ r.by = b /\ r.heard /\ r.kind = "ops"
    <3>1. index[b] \in Nat /\ RunEnd(b, index[b]) \in Nat
      BY <1>1, RunEndType DEF TypeInv, ServerTypes
    <3> QED BY <3>1, OperationsTypes
  <2>2. Send(b, r) /\ outcome' = outcome
    BY <1>11 DEF SendRun
  <2> HIDE DEF r
  <2>3. Sends(b, r.kind)
    BY <1>1, <1>11, <2>1 DEF SendRun, InRange, Sends
  <2> QED BY <1>5, <2>1, <2>2, <2>3
<1>12. CASE RunLost(b)
  BY <1>1, <1>6, <1>12 DEF RunLost, Moves
<1>13. CASE RunAnswered(b)
  <2>1. phase'[b] \in {"ready", "over"}
    BY <1>1, <1>13 DEF RunAnswered
  <2> QED BY <1>6, <1>13, <2>1 DEF RunAnswered, Moves
<1>14. CASE FailHere(b)
  <2>1. phase'[b] \in {"ready", "over"}
    BY <1>1, <1>14 DEF FailHere, AfterFailure
  <2> QED BY <1>6, <1>14, <2>1 DEF FailHere, Alone, InRange, Moves
<1>15. CASE SendOne(b)
  <2> DEFINE r == Operations(b, index[b], index[b])
  <2>1. r \in Requests /\ r.by = b /\ r.heard /\ r.kind = "ops"
    BY <1>1, OperationsTypes
  <2>2. Send(b, r) /\ outcome' = outcome
    BY <1>15 DEF SendOne
  <2> HIDE DEF r
  <2>3. Sends(b, r.kind)
    BY <1>1, <1>15, <2>1 DEF SendOne, Alone, InRange, Sends
  <2> QED BY <1>5, <2>1, <2>2, <2>3
<1>16. CASE OneAnswered(b)
  <2>1. CASE Send(b, Request(b, "step")) /\ phase' = [phase EXCEPT ![b] = "marking"] /\ Atomic(b)
    <3> DEFINE r == Request(b, "step")
    <3>1. r \in Requests /\ r.by = b /\ r.heard /\ r.kind = "step"
      BY RequestTypes
    <3>2. Send(b, r) /\ outcome' = outcome
      BY <1>16, <2>1 DEF OneAnswered
    <3> HIDE DEF r
    <3>3. Sends(b, r.kind)
      BY <1>1, <1>16, <2>1, <3>1 DEF OneAnswered, Sends
    <3> QED BY <1>5, <3>1, <3>2, <3>3
  <2>2. CASE UNCHANGED <<inbox, waiting, reply>> /\ phase'[b] \in {"ready", "over"}
    BY <1>6, <1>16, <2>2 DEF OneAnswered, Moves
  <2> QED BY <1>1, <1>16, <2>1, <2>2 DEF OneAnswered, AfterFailure
<1>17. CASE Marked(b)
  BY <1>1, <1>6, <1>17 DEF Marked, Moves
<1>18. CASE Finish(b)
  BY <1>1, <1>6, <1>18 DEF Finish, Leaving, Moves
<1>19. CASE Close(b)
  <2> DEFINE kind == IF Succeeded(b) THEN "commit" ELSE "rollback"
             r == Request(b, kind)
  <2>1. kind \in {"commit", "rollback"}
    OBVIOUS
  <2>2. Send(b, r) /\ outcome' = outcome /\ results' = results
    BY <1>19 DEF Close
  <2>3. phase[b] \in {"ready", "over"} /\ phase'[b] = "closing" /\ Atomic(b)
    BY <1>1, <1>19 DEF Close, Leaving
  <2>4. kind = (IF Succeeded(b) THEN "commit" ELSE "rollback")
    OBVIOUS
  <2> HIDE DEF kind
  <2>5. r \in Requests /\ r.by = b /\ r.heard /\ r.kind = kind
    BY <2>1, RequestTypes
  <2> HIDE DEF r
  <2>6. Sends(b, r.kind)
    BY <2>2, <2>3, <2>4, <2>5 DEF Sends
  <2> QED BY <1>5, <2>2, <2>5, <2>6
<1>20. CASE Closed(b)
  BY <1>1, <1>6, <1>20 DEF Closed, Moves
<1> QED
  BY <1>7, <1>8, <1>9, <1>10, <1>11, <1>12, <1>13, <1>14, <1>15, <1>16, <1>17, <1>18, <1>19,
     <1>20 DEF Server

-----------------------------------------------------------------------------
(* The queue *)

LEMMA QueuedTypes ==
  ASSUME inbox \in Seq(Requests), NEW k \in DOMAIN inbox
  PROVE  inbox[k] \in Requests /\ inbox[k].by \in Batches
<1>1. inbox[k] \in Requests
  OBVIOUS
<1> QED BY <1>1 DEF Requests

LEMMA SendKeepsOrder ==
  ASSUME QueueInv, Ordered, NEW b \in Batches, NEW r \in Requests, r.by = b, Send(b, r),
         \A k \in DOMAIN inbox : inbox[k].by = b =>
           r.kind # "begin" /\ inbox[k].kind \notin {"begin", "commit", "rollback"}
  PROVE  /\ Ordered'
         /\ \A k \in DOMAIN inbox' : inbox'[k] = r \/ \E j \in DOMAIN inbox : inbox'[k] = inbox[j]
<1> DEFINE n == Len(inbox) + 1
<1>1. /\ DOMAIN inbox' = DOMAIN inbox \cup {n} /\ n \notin DOMAIN inbox
      /\ \A k \in DOMAIN inbox : k < n /\ inbox'[k] = inbox[k]
      /\ inbox'[n] = r /\ n \in Nat /\ DOMAIN inbox \subseteq Nat
  BY AppendFacts DEF QueueInv, Send
<1> HIDE DEF n
<1>2. Ordered'
  <2> SUFFICES ASSUME NEW j \in DOMAIN inbox', NEW k \in DOMAIN inbox',
                      inbox'[j].by = inbox'[k].by
               PROVE  /\ inbox'[k].kind = "begin" => j = k
                      /\ inbox'[k].kind \in {"commit", "rollback"} => j <= k
    BY DEF Ordered
  <2>1. CASE j = n /\ k = n
    BY <1>1, <2>1
  <2>2. CASE j = n /\ k # n
    BY <1>1, <2>2
  <2>3. CASE j # n /\ k = n
    BY <1>1, <2>3
  <2>4. CASE j # n /\ k # n
    BY <1>1, <2>4 DEF Ordered
  <2> QED BY <2>1, <2>2, <2>3, <2>4
<1>3. \A k \in DOMAIN inbox' : inbox'[k] = r \/ \E j \in DOMAIN inbox : inbox'[k] = inbox[j]
  BY <1>1
<1> QED BY <1>2, <1>3

LEMMA DropKeepsOrder ==
  ASSUME QueueInv, Ordered, inbox' \in Seq(Requests), NEW k, NEW p, Drops(inbox, inbox', k, p)
  PROVE  Ordered'
<1> SUFFICES ASSUME NEW i \in DOMAIN inbox', NEW j \in DOMAIN inbox',
                    inbox'[i].by = inbox'[j].by
             PROVE  /\ inbox'[j].kind = "begin" => i = j
                    /\ inbox'[j].kind \in {"commit", "rollback"} => i <= j
  BY DEF Ordered
<1>1. /\ p[i] \in DOMAIN inbox /\ inbox'[i] = inbox[p[i]]
      /\ p[j] \in DOMAIN inbox /\ inbox'[j] = inbox[p[j]]
      /\ (i < j => p[i] < p[j]) /\ (j < i => p[j] < p[i])
  BY DEF Drops
<1>2. i \in Int /\ j \in Int /\ p[i] \in Int /\ p[j] \in Int
  BY <1>1 DEF QueueInv
<1>3. /\ inbox'[j].kind = "begin" => p[i] = p[j]
      /\ inbox'[j].kind \in {"commit", "rollback"} => p[i] <= p[j]
  BY <1>1 DEF Ordered
<1> QED BY <1>1, <1>2, <1>3

-----------------------------------------------------------------------------
(* Every step keeps the invariant *)

LEMMA OwnedInit == Init => OwnedInv
BY DEF Init, TransactionInit, OwnedInv, Ordered, Holds, Fits

LEMMA ServerKeepsOwned ==
  ASSUME TypeInv, OwnedInv, NEW b \in Batches, Server(b)
  PROVE  OwnedInv'
<1>1. ServerFrame(b) /\ ~waiting[b]
  BY ServerSteps
<1>2. /\ plan' = plan /\ owner' = owner
      /\ \A c \in Batches \ {b} : phase'[c] = phase[c]
      /\ \A c \in Batches : Atomic(c)' <=> Atomic(c)
  BY <1>1 DEF ServerFrame, transactionVars, Atomic
<1>3. \A k \in DOMAIN inbox : Fits(inbox[k]) /\ inbox[k].by \in Batches
  BY QueuedTypes DEF OwnedInv, TypeInv, QueueInv
<1>4. Holds(b)
  BY DEF OwnedInv
<1>5. QueueInv
  BY DEF TypeInv
<1>6. CASE \E r \in Requests : r.by = b /\ r.heard /\ Send(b, r) /\ Sends(b, r.kind)
  <2>1. PICK r \in Requests : r.by = b /\ r.heard /\ Send(b, r) /\ Sends(b, r.kind)
    BY <1>6
  <2>2. \A k \in DOMAIN inbox : inbox[k].by = b =>
          /\ r.kind # "begin" /\ inbox[k].kind \notin {"begin", "commit", "rollback"}
          /\ phase[b] # "idle"
    BY <1>3, <2>1 DEF Fits, Sends
  <2>3. Ordered' /\ \A k \in DOMAIN inbox' :
          inbox'[k] = r \/ \E j \in DOMAIN inbox : inbox'[k] = inbox[j]
    BY <1>5, <2>1, <2>2, SendKeepsOrder DEF OwnedInv
  <2>4. \A c \in Batches \ {b} : reply'[c] = reply[c]
    BY <1>1, <1>5, <2>1, SendKeepsQueue
  <2>5. reply'[b] = <<>>
    BY <1>5, <2>1 DEF Send, QueueInv
  <2>6. ASSUME NEW k \in DOMAIN inbox', inbox'[k] = r PROVE Fits(inbox[k])'
    BY <1>2, <1>4, <2>1, <2>5, <2>6 DEF Fits, Sends, Holds
  <2>7. ASSUME NEW k \in DOMAIN inbox', NEW j \in DOMAIN inbox, inbox'[k] = inbox[j]
        PROVE  Fits(inbox[k])'
    <3>1. Fits(inbox[j]) /\ inbox[j].by \in Batches
      BY <1>3
    <3>2. CASE inbox[j].by = b
      <4>1. /\ inbox[j].kind \notin {"begin", "commit", "rollback"} /\ phase[b] # "idle"
            /\ phase'[b] \notin {"idle", "opening"}
        BY <2>1, <2>2, <3>2 DEF Sends
      <4> QED BY <1>2, <2>7, <3>1, <3>2, <4>1 DEF Fits
    <3>3. CASE inbox[j].by # b
      BY <1>2, <2>4, <2>7, <3>1, <3>3 DEF Fits
    <3> QED BY <3>2, <3>3
  <2>8. Holds(b)'
    BY <1>2, <1>4, <2>1, <2>5 DEF Holds, Sends
  <2>9. \A c \in Batches \ {b} : Holds(c)'
    BY <1>2, <2>4 DEF Holds, OwnedInv
  <2> QED BY <2>3, <2>6, <2>7, <2>8, <2>9 DEF OwnedInv
<1>7. CASE UNCHANGED <<inbox, waiting, reply>> /\ Moves(b)
  <2>1. Ordered'
    BY <1>7 DEF OwnedInv, Ordered
  <2>2. ASSUME NEW k \in DOMAIN inbox PROVE Fits(inbox[k])'
    <3>1. CASE inbox[k].by = b
      <4>1. phase'[b] \notin {"idle", "opening"} /\ reply' = reply
        BY <1>7 DEF Moves
      <4>2. phase[b] = "opening" /\ reply[b] = <<>> => phase'[b] = "done"
        BY <1>7 DEF Moves
      <4>3. phase[b] = "closing" => phase'[b] = "done"
        BY <1>7 DEF Moves
      <4>4. phase[b] # "done"
        BY <1>7 DEF Moves
      <4>5. Fits(inbox[k])
        BY <1>3
      <4>6. inbox'[k] = inbox[k]
        BY <1>7
      <4> QED BY <1>2, <3>1, <4>1, <4>2, <4>3, <4>4, <4>5, <4>6 DEF Fits
    <3>2. CASE inbox[k].by # b
      BY <1>2, <1>3, <1>7, <3>2 DEF Fits
    <3> QED BY <3>1, <3>2
  <2>3. Holds(b)'
    BY <1>2, <1>4, <1>7 DEF Holds, Moves
  <2>4. \A c \in Batches \ {b} : Holds(c)'
    BY <1>2, <1>7 DEF Holds, OwnedInv
  <2> QED BY <1>7, <2>1, <2>2, <2>3, <2>4 DEF OwnedInv
<1> QED BY <1>6, <1>7, ServerSteps

\* The queue keeps its requests, but for what they carry.
LEMMA SameQueueKeepsOwned ==
  ASSUME OwnedInv, UNCHANGED <<plan, phase, owner, reply>>, DOMAIN inbox' = DOMAIN inbox,
         \A k \in DOMAIN inbox : inbox'[k].by = inbox[k].by /\ inbox'[k].kind = inbox[k].kind
  PROVE  OwnedInv'
<1>1. \A k \in DOMAIN inbox' : Fits(inbox[k])'
  BY DEF OwnedInv, Fits, Atomic
<1>2. Ordered'
  BY DEF OwnedInv, Ordered
<1>3. \A b \in Batches : Holds(b)'
  BY DEF OwnedInv, Holds, Atomic
<1> QED BY <1>1, <1>2, <1>3 DEF OwnedInv

\* The queue loses the request at k.
LEMMA ShrinkKeepsOwned ==
  ASSUME TypeInv, OwnedInv, inbox' \in Seq(Requests), NEW k, NEW p, Drops(inbox, inbox', k, p),
         UNCHANGED <<plan, phase>>,
         \A j \in DOMAIN inbox : j # k =>
           /\ inbox[j].kind # "begin" /\ Atomic(inbox[j].by) => owner' = inbox[j].by
           /\ inbox[j].kind = "begin" => reply'[inbox[j].by] = reply[inbox[j].by],
         \A b \in Batches : Holds(b)'
  PROVE  OwnedInv'
<1>1. Ordered'
  BY DropKeepsOrder DEF TypeInv, OwnedInv
<1>2. ASSUME NEW i \in DOMAIN inbox' PROVE Fits(inbox[i])'
  <2>1. PICK j \in DOMAIN inbox : j # k /\ inbox'[i] = inbox[j]
    BY DropsElements
  <2>2. Fits(inbox[j])
    BY DEF OwnedInv
  <2> QED BY <2>1, <2>2 DEF Fits, Atomic
<1> QED BY <1>1, <1>2 DEF OwnedInv

LEMMA FailKeepsOwned ==
  ASSUME TypeInv, OwnedInv, NEW b \in Batches, Fail(b)
  PROVE  OwnedInv'
<1>1. UNCHANGED <<plan, phase, owner, reply>>
  BY DEF Fail, transactionVars
<1>2. PICK k \in DOMAIN inbox :
        \/ inbox' = [inbox EXCEPT ![k].heard = FALSE]
        \/ inbox' = Without(inbox, k)
  BY DEF Fail, Without
<1>3. inbox \in Seq(Requests)
  BY DEF TypeInv, QueueInv
<1>4. CASE inbox' = [inbox EXCEPT ![k].heard = FALSE]
  <2> DEFINE r == [inbox[k] EXCEPT !.heard = FALSE]
  <2>1. r \in Requests /\ r.by = inbox[k].by /\ r.kind = inbox[k].kind
    BY <1>3, QueuedTypes DEF Requests
  <2>2. inbox' = [inbox EXCEPT ![k] = r]
    BY <1>4
  <2> HIDE DEF r
  <2>3. /\ DOMAIN inbox' = DOMAIN inbox
        /\ \A j \in DOMAIN inbox : inbox'[j] = IF j = k THEN r ELSE inbox[j]
    BY <1>3, <2>1, <2>2, RewriteFacts
  <2> QED BY <1>1, <2>1, <2>3, SameQueueKeepsOwned
<1>5. CASE inbox' = Without(inbox, k)
  <2>1. inbox' \in Seq(Requests) /\ \E p : Drops(inbox, inbox', k, p)
    BY <1>3, <1>5, WithoutDrops
  <2>2. PICK p : Drops(inbox, inbox', k, p)
    BY <2>1
  <2>3. \A c \in Batches : Holds(c)'
    BY <1>1 DEF OwnedInv, Holds, Atomic
  <2>4. \A j \in DOMAIN inbox : j # k =>
          /\ inbox[j].kind # "begin" /\ Atomic(inbox[j].by) => owner' = inbox[j].by
          /\ inbox[j].kind = "begin" => reply'[inbox[j].by] = reply[inbox[j].by]
    BY <1>1 DEF OwnedInv, Fits
  <2> QED BY <1>1, <2>1, <2>2, <2>3, <2>4, ShrinkKeepsOwned
<1> QED BY <1>2, <1>4, <1>5

LEMMA AnswerSteps ==
  ASSUME TypeInv, inbox # <<>>, NEW answer \in Seq(BOOLEAN), Answer(answer)
  PROVE  /\ inbox' \in Seq(Requests) /\ \E p : Drops(inbox, inbox', 1, p)
         /\ 1 \in DOMAIN inbox /\ Head(inbox) = inbox[1] /\ inbox[1].by \in Batches
         /\ \A k \in DOMAIN inbox : k # 1 => 1 < k
         /\ UNCHANGED <<plan, phase, index, results, outcome>>
         /\ \A c \in Batches : reply'[c] # reply[c] =>
              c = inbox[1].by /\ inbox[1].heard /\ reply'[c] = answer
<1>1. inbox \in Seq(Requests) /\ reply \in [Batches -> Seq(BOOLEAN)]
  BY DEF TypeInv, QueueInv
<1>2. /\ Tail(inbox) \in Seq(Requests) /\ \E p : Drops(inbox, Tail(inbox), 1, p)
      /\ 1 \in DOMAIN inbox /\ Head(inbox) = inbox[1] /\ \A k \in DOMAIN inbox : k # 1 => 1 < k
  BY <1>1, TailDrops
<1>3. inbox[1].by \in Batches
  BY <1>1, <1>2, QueuedTypes
<1>4. inbox' = Tail(inbox) /\ UNCHANGED <<plan, phase, index, results, outcome>>
  BY DEF Answer
<1>5. \/ reply' = reply
      \/ inbox[1].heard /\ reply' = [reply EXCEPT ![inbox[1].by] = answer]
  BY <1>2 DEF Answer, Awaited
<1>6. \A c \in Batches : reply'[c] # reply[c] =>
        c = inbox[1].by /\ inbox[1].heard /\ reply'[c] = answer
  BY <1>1, <1>3, <1>5
<1> QED BY <1>2, <1>3, <1>4, <1>6

LEMMA Singletons ==
  ASSUME NEW ok \in BOOLEAN
  PROVE  <<ok>> # <<>> /\ (<<ok>> = <<TRUE>> => ok)
<1>1. Len(<<ok>>) = 1 /\ Len(<<>>) = 0
  OBVIOUS
<1>2. <<ok>> = <<TRUE>> => <<ok>>[1] = <<TRUE>>[1]
  OBVIOUS
<1> QED BY <1>1, <1>2

LEMMA TransactKeepsOwned ==
  ASSUME TypeInv, OwnedInv, Transact
  PROVE  /\ OwnedInv'
         /\ owner # None /\ owner' # owner => owner' = None /\ Head(inbox).by = owner
<1> DEFINE r == inbox[1]
           b == inbox[1].by
<1>1. PICK ok \in BOOLEAN :
        /\ \/ Head(inbox).kind = "begin" /\ Begin(Head(inbox).by, ok)
           \/ Head(inbox).kind = "step" /\ Step(ok)
           \/ Head(inbox).kind = "commit" /\ Commit(ok)
           \/ Head(inbox).kind = "rollback" /\ Rollback(ok)
        /\ Respond(ok)
  BY DEF Transact
<1>2. <<ok>> \in Seq(BOOLEAN) /\ Answer(<<ok>>) /\ inbox # <<>>
  BY <1>1 DEF Respond, Transact
<1>3. /\ inbox' \in Seq(Requests) /\ \E p : Drops(inbox, inbox', 1, p)
      /\ 1 \in DOMAIN inbox /\ Head(inbox) = r /\ b \in Batches
      /\ \A k \in DOMAIN inbox : k # 1 => 1 < k
      /\ UNCHANGED <<plan, phase>>
      /\ \A c \in Batches : reply'[c] # reply[c] => c = b /\ reply'[c] = <<ok>>
  BY <1>2, AnswerSteps
<1>4. PICK p : Drops(inbox, inbox', 1, p)
  BY <1>3
<1>5. Fits(r) /\ r.by = b /\ b # None /\ \A c \in Batches : c # None
  BY <1>3, BatchAssumption DEF OwnedInv
<1>6. \A j \in DOMAIN inbox : j # 1 /\ inbox[j].by = b =>
        /\ inbox[j].kind # "begin"
        /\ r.kind \notin {"begin", "commit", "rollback"}
  <2> SUFFICES ASSUME NEW j \in DOMAIN inbox, j # 1, inbox[j].by = b
               PROVE  /\ inbox[j].kind # "begin"
                      /\ r.kind \notin {"begin", "commit", "rollback"}
    OBVIOUS
  <2>1. 1 < j /\ j \in Nat
    BY <1>3 DEF TypeInv, QueueInv
  <2>2. ~(j <= 1)
    BY <2>1
  <2> QED BY <1>3, <2>2 DEF OwnedInv, Ordered
<1>7. /\ r.kind = "begin" => IF ok THEN owner = None /\ owner' = b ELSE owner' = owner
      /\ r.kind = "step" => owner' = owner
      /\ r.kind \in {"commit", "rollback"} => owner = b /\ owner' = None
      /\ r.kind \in {"begin", "step", "commit", "rollback"} /\ Atomic(b)
  <2>1. r.kind = "begin" => IF ok THEN owner = None /\ owner' = b ELSE owner' = owner
    BY <1>1, <1>3 DEF Begin
  <2>2. r.kind = "step" => owner' = owner
    BY <1>1, <1>3 DEF Step
  <2>3. r.kind \in {"begin", "step", "commit", "rollback"} /\ Atomic(b)
    BY <1>1, <1>3, <1>5 DEF Fits
  <2>4. r.kind \in {"commit", "rollback"} => owner = b
    BY <1>5, <2>3 DEF Fits
  <2>5. r.kind \in {"commit", "rollback"} => owner' = None
    BY <1>1, <1>3, <1>5, <2>4 DEF Commit, Rollback
  <2> QED BY <2>1, <2>2, <2>3, <2>4, <2>5
<1>8. \A c \in Batches : Atomic(c)' <=> Atomic(c)
  BY <1>3 DEF Atomic
<1>9. ASSUME NEW j \in DOMAIN inbox, j # 1
      PROVE  /\ inbox[j].kind # "begin" /\ Atomic(inbox[j].by) => owner' = inbox[j].by
             /\ inbox[j].kind = "begin" => reply'[inbox[j].by] = reply[inbox[j].by]
  <2>1. Fits(inbox[j]) /\ inbox[j].by \in Batches
    BY QueuedTypes DEF OwnedInv, TypeInv, QueueInv
  <2>2. inbox[j].kind # "begin" /\ Atomic(inbox[j].by) => owner = inbox[j].by
    BY <2>1 DEF Fits
  <2> QED BY <1>3, <1>5, <1>6, <1>7, <1>9, <2>1, <2>2
<1>10. ASSUME NEW c \in Batches PROVE Holds(c)'
  <2>1. Holds(c)
    BY DEF OwnedInv
  <2>2. phase'[c] = phase[c]
    BY <1>3
  <2>3. CASE c = b
    <3>1. CASE r.kind = "begin"
      <4>1. phase[b] \in {"opening", "done"} /\ Atomic(b) /\ reply[b] = <<>>
        BY <1>5, <3>1 DEF Fits
      <4>2. reply'[b] = <<TRUE>> => ok
        <5>1. <<TRUE>> # <<>> /\ (<<ok>> = <<TRUE>> => ok)
          BY Singletons
        <5> QED BY <1>3, <4>1, <5>1
      <4> QED BY <1>7, <1>8, <2>2, <2>3, <3>1, <4>1, <4>2 DEF Holds
    <3>2. CASE r.kind = "step"
      <4>1. phase[b] # "opening"
        BY <1>5, <1>7, <3>2 DEF Fits
      <4> QED BY <1>7, <1>8, <2>1, <2>2, <2>3, <3>2, <4>1 DEF Holds
    <3>3. CASE r.kind \in {"commit", "rollback"}
      <4>1. phase[b] \in {"closing", "done"} /\ Atomic(b)
        BY <1>5, <1>7, <3>3 DEF Fits
      <4> QED BY <1>8, <2>2, <2>3, <4>1 DEF Holds
    <3> QED BY <1>7, <3>1, <3>2, <3>3
  <2>4. CASE c # b
    <3>1. reply'[c] = reply[c]
      BY <1>3, <2>4
    <3> QED BY <1>5, <1>7, <1>8, <2>1, <2>2, <2>4, <3>1 DEF Holds
  <2> QED BY <2>3, <2>4
<1>11. OwnedInv'
  <2> HIDE DEF r, b
  <2> QED BY <1>3, <1>4, <1>9, <1>10, ShrinkKeepsOwned
<1> QED BY <1>3, <1>5, <1>7, <1>11

LEMMA RunNextKeepsOwned ==
  ASSUME TypeInv, OwnedInv, RunNext
  PROVE  OwnedInv' /\ owner' = owner
<1> DEFINE r == Head(inbox)
           i == r.first + Len(r.out)
<1>1. PICK how \in {"ok", "failed", "half"} :
        LET out == Append(r.out, how = "ok")
        IN  /\ Perform(r.by, i, how, r.mark)
            /\ IF Ends(r, i, how)
               THEN Answer(out)
               ELSE inbox' = [inbox EXCEPT ![1].out = out] /\ UNCHANGED <<serverVars, faults>>
  BY DEF RunNext
<1> DEFINE out == Append(r.out, how = "ok")
<1>2. inbox \in Seq(Requests) /\ inbox # <<>> /\ r.kind = "ops"
  BY DEF RunNext, TypeInv, QueueInv
<1>3. r = inbox[1] /\ r \in Requests /\ 1 \in DOMAIN inbox /\ out \in Seq(BOOLEAN)
  BY <1>2, HeadTypes
<1>4. owner' = owner
  BY <1>1 DEF Perform
<1>5. Answer(out) \/ (inbox' = [inbox EXCEPT ![1].out = out] /\ UNCHANGED serverVars)
  BY <1>1
<1> HIDE DEF r, i, out
<1>6. CASE Answer(out)
  <2>1. /\ inbox' \in Seq(Requests) /\ \E p : Drops(inbox, inbox', 1, p)
        /\ inbox[1].by \in Batches /\ UNCHANGED <<plan, phase>>
        /\ \A c \in Batches : reply'[c] # reply[c] => c = inbox[1].by
        /\ \A k \in DOMAIN inbox : k # 1 => 1 < k
    BY <1>2, <1>3, <1>6, AnswerSteps
  <2>2. PICK p : Drops(inbox, inbox', 1, p)
    BY <2>1
  <2>3. Fits(inbox[1]) /\ inbox[1].kind = "ops"
    BY <1>2, <1>3 DEF OwnedInv
  <2>4. ASSUME NEW c \in Batches PROVE Holds(c)'
    <3>1. Holds(c)
      BY DEF OwnedInv
    <3>2. c = inbox[1].by => phase[c] # "opening"
      BY <2>3, <3>1 DEF Fits, Holds
    <3>3. (Atomic(c)' <=> Atomic(c)) /\ phase'[c] = phase[c]
      BY <2>1 DEF Atomic
    <3>4. phase[c] = "opening" => reply'[c] = reply[c]
      BY <2>1, <3>2
    <3> QED BY <1>4, <3>1, <3>3, <3>4 DEF Holds
  <2>5. ASSUME NEW j \in DOMAIN inbox, j # 1
        PROVE  /\ inbox[j].kind # "begin" /\ Atomic(inbox[j].by) => owner' = inbox[j].by
               /\ inbox[j].kind = "begin" => reply'[inbox[j].by] = reply[inbox[j].by]
    <3>1. Fits(inbox[j]) /\ inbox[j].by \in Batches
      BY <1>2, QueuedTypes DEF OwnedInv
    <3>2. inbox[j].kind = "begin" => inbox[j].by # inbox[1].by
      BY <1>3, <2>5 DEF OwnedInv, Ordered
    <3> QED BY <1>4, <2>1, <3>1, <3>2 DEF Fits
  <2> QED BY <1>4, <2>1, <2>2, <2>4, <2>5, ShrinkKeepsOwned
<1>7. CASE inbox' = [inbox EXCEPT ![1].out = out] /\ UNCHANGED serverVars
  <2> DEFINE q == [inbox[1] EXCEPT !.out = out]
  <2>1. q \in Requests /\ q.by = inbox[1].by /\ q.kind = inbox[1].kind
    BY <1>3 DEF Requests
  <2>2. inbox' = [inbox EXCEPT ![1] = q]
    BY <1>7
  <2> HIDE DEF q
  <2>3. /\ DOMAIN inbox' = DOMAIN inbox
        /\ \A j \in DOMAIN inbox : inbox'[j] = IF j = 1 THEN q ELSE inbox[j]
    BY <1>2, <1>3, <2>1, <2>2, RewriteFacts
  <2>4. UNCHANGED <<plan, phase, reply>>
    BY <1>7 DEF serverVars
  <2> QED BY <1>4, <2>1, <2>3, <2>4, SameQueueKeepsOwned
<1> QED BY <1>4, <1>5, <1>6, <1>7

LEMMA OwnedNext ==
  ASSUME TypeInv, OwnedInv, [Next]_vars
  PROVE  /\ OwnedInv'
         /\ owner # None /\ owner' # owner => owner' = None /\ Head(inbox).by = owner
<1>1. ASSUME NEW b \in Batches, Server(b)
      PROVE  OwnedInv' /\ owner' = owner
  <2>1. owner' = owner
    BY <1>1, ServerSteps DEF ServerFrame, transactionVars
  <2> QED BY <1>1, <2>1, ServerKeepsOwned
<1>2. ASSUME NEW b \in Batches, Fail(b)
      PROVE  OwnedInv' /\ owner' = owner
  <2>1. owner' = owner
    BY <1>2 DEF Fail, transactionVars
  <2> QED BY <1>2, <2>1, FailKeepsOwned
<1>3. CASE Transact
  BY <1>3, TransactKeepsOwned
<1>4. CASE RunNext
  BY <1>4, RunNextKeepsOwned
<1>5. CASE User
  <2>1. UNCHANGED <<plan, phase, owner, reply, inbox>>
    BY <1>5 DEF User, UserEdits, UserUndoes, serverVars
  <2> QED BY <2>1, SameQueueKeepsOwned
<1>6. CASE UNCHANGED vars
  <2>1. UNCHANGED <<plan, phase, owner, reply, inbox>>
    BY <1>6 DEF vars, serverVars, transactionVars
  <2> QED BY <2>1, SameQueueKeepsOwned
<1> QED BY <1>1, <1>2, <1>3, <1>4, <1>5, <1>6 DEF Next, Done

(* A transaction is ended by the batch that opened it, never by another's commit or
   rollback, although the add-on takes no note of who asks (transaction.py, begin). *)
THEOREM TransactionsEndWithTheirOpener == Spec => ClosedByOpener
<1>1. TypeInv /\ OwnedInv /\ [Next]_vars =>
        [owner # None /\ owner' # owner => owner' = None /\ Head(inbox).by = owner]_vars
  BY OwnedNext
<1>2. Init => TypeInv /\ OwnedInv
  BY TypeInit, OwnedInit
<1>3. TypeInv /\ OwnedInv /\ [Next]_vars => (TypeInv /\ OwnedInv)'
  BY TypeNext, OwnedNext
<1> QED BY <1>1, <1>2, <1>3, PTL DEF Spec, ClosedByOpener

-----------------------------------------------------------------------------
(* What a rollback leaves: the invariant *)

Lacks(effects, b) == \A e \in effects : e[1] # b

\* Nothing of b in the scene, nor in any scene that an undo can restore.
Gone(b) == /\ Lacks(scene, b)
           /\ \A k \in DOMAIN undo : Lacks(undo[k], b)

\* An undo past the steps of the open transaction ends before its first effect.
ScenesInv ==
  /\ \A b \in Batches : ran[b] = <<>> => Gone(b)
  /\ owner \in Batches \ disturbed =>
       /\ Len(undo) >= steps + 2
       /\ \A k \in 1 .. Len(undo) - steps - 1 : Lacks(undo[k], owner)

Ending(b) == IF Succeeded(b) THEN "commit" ELSE "rollback"

StagesInv ==
  /\ \A b \in Batches : phase[b] \in {"idle", "opening"} => ran[b] = <<>>
  /\ \A b \in Batches : outcome[b] = "rolledBack" => phase[b] = "done"
  /\ \A k \in DOMAIN inbox : inbox[k].kind = "begin" => ran[inbox[k].by] = <<>>
  /\ \A k \in DOMAIN inbox : inbox[k].heard /\ phase[inbox[k].by] = "closing" =>
       inbox[k].kind = Ending(inbox[k].by)

\* The caller has been told that its rollback went well.
Told(b) == \/ outcome[b] = "rolledBack"
           \/ phase[b] = "closing" /\ reply[b] = <<TRUE>> /\ ~Succeeded(b)

ToldInv == \A b \in Batches : Told(b) =>
  /\ \A k \in DOMAIN inbox : inbox[k].by # b
  /\ b \notin disturbed => Gone(b)

CleanInv == ScenesInv /\ StagesInv /\ ToldInv

-----------------------------------------------------------------------------
(* The undo stack *)

LEMMA PushedScenes ==
  ASSUME AddonTypes, NEW now \in SUBSET Effects, undo' = Append(undo, now)
  PROVE  /\ Len(undo) \in Nat \ {0} /\ Len(undo') = Len(undo) + 1
         /\ \A k \in 1 .. Len(undo) : undo'[k] = undo[k]
         /\ \A b : Lacks(now, b) /\ (\A k \in DOMAIN undo : Lacks(undo[k], b)) =>
              \A k \in DOMAIN undo' : Lacks(undo'[k], b)
<1> DEFINE T == SUBSET Effects
<1>1. undo \in Seq(T) /\ undo # <<>> /\ now \in T
  BY DEF AddonTypes
<1> HIDE DEF T
<1>2. /\ DOMAIN undo' = DOMAIN undo \cup {Len(undo) + 1}
      /\ \A k \in DOMAIN undo : undo'[k] = undo[k]
      /\ undo'[Len(undo) + 1] = now
  BY <1>1, AppendFacts
<1>3. Len(undo) \in Nat \ {0} /\ Len(undo') = Len(undo) + 1 /\ DOMAIN undo = 1 .. Len(undo)
  BY <1>1
<1> QED BY <1>2, <1>3

LEMMA RestoredScenes ==
  ASSUME AddonTypes, NEW n \in Nat, n < Len(undo), undo' = SubSeq(undo, 1, Len(undo) - n)
  PROVE  /\ \A b : (\A k \in 1 .. Len(undo) - n : Lacks(undo[k], b)) =>
              /\ Lacks(undo[Len(undo) - n], b)
              /\ \A k \in DOMAIN undo' : Lacks(undo'[k], b)
         /\ 1 .. Len(undo) - n \subseteq DOMAIN undo
<1>1. Len(undo) \in Nat /\ DOMAIN undo = 1 .. Len(undo) /\ Len(undo) - n \in 1 .. Len(undo)
  BY DEF AddonTypes
<1>2. /\ undo' \in Seq(SUBSET Effects) /\ Len(undo') = Len(undo) - n
      /\ \A k \in 1 .. Len(undo) - n : undo'[k] = undo[k]
  BY UndoTypes
<1>3. DOMAIN undo' = 1 .. Len(undo) - n
  BY <1>2
<1> QED BY <1>1, <1>2, <1>3

\* A boundary in the open transaction leaves what lies below it where it was.
LEMMA MarkedScenes ==
  ASSUME AddonTypes, NEW now \in SUBSET Effects, Mark(now), UNCHANGED owner,
         NEW D \in SUBSET Batches,
         owner \in Batches \ D =>
           /\ Len(undo) >= steps + 2
           /\ \A k \in 1 .. Len(undo) - steps - 1 : Lacks(undo[k], owner)
  PROVE  /\ owner' \in Batches \ D =>
              /\ Len(undo') >= steps' + 2
              /\ \A k \in 1 .. Len(undo') - steps' - 1 : Lacks(undo'[k], owner')
         /\ \A b : Lacks(now, b) /\ (\A k \in DOMAIN undo : Lacks(undo[k], b)) =>
              \A k \in DOMAIN undo' : Lacks(undo'[k], b)
<1>1. CASE owner = None
  BY <1>1, BatchAssumption DEF Mark
<1>2. CASE owner # None
  <2>1. undo' = Append(undo, now) /\ steps' = steps + 1 /\ steps \in Nat
    BY <1>2 DEF Mark, UndoPush, AddonTypes
  <2>2. /\ Len(undo) \in Nat \ {0} /\ Len(undo') = Len(undo) + 1
        /\ \A k \in 1 .. Len(undo) : undo'[k] = undo[k]
        /\ \A b : Lacks(now, b) /\ (\A k \in DOMAIN undo : Lacks(undo[k], b)) =>
             \A k \in DOMAIN undo' : Lacks(undo'[k], b)
    BY <2>1, PushedScenes
  <2>3. /\ Len(undo') - steps' - 1 = Len(undo) - steps - 1
        /\ 1 .. Len(undo) - steps - 1 \subseteq 1 .. Len(undo)
        /\ Len(undo) >= steps + 2 => Len(undo') >= steps' + 2
    BY <2>1, <2>2
  <2> QED BY <2>2, <2>3
<1> QED BY <1>1, <1>2

-----------------------------------------------------------------------------
(* What a rollback leaves: every step *)

LEMMA CleanInit == Init => CleanInv
<1> SUFFICES ASSUME Init PROVE CleanInv
  OBVIOUS
<1> USE DEF Init, TransactionInit
<1>1. scene = {} /\ DOMAIN undo = {1} /\ undo[1] = {} /\ inbox = <<>> /\ DOMAIN inbox = {}
  OBVIOUS
<1>2. ScenesInv
  BY <1>1, BatchAssumption DEF ScenesInv, Gone, Lacks
<1>3. StagesInv
  BY <1>1 DEF StagesInv
<1>4. ToldInv
  BY <1>1 DEF ToldInv, Told
<1> QED BY <1>2, <1>3, <1>4 DEF CleanInv

LEMMA ServerKeepsClean ==
  ASSUME TypeInv, OwnedInv, CleanInv, NEW b \in Batches, Server(b)
  PROVE  CleanInv'
<1>1. /\ UNCHANGED <<scene, undo, owner, steps, ran, disturbed>> /\ ~waiting[b]
      /\ \A c \in Batches \ {b} :
           phase'[c] = phase[c] /\ results'[c] = results[c] /\ outcome'[c] = outcome[c]
  BY ServerSteps DEF ServerFrame, transactionVars
<1>2. ScenesInv'
  BY <1>1 DEF CleanInv, ScenesInv, Gone
<1>3. \A c \in Batches : Gone(c)' <=> Gone(c)
  BY <1>1 DEF Gone
<1>4. \A c \in Batches \ {b} : Succeeded(c)' <=> Succeeded(c)
  BY <1>1 DEF Succeeded
<1>5. \A k \in DOMAIN inbox : inbox[k].by \in Batches
  BY QueuedTypes DEF TypeInv, QueueInv
<1>6. \A k \in DOMAIN inbox : ~(inbox[k].by = b /\ inbox[k].heard)
  BY <1>1 DEF TypeInv, QueueInv, Listening
<1>7. CASE /\ outcome' = outcome
           /\ \E r \in Requests : r.by = b /\ r.heard /\ Send(b, r) /\ Sends(b, r.kind)
  <2>1. PICK r \in Requests : r.by = b /\ r.heard /\ Send(b, r) /\ Sends(b, r.kind)
    BY <1>7
  <2> DEFINE n == Len(inbox) + 1
  <2>2. /\ DOMAIN inbox' = DOMAIN inbox \cup {n}
        /\ \A k \in DOMAIN inbox : inbox'[k] = inbox[k]
        /\ inbox'[n] = r
    BY <2>1, AppendFacts DEF TypeInv, QueueInv, Send
  <2> HIDE DEF n
  <2>3. reply'[b] # <<TRUE>> /\ \A c \in Batches \ {b} : reply'[c] = reply[c]
    <3>1. reply' = [reply EXCEPT ![b] = <<>>] /\ reply \in [Batches -> Seq(BOOLEAN)]
      BY <2>1 DEF Send, TypeInv, QueueInv
    <3>2. <<>> # <<TRUE>>
      BY Singletons
    <3> QED BY <3>1, <3>2
  <2>4. phase[b] \notin {"done", "closing", "opening"} /\ phase'[b] \notin {"idle", "done"}
    BY <2>1 DEF Sends
  <2>5. phase'[b] = "opening" => phase[b] = "idle"
    BY <2>1 DEF Sends
  <2>6. r.kind = "begin" => phase[b] = "idle"
    BY <2>1 DEF Sends
  <2>7. phase'[b] = "closing" => r.kind = Ending(b)'
    BY <2>1 DEF Sends, Ending, Succeeded
  <2>8. StagesInv'
    <3>1. \A c \in Batches : phase'[c] \in {"idle", "opening"} => ran'[c] = <<>>
      BY <1>1, <2>4, <2>5 DEF CleanInv, StagesInv
    <3>2. \A c \in Batches : outcome'[c] = "rolledBack" => phase'[c] = "done"
      BY <1>1, <1>7, <2>4 DEF CleanInv, StagesInv
    <3>3. \A k \in DOMAIN inbox' : inbox'[k].kind = "begin" => ran'[inbox'[k].by] = <<>>
      BY <1>1, <2>1, <2>2, <2>6 DEF CleanInv, StagesInv
    <3>4. \A k \in DOMAIN inbox' : inbox'[k].heard /\ phase'[inbox'[k].by] = "closing" =>
            inbox'[k].kind = Ending(inbox[k].by)'
      <4> SUFFICES ASSUME NEW k \in DOMAIN inbox', inbox'[k].heard,
                          phase'[inbox'[k].by] = "closing"
                   PROVE  inbox'[k].kind = Ending(inbox[k].by)'
        OBVIOUS
      <4>1. CASE k = n
        BY <2>1, <2>2, <2>7, <4>1 DEF Ending, Succeeded
      <4>2. CASE k # n
        <5>1. k \in DOMAIN inbox /\ inbox'[k] = inbox[k]
          BY <2>2, <4>2
        <5>2. inbox[k].by \in Batches \ {b}
          BY <1>5, <1>6, <5>1
        <5>3. inbox[k].kind = Ending(inbox[k].by)
          BY <1>1, <5>1, <5>2 DEF CleanInv, StagesInv
        <5> QED BY <1>1, <5>1, <5>2, <5>3 DEF Ending, Succeeded
      <4> QED BY <4>1, <4>2
    <3> QED BY <3>1, <3>2, <3>3, <3>4 DEF StagesInv
  <2>9. ToldInv'
    <3> SUFFICES ASSUME NEW c \in Batches, Told(c)'
                 PROVE  /\ \A k \in DOMAIN inbox' : inbox'[k].by # c
                        /\ c \notin disturbed' => Gone(c)'
      BY DEF ToldInv
    <3>1. c # b
      BY <1>7, <2>3, <2>4 DEF Told, CleanInv, StagesInv
    <3>2. Told(c)
      BY <1>1, <1>4, <2>3, <3>1 DEF Told
    <3> QED BY <1>1, <1>3, <2>1, <2>2, <3>1, <3>2 DEF CleanInv, ToldInv
  <2> QED BY <1>2, <2>8, <2>9 DEF CleanInv
<1>8. CASE UNCHANGED <<inbox, waiting, reply>> /\ Moves(b)
  <2>1. /\ phase[b] # "done" /\ phase'[b] \notin {"idle", "opening", "closing"}
        /\ outcome'[b] = "rolledBack" => phase'[b] = "done" /\ Told(b)
    BY <1>8 DEF Moves, Told, CleanInv, StagesInv
  <2>2. StagesInv'
    <3>1. \A k \in DOMAIN inbox' : inbox'[k].heard /\ phase'[inbox'[k].by] = "closing" =>
            inbox'[k].kind = Ending(inbox[k].by)'
      BY <1>1, <1>5, <1>6, <1>8 DEF CleanInv, StagesInv, Ending, Succeeded
    <3> QED BY <1>1, <1>8, <2>1, <3>1 DEF CleanInv, StagesInv
  <2>3. ToldInv'
    <3> SUFFICES ASSUME NEW c \in Batches, Told(c)'
                 PROVE  /\ \A k \in DOMAIN inbox' : inbox'[k].by # c
                        /\ c \notin disturbed' => Gone(c)'
      BY DEF ToldInv
    <3>1. CASE c = b
      <4>1. Told(c)
        BY <2>1, <3>1 DEF Told
      <4> QED BY <1>1, <1>3, <1>8, <4>1 DEF CleanInv, ToldInv
    <3>2. CASE c # b
      <4>1. Told(c)
        BY <1>1, <1>4, <1>8, <3>2 DEF Told
      <4> QED BY <1>1, <1>3, <1>8, <4>1 DEF CleanInv, ToldInv
    <3> QED BY <3>1, <3>2
  <2> QED BY <1>2, <2>2, <2>3 DEF CleanInv
<1> QED BY <1>7, <1>8, ServerSteps

\* Requests that were in the queue before, if heard then heard before.
Remain == \A i \in DOMAIN inbox' : \E j \in DOMAIN inbox :
  /\ inbox'[i].by = inbox[j].by /\ inbox'[i].kind = inbox[j].kind
  /\ inbox'[i].heard => inbox[j].heard

LEMMA RemainKeepsStages ==
  ASSUME TypeInv, StagesInv, Remain, UNCHANGED <<phase, results, outcome>>,
         \A c \in Batches : ran'[c] # ran[c] =>
           /\ phase[c] \notin {"idle", "opening"}
           /\ \A k \in DOMAIN inbox : inbox[k].by = c => inbox[k].kind # "begin"
  PROVE  StagesInv'
<1>1. \A k \in DOMAIN inbox : inbox[k].by \in Batches
  BY QueuedTypes DEF TypeInv, QueueInv
<1>2. \A i \in DOMAIN inbox' : inbox'[i].kind = "begin" => ran'[inbox'[i].by] = <<>>
  BY <1>1 DEF Remain, StagesInv
<1>3. \A i \in DOMAIN inbox' : inbox'[i].heard /\ phase'[inbox'[i].by] = "closing" =>
        inbox'[i].kind = Ending(inbox[i].by)'
  <2> SUFFICES ASSUME NEW i \in DOMAIN inbox', inbox'[i].heard, phase'[inbox'[i].by] = "closing"
               PROVE  inbox'[i].kind = Ending(inbox[i].by)'
    OBVIOUS
  <2>1. PICK j \in DOMAIN inbox : inbox'[i].by = inbox[j].by /\ inbox'[i].kind = inbox[j].kind
                                 /\ inbox[j].heard
    BY DEF Remain
  <2>2. inbox[j].kind = Ending(inbox[j].by)
    BY <2>1 DEF StagesInv
  <2> QED BY <2>1, <2>2 DEF Ending, Succeeded
<1> QED BY <1>2, <1>3 DEF StagesInv

LEMMA DropsRemain ==
  ASSUME NEW k, NEW p, Drops(inbox, inbox', k, p)
  PROVE  Remain
BY DropsElements DEF Remain

LEMMA FailRemains ==
  ASSUME TypeInv, NEW b \in Batches, Fail(b)
  PROVE  Remain
<1>1. PICK k \in DOMAIN inbox :
        \/ inbox' = [inbox EXCEPT ![k].heard = FALSE]
        \/ inbox' = Without(inbox, k)
  BY DEF Fail, Without
<1>2. inbox \in Seq(Requests)
  BY DEF TypeInv, QueueInv
<1>3. CASE inbox' = [inbox EXCEPT ![k].heard = FALSE]
  <2> DEFINE r == [inbox[k] EXCEPT !.heard = FALSE]
  <2>1. r \in Requests /\ r.by = inbox[k].by /\ r.kind = inbox[k].kind /\ ~r.heard
    BY <1>2, QueuedTypes DEF Requests
  <2>2. inbox' = [inbox EXCEPT ![k] = r]
    BY <1>3
  <2> HIDE DEF r
  <2>3. /\ DOMAIN inbox' = DOMAIN inbox
        /\ \A j \in DOMAIN inbox : inbox'[j] = IF j = k THEN r ELSE inbox[j]
    BY <1>2, <2>1, <2>2, RewriteFacts
  <2> QED BY <2>1, <2>3 DEF Remain
<1>4. CASE inbox' = Without(inbox, k)
  <2>1. PICK p : Drops(inbox, inbox', k, p)
    BY <1>2, <1>4, WithoutDrops
  <2> QED BY <2>1, DropsRemain
<1> QED BY <1>1, <1>3, <1>4

\* A step that answers nobody and leaves the scenes alone.
LEMMA RemainKeepsClean ==
  ASSUME TypeInv, CleanInv, Remain,
         UNCHANGED <<phase, results, outcome, reply, ran, disturbed>>, UNCHANGED transactionVars
  PROVE  CleanInv'
<1>1. StagesInv'
  BY RemainKeepsStages DEF CleanInv
<1>2. ScenesInv'
  BY DEF CleanInv, ScenesInv, Gone, transactionVars
<1>3. ToldInv'
  <2> SUFFICES ASSUME NEW c \in Batches, Told(c)'
               PROVE  /\ \A k \in DOMAIN inbox' : inbox'[k].by # c
                      /\ c \notin disturbed' => Gone(c)'
    BY DEF ToldInv
  <2>1. Told(c)
    BY DEF Told, Succeeded
  <2>2. \A k \in DOMAIN inbox' : inbox'[k].by # c
    BY <2>1 DEF CleanInv, ToldInv, Remain
  <2>3. c \notin disturbed' => Gone(c)'
    BY <2>1 DEF CleanInv, ToldInv, Gone, transactionVars
  <2> QED BY <2>2, <2>3
<1> QED BY <1>1, <1>2, <1>3 DEF CleanInv

LEMMA FailKeepsClean ==
  ASSUME TypeInv, CleanInv, NEW b \in Batches, Fail(b)
  PROVE  CleanInv'
<1>1. UNCHANGED <<phase, results, outcome, reply, ran, disturbed>> /\ UNCHANGED transactionVars
  BY DEF Fail
<1> QED BY <1>1, FailRemains, RemainKeepsClean

LEMMA UserKeepsClean ==
  ASSUME TypeInv, CleanInv, User
  PROVE  CleanInv'
<1>1. /\ UNCHANGED <<phase, results, outcome, reply, ran, inbox, owner, steps>>
      /\ disturbed \subseteq disturbed' /\ (owner # None => owner \in disturbed')
  BY DEF User, UserEdits, UserUndoes, serverVars
<1>2. StagesInv'
  BY <1>1 DEF CleanInv, StagesInv, Ending, Succeeded
<1>3. ASSUME NEW c \in Batches, Gone(c) PROVE Gone(c)'
  <2>1. CASE UserEdits(<<"user", work>>)
    <3>1. <<"user", work>>[1] = "user" /\ "user" # c
      BY BatchAssumption
    <3>2. scene' = scene \cup {<<"user", work>>} /\ undo' = Append(undo, scene')
      BY <2>1 DEF UserEdits, UndoPush
    <3>3. Lacks(scene', c)
      BY <1>3, <3>1, <3>2 DEF Gone, Lacks
    <3>4. scene' \in SUBSET Effects
      BY <3>2 DEF TypeInv, HistoryTypes, AddonTypes, Effects
    <3>5. \A k \in DOMAIN undo' : Lacks(undo'[k], c)
      BY <1>3, <3>2, <3>3, <3>4, PushedScenes DEF Gone, TypeInv
    <3> QED BY <3>3, <3>5 DEF Gone
  <2>2. CASE UserUndoes
    <3>1. /\ 1 < Len(undo) /\ scene' = undo[Len(undo) - 1]
          /\ undo' = SubSeq(undo, 1, Len(undo) - 1)
      BY <2>2 DEF UserUndoes
    <3>2. /\ (\A k \in 1 .. Len(undo) - 1 : Lacks(undo[k], c)) =>
               Lacks(scene', c) /\ \A k \in DOMAIN undo' : Lacks(undo'[k], c)
          /\ 1 .. Len(undo) - 1 \subseteq DOMAIN undo
      BY <3>1, RestoredScenes DEF TypeInv
    <3> QED BY <1>3, <3>2 DEF Gone
  <2> QED BY <2>1, <2>2 DEF User
<1>4. ScenesInv'
  BY <1>1, <1>3, BatchAssumption DEF CleanInv, ScenesInv
<1>5. ToldInv'
  BY <1>1, <1>3 DEF CleanInv, ToldInv, Told, Succeeded
<1> QED BY <1>2, <1>4, <1>5 DEF CleanInv

\* A rollback that goes well ends below the boundary that begin pushed.
LEMMA RollbackCleans ==
  ASSUME TypeInv, ScenesInv, owner # None, Rollback(TRUE), owner \notin disturbed
  PROVE  Lacks(scene', owner) /\ \A k \in DOMAIN undo' : Lacks(undo'[k], owner)
<1>1. AddonTypes /\ owner \in Batches
  BY DEF TypeInv, AddonTypes
<1>2. Undone \in Nat /\ Undone < Len(undo) /\ Undone = steps + 1 /\ steps \in Nat
  BY <1>1, UndoneType DEF Rollback, Undone, Undos, AddonTypes
<1>3. /\ scene' = undo[Len(undo) - Undone]
      /\ undo' = SubSeq(undo, 1, Len(undo) - Undone)
      /\ owner' = None
  BY <1>2 DEF Rollback, Undone
<1>4. Len(undo) - Undone = Len(undo) - steps - 1
  BY <1>1, <1>2 DEF AddonTypes
<1>5. \A k \in 1 .. Len(undo) - Undone : Lacks(undo[k], owner)
  BY <1>1, <1>4 DEF ScenesInv
<1> QED BY <1>1, <1>2, <1>3, <1>5, RestoredScenes

LEMMA TransactKeepsGone ==
  ASSUME TypeInv, Transact, NEW c, Gone(c)
  PROVE  Gone(c)'
<1>1. PICK ok \in BOOLEAN : \/ Begin(Head(inbox).by, ok)
                           \/ Step(ok)
                           \/ Commit(ok)
                           \/ Rollback(ok)
  BY DEF Transact
<1>2. AddonTypes /\ scene \in SUBSET Effects
  BY DEF TypeInv, AddonTypes
<1>3. CASE UNCHANGED <<scene, undo>>
  BY <1>3 DEF Gone
<1>4. CASE scene' = scene /\ undo' = Append(undo, scene)
  BY <1>2, <1>4, PushedScenes DEF Gone
<1>5. CASE Rollback(ok) /\ owner # None
  <2>1. /\ scene' = IF Undone = 0 THEN scene ELSE undo[Len(undo) - Undone]
        /\ undo' = SubSeq(undo, 1, Len(undo) - Undone)
    BY <1>5 DEF Rollback, Undone
  <2>2. Undone \in Nat /\ Undone < Len(undo)
    BY <1>2, UndoneType
  <2>3. /\ (\A k \in 1 .. Len(undo) - Undone : Lacks(undo[k], c)) =>
             /\ Lacks(undo[Len(undo) - Undone], c)
             /\ \A k \in DOMAIN undo' : Lacks(undo'[k], c)
        /\ 1 .. Len(undo) - Undone \subseteq DOMAIN undo
    BY <1>2, <2>1, <2>2, RestoredScenes
  <2> QED BY <2>1, <2>3 DEF Gone
<1>6. Begin(Head(inbox).by, ok) =>
        UNCHANGED <<scene, undo>> \/ (scene' = scene /\ undo' = Append(undo, scene))
  BY DEF Begin, UndoPush
<1>7. Step(ok) => UNCHANGED <<scene, undo>> \/ (scene' = scene /\ undo' = Append(undo, scene))
  BY DEF Step, Mark, UndoPush
<1>8. Commit(ok) => UNCHANGED <<scene, undo>>
  BY DEF Commit
<1>9. Rollback(ok) /\ owner = None => UNCHANGED <<scene, undo>>
  BY DEF Rollback, transactionVars
<1> QED BY <1>1, <1>3, <1>4, <1>5, <1>6, <1>7, <1>8, <1>9

LEMMA TransactKeepsScenes ==
  ASSUME TypeInv, OwnedInv, CleanInv, Transact
  PROVE  ScenesInv'
<1>1. PICK ok \in BOOLEAN :
        \/ Head(inbox).kind = "begin" /\ Begin(Head(inbox).by, ok)
        \/ Step(ok)
        \/ Commit(ok)
        \/ Rollback(ok)
  BY DEF Transact
<1>2. AddonTypes /\ scene \in SUBSET Effects /\ UNCHANGED <<ran, disturbed>>
      /\ inbox \in Seq(Requests) /\ inbox # <<>> /\ disturbed \in SUBSET Batches
  BY DEF TypeInv, AddonTypes, QueueInv, Transact, HistoryTypes
<1>3. \A b \in Batches : ran'[b] = <<>> => Gone(b)'
  BY <1>2, TransactKeepsGone DEF CleanInv, ScenesInv
<1> DEFINE Below == owner \in Batches \ disturbed =>
                      /\ Len(undo) >= steps + 2
                      /\ \A k \in 1 .. Len(undo) - steps - 1 : Lacks(undo[k], owner)
<1>4. Below
  BY DEF CleanInv, ScenesInv
<1>5. Below'
  <2>1. CASE Head(inbox).kind = "begin" /\ Begin(Head(inbox).by, ok)
    <3> DEFINE b == Head(inbox).by
    <3>1. b \in Batches /\ ran[b] = <<>>
      BY <1>2, <2>1, HeadTypes DEF CleanInv, StagesInv
    <3>2. Gone(b)
      BY <3>1 DEF CleanInv, ScenesInv
    <3>3. CASE ok
      <4>1. undo' = Append(undo, scene) /\ owner' = b /\ steps' = 0
        BY <2>1, <3>3 DEF Begin, UndoPush
      <4>2. /\ Len(undo) \in Nat \ {0} /\ Len(undo') = Len(undo) + 1
            /\ \A k \in 1 .. Len(undo) : undo'[k] = undo[k] /\ k \in DOMAIN undo
        BY <1>2, <4>1, PushedScenes DEF AddonTypes
      <4>3. Len(undo') >= steps' + 2 /\ Len(undo') - steps' - 1 = Len(undo)
        BY <4>1, <4>2
      <4>4. \A k \in 1 .. Len(undo) : Lacks(undo'[k], b)
        BY <3>2, <4>2 DEF Gone
      <4> HIDE DEF b
      <4> QED BY <4>1, <4>3, <4>4
    <3>4. CASE ~ok
      BY <1>2, <1>4, <2>1, <3>4 DEF Begin
    <3> QED BY <3>3, <3>4
  <2>2. CASE Step(ok)
    <3>1. Mark(scene) /\ UNCHANGED owner
      BY <2>2 DEF Step
    <3> QED BY <1>2, <1>4, <3>1, MarkedScenes
  <2>3. CASE Commit(ok)
    BY <2>3, BatchAssumption DEF Commit
  <2>4. CASE Rollback(ok)
    <3>1. owner' = None
      BY <2>4 DEF Rollback, transactionVars
    <3> QED BY <3>1, BatchAssumption
  <2> QED BY <1>1, <2>1, <2>2, <2>3, <2>4
<1> QED BY <1>3, <1>5 DEF ScenesInv

LEMMA TransactKeepsClean ==
  ASSUME TypeInv, OwnedInv, CleanInv, Transact
  PROVE  CleanInv'
<1> DEFINE r == inbox[1]
           b == inbox[1].by
<1>1. PICK ok \in BOOLEAN :
        /\ Head(inbox).kind = "rollback" => Rollback(ok)
        /\ Head(inbox).kind \in {"begin", "step", "commit", "rollback"}
        /\ Respond(ok)
  BY DEF Transact
<1>2. <<ok>> \in Seq(BOOLEAN) /\ Answer(<<ok>>) /\ inbox # <<>>
  BY <1>1 DEF Respond, Transact
<1>3. /\ \E p : Drops(inbox, inbox', 1, p)
      /\ 1 \in DOMAIN inbox /\ Head(inbox) = r /\ b \in Batches
      /\ \A k \in DOMAIN inbox : k # 1 => 1 < k
      /\ UNCHANGED <<phase, results, outcome>>
      /\ \A c \in Batches : reply'[c] # reply[c] =>
           c = b /\ inbox[1].heard /\ reply'[c] = <<ok>>
  BY <1>2, AnswerSteps
<1>4. PICK p : Drops(inbox, inbox', 1, p)
  BY <1>3
<1>5. UNCHANGED <<ran, disturbed>>
  BY DEF Transact
<1>6. StagesInv'
  BY <1>3, <1>4, <1>5, DropsRemain, RemainKeepsStages DEF CleanInv
<1>7. ScenesInv'
  BY TransactKeepsScenes
<1>8. \A c \in Batches : Succeeded(c)' <=> Succeeded(c)
  BY <1>3 DEF Succeeded
<1>9. \A i \in DOMAIN inbox' : \E j \in DOMAIN inbox : j # 1 /\ inbox'[i] = inbox[j]
  BY <1>4, DropsElements
<1>10. ASSUME NEW c \in Batches, Told(c)'
       PROVE  /\ \A k \in DOMAIN inbox' : inbox'[k].by # c
              /\ c \notin disturbed' => Gone(c)'
  <2>1. CASE Told(c)
    <3>1. \A k \in DOMAIN inbox' : inbox'[k].by # c
      BY <1>9, <2>1 DEF CleanInv, ToldInv
    <3>2. c \notin disturbed' => Gone(c)'
      BY <1>5, <2>1, TransactKeepsGone DEF CleanInv, ToldInv
    <3> QED BY <3>1, <3>2
  <2>2. CASE ~Told(c)
    <3>1. /\ phase[c] = "closing" /\ ~Succeeded(c) /\ reply'[c] = <<TRUE>>
          /\ reply[c] # <<TRUE>>
      BY <1>3, <1>8, <1>10, <2>2 DEF Told
    <3>2. c = b /\ inbox[1].heard /\ ok
      BY <1>3, <3>1, Singletons
    <3>3. r.kind = "rollback"
      BY <1>3, <3>1, <3>2 DEF CleanInv, StagesInv, Ending
    <3>4. ok = TRUE
      BY <3>2
    <3>5. Rollback(TRUE)
      BY <1>1, <1>3, <3>3, <3>4
    <3>6. owner = c
      <4>1. Fits(r)
        BY <1>3 DEF OwnedInv
      <4> QED BY <3>2, <3>3, <4>1 DEF Fits
    <3>7. c # None
      BY BatchAssumption
    <3>8. c \notin disturbed => Lacks(scene', c) /\ \A k \in DOMAIN undo' : Lacks(undo'[k], c)
      BY <3>5, <3>6, <3>7, RollbackCleans DEF CleanInv
    <3>9. \A j \in DOMAIN inbox : j # 1 => inbox[j].by # c
      <4> SUFFICES ASSUME NEW j \in DOMAIN inbox, j # 1, inbox[j].by = c PROVE FALSE
        OBVIOUS
      <4>1. 1 < j /\ j \in Nat
        BY <1>3 DEF TypeInv, QueueInv
      <4>2. j <= 1
        BY <1>3, <3>2, <3>3 DEF OwnedInv, Ordered
      <4> QED BY <4>1, <4>2
    <3> QED BY <1>5, <1>9, <3>8, <3>9 DEF Gone
  <2> QED BY <2>1, <2>2
<1> QED BY <1>6, <1>7, <1>10 DEF CleanInv, ToldInv

LEMMA RunNextKeepsClean ==
  ASSUME TypeInv, OwnedInv, CleanInv, RunNext
  PROVE  CleanInv'
<1> DEFINE r == Head(inbox)
           b == Head(inbox).by
           i == r.first + Len(r.out)
<1>1. PICK how \in {"ok", "failed", "half"} :
        LET out == Append(r.out, how = "ok")
        IN  /\ Perform(r.by, i, how, r.mark)
            /\ IF Ends(r, i, how)
               THEN Answer(out)
               ELSE inbox' = [inbox EXCEPT ![1].out = out] /\ UNCHANGED <<serverVars, faults>>
  BY DEF RunNext
<1> DEFINE out == Append(r.out, how = "ok")
<1>2. inbox \in Seq(Requests) /\ inbox # <<>> /\ r.kind = "ops"
  BY DEF RunNext, TypeInv, QueueInv
<1>3. /\ r = inbox[1] /\ r \in Requests /\ 1 \in DOMAIN inbox /\ out \in Seq(BOOLEAN)
      /\ b = inbox[1].by /\ b \in Batches /\ i \in Nat
  <2>1. /\ r = inbox[1] /\ r \in Requests /\ 1 \in DOMAIN inbox /\ b \in Batches
        /\ r.first \in Nat /\ r.out \in Seq(BOOLEAN)
    BY <1>2, HeadTypes
  <2> QED BY <2>1
<1>4. Perform(b, i, how, r.mark)
  BY <1>1
<1>5. Answer(out) \/ (inbox' = [inbox EXCEPT ![1].out = out] /\ UNCHANGED serverVars)
  BY <1>1
<1>6. UNCHANGED disturbed
  BY DEF RunNext
<1> HIDE DEF r, b, i, out
<1>7. Fits(inbox[1]) /\ inbox[1].kind = "ops" /\ inbox[1].by = b
  BY <1>2, <1>3 DEF OwnedInv
\* What happens to the queue and to the answers.
<1>8. /\ Remain /\ UNCHANGED <<phase, results, outcome>>
      /\ \A c \in Batches : reply'[c] # reply[c] => c = b /\ inbox[1].heard
  <2>1. CASE Answer(out)
    <3>1. /\ \E p : Drops(inbox, inbox', 1, p)
          /\ UNCHANGED <<phase, results, outcome>>
          /\ \A c \in Batches : reply'[c] # reply[c] => c = inbox[1].by /\ inbox[1].heard
      BY <1>2, <1>3, <2>1, AnswerSteps
    <3> QED BY <1>3, <3>1, DropsRemain
  <2>2. CASE inbox' = [inbox EXCEPT ![1].out = out] /\ UNCHANGED serverVars
    <3> DEFINE q == [inbox[1] EXCEPT !.out = out]
    <3>1. q \in Requests /\ q.by = inbox[1].by /\ q.kind = inbox[1].kind
          /\ q.heard = inbox[1].heard
      BY <1>3 DEF Requests
    <3>2. inbox' = [inbox EXCEPT ![1] = q]
      BY <2>2
    <3> HIDE DEF q
    <3>3. /\ DOMAIN inbox' = DOMAIN inbox
          /\ \A j \in DOMAIN inbox : inbox'[j] = IF j = 1 THEN q ELSE inbox[j]
      BY <1>2, <1>3, <3>1, <3>2, RewriteFacts
    <3> QED BY <2>2, <3>1, <3>3 DEF Remain, serverVars
  <2> QED BY <1>5, <2>1, <2>2
<1>9. /\ ran'[b] # <<>> /\ \A c \in Batches \ {b} : ran'[c] = ran[c]
  <2>1. ran' = [ran EXCEPT ![b] = Append(@, i)] /\ ran \in [Batches -> Seq(Nat)]
    BY <1>4 DEF Perform, TypeInv, HistoryTypes
  <2>2. ran[b] \in Seq(Nat)
    BY <1>3, <2>1
  <2>3. Append(ran[b], i) # <<>>
    BY <1>3, <2>2
  <2> QED BY <1>3, <2>1, <2>3
<1>10. StagesInv'
  <2>1. phase[b] \notin {"idle", "opening"}
    BY <1>3, <1>7 DEF Fits, OwnedInv, Holds
  <2>2. \A k \in DOMAIN inbox : inbox[k].by = b => inbox[k].kind # "begin"
    BY <1>3, <1>7 DEF OwnedInv, Ordered
  <2> QED BY <1>8, <1>9, <2>1, <2>2, RemainKeepsStages DEF CleanInv
<1>11. UNCHANGED owner /\ scene' \in SUBSET Effects /\ scene \subseteq scene'
       /\ \A e \in scene' : e \in scene \/ e = <<b, i>>
  BY <1>3, <1>4 DEF Perform, TypeInv, AddonTypes, Effects
<1>12. Mark(scene') \/ UNCHANGED <<undo, steps>>
  BY <1>4 DEF Perform
<1>13. AddonTypes /\ disturbed \in SUBSET Batches
  BY DEF TypeInv, HistoryTypes
<1> DEFINE Below == owner \in Batches \ disturbed =>
                      /\ Len(undo) >= steps + 2
                      /\ \A k \in 1 .. Len(undo) - steps - 1 : Lacks(undo[k], owner)
<1>14. Below
  BY DEF CleanInv, ScenesInv
<1>15. /\ Below'
       /\ \A c : Lacks(scene', c) /\ (\A k \in DOMAIN undo : Lacks(undo[k], c)) =>
            \A k \in DOMAIN undo' : Lacks(undo'[k], c)
  <2>1. CASE Mark(scene')
    BY <1>6, <1>11, <1>13, <1>14, <2>1, MarkedScenes
  <2>2. CASE UNCHANGED <<undo, steps>>
    BY <1>6, <1>11, <1>14, <2>2
  <2> QED BY <1>12, <2>1, <2>2
<1>16. ASSUME NEW c \in Batches, c # b, Gone(c) PROVE Gone(c)'
  <2>1. <<b, i>>[1] # c
    BY <1>16
  <2>2. Lacks(scene', c)
    BY <1>11, <1>16, <2>1 DEF Gone, Lacks
  <2> QED BY <1>15, <1>16, <2>2 DEF Gone
<1>17. ScenesInv'
  <2>1. \A c \in Batches : ran'[c] = <<>> => Gone(c)'
    BY <1>9, <1>16 DEF CleanInv, ScenesInv
  <2> QED BY <1>15, <2>1 DEF ScenesInv
<1>18. ToldInv'
  <2> SUFFICES ASSUME NEW c \in Batches, Told(c)'
               PROVE  /\ \A k \in DOMAIN inbox' : inbox'[k].by # c
                      /\ c \notin disturbed' => Gone(c)'
    BY DEF ToldInv
  <2>1. Succeeded(c)' <=> Succeeded(c)
    BY <1>8 DEF Succeeded
  <2>2. Told(c)
    <3> SUFFICES ASSUME ~Told(c) PROVE FALSE
      OBVIOUS
    <3>1. phase[c] = "closing" /\ ~Succeeded(c) /\ reply'[c] # reply[c]
      BY <1>8, <2>1 DEF Told
    <3>2. c = b /\ inbox[1].heard
      BY <1>8, <3>1
    <3> QED BY <1>3, <1>7, <3>1, <3>2 DEF CleanInv, StagesInv, Ending
  <2>3. c # b
    BY <1>3, <1>7, <2>2 DEF CleanInv, ToldInv
  <2> QED BY <1>6, <1>8, <1>16, <2>2, <2>3 DEF CleanInv, ToldInv, Remain
<1> QED BY <1>10, <1>17, <1>18 DEF CleanInv

LEMMA CleanNext ==
  ASSUME TypeInv, OwnedInv, CleanInv, [Next]_vars
  PROVE  CleanInv'
<1>1. ASSUME NEW b \in Batches, Server(b) PROVE CleanInv'
  BY <1>1, ServerKeepsClean
<1>2. ASSUME NEW b \in Batches, Fail(b) PROVE CleanInv'
  BY <1>2, FailKeepsClean
<1>3. CASE Transact  BY <1>3, TransactKeepsClean
<1>4. CASE RunNext   BY <1>4, RunNextKeepsClean
<1>5. CASE User      BY <1>5, UserKeepsClean
<1>6. CASE UNCHANGED vars
  <2>1. /\ UNCHANGED <<phase, results, outcome, reply, ran, disturbed, inbox>>
        /\ UNCHANGED transactionVars
    BY <1>6 DEF vars, serverVars
  <2>2. Remain
    BY <2>1 DEF Remain
  <2> QED BY <2>1, <2>2, RemainKeepsClean
<1> QED BY <1>1, <1>2, <1>3, <1>4, <1>5, <1>6 DEF Next, Done

(* A batch that reports that it was rolled back has left nothing in the scene, however
   many batches share the undo stack and whatever was lost or answered late, unless the
   user worked in Blender while it was open (transaction.py, rollback; batch.rs,
   execute). *)
THEOREM RolledBackBatchesAreGone == Spec => []RolledBackIsGone
<1>1. Init => TypeInv /\ OwnedInv /\ CleanInv
  BY TypeInit, OwnedInit, CleanInit
<1>2. TypeInv /\ OwnedInv /\ CleanInv /\ [Next]_vars => (TypeInv /\ OwnedInv /\ CleanInv)'
  BY TypeNext, OwnedNext, CleanNext
<1>3. CleanInv => RolledBackIsGone
  BY DEF CleanInv, ToldInv, Told, Gone, Lacks, RolledBackIsGone
<1> QED BY <1>1, <1>2, <1>3, PTL DEF Spec

-----------------------------------------------------------------------------
(* What runs and what is reported of a batch.  The theorems on it follow from one
   invariant of each batch: on the requests it has sent and where the operations in them
   lie (SentInv), on the answer it has not looked at yet (AnswerInv), on what has run
   (RanInv) and on the report (ReportInv). *)

Ran(b) == {ran[b][j] : j \in DOMAIN ran[b]}

\* The next operation of a request.
At(r) == r.first + Len(r.out)

Early == {"idle", "opening"}
Calling == {"run", "one"}
Working == Early \cup Calling \cup {"ready", "marking"}

\* The last operation of the request a batch waits for.
End(b) == IF phase[b] = "run" THEN RunEnd(b, index[b]) ELSE index[b]

\* The operations b has sent to Blender so far are among those up to this one.
Reach(b) == CASE phase[b] \in Calling   -> End(b)
              [] phase[b] = "marking"   -> index[b]
              [] OTHER                  -> index[b] - 1

OfRun(b, k) == inbox[k].by = b /\ inbox[k].kind = "ops"

NoneSent(b) == \A k \in DOMAIN inbox : ~OfRun(b, k)

Upto(b, n) == \A i \in Ran(b) : i <= n

\* A request to run operations of b, wherever it is.
Sound(b, r) ==
  /\ At(r) <= r.last
  /\ \A i \in Ran(b) : i < At(r)
  /\ \A i \in r.first .. r.last : Op(b, i).needs \subseteq Outputs(b)
  /\ \A k \in DOMAIN r.out : r.first + k - 1 \in Ran(b)
  /\ r.stop = ~CarriesOn(b)
  /\ r.stop => \A k \in DOMAIN r.out : r.out[k]
  /\ phase[b] \in Working => r.last <= Reach(b)
  /\ phase[b] \notin Early
  /\ r.heard => phase[b] \in Calling
  /\ r.heard \/ (phase[b] \in Calling /\ ~CarriesOn(b)) => r.first = index[b] /\ r.last = End(b)

Awaits(b, r) ==
  CASE r.kind = "ops"   -> phase[b] \in Calling
    [] r.kind = "begin" -> phase[b] = "opening"
    [] r.kind = "step"  -> phase[b] = "marking"
    [] OTHER            -> phase[b] = "closing"

SentInv(b) ==
  /\ \A k \in DOMAIN inbox : OfRun(b, k) => Sound(b, inbox[k])
  /\ \A j, k \in DOMAIN inbox : OfRun(b, j) /\ OfRun(b, k) /\ j < k =>
       inbox[j].last < inbox[k].first
  /\ \A k \in DOMAIN inbox : inbox[k].by = b /\ inbox[k].heard => Awaits(b, inbox[k])
  /\ ~CarriesOn(b) /\ phase[b] \in {"ready", "marking"} => NoneSent(b)

\* The answer to a request of operations.
AnswerInv(b) ==
  phase[b] \in Calling /\ reply[b] # <<>> =>
    /\ index[b] + Len(reply[b]) - 1 <= End(b)
    /\ \A k \in DOMAIN reply[b] : index[b] + k - 1 \in Ran(b)
    /\ Upto(b, index[b] + Len(reply[b]) - 1)
    /\ ~CarriesOn(b) => \A k \in DOMAIN reply[b] : k < Len(reply[b]) => reply[b][k]
    /\ \/ Len(reply[b]) = End(b) - index[b] + 1
       \/ ~CarriesOn(b) /\ ~reply[b][Len(reply[b])]
    /\ ~CarriesOn(b) => NoneSent(b)

RanInv(b) ==
  /\ \A j, k \in DOMAIN ran[b] : j < k => ran[b][j] < ran[b][k]
  /\ \A j \in DOMAIN ran[b] : Op(b, ran[b][j]).needs \subseteq Outputs(b)
  /\ phase[b] \in Working => Upto(b, Reach(b))

Lost(b) == \E k \in DOMAIN results[b] : results[b][k].how = "lost"

StoppedShort(b) ==
  \/ Lost(b)
  \/ ~CarriesOn(b) /\ results[b] # <<>> /\ results[b][Len(results[b])].how = "failed"

ReportInv(b) ==
  /\ \A k \in DOMAIN results[b] : results[b][k].index = k
  /\ \A k \in DOMAIN results[b] : results[b][k].how = "ok" => k \in Ran(b)
  /\ phase[b] \in Early \cup Calling \cup {"ready"} => Len(results[b]) = index[b] - 1
  /\ phase[b] = "marking" => Len(results[b]) = index[b]
  /\ phase[b] \in Early => index[b] = 1 /\ ran[b] = <<>>
  /\ phase[b] \in Calling => index[b] <= End(b)
  /\ phase[b] = "marking" => ~CarriesOn(b)
  /\ ~CarriesOn(b) => \A k \in DOMAIN results[b] : results[b][k].how = "failed" =>
       phase[b] \notin Working /\ NoneSent(b) /\ Upto(b, k)
  /\ phase[b] = "over" => StoppedShort(b)
  /\ outcome[b] # "none" => phase[b] = "done"
  /\ phase[b] = "closing" \/ outcome[b] \in {"finished", "committed", "rolledBack"} =>
       Len(results[b]) >= Size(b) \/ StoppedShort(b)

BatchInv(b) == SentInv(b) /\ AnswerInv(b) /\ RanInv(b) /\ ReportInv(b)

AllInv == \A b \in Batches : BatchInv(b)

-----------------------------------------------------------------------------
LEMMA RunEndFacts ==
  ASSUME NEW b \in Batches, plan \in [Batches -> Plans], NEW i \in Nat \ {0}
  PROVE  /\ RunEnd(b, i) \in Nat /\ RunEnd(b, i) >= i - 1
         /\ \A k \in i .. RunEnd(b, i) : Op(b, k).needs = {}
<1> DEFINE T == {i - 1} \cup {j \in i .. Size(b) : \A k \in i .. j : Coalesces(Op(b, k))}
           n == IF i <= Size(b) THEN Size(b) ELSE i
<1>1. n \in Nat /\ T \in SUBSET (0 .. n) /\ T # {}
  BY PlanTypes
<1>2. i - 1 \in T /\ \A j \in T : \A k \in i .. j : Coalesces(Op(b, k))
  OBVIOUS
<1> HIDE DEF T, n
<1>3. Max(T) \in T /\ \A y \in T : y <= Max(T)
  BY <1>1, GreatestNat
<1> DEFINE m == Max(T)
<1> HIDE DEF m
<1>4. m \in Nat /\ m >= i - 1 /\ \A k \in i .. m : Coalesces(Op(b, k))
  <2>1. m \in T /\ m \in Nat
    <3>1. m \in T
      BY <1>3 DEF m
    <3>2. T \subseteq Nat
      BY <1>1
    <3> QED BY <3>1, <3>2
  <2>2. m >= i - 1
    BY <1>2, <1>3 DEF m
  <2>3. m = i - 1 \/ \A k \in i .. m : Coalesces(Op(b, k))
    BY <2>1 DEF T
  <2>4. m = i - 1 => i .. m = {}
    BY <2>1
  <2> QED BY <2>1, <2>2, <2>3, <2>4
<1> QED BY <1>4 DEF RunEnd, T, m, Coalesces

Entry == [index : Nat, how : {"ok", "failed", "lost"}]

LEMMA StateTypes ==
  ASSUME TypeInv, NEW b \in Batches
  PROVE  /\ phase[b] \in Phases /\ index[b] \in Nat \ {0} /\ Size(b) \in Nat
         /\ results[b] \in Seq(Entry) /\ reply[b] \in Seq(BOOLEAN) /\ ran[b] \in Seq(Nat)
         /\ Ran(b) \in SUBSET Nat /\ End(b) \in Nat /\ Reach(b) \in Nat
<1>1. /\ phase[b] \in Phases /\ index[b] \in Nat \ {0}
      /\ results[b] \in Seq(Entry) /\ reply[b] \in Seq(BOOLEAN) /\ ran[b] \in Seq(Nat)
  BY DEF TypeInv, ServerTypes, QueueInv, HistoryTypes, Entry
<1>2. plan \in [Batches -> Plans]
  BY DEF TypeInv, ServerTypes
<1>3. End(b) \in Nat /\ Size(b) \in Nat
  BY <1>1, <1>2, RunEndFacts, PlanTypes DEF End
<1>4. Reach(b) \in Nat
  BY <1>1, <1>3 DEF Reach
<1>5. Ran(b) \in SUBSET Nat
  BY <1>1 DEF Ran
<1> QED BY <1>1, <1>3, <1>4, <1>5

LEMMA QueueTypes ==
  ASSUME TypeInv, NEW k \in DOMAIN inbox
  PROVE  /\ inbox[k] \in Requests /\ inbox[k].by \in Batches /\ inbox[k].heard \in BOOLEAN
         /\ inbox[k].first \in Nat /\ inbox[k].last \in Nat /\ inbox[k].out \in Seq(BOOLEAN)
         /\ inbox[k].stop \in BOOLEAN /\ At(inbox[k]) \in Nat /\ k \in Nat
<1>1. inbox \in Seq(Requests)
  BY DEF TypeInv, QueueInv
<1>2. inbox[k] \in Requests /\ k \in Nat
  BY <1>1
<1> QED BY <1>2 DEF Requests, At

-----------------------------------------------------------------------------
(* Steps that leave a batch alone *)

\* A request as it was, or no longer heard.
Same(r, s) ==
  /\ s.by = r.by /\ s.kind = r.kind /\ s.first = r.first /\ s.last = r.last
  /\ s.stop = r.stop /\ s.out = r.out /\ (s.heard => r.heard)

LEMMA AloneKeepsBatch ==
  ASSUME TypeInv, NEW b \in Batches, BatchInv(b),
         plan' = plan, phase'[b] = phase[b], index'[b] = index[b], results'[b] = results[b],
         outcome'[b] = outcome[b], ran'[b] = ran[b],
         reply'[b] = reply[b] \/ phase[b] \notin Calling,
         NEW p,
         \A j \in DOMAIN inbox' : inbox'[j].by = b =>
           p[j] \in DOMAIN inbox /\ Same(inbox[p[j]], inbox'[j]),
         \A i, j \in DOMAIN inbox' :
           inbox'[i].by = b /\ inbox'[j].by = b /\ i < j => p[i] < p[j]
  PROVE  BatchInv(b)'
<1>1. /\ Ran(b)' = Ran(b) /\ Outputs(b)' = Outputs(b) /\ Size(b)' = Size(b)
      /\ End(b)' = End(b) /\ Reach(b)' = Reach(b) /\ (CarriesOn(b)' <=> CarriesOn(b))
      /\ (StoppedShort(b)' <=> StoppedShort(b))
      /\ \A n : (Upto(b, n)' <=> Upto(b, n)) /\ Op(b, n)' = Op(b, n)
  <2>1. Ran(b)' = Ran(b)
    BY DEF Ran
  <2>2. Outputs(b)' = Outputs(b)
    BY DEF Outputs
  <2>3. /\ Size(b)' = Size(b) /\ (CarriesOn(b)' <=> CarriesOn(b))
        /\ \A n : Op(b, n)' = Op(b, n)
    BY DEF Size, CarriesOn, Op
  <2>4. RunEnd(b, index[b])' = RunEnd(b, index[b])
    BY <2>3 DEF RunEnd
  <2>5. End(b)' = End(b) /\ Reach(b)' = Reach(b)
    BY <2>4 DEF End, Reach
  <2>6. StoppedShort(b)' <=> StoppedShort(b)
    BY <2>3 DEF StoppedShort, Lost
  <2>7. \A n : Upto(b, n)' <=> Upto(b, n)
    BY <2>1 DEF Upto
  <2> QED BY <2>1, <2>2, <2>3, <2>5, <2>6, <2>7
<1>2. ASSUME NEW j \in DOMAIN inbox', inbox'[j].by = b
      PROVE  /\ p[j] \in DOMAIN inbox /\ Same(inbox[p[j]], inbox'[j])
             /\ OfRun(b, j)' <=> OfRun(b, p[j])
  BY <1>2 DEF OfRun, Same
<1>3. NoneSent(b) => NoneSent(b)'
  BY <1>2 DEF NoneSent, OfRun, Same
<1>4. SentInv(b)'
  <2>1. ASSUME NEW j \in DOMAIN inbox', OfRun(b, j)' PROVE Sound(b, inbox[j])'
    <3>1. /\ p[j] \in DOMAIN inbox /\ Same(inbox[p[j]], inbox'[j]) /\ OfRun(b, p[j])
      BY <1>2, <2>1 DEF OfRun
    <3>2. Sound(b, inbox[p[j]])
      BY <3>1 DEF BatchInv, SentInv
    <3> QED BY <1>1, <3>1, <3>2 DEF Sound, Same, At
  <2>2. ASSUME NEW i \in DOMAIN inbox', NEW j \in DOMAIN inbox', OfRun(b, i)', OfRun(b, j)', i < j
        PROVE  inbox'[i].last < inbox'[j].first
    <3>1. /\ p[i] \in DOMAIN inbox /\ Same(inbox[p[i]], inbox'[i]) /\ OfRun(b, p[i])
          /\ p[j] \in DOMAIN inbox /\ Same(inbox[p[j]], inbox'[j]) /\ OfRun(b, p[j])
          /\ p[i] < p[j]
      BY <1>2, <2>2 DEF OfRun
    <3>2. inbox[p[i]].last < inbox[p[j]].first
      BY <3>1 DEF BatchInv, SentInv
    <3> QED BY <3>1, <3>2 DEF Same
  <2>3. ASSUME NEW j \in DOMAIN inbox', inbox'[j].by = b, inbox'[j].heard
        PROVE  Awaits(b, inbox[j])'
    <3>1. p[j] \in DOMAIN inbox /\ Same(inbox[p[j]], inbox'[j])
      BY <1>2, <2>3
    <3>2. Awaits(b, inbox[p[j]])
      BY <2>3, <3>1 DEF BatchInv, SentInv, Same
    <3> QED BY <3>1, <3>2 DEF Awaits, Same
  <2>4. ~CarriesOn(b)' /\ phase'[b] \in {"ready", "marking"} => NoneSent(b)'
    BY <1>1, <1>3 DEF BatchInv, SentInv
  <2> QED BY <2>1, <2>2, <2>3, <2>4 DEF SentInv
<1>5. AnswerInv(b)'
  <2>1. AnswerInv(b)
    BY DEF BatchInv
  <2> QED BY <1>1, <1>3, <2>1 DEF AnswerInv
<1>6. RanInv(b)'
  <2>1. RanInv(b)
    BY DEF BatchInv
  <2> QED BY <1>1, <2>1 DEF RanInv
<1>7. ReportInv(b)'
  <2>1. ReportInv(b)
    BY DEF BatchInv
  <2> QED BY <1>1, <1>3, <2>1 DEF ReportInv
<1> QED BY <1>4, <1>5, <1>6, <1>7 DEF BatchInv

LEMMA ServerLeavesOthers ==
  ASSUME TypeInv, NEW b \in Batches, Server(b), NEW c \in Batches \ {b}, BatchInv(c)
  PROVE  BatchInv(c)'
<1> DEFINE p == [j \in Nat |-> j]
<1>1. /\ ServerFrame(b) /\ ~waiting[b]
      /\ \/ \E r \in Requests : r.by = b /\ r.heard /\ Send(b, r)
         \/ UNCHANGED <<inbox, waiting, reply>>
  BY ServerSteps
<1>2. /\ plan' = plan /\ ran' = ran /\ phase'[c] = phase[c] /\ index'[c] = index[c]
      /\ results'[c] = results[c] /\ outcome'[c] = outcome[c]
  BY <1>1 DEF ServerFrame
<1>3. \A j \in DOMAIN inbox : j \in Nat /\ Same(inbox[j], inbox[j])
  BY QueueTypes DEF Same
<1>4. CASE UNCHANGED <<inbox, waiting, reply>>
  <2>1. /\ \A j \in DOMAIN inbox' : p[j] \in DOMAIN inbox /\ Same(inbox[p[j]], inbox'[j])
        /\ \A i, j \in DOMAIN inbox' : i < j => p[i] < p[j]
    BY <1>3, <1>4
  <2> HIDE DEF p
  <2> QED BY <1>2, <1>4, <2>1, AloneKeepsBatch
<1>5. CASE \E r \in Requests : r.by = b /\ r.heard /\ Send(b, r)
  <2>1. PICK r \in Requests : r.by = b /\ r.heard /\ Send(b, r)
    BY <1>5
  <2>2. reply'[c] = reply[c]
    BY <1>1, <2>1, SendKeepsQueue DEF TypeInv
  <2>3. /\ DOMAIN inbox' = DOMAIN inbox \cup {Len(inbox) + 1}
        /\ \A k \in DOMAIN inbox : inbox'[k] = inbox[k]
        /\ inbox'[Len(inbox) + 1] = r /\ Len(inbox) + 1 \in Nat
    BY <2>1, AppendFacts DEF Send, TypeInv, QueueInv
  <2>4. /\ \A j \in DOMAIN inbox' : inbox'[j].by = c =>
             p[j] \in DOMAIN inbox /\ Same(inbox[p[j]], inbox'[j])
        /\ \A i, j \in DOMAIN inbox' : i < j => p[i] < p[j]
    BY <1>3, <2>1, <2>3
  <2> HIDE DEF p
  <2> QED BY <1>2, <2>2, <2>4, AloneKeepsBatch
<1> QED BY <1>1, <1>4, <1>5

-----------------------------------------------------------------------------
(* Steps of the server for the batch itself *)

\* The queue as it was, or with a request of b at its end.
Queues(b, r) ==
  \/ inbox' = inbox
  \/ /\ Send(b, r) /\ r \in Requests /\ r.by = b
     /\ Awaits(b, r)'

LEMMA QueuesFacts ==
  ASSUME TypeInv, NEW b \in Batches, NEW r, Queues(b, r)
  PROVE  /\ \A k \in DOMAIN inbox : k \in DOMAIN inbox' /\ inbox'[k] = inbox[k]
         /\ \A k \in DOMAIN inbox' \ DOMAIN inbox :
              inbox'[k] = r /\ r.by = b /\ Awaits(b, r)' /\ \A j \in DOMAIN inbox : j < k
         /\ \A j, k \in DOMAIN inbox' \ DOMAIN inbox : j = k
         /\ DOMAIN inbox' \subseteq Nat
<1>1. DOMAIN inbox \subseteq Nat
  BY QueueTypes
<1>2. CASE inbox' = inbox
  BY <1>1, <1>2
<1>3. CASE Send(b, r) /\ r \in Requests /\ r.by = b /\ Awaits(b, r)'
  <2> DEFINE n == Len(inbox) + 1
  <2>1. /\ DOMAIN inbox' = DOMAIN inbox \cup {n}
        /\ \A k \in DOMAIN inbox : inbox'[k] = inbox[k] /\ k < n
        /\ inbox'[n] = r /\ n \in Nat
    BY <1>3, AppendFacts DEF Send, TypeInv, QueueInv
  <2> HIDE DEF n
  <2> QED BY <1>1, <1>3, <2>1
<1> QED BY <1>2, <1>3 DEF Queues

\* A step that sends no operations.
LEMMA QuietStep ==
  ASSUME TypeInv, NEW b \in Batches, BatchInv(b),
         plan' = plan, ran' = ran, ~waiting[b], phase'[b] \in Phases \ Calling,
         NEW r, r.kind # "ops", Queues(b, r),
         Outputs(b) \subseteq Outputs(b)',
         Reach(b)' \in Nat,
         phase'[b] \in Early => phase[b] \in Early /\ index'[b] = index[b],
         phase'[b] \in Working => phase[b] \in Working /\ Reach(b) <= Reach(b)',
         ~CarriesOn(b) /\ phase'[b] \in {"ready", "marking"} => NoneSent(b)
  PROVE  /\ SentInv(b)' /\ AnswerInv(b)' /\ RanInv(b)'
         /\ NoneSent(b) => NoneSent(b)'
<1>1. /\ Ran(b)' = Ran(b) /\ (CarriesOn(b)' <=> CarriesOn(b))
      /\ \A n : Op(b, n)' = Op(b, n)
  BY DEF Ran, CarriesOn, Op
<1>2. /\ \A k \in DOMAIN inbox : k \in DOMAIN inbox' /\ inbox'[k] = inbox[k]
      /\ \A k \in DOMAIN inbox' \ DOMAIN inbox :
           inbox'[k] = r /\ r.by = b /\ Awaits(b, r)' /\ \A j \in DOMAIN inbox : j < k
  BY QueuesFacts
<1>3. \A k \in DOMAIN inbox : inbox[k].by = b => ~inbox[k].heard
  BY DEF TypeInv, QueueInv, Listening
<1>4. \A k \in DOMAIN inbox' : OfRun(b, k)' => k \in DOMAIN inbox /\ OfRun(b, k)
  BY <1>2 DEF OfRun
<1>5. NoneSent(b) => NoneSent(b)'
  BY <1>4 DEF NoneSent
<1>6. SentInv(b) /\ RanInv(b)
  BY DEF BatchInv
<1>7. \A k \in DOMAIN inbox : OfRun(b, k) => Sound(b, inbox[k])
  BY <1>6 DEF SentInv
<1>8. Ran(b) \in SUBSET Nat /\ Reach(b) \in Nat
  BY StateTypes
<1>9. SentInv(b)'
  <2>1. ASSUME NEW k \in DOMAIN inbox', OfRun(b, k)' PROVE Sound(b, inbox[k])'
    <3>1. k \in DOMAIN inbox /\ OfRun(b, k) /\ inbox'[k] = inbox[k] /\ Sound(b, inbox[k])
      BY <1>2, <1>4, <1>7, <2>1
    <3>2. ~inbox[k].heard /\ inbox[k].last \in Nat
      BY <1>3, <3>1, QueueTypes DEF OfRun
    <3>3. phase'[b] \notin Early
      BY <3>1 DEF Sound
    <3> HIDE DEF Phases
    <3> QED BY <1>1, <1>8, <3>1, <3>2, <3>3 DEF Sound, At
  <2>2. ASSUME NEW i \in DOMAIN inbox', NEW j \in DOMAIN inbox', OfRun(b, i)', OfRun(b, j)', i < j
        PROVE  inbox'[i].last < inbox'[j].first
    <3>1. /\ i \in DOMAIN inbox /\ OfRun(b, i) /\ inbox'[i] = inbox[i]
          /\ j \in DOMAIN inbox /\ OfRun(b, j) /\ inbox'[j] = inbox[j]
      BY <1>2, <1>4, <2>2
    <3> QED BY <1>6, <2>2, <3>1 DEF SentInv
  <2>3. ASSUME NEW j \in DOMAIN inbox', inbox'[j].by = b, inbox'[j].heard
        PROVE  Awaits(b, inbox[j])'
    <3>1. j \notin DOMAIN inbox
      BY <1>2, <1>3, <2>3
    <3>2. inbox'[j] = r /\ Awaits(b, r)'
      BY <1>2, <2>3, <3>1
    <3> QED BY <3>2 DEF Awaits
  <2>4. ~CarriesOn(b)' /\ phase'[b] \in {"ready", "marking"} => NoneSent(b)'
    BY <1>1, <1>5
  <2> QED BY <2>1, <2>2, <2>3, <2>4 DEF SentInv
<1>10. AnswerInv(b)'
  BY DEF AnswerInv
<1>11. RanInv(b)'
  <2>1. phase'[b] \in Working => Upto(b, Reach(b))'
    <3> SUFFICES ASSUME phase'[b] \in Working, NEW i \in Ran(b) PROVE i <= Reach(b)'
      BY <1>1 DEF Upto
    <3>1. i <= Reach(b) /\ Reach(b) <= Reach(b)' /\ i \in Nat
      BY <1>6, <1>8 DEF RanInv, Upto
    <3> QED BY <1>8, <3>1
  <2> QED BY <1>1, <1>6, <2>1 DEF RanInv
<1> QED BY <1>5, <1>9, <1>10, <1>11

\* A step that sends operations.
LEMMA SendingStep ==
  ASSUME TypeInv, NEW b \in Batches, BatchInv(b), ~waiting[b], phase[b] = "ready",
         plan' = plan, ran' = ran, index' = index, results' = results, outcome' = outcome,
         phase'[b] \in Calling,
         NEW n \in Nat, End(b)' = n, index[b] <= n,
         \A i \in index[b] .. n : Op(b, i).needs \subseteq Outputs(b),
         Send(b, Operations(b, index[b], n))
  PROVE  BatchInv(b)'
<1>1. index[b] \in Nat \ {0}
  BY StateTypes
<1>2. PICK r \in Requests :
        /\ Send(b, r) /\ r.by = b /\ r.kind = "ops" /\ r.heard
        /\ r.first = index[b] /\ r.last = n /\ r.out = <<>> /\ r.stop = ~CarriesOn(b)
  <2> DEFINE q == Operations(b, index[b], n)
  <2>1. q \in Requests /\ q.by = b /\ q.kind = "ops" /\ q.heard
    BY <1>1, OperationsTypes
  <2>2. q.first = index[b] /\ q.last = n /\ q.out = <<>> /\ q.stop = ~CarriesOn(b)
    BY DEF Operations, Request
  <2>3. Send(b, q)
    OBVIOUS
  <2> HIDE DEF q
  <2> QED BY <2>1, <2>2, <2>3
<1>3. Send(b, r)
  BY <1>2
<1>4. Awaits(b, r)'
  BY <1>2 DEF Awaits
<1>5. Queues(b, r)
  BY <1>2, <1>3, <1>4 DEF Queues
<1>6. /\ \A k \in DOMAIN inbox : k \in DOMAIN inbox' /\ inbox'[k] = inbox[k]
      /\ \A k \in DOMAIN inbox' \ DOMAIN inbox :
           inbox'[k] = r /\ Awaits(b, r)' /\ \A j \in DOMAIN inbox : j < k
      /\ \A j, k \in DOMAIN inbox' \ DOMAIN inbox : j = k
      /\ DOMAIN inbox' \subseteq Nat
  BY <1>5, QueuesFacts
<1>7. /\ Ran(b)' = Ran(b) /\ (CarriesOn(b)' <=> CarriesOn(b)) /\ Outputs(b)' = Outputs(b)
      /\ Size(b)' = Size(b) /\ (StoppedShort(b)' <=> StoppedShort(b))
      /\ \A m : Op(b, m)' = Op(b, m)
  BY DEF Ran, CarriesOn, Outputs, Size, Op, StoppedShort, Lost
<1>8. \A k \in DOMAIN inbox : inbox[k].by = b => ~inbox[k].heard
  BY DEF TypeInv, QueueInv, Listening
<1>9. Reach(b) = index[b] - 1 /\ Reach(b)' = n
  BY DEF Reach, Calling
<1>10. SentInv(b) /\ RanInv(b) /\ ReportInv(b)
  BY DEF BatchInv
<1>11. Ran(b) \in SUBSET Nat /\ \A i \in Ran(b) : i < index[b]
  <2>1. Ran(b) \in SUBSET Nat
    BY StateTypes
  <2>2. Upto(b, index[b] - 1)
    BY <1>9, <1>10 DEF RanInv, Working
  <2> QED BY <1>1, <2>1, <2>2 DEF Upto
<1>12. \A k \in DOMAIN inbox : OfRun(b, k) =>
         /\ Sound(b, inbox[k]) /\ inbox[k].last < index[b] /\ CarriesOn(b)
  <2> SUFFICES ASSUME NEW k \in DOMAIN inbox, OfRun(b, k)
               PROVE  Sound(b, inbox[k]) /\ inbox[k].last < index[b] /\ CarriesOn(b)
    OBVIOUS
  <2>1. Sound(b, inbox[k]) /\ CarriesOn(b)
    BY <1>10 DEF SentInv, NoneSent
  <2>2. inbox[k].last <= index[b] - 1 /\ inbox[k].last \in Nat
    BY <1>9, <2>1, QueueTypes DEF Sound, Working
  <2> QED BY <1>1, <2>1, <2>2
<1>13. SentInv(b)'
  <2>1. ASSUME NEW k \in DOMAIN inbox', OfRun(b, k)' PROVE Sound(b, inbox[k])'
    <3>1. CASE k \in DOMAIN inbox
      <4>1. OfRun(b, k) /\ inbox'[k] = inbox[k] /\ Sound(b, inbox[k])
            /\ inbox[k].last < index[b] /\ CarriesOn(b)
        BY <1>6, <1>12, <2>1, <3>1 DEF OfRun
      <4>2. ~inbox[k].heard /\ inbox[k].last \in Nat
        BY <1>8, <3>1, <4>1, QueueTypes DEF OfRun
      <4>3. inbox[k].last <= Reach(b)'
        BY <1>1, <1>9, <4>1, <4>2
      <4>4. phase'[b] \notin Early
        BY DEF Calling, Early
      <4> QED BY <1>7, <4>1, <4>2, <4>3, <4>4 DEF Sound, At
    <3>2. CASE k \notin DOMAIN inbox
      <4>1. inbox'[k] = r
        BY <1>6, <3>2
      <4>2. At(r) = index[b]
        BY <1>1, <1>2 DEF At
      <4>3. phase'[b] \notin Early
        BY DEF Calling, Early
      <4>4. /\ At(r) <= n /\ \A i \in Ran(b) : i < At(r)
            /\ \A i \in index[b] .. n : Op(b, i).needs \subseteq Outputs(b)
            /\ DOMAIN r.out = {} /\ index'[b] = index[b] /\ n <= n
        BY <1>2, <1>11, <4>2
      <4> QED BY <1>2, <1>7, <1>9, <4>1, <4>3, <4>4 DEF Sound, At
    <3> QED BY <3>1, <3>2
  <2>2. ASSUME NEW i \in DOMAIN inbox', NEW j \in DOMAIN inbox', OfRun(b, i)', OfRun(b, j)', i < j
        PROVE  inbox'[i].last < inbox'[j].first
    <3>1. i \in DOMAIN inbox /\ inbox'[i] = inbox[i] /\ OfRun(b, i)
      <4>1. i \in DOMAIN inbox
        <5> SUFFICES ASSUME i \notin DOMAIN inbox PROVE FALSE
          OBVIOUS
        <5>1. CASE j \in DOMAIN inbox
          <6>1. j < i /\ i \in Nat /\ j \in Nat
            BY <1>6, <5>1
          <6> QED BY <2>2, <6>1
        <5>2. CASE j \notin DOMAIN inbox
          <6>1. i = j /\ i \in Nat
            BY <1>6, <5>2
          <6> QED BY <2>2, <6>1
        <5> QED BY <5>1, <5>2
      <4> QED BY <1>6, <2>2, <4>1 DEF OfRun
    <3>2. CASE j \in DOMAIN inbox
      <4>1. inbox'[j] = inbox[j] /\ OfRun(b, j)
        BY <1>6, <2>2, <3>2 DEF OfRun
      <4> QED BY <1>10, <2>2, <3>1, <3>2, <4>1 DEF SentInv
    <3>3. CASE j \notin DOMAIN inbox
      BY <1>2, <1>6, <1>12, <3>1, <3>3
    <3> QED BY <3>2, <3>3
  <2>3. ASSUME NEW j \in DOMAIN inbox', inbox'[j].by = b, inbox'[j].heard
        PROVE  Awaits(b, inbox[j])'
    <3>1. j \notin DOMAIN inbox
      BY <1>6, <1>8, <2>3
    <3>2. inbox'[j] = r /\ Awaits(b, r)'
      BY <1>6, <3>1
    <3> QED BY <3>2 DEF Awaits
  <2>4. phase'[b] \notin {"ready", "marking"}
    BY DEF Calling
  <2> QED BY <2>1, <2>2, <2>3, <2>4 DEF SentInv
<1>14. AnswerInv(b)'
  <2>1. reply'[b] = <<>>
    BY <1>3 DEF Send, TypeInv, QueueInv
  <2> QED BY <2>1 DEF AnswerInv
<1>15. RanInv(b)'
  <2>1. Upto(b, n)
    BY <1>1, <1>11 DEF Upto
  <2>2. Upto(b, Reach(b))'
    BY <1>7, <1>9, <2>1 DEF Upto
  <2> QED BY <1>7, <1>10, <2>2 DEF RanInv
<1>16. ReportInv(b)'
  <2>1. ~CarriesOn(b) => \A k \in DOMAIN results[b] : results[b][k].how # "failed"
    BY <1>10 DEF ReportInv, Working
  <2>2. phase'[b] \notin {"marking", "over", "closing"} \cup Early
    BY DEF Calling, Early
  <2>3. outcome[b] = "none"
    BY <1>10 DEF ReportInv
  <2>4. Len(results[b]) = index[b] - 1
    BY <1>10 DEF ReportInv
  <2> QED BY <1>7, <1>10, <2>1, <2>2, <2>3, <2>4 DEF ReportInv
<1> QED BY <1>13, <1>14, <1>15, <1>16 DEF BatchInv

-----------------------------------------------------------------------------
(* The report *)

LEMMA AppendedReport ==
  ASSUME TypeInv, NEW b \in Batches, NEW how \in {"ok", "failed", "lost"}, Report(b, how)
  PROVE  /\ Len(results'[b]) = Len(results[b]) + 1 /\ Len(results[b]) \in Nat
         /\ DOMAIN results[b] = 1 .. Len(results[b])
         /\ DOMAIN results'[b] = 1 .. Len(results[b]) + 1
         /\ \A k \in 1 .. Len(results[b]) : results'[b][k] = results[b][k]
         /\ results'[b][Len(results[b]) + 1] = [index |-> index[b], how |-> how]
         /\ results'[b] # <<>> /\ results'[b] \in Seq(Entry)
<1> DEFINE e == [index |-> index[b], how |-> how]
<1>1. results[b] \in Seq(Entry) /\ e \in Entry
  BY StateTypes DEF Entry
<1>2. results'[b] = Append(results[b], e)
  BY DEF Report, TypeInv, ServerTypes
<1> HIDE DEF e
<1>3. /\ results'[b] \in Seq(Entry)
      /\ Len(results'[b]) = Len(results[b]) + 1 /\ Len(results[b]) \in Nat
      /\ DOMAIN results[b] = 1 .. Len(results[b])
      /\ \A k \in 1 .. Len(results[b]) : results'[b][k] = results[b][k]
      /\ results'[b][Len(results[b]) + 1] = e
  BY <1>1, <1>2
<1>4. DOMAIN results'[b] = 1 .. Len(results[b]) + 1 /\ results'[b] # <<>>
  BY <1>3
<1> QED BY <1>3, <1>4 DEF e

LEMMA OutputsGrow ==
  ASSUME NEW b \in Batches,
         \A k \in DOMAIN results[b] : k \in DOMAIN results'[b] /\ results'[b][k] = results[b][k]
  PROVE  Outputs(b) \subseteq Outputs(b)'
BY DEF Outputs

LEMMA UnchangedReport ==
  ASSUME TypeInv, NEW b \in Batches, BatchInv(b),
         plan' = plan, ran' = ran, results' = results, NoneSent(b) => NoneSent(b)',
         phase'[b] \notin Calling,
         phase'[b] \in Early \cup {"ready"} => Len(results[b]) = index'[b] - 1,
         phase'[b] = "marking" => Len(results[b]) = index'[b] /\ ~CarriesOn(b),
         phase'[b] \in Early => index'[b] = 1 /\ ran[b] = <<>>,
         phase'[b] \in Working => phase[b] \in Working,
         phase'[b] = "over" => StoppedShort(b),
         outcome'[b] # "none" => phase'[b] = "done",
         phase'[b] = "closing" \/ outcome'[b] \in {"finished", "committed", "rolledBack"} =>
           Len(results[b]) >= Size(b) \/ StoppedShort(b)
  PROVE  ReportInv(b)'
<1>1. /\ Ran(b)' = Ran(b) /\ (CarriesOn(b)' <=> CarriesOn(b)) /\ Size(b)' = Size(b)
      /\ (StoppedShort(b)' <=> StoppedShort(b)) /\ \A n : Upto(b, n)' <=> Upto(b, n)
  BY DEF Ran, CarriesOn, Size, StoppedShort, Lost, Upto
<1>2. ReportInv(b)
  BY DEF BatchInv
<1> QED BY <1>1, <1>2 DEF ReportInv

LEMMA LongerReport ==
  ASSUME TypeInv, NEW b \in Batches, BatchInv(b), NEW how \in {"ok", "failed", "lost"},
         Report(b, how),
         plan' = plan, ran' = ran, outcome' = outcome, NoneSent(b) => NoneSent(b)',
         phase[b] \in Calling \cup {"ready"}, phase'[b] \in {"ready", "over", "marking"},
         how = "ok" => index[b] \in Ran(b),
         phase'[b] = "ready" => index'[b] = index[b] + 1,
         phase'[b] = "marking" => index'[b] = index[b] /\ ~CarriesOn(b),
         phase'[b] = "over" => how = "lost" \/ (how = "failed" /\ ~CarriesOn(b)),
         ~CarriesOn(b) /\ how = "failed" =>
           phase'[b] = "over" /\ NoneSent(b) /\ Upto(b, index[b])
  PROVE  ReportInv(b)' /\ Outputs(b) \subseteq Outputs(b)'
<1> DEFINE n == Len(results[b])
<1>1. /\ Len(results'[b]) = n + 1 /\ n \in Nat /\ DOMAIN results[b] = 1 .. n
      /\ DOMAIN results'[b] = 1 .. n + 1
      /\ \A k \in 1 .. n : results'[b][k] = results[b][k]
      /\ results'[b][n + 1] = [index |-> index[b], how |-> how]
      /\ results'[b] # <<>>
  BY AppendedReport
<1> HIDE DEF n
<1>2. /\ Ran(b)' = Ran(b) /\ (CarriesOn(b)' <=> CarriesOn(b)) /\ Size(b)' = Size(b)
      /\ \A i : Upto(b, i)' <=> Upto(b, i)
  BY DEF Ran, CarriesOn, Size, Upto
<1>3. ReportInv(b) /\ index[b] \in Nat \ {0} /\ outcome'[b] = "none"
  <2>1. ReportInv(b) /\ index[b] \in Nat \ {0}
    BY StateTypes DEF BatchInv
  <2>2. phase[b] # "done"
    BY DEF Calling
  <2> QED BY <2>1, <2>2 DEF ReportInv
<1>4. index[b] = n + 1
  BY <1>1, <1>3 DEF ReportInv, n
<1>5. 1 .. n + 1 = (1 .. n) \cup {n + 1}
  BY <1>1
<1>6. \A k \in DOMAIN results'[b] : results'[b][k].index = k
  BY <1>1, <1>3, <1>4, <1>5 DEF ReportInv
<1>7. \A k \in DOMAIN results'[b] : results'[b][k].how = "ok" => k \in Ran(b)
  BY <1>1, <1>3, <1>4, <1>5 DEF ReportInv
<1>8. ~CarriesOn(b) => \A k \in 1 .. n : results[b][k].how # "failed"
  BY <1>1, <1>3 DEF ReportInv, Working
<1>9. ASSUME ~CarriesOn(b), NEW k \in DOMAIN results'[b], results'[b][k].how = "failed"
      PROVE  phase'[b] \notin Working /\ NoneSent(b)' /\ Upto(b, k)
  <2>1. k = n + 1 /\ how = "failed"
    BY <1>1, <1>5, <1>8, <1>9
  <2> QED BY <1>4, <1>9, <2>1 DEF Working, Early, Calling
<1>10. phase'[b] = "over" => StoppedShort(b)'
  <2>1. CASE how = "lost"
    BY <1>1, <1>5, <2>1 DEF StoppedShort, Lost
  <2>2. CASE how = "failed" /\ ~CarriesOn(b)
    BY <1>1, <1>2, <2>2 DEF StoppedShort
  <2> QED BY <2>1, <2>2
<1>11. phase'[b] = "ready" => Len(results'[b]) = index'[b] - 1
  BY <1>1, <1>3, <1>4
<1>12. phase'[b] = "marking" => Len(results'[b]) = index'[b]
  BY <1>1, <1>3, <1>4
<1>13. phase'[b] \notin Early \cup Calling \cup {"closing", "done"}
  BY DEF Early, Calling
<1>14. ReportInv(b)'
  BY <1>2, <1>3, <1>6, <1>7, <1>9, <1>10, <1>11, <1>12, <1>13 DEF ReportInv
<1>15. Outputs(b) \subseteq Outputs(b)'
  <2>1. \A k \in DOMAIN results[b] : k \in DOMAIN results'[b] /\ results'[b][k] = results[b][k]
    BY <1>1, <1>5
  <2> QED BY <2>1, OutputsGrow
<1> QED BY <1>14, <1>15

LEMMA AnsweredReport ==
  ASSUME TypeInv, NEW b \in Batches, BatchInv(b), RunAnswered(b)
  PROVE  ReportInv(b)' /\ Outputs(b) \subseteq Outputs(b)'
<1> DEFINE n == Len(results[b])
           m == Len(reply[b])
<1>1. /\ results[b] \in Seq(Entry) /\ reply[b] \in Seq(BOOLEAN) /\ index[b] \in Nat \ {0}
      /\ n \in Nat /\ DOMAIN results[b] = 1 .. n /\ DOMAIN reply[b] = 1 .. m /\ m \in Nat \ {0}
  <2>1. /\ results[b] \in Seq(Entry) /\ reply[b] \in Seq(BOOLEAN) /\ index[b] \in Nat \ {0}
        /\ reply[b] # <<>>
    BY StateTypes DEF RunAnswered
  <2> QED BY <2>1
<1>2. Entries(b) \in Seq(Entry) /\ Len(Entries(b)) = m
  <2>1. Entries(b) \in Seq(Entry)
    BY <1>1, EntriesTypes DEF Entry
  <2>2. DOMAIN Entries(b) = 1 .. m
    BY <1>1 DEF Entries
  <2> QED BY <1>1, <2>1, <2>2
<1>3. /\ phase[b] = "run" /\ phase[b] \in Calling /\ reply[b] # <<>>
      /\ UNCHANGED <<plan, ran, outcome, inbox>>
      /\ results'[b] = results[b] \o Entries(b)
      /\ \/ /\ phase'[b] = "over" /\ index'[b] = index[b]
            /\ ~CarriesOn(b) /\ \E k \in 1 .. m : ~reply[b][k]
         \/ /\ phase'[b] = "ready" /\ index'[b] = index[b] + m
            /\ CarriesOn(b) \/ \A k \in 1 .. m : reply[b][k]
  BY <1>1 DEF RunAnswered, Quiet, Goto, Consumed, Calling, TypeInv, ServerTypes
<1>4. \A k \in 1 .. m : Entries(b)[k] =
        [index |-> index[b] + k - 1, how |-> IF reply[b][k] THEN "ok" ELSE "failed"]
  BY <1>1 DEF Entries
<1> HIDE DEF n, m
<1>5. /\ Len(results'[b]) = n + m /\ DOMAIN results'[b] = 1 .. n + m
      /\ \A k \in 1 .. n : results'[b][k] = results[b][k]
      /\ \A k \in n + 1 .. n + m : results'[b][k] = Entries(b)[k - n]
  <2> DEFINE a == results[b]
             c == Entries(b)
  <2>1. a \in Seq(Entry) /\ c \in Seq(Entry) /\ Len(a) = n /\ Len(c) = m
    BY <1>1, <1>2 DEF n
  <2>2. results'[b] = a \o c
    BY <1>3
  <2> HIDE DEF a, c
  <2>3. /\ a \o c \in Seq(Entry) /\ Len(a \o c) = Len(a) + Len(c)
        /\ DOMAIN (a \o c) = 1 .. Len(a) + Len(c)
        /\ \A j \in 1 .. Len(a) : (a \o c)[j] = a[j]
        /\ \A j \in Len(a) + 1 .. Len(a) + Len(c) : (a \o c)[j] = c[j - Len(a)]
    BY ONLY <2>1, ConcatFacts
  <2> QED BY <2>1, <2>2, <2>3 DEF a, c
<1>6. index[b] = n + 1
  BY <1>1, <1>3 DEF BatchInv, ReportInv, n, Calling
<1>7. \A k \in n + 1 .. n + m : /\ k - n \in 1 .. m
                                /\ results'[b][k].index = k
                                /\ results'[b][k].how = IF reply[b][k - n] THEN "ok" ELSE "failed"
  <2> SUFFICES ASSUME NEW k \in n + 1 .. n + m
               PROVE  /\ k - n \in 1 .. m /\ results'[b][k].index = k
                      /\ results'[b][k].how = IF reply[b][k - n] THEN "ok" ELSE "failed"
    OBVIOUS
  <2>1. k - n \in 1 .. m /\ index[b] + (k - n) - 1 = k
    BY <1>1, <1>6
  <2>2. results'[b][k] = Entries(b)[k - n]
    BY <1>5
  <2>3. results'[b][k] = [index |-> k, how |-> IF reply[b][k - n] THEN "ok" ELSE "failed"]
    BY <1>4, <2>1, <2>2
  <2> QED BY <2>1, <2>3
<1>8. \A k \in 1 .. n + m : k \in 1 .. n \/ k \in n + 1 .. n + m
  BY <1>1
<1>9. /\ \A k \in 1 .. m : index[b] + k - 1 \in Ran(b)
      /\ Upto(b, index[b] + m - 1)
      /\ ~CarriesOn(b) => \A k \in 1 .. m : k < m => reply[b][k]
      /\ ~CarriesOn(b) => NoneSent(b)
  BY <1>1, <1>3 DEF BatchInv, AnswerInv, m
<1>10. /\ Ran(b)' = Ran(b) /\ (CarriesOn(b)' <=> CarriesOn(b)) /\ Size(b)' = Size(b)
       /\ (NoneSent(b)' <=> NoneSent(b)) /\ \A i : Upto(b, i)' <=> Upto(b, i)
  BY <1>3 DEF Ran, CarriesOn, Size, NoneSent, OfRun, Upto
<1>11. ReportInv(b) /\ outcome'[b] = "none"
  <2>1. ReportInv(b)
    BY DEF BatchInv
  <2> QED BY <1>3, <2>1 DEF ReportInv
<1>12. \A k \in DOMAIN results'[b] : results'[b][k].index = k
  BY <1>1, <1>5, <1>7, <1>8, <1>11 DEF ReportInv
<1>13. ASSUME NEW k \in DOMAIN results'[b], results'[b][k].how = "ok" PROVE k \in Ran(b)
  <2>1. CASE k \in 1 .. n
    BY <1>1, <1>5, <1>11, <1>13, <2>1 DEF ReportInv
  <2>2. CASE k \in n + 1 .. n + m
    <3> DEFINE i == k - n
    <3>1. i \in 1 .. m /\ index[b] + i - 1 = k
      BY <1>1, <1>6, <2>2
    <3> HIDE DEF i
    <3>2. index[b] + i - 1 \in Ran(b)
      BY <1>9, <3>1
    <3> QED BY <3>1, <3>2
  <2> QED BY <1>5, <1>8, <2>1, <2>2
<1>14. ~CarriesOn(b) => \A k \in 1 .. n : results[b][k].how # "failed"
  BY <1>1, <1>3, <1>11 DEF ReportInv, Working
<1>15. ASSUME ~CarriesOn(b), NEW k \in DOMAIN results'[b], results'[b][k].how = "failed"
       PROVE  phase'[b] = "over" /\ NoneSent(b) /\ Upto(b, k) /\ k = n + m
  <2>1. k \in n + 1 .. n + m
    BY <1>5, <1>8, <1>14, <1>15
  <2>2. k - n \in 1 .. m /\ ~reply[b][k - n]
    BY <1>7, <1>15, <2>1
  <2>3. k - n = m
    BY <1>1, <1>9, <1>15, <2>2
  <2>4. k = n + m /\ k = index[b] + m - 1
    BY <1>1, <1>6, <2>1, <2>3
  <2> QED BY <1>3, <1>9, <1>15, <2>2, <2>4
<1>16. phase'[b] = "over" => StoppedShort(b)'
  <2> SUFFICES ASSUME phase'[b] = "over" PROVE StoppedShort(b)'
    OBVIOUS
  <2>1. ~CarriesOn(b)
    BY <1>3
  <2>2. PICK i \in 1 .. m : ~reply[b][i]
    BY <1>3
  <2> DEFINE j == i + n
  <2>3. j \in n + 1 .. n + m /\ j - n = i /\ j \in 1 .. n + m
    BY <1>1
  <2> HIDE DEF j
  <2>4. results'[b][j].how = "failed"
    BY <1>7, <2>2, <2>3
  <2>5. j = Len(results'[b])
    BY <1>5, <1>15, <2>1, <2>3, <2>4
  <2>6. results'[b] # <<>>
    BY <1>5, <2>3
  <2> QED BY <1>10, <2>1, <2>4, <2>5, <2>6 DEF StoppedShort
<1>17. phase'[b] = "ready" => Len(results'[b]) = index'[b] - 1
  BY <1>1, <1>3, <1>5, <1>6
<1>18. phase'[b] \notin Early \cup Calling \cup {"closing", "done", "marking"}
  BY <1>3 DEF Early, Calling
<1>19. phase'[b] = "over" => phase'[b] \notin Working
  BY DEF Working, Early, Calling
<1>20. ReportInv(b)'
  BY <1>10, <1>11, <1>12, <1>13, <1>15, <1>16, <1>17, <1>18, <1>19 DEF ReportInv
<1>21. Outputs(b) \subseteq Outputs(b)'
  <2>1. \A k \in DOMAIN results[b] : k \in DOMAIN results'[b] /\ results'[b][k] = results[b][k]
    BY <1>1, <1>5
  <2> QED BY <2>1, OutputsGrow
<1> QED BY <1>20, <1>21

-----------------------------------------------------------------------------
(* Every step of the server *)

LEMMA QuietKeepsBatch ==
  ASSUME TypeInv, NEW b \in Batches, BatchInv(b), ~waiting[b],
         plan' = plan, ran' = ran, results' = results,
         NEW r, r.kind # "ops", Queues(b, r),
         phase'[b] \in Phases \ Calling, index'[b] \in Nat \ {0},
         phase'[b] \in Early \cup {"ready"} => Len(results[b]) = index'[b] - 1,
         phase'[b] = "marking" => Len(results[b]) = index'[b] /\ ~CarriesOn(b),
         phase'[b] \in Early => phase[b] \in Early /\ index'[b] = index[b],
         phase'[b] \in Working => phase[b] \in Working /\ Reach(b) <= Reach(b)',
         ~CarriesOn(b) /\ phase'[b] \in {"ready", "marking"} => NoneSent(b),
         phase'[b] = "over" => StoppedShort(b),
         outcome'[b] # "none" => phase'[b] = "done",
         phase'[b] = "closing" \/ outcome'[b] \in {"finished", "committed", "rolledBack"} =>
           Len(results[b]) >= Size(b) \/ StoppedShort(b)
  PROVE  BatchInv(b)'
<1>1. Outputs(b) \subseteq Outputs(b)'
  BY OutputsGrow
<1>2. Reach(b)' \in Nat
  BY DEF Reach
<1>3. SentInv(b)' /\ AnswerInv(b)' /\ RanInv(b)' /\ (NoneSent(b) => NoneSent(b)')
  BY <1>1, <1>2, QuietStep
<1>4. phase'[b] \in Early => index'[b] = 1 /\ ran[b] = <<>>
  BY DEF BatchInv, ReportInv
<1>5. ReportInv(b)'
  BY <1>3, <1>4, UnchangedReport
<1> QED BY <1>3, <1>5 DEF BatchInv

LEMMA LongerKeepsBatch ==
  ASSUME TypeInv, NEW b \in Batches, BatchInv(b), ~waiting[b],
         plan' = plan, ran' = ran, outcome' = outcome,
         NEW how \in {"ok", "failed", "lost"}, Report(b, how),
         NEW r, r.kind # "ops", Queues(b, r),
         phase[b] \in Calling \cup {"ready"}, phase'[b] \in {"ready", "over", "marking"},
         how = "ok" => index[b] \in Ran(b),
         phase'[b] = "ready" => index'[b] = index[b] + 1,
         phase'[b] = "marking" => index'[b] = index[b] /\ ~CarriesOn(b),
         phase'[b] = "over" => how = "lost" \/ (how = "failed" /\ ~CarriesOn(b)),
         ~CarriesOn(b) /\ how = "failed" =>
           phase'[b] = "over" /\ NoneSent(b) /\ Upto(b, index[b]),
         index'[b] \in Nat \ {0},
         phase'[b] # "over" => Reach(b) <= index[b],
         ~CarriesOn(b) /\ phase'[b] # "over" => NoneSent(b)
  PROVE  BatchInv(b)'
<1>1. Outputs(b) \subseteq Outputs(b)'
  <2> DEFINE n == Len(results[b])
  <2>1. /\ n \in Nat /\ DOMAIN results[b] = 1 .. n /\ DOMAIN results'[b] = 1 .. n + 1
        /\ \A k \in 1 .. n : results'[b][k] = results[b][k]
    BY AppendedReport
  <2> HIDE DEF n
  <2>2. \A k \in DOMAIN results[b] : k \in DOMAIN results'[b] /\ results'[b][k] = results[b][k]
    BY <2>1
  <2> QED BY <2>2, OutputsGrow
<1>2. /\ phase'[b] \notin Calling /\ phase'[b] \notin Early /\ phase'[b] \in Phases
      /\ (phase'[b] \in Working => phase'[b] # "over") /\ phase[b] \in Working
  BY DEF Calling, Early, Working, Phases
<1>3. index[b] \in Nat /\ Reach(b) \in Nat
  BY StateTypes
<1>4. Reach(b)' \in Nat /\ (phase'[b] # "over" => Reach(b)' = index[b])
  BY <1>2, <1>3 DEF Reach
<1>5. phase'[b] \in Working => Reach(b) <= Reach(b)'
  BY <1>2, <1>4
<1>6. ~CarriesOn(b) /\ phase'[b] \in {"ready", "marking"} => NoneSent(b)
  OBVIOUS
<1>7. phase'[b] \in Early => phase[b] \in Early /\ index'[b] = index[b]
  BY <1>2
<1>8. SentInv(b)' /\ AnswerInv(b)' /\ RanInv(b)' /\ (NoneSent(b) => NoneSent(b)')
  <2>1. phase'[b] \in Phases \ Calling
    BY <1>2
  <2> QED BY <1>1, <1>2, <1>4, <1>5, <1>6, <1>7, <2>1, QuietStep
<1>9. ReportInv(b)'
  BY <1>8, LongerReport
<1> QED BY <1>8, <1>9 DEF BatchInv

LEMMA RunAnsweredKeepsBatch ==
  ASSUME TypeInv, NEW b \in Batches, BatchInv(b), RunAnswered(b), ran' = ran
  PROVE  BatchInv(b)'
<1> DEFINE m == Len(reply[b])
           r == [kind |-> "none"]
<1>1. /\ index[b] \in Nat \ {0} /\ m \in Nat \ {0} /\ End(b) \in Nat /\ Reach(b) \in Nat
      /\ DOMAIN reply[b] = 1 .. m
  <2>1. reply[b] \in Seq(BOOLEAN) /\ reply[b] # <<>>
    BY StateTypes DEF RunAnswered
  <2> QED BY <2>1, StateTypes
<1>2. /\ phase[b] = "run" /\ reply[b] # <<>> /\ ~waiting[b] /\ plan' = plan /\ inbox' = inbox
      /\ \/ phase'[b] = "over"
         \/ /\ phase'[b] = "ready" /\ index'[b] = index[b] + m
            /\ CarriesOn(b) \/ \A k \in 1 .. m : reply[b][k]
  BY <1>1 DEF RunAnswered, Goto, Consumed, TypeInv, ServerTypes
<1>3. AnswerInv(b)
  BY DEF BatchInv
<1>4. Reach(b) = End(b)
  BY <1>2 DEF Reach, Calling
<1>5. phase'[b] = "ready" => Reach(b) <= Reach(b)' /\ Reach(b)' \in Nat
  <2> SUFFICES ASSUME phase'[b] = "ready" PROVE Reach(b) <= Reach(b)' /\ Reach(b)' \in Nat
    OBVIOUS
  <2>1. Reach(b)' = index[b] + m - 1
    BY <1>1, <1>2 DEF Reach, Calling
  <2>2. m = End(b) - index[b] + 1
    BY <1>1, <1>2, <1>3 DEF AnswerInv, Calling
  <2> QED BY <1>1, <1>4, <2>1, <2>2
<1>6. phase'[b] = "over" => Reach(b)' \in Nat
  <2>1. index'[b] \in Nat \ {0}
    BY <1>1 DEF RunAnswered, Consumed, TypeInv, ServerTypes
  <2> QED BY <2>1 DEF Reach, Calling
<1>7. ~CarriesOn(b) => NoneSent(b)
  BY <1>2, <1>3 DEF AnswerInv, Calling
<1>8. ReportInv(b)' /\ Outputs(b) \subseteq Outputs(b)'
  BY AnsweredReport
<1>9. /\ phase'[b] \in Phases \ Calling /\ phase'[b] \notin Early /\ phase[b] \in Working
      /\ (phase'[b] \in Working => phase'[b] = "ready")
  BY <1>2 DEF Phases, Calling, Early, Working
<1>10. r.kind # "ops" /\ Queues(b, r)
  BY <1>2 DEF Queues
<1> HIDE DEF r, m
<1>11. SentInv(b)' /\ AnswerInv(b)' /\ RanInv(b)'
  BY <1>2, <1>5, <1>6, <1>7, <1>8, <1>9, <1>10, QuietStep
<1> QED BY <1>8, <1>11 DEF BatchInv

LEMMA OneAnsweredKeepsBatch ==
  ASSUME TypeInv, NEW b \in Batches, BatchInv(b), OneAnswered(b), ran' = ran
  PROVE  BatchInv(b)'
<1>1. /\ index[b] \in Nat \ {0} /\ reply[b] \in Seq(BOOLEAN)
      /\ phase \in [Batches -> Phases] /\ index \in [Batches -> Nat \ {0}]
  BY StateTypes DEF TypeInv, ServerTypes
<1>2. phase[b] = "one" /\ ~waiting[b] /\ plan' = plan /\ outcome' = outcome
  BY DEF OneAnswered
<1>3. End(b) = index[b] /\ Reach(b) = index[b] /\ Reach(b) <= index[b]
  BY <1>1, <1>2 DEF End, Reach, Calling
<1>4. reply[b] # <<>> => /\ index[b] \in Ran(b) /\ Upto(b, index[b])
                         /\ (~CarriesOn(b) => NoneSent(b))
  <2> SUFFICES ASSUME reply[b] # <<>>
               PROVE  /\ index[b] \in Ran(b) /\ Upto(b, index[b])
                      /\ (~CarriesOn(b) => NoneSent(b))
    OBVIOUS
  <2> DEFINE m == Len(reply[b])
  <2>1. m \in Nat \ {0} /\ 1 \in DOMAIN reply[b]
    BY <1>1
  <2>2. /\ index[b] + m - 1 <= index[b]
        /\ \A k \in DOMAIN reply[b] : index[b] + k - 1 \in Ran(b)
        /\ Upto(b, index[b] + m - 1)
        /\ ~CarriesOn(b) => NoneSent(b)
    BY <1>2, <1>3 DEF BatchInv, AnswerInv, Calling
  <2>3. index[b] + m - 1 = index[b] /\ index[b] + 1 - 1 = index[b]
    BY <1>1, <2>1, <2>2
  <2>4. index[b] + 1 - 1 \in Ran(b)
    BY <2>1, <2>2
  <2> QED BY <2>2, <2>3, <2>4
<1>5. phase[b] \in Calling
  BY <1>2 DEF Calling
<1>6. Atomic(b) => ~CarriesOn(b)
  BY DEF Atomic, CarriesOn
<1>7. ASSUME reply[b] = <<TRUE>>, Report(b, "ok"), Atomic(b), Send(b, Request(b, "step")),
             Goto(b, "marking"), UNCHANGED index
      PROVE  BatchInv(b)'
  <2> DEFINE q == Request(b, "step")
  <2>1. q \in Requests /\ q.by = b /\ q.kind = "step" /\ Send(b, q)
    BY <1>7, RequestTypes
  <2> HIDE DEF q
  <2>2. PICK r \in Requests : r = q
    BY <2>1
  <2>3. phase'[b] = "marking" /\ index'[b] = index[b]
    BY <1>1, <1>7 DEF Goto
  <2>4. r.kind # "ops" /\ Queues(b, r)
    BY <2>1, <2>2, <2>3 DEF Queues, Awaits
  <2>5. reply[b] # <<>>
    BY <1>7
  <2> QED BY <1>1, <1>2, <1>3, <1>4, <1>5, <1>6, <1>7, <2>3, <2>4, <2>5, LongerKeepsBatch
<1>8. CASE UNCHANGED <<inbox, waiting, reply>>
  <2> DEFINE r == [kind |-> "none"]
  <2>1. r.kind # "ops" /\ Queues(b, r)
    BY <1>8 DEF Queues
  <2> HIDE DEF r
  <2>2. ASSUME reply[b] = <<TRUE>>, Report(b, "ok"), phase'[b] = "ready",
               index'[b] = index[b] + 1
        PROVE  BatchInv(b)'
    <3>1. reply[b] # <<>> /\ index'[b] \in Nat \ {0}
      BY <1>1, <2>2
    <3> QED BY <1>2, <1>3, <1>4, <1>5, <2>1, <2>2, <3>1, LongerKeepsBatch
  <2>3. ASSUME reply[b] # <<TRUE>>, AfterFailure(b),
               Report(b, IF reply[b] = <<>> THEN "lost" ELSE "failed")
        PROVE  BatchInv(b)'
    <3> DEFINE how == IF reply[b] = <<>> THEN "lost" ELSE "failed"
    <3>1. /\ how \in {"lost", "failed", "ok"} /\ how # "ok" /\ Report(b, how)
          /\ (how = "failed" => reply[b] # <<>>)
      BY <2>3
    <3> HIDE DEF how
    <3>2. IF CarriesOn(b) THEN index'[b] = index[b] + 1 /\ phase'[b] = "ready"
                          ELSE index'[b] = index[b] /\ phase'[b] = "over"
      BY <1>1, <2>3 DEF AfterFailure, Goto
    <3>3. index'[b] \in Nat \ {0} /\ phase'[b] \in {"ready", "over"}
      BY <1>1, <3>2
    <3> QED BY <1>2, <1>3, <1>4, <1>5, <2>1, <3>1, <3>2, <3>3, LongerKeepsBatch
  <2>4. \/ reply[b] = <<TRUE>> /\ Report(b, "ok") /\ phase'[b] = "ready" /\ index'[b] = index[b] + 1
        \/ /\ reply[b] # <<TRUE>> /\ AfterFailure(b)
           /\ Report(b, IF reply[b] = <<>> THEN "lost" ELSE "failed")
        \/ /\ reply[b] = <<TRUE>> /\ Report(b, "ok") /\ Atomic(b) /\ Send(b, Request(b, "step"))
           /\ Goto(b, "marking") /\ UNCHANGED index
    <3> HIDE DEF AfterFailure, Report, Atomic
    <3> QED BY <1>1 DEF OneAnswered, Goto
  <2> QED BY <1>7, <2>2, <2>3, <2>4
<1>9. \/ UNCHANGED <<inbox, waiting, reply>>
      \/ /\ reply[b] = <<TRUE>> /\ Report(b, "ok") /\ Atomic(b) /\ Send(b, Request(b, "step"))
         /\ Goto(b, "marking") /\ UNCHANGED index
  BY DEF OneAnswered
<1> QED BY <1>7, <1>8, <1>9

LEMMA ServerKeepsOwn ==
  ASSUME TypeInv, NEW b \in Batches, BatchInv(b), Server(b)
  PROVE  BatchInv(b)'
<1>1. ran' = ran /\ plan' = plan /\ ~waiting[b]
  BY ServerSteps DEF ServerFrame
<1>2. /\ index[b] \in Nat \ {0} /\ Reach(b) \in Nat /\ Size(b) \in Nat /\ Len(results[b]) \in Nat
      /\ phase \in [Batches -> Phases] /\ index \in [Batches -> Nat \ {0}]
      /\ outcome \in [Batches -> Outcomes] /\ plan \in [Batches -> Plans]
  BY StateTypes DEF TypeInv, ServerTypes
<1>3. SentInv(b) /\ AnswerInv(b) /\ RanInv(b) /\ ReportInv(b)
  BY DEF BatchInv
<1>4. phase[b] \in Early => NoneSent(b) /\ Len(results[b]) = index[b] - 1
  BY <1>3 DEF SentInv, Sound, NoneSent, ReportInv
<1>5. phase[b] # "done" => outcome[b] = "none"
  BY <1>3 DEF ReportInv
<1>6. "none" \notin {"finished", "committed", "rolledBack"}
  OBVIOUS
<1> DEFINE none == [kind |-> "none"]
<1>7. none.kind # "ops" /\ (inbox' = inbox => Queues(b, none))
  BY DEF Queues
<1> HIDE DEF none
<1>8. ASSUME NEW kind \in {"begin", "commit", "rollback"}, Send(b, Request(b, kind)),
             phase'[b] = IF kind = "begin" THEN "opening" ELSE "closing"
      PROVE  \E r \in Requests : r.kind # "ops" /\ Queues(b, r)
  <2> DEFINE q == Request(b, kind)
  <2>1. q \in Requests /\ q.by = b /\ q.kind = kind /\ Send(b, q)
    BY <1>8, RequestTypes
  <2> HIDE DEF q
  <2>2. PICK r \in Requests : r = q
    BY <2>1
  <2>3. r.kind # "ops" /\ Queues(b, r)
    BY <1>8, <2>1, <2>2 DEF Queues, Awaits
  <2> QED BY <2>3
<1>9. CASE Refuse(b)
  <2>1. phase'[b] = "done" /\ outcome'[b] = "refused" /\ inbox' = inbox /\ results' = results
        /\ index' = index
    BY <1>2, <1>9 DEF Refuse, Goto
  <2>2. phase'[b] \in Phases \ Calling /\ phase'[b] \notin Early \cup Working
    BY <2>1 DEF Phases, Calling, Early, Working
  <2> QED BY <1>1, <1>2, <1>7, <2>1, <2>2, QuietKeepsBatch
<1>10. CASE Open(b)
  <2>1. /\ phase[b] = "idle" /\ phase'[b] = "opening" /\ outcome' = outcome
        /\ results' = results /\ index' = index /\ Send(b, Request(b, "begin"))
    BY <1>2, <1>10 DEF Open, Goto
  <2>2. PICK r \in Requests : r.kind # "ops" /\ Queues(b, r)
    BY <1>8, <2>1
  <2>3. phase'[b] \in Phases \ Calling /\ phase[b] \in Early /\ phase[b] \in Working
    BY <2>1 DEF Phases, Calling, Early, Working
  <2>4. Reach(b)' = Reach(b) /\ Reach(b) <= Reach(b)
    BY <1>2, <2>1 DEF Reach, Calling
  <2> QED BY <1>1, <1>2, <1>4, <1>5, <2>1, <2>2, <2>3, <2>4, QuietKeepsBatch
<1>11. CASE Opened(b)
  <2>1. /\ phase[b] = "opening" /\ inbox' = inbox /\ results' = results /\ index' = index
        /\ \/ phase'[b] = "ready" /\ outcome' = outcome
           \/ phase'[b] = "done" /\ outcome'[b] = "notOpened"
    BY <1>2, <1>11 DEF Opened, Goto
  <2>2. /\ phase'[b] \in Phases \ Calling /\ phase[b] \in Early /\ phase[b] \in Working
        /\ phase'[b] \notin Early /\ (phase'[b] \in Working => phase'[b] = "ready")
    BY <2>1 DEF Phases, Calling, Early, Working
  <2>3. phase'[b] = "ready" => Reach(b)' = Reach(b) /\ Reach(b) <= Reach(b)
    BY <1>2, <2>1 DEF Reach, Calling
  <2> QED BY <1>1, <1>2, <1>4, <1>5, <1>7, <2>1, <2>2, <2>3, QuietKeepsBatch
<1>12. CASE Start(b)
  <2>1. /\ phase[b] = "idle" /\ inbox' = inbox /\ results' = results /\ index' = index
        /\ phase'[b] = "ready" /\ outcome' = outcome
    BY <1>2, <1>12 DEF Start, Goto
  <2>2. /\ phase'[b] \in Phases \ Calling /\ phase[b] \in Early /\ phase[b] \in Working
        /\ phase'[b] \notin Early
    BY <2>1 DEF Phases, Calling, Early, Working
  <2>3. Reach(b)' = Reach(b) /\ Reach(b) <= Reach(b)
    BY <1>2, <2>1 DEF Reach, Calling
  <2> QED BY <1>1, <1>2, <1>4, <1>5, <1>7, <2>1, <2>2, <2>3, QuietKeepsBatch
<1>13. CASE SendRun(b)
  <2> DEFINE n == RunEnd(b, index[b])
  <2>1. n \in Nat /\ n > index[b] /\ \A i \in index[b] .. n : Op(b, i).needs = {}
    BY <1>2, <1>13, RunEndFacts DEF SendRun
  <2>2. /\ phase[b] = "ready" /\ index' = index /\ results' = results /\ outcome' = outcome
        /\ phase'[b] = "run" /\ Send(b, Operations(b, index[b], n))
    BY <1>2, <1>13 DEF SendRun, InRange, Goto
  <2> HIDE DEF n
  <2>3. PICK m \in Nat : m = n
    BY <2>1
  <2>4. End(b)' = m
    <3>1. RunEnd(b, index[b])' = RunEnd(b, index[b])
      BY <1>1, <2>2 DEF RunEnd, Op, Size
    <3>2. End(b)' = RunEnd(b, index[b])'
      BY <2>2 DEF End
    <3> QED BY <2>3, <3>1, <3>2 DEF n
  <2>5. phase'[b] \in Calling /\ index[b] <= m /\ Send(b, Operations(b, index[b], m))
    BY <1>2, <2>1, <2>2, <2>3 DEF Calling
  <2>6. \A i \in index[b] .. m : Op(b, i).needs \subseteq Outputs(b)
    BY <2>1, <2>3
  <2> QED BY <1>1, <2>2, <2>4, <2>5, <2>6, SendingStep
<1>14. CASE RunLost(b)
  <2>1. /\ phase[b] = "run" /\ inbox' = inbox /\ index' = index /\ outcome' = outcome
        /\ phase'[b] = "over" /\ Report(b, "lost")
    BY <1>2, <1>14 DEF RunLost, Goto
  <2>2. phase[b] \in Calling
    BY <2>1 DEF Calling
  <2> QED BY <1>1, <1>2, <1>7, <2>1, <2>2, LongerKeepsBatch
<1>15. CASE RunAnswered(b)
  BY <1>1, <1>15, RunAnsweredKeepsBatch
<1>16. CASE FailHere(b)
  <2>1. /\ phase[b] = "ready" /\ inbox' = inbox /\ outcome' = outcome /\ Report(b, "failed")
        /\ IF CarriesOn(b) THEN index'[b] = index[b] + 1 /\ phase'[b] = "ready"
                           ELSE index'[b] = index[b] /\ phase'[b] = "over"
    BY <1>2, <1>16 DEF FailHere, Alone, InRange, AfterFailure, Goto
  <2>2. phase'[b] \in {"ready", "over"} /\ index'[b] \in Nat \ {0}
    BY <1>2, <2>1
  <2>3. Reach(b) = index[b] - 1
    BY <2>1 DEF Reach, Calling
  <2>4. Upto(b, index[b])
    <3>1. Upto(b, Reach(b))
      BY <1>3, <2>1 DEF RanInv, Working
    <3>2. Ran(b) \in SUBSET Nat
      BY StateTypes
    <3> QED BY <1>2, <2>3, <3>1, <3>2 DEF Upto
  <2>5. ~CarriesOn(b) => NoneSent(b)
    BY <1>3, <2>1 DEF SentInv
  <2>6. Reach(b) <= index[b]
    BY <1>2, <2>3
  <2> QED BY <1>1, <1>7, <2>1, <2>2, <2>4, <2>5, <2>6, LongerKeepsBatch
<1>17. CASE SendOne(b)
  <2>1. /\ phase[b] = "ready" /\ index' = index /\ results' = results /\ outcome' = outcome
        /\ phase'[b] = "one" /\ Send(b, Operations(b, index[b], index[b])) /\ Resolved(b)
    BY <1>2, <1>17 DEF SendOne, Alone, InRange, Goto
  <2>2. PICK m \in Nat : m = index[b]
    BY <1>2
  <2>3. End(b)' = m
    BY <2>1, <2>2 DEF End
  <2>4. phase'[b] \in Calling /\ index[b] <= m /\ Send(b, Operations(b, index[b], m))
    BY <1>2, <2>1, <2>2 DEF Calling
  <2>5. \A i \in index[b] .. m : Op(b, i).needs \subseteq Outputs(b)
    <3>1. \A i \in index[b] .. m : i = index[b]
      BY <1>2, <2>2
    <3> QED BY <2>1, <3>1 DEF Resolved
  <2> QED BY <1>1, <2>1, <2>3, <2>4, <2>5, SendingStep
<1>18. CASE OneAnswered(b)
  BY <1>1, <1>18, OneAnsweredKeepsBatch
<1>19. CASE Marked(b)
  <2>1. /\ phase[b] = "marking" /\ inbox' = inbox /\ results' = results /\ outcome' = outcome
        /\ phase'[b] = "ready" /\ index'[b] = index[b] + 1
    BY <1>2, <1>19 DEF Marked, Goto
  <2>2. phase'[b] \in Phases \ Calling /\ phase[b] \in Working /\ phase'[b] \notin Early
    BY <2>1 DEF Phases, Calling, Early, Working
  <2>3. Reach(b)' = index[b] /\ Reach(b) = index[b] /\ Reach(b) <= Reach(b)'
    <3>1. Reach(b) = index[b] /\ Reach(b)' = index'[b] - 1
      BY <2>1 DEF Reach, Calling
    <3> QED BY <1>2, <2>1, <3>1
  <2>4. ~CarriesOn(b) => NoneSent(b)
    BY <1>3, <2>1 DEF SentInv
  <2>5. Len(results[b]) = index'[b] - 1 /\ index'[b] \in Nat \ {0}
    BY <1>2, <1>3, <2>1 DEF ReportInv
  <2> QED BY <1>1, <1>5, <1>7, <2>1, <2>2, <2>3, <2>4, <2>5, QuietKeepsBatch
<1>20. Leaving(b) => Len(results[b]) >= Size(b) \/ StoppedShort(b)
  <2>1. CASE phase[b] = "over"
    BY <1>3, <2>1 DEF ReportInv
  <2>2. CASE phase[b] = "ready" /\ index[b] > Size(b)
    BY <1>2, <1>3, <2>2 DEF ReportInv
  <2> QED BY <2>1, <2>2 DEF Leaving
<1>21. CASE Finish(b)
  <2>1. /\ Leaving(b) /\ inbox' = inbox /\ results' = results /\ index' = index
        /\ phase'[b] = "done"
    BY <1>2, <1>21 DEF Finish, Goto
  <2>2. phase'[b] \in Phases \ Calling /\ phase'[b] \notin Early \cup Working
    BY <2>1 DEF Phases, Calling, Early, Working
  <2> QED BY <1>1, <1>2, <1>7, <1>20, <2>1, <2>2, QuietKeepsBatch
<1>22. CASE Close(b)
  <2>1. /\ Leaving(b) /\ results' = results /\ index' = index /\ outcome' = outcome
        /\ phase'[b] = "closing" /\ Send(b, Request(b, IF Succeeded(b) THEN "commit" ELSE "rollback"))
    BY <1>2, <1>22 DEF Close, Goto
  <2>2. \E r \in Requests : r.kind # "ops" /\ Queues(b, r)
    <3>1. CASE Succeeded(b)
      BY <1>8, <2>1, <3>1
    <3>2. CASE ~Succeeded(b)
      BY <1>8, <2>1, <3>2
    <3> QED BY <3>1, <3>2
  <2>3. PICK r \in Requests : r.kind # "ops" /\ Queues(b, r)
    BY <2>2
  <2>4. phase'[b] \in Phases \ Calling /\ phase'[b] \notin Early \cup Working
    BY <2>1 DEF Phases, Calling, Early, Working
  <2>5. outcome'[b] = "none"
    BY <1>5, <2>1 DEF Leaving
  <2> QED BY <1>1, <1>2, <1>20, <2>1, <2>3, <2>4, <2>5, QuietKeepsBatch
<1>23. CASE Closed(b)
  <2>1. /\ phase[b] = "closing" /\ inbox' = inbox /\ results' = results /\ index' = index
        /\ phase'[b] = "done"
    BY <1>2, <1>23 DEF Closed, Goto
  <2>2. phase'[b] \in Phases \ Calling /\ phase'[b] \notin Early \cup Working
    BY <2>1 DEF Phases, Calling, Early, Working
  <2>3. Len(results[b]) >= Size(b) \/ StoppedShort(b)
    BY <1>3, <2>1 DEF ReportInv
  <2> QED BY <1>1, <1>2, <1>7, <2>1, <2>2, <2>3, QuietKeepsBatch
<1> QED
  BY <1>9, <1>10, <1>11, <1>12, <1>13, <1>14, <1>15, <1>16, <1>17, <1>18, <1>19, <1>21, <1>22,
     <1>23 DEF Server

-----------------------------------------------------------------------------
(* An operation that runs *)

\* The first request of the queue is one operation further, or answered.
Further(r, s, ok) ==
  /\ s.by = r.by /\ s.kind = r.kind /\ s.first = r.first /\ s.last = r.last
  /\ s.stop = r.stop /\ s.heard = r.heard /\ s.out = Append(r.out, ok)
  /\ At(r) # r.last /\ (r.stop => ok)

LEMMA OutFacts ==
  ASSUME NEW out \in Seq(BOOLEAN), NEW ok \in BOOLEAN
  PROVE  /\ Append(out, ok) # <<>> /\ Len(Append(out, ok)) = Len(out) + 1 /\ Len(out) \in Nat
         /\ DOMAIN out = 1 .. Len(out)
         /\ DOMAIN Append(out, ok) = 1 .. Len(out) + 1
         /\ \A k \in 1 .. Len(out) : Append(out, ok)[k] = out[k]
         /\ Append(out, ok)[Len(out) + 1] = ok
         /\ \A k \in 1 .. Len(out) + 1 : k \in 1 .. Len(out) \/ k = Len(out) + 1
<1>1. /\ Append(out, ok) # <<>> /\ Len(Append(out, ok)) = Len(out) + 1 /\ Len(out) \in Nat
      /\ DOMAIN out = 1 .. Len(out)
      /\ \A k \in 1 .. Len(out) : Append(out, ok)[k] = out[k]
      /\ Append(out, ok)[Len(out) + 1] = ok
  OBVIOUS
<1>2. DOMAIN Append(out, ok) = 1 .. Len(out) + 1
  BY <1>1
<1> QED BY <1>1, <1>2

LEMMA RanKeepsBatch ==
  ASSUME TypeInv, NEW b \in Batches, BatchInv(b), 1 \in DOMAIN inbox, OfRun(b, 1),
         NEW ok \in BOOLEAN, ran'[b] = Append(ran[b], At(inbox[1])),
         UNCHANGED <<plan, phase, index, results, outcome>>,
         NEW p,
         \A j \in DOMAIN inbox' : inbox'[j].by = b =>
           /\ p[j] \in DOMAIN inbox
           /\ p[j] = 1 => Further(inbox[1], inbox'[j], ok)
           /\ p[j] # 1 => inbox'[j] = inbox[p[j]],
         \A i, j \in DOMAIN inbox' :
           inbox'[i].by = b /\ inbox'[j].by = b /\ i < j => p[i] < p[j],
         \/ reply'[b] = reply[b]
         \/ /\ inbox[1].heard /\ reply'[b] = Append(inbox[1].out, ok)
            /\ At(inbox[1]) = inbox[1].last \/ (~ok /\ inbox[1].stop)
            /\ \A j \in DOMAIN inbox' : p[j] # 1
  PROVE  BatchInv(b)'
<1> DEFINE r == inbox[1]
           i == At(inbox[1])
<1>1. /\ r \in Requests /\ r.first \in Nat /\ r.last \in Nat /\ r.out \in Seq(BOOLEAN)
      /\ i \in Nat /\ Len(r.out) \in Nat /\ DOMAIN r.out = 1 .. Len(r.out)
      /\ i = r.first + Len(r.out)
  <2>1. /\ r \in Requests /\ r.first \in Nat /\ r.last \in Nat /\ r.out \in Seq(BOOLEAN)
        /\ i \in Nat
    BY QueueTypes
  <2> QED BY <2>1 DEF At
<1>2. Sound(b, r) /\ SentInv(b) /\ AnswerInv(b) /\ RanInv(b) /\ ReportInv(b)
  BY DEF BatchInv, SentInv
<1>3. /\ i <= r.last /\ (\A x \in Ran(b) : x < i) /\ i \in r.first .. r.last
      /\ Op(b, i).needs \subseteq Outputs(b)
  <2>1. i <= r.last /\ \A x \in Ran(b) : x < i
    BY <1>2 DEF Sound
  <2>2. i \in r.first .. r.last
    BY <1>1, <2>1
  <2> QED BY <1>2, <2>1, <2>2 DEF Sound
<1>4. \A k \in DOMAIN inbox : OfRun(b, k) /\ k # 1 =>
        /\ r.last < inbox[k].first /\ i < inbox[k].first /\ i < At(inbox[k]) /\ k > 1
  <2> SUFFICES ASSUME NEW k \in DOMAIN inbox, OfRun(b, k), k # 1
               PROVE  /\ r.last < inbox[k].first /\ i < inbox[k].first /\ i < At(inbox[k]) /\ k > 1
    OBVIOUS
  <2>1. k \in Nat /\ k > 1 /\ inbox[k].first \in Nat /\ Len(inbox[k].out) \in Nat
    <3>1. k \in DOMAIN inbox /\ inbox \in Seq(Requests)
      BY DEF TypeInv, QueueInv
    <3>2. k \in Nat /\ k > 1
      BY <3>1
    <3>3. inbox[k].first \in Nat /\ inbox[k].out \in Seq(BOOLEAN)
      BY QueueTypes
    <3> QED BY <3>2, <3>3
  <2>2. r.last < inbox[k].first
    BY <1>2, <2>1 DEF SentInv
  <2> QED BY <1>1, <1>3, <2>1, <2>2 DEF At
<1>5. /\ Outputs(b)' = Outputs(b) /\ Size(b)' = Size(b) /\ End(b)' = End(b) /\ Reach(b)' = Reach(b)
      /\ (CarriesOn(b)' <=> CarriesOn(b)) /\ (StoppedShort(b)' <=> StoppedShort(b))
      /\ \A n : Op(b, n)' = Op(b, n)
  <2>1. /\ Outputs(b)' = Outputs(b) /\ Size(b)' = Size(b) /\ (CarriesOn(b)' <=> CarriesOn(b))
        /\ (StoppedShort(b)' <=> StoppedShort(b)) /\ \A n : Op(b, n)' = Op(b, n)
    BY DEF Outputs, Size, CarriesOn, StoppedShort, Lost, Op
  <2>2. RunEnd(b, index[b])' = RunEnd(b, index[b])
    BY DEF RunEnd, Op, Size
  <2>3. End(b)' = End(b)
    BY <2>2 DEF End
  <2>4. Reach(b)' = Reach(b)
    BY <2>3 DEF Reach
  <2> QED BY <2>1, <2>3, <2>4
<1> DEFINE n == Len(ran[b])
<1>6. /\ n \in Nat /\ ran[b] \in Seq(Nat) /\ DOMAIN ran[b] = 1 .. n /\ DOMAIN ran'[b] = 1 .. n + 1
      /\ (\A k \in 1 .. n : ran'[b][k] = ran[b][k]) /\ ran'[b][n + 1] = i
      /\ 1 .. n + 1 = (1 .. n) \cup {n + 1}
  <2>1. ran[b] \in Seq(Nat)
    BY StateTypes
  <2>2. ran'[b] = Append(ran[b], i)
    OBVIOUS
  <2> HIDE DEF i
  <2>3. /\ n \in Nat /\ DOMAIN ran[b] = 1 .. n
        /\ (\A k \in 1 .. n : ran'[b][k] = ran[b][k]) /\ ran'[b][n + 1] = i
        /\ Len(ran'[b]) = n + 1 /\ ran'[b] \in Seq(Nat)
    BY <1>1, <2>1, <2>2
  <2>4. DOMAIN ran'[b] = 1 .. n + 1
    BY <2>3
  <2> QED BY <2>1, <2>3, <2>4
<1> HIDE DEF r, i, n
<1>7. Ran(b)' = Ran(b) \cup {i}
  BY <1>6 DEF Ran
<1>8. Ran(b) \in SUBSET Nat /\ Reach(b) \in Nat /\ End(b) \in Nat /\ index[b] \in Nat \ {0}
  BY StateTypes
<1>9. \A m : (Upto(b, m)' <=> Upto(b, m) /\ i <= m)
  BY <1>7 DEF Upto
<1>10. ASSUME NEW j \in DOMAIN inbox', inbox'[j].by = b
       PROVE  /\ p[j] \in DOMAIN inbox /\ inbox[p[j]].by = b
              /\ inbox'[j].kind = inbox[p[j]].kind /\ inbox'[j].heard = inbox[p[j]].heard
              /\ inbox'[j].first = inbox[p[j]].first /\ inbox'[j].last = inbox[p[j]].last
              /\ (OfRun(b, j)' <=> OfRun(b, p[j]))
              /\ (p[j] = 1 => Further(r, inbox'[j], ok))
              /\ (p[j] # 1 => inbox'[j] = inbox[p[j]])
  <2>1. CASE p[j] = 1
    BY <1>10, <2>1 DEF Further, OfRun, r
  <2>2. CASE p[j] # 1
    BY <1>10, <2>2 DEF OfRun
  <2> QED BY <2>1, <2>2
<1>11. ~NoneSent(b) /\ phase[b] \notin Early /\ (phase[b] \in Working => r.last <= Reach(b))
  BY <1>2 DEF NoneSent, Sound
<1>12. r.heard => phase[b] \in Calling /\ r.first = index[b] /\ r.last = End(b)
  BY <1>2 DEF Sound
<1>13. SentInv(b)'
  <2>1. ASSUME NEW j \in DOMAIN inbox', OfRun(b, j)' PROVE Sound(b, inbox[j])'
    <3>0. inbox'[j].by = b
      BY <2>1 DEF OfRun
    <3>1. CASE p[j] = 1
      <4> DEFINE q == inbox'[j]
                 out == Append(r.out, ok)
      <4>1. Further(r, q, ok)
        BY <1>10, <3>0, <3>1
      <4>2. /\ Len(out) = Len(r.out) + 1 /\ DOMAIN out = 1 .. Len(r.out) + 1
            /\ \A k \in 1 .. Len(r.out) : out[k] = r.out[k]
            /\ out[Len(r.out) + 1] = ok
            /\ \A k \in 1 .. Len(r.out) + 1 : k \in 1 .. Len(r.out) \/ k = Len(r.out) + 1
        BY <1>1, OutFacts
      <4>3. q.out = out /\ q.first = r.first /\ q.last = r.last /\ q.stop = r.stop /\ q.heard = r.heard
            /\ i # r.last /\ (r.stop => ok)
        BY <4>1 DEF Further, i, r
      <4> HIDE DEF q, out
      <4>4. At(q) = i + 1 /\ i + 1 <= r.last
        BY <1>1, <1>3, <4>2, <4>3 DEF At
      <4>5. \A x \in Ran(b) \cup {i} : x < i + 1
        BY <1>1, <1>3, <1>8
      <4>6. \A k \in DOMAIN out : r.first + k - 1 \in Ran(b) \cup {i}
        <5>1. \A k \in 1 .. Len(r.out) : r.first + k - 1 \in Ran(b)
          BY <1>1, <1>2 DEF Sound
        <5>2. r.first + (Len(r.out) + 1) - 1 = i
          BY <1>1
        <5> QED BY <4>2, <5>1, <5>2
      <4>7. r.stop => \A k \in DOMAIN out : out[k]
        BY <1>1, <1>2, <4>2, <4>3 DEF Sound
      <4> QED BY <1>2, <1>5, <1>7, <4>3, <4>4, <4>5, <4>6, <4>7 DEF Sound, q
    <3>2. CASE p[j] # 1
      <4>1. p[j] \in DOMAIN inbox /\ inbox'[j] = inbox[p[j]] /\ OfRun(b, p[j])
        BY <1>10, <2>1, <3>0, <3>2
      <4>2. Sound(b, inbox[p[j]]) /\ i < At(inbox[p[j]])
        BY <1>2, <1>4, <3>2, <4>1 DEF SentInv
      <4>3. \A x \in Ran(b)' : x < At(inbox[p[j]])
        BY <1>7, <4>2 DEF Sound
      <4> QED BY <1>5, <1>7, <4>1, <4>2, <4>3 DEF Sound, At
    <3> QED BY <3>1, <3>2
  <2>2. ASSUME NEW g \in DOMAIN inbox', NEW j \in DOMAIN inbox', OfRun(b, g)', OfRun(b, j)', g < j
        PROVE  inbox'[g].last < inbox'[j].first
    <3>1. inbox'[g].by = b /\ inbox'[j].by = b
      BY <2>2 DEF OfRun
    <3>2. /\ p[g] \in DOMAIN inbox /\ OfRun(b, p[g]) /\ inbox'[g].last = inbox[p[g]].last
          /\ p[j] \in DOMAIN inbox /\ OfRun(b, p[j]) /\ inbox'[j].first = inbox[p[j]].first
          /\ p[g] < p[j]
      BY <1>10, <2>2, <3>1
    <3> QED BY <1>2, <3>2 DEF SentInv
  <2>3. ASSUME NEW j \in DOMAIN inbox', inbox'[j].by = b, inbox'[j].heard
        PROVE  Awaits(b, inbox[j])'
    <3>1. /\ p[j] \in DOMAIN inbox /\ inbox[p[j]].by = b /\ inbox[p[j]].heard
          /\ inbox'[j].kind = inbox[p[j]].kind
      BY <1>10, <2>3
    <3>2. Awaits(b, inbox[p[j]])
      BY <1>2, <3>1 DEF SentInv
    <3> QED BY <3>1, <3>2 DEF Awaits
  <2>4. ~(~CarriesOn(b)' /\ phase'[b] \in {"ready", "marking"})
    BY <1>2, <1>5, <1>11 DEF SentInv
  <2> QED BY <2>1, <2>2, <2>3, <2>4 DEF SentInv
<1>14. AnswerInv(b)'
  <2>1. CASE reply'[b] = reply[b]
    <3> SUFFICES ASSUME phase[b] \in Calling, reply[b] # <<>> PROVE AnswerInv(b)'
      BY <2>1 DEF AnswerInv
    <3>1. CarriesOn(b)
      BY <1>2, <1>11 DEF AnswerInv
    <3> DEFINE m == Len(reply[b])
    <3>2. m \in Nat
      <4>1. reply[b] \in Seq(BOOLEAN)
        BY StateTypes
      <4> QED BY <4>1
    <3>3. /\ m = End(b) - index[b] + 1 /\ Upto(b, index[b] + m - 1)
          /\ index[b] + m - 1 <= End(b)
          /\ \A k \in DOMAIN reply[b] : index[b] + k - 1 \in Ran(b)
      BY <1>2, <3>1 DEF AnswerInv
    <3>4. i <= index[b] + m - 1
      <4>1. r.last <= End(b)
        BY <1>11 DEF Reach, Working, Calling
      <4> QED BY <1>1, <1>3, <1>8, <3>2, <3>3, <4>1
    <3>5. Upto(b, index[b] + m - 1)'
      <4>1. Upto(b, index[b] + m - 1)' <=> Upto(b, index[b] + m - 1) /\ i <= index[b] + m - 1
        BY <1>7, <2>1 DEF Upto
      <4> QED BY <3>3, <3>4, <4>1
    <3> QED BY <1>5, <1>7, <2>1, <3>1, <3>3, <3>5 DEF AnswerInv
  <2>2. CASE /\ r.heard /\ reply'[b] = Append(r.out, ok)
             /\ i = r.last \/ (~ok /\ r.stop)
             /\ \A j \in DOMAIN inbox' : p[j] # 1
    <3> DEFINE out == Append(r.out, ok)
    <3>1. /\ Len(out) = Len(r.out) + 1 /\ DOMAIN out = 1 .. Len(r.out) + 1
          /\ \A k \in 1 .. Len(r.out) : out[k] = r.out[k]
          /\ out[Len(r.out) + 1] = ok
          /\ \A k \in 1 .. Len(r.out) + 1 : k \in 1 .. Len(r.out) \/ k = Len(r.out) + 1
      BY <1>1, OutFacts
    <3>2. reply'[b] = out
      BY <2>2
    <3> HIDE DEF out
    <3>3. phase[b] \in Calling /\ r.first = index[b] /\ r.last = End(b)
      BY <1>12, <2>2
    <3>4. index[b] + Len(out) - 1 = i /\ i <= End(b)
      BY <1>1, <1>3, <3>1, <3>3
    <3>5. \A k \in DOMAIN out : index[b] + k - 1 \in Ran(b)'
      <4>1. \A k \in 1 .. Len(r.out) : r.first + k - 1 \in Ran(b)
        BY <1>1, <1>2 DEF Sound
      <4>2. index[b] + (Len(r.out) + 1) - 1 = i
        BY <1>1, <3>3
      <4> QED BY <1>7, <3>1, <3>3, <4>1, <4>2
    <3>6. ~CarriesOn(b) => \A k \in DOMAIN out : k < Len(out) => out[k]
      <4> SUFFICES ASSUME ~CarriesOn(b), NEW k \in DOMAIN out, k < Len(out) PROVE out[k]
        OBVIOUS
      <4>1. k \in 1 .. Len(r.out)
        BY <1>1, <3>1
      <4>2. r.stop /\ \A l \in 1 .. Len(r.out) : r.out[l]
        BY <1>1, <1>2 DEF Sound
      <4> QED BY <3>1, <4>1, <4>2
    <3>7. \/ Len(out) = End(b) - index[b] + 1
          \/ ~CarriesOn(b) /\ ~out[Len(out)]
      <4>1. CASE i = r.last
        BY <1>1, <1>8, <3>1, <3>3, <4>1
      <4>2. CASE ~ok /\ r.stop
        BY <1>2, <3>1, <4>2 DEF Sound
      <4> QED BY <2>2, <4>1, <4>2
    <3>8. ~CarriesOn(b) => NoneSent(b)'
      <4> SUFFICES ASSUME ~CarriesOn(b), NEW j \in DOMAIN inbox', OfRun(b, j)' PROVE FALSE
        BY DEF NoneSent
      <4>1. p[j] \in DOMAIN inbox /\ OfRun(b, p[j]) /\ p[j] # 1
        BY <1>10, <2>2 DEF OfRun
      <4>2. inbox[p[j]].first = index[b]
        BY <1>2, <3>3, <4>1 DEF SentInv, Sound
      <4>3. r.last < inbox[p[j]].first
        BY <1>4, <4>1
      <4> QED BY <1>1, <1>3, <1>8, <3>3, <4>2, <4>3
    <3>9. Upto(b, index[b] + Len(reply[b]) - 1)'
      <4>1. index'[b] + Len(reply'[b]) - 1 = i
        BY <3>2, <3>4
      <4>2. \A x \in Ran(b)' : x <= i
        BY <1>1, <1>3, <1>7, <1>8
      <4> QED BY <4>1, <4>2 DEF Upto
    <3> QED BY <1>5, <3>2, <3>4, <3>5, <3>6, <3>7, <3>8, <3>9 DEF AnswerInv
  <2> QED BY <2>1, <2>2 DEF r, i
<1>15. RanInv(b)'
  <2>1. ASSUME NEW j \in DOMAIN ran'[b], NEW k \in DOMAIN ran'[b], j < k
        PROVE  ran'[b][j] < ran'[b][k]
    <3>1. CASE k \in 1 .. n
      <4>1. j \in 1 .. n
        BY <1>6, <2>1, <3>1
      <4> QED BY <1>2, <1>6, <2>1, <3>1, <4>1 DEF RanInv
    <3>2. CASE k = n + 1
      <4>1. j \in 1 .. n
        BY <1>6, <2>1, <3>2
      <4>2. ran[b][j] \in Ran(b)
        BY <1>6, <4>1 DEF Ran
      <4> QED BY <1>3, <1>6, <3>2, <4>1, <4>2
    <3> QED BY <1>6, <3>1, <3>2
  <2>2. ASSUME NEW j \in DOMAIN ran'[b] PROVE Op(b, ran'[b][j]).needs \subseteq Outputs(b)
    <3>1. CASE j \in 1 .. n
      BY <1>2, <1>6, <3>1 DEF RanInv
    <3>2. CASE j = n + 1
      BY <1>3, <1>6, <3>2
    <3> QED BY <1>6, <3>1, <3>2
  <2>3. phase[b] \in Working => Upto(b, Reach(b))'
    <3> SUFFICES ASSUME phase[b] \in Working PROVE \A x \in Ran(b)' : x <= Reach(b)'
      BY DEF Upto
    <3>1. i <= Reach(b)
      BY <1>1, <1>3, <1>8, <1>11
    <3> QED BY <1>2, <1>5, <1>7, <3>1 DEF RanInv, Upto
  <2> QED BY <1>5, <2>1, <2>2, <2>3 DEF RanInv
<1>16. ReportInv(b)'
  <2>1. ~CarriesOn(b) => \A k \in DOMAIN results[b] : results[b][k].how # "failed"
    BY <1>2, <1>11 DEF ReportInv
  <2> QED BY <1>2, <1>5, <1>7, <1>11, <2>1 DEF ReportInv
<1> QED BY <1>13, <1>14, <1>15, <1>16 DEF BatchInv

-----------------------------------------------------------------------------
(* The bridge and the add-on *)

LEMMA FailKeepsBatch ==
  ASSUME TypeInv, AllInv, NEW c \in Batches, Fail(c)
  PROVE  AllInv'
<1>1. UNCHANGED <<plan, phase, index, results, reply, outcome, ran>>
  BY DEF Fail
<1>2. PICK k \in DOMAIN inbox :
        \/ inbox' = [inbox EXCEPT ![k].heard = FALSE]
        \/ inbox' = Without(inbox, k)
  BY DEF Fail, Without
<1>3. inbox \in Seq(Requests)
  BY DEF TypeInv, QueueInv
<1>4. ASSUME NEW p,
             \A j \in DOMAIN inbox' : p[j] \in DOMAIN inbox /\ Same(inbox[p[j]], inbox'[j]),
             \A i, j \in DOMAIN inbox' : i < j => p[i] < p[j]
      PROVE  AllInv'
  <2> SUFFICES ASSUME NEW b \in Batches PROVE BatchInv(b)'
    BY DEF AllInv
  <2>1. BatchInv(b)
    BY DEF AllInv
  <2> QED BY <1>1, <1>4, <2>1, AloneKeepsBatch
<1>5. CASE inbox' = [inbox EXCEPT ![k].heard = FALSE]
  <2> DEFINE r == [inbox[k] EXCEPT !.heard = FALSE]
             p == [j \in Nat |-> j]
  <2>1. r \in Requests /\ r.by = inbox[k].by /\ Same(inbox[k], r)
    BY <1>3, QueueTypes DEF Requests, Same
  <2>2. inbox' = [inbox EXCEPT ![k] = r]
    BY <1>5
  <2> HIDE DEF r
  <2>3. /\ DOMAIN inbox' = DOMAIN inbox
        /\ \A j \in DOMAIN inbox : inbox'[j] = IF j = k THEN r ELSE inbox[j]
    BY <1>3, <2>1, <2>2, RewriteFacts
  <2>4. \A j \in DOMAIN inbox' : j \in DOMAIN inbox /\ Same(inbox[j], inbox'[j]) /\ p[j] = j
    BY <2>1, <2>3, QueueTypes DEF Same
  <2> HIDE DEF p
  <2> QED BY <1>4, <2>4
<1>6. CASE inbox' = Without(inbox, k)
  <2>1. PICK p : Drops(inbox, inbox', k, p)
    BY <1>3, <1>6, WithoutDrops
  <2>2. \A j \in DOMAIN inbox' : p[j] \in DOMAIN inbox /\ Same(inbox[p[j]], inbox'[j])
    BY <2>1 DEF Drops, Same
  <2> QED BY <1>4, <2>1, <2>2 DEF Drops
<1> QED BY <1>2, <1>5, <1>6

LEMMA TransactKeepsBatch ==
  ASSUME TypeInv, AllInv, Transact
  PROVE  AllInv'
<1>1. PICK ok \in BOOLEAN : Answer(<<ok>>)
  BY DEF Transact, Respond
<1>2. /\ inbox # <<>> /\ ran' = ran /\ Head(inbox).kind # "ops" /\ <<ok>> \in Seq(BOOLEAN)
  BY DEF Transact
<1>3. /\ \E p : Drops(inbox, inbox', 1, p)
      /\ 1 \in DOMAIN inbox /\ Head(inbox) = inbox[1] /\ inbox[1].by \in Batches
      /\ UNCHANGED <<plan, phase, index, results, outcome>>
      /\ \A c \in Batches : reply'[c] # reply[c] => c = inbox[1].by /\ inbox[1].heard
  BY <1>1, <1>2, AnswerSteps
<1>4. PICK p : Drops(inbox, inbox', 1, p)
  BY <1>3
<1>5. /\ \A j \in DOMAIN inbox' : p[j] \in DOMAIN inbox /\ Same(inbox[p[j]], inbox'[j])
      /\ \A i, j \in DOMAIN inbox' : i < j => p[i] < p[j]
  BY <1>4 DEF Drops, Same
<1> SUFFICES ASSUME NEW b \in Batches PROVE BatchInv(b)'
  BY DEF AllInv
<1>6. BatchInv(b)
  BY DEF AllInv
<1>7. reply'[b] = reply[b] \/ phase[b] \notin Calling
  <2> SUFFICES ASSUME reply'[b] # reply[b] PROVE phase[b] \notin Calling
    OBVIOUS
  <2>1. b = inbox[1].by /\ inbox[1].heard
    BY <1>3
  <2>2. Awaits(b, inbox[1])
    BY <1>3, <1>6, <2>1 DEF BatchInv, SentInv
  <2> QED BY <1>2, <1>3, <2>2 DEF Awaits, Calling
<1> QED BY <1>2, <1>3, <1>5, <1>6, <1>7, AloneKeepsBatch

LEMMA RunNextKeepsBatch ==
  ASSUME TypeInv, AllInv, RunNext
  PROVE  AllInv'
<1> DEFINE r == inbox[1]
           i == At(r)
<1>1. inbox # <<>> /\ inbox \in Seq(Requests) /\ Head(inbox).kind = "ops"
  BY DEF RunNext, TypeInv, QueueInv
<1>2. /\ Head(inbox) = r /\ 1 \in DOMAIN inbox /\ r \in Requests /\ r.by \in Batches
      /\ r.out \in Seq(BOOLEAN) /\ r.kind = "ops"
  BY <1>1, HeadTypes
<1>3. PICK how \in {"ok", "failed", "half"} :
        /\ Perform(r.by, i, how, r.mark)
        /\ IF Ends(r, i, how)
           THEN Answer(Append(r.out, how = "ok"))
           ELSE /\ inbox' = [inbox EXCEPT ![1].out = Append(r.out, how = "ok")]
                /\ UNCHANGED serverVars
  BY <1>2 DEF RunNext, At
<1> DEFINE ok == how = "ok"
           out == Append(r.out, ok)
<1>4. ok \in BOOLEAN /\ out \in Seq(BOOLEAN)
  BY <1>2
<1>5. ran' = [ran EXCEPT ![r.by] = Append(@, i)] /\ ran \in [Batches -> Seq(Nat)]
  BY <1>3 DEF Perform, TypeInv, HistoryTypes
<1>6. ASSUME UNCHANGED <<plan, phase, index, results, outcome>>,
             NEW p,
             \A j \in DOMAIN inbox' :
               /\ p[j] \in DOMAIN inbox
               /\ p[j] = 1 => Further(r, inbox'[j], ok)
               /\ p[j] # 1 => inbox'[j] = inbox[p[j]],
             \A g, j \in DOMAIN inbox' : g < j => p[g] < p[j],
             \A c \in Batches : reply'[c] # reply[c] =>
               /\ c = r.by /\ r.heard /\ reply'[c] = out
               /\ i = r.last \/ (~ok /\ r.stop)
               /\ \A j \in DOMAIN inbox' : p[j] # 1
      PROVE  AllInv'
  <2> SUFFICES ASSUME NEW b \in Batches PROVE BatchInv(b)'
    BY DEF AllInv
  <2>1. BatchInv(b)
    BY DEF AllInv
  <2>2. CASE b = r.by
    <3>1. OfRun(b, 1) /\ ran'[b] = Append(ran[b], i)
      BY <1>2, <1>5, <2>2 DEF OfRun
    <3>2. \/ reply'[b] = reply[b]
          \/ /\ r.heard /\ reply'[b] = out
             /\ i = r.last \/ (~ok /\ r.stop)
             /\ \A j \in DOMAIN inbox' : p[j] # 1
      BY <1>6
    <3> HIDE DEF ok
    <3> QED BY <1>2, <1>4, <1>6, <2>1, <3>1, <3>2, RanKeepsBatch
  <2>3. CASE b # r.by
    <3>1. ran'[b] = ran[b] /\ reply'[b] = reply[b]
      BY <1>5, <1>6, <2>3
    <3>2. \A j \in DOMAIN inbox' : inbox'[j].by = b =>
            p[j] \in DOMAIN inbox /\ Same(inbox[p[j]], inbox'[j])
      <4> SUFFICES ASSUME NEW j \in DOMAIN inbox', inbox'[j].by = b
                   PROVE  p[j] \in DOMAIN inbox /\ Same(inbox[p[j]], inbox'[j])
        OBVIOUS
      <4>1. p[j] # 1
        BY <1>6, <2>3 DEF Further
      <4> QED BY <1>6, <4>1 DEF Same
    <3> HIDE DEF r, i, out, ok
    <3> QED BY <1>6, <2>1, <3>1, <3>2, AloneKeepsBatch
  <2> QED BY <2>2, <2>3
<1>7. CASE Ends(r, i, how) /\ Answer(out)
  <2>1. /\ \E p : Drops(inbox, inbox', 1, p)
        /\ UNCHANGED <<plan, phase, index, results, outcome>>
        /\ \A c \in Batches : reply'[c] # reply[c] => c = r.by /\ r.heard /\ reply'[c] = out
    BY <1>1, <1>4, <1>7, AnswerSteps
  <2>2. PICK p : Drops(inbox, inbox', 1, p)
    BY <2>1
  <2>3. i = r.last \/ (~ok /\ r.stop)
    BY <1>7 DEF Ends
  <2>4. /\ \A j \in DOMAIN inbox' : p[j] \in DOMAIN inbox /\ p[j] # 1 /\ inbox'[j] = inbox[p[j]]
        /\ \A g, j \in DOMAIN inbox' : g < j => p[g] < p[j]
    BY <2>2 DEF Drops
  <2> HIDE DEF r, i, out, ok
  <2> QED BY <1>6, <2>1, <2>3, <2>4
<1>8. CASE ~Ends(r, i, how) /\ inbox' = [inbox EXCEPT ![1].out = out] /\ UNCHANGED serverVars
  <2> DEFINE q == [r EXCEPT !.out = out]
             p == [j \in Nat |-> j]
  <2>1. q \in Requests /\ q.by = r.by
    BY <1>2, <1>4 DEF Requests
  <2>2. Further(r, q, ok)
    <3>1. i # r.last /\ (r.stop => ok)
      BY <1>8 DEF Ends
    <3>2. /\ q.by = r.by /\ q.kind = r.kind /\ q.first = r.first /\ q.last = r.last
          /\ q.stop = r.stop /\ q.heard = r.heard /\ q.out = out
      BY <1>2 DEF Requests
    <3> QED BY <3>1, <3>2 DEF Further
  <2>3. inbox' = [inbox EXCEPT ![1] = q]
    BY <1>8
  <2> HIDE DEF q, out
  <2>4. /\ DOMAIN inbox' = DOMAIN inbox
        /\ \A j \in DOMAIN inbox : inbox'[j] = IF j = 1 THEN q ELSE inbox[j]
    BY <1>1, <1>2, <2>1, <2>3, RewriteFacts
  <2>5. \A j \in DOMAIN inbox' : j \in DOMAIN inbox /\ p[j] = j
    BY <2>4, QueueTypes
  <2>6. UNCHANGED <<plan, phase, index, results, outcome, reply>>
    BY <1>8 DEF serverVars
  <2>7. \A j \in DOMAIN inbox' :
          /\ p[j] \in DOMAIN inbox
          /\ p[j] = 1 => Further(r, inbox'[j], ok)
          /\ p[j] # 1 => inbox'[j] = inbox[p[j]]
    BY <2>2, <2>4, <2>5
  <2>8. \A g, j \in DOMAIN inbox' : g < j => p[g] < p[j]
    BY <2>5
  <2> HIDE DEF p, r, i, ok
  <2> QED BY <1>6, <2>6, <2>7, <2>8
<1> QED BY <1>3, <1>7, <1>8

LEMMA RestKeepsBatch ==
  ASSUME TypeInv, AllInv, UNCHANGED <<serverVars, inbox, ran>>
  PROVE  AllInv'
<1> SUFFICES ASSUME NEW b \in Batches PROVE BatchInv(b)'
  BY DEF AllInv
<1> DEFINE p == [j \in Nat |-> j]
<1>1. BatchInv(b)
  BY DEF AllInv
<1>2. \A j \in DOMAIN inbox' : j \in DOMAIN inbox /\ p[j] = j /\ Same(inbox[j], inbox'[j])
  BY QueueTypes DEF Same
<1> HIDE DEF p
<1>3. UNCHANGED <<plan, phase, index, results, outcome, reply, ran>>
  BY DEF serverVars
<1> QED BY <1>1, <1>2, <1>3, AloneKeepsBatch

-----------------------------------------------------------------------------
LEMMA BatchInit == Init => AllInv
<1> SUFFICES ASSUME Init, NEW b \in Batches PROVE BatchInv(b)
  BY DEF AllInv
<1>1. /\ phase[b] = "idle" /\ index[b] = 1 /\ results[b] = <<>> /\ reply[b] = <<>>
      /\ outcome[b] = "none" /\ inbox = <<>> /\ ran[b] = <<>>
  BY DEF Init
<1>2. Len(results[b]) = 0 /\ DOMAIN results[b] = {} /\ DOMAIN ran[b] = {} /\ DOMAIN inbox = {}
  BY <1>1
<1>3. Ran(b) = {}
  BY <1>2 DEF Ran
<1>4. SentInv(b) /\ AnswerInv(b) /\ RanInv(b)
  BY <1>1, <1>2, <1>3 DEF SentInv, NoneSent, AnswerInv, RanInv, Upto
<1>5. ReportInv(b)
  BY <1>1, <1>2 DEF ReportInv, Calling
<1> QED BY <1>4, <1>5 DEF BatchInv

LEMMA BatchNext == TypeInv /\ AllInv /\ [Next]_vars => AllInv'
<1> SUFFICES ASSUME TypeInv, AllInv, [Next]_vars PROVE AllInv'
  OBVIOUS
<1>1. ASSUME NEW c \in Batches, Server(c) PROVE AllInv'
  <2> SUFFICES ASSUME NEW b \in Batches PROVE BatchInv(b)'
    BY DEF AllInv
  <2>1. BatchInv(b)
    BY DEF AllInv
  <2>2. CASE b = c
    BY <1>1, <2>1, <2>2, ServerKeepsOwn
  <2>3. CASE b # c
    <3>1. b \in Batches \ {c}
      BY <2>3
    <3> QED BY <1>1, <2>1, <3>1, ServerLeavesOthers
  <2> QED BY <2>2, <2>3
<1>2. ASSUME NEW c \in Batches, Fail(c) PROVE AllInv'
  BY <1>2, FailKeepsBatch
<1>3. CASE Transact
  BY <1>3, TransactKeepsBatch
<1>4. CASE RunNext
  BY <1>4, RunNextKeepsBatch
<1>5. CASE User
  BY <1>5, RestKeepsBatch DEF User
<1>6. CASE UNCHANGED vars
  BY <1>6, RestKeepsBatch DEF vars
<1> QED BY <1>1, <1>2, <1>3, <1>4, <1>5, <1>6 DEF Next, Done

LEMMA BatchInvariant == Spec => []AllInv
<1>1. Spec => []TypeInv
  BY TypeInit, TypeNext, PTL DEF Spec
<1>2. Init => AllInv
  BY BatchInit
<1>3. TypeInv /\ AllInv /\ [Next]_vars => AllInv'
  BY BatchNext
<1> QED BY <1>1, <1>2, <1>3, PTL DEF Spec

(* Whatever is lost, given up on or run late, and however many batches share Blender,
   the operations of a batch run in their order and none of them twice (batch.rs,
   execute and dispatch_run). *)
THEOREM BatchesRunInOrder == Spec => []OperationsRunInOrder
<1>1. AllInv => OperationsRunInOrder
  BY DEF AllInv, BatchInv, RanInv, OperationsRunInOrder
<1> QED BY <1>1, BatchInvariant, PTL

(* A batch whose mode stops at the first failure runs no operation after one that was
   reported failed, not even in a request it has already given up on (batch.py,
   dispatch_run, stop_on_error; batch.rs, execute). *)
THEOREM BatchesStopAtAFailure == Spec => []StopsAtTheFailure
<1>1. AllInv => StopsAtTheFailure
  <2> SUFFICES ASSUME AllInv, NEW b \in Batches, ~CarriesOn(b),
                      NEW k \in DOMAIN results[b], results[b][k].how = "failed",
                      NEW j \in DOMAIN ran[b]
               PROVE  ran[b][j] <= results[b][k].index
    BY DEF StopsAtTheFailure
  <2>1. results[b][k].index = k /\ Upto(b, k)
    BY DEF AllInv, BatchInv, ReportInv
  <2> QED BY <2>1 DEF Upto, Ran
<1> QED BY <1>1, BatchInvariant, PTL

(* The report of a batch names its operations one after the other, says ok only of one
   that ran, and leaves out none of a batch that lost no answer, but for those after the
   failure it stopped at (batch.rs, execute and dispatch_run). *)
THEOREM ReportsAreComplete == Spec => []ReportCoversTheBatch
<1>1. TypeInv /\ AllInv => ReportCoversTheBatch
  <2> SUFFICES ASSUME TypeInv, AllInv, NEW b \in Batches
               PROVE  /\ \A k \in DOMAIN results[b] : results[b][k].index = k
                      /\ \A k \in DOMAIN results[b] : results[b][k].how = "ok" => k \in Ran(b)
                      /\ outcome[b] \in {"finished", "committed", "rolledBack"}
                           /\ Len(results[b]) < Size(b) => StoppedShort(b)
    BY DEF ReportCoversTheBatch, Ran, StoppedShort, Lost
  <2>1. ReportInv(b)
    BY DEF AllInv, BatchInv
  <2>2. Len(results[b]) \in Nat /\ Size(b) \in Nat
    BY StateTypes
  <2> QED BY <2>1, <2>2 DEF ReportInv
<1>2. Spec => []TypeInv
  BY TypeInit, TypeNext, PTL DEF Spec
<1> QED BY <1>1, <1>2, BatchInvariant, PTL

(* An operation that refers to another's result runs only once that one was reported ok
   to the same batch, alone or in one frame with others (batch.rs, collect_run and
   resolve_references). *)
THEOREM ReferencesResolve == Spec => []ReferencesAreResolved
<1>1. AllInv => ReferencesAreResolved
  BY DEF AllInv, BatchInv, RanInv, ReferencesAreResolved
<1> QED BY <1>1, BatchInvariant, PTL
=============================================================================
