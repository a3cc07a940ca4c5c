------------------------------- MODULE Batch --------------------------------
(***************************************************************************)
(* batch.execute: tool calls that each run a list of operations in         *)
(* Blender (mcp-server/src/tools/batch.rs), several at a time, over the    *)
(* bridge, whose add-on side runs one request after the other              *)
(* (operations/batch.py, operations/transaction.py).  Of the bridge the    *)
(* model keeps what a caller can tell: a request is run at most once and   *)
(* in the order of sending, or never, and a caller that is told of a       *)
(* timeout or a lost connection does not know which.                       *)
(***************************************************************************)
EXTENDS Transaction, FiniteSetsExt

CONSTANTS
  Batches,    \* the calls of batch.execute
  Plans,      \* the arguments they may come with
  MaxFaults,  \* bound on the requests a caller hears nothing true of
  MaxWork     \* bound on the user's actions in Blender

ASSUME BatchAssumption == None \notin Batches /\ "user" \notin Batches

ASSUME PlanAssumption ==
  \A p \in Plans : p \in [mode : {"ATOMIC", "STOP_ON_ERROR", "BEST_EFFORT"},
                         ops : Seq([forwards : BOOLEAN, valid : BOOLEAN,
                                    needs : SUBSET Nat, external : BOOLEAN])]

VARIABLES
  plan,      \* plan[b]: mode and operations
  phase,     \* where execute stands
  index,     \* the operation it is at, from 1
  results,   \* the report so far: [index, how]
  waiting,   \* the caller awaits an answer
  reply,     \* the answer, one BOOLEAN for each operation; empty when the call failed
  outcome,   \* how the batch ended
  inbox,     \* requests on their way to Blender or in its inbox
  ran,       \* history: the operations of b that ran, in order
  faults, work,
  disturbed  \* history: the batches whose transaction the user worked in

serverVars == <<plan, phase, index, results, waiting, reply, outcome>>
vars == <<serverVars, inbox, ran, faults, work, disturbed, transactionVars>>

Phases == {"idle", "opening", "ready", "run", "one", "marking", "over", "closing", "done"}
Outcomes == {"none", "refused", "notOpened", "finished",
             "committed", "commitUnknown", "rolledBack", "rollbackFailed"}

Op(b, i)  == plan[b].ops[i]
Size(b)   == Len(plan[b].ops)
Atomic(b) == plan[b].mode = "ATOMIC"
CarriesOn(b) == plan[b].mode = "BEST_EFFORT"
Succeeded(b) == \A k \in DOMAIN results[b] : results[b][k].how = "ok"
Outputs(b) == {results[b][k].index : k \in {j \in DOMAIN results[b] : results[b][j].how = "ok"}}

-----------------------------------------------------------------------------
(* Requests *)

Request(b, kind) == [by |-> b, kind |-> kind, first |-> 1, last |-> 1,
                     stop |-> TRUE, mark |-> FALSE, out |-> <<>>, heard |-> TRUE]

Operations(b, i, j) ==
  [Request(b, "ops") EXCEPT !.first = i, !.last = j,
                            !.stop = ~CarriesOn(b), !.mark = Atomic(b) /\ i < j]

Send(b, request) == /\ inbox' = Append(inbox, request)
                    /\ waiting' = [waiting EXCEPT ![b] = TRUE]
                    /\ reply' = [reply EXCEPT ![b] = <<>>]

Goto(b, p) == phase' = [phase EXCEPT ![b] = p]

Quiet == UNCHANGED <<ran, faults, work, disturbed, transactionVars>>

-----------------------------------------------------------------------------
(* The server: execute *)

\* Names and kinds are looked at before anything is sent.
Refuse(b) ==
  /\ phase[b] = "idle"
  /\ Atomic(b)
  /\ \E i \in 1 .. Size(b) : Op(b, i).external
  /\ Goto(b, "done")
  /\ outcome' = [outcome EXCEPT ![b] = "refused"]
  /\ Quiet /\ UNCHANGED <<plan, index, results, waiting, reply, inbox>>

Open(b) ==
  /\ phase[b] = "idle"
  /\ Atomic(b)
  /\ \A i \in 1 .. Size(b) : ~Op(b, i).external
  /\ Send(b, Request(b, "begin"))
  /\ Goto(b, "opening")
  /\ Quiet /\ UNCHANGED <<plan, index, results, outcome>>

Opened(b) ==
  /\ phase[b] = "opening" /\ ~waiting[b]
  /\ IF reply[b] = <<TRUE>>
     THEN Goto(b, "ready") /\ UNCHANGED outcome
     ELSE Goto(b, "done") /\ outcome' = [outcome EXCEPT ![b] = "notOpened"]
  /\ Quiet /\ UNCHANGED <<plan, index, results, waiting, reply, inbox>>

Start(b) ==
  /\ phase[b] = "idle"
  /\ ~Atomic(b)
  /\ Goto(b, "ready")
  /\ Quiet /\ UNCHANGED <<plan, index, results, waiting, reply, outcome, inbox>>

\* Mutant: arguments that still hold a reference go into the frame.
CoalescesUnresolved(op) == op.forwards /\ op.valid

\* An operation that can share a frame: a plain forward whose arguments are
\* literal and pass the tool's own validation.
Coalesces(op) == op.forwards /\ op.valid /\ op.needs = {}

\* collect_run: the last operation of the longest run from i on.
RunEnd(b, i) ==
  Max({i - 1} \cup {j \in i .. Size(b) : \A k \in i .. j : Coalesces(Op(b, k))})

InRange(b) == phase[b] = "ready" /\ index[b] <= Size(b)

SendRun(b) ==
  /\ InRange(b)
  /\ RunEnd(b, index[b]) > index[b]
  /\ Send(b, Operations(b, index[b], RunEnd(b, index[b])))
  /\ Goto(b, "run")
  /\ Quiet /\ UNCHANGED <<plan, index, results, outcome>>

Alone(b) == InRange(b) /\ RunEnd(b, index[b]) <= index[b]

Resolved(b) == Op(b, index[b]).needs \subseteq Outputs(b)

Report(b, how) ==
  results' = [results EXCEPT ![b] = Append(@, [index |-> index[b], how |-> how])]

\* After a failure: on to the next operation, or out of the loop.
AfterFailure(b) ==
  IF CarriesOn(b) THEN index' = [index EXCEPT ![b] = @ + 1] /\ Goto(b, "ready")
                  ELSE UNCHANGED index /\ Goto(b, "over")

\* A reference that does not resolve, or arguments the tool refuses.
FailHere(b) ==
  /\ Alone(b)
  /\ ~Resolved(b) \/ ~Op(b, index[b]).valid
  /\ Report(b, "failed")
  /\ AfterFailure(b)
  /\ Quiet /\ UNCHANGED <<plan, waiting, reply, outcome, inbox>>

SendOne(b) ==
  /\ Alone(b)
  /\ Resolved(b) /\ Op(b, index[b]).valid
  /\ Send(b, Operations(b, index[b], index[b]))
  /\ Goto(b, "one")
  /\ Quiet /\ UNCHANGED <<plan, index, results, outcome>>

-----------------------------------------------------------------------------
\* Mutant: positions in the run stand for positions in the batch.
EntriesOfRun(b) == [k \in DOMAIN reply[b] |-> [index |-> k,
                                               how |-> IF reply[b][k] THEN "ok" ELSE "failed"]]

Entries(b) == [k \in DOMAIN reply[b] |-> [index |-> index[b] + k - 1,
                                          how |-> IF reply[b][k] THEN "ok" ELSE "failed"]]

\* The call failed: one entry, for the first operation of the run, and the end.
RunLost(b) ==
  /\ phase[b] = "run" /\ ~waiting[b]
  /\ reply[b] = <<>>
  /\ Report(b, "lost")
  /\ Goto(b, "over")
  /\ Quiet /\ UNCHANGED <<plan, index, waiting, reply, outcome, inbox>>

\* Mutant: a run accounts for one operation.
ConsumedOne(b) == 1

\* How far an answered run takes the loop.
Consumed(b) == Len(reply[b])

RunAnswered(b) ==
  /\ phase[b] = "run" /\ ~waiting[b]
  /\ reply[b] # <<>>
  /\ results' = [results EXCEPT ![b] = @ \o Entries(b)]
  /\ IF (\E k \in DOMAIN reply[b] : ~reply[b][k]) /\ ~CarriesOn(b)
     THEN UNCHANGED index /\ Goto(b, "over")
     ELSE index' = [index EXCEPT ![b] = @ + Consumed(b)] /\ Goto(b, "ready")
  /\ Quiet /\ UNCHANGED <<plan, waiting, reply, outcome, inbox>>

OneAnswered(b) ==
  /\ phase[b] = "one" /\ ~waiting[b]
  /\ \/ /\ reply[b] = <<TRUE>>
        /\ Report(b, "ok")
        /\ IF Atomic(b)
           THEN Send(b, Request(b, "step")) /\ Goto(b, "marking") /\ UNCHANGED index
           ELSE /\ index' = [index EXCEPT ![b] = @ + 1]
                /\ Goto(b, "ready")
                /\ UNCHANGED <<inbox, waiting, reply>>
     \/ /\ reply[b] # <<TRUE>>
        /\ Report(b, IF reply[b] = <<>> THEN "lost" ELSE "failed")
        /\ AfterFailure(b)
        /\ UNCHANGED <<inbox, waiting, reply>>
  /\ Quiet /\ UNCHANGED <<plan, outcome>>

\* Whatever the answer to transaction.step is.
Marked(b) ==
  /\ phase[b] = "marking" /\ ~waiting[b]
  /\ index' = [index EXCEPT ![b] = @ + 1]
  /\ Goto(b, "ready")
  /\ Quiet /\ UNCHANGED <<plan, results, waiting, reply, outcome, inbox>>

Leaving(b) == phase[b] = "over" \/ (phase[b] = "ready" /\ index[b] > Size(b))

Finish(b) ==
  /\ Leaving(b) /\ ~Atomic(b)
  /\ Goto(b, "done")
  /\ outcome' = [outcome EXCEPT ![b] = "finished"]
  /\ Quiet /\ UNCHANGED <<plan, index, results, waiting, reply, inbox>>

Close(b) ==
  /\ Leaving(b) /\ Atomic(b)
  /\ Send(b, Request(b, IF Succeeded(b) THEN "commit" ELSE "rollback"))
  /\ Goto(b, "closing")
  /\ Quiet /\ UNCHANGED <<plan, index, results, outcome>>

Closed(b) ==
  /\ phase[b] = "closing" /\ ~waiting[b]
  /\ Goto(b, "done")
  /\ outcome' = [outcome EXCEPT ![b] =
       IF Succeeded(b) THEN IF reply[b] = <<TRUE>> THEN "committed" ELSE "commitUnknown"
                       ELSE IF reply[b] = <<TRUE>> THEN "rolledBack" ELSE "rollbackFailed"]
  /\ Quiet /\ UNCHANGED <<plan, index, results, waiting, reply, inbox>>

Server(b) ==
  \/ Refuse(b) \/ Open(b) \/ Opened(b) \/ Start(b)
  \/ SendRun(b) \/ RunLost(b) \/ RunAnswered(b)
  \/ FailHere(b) \/ SendOne(b) \/ OneAnswered(b) \/ Marked(b)
  \/ Finish(b) \/ Close(b) \/ Closed(b)

-----------------------------------------------------------------------------
(* The bridge *)

\* A call that fails: not connected, lost before Blender read it, or given up
\* on, in which case the request stays on its way.
Fail(b) ==
  /\ waiting[b]
  /\ faults < MaxFaults
  /\ faults' = faults + 1
  /\ waiting' = [waiting EXCEPT ![b] = FALSE]
  /\ \E k \in DOMAIN inbox :
       /\ inbox[k].by = b /\ inbox[k].heard
       /\ \/ inbox' = [inbox EXCEPT ![k].heard = FALSE]
          \/ /\ inbox[k].out = <<>>
             /\ inbox' = SubSeq(inbox, 1, k - 1) \o SubSeq(inbox, k + 1, Len(inbox))
  /\ UNCHANGED <<plan, phase, index, results, reply, outcome, ran, work, disturbed,
                 transactionVars>>

\* Mutant: an answer is taken for the one awaited, whichever request it is to.
AnyAnswer(r) == TRUE

\* Only the request whose id is still pending finds a caller.
Awaited(r) == r.heard

\* The add-on's answer to the request it took, which a reconnection may lose.
Answer(answer) ==
  LET r == Head(inbox)
  IN  /\ inbox' = Tail(inbox)
      /\ IF Awaited(r)
         THEN /\ waiting' = [waiting EXCEPT ![r.by] = FALSE]
              /\ \/ reply' = [reply EXCEPT ![r.by] = answer] /\ UNCHANGED faults
                 \/ faults < MaxFaults /\ faults' = faults + 1 /\ UNCHANGED reply
         ELSE UNCHANGED <<waiting, reply, faults>>
      /\ UNCHANGED <<plan, phase, index, results, outcome>>

-----------------------------------------------------------------------------
(* The add-on: one request of a pump pass, a run one operation at a time *)

\* Mutant: a handler that refuses leaves its request without an answer.
RespondToSuccess(ok) ==
  IF ok THEN Answer(<<ok>>) ELSE inbox' = Tail(inbox) /\ UNCHANGED <<serverVars, faults>>

Respond(ok) == Answer(<<ok>>)

Transact ==
  /\ inbox # <<>>
  /\ \E ok \in BOOLEAN :
       /\ \/ Head(inbox).kind = "begin" /\ Begin(Head(inbox).by, ok)
          \/ Head(inbox).kind = "step" /\ Step(ok)
          \/ Head(inbox).kind = "commit" /\ Commit(ok)
          \/ Head(inbox).kind = "rollback" /\ Rollback(ok)
       /\ Respond(ok)
  /\ UNCHANGED <<ran, work, disturbed>>

\* Mutant: a run goes on after a failure whatever the mode.
EndsAtTheLast(r, i, how) == i = r.last

\* Whether the operation at i is the last that the run performs.
Ends(r, i, how) == i = r.last \/ (how # "ok" /\ r.stop)

\* One operation: it succeeds, fails, or fails with half its work done.  Inside a
\* marked run a boundary is pushed after each success.
Perform(b, i, how, mark) ==
  /\ scene' = IF how = "failed" THEN scene ELSE scene \cup {<<b, i>>}
  /\ ran' = [ran EXCEPT ![b] = Append(@, i)]
  /\ IF mark /\ how = "ok" THEN Mark(scene') ELSE UNCHANGED <<undo, steps>>
  /\ UNCHANGED <<owner, start>>

RunNext ==
  /\ inbox # <<>>
  /\ Head(inbox).kind = "ops"
  /\ LET r == Head(inbox)
         i == r.first + Len(r.out)
     IN  \E how \in {"ok", "failed", "half"} :
           LET out == Append(r.out, how = "ok")
           IN  /\ Perform(r.by, i, how, r.mark)
               /\ IF Ends(r, i, how)
                  THEN Answer(out)
                  ELSE inbox' = [inbox EXCEPT ![1].out = out] /\ UNCHANGED <<serverVars, faults>>
  /\ UNCHANGED <<work, disturbed>>

\* External: between two requests the user edits or undoes something in Blender.
User ==
  /\ work < MaxWork
  /\ work' = work + 1
  /\ inbox # <<>> => Head(inbox).out = <<>>
  /\ UserEdits(<<"user", work>>) \/ UserUndoes
  /\ disturbed' = IF owner = None THEN disturbed ELSE disturbed \cup {owner}
  /\ UNCHANGED <<serverVars, inbox, ran, faults>>

-----------------------------------------------------------------------------
Requests ==
  [by : Batches, kind : {"begin", "step", "commit", "rollback", "ops"}, first : Nat, last : Nat,
   stop : BOOLEAN, mark : BOOLEAN, out : Seq(BOOLEAN), heard : BOOLEAN]

Effects == (Batches \cup {"user"}) \X Nat

(* Every variable keeps its type, and an answer is awaited exactly while one request
   of the caller is heard: an answer to an earlier request is never taken for it
   (pending.rs, complete). *)
TypeOK ==
  /\ plan \in [Batches -> Plans]
  /\ phase \in [Batches -> Phases]
  /\ index \in [Batches -> Nat]
  /\ results \in [Batches -> Seq([index : Nat, how : {"ok", "failed", "lost"}])]
  /\ waiting \in [Batches -> BOOLEAN]
  /\ reply \in [Batches -> Seq(BOOLEAN)]
  /\ outcome \in [Batches -> Outcomes]
  /\ inbox \in Seq(Requests)
  /\ ran \in [Batches -> Seq(Nat)]
  /\ faults \in Nat /\ work \in Nat
  /\ disturbed \subseteq Batches
  /\ scene \subseteq Effects
  /\ undo \in Seq(SUBSET Effects)
  /\ owner \in Batches \cup {None}
  /\ steps \in Nat
  /\ start \subseteq Effects
  /\ \A b \in Batches :
       waiting[b] = (\E k \in DOMAIN inbox : inbox[k].by = b /\ inbox[k].heard)

(* A batch that reports that it was rolled back has left nothing in the scene,
   whatever failed half way, was answered late or not at all, and whoever else works
   in Blender through the server; the user may not have, while it was open
   (transaction.py, rollback; batch.py, dispatch_run; batch.rs, execute). *)
RolledBackIsGone ==
  \A b \in Batches : outcome[b] = "rolledBack" /\ b \notin disturbed =>
    \A effect \in scene : effect[1] # b

(* The operations of a batch run in their order and none runs twice, those included
   that are run after their caller has given up on them (batch.rs, execute and
   dispatch_run). *)
OperationsRunInOrder ==
  \A b \in Batches : \A j, k \in DOMAIN ran[b] : j < k => ran[b][j] < ran[b][k]

(* Where the mode stops at the first failure, no operation after one that Blender
   or the server reported failed is run, at that time or later (batch.py, dispatch_run,
   stop_on_error; batch.rs, execute). *)
StopsAtTheFailure ==
  \A b \in Batches : ~CarriesOn(b) =>
    \A k \in DOMAIN results[b] : results[b][k].how = "failed" =>
      \A j \in DOMAIN ran[b] : ran[b][j] <= results[b][k].index

(* The report has one entry for each operation from the first, in order; an entry
   that says ok is of an operation that ran; and a batch that ended without losing an
   answer reports every operation, or every one up to the failure it stopped at
   (batch.rs, execute and dispatch_run). *)
ReportCoversTheBatch ==
  \A b \in Batches :
    LET report == results[b] IN
    /\ \A k \in DOMAIN report : report[k].index = k
    /\ \A k \in DOMAIN report : report[k].how = "ok" => k \in {ran[b][j] : j \in DOMAIN ran[b]}
    /\ outcome[b] \in {"finished", "committed", "rolledBack"} /\ Len(report) < Size(b) =>
         \/ \E k \in DOMAIN report : report[k].how = "lost"
         \/ ~CarriesOn(b) /\ report # <<>> /\ report[Len(report)].how = "failed"

(* An operation that refers to the result of another runs only after that one was
   reported ok to this batch, whichever frames the two travel in (batch.rs,
   collect_run and resolve_references). *)
ReferencesAreResolved ==
  \A b \in Batches : \A j \in DOMAIN ran[b] : Op(b, ran[b][j]).needs \subseteq Outputs(b)

(* A transaction is ended by the batch that opened it, never by another's commit or
   rollback, although the add-on takes no note of who asks (transaction.py, begin). *)
ClosedByOpener ==
  [][owner # None /\ owner' # owner => owner' = None /\ Head(inbox).by = owner]_vars

(* A batch that was called ends: the loop always moves on, and every request is
   answered or fails (batch.rs, execute: "must never be zero or the loop would not
   terminate"). *)
EveryBatchEnds == \A b \in Batches : <>(phase[b] = "done")

-----------------------------------------------------------------------------
(* What the documentation says and the code does not do *)

(* TRANSACTIONS.md says that ATOMIC means one undo_push before the batch and, on
   failure, undo back to that point: a rollback restores the scene the transaction
   began with. *)
RollbackStopsAtTheStart ==
  [][owner # None /\ owner' = None /\ Head(inbox).kind = "rollback" /\ owner \notin disturbed
     => scene' = start]_vars

-----------------------------------------------------------------------------
Init ==
  /\ plan \in [Batches -> Plans]
  /\ phase = [b \in Batches |-> "idle"]
  /\ index = [b \in Batches |-> 1]
  /\ results = [b \in Batches |-> <<>>]
  /\ waiting = [b \in Batches |-> FALSE]
  /\ reply = [b \in Batches |-> <<>>]
  /\ outcome = [b \in Batches |-> "none"]
  /\ inbox = <<>>
  /\ ran = [b \in Batches |-> <<>>]
  /\ faults = 0
  /\ work = 0
  /\ disturbed = {}
  /\ TransactionInit

Done == (\A b \in Batches : phase[b] = "done") /\ inbox = <<>> /\ UNCHANGED vars

Next == \/ \E b \in Batches : Server(b) \/ Fail(b)
        \/ Transact \/ RunNext \/ User \/ Done

Spec == Init /\ [][Next]_vars

\* The server's tasks and the add-on's timer keep running.
Live == Spec /\ WF_vars(Transact \/ RunNext) /\ \A b \in Batches : WF_vars(Server(b))
=============================================================================
