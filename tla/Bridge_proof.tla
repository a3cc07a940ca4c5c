---------------------------- MODULE Bridge_proof ----------------------------
(***************************************************************************)
(* Theorems about Bridge, for any number of calls and connections and any  *)
(* size of the three queues.                                               *)
(***************************************************************************)
EXTENDS Bridge, TLAPS

-----------------------------------------------------------------------------
(* Queues *)

LEMMA QueuedAppend ==
  ASSUME NEW S, NEW q \in Seq(S), NEW e \in S, NEW x
  PROVE  Queued(Append(q, e), x) <=> Queued(q, x) \/ x = e
<1>1. /\ Len(q) \in Nat /\ DOMAIN q = 1 .. Len(q)
      /\ DOMAIN Append(q, e) = 1 .. Len(q) + 1
      /\ \A i \in 1 .. Len(q) : Append(q, e)[i] = q[i]
      /\ Append(q, e)[Len(q) + 1] = e
  OBVIOUS
<1>2. /\ \A i \in 1 .. Len(q) + 1 : i \in 1 .. Len(q) \/ i = Len(q) + 1
      /\ \A i \in 1 .. Len(q) : i \in 1 .. Len(q) + 1
      /\ Len(q) + 1 \in 1 .. Len(q) + 1
  BY <1>1
<1> QED BY <1>1, <1>2, Zenon DEF Queued

LEMMA QueuedTail ==
  ASSUME NEW S, NEW q \in Seq(S), q # <<>>, NEW x
  PROVE  /\ Queued(q, Head(q))
         /\ Queued(q, x) <=> x = Head(q) \/ Queued(Tail(q), x)
<1>1. /\ Len(q) \in Nat \ {0} /\ Head(q) = q[1]
      /\ DOMAIN q = 1 .. Len(q) /\ DOMAIN Tail(q) = 1 .. Len(q) - 1
      /\ \A i \in 1 .. Len(q) - 1 : Tail(q)[i] = q[i + 1]
  OBVIOUS
<1>2. ASSUME NEW i \in 1 .. Len(q)
      PROVE  i = 1 \/ (i - 1 \in 1 .. Len(q) - 1 /\ q[i] = Tail(q)[i - 1])
  BY <1>1
<1>3. 1 \in 1 .. Len(q) /\ \A i \in 1 .. Len(q) - 1 : i + 1 \in 1 .. Len(q)
  BY <1>1
<1>4. Queued(q, Head(q))
  BY <1>1, <1>3 DEF Queued
<1>5. Queued(q, x) => x = Head(q) \/ Queued(Tail(q), x)
  BY <1>1, <1>2, Zenon DEF Queued
<1>6. Queued(Tail(q), x) => Queued(q, x)
  BY <1>1, <1>3, Zenon DEF Queued
<1> QED BY <1>4, <1>5, <1>6

LEMMA DistinctAppend ==
  ASSUME NEW S, NEW q \in Seq(S), NEW e \in S, Distinct(q), ~Queued(q, e)
  PROVE  Distinct(Append(q, e))
BY DEF Queued, Distinct

LEMMA DistinctTail ==
  ASSUME NEW S, NEW q \in Seq(S), q # <<>>, Distinct(q)
  PROVE  Distinct(Tail(q)) /\ ~Queued(Tail(q), Head(q))
<1>1. /\ Len(q) \in Nat \ {0} /\ Head(q) = q[1]
      /\ DOMAIN q = 1 .. Len(q) /\ DOMAIN Tail(q) = 1 .. Len(q) - 1
      /\ \A i \in 1 .. Len(q) - 1 : Tail(q)[i] = q[i + 1]
  OBVIOUS
<1>2. \A i \in 1 .. Len(q) - 1 : i + 1 \in 1 .. Len(q) /\ i + 1 # 1
  BY <1>1
<1> QED BY <1>1, <1>2 DEF Queued, Distinct

LEMMA EmptyQueue == (\A x : ~Queued(<<>>, x)) /\ Distinct(<<>>)
BY DEF Queued, Distinct

LEMMA QueueTypes ==
  ASSUME NEW S
  PROVE  /\ <<>> \in Seq(S)
         /\ \A q \in Seq(S), e \in S : Append(q, e) \in Seq(S)
         /\ \A q \in Seq(S) : q # <<>> => Head(q) \in S /\ Tail(q) \in Seq(S)
OBVIOUS

LEMMA ResponseTypes ==
  /\ \A c \in Calls, k \in {"ok", "refused"} : [call |-> c, kind |-> k] \in Response
  /\ \A r \in Response : r.call \in Calls /\ r.kind \in {"ok", "refused"}
BY DEF Response

-----------------------------------------------------------------------------
(* Type correctness *)

LEMMA TypeInit == Init => TypeOK
BY DEF Init, LinkInit, ClientInit, AddonInit, TypeOK, LinkTypeOK, ClientTypeOK,
       AddonTypeOK, CallerPc, Outcome, TaskPc

LEMMA TypeNext == TypeOK /\ [Next]_vars => TypeOK'
<1> SUFFICES ASSUME TypeOK, [Next]_vars PROVE TypeOK'
  OBVIOUS
<1> USE DEF TypeOK, LinkTypeOK, ClientTypeOK, AddonTypeOK, CallerPc, Outcome, TaskPc,
            linkVars, addonVars, clientVars, callerVars, taskVars,
            FailSession, Cancel, CloseWriter, Post
<1>1. ASSUME NEW c \in Calls, Caller(c), UNCHANGED addonVars PROVE TypeOK'
  <2>1. CASE Require(c)   BY <1>1, <2>1 DEF Require
  <2>2. CASE Register(c)  BY <1>1, <2>2 DEF Register
  <2>3. CASE Send(c)      BY <1>1, <2>3, QueueTypes DEF Send
  <2>4. CASE SendFails(c) BY <1>1, <2>4 DEF SendFails
  <2>5. CASE Answered(c)  BY <1>1, <2>5 DEF Answered
  <2>6. CASE TimesOut(c)  BY <1>1, <2>6 DEF TimesOut
  <2> QED BY <1>1, <2>1, <2>2, <2>3, <2>4, <2>5, <2>6 DEF Caller
<1>2. ASSUME NEW s \in Sessions, Connection(s), UNCHANGED addonVars PROVE TypeOK'
  <2>1. CASE HandshakeFails(s)  BY <1>2, <2>1 DEF HandshakeFails
  <2>2. CASE Install(s)         BY <1>2, <2>2 DEF Install
  <2>3. CASE FailPrevious(s)    BY <1>2, <2>3 DEF FailPrevious
  <2>4. CASE ReceiveResponse(s)
    <3> DEFINE r == Head(fromBlender[s])
    <3>1. /\ r \in Response /\ Tail(fromBlender[s]) \in Seq(Response)
          /\ r.call \in Calls /\ r.kind \in {"ok", "refused"}
      BY <2>4, QueueTypes, ResponseTypes DEF ReceiveResponse
    <3>2. fromBlender' \in [Sessions -> Seq(Response)]
      BY <2>4, <3>1 DEF ReceiveResponse
    <3>3. pending' \in [Calls -> Sessions \cup {None}]
      BY <2>4, <3>1 DEF ReceiveResponse
    <3>4. answer' \in [Calls -> {"none", "ok", "refused", "lost"}]
      <4>1. answer' = answer \/ answer' = [answer EXCEPT ![r.call] = r.kind]
        BY <2>4 DEF ReceiveResponse
      <4> QED BY <4>1, <3>1
    <3>5. held' \in [Sessions -> Calls \cup {None}]
      <4>1. held' = held \/ held' = [held EXCEPT ![s] = r.call]
        BY <2>4 DEF ReceiveResponse
      <4> QED BY <4>1, <3>1
    <3> HIDE DEF r
    <3> QED BY <1>2, <2>4, <3>2, <3>3, <3>4, <3>5 DEF ReceiveResponse
  <2>5. CASE PutBack(s)         BY <1>2, <2>5 DEF PutBack
  <2>6. CASE ReadEnds(s)        BY <1>2, <2>6 DEF ReadEnds
  <2>7. CASE ClearSlot(s)       BY <1>2, <2>7 DEF ClearSlot
  <2>8. CASE FailEnded(s)       BY <1>2, <2>8 DEF FailEnded
  <2>9. CASE AbortWriter(s)     BY <1>2, <2>9 DEF AbortWriter
  <2>10. CASE Write(s)          BY <1>2, <2>10, QueueTypes DEF Write
  <2>11. CASE WriteFails(s)     BY <1>2, <2>11 DEF WriteFails
  <2>12. CASE WriteLoopEnds(s)  BY <1>2, <2>12 DEF WriteLoopEnds
  <2> QED BY <1>2, <2>1, <2>2, <2>3, <2>4, <2>5, <2>6, <2>7, <2>8, <2>9, <2>10, <2>11,
             <2>12 DEF Connection, TaskAdvances
<1>3. ASSUME Addon, UNCHANGED clientVars PROVE TypeOK'
  <2>1. CASE Stop BY <1>3, <2>1 DEF Stop
  <2>2. CASE Pump
    <3>1. Head(inbox) \in Calls /\ inbox' \in Seq(Calls)
      BY <2>2, QueueTypes DEF Pump
    <3>2. executed' \in [Calls -> Nat]
      BY <2>2, <3>1 DEF Pump
    <3>3. outbox' \in Seq(Response)
      BY <2>2, <3>1, QueueTypes, ResponseTypes DEF Pump
    <3> QED BY <1>3, <2>2, <3>1, <3>2, <3>3 DEF Pump
  <2>3. ASSUME NEW s \in Sessions, ReadRequest(s) PROVE TypeOK'
    BY <1>3, <2>3, QueueTypes DEF ReadRequest
  <2>4. ASSUME NEW s \in Sessions, RefuseRequest(s) PROVE TypeOK'
    BY <1>3, <2>4, QueueTypes, ResponseTypes DEF RefuseRequest
  <2>5. ASSUME NEW s \in Sessions, Drop(s) PROVE TypeOK'
    BY <1>3, <2>5 DEF Drop
  <2>6. ASSUME NEW s \in Sessions, WriterSends(s) PROVE TypeOK'
    BY <1>3, <2>6, QueueTypes DEF WriterSends
  <2>7. ASSUME NEW s \in Sessions, WriterFails(s) PROVE TypeOK'
    BY <1>3, <2>7, QueueTypes DEF WriterFails
  <2> QED BY <1>3, <2>1, <2>2, <2>3, <2>4, <2>5, <2>6, <2>7 DEF Addon
<1>4. ASSUME NEW s \in Sessions, Connect(s) PROVE TypeOK'
  BY <1>4 DEF Connect, Accept, Dial
<1>5. CASE UNCHANGED vars
  BY <1>5 DEF vars
<1> QED BY <1>1, <1>2, <1>3, <1>4, <1>5
        DEF Next, CallerStep, ConnectionStep, AddonStep, ConnectStep

(* Every variable of the bridge keeps its type. *)
THEOREM TypeCorrect == Safety => []TypeOK
BY TypeInit, TypeNext, PTL DEF Safety

-----------------------------------------------------------------------------
(* The slot and the registry *)

\* A connection task supersedes no one before it installs its session.
FreshTasks == \A s \in Sessions : task[s] \in {"free", "handshake"} => superseded[s] = None

SlotInv == FreshTasks /\ LiveSessionKeepsSlot /\ UnansweredHasEntry

LEMMA SlotInit == Init => SlotInv
BY DEF Init, LinkInit, ClientInit, AddonInit, SlotInv, FreshTasks, LiveSessionKeepsSlot,
       UnansweredHasEntry

LEMMA SlotNext == TypeOK /\ SlotInv /\ [Next]_vars => SlotInv'
<1> SUFFICES ASSUME TypeOK, SlotInv, [Next]_vars PROVE SlotInv'
  OBVIOUS
<1> USE NoneAssumption
        DEF TypeOK, ClientTypeOK, CallerPc, Outcome, TaskPc, linkVars, addonVars, clientVars,
            callerVars, taskVars, FailSession, Cancel, CloseWriter,
            SlotInv, FreshTasks, LiveSessionKeepsSlot, UnansweredHasEntry
<1>1. ASSUME NEW c \in Calls, Caller(c), UNCHANGED addonVars PROVE SlotInv'
  <2>1. CASE Require(c)
    <3>1. UNCHANGED <<slot, task, superseded, pending, held, answer>>
      BY <2>1 DEF Require
    <3>2. \A d \in Calls : pc'[d] \in {"sending", "waiting"} =>
            pc[d] = pc'[d] /\ session'[d] = session[d]
      BY <2>1 DEF Require
    <3> QED BY <3>1, <3>2
  <2>2. CASE Register(c)  BY <1>1, <2>2 DEF Register
  <2>3. CASE Send(c)      BY <1>1, <2>3 DEF Send
  <2>4. CASE SendFails(c) BY <1>1, <2>4 DEF SendFails
  <2>5. CASE Answered(c)  BY <1>1, <2>5 DEF Answered
  <2>6. CASE TimesOut(c)  BY <1>1, <2>6 DEF TimesOut
  <2> QED BY <1>1, <2>1, <2>2, <2>3, <2>4, <2>5, <2>6 DEF Caller
<1>2. ASSUME NEW s \in Sessions, Connection(s), UNCHANGED addonVars PROVE SlotInv'
  <2>1. CASE HandshakeFails(s)  BY <1>2, <2>1 DEF HandshakeFails
  <2>2. CASE Install(s)         BY <1>2, <2>2 DEF Install
  <2>3. CASE FailPrevious(s)    BY <1>2, <2>3 DEF FailPrevious
  <2>4. CASE ReceiveResponse(s)
    <3>1. Head(fromBlender[s]).call \in Calls /\ Head(fromBlender[s]).kind # "none"
      BY <2>4, QueueTypes, ResponseTypes DEF ReceiveResponse, LinkTypeOK
    <3> QED BY <1>2, <2>4, <3>1 DEF ReceiveResponse
  <2>5. CASE PutBack(s)         BY <1>2, <2>5 DEF PutBack
  <2>6. CASE ReadEnds(s)        BY <1>2, <2>6 DEF ReadEnds
  <2>7. CASE ClearSlot(s)
    <3>1. UNCHANGED <<superseded, pending, pc, session, answer, held>>
      BY <2>7 DEF ClearSlot
    <3>2. task'[s] \in {"failing", "aborting"} /\ \A t \in Sessions \ {s} : task'[t] = task[t]
      BY <2>7 DEF ClearSlot
    <3>3. slot = s \/ slot' = slot
      BY <2>7 DEF ClearSlot
    <3>4. FreshTasks'  BY <3>1, <3>2
    <3>5. LiveSessionKeepsSlot'
      <4> SUFFICES ASSUME NEW t \in Sessions, \A u \in Sessions : superseded'[u] # t,
                          task'[t] \in {"failPrevious", "reading", "ended"}
                   PROVE  slot' = t
        OBVIOUS
      <4>1. t # s /\ slot = t  BY <3>1, <3>2
      <4> QED BY <3>3, <4>1
    <3>6. UnansweredHasEntry'  BY <3>1
    <3> QED BY <3>4, <3>5, <3>6
  <2>8. CASE FailEnded(s)       BY <1>2, <2>8 DEF FailEnded
  <2>9. CASE AbortWriter(s)     BY <1>2, <2>9 DEF AbortWriter
  <2>10. CASE Write(s)          BY <1>2, <2>10 DEF Write
  <2>11. CASE WriteFails(s)     BY <1>2, <2>11 DEF WriteFails
  <2>12. CASE WriteLoopEnds(s)  BY <1>2, <2>12 DEF WriteLoopEnds
  <2> QED BY <1>2, <2>1, <2>2, <2>3, <2>4, <2>5, <2>6, <2>7, <2>8, <2>9, <2>10, <2>11,
             <2>12 DEF Connection, TaskAdvances
<1>3. ASSUME Addon, UNCHANGED clientVars PROVE SlotInv'
  BY <1>3
<1>4. ASSUME NEW s \in Sessions, Connect(s) PROVE SlotInv'
  BY <1>4 DEF Connect, Accept, Dial
<1>5. CASE UNCHANGED vars
  BY <1>5 DEF vars
<1> QED BY <1>1, <1>2, <1>3, <1>4, <1>5
        DEF Next, CallerStep, ConnectionStep, AddonStep, ConnectStep

(* The teardown of an old connection never empties the slot that a live,
   unreplaced connection is in (session.rs, clear_if). *)
THEOREM SlotSafe == Safety => []LiveSessionKeepsSlot
BY TypeInit, TypeNext, SlotInit, SlotNext, PTL DEF Safety, SlotInv

(* Nothing but its own answer, failure or cancellation takes the registry entry of
   a caller away (pending.rs, complete and fail_session). *)
THEOREM EntrySafe == Safety => []UnansweredHasEntry
BY TypeInit, TypeNext, SlotInit, SlotNext, PTL DEF Safety, SlotInv

-----------------------------------------------------------------------------
(* One copy of each request, and only true answers *)

LEMMA RequestInit == Init => RequestInv
BY EmptyQueue DEF Init, LinkInit, ClientInit, AddonInit, RequestInv, OneCopy, Truthful,
                  InFlight, Responded, Unsent

\* A step that adds nothing to a queue, runs nothing and sends nothing: callers may
\* move on, but a request that was not sent stays unsent, and what a caller newly
\* returns is what it has been answered.
LEMMA NothingAdded ==
  ASSUME TypeOK, RequestInv,
         Distinct(inbox'),
         \A c \in Calls : Queued(inbox', c) => Queued(inbox, c),
         \A s \in Sessions : Distinct(outbound'[s]) /\ Distinct(toBlender'[s]),
         \A s \in Sessions, c \in Calls :
           /\ Queued(outbound'[s], c) => Queued(outbound[s], c)
           /\ Queued(toBlender'[s], c) => Queued(toBlender[s], c),
         \A r \in Response : Responded(r)' => Responded(r),
         executed' = executed,
         \A c \in Calls :
           /\ answer'[c] \in {answer[c], "lost"}
           /\ pc[c] \in Unsent => pc'[c] \in Unsent \cup {"lost"}
           /\ pc[c] \notin Unsent =>
                session'[c] = session[c] /\ pc'[c] \in {pc[c], answer[c], "timeout"} \ {"none"}
  PROVE  RequestInv'
<1> USE DEF RequestInv
<1>1. \A c \in Calls : InFlight(c)' => InFlight(c)
  BY DEF InFlight
<1>2. \A c \in Calls : InFlight(c) => session'[c] = session[c]
  BY DEF OneCopy, Unsent
<1>3. \A c \in Calls : InFlight(c) => pc'[c] \in {"waiting", "lost", "timeout"}
  <2> SUFFICES ASSUME NEW c \in Calls, InFlight(c)
               PROVE  pc'[c] \in {"waiting", "lost", "timeout"}
    OBVIOUS
  <2>1. pc[c] \in {"waiting", "lost", "timeout"} /\ executed[c] = 0
    BY DEF OneCopy
  <2>2. answer[c] \in {"none", "lost"}
    BY <2>1 DEF Truthful, TypeOK, ClientTypeOK
  <2> QED BY <2>1, <2>2 DEF Unsent
<1>4. OneCopy'
  BY <1>1, <1>2, <1>3 DEF OneCopy, InFlight
<1>5. ASSUME NEW c \in Calls
      PROVE  /\ executed'[c] \in {0, 1}
             /\ "ok" \in {answer'[c], pc'[c]} => executed'[c] = 1
             /\ "refused" \in {answer'[c], pc'[c]} => executed'[c] = 0 /\ ~InFlight(c)'
             /\ pc'[c] \in Unsent => executed'[c] = 0 /\ answer'[c] \in {"none", "lost"}
             /\ pc[c] \notin Unsent => pc'[c] \notin Unsent
  <2>1. /\ executed[c] \in {0, 1}
        /\ "ok" \in {answer[c], pc[c]} => executed[c] = 1
        /\ "refused" \in {answer[c], pc[c]} => executed[c] = 0 /\ ~InFlight(c)
        /\ pc[c] \in Unsent => executed[c] = 0 /\ answer[c] \in {"none", "lost"}
        /\ answer[c] \in {"none", "ok", "refused", "lost"}
    BY DEF Truthful, TypeOK, ClientTypeOK
  <2>2. InFlight(c)' => InFlight(c)
    BY <1>1
  <2> QED BY <2>1, <2>2 DEF Unsent
<1>6. Truthful'
  BY <1>1, <1>5, ResponseTypes DEF Truthful
<1> QED BY <1>4, <1>6

queueVars == <<inbox, outbound, toBlender, outbox, fromBlender, executed>>

\* A step of a caller or a connection task that touches no queue.
LEMMA QueuesUntouched ==
  ASSUME TypeOK, RequestInv, UNCHANGED queueVars,
         \A c \in Calls :
           /\ answer'[c] \in {answer[c], "lost"}
           /\ pc[c] \in Unsent => pc'[c] \in Unsent \cup {"lost"}
           /\ pc[c] \notin Unsent =>
                session'[c] = session[c] /\ pc'[c] \in {pc[c], answer[c], "timeout"} \ {"none"}
  PROVE  RequestInv'
<1>1. \A r \in Response : Responded(r)' => Responded(r)
  BY DEF queueVars, Responded
<1>2. Distinct(inbox) /\ \A s \in Sessions : Distinct(outbound[s]) /\ Distinct(toBlender[s])
  BY DEF RequestInv, OneCopy
<1> QED BY <1>1, <1>2, NothingAdded DEF queueVars

LEMMA CallerKeepsRequests ==
  ASSUME TypeOK, RequestInv, NEW c \in Calls, Caller(c), UNCHANGED addonVars
  PROVE  RequestInv'
<1> USE DEF addonVars, linkVars, taskVars, queueVars, Unsent
<1>0. pc \in [Calls -> CallerPc] /\ session \in [Calls -> Sessions \cup {None}]
      /\ answer \in [Calls -> {"none", "ok", "refused", "lost"}]
  BY DEF TypeOK, ClientTypeOK
<1>a. "none" \notin CallerPc
  BY DEF CallerPc, Outcome
<1>1. CASE Require(c)
  <2>1. /\ UNCHANGED <<queueVars, answer>>
        /\ \A d \in Calls \ {c} : pc'[d] = pc[d] /\ session'[d] = session[d]
    BY <1>0, <1>1 DEF Require
  <2>2. pc[c] = "idle" /\ pc'[c] \in {"bound", "notConnected"}
    BY <1>0, <1>1 DEF Require
  <2> QED BY <1>0, <1>a, <2>1, <2>2, QueuesUntouched
<1>2. CASE Register(c)
  <2>1. /\ UNCHANGED <<queueVars, answer>>
        /\ \A d \in Calls \ {c} : pc'[d] = pc[d] /\ session'[d] = session[d]
    BY <1>0, <1>2 DEF Register
  <2>2. pc[c] = "bound" /\ pc'[c] = "sending"
    BY <1>0, <1>2 DEF Register
  <2> QED BY <1>0, <1>a, <2>1, <2>2, QueuesUntouched
<1>3. CASE Send(c)
  <2> DEFINE s == session[c]
  <2>1. /\ pc[c] = "sending" /\ pc' = [pc EXCEPT ![c] = "waiting"]
        /\ outbound' = [outbound EXCEPT ![s] = Append(@, c)]
        /\ UNCHANGED <<inbox, toBlender, outbox, fromBlender, executed, session, answer>>
    BY <1>3 DEF Send
  <2>2. ~InFlight(c) /\ executed[c] = 0 /\ answer[c] \in {"none", "lost"}
    BY <2>1 DEF RequestInv, OneCopy, Truthful
  <2>3. \A t \in Sessions, d \in Calls :
          Queued(outbound'[t], d) <=> Queued(outbound[t], d) \/ (t = s /\ d = c)
    BY <2>1, QueuedAppend DEF TypeOK, ClientTypeOK
  <2>4. \A t \in Sessions : Distinct(outbound'[t])
    BY <2>1, <2>2, DistinctAppend DEF TypeOK, ClientTypeOK, RequestInv, OneCopy, InFlight
  <2>5. \A d \in Calls : InFlight(d)' => InFlight(d) \/ d = c
    BY <2>1, <2>3 DEF InFlight
  <2>6. OneCopy'
    BY <1>0, <2>1, <2>2, <2>3, <2>4, <2>5 DEF RequestInv, OneCopy, InFlight
  <2>7. \A r \in Response : Responded(r)' <=> Responded(r)
    BY <2>1 DEF Responded
  <2>8. Truthful'
    BY <1>0, <2>1, <2>2, <2>5, <2>7, ResponseTypes DEF RequestInv, Truthful
  <2> QED BY <2>6, <2>8 DEF RequestInv
<1>4. CASE SendFails(c)
  <2>1. /\ UNCHANGED <<queueVars, answer>>
        /\ \A d \in Calls \ {c} : pc'[d] = pc[d] /\ session'[d] = session[d]
    BY <1>0, <1>4 DEF SendFails
  <2>2. pc[c] = "sending" /\ pc'[c] = "lost"
    BY <1>0, <1>4 DEF SendFails
  <2> QED BY <1>0, <1>a, <2>1, <2>2, QueuesUntouched
<1>5. CASE Answered(c)
  <2>1. /\ UNCHANGED <<queueVars, answer>>
        /\ \A d \in Calls \ {c} : pc'[d] = pc[d] /\ session'[d] = session[d]
    BY <1>0, <1>5 DEF Answered
  <2>2. pc[c] = "waiting" /\ pc'[c] = answer[c] /\ answer[c] # "none" /\ session' = session
    BY <1>0, <1>5 DEF Answered
  <2> QED BY <1>0, <1>a, <2>1, <2>2, QueuesUntouched
<1>6. CASE TimesOut(c)
  <2>1. /\ UNCHANGED <<queueVars, answer>>
        /\ \A d \in Calls \ {c} : pc'[d] = pc[d] /\ session'[d] = session[d]
    BY <1>0, <1>6 DEF TimesOut
  <2>2. pc[c] = "waiting" /\ pc'[c] = "timeout" /\ session' = session
    BY <1>0, <1>6 DEF TimesOut
  <2> QED BY <1>0, <1>a, <2>1, <2>2, QueuesUntouched
<1> QED BY <1>1, <1>2, <1>3, <1>4, <1>5, <1>6 DEF Caller

LEMMA ConnectionKeepsRequests ==
  ASSUME TypeOK, RequestInv, NEW s \in Sessions, Connection(s), UNCHANGED addonVars
  PROVE  RequestInv'
<1> USE DEF addonVars, linkVars, taskVars, callerVars, queueVars
<1>0. /\ answer \in [Calls -> {"none", "ok", "refused", "lost"}]
      /\ pc \in [Calls -> CallerPc] /\ session \in [Calls -> Sessions \cup {None}]
      /\ outbound \in [Sessions -> Seq(Calls)] /\ toBlender \in [Sessions -> Seq(Calls)]
      /\ fromBlender \in [Sessions -> Seq(Response)]
  BY DEF TypeOK, ClientTypeOK, LinkTypeOK
<1>a. "none" \notin CallerPc
  BY DEF CallerPc, Outcome
<1>b. Distinct(inbox) /\ \A t \in Sessions : Distinct(outbound[t]) /\ Distinct(toBlender[t])
  BY DEF RequestInv, OneCopy
<1>1. CASE HandshakeFails(s)
  BY <1>0, <1>a, <1>1, QueuesUntouched DEF HandshakeFails
<1>2. CASE Install(s)
  BY <1>0, <1>a, <1>2, QueuesUntouched DEF Install
<1>3. CASE FailPrevious(s)
  BY <1>0, <1>a, <1>3, QueuesUntouched DEF FailPrevious, FailSession
<1>4. CASE ReceiveResponse(s)
  <2> DEFINE r == Head(fromBlender[s])
  <2>1. /\ fromBlender[s] # <<>> /\ fromBlender' = [fromBlender EXCEPT ![s] = Tail(@)]
        /\ answer' = answer \/ answer' = [answer EXCEPT ![r.call] = r.kind]
        /\ UNCHANGED <<inbox, outbound, toBlender, outbox, executed, pc, session>>
    BY <1>4 DEF ReceiveResponse
  <2>2. r \in Response /\ Responded(r) /\ r.call \in Calls /\ r.kind \in {"ok", "refused"}
    BY <1>0, <2>1, QueueTypes, QueuedTail, ResponseTypes DEF Responded
  <2>3. /\ r.kind = "ok" => executed[r.call] = 1
        /\ r.kind = "refused" => executed[r.call] = 0 /\ ~InFlight(r.call)
        /\ pc[r.call] \notin Unsent
    BY <2>2 DEF RequestInv, Truthful
  <2> HIDE DEF r
  <2>4. \A x \in Response : Responded(x)' => Responded(x)
    BY <1>0, <2>1, QueuedTail DEF Responded
  <2>5. \A c \in Calls : InFlight(c)' <=> InFlight(c)
    BY <2>1 DEF InFlight
  <2>6. OneCopy'
    BY <2>1, <2>5 DEF RequestInv, OneCopy, InFlight
  <2>7. ASSUME NEW c \in Calls
        PROVE  /\ answer'[c] = answer[c] \/ (c = r.call /\ answer'[c] = r.kind)
    BY <1>0, <2>1, <2>2
  <2>8. Truthful'
    BY <2>1, <2>2, <2>3, <2>4, <2>5, <2>7, ResponseTypes DEF RequestInv, Truthful
  <2> QED BY <2>6, <2>8 DEF RequestInv
<1>5. CASE PutBack(s)
  BY <1>0, <1>a, <1>5, QueuesUntouched DEF PutBack
<1>6. CASE ReadEnds(s)
  BY <1>0, <1>a, <1>6, QueuesUntouched DEF ReadEnds
<1>7. CASE ClearSlot(s)
  BY <1>0, <1>a, <1>7, QueuesUntouched DEF ClearSlot
<1>8. CASE FailEnded(s)
  BY <1>0, <1>a, <1>8, QueuesUntouched DEF FailEnded, FailSession
<1>9. ASSUME CloseWriter(s), UNCHANGED <<callerVars, answer, linkVars>>
      PROVE  RequestInv'
  <2>1. /\ outbound' = [outbound EXCEPT ![s] = <<>>]
        /\ UNCHANGED <<inbox, toBlender, outbox, fromBlender, executed, pc, session, answer>>
    BY <1>9 DEF CloseWriter
  <2>2. \A t \in Sessions : /\ outbound'[t] \in {outbound[t], <<>>}
    BY <1>0, <2>1
  <2>3. \A x \in Response : Responded(x)' => Responded(x)
    BY <2>1 DEF Responded
  <2> QED BY <1>0, <1>a, <1>b, <2>1, <2>2, <2>3, EmptyQueue, NothingAdded
<1>10. CASE Write(s)
  <2> DEFINE c == Head(outbound[s])
  <2>1. /\ outbound[s] # <<>> /\ outbound' = [outbound EXCEPT ![s] = Tail(@)]
        /\ UNCHANGED <<inbox, outbox, fromBlender, executed, pc, session, answer>>
        /\ \/ toBlender' = toBlender
           \/ toBlender' = [toBlender EXCEPT ![s] = Append(@, c)]
    BY <1>10 DEF Write
  <2>2. c \in Calls /\ Queued(outbound[s], c)
    BY <1>0, <2>1, QueueTypes, QueuedTail
  <2>3. /\ session[c] = s /\ InFlight(c) /\ ~Queued(toBlender[s], c) /\ ~Queued(inbox, c)
    BY <2>2 DEF RequestInv, OneCopy, InFlight
  <2>4. /\ Distinct(outbound'[s]) /\ ~Queued(outbound'[s], c)
        /\ \A d \in Calls : Queued(outbound'[s], d) => Queued(outbound[s], d)
        /\ \A t \in Sessions \ {s} : outbound'[t] = outbound[t] /\ toBlender'[t] = toBlender[t]
    BY <1>0, <1>b, <2>1, QueuedTail, DistinctTail
  <2>5. /\ Distinct(toBlender'[s])
        /\ \A d \in Calls : Queued(toBlender'[s], d) => Queued(toBlender[s], d) \/ d = c
    <3>1. CASE toBlender' = toBlender
      BY <1>b, <3>1
    <3>2. CASE toBlender' = [toBlender EXCEPT ![s] = Append(@, c)]
      <4>1. toBlender[s] \in Seq(Calls) /\ toBlender'[s] = Append(toBlender[s], c)
        BY <1>0, <3>2
      <4> QED BY <1>b, <2>2, <2>3, <4>1, QueuedAppend, DistinctAppend
    <3> QED BY <2>1, <3>1, <3>2
  <2> HIDE DEF c
  <2>6. \A d \in Calls : InFlight(d)' => InFlight(d)
    BY <2>1, <2>2, <2>3, <2>4, <2>5 DEF InFlight
  <2>7. \A d \in Calls, t \in Sessions :
          /\ Queued(outbound'[t], d) => Queued(outbound[t], d) /\ ~(t = s /\ d = c)
          /\ Queued(toBlender'[t], d) => Queued(toBlender[t], d) \/ (t = s /\ d = c)
    BY <2>4, <2>5
  <2>8. \A t \in Sessions : Distinct(outbound'[t]) /\ Distinct(toBlender'[t])
    BY <1>b, <2>4, <2>5
  <2>9. OneCopy'
    BY <2>1, <2>2, <2>3, <2>6, <2>7, <2>8 DEF RequestInv, OneCopy
  <2>10. \A x \in Response : Responded(x)' <=> Responded(x)
    BY <2>1 DEF Responded
  <2>11. Truthful'
    BY <2>1, <2>6, <2>10, ResponseTypes DEF RequestInv, Truthful
  <2> QED BY <2>9, <2>11 DEF RequestInv
<1> QED
  BY <1>1, <1>2, <1>3, <1>4, <1>5, <1>6, <1>7, <1>8, <1>9, <1>10
     DEF Connection, TaskAdvances, AbortWriter, WriteFails, WriteLoopEnds

LEMMA AddonKeepsRequests ==
  ASSUME TypeOK, RequestInv, Addon, UNCHANGED clientVars
  PROVE  RequestInv'
<1>0. /\ answer \in [Calls -> {"none", "ok", "refused", "lost"}]
      /\ pc \in [Calls -> CallerPc] /\ session \in [Calls -> Sessions \cup {None}]
      /\ outbound \in [Sessions -> Seq(Calls)] /\ toBlender \in [Sessions -> Seq(Calls)]
      /\ fromBlender \in [Sessions -> Seq(Response)]
      /\ inbox \in Seq(Calls) /\ outbox \in Seq(Response) /\ executed \in [Calls -> Nat]
      /\ UNCHANGED <<pc, session, answer, outbound>>
  BY DEF TypeOK, ClientTypeOK, LinkTypeOK, AddonTypeOK, clientVars
<1>a. "none" \notin CallerPc
  BY DEF CallerPc, Outcome
<1>b. Distinct(inbox) /\ \A t \in Sessions : Distinct(outbound[t]) /\ Distinct(toBlender[t])
  BY DEF RequestInv, OneCopy
<1>c. ASSUME NEW c \in Calls, NEW k \in {"ok", "refused"}, Post([call |-> c, kind |-> k]),
             NEW x \in Response, Queued(outbox', x)
      PROVE  Queued(outbox, x) \/ x = [call |-> c, kind |-> k]
  <2> DEFINE r == [call |-> c, kind |-> k]
  <2>1. r \in Response /\ outbox' \in {outbox, Append(outbox, r)}
    BY <1>c, ResponseTypes DEF Post
  <2> HIDE DEF r
  <2>2. Queued(outbox, x) \/ x = r
    BY <1>0, <1>c, <2>1, QueuedAppend
  <2> QED BY <2>2 DEF r
<1>1. CASE Stop
  <2>1. /\ \A t \in Sessions : toBlender'[t] \in {toBlender[t], <<>>}
        /\ inbox' = <<>> /\ outbox' = <<>> /\ UNCHANGED <<fromBlender, executed>>
    BY <1>0, <1>1 DEF Stop
  <2>2. \A x \in Response : Responded(x)' => Responded(x)
    BY <2>1, EmptyQueue DEF Responded
  <2> QED BY <1>0, <1>a, <1>b, <2>1, <2>2, EmptyQueue, NothingAdded
<1>2. CASE Pump
  <2>0. PICK c \in Calls : c = Head(inbox)
    BY <1>0, <1>2, QueueTypes DEF Pump
  <2> DEFINE r == [call |-> c, kind |-> "ok"]
  <2>1. /\ inbox # <<>> /\ inbox' = Tail(inbox) /\ executed' = [executed EXCEPT ![c] = @ + 1]
        /\ Post(r) /\ UNCHANGED <<toBlender, fromBlender>>
    BY <1>2, <2>0 DEF Pump, linkVars
  <2>2. /\ c \in Calls /\ Queued(inbox, c) /\ Distinct(inbox') /\ ~Queued(inbox', c)
        /\ \A d \in Calls : Queued(inbox', d) => Queued(inbox, d)
    BY <1>0, <1>b, <2>0, <2>1, QueuedTail, DistinctTail
  <2>3. /\ executed[c] = 0 /\ pc[c] \in {"waiting", "lost", "timeout"}
        /\ \A t \in Sessions : ~Queued(outbound[t], c) /\ ~Queued(toBlender[t], c)
    BY <2>2 DEF RequestInv, OneCopy, InFlight
  <2>4. \A x \in Response : Responded(x)' => Responded(x) \/ x = r
    BY <1>c, <2>1, <2>2 DEF Responded
  <2>5. ~InFlight(c)' /\ \A d \in Calls : InFlight(d)' => InFlight(d)
    BY <1>0, <2>1, <2>2, <2>3 DEF InFlight
  <2>6. executed'[c] = 1 /\ \A d \in Calls \ {c} : executed'[d] = executed[d]
    BY <1>0, <2>1, <2>2, <2>3
  <2>7. OneCopy'
    BY <1>0, <1>b, <2>1, <2>2, <2>5, <2>6 DEF RequestInv, OneCopy
  <2>8. Truthful'
    <3>1. ASSUME NEW x \in Response, Responded(x)'
          PROVE  /\ x.kind = "ok" => executed'[x.call] = 1
                 /\ x.kind = "refused" => executed'[x.call] = 0 /\ ~InFlight(x.call)'
                 /\ pc'[x.call] \notin Unsent
      <4>1. CASE x = r
        BY <1>0, <2>2, <2>3, <2>6, <4>1 DEF Unsent
      <4>2. CASE Responded(x)
        <5>1. /\ x.call \in Calls
              /\ x.kind = "ok" => executed[x.call] = 1
              /\ x.kind = "refused" => executed[x.call] = 0 /\ ~InFlight(x.call)
              /\ pc[x.call] \notin Unsent
          BY <4>2, ResponseTypes DEF RequestInv, Truthful
        <5>2. InFlight(c)
          BY <2>2 DEF InFlight
        <5> QED BY <1>0, <2>3, <2>5, <2>6, <5>1, <5>2
      <4> QED BY <2>4, <3>1, <4>1, <4>2
    <3>2. ASSUME NEW d \in Calls
          PROVE  /\ executed'[d] \in {0, 1}
                 /\ "ok" \in {answer'[d], pc'[d]} => executed'[d] = 1
                 /\ "refused" \in {answer'[d], pc'[d]} => executed'[d] = 0 /\ ~InFlight(d)'
                 /\ pc'[d] \in Unsent => executed'[d] = 0 /\ answer'[d] \in {"none", "lost"}
      <4>1. InFlight(c)
        BY <2>2 DEF InFlight
      <4>2. /\ executed[d] \in {0, 1}
            /\ "ok" \in {answer[d], pc[d]} => executed[d] = 1
            /\ "refused" \in {answer[d], pc[d]} => executed[d] = 0 /\ ~InFlight(d)
            /\ pc[d] \in Unsent => executed[d] = 0 /\ answer[d] \in {"none", "lost"}
        BY DEF RequestInv, Truthful
      <4> QED BY <1>0, <2>2, <2>3, <2>5, <2>6, <4>1, <4>2 DEF Unsent
    <3> QED BY <3>1, <3>2 DEF Truthful
  <2> QED BY <2>7, <2>8 DEF RequestInv
<1>3. ASSUME NEW s \in Sessions, ReadRequest(s) PROVE RequestInv'
  <2> DEFINE c == Head(toBlender[s])
  <2>1. /\ toBlender[s] # <<>> /\ toBlender' = [toBlender EXCEPT ![s] = Tail(@)]
        /\ inbox' = Append(inbox, c) /\ UNCHANGED <<fromBlender, outbox, executed>>
    BY <1>3 DEF ReadRequest
  <2>2. c \in Calls /\ Queued(toBlender[s], c)
    BY <1>0, <2>1, QueueTypes, QueuedTail
  <2>3. session[c] = s /\ ~Queued(inbox, c) /\ \A t \in Sessions : ~Queued(outbound[t], c)
    BY <2>2 DEF RequestInv, OneCopy
  <2>4. /\ Distinct(toBlender'[s]) /\ ~Queued(toBlender'[s], c)
        /\ \A d \in Calls : Queued(toBlender'[s], d) => Queued(toBlender[s], d)
        /\ \A t \in Sessions \ {s} : toBlender'[t] = toBlender[t]
    BY <1>0, <1>b, <2>1, QueuedTail, DistinctTail
  <2>5. Distinct(inbox') /\ \A d \in Calls : Queued(inbox', d) <=> Queued(inbox, d) \/ d = c
    BY <1>0, <1>b, <2>1, <2>2, <2>3, QueuedAppend, DistinctAppend
  <2> HIDE DEF c
  <2>6. \A d \in Calls : InFlight(d)' => InFlight(d)
    BY <1>0, <2>2, <2>4, <2>5 DEF InFlight
  <2>7. \A t \in Sessions : ~Queued(toBlender'[t], c)
    BY <2>2, <2>3, <2>4 DEF RequestInv, OneCopy
  <2>8. \A d \in Calls, t \in Sessions : Queued(toBlender'[t], d) => Queued(toBlender[t], d)
    BY <2>4
  <2>9. OneCopy'
    BY <1>0, <1>b, <2>1, <2>3, <2>4, <2>5, <2>6, <2>7, <2>8 DEF RequestInv, OneCopy
  <2>10. \A x \in Response : Responded(x)' <=> Responded(x)
    BY <2>1 DEF Responded
  <2>11. Truthful'
    BY <1>0, <2>1, <2>6, <2>10, ResponseTypes DEF RequestInv, Truthful
  <2> QED BY <2>9, <2>11 DEF RequestInv
<1>4. ASSUME NEW s \in Sessions, RefuseRequest(s) PROVE RequestInv'
  <2>0. PICK c \in Calls : c = Head(toBlender[s])
    BY <1>0, <1>4, QueueTypes DEF RefuseRequest
  <2> DEFINE r == [call |-> c, kind |-> "refused"]
  <2>1. /\ toBlender[s] # <<>> /\ toBlender' = [toBlender EXCEPT ![s] = Tail(@)]
        /\ Post(r) /\ UNCHANGED <<fromBlender, inbox, executed>>
    BY <1>4, <2>0 DEF RefuseRequest
  <2>2. Queued(toBlender[s], c)
    BY <1>0, <2>0, <2>1, QueuedTail
  <2>3. /\ session[c] = s /\ ~Queued(inbox, c) /\ executed[c] = 0
        /\ pc[c] \in {"waiting", "lost", "timeout"}
        /\ \A t \in Sessions : ~Queued(outbound[t], c)
        /\ \A t \in Sessions : t # s => ~Queued(toBlender[t], c)
    BY <2>2 DEF RequestInv, OneCopy, InFlight
  <2>4. /\ Distinct(toBlender'[s]) /\ ~Queued(toBlender'[s], c)
        /\ \A d \in Calls : Queued(toBlender'[s], d) => Queued(toBlender[s], d)
        /\ \A t \in Sessions \ {s} : toBlender'[t] = toBlender[t]
    BY <1>0, <1>b, <2>0, <2>1, QueuedTail, DistinctTail
  <2>5. \A x \in Response : Responded(x)' => Responded(x) \/ x = r
    BY <1>c, <2>1, <2>2 DEF Responded
  <2>6. ~InFlight(c)' /\ \A d \in Calls : InFlight(d)' => InFlight(d)
    BY <1>0, <2>1, <2>2, <2>3, <2>4 DEF InFlight
  <2>7. \A d \in Calls, t \in Sessions : Queued(toBlender'[t], d) => Queued(toBlender[t], d)
    BY <2>4
  <2>8. OneCopy'
    BY <1>0, <1>b, <2>1, <2>4, <2>6, <2>7 DEF RequestInv, OneCopy
  <2>9. Truthful'
    <3>1. ASSUME NEW x \in Response, Responded(x)'
          PROVE  /\ x.kind = "ok" => executed'[x.call] = 1
                 /\ x.kind = "refused" => executed'[x.call] = 0 /\ ~InFlight(x.call)'
                 /\ pc'[x.call] \notin Unsent
      <4>1. CASE x = r
        BY <1>0, <2>1, <2>2, <2>3, <2>6, <4>1 DEF Unsent
      <4>2. CASE Responded(x)
        BY <1>0, <2>1, <2>6, <4>2, ResponseTypes DEF RequestInv, Truthful
      <4> QED BY <2>5, <3>1, <4>1, <4>2
    <3> QED BY <1>0, <2>1, <2>6, <3>1 DEF RequestInv, Truthful
  <2> QED BY <2>8, <2>9 DEF RequestInv
<1>5. ASSUME NEW s \in Sessions, Drop(s) PROVE RequestInv'
  <2>1. /\ \A t \in Sessions : toBlender'[t] \in {toBlender[t], <<>>}
        /\ UNCHANGED <<fromBlender, inbox, outbox, executed>>
    BY <1>0, <1>5 DEF Drop
  <2>2. \A x \in Response : Responded(x)' => Responded(x)
    BY <2>1 DEF Responded
  <2> QED BY <1>0, <1>a, <1>b, <2>1, <2>2, EmptyQueue, NothingAdded
<1>6. ASSUME NEW s \in Sessions, WriterSends(s) PROVE RequestInv'
  <2> DEFINE r == Head(outbox)
  <2>1. /\ outbox # <<>> /\ outbox' = Tail(outbox)
        /\ fromBlender' = [fromBlender EXCEPT ![s] = Append(@, r)]
        /\ UNCHANGED <<toBlender, inbox, executed>>
    BY <1>6 DEF WriterSends
  <2>2. /\ r \in Response /\ Queued(outbox, r)
        /\ \A x \in Response : Queued(outbox', x) => Queued(outbox, x)
    BY <1>0, <2>1, QueueTypes, QueuedTail
  <2>3. \A x \in Response, t \in Sessions :
          Queued(fromBlender'[t], x) => Queued(fromBlender[t], x) \/ x = r
    BY <1>0, <2>1, <2>2, QueuedAppend
  <2> HIDE DEF r
  <2>4. \A x \in Response : Responded(x)' => Responded(x)
    BY <2>2, <2>3 DEF Responded
  <2> QED BY <1>0, <1>a, <1>b, <2>1, <2>4, NothingAdded
<1>7. ASSUME NEW s \in Sessions, WriterFails(s) PROVE RequestInv'
  <2>1. /\ outbox # <<>> /\ outbox' = Tail(outbox)
        /\ UNCHANGED <<toBlender, fromBlender, inbox, executed>>
    BY <1>7 DEF WriterFails, linkVars
  <2>2. \A x \in Response : Responded(x)' => Responded(x)
    BY <1>0, <2>1, QueuedTail DEF Responded
  <2> QED BY <1>0, <1>a, <1>b, <2>1, <2>2, NothingAdded
<1> QED BY <1>1, <1>2, <1>3, <1>4, <1>5, <1>6, <1>7 DEF Addon

LEMMA RequestNext == TypeOK /\ RequestInv /\ [Next]_vars => RequestInv'
<1> SUFFICES ASSUME TypeOK, RequestInv, [Next]_vars PROVE RequestInv'
  OBVIOUS
<1>0. answer \in [Calls -> {"none", "ok", "refused", "lost"}] /\ pc \in [Calls -> CallerPc]
      /\ "none" \notin CallerPc
  BY DEF TypeOK, ClientTypeOK, CallerPc, Outcome
<1>1. CASE CallerStep
  BY <1>1, CallerKeepsRequests DEF CallerStep
<1>2. CASE ConnectionStep
  BY <1>2, ConnectionKeepsRequests DEF ConnectionStep
<1>3. CASE AddonStep
  BY <1>3, AddonKeepsRequests DEF AddonStep
<1>4. ASSUME NEW s \in Sessions, Connect(s) PROVE RequestInv'
  <2>1. UNCHANGED queueVars /\ UNCHANGED <<pc, session, answer>>
    BY <1>4 DEF Connect, Accept, Dial, callerVars, queueVars
  <2> QED BY <1>0, <2>1, QueuesUntouched
<1>5. CASE UNCHANGED vars
  <2>1. UNCHANGED queueVars /\ UNCHANGED <<pc, session, answer>>
    BY <1>5 DEF vars, clientVars, addonVars, linkVars, queueVars
  <2> QED BY <1>0, <2>1, QueuesUntouched
<1> QED BY <1>1, <1>2, <1>3, <1>4, <1>5 DEF Next, ConnectStep

(* A request is never duplicated, and no answer about it is false: in every reachable
   state it exists at most once, Blender runs it at most once, and a result or a
   refusal is only ever reported truthfully (client.rs, execute; dispatcher.py, pump). *)
THEOREM RequestsSafe == Safety => []RequestInv
BY TypeInit, TypeNext, RequestInit, RequestNext, PTL DEF Safety

-----------------------------------------------------------------------------
(* Refinement: the bridge keeps the promise of RequestReply *)

statusOf == [c \in Calls |-> IF pc[c] \in {"bound", "sending", "waiting"} THEN "open" ELSE pc[c]]

LEMMA PromiseInit == Init => Promise!Init
BY DEF Init, ClientInit, AddonInit, Promise!Init

\* A caller's step issues the request, finishes it, or is not visible.
LEMMA CallerPromise ==
  ASSUME TypeOK, RequestInv, NEW c \in Calls, Caller(c), UNCHANGED addonVars
  PROVE  [Promise!Next]_(Promise!vars)
<1>0. /\ pc \in [Calls -> CallerPc] /\ UNCHANGED executed
      /\ answer[c] \in {"none", "ok", "refused", "lost"}
  BY DEF TypeOK, ClientTypeOK, addonVars
<1>1. ASSUME pc[c] \in {"bound", "sending"},
             pc' = [pc EXCEPT ![c] = "sending"] \/ pc' = [pc EXCEPT ![c] = "waiting"]
      PROVE  UNCHANGED Promise!vars
  BY <1>0, <1>1 DEF Promise!vars
<1>2. ASSUME NEW o \in {"open", "notConnected"}, pc[c] = "idle", NEW p,
             pc' = [pc EXCEPT ![c] = p],
             o = IF p \in {"bound", "sending", "waiting"} THEN "open" ELSE p
      PROVE  Promise!Issue(c)
  <2>1. statusOf' = [statusOf EXCEPT ![c] = o] /\ statusOf[c] = "idle"
    BY <1>0, <1>2 DEF statusOf
  <2> QED BY <1>0, <2>1 DEF Promise!Issue, statusOf
<1>3. ASSUME NEW o \in {"ok", "refused", "lost", "timeout"}, pc[c] \in {"sending", "waiting"},
             pc' = [pc EXCEPT ![c] = o],
             o = "ok" => executed[c] = 1,
             o = "refused" => executed[c] = 0
      PROVE  Promise!Finish(c)
  <2>1. statusOf' = [statusOf EXCEPT ![c] = o] /\ statusOf[c] = "open"
    BY <1>0, <1>3 DEF statusOf
  <2> QED BY <1>0, <1>3, <2>1 DEF Promise!Finish, Promise!Unknown, statusOf
<1>4. CASE Require(c)
  <2>1. pc[c] = "idle" /\ (\/ pc' = [pc EXCEPT ![c] = "notConnected"]
                           \/ pc' = [pc EXCEPT ![c] = "bound"])
    BY <1>4 DEF Require
  <2> QED BY <1>2, <2>1 DEF Promise!Next
<1>5. CASE Register(c)
  BY <1>1, <1>5 DEF Register
<1>6. CASE Send(c)
  BY <1>1, <1>6 DEF Send
<1>7. CASE SendFails(c)
  <2>1. pc[c] = "sending" /\ pc' = [pc EXCEPT ![c] = "lost"]
    BY <1>7 DEF SendFails
  <2> QED BY <1>3, <2>1 DEF Promise!Next
<1>8. CASE Answered(c)
  <2>1. pc[c] = "waiting" /\ pc' = [pc EXCEPT ![c] = answer[c]] /\ answer[c] # "none"
    BY <1>8 DEF Answered
  <2>2. /\ answer[c] = "ok" => executed[c] = 1
        /\ answer[c] = "refused" => executed[c] = 0
    BY DEF RequestInv, Truthful
  <2> QED BY <1>0, <1>3, <2>1, <2>2 DEF Promise!Next
<1>9. CASE TimesOut(c)
  <2>1. pc[c] = "waiting" /\ pc' = [pc EXCEPT ![c] = "timeout"]
    BY <1>9 DEF TimesOut
  <2> QED BY <1>3, <2>1 DEF Promise!Next
<1> QED BY <1>4, <1>5, <1>6, <1>7, <1>8, <1>9 DEF Caller

\* An add-on step runs one request, or is not visible.
LEMMA AddonPromise ==
  ASSUME TypeOK, RequestInv, Addon, UNCHANGED clientVars
  PROVE  [Promise!Next]_(Promise!vars)
<1>0. pc \in [Calls -> CallerPc] /\ executed \in [Calls -> Nat] /\ inbox \in Seq(Calls)
      /\ UNCHANGED pc
  BY DEF TypeOK, ClientTypeOK, AddonTypeOK, clientVars
<1>1. CASE Pump
  <2>1. PICK c \in Calls : c = Head(inbox) /\ Queued(inbox, c)
    BY <1>0, <1>1, QueueTypes, QueuedTail DEF Pump
  <2>2. executed[c] = 0 /\ pc[c] \in {"waiting", "lost", "timeout"}
    BY <2>1 DEF RequestInv, OneCopy, InFlight
  <2>3. executed' = [executed EXCEPT ![c] = 1]
    BY <1>0, <1>1, <2>1, <2>2 DEF Pump
  <2>4. statusOf[c] \in {"open", "lost", "timeout"} /\ UNCHANGED statusOf
    BY <1>0, <2>2 DEF statusOf
  <2> QED BY <2>2, <2>3, <2>4 DEF Promise!Next, Promise!Run, Promise!Unknown, statusOf
<1>2. CASE ~Pump
  <2>1. UNCHANGED executed
    BY <1>2 DEF Addon, Stop, ReadRequest, RefuseRequest, Drop, WriterSends, WriterFails
  <2> QED BY <1>0, <2>1 DEF Promise!vars
<1> QED BY <1>1, <1>2

LEMMA PromiseNext == TypeOK /\ RequestInv /\ [Next]_vars => [Promise!Next]_(Promise!vars)
<1> SUFFICES ASSUME TypeOK, RequestInv, [Next]_vars PROVE [Promise!Next]_(Promise!vars)
  OBVIOUS
<1>1. CASE CallerStep
  BY <1>1, CallerPromise DEF CallerStep
<1>2. ASSUME NEW s \in Sessions, Connection(s), UNCHANGED addonVars
      PROVE  UNCHANGED <<pc, executed>>
  BY <1>2 DEF Connection, TaskAdvances, HandshakeFails, Install, FailPrevious, ReceiveResponse,
              PutBack, ReadEnds, ClearSlot, FailEnded, AbortWriter, Write, WriteFails,
              WriteLoopEnds, addonVars, callerVars
<1>3. CASE AddonStep
  BY <1>3, AddonPromise DEF AddonStep
<1>4. ASSUME NEW s \in Sessions, Connect(s) PROVE UNCHANGED <<pc, executed>>
  BY <1>4 DEF Connect, Accept, Dial, callerVars
<1>5. CASE UNCHANGED vars
  BY <1>5 DEF vars, clientVars, addonVars, Promise!vars
<1>6. ASSUME UNCHANGED <<pc, executed>> PROVE UNCHANGED Promise!vars
  BY <1>6 DEF Promise!vars
<1> QED BY <1>1, <1>2, <1>3, <1>4, <1>5, <1>6 DEF Next, ConnectionStep, ConnectStep

(* The bridge implements RequestReply: for any number of callers, connections and
   queue sizes, each operation is run at most once and its caller is told the truth,
   whatever connections are lost, replaced or restarted (client.rs, execute). *)
THEOREM Refines == Safety => KeepsPromise
<1>1. Safety => [](TypeOK /\ RequestInv)
  BY TypeInit, TypeNext, RequestInit, RequestNext, PTL DEF Safety
<1> QED BY <1>1, PromiseInit, PromiseNext, PTL DEF Safety, KeepsPromise, Promise!Spec
=============================================================================
