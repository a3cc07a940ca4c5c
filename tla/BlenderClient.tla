--------------------------- MODULE BlenderClient ----------------------------
(***************************************************************************)
(* The server's side of the bridge (crates/blender-client): the callers of *)
(* BlenderClient::execute, the registry of pending requests, the session   *)
(* slot, and for every connection the task that runs handle_connection and *)
(* the write task it spawns.  Tokio runs all of them concurrently, so each *)
(* action is the code between two points where another task may step in:   *)
(* an await, or the release of a lock.                                     *)
(***************************************************************************)
EXTENDS Link

CONSTANT OutboundQueue   \* Config::outbound_queue, the bound of each session's channel

ASSUME OutboundAssumption == OutboundQueue \in Nat \ {0}

VARIABLES
  slot,       \* SessionSlot.current
  pending,    \* PendingRequests: the session of each call's entry, None if it has none
  task,       \* where each connection's handle_connection stands
  superseded, \* per connection task, the session that its slot.replace returned
  held,       \* per connection task, the call whose entry complete() has taken out
  writer,     \* the write task of each connection
  outbound,   \* the channel that feeds it
  pc,         \* where each caller stands, or what execute returned to it
  session,    \* the session handle each caller has cloned out of the slot
  answer      \* what has been sent on each caller's oneshot channel

clientVars == <<slot, pending, task, superseded, held, writer, outbound,
                pc, session, answer>>
callerVars == <<pc, session>>
taskVars   == <<task, superseded, held>>

Outcome  == {"ok", "refused", "lost", "timeout", "notConnected"}
CallerPc == {"idle", "bound", "sending", "waiting"} \cup Outcome
TaskPc   == {"free", "handshake", "failPrevious", "reading", "ended",
             "failing", "aborting", "closed"}

ClientTypeOK ==
  /\ slot \in Sessions \cup {None}
  /\ pending \in [Calls -> Sessions \cup {None}]
  /\ task \in [Sessions -> TaskPc]
  /\ superseded \in [Sessions -> Sessions \cup {None}]
  /\ held \in [Sessions -> Calls \cup {None}]
  /\ writer \in [Sessions -> {"none", "running", "gone"}]
  /\ outbound \in [Sessions -> Seq(Calls)]
  /\ pc \in [Calls -> CallerPc]
  /\ session \in [Calls -> Sessions \cup {None}]
  /\ answer \in [Calls -> {"none", "ok", "refused", "lost"}]

ClientInit ==
  /\ slot = None
  /\ pending = [c \in Calls |-> None]
  /\ task = [s \in Sessions |-> "free"]
  /\ superseded = [s \in Sessions |-> None]
  /\ held = [s \in Sessions |-> None]
  /\ writer = [s \in Sessions |-> "none"]
  /\ outbound = [s \in Sessions |-> <<>>]
  /\ pc = [c \in Calls |-> "idle"]
  /\ session = [c \in Calls |-> None]
  /\ answer = [c \in Calls |-> "none"]

-----------------------------------------------------------------------------
(* PendingRequests *)

FailSession(s) ==
  /\ pending' = [c \in Calls |-> IF pending[c] = s THEN None ELSE pending[c]]
  /\ answer' = [c \in Calls |-> IF pending[c] = s THEN "lost" ELSE answer[c]]

Cancel(c) == pending' = [pending EXCEPT ![c] = None]

-----------------------------------------------------------------------------
(* The callers: BlenderClient::execute *)

Require(c) ==
  /\ pc[c] = "idle"
  /\ IF slot = None
       THEN /\ pc' = [pc EXCEPT ![c] = "notConnected"]
            /\ UNCHANGED session
       ELSE /\ pc' = [pc EXCEPT ![c] = "bound"]
            /\ session' = [session EXCEPT ![c] = slot]
  /\ UNCHANGED <<slot, pending, taskVars, writer, outbound, answer, linkVars>>

Register(c) ==
  /\ pc[c] = "bound"
  /\ pending' = [pending EXCEPT ![c] = session[c]]
  /\ pc' = [pc EXCEPT ![c] = "sending"]
  /\ UNCHANGED <<slot, taskVars, writer, outbound, session, answer, linkVars>>

\* A full channel makes session.send wait; the deadline does not cover this await.
Send(c) ==
  LET s == session[c] IN
  /\ pc[c] = "sending"
  /\ writer[s] = "running"
  /\ Len(outbound[s]) < OutboundQueue
  /\ outbound' = [outbound EXCEPT ![s] = Append(@, c)]
  /\ pc' = [pc EXCEPT ![c] = "waiting"]
  /\ UNCHANGED <<slot, pending, taskVars, writer, session, answer, linkVars>>

SendFails(c) ==
  /\ pc[c] = "sending"
  /\ writer[session[c]] = "gone"
  /\ Cancel(c)
  /\ pc' = [pc EXCEPT ![c] = "lost"]
  /\ UNCHANGED <<slot, taskVars, writer, outbound, session, answer, linkVars>>

\* Mutant: the caller looks at its oneshot channel without waiting for it.
AnsweredAtOnce(c) ==
  /\ pc[c] = "waiting"
  /\ pc' = [pc EXCEPT ![c] = answer[c]]
  /\ UNCHANGED <<slot, pending, taskVars, writer, outbound, session, answer, linkVars>>

Answered(c) ==
  /\ pc[c] = "waiting"
  /\ answer[c] # "none"
  /\ pc' = [pc EXCEPT ![c] = answer[c]]
  /\ UNCHANGED <<slot, pending, taskVars, writer, outbound, session, answer, linkVars>>

\* Mutant: a request that timed out is sent again.
TimesOutAndRetries(c) ==
  /\ pc[c] = "waiting"
  /\ answer[c] = "none"
  /\ pc' = [pc EXCEPT ![c] = "sending"]
  /\ UNCHANGED <<slot, pending, taskVars, writer, outbound, session, answer, linkVars>>

TimesOut(c) ==
  /\ pc[c] = "waiting"
  /\ answer[c] = "none"
  /\ Cancel(c)
  /\ pc' = [pc EXCEPT ![c] = "timeout"]
  /\ UNCHANGED <<slot, taskVars, writer, outbound, session, answer, linkVars>>

-----------------------------------------------------------------------------
(* The connection tasks: handle_connection and read_loop *)

Accept(s) ==
  /\ task[s] = "free"
  /\ task' = [task EXCEPT ![s] = "handshake"]
  /\ UNCHANGED <<slot, pending, superseded, held, writer, outbound, callerVars, answer>>

\* Refused, timed out, or the peer hung up: `?` returns before the slot is touched.
HandshakeFails(s) ==
  /\ task[s] = "handshake"
  /\ task' = [task EXCEPT ![s] = "closed"]
  /\ UNCHANGED <<slot, pending, superseded, held, writer, outbound, callerVars, answer, linkVars>>

Install(s) ==
  /\ task[s] = "handshake"
  /\ slot' = s
  /\ superseded' = [superseded EXCEPT ![s] = slot]
  /\ task' = [task EXCEPT ![s] = IF slot = None THEN "reading" ELSE "failPrevious"]
  /\ writer' = [writer EXCEPT ![s] = "running"]
  /\ UNCHANGED <<pending, held, outbound, callerVars, answer, linkVars>>

FailPrevious(s) ==
  /\ task[s] = "failPrevious"
  /\ FailSession(superseded[s])
  /\ task' = [task EXCEPT ![s] = "reading"]
  /\ UNCHANGED <<slot, superseded, held, writer, outbound, callerVars, linkVars>>

\* PendingRequests::complete, up to the release of its first lock.
ReceiveResponse(s) ==
  /\ task[s] = "reading" /\ held[s] = None
  /\ fromBlender[s] # <<>>
  /\ fromBlender' = [fromBlender EXCEPT ![s] = Tail(@)]
  /\ LET r == Head(fromBlender[s]) IN
       /\ pending' = [pending EXCEPT ![r.call] = None]
       /\ IF pending[r.call] = s
            THEN answer' = [answer EXCEPT ![r.call] = r.kind]
            ELSE UNCHANGED answer
       /\ IF pending[r.call] \in {s, None}
            THEN UNCHANGED held
            ELSE held' = [held EXCEPT ![s] = r.call]
  /\ UNCHANGED <<slot, task, superseded, writer, outbound, callerVars, link, toBlender>>

\* Mutant: an answer that came on the wrong session loses the entry it took out.
PutBackForgotten(s) ==
  /\ held[s] # None
  /\ held' = [held EXCEPT ![s] = None]
  /\ UNCHANGED <<slot, pending, task, superseded, writer, outbound, callerVars, answer, linkVars>>

\* The second lock: an answer that came on the wrong session leaves the entry in place.
PutBack(s) ==
  /\ held[s] # None
  /\ pending' = [pending EXCEPT ![held[s]] = session[held[s]]]
  /\ held' = [held EXCEPT ![s] = None]
  /\ UNCHANGED <<slot, task, superseded, writer, outbound, callerVars, answer, linkVars>>

\* End of stream, a broken socket, an unusable frame or a Fatal from the add-on.
ReadEnds(s) ==
  /\ task[s] = "reading" /\ held[s] = None
  /\ task' = [task EXCEPT ![s] = "ended"]
  /\ UNCHANGED <<slot, pending, superseded, held, writer, outbound, callerVars, answer, linkVars>>

\* Mutant: the slot is emptied without a look at whose session is in it.
ClearSlotUnchecked(s) ==
  /\ task[s] = "ended"
  /\ slot' = None
  /\ task' = [task EXCEPT ![s] = "failing"]
  /\ UNCHANGED <<pending, superseded, held, writer, outbound, callerVars, answer, linkVars>>

ClearSlot(s) ==
  /\ task[s] = "ended"
  /\ IF slot = s
       THEN slot' = None /\ task' = [task EXCEPT ![s] = "failing"]
       ELSE UNCHANGED slot /\ task' = [task EXCEPT ![s] = "aborting"]
  /\ UNCHANGED <<pending, superseded, held, writer, outbound, callerVars, answer, linkVars>>

FailEnded(s) ==
  /\ task[s] = "failing"
  /\ FailSession(s)
  /\ task' = [task EXCEPT ![s] = "aborting"]
  /\ UNCHANGED <<slot, superseded, held, writer, outbound, callerVars, linkVars>>

CloseWriter(s) ==
  /\ writer' = [writer EXCEPT ![s] = "gone"]
  /\ outbound' = [outbound EXCEPT ![s] = <<>>]

\* Mutant: the task ends and leaves its write task, and so the channel, alive.
AbortWriterForgotten(s) ==
  /\ task[s] = "aborting"
  /\ task' = [task EXCEPT ![s] = "closed"]
  /\ UNCHANGED <<slot, pending, superseded, held, writer, outbound, callerVars, answer, linkVars>>

AbortWriter(s) ==
  /\ task[s] = "aborting"
  /\ CloseWriter(s)
  /\ task' = [task EXCEPT ![s] = "closed"]
  /\ UNCHANGED <<slot, pending, superseded, held, callerVars, answer, linkVars>>

-----------------------------------------------------------------------------
(* The write tasks: write_loop *)

\* The write task is spawned once the superseded session has been failed.
Spawned(s) == writer[s] = "running" /\ task[s] # "failPrevious"

\* What is written to a connection the add-on has left goes nowhere.
Write(s) ==
  /\ Spawned(s)
  /\ outbound[s] # <<>>
  /\ outbound' = [outbound EXCEPT ![s] = Tail(@)]
  /\ toBlender' = IF link = s
                    THEN [toBlender EXCEPT ![s] = Append(@, Head(outbound[s]))]
                    ELSE toBlender
  /\ UNCHANGED <<slot, pending, taskVars, writer, callerVars, answer, link, fromBlender>>

\* A broken socket, or a frame over the size limit.
WriteFails(s) ==
  /\ Spawned(s)
  /\ outbound[s] # <<>>
  /\ CloseWriter(s)
  /\ UNCHANGED <<slot, pending, taskVars, callerVars, answer, linkVars>>

\* Mutant: the connection task keeps a handle of its own.
HasSenderInTask(s) ==
  \/ slot = s
  \/ task[s] # "closed"
  \/ \E c \in Calls : session[c] = s /\ pc[c] \notin Outcome

\* Senders of the channel: the handle in the slot, the one that slot.replace returned
\* until its session has been failed, and every caller's clone.
HasSender(s) ==
  \/ slot = s
  \/ \E t \in Sessions : task[t] = "failPrevious" /\ superseded[t] = s
  \/ \E c \in Calls : session[c] = s /\ pc[c] \notin Outcome

WriteLoopEnds(s) ==
  /\ Spawned(s)
  /\ outbound[s] = <<>>
  /\ ~HasSender(s)
  /\ CloseWriter(s)
  /\ UNCHANGED <<slot, pending, taskVars, callerVars, answer, linkVars>>

\* The server's end of the connection is shut: the add-on reads end of stream.
Shut(s) == writer[s] = "gone" \/ task[s] = "closed"

-----------------------------------------------------------------------------
Caller(c) == \/ Require(c) \/ Register(c) \/ Send(c) \/ SendFails(c)
             \/ Answered(c) \/ TimesOut(c)

TaskAdvances(s) == \/ HandshakeFails(s) \/ Install(s) \/ FailPrevious(s)
                   \/ ReceiveResponse(s) \/ PutBack(s)
                   \/ ClearSlot(s) \/ FailEnded(s) \/ AbortWriter(s)

Connection(s) == \/ TaskAdvances(s) \/ ReadEnds(s)
                 \/ Write(s) \/ WriteFails(s) \/ WriteLoopEnds(s)
=============================================================================
