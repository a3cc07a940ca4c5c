------------------------------- MODULE Bridge -------------------------------
(***************************************************************************)
(* The whole bridge: the server's client (BlenderClient), the add-on       *)
(* (AddonBridge) and the connections between them (Link).  Connections     *)
(* come up and die at any moment, on either side, and the two sides learn  *)
(* of it at different times: after a Drop the server goes on believing in  *)
(* the dead connection until its read loop ends, and meanwhile the add-on  *)
(* may have dialled again.                                                 *)
(***************************************************************************)
EXTENDS BlenderClient, AddonBridge

vars == <<clientVars, addonVars, linkVars>>

TypeOK == LinkTypeOK /\ ClientTypeOK /\ AddonTypeOK

Init == LinkInit /\ ClientInit /\ AddonInit

Connect(s) == Accept(s) /\ Dial(s)

CallerStep     == \E c \in Calls : Caller(c) /\ UNCHANGED addonVars
ConnectionStep == \E s \in Sessions : Connection(s) /\ UNCHANGED addonVars
AddonStep      == Addon /\ UNCHANGED clientVars
ConnectStep    == \E s \in Sessions : Connect(s)

Next == CallerStep \/ ConnectionStep \/ AddonStep \/ ConnectStep

Safety == Init /\ [][Next]_vars

-----------------------------------------------------------------------------
(* Fairness: what keeps running by itself.  Tokio polls every ready task, a   *)
(* deadline fires, a socket whose other end is gone is reported sooner or     *)
(* later, and the add-on's reader notices that the server has shut its end.   *)
(* Nothing makes a caller start, a connection come up or the pump run.        *)

CallerFairness(c) ==
  WF_vars(pc[c] # "idle" /\ Caller(c) /\ UNCHANGED addonVars)

\* The task reads on while the connection is up and notices when it is gone; the
\* write task drains the channel of a live connection and ends with its senders.
ConnectionFairness(s) ==
  /\ WF_vars((TaskAdvances(s) \/ (link # s /\ ReadEnds(s))) /\ UNCHANGED addonVars)
  /\ WF_vars(((link = s /\ Write(s)) \/ WriteLoopEnds(s)) /\ UNCHANGED addonVars)
  /\ WF_vars(Shut(s) /\ Drop(s) /\ UNCHANGED clientVars)

Fairness == /\ \A c \in Calls : CallerFairness(c)
            /\ \A s \in Sessions : ConnectionFairness(s)

Spec == Safety /\ Fairness

-----------------------------------------------------------------------------
(* Safety properties *)

(* A connection that is still being read and that no later connection has
   replaced is the one in the slot: the slow teardown of an old connection never
   wipes out the session that took its place (session.rs, clear_if), in whatever
   order the handshakes of two connections finish. *)
LiveSessionKeepsSlot ==
  \A s \in Sessions :
    /\ task[s] \in {"failPrevious", "reading", "ended"}
    /\ \A t \in Sessions : superseded[t] # s
    => slot = s

(* A caller that has not been answered still has its entry in the registry, or a
   reader is about to put it back: no response, failure or cancellation of
   another request can take it away, so the answer of this caller still finds it
   (pending.rs, complete and fail_session). *)
UnansweredHasEntry ==
  \A c \in Calls :
    pc[c] \in {"sending", "waiting"} /\ answer[c] = "none" =>
      pending[c] = session[c] \/ \E s \in Sessions : held[s] = c

Queued(q, x) == \E i \in DOMAIN q : q[i] = x
Distinct(q)  == \A i, j \in DOMAIN q : q[i] = q[j] => i = j

InFlight(c) == \/ Queued(inbox, c)
               \/ \E s \in Sessions : Queued(outbound[s], c) \/ Queued(toBlender[s], c)

Responded(r) == Queued(outbox, r) \/ \E s \in Sessions : Queued(fromBlender[s], r)

Unsent == {"idle", "bound", "sending", "notConnected"}

(* A request that is on its way exists once: in the channel of its own session, on
   that session's wire or in the add-on's inbox, never in two of these and never
   twice in one; Blender has not run it, and its caller waits or has given up. *)
OneCopy ==
  /\ Distinct(inbox)
  /\ \A s \in Sessions : Distinct(outbound[s]) /\ Distinct(toBlender[s])
  /\ \A c \in Calls, s \in Sessions :
       /\ Queued(outbound[s], c) =>
            session[c] = s /\ ~Queued(toBlender[s], c) /\ ~Queued(inbox, c)
       /\ Queued(toBlender[s], c) => session[c] = s /\ ~Queued(inbox, c)
  /\ \A c \in Calls : InFlight(c) =>
       executed[c] = 0 /\ pc[c] \in {"waiting", "lost", "timeout"}

(* Every response, wherever it is, tells the truth about its request, and so does
   what the caller has been sent or has returned; a request that has not been sent
   has been neither run nor answered. *)
Truthful ==
  /\ \A r \in Response : Responded(r) =>
       /\ r.kind = "ok" => executed[r.call] = 1
       /\ r.kind = "refused" => executed[r.call] = 0 /\ ~InFlight(r.call)
       /\ pc[r.call] \notin Unsent
  /\ \A c \in Calls :
       /\ executed[c] \in {0, 1}
       /\ "ok" \in {answer[c], pc[c]} => executed[c] = 1
       /\ "refused" \in {answer[c], pc[c]} => executed[c] = 0 /\ ~InFlight(c)
       /\ pc[c] \in Unsent => executed[c] = 0 /\ answer[c] \in {"none", "lost"}

(* A request is never duplicated, and no answer about it is false: the invariant
   behind the promise below (client.rs, execute; dispatcher.py, pump). *)
RequestInv == OneCopy /\ Truthful

(* The promise to each caller, RequestReply: run at most once, a result only for
   what was run, and "not connected" or "rate limited" only for what never runs,
   across lost connections, replaced sessions and requests the add-on still
   holds from an earlier connection (client.rs, execute). *)
Promise == INSTANCE RequestReply WITH
  status <- [c \in Calls |-> IF pc[c] \in {"bound", "sending", "waiting"} THEN "open" ELSE pc[c]],
  runs   <- executed

KeepsPromise == Promise!Spec

-----------------------------------------------------------------------------
(* Liveness properties *)

(* Every caller that has started gets an outcome, even if its session is replaced
   while it waits for room in a full channel, or is torn down between taking the
   session handle and registering the request (client.rs, execute). *)
EveryCallReturns == \A c \in Calls : pc[c] = "bound" ~> pc[c] \in Outcome

(* If the add-on keeps a connection open for good, the server ends up using that
   one for good, even when an older handshake is finished after it and replaces
   it in the slot (connection.rs, handle_connection). *)
SlotFollowsLink == \A s \in Sessions : <>[](link = s) => <>[](slot = s)

-----------------------------------------------------------------------------
(* What the documentation says and the code does not do *)

(* pending.rs says that when a connection dies every waiter is failed explicitly
   instead of being left to time out: once a connection's task has finished, no
   caller waits unanswered on it. *)
WaitersFailedExplicitly ==
  \A c \in Calls :
    pc[c] = "waiting" /\ task[session[c]] = "closed" => answer[c] # "none"

(* ARCHITECTURE.md names one writer that sends replies back: while the add-on is
   connected, a reply taken from the outbox is put on that connection. *)
RepliesReachTheSession ==
  [][link # None /\ link' = link /\ Len(outbox') < Len(outbox)
       => fromBlender'[link] # fromBlender[link]]_vars
=============================================================================
