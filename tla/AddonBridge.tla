---------------------------- MODULE AddonBridge -----------------------------
(***************************************************************************)
(* The add-on's side of the bridge (blender_extension): the bridge thread  *)
(* that dials and reads, a writer thread per connection, the two bounded   *)
(* mailboxes, and the pump that runs requests on Blender's main thread.    *)
(* The mailboxes belong to the add-on, not to a connection: they are       *)
(* created by start and cleared by stop, and outlive a reconnection.       *)
(***************************************************************************)
EXTENDS Link

CONSTANTS InboxMax, OutboxMax   \* config.INBOX_MAX, config.OUTBOX_MAX

ASSUME MailboxAssumption == InboxMax \in Nat \ {0} /\ OutboxMax \in Nat \ {0}

VARIABLES
  writers,  \* the connections whose writer thread is alive
  inbox,    \* STATE.inbox: requests read and not yet pumped
  outbox,   \* STATE.outbox: responses pumped and not yet taken by a writer
  executed  \* history: how often each request has been dispatched to its handler

addonVars == <<writers, inbox, outbox, executed>>

AddonTypeOK ==
  /\ writers \subseteq Sessions
  /\ inbox \in Seq(Calls)
  /\ outbox \in Seq(Response)
  /\ executed \in [Calls -> Nat]

AddonInit ==
  /\ writers = {}
  /\ inbox = <<>>
  /\ outbox = <<>>
  /\ executed = [c \in Calls |-> 0]

-----------------------------------------------------------------------------
(* Mailbox.put with timeout=0: a full outbox drops the frame. *)
Post(r) == outbox' = IF Len(outbox) < OutboxMax THEN Append(outbox, r) ELSE outbox

-----------------------------------------------------------------------------
(* The bridge thread *)

\* _connect_once as far as the read loop: dial, answer the hello, start a writer.
Dial(s) ==
  /\ link = None
  /\ link' = s
  /\ writers' = writers \cup {s}
  /\ UNCHANGED <<toBlender, fromBlender, inbox, outbox, executed>>

\* Inbox not full, or drained within the second that put waits.
ReadRequest(s) ==
  /\ link = s
  /\ toBlender[s] # <<>>
  /\ Len(inbox) < InboxMax
  /\ inbox' = Append(inbox, Head(toBlender[s]))
  /\ toBlender' = [toBlender EXCEPT ![s] = Tail(@)]
  /\ UNCHANGED <<link, fromBlender, writers, outbox, executed>>

\* Mutant: the request is refused and queued all the same.
RefuseRequestButQueue(s) ==
  /\ link = s
  /\ toBlender[s] # <<>>
  /\ Len(inbox) >= InboxMax
  /\ Post([call |-> Head(toBlender[s]), kind |-> "refused"])
  /\ inbox' = Append(inbox, Head(toBlender[s]))
  /\ toBlender' = [toBlender EXCEPT ![s] = Tail(@)]
  /\ UNCHANGED <<link, fromBlender, writers, executed>>

\* The inbox stayed full for that second: answer RATE_LIMITED.
RefuseRequest(s) ==
  /\ link = s
  /\ toBlender[s] # <<>>
  /\ Len(inbox) >= InboxMax
  /\ Post([call |-> Head(toBlender[s]), kind |-> "refused"])
  /\ toBlender' = [toBlender EXCEPT ![s] = Tail(@)]
  /\ UNCHANGED <<link, fromBlender, writers, inbox, executed>>

\* The read loop returns and the socket is closed.  The writer thread does not
\* look at the socket while the outbox is empty: join(timeout=1.0) gives up on it.
Drop(s) ==
  /\ link = s
  /\ link' = None
  /\ toBlender' = [toBlender EXCEPT ![s] = <<>>]
  /\ UNCHANGED <<fromBlender, writers, inbox, outbox, executed>>

\* Bridge.stop, or Blender itself going away: sockets, threads and queues are gone.
Stop ==
  /\ link' = None
  /\ toBlender' = IF link = None THEN toBlender ELSE [toBlender EXCEPT ![link] = <<>>]
  /\ writers' = {}
  /\ inbox' = <<>>
  /\ outbox' = <<>>
  /\ UNCHANGED <<fromBlender, executed>>

-----------------------------------------------------------------------------
(* A writer thread: _write_loop, bound to the socket it was started with *)

WriterSends(s) ==
  /\ s \in writers
  /\ link = s
  /\ outbox # <<>>
  /\ outbox' = Tail(outbox)
  /\ fromBlender' = [fromBlender EXCEPT ![s] = Append(@, Head(outbox))]
  /\ UNCHANGED <<link, toBlender, writers, inbox, executed>>

\* The socket is closed: the frame it took is lost, and only then does it return.
WriterFails(s) ==
  /\ s \in writers
  /\ link # s
  /\ outbox # <<>>
  /\ outbox' = Tail(outbox)
  /\ writers' = writers \ {s}
  /\ UNCHANGED <<linkVars, inbox, executed>>

-----------------------------------------------------------------------------
(* The main thread: one request of a pump pass *)

Pump ==
  /\ inbox # <<>>
  /\ inbox' = Tail(inbox)
  /\ executed' = [executed EXCEPT ![Head(inbox)] = @ + 1]
  /\ Post([call |-> Head(inbox), kind |-> "ok"])
  /\ UNCHANGED <<linkVars, writers>>

-----------------------------------------------------------------------------
Addon == \/ Stop \/ Pump
         \/ \E s \in Sessions : \/ ReadRequest(s) \/ RefuseRequest(s) \/ Drop(s)
                                \/ WriterSends(s) \/ WriterFails(s)
=============================================================================
