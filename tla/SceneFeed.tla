----------------------------- MODULE SceneFeed ------------------------------
(***************************************************************************)
(* How a change in Blender reaches scene.diff.  The add-on numbers each    *)
(* change and queues an event for the session it is connected in; a writer *)
(* thread puts it on the connection; that connection's read loop publishes *)
(* it on the server's broadcast channel; and the event pump (sync.rs)      *)
(* folds it into the scene cache, which starts its record again whenever   *)
(* the session changes or the pump has fallen behind.                      *)
(*                                                                         *)
(* Several read loops can be alive at once: a connection that has been     *)
(* replaced may still have events to be read.                              *)
(***************************************************************************)
EXTENDS RevisionHistory

CONSTANTS
  Sessions,     \* connections, each named by its session id
  None,         \* no session
  OutboxMax,    \* config.OUTBOX_MAX
  EventBuffer,  \* Config::event_buffer, the capacity of the broadcast channel
  MaxRevision   \* bound: the add-on counts no further than this

ASSUME FeedAssumption ==
  /\ None \notin Sessions
  /\ OutboxMax \in Nat \ {0} /\ EventBuffer \in Nat \ {0} /\ MaxRevision \in Nat

VARIABLES
  link,      \* the session whose connection the add-on holds, STATE.session_id
  revision,  \* STATE.revision
  outbox,    \* STATE.outbox, the events in it
  opened,    \* the connections that have been made so far
  wire,      \* per connection, the events on their way to the server
  reading,   \* the connections whose read loop is running on the server
  bus,       \* the broadcast channel: published and not yet received by the pump
  missed,    \* events the channel has overwritten and the pump has yet to hear of
  tracking,  \* the pump's local variable session
  cache,     \* SceneCache: its session and its history
  published  \* history: every event that was ever put on the channel

addonVars  == <<link, revision, outbox, opened>>
serverVars == <<wire, reading, bus, missed, published>>
pumpVars   == <<tracking, cache>>
vars       == <<addonVars, serverVars, pumpVars>>

Event == [session : Sessions, revision : 1 .. MaxRevision]

History == [entries : Seq(Event), current : 0 .. MaxRevision, horizon : 0 .. MaxRevision]

TypeOK ==
  /\ link \in Sessions \cup {None}
  /\ revision \in 0 .. MaxRevision
  /\ outbox \in Seq(Event)
  /\ opened \subseteq Sessions
  /\ wire \in [Sessions -> Seq(Event)]
  /\ reading \subseteq Sessions
  /\ bus \in Seq(Event)
  /\ missed \subseteq Event
  /\ tracking \in Sessions \cup {None}
  /\ cache \in [session : Sessions \cup {None}, history : History]
  /\ published \subseteq Event

Init ==
  /\ link = None
  /\ revision \in 0 .. MaxRevision   \* the user has been at work before connecting
  /\ outbox = <<>>
  /\ opened = {}
  /\ wire = [s \in Sessions |-> <<>>]
  /\ reading = {}
  /\ bus = <<>>
  /\ missed = {}
  /\ tracking = None
  /\ cache = [session |-> None, history |-> NewHistory]
  /\ published = {}

-----------------------------------------------------------------------------
(* The add-on *)

Dial(s) ==
  /\ link = None
  /\ s \notin opened
  /\ link' = s
  /\ opened' = opened \cup {s}
  /\ reading' = reading \cup {s}
  /\ UNCHANGED <<revision, outbox, wire, bus, missed, published, pumpVars>>

Disconnect ==
  /\ link # None
  /\ link' = None
  /\ UNCHANGED <<revision, outbox, opened, serverVars, pumpVars>>

\* The bridge is stopped, and Blender perhaps restarted: then it counts from zero.
Stop ==
  /\ link' = None
  /\ outbox' = <<>>
  /\ revision' \in {revision, 0}
  /\ UNCHANGED <<opened, serverVars, pumpVars>>

\* Mutant: the event is made before the revision is bumped.
ChangeEmittedFirst ==
  /\ link # None
  /\ revision < MaxRevision
  /\ revision' = revision + 1
  /\ Len(outbox) < OutboxMax
  /\ outbox' = Append(outbox, [session |-> link, revision |-> revision])
  /\ UNCHANGED <<link, opened, serverVars, pumpVars>>

\* A change in Blender: bump_revision, then emit_event.
Change ==
  /\ link # None
  /\ revision < MaxRevision
  /\ revision' = revision + 1
  /\ Len(outbox) < OutboxMax
  /\ outbox' = Append(outbox, [session |-> link, revision |-> revision + 1])
  /\ UNCHANGED <<link, opened, serverVars, pumpVars>>

\* A change without an event: an operation's own bump, or an outbox that is full,
\* of responses as well as events.
ChangeUnseen ==
  /\ revision < MaxRevision
  /\ revision' = revision + 1
  /\ UNCHANGED <<link, outbox, opened, serverVars, pumpVars>>

WriterSends ==
  /\ link # None
  /\ outbox # <<>>
  /\ outbox' = Tail(outbox)
  /\ wire' = [wire EXCEPT ![link] = Append(@, Head(outbox))]
  /\ UNCHANGED <<link, revision, opened, reading, bus, missed, published, pumpVars>>

\* The writer thread of an earlier connection takes the event to its closed socket.
WriterLoses ==
  /\ opened \ {link} # {}
  /\ outbox # <<>>
  /\ outbox' = Tail(outbox)
  /\ UNCHANGED <<link, revision, opened, serverVars, pumpVars>>

-----------------------------------------------------------------------------
(* The server's read loops *)

\* broadcast::Sender::send: a full channel overwrites the oldest event.
Send(e) ==
  /\ bus' = Append(IF Len(bus) < EventBuffer THEN bus ELSE Tail(bus), e)
  /\ missed' = IF Len(bus) < EventBuffer THEN missed ELSE missed \cup {Head(bus)}
  /\ published' = published \cup {e}

Publish(s) ==
  LET e == Head(wire[s]) IN
  /\ s \in reading
  /\ wire[s] # <<>>
  /\ wire' = [wire EXCEPT ![s] = Tail(@)]
  /\ IF e.session = s THEN Send(e) ELSE UNCHANGED <<bus, missed, published>>
  /\ UNCHANGED <<addonVars, reading, pumpVars>>

ReadEnds(s) ==
  /\ s \in reading
  /\ reading' = reading \ {s}
  /\ UNCHANGED <<addonVars, wire, bus, missed, published, pumpVars>>

-----------------------------------------------------------------------------
(* The event pump and the cache *)

Lagged ==
  /\ missed # {}
  /\ missed' = {}
  /\ tracking' = None
  /\ cache' = [session |-> None, history |-> Reset(cache.history)]
  /\ UNCHANGED <<addonVars, wire, reading, bus, published>>

\* Mutant: the new session's record starts where the counter stands.
BeginSessionAtCounter ==
  /\ missed = {}
  /\ bus # <<>>
  /\ Head(bus).session # tracking
  /\ tracking' = Head(bus).session
  /\ cache' = [session |-> Head(bus).session, history |-> cache.history]
  /\ UNCHANGED <<addonVars, serverVars>>

\* The session starts just before this event, which stays at the head for Apply.
BeginSession ==
  LET e == Head(bus) IN
  /\ missed = {}
  /\ bus # <<>>
  /\ e.session # tracking
  /\ tracking' = e.session
  /\ cache' = [session |-> e.session,
               history |-> Reset(Observe(cache.history, e.revision - 1))]
  /\ UNCHANGED <<addonVars, serverVars>>

\* Every payload is a change, so apply never gets to its own use of observe.
Apply ==
  LET e == Head(bus) IN
  /\ missed = {}
  /\ bus # <<>>
  /\ e.session = tracking
  /\ bus' = Tail(bus)
  /\ cache' = IF cache.session \in {None, e.session}
                THEN [cache EXCEPT !.history = PushAt(@, e)]
                ELSE cache
  /\ UNCHANGED <<addonVars, wire, reading, missed, published, tracking>>

-----------------------------------------------------------------------------
Next ==
  \/ Disconnect \/ Stop \/ Change \/ ChangeUnseen \/ WriterSends \/ WriterLoses
  \/ \E s \in Sessions : Dial(s) \/ Publish(s) \/ ReadEnds(s)
  \/ Lagged \/ BeginSession \/ Apply

Spec == Init /\ [][Next]_vars

-----------------------------------------------------------------------------
(* Properties *)

Items(q) == {q[i] : i \in DOMAIN q}
Waiting  == Items(bus)
Received == published \ (Waiting \cup missed)

(* A diff that is answered is complete: it lists exactly the events of the tracked
   session in its range that the pump has received or been told it has missed, whatever was
   evicted from the window, overwritten in the channel before the pump came to it,
   or applied while another session's late events came in between (cache.rs, diff). *)
DiffComplete ==
  cache.session # None =>
    \A from \in 0 .. cache.history.current :
      LET to == cache.history.current IN
      Answered(cache.history, from, to) =>
        Since(cache.history, from, to) =
          {e \in Received : e.session = cache.session /\ from < e.revision /\ e.revision <= to}

(* The record never mixes the events of two connections, and lists the changes of
   its own in the order in which they were made (cache.rs, apply). *)
OneSessionInOrder ==
  LET entries == cache.history.entries IN
  /\ \A i \in DOMAIN entries : entries[i].session = cache.session
  /\ \A i, j \in DOMAIN entries : i < j => entries[i].revision < entries[j].revision

-----------------------------------------------------------------------------
(* What the documentation says and the code does not do *)

current == cache.history.current

(* ARCHITECTURE.md says that the cache answers REVISION_EXPIRED rather than
   incompletely: a diff from a snapshot taken before an event is applied either
   lists the event or is refused. *)
AppliedEventsAreReported ==
  [][Apply => \/ ~Answered(cache'.history, current, current')
              \/ Head(bus) \in Since(cache'.history, current, current')]_vars

(* sync.rs says that after a lag the next diff is forced to report REVISION_EXPIRED:
   a diff from a snapshot taken before the pump noticed the lag is refused. *)
LagExpiresDiffs == [][Lagged => ~Answered(cache'.history, current, current')]_vars
=============================================================================
