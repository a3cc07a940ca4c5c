-------------------------------- MODULE Link --------------------------------
(***************************************************************************)
(* What the server and the add-on share: the connections between them.     *)
(* A connection is named by the session id the server mints for it         *)
(* (connection.rs, handle_connection).  The add-on holds at most one       *)
(* connection at a time, because its bridge thread dials only after the    *)
(* previous read loop has returned (transport.py, _run).                   *)
(***************************************************************************)
EXTENDS Naturals, Sequences

CONSTANTS
  Calls,     \* executions of BlenderClient::execute, each named by its RequestId
  Sessions,  \* connections, each named by its SessionId
  None       \* no session, no call

ASSUME NoneAssumption == None \notin Calls /\ None \notin Sessions

VARIABLES
  link,         \* the connection whose socket the add-on holds open
  toBlender,    \* per connection, the requests on the wire
  fromBlender   \* per connection, the responses on the wire

linkVars == <<link, toBlender, fromBlender>>

\* A response names its request.  "ok": the handler was dispatched and
\* answered (with a result or with its own error); "refused": the add-on
\* answered RATE_LIMITED without queueing the request.
Response == [call : Calls, kind : {"ok", "refused"}]

LinkTypeOK ==
  /\ link \in Sessions \cup {None}
  /\ toBlender \in [Sessions -> Seq(Calls)]
  /\ fromBlender \in [Sessions -> Seq(Response)]

LinkInit ==
  /\ link = None
  /\ toBlender = [s \in Sessions |-> <<>>]
  /\ fromBlender = [s \in Sessions |-> <<>>]
=============================================================================
