------------------------------ MODULE MCBridge ------------------------------
(***************************************************************************)
(* Instances of Bridge for TLC.  Every call and every connection is used   *)
(* once, so the state space is finite without any further bound.           *)
(***************************************************************************)
EXTENDS Bridge, TLC

CONSTANTS Call2, Session2   \* one of the calls, one of the connections

(* Liveness is checked from two reachable states, each of which has used one of
   them up: a call that was made before Blender connected, or a connection whose
   handshake failed before the add-on was restarted.  One call then lives through
   two connections, or two calls share one. *)
LiveInit ==
  /\ LinkInit
  /\ AddonInit
  /\ slot = None
  /\ pending = [c \in Calls |-> None]
  /\ superseded = [s \in Sessions |-> None]
  /\ held = [s \in Sessions |-> None]
  /\ writer = [s \in Sessions |-> "none"]
  /\ outbound = [s \in Sessions |-> <<>>]
  /\ session = [c \in Calls |-> None]
  /\ answer = [c \in Calls |-> "none"]
  /\ \/ /\ pc = [c \in Calls |-> IF c = Call2 THEN "notConnected" ELSE "idle"]
        /\ task = [s \in Sessions |-> "free"]
     \/ /\ pc = [c \in Calls |-> "idle"]
        /\ task = [s \in Sessions |-> IF s = Session2 THEN "closed" ELSE "free"]

LiveSpec == LiveInit /\ [][Next]_vars /\ Fairness

Symmetry == Permutations(Calls) \cup Permutations(Sessions)
=============================================================================
