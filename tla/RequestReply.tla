---------------------------- MODULE RequestReply ----------------------------
(***************************************************************************)
(* What the bridge promises to a tool that issues one operation: the       *)
(* operation is run by Blender at most once, and what the caller is told   *)
(* about it is the truth.  A result means that it was run.  "Not           *)
(* connected" and "rate limited" mean that it was not run and never will   *)
(* be.  "Connection lost" and "timed out" promise nothing: the operation   *)
(* may have been run, or may still be run after the caller has given up,   *)
(* which is why a write is never retried (blender-client/src/client.rs,    *)
(* may_retry).                                                             *)
(***************************************************************************)
EXTENDS Naturals

CONSTANT Calls  \* the operations issued, each named by its request id

VARIABLES
  status,  \* what the caller of each operation knows
  runs     \* how often Blender has run it

vars == <<status, runs>>

Unrun   == {"notConnected", "refused"}   \* outcomes that rule out a run
Unknown == {"lost", "timeout"}           \* outcomes that promise nothing
Status  == {"idle", "open", "ok"} \cup Unrun \cup Unknown

TypeOK == /\ status \in [Calls -> Status]
          /\ runs \in [Calls -> {0, 1}]

Init == /\ status = [c \in Calls |-> "idle"]
        /\ runs = [c \in Calls |-> 0]

\* The caller finds Blender connected and issues the operation, or does not.
Issue(c) ==
  /\ status[c] = "idle"
  /\ \E answer \in {"open", "notConnected"} : status' = [status EXCEPT ![c] = answer]
  /\ UNCHANGED runs

\* Blender runs the operation, whether or not the caller is still waiting.
Run(c) ==
  /\ status[c] \in {"open"} \cup Unknown
  /\ runs[c] = 0
  /\ runs' = [runs EXCEPT ![c] = 1]
  /\ UNCHANGED status

Finish(c) ==
  /\ status[c] = "open"
  /\ \/ runs[c] = 1 /\ status' = [status EXCEPT ![c] = "ok"]
     \/ runs[c] = 0 /\ status' = [status EXCEPT ![c] = "refused"]
     \/ \E u \in Unknown : status' = [status EXCEPT ![c] = u]
  /\ UNCHANGED runs

Next == \E c \in Calls : Issue(c) \/ Run(c) \/ Finish(c)

Spec == Init /\ [][Next]_vars
=============================================================================
