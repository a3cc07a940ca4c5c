-------------------------- MODULE RevisionHistory --------------------------
(***************************************************************************)
(* The bounded window of scene changes that a diff is answered from        *)
(* (scene-cache/src/revision.rs, RevisionHistory).  An entry is an event,  *)
(* a record with at least a session and a revision; what the change was    *)
(* about does not matter here.                                             *)
(***************************************************************************)
EXTENDS Naturals, Sequences

CONSTANT Capacity   \* RevisionHistory.capacity

ASSUME CapacityAssumption == Capacity \in Nat \ {0}

NewHistory == [entries |-> <<>>, current |-> 0, horizon |-> 0]

\* Mutant: an entry that falls off the back is forgotten without a trace.
PushAtSilently(h, e) ==
  LET all == Append(h.entries, e)
  IN  [entries |-> IF Len(all) > Capacity THEN Tail(all) ELSE all,
       current |-> IF e.revision > h.current THEN e.revision ELSE h.current,
       horizon |-> h.horizon]

PushAt(h, e) ==
  LET all  == Append(h.entries, e)
      full == Len(all) > Capacity
  IN  [entries |-> IF full THEN Tail(all) ELSE all,
       current |-> IF e.revision > h.current THEN e.revision ELSE h.current,
       horizon |-> IF full THEN Head(all).revision ELSE h.horizon]

Observe(h, r) ==
  IF r > h.current THEN [entries |-> <<>>, current |-> r, horizon |-> r] ELSE h

Reset(h) == [entries |-> <<>>, current |-> h.current, horizon |-> h.current]

\* since: refused when the range is inverted, in the future or before the horizon.
Answered(h, from, to) == from <= to /\ to <= h.current /\ h.horizon <= from

Since(h, from, to) ==
  {e \in {h.entries[i] : i \in DOMAIN h.entries} : from < e.revision /\ e.revision <= to}
=============================================================================
