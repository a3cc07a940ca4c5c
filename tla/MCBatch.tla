------------------------------ MODULE MCBatch -------------------------------
(***************************************************************************)
(* Instances of Batch for TLC: lists of two and three operations, with     *)
(* runs, server-side operations between them, references forwards and      *)
(* backwards, arguments that are refused and an operation that writes      *)
(* outside the file.                                                       *)
(***************************************************************************)
EXTENDS Batch

Plain    == [forwards |-> TRUE, valid |-> TRUE, needs |-> {}, external |-> FALSE]
Custom   == [Plain EXCEPT !.forwards = FALSE]
Refused  == [Plain EXCEPT !.valid = FALSE]
After(i) == [Plain EXCEPT !.needs = {i}]
Render   == [Custom EXCEPT !.external = TRUE]

Of(mode, ops) == [mode |-> mode, ops |-> ops]

MCPlans ==
  { Of("ATOMIC", <<Plain, Plain, After(1)>>),
    Of("ATOMIC", <<Plain, Render>>),
    Of("STOP_ON_ERROR", <<Plain, Plain>>),
    Of("BEST_EFFORT", <<After(2), Plain, Plain>>),
    Of("BEST_EFFORT", <<Refused, Custom>>) }
=============================================================================
