---------------------------- MODULE MCEventStream ----------------------------
(***************************************************************************)
(* EventStream for TLC: one stream beside a run with one cancel request, a *)
(* graph of one raw event, so that together with the started event and the *)
(* outcome history, gap and subscription can each hold one, and one fault. *)
(***************************************************************************)
EXTENDS EventStream

MCResume == {0, 1}
==============================================================================
