---------------------------- MODULE MCWorkflowRun ----------------------------
(***************************************************************************)
(* WorkflowRun for TLC: two cancel requests that may race each other and   *)
(* the task, graphs of up to two raw events, and at most two failing       *)
(* calls, one of which may be the death of the server: the handlers of an  *)
(* error are reached, and what they call can fail as well.                 *)
(***************************************************************************)
EXTENDS WorkflowRun

MCMaxRaw    == 2
MCMaxFaults == 2
==============================================================================
