--------------------------- MODULE MCSessionClient ---------------------------
(***************************************************************************)
(* SessionClient for TLC.  In a worker that lives, two runs, so that the   *)
(* cancel loop can be caught between two sessions; one event that does not *)
(* end its run is enough for a connection to be open, waiting and given    *)
(* up, before and after it has heard something.  In one that is killed     *)
(* twice while writes to storage are lost, one run with two numbers, so    *)
(* that memory, storage and the table a new worker reads can all differ.   *)
(***************************************************************************)
EXTENDS SessionClient

CONSTANTS r1, r2

MCRuns        == {r1, r2}
MCOneRun      == {r1}
MCMaxMessages == 1
==============================================================================
