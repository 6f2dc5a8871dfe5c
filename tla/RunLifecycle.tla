---------------------------- MODULE RunLifecycle ----------------------------
(***************************************************************************)
(* RunLifecycle: one workflow run as its readers see it, the row of        *)
(* workflow_runs and the rows of workflow_events, without the task, the    *)
(* channel and the calls that make them.  WorkflowRun implements it, and   *)
(* RunHistory reads a table of such runs.                                  *)
(*                                                                         *)
(* shared/workflow_events/event_store.py, api/sse.py.                      *)
(***************************************************************************)
EXTENDS Naturals

CONSTANTS
  Numbers,   \* sequence numbers
  GraphKinds \* kinds of events that the graph emits on its way

VARIABLE run \* what is stored of the run, and whether its task is through with it

Terminal == {"completed", "failed", "cancelled"}
Events   == [seq : Numbers, kind : {"started"} \cup GraphKinds \cup Terminal]

New == [status |-> "none", canceled |-> FALSE, stored |-> {}, over |-> FALSE]

OfKind(kinds) == {e \in run.stored : e.kind \in kinds}

\* The event that ends the graph's stream is the only one of its kind with a number.
Outcomes == {e \in OfKind({"completed", "failed"}) : e.seq > 0}

Beyond(n) == \A e \in run.stored : e.seq < n

\* The events that can be stored next.
Storable ==
  {e \in Events :
     CASE e.kind = "started"   -> e.seq = 0 /\ run.stored = {}
       [] e.kind = "cancelled" -> e.seq = 0 /\ run.canceled
       [] e.kind = "failed" /\ e.seq = 0 -> TRUE
       [] e.kind = "completed" \/ (e.kind = "failed" /\ e.seq > 0) ->
            e.seq > 0 /\ Outcomes = {} /\ Beyond(e.seq)
       [] OTHER -> Outcomes = {} /\ OfKind({"cancelled"}) = {}}

Creations == {[run EXCEPT !.status = "pending"] : s \in {run.status} \cap {"none"}}

Ends == {s \in {"completed", "failed", "cancelled"} :
           CASE s = "completed" -> Outcomes # {} /\ OfKind({"cancelled"}) = {}
             [] s = "cancelled" -> OfKind({"cancelled"}) # {}
             [] OTHER           -> TRUE}

\* What the task can make of the run: announce its start, store an event, write
\* how it ended, or leave it as it is for ever.
Works ==
  IF run.status = "none" \/ run.over THEN {}
  ELSE {[run EXCEPT !.status = "running"] : x \in {run.stored} \cap {{}}}
       \cup {[run EXCEPT !.stored = @ \cup {e}] : e \in Storable}
       \cup {[run EXCEPT !.status = s, !.over = TRUE] : s \in Ends \cup {run.status}}

CancellationsMisspelt ==
  IF run.status = "none" THEN {}
  ELSE {[run EXCEPT !.status = "canceled", !.canceled = TRUE]}

\* The cancel endpoint writes whatever has become of the run since it looked.
Cancellations ==
  IF run.status = "none" THEN {}
  ELSE {[run EXCEPT !.status = "cancelled", !.canceled = TRUE]}

Successors == Creations \cup Works \cup Cancellations

Spec == run = New /\ [][run' \in Successors]_run
=============================================================================
