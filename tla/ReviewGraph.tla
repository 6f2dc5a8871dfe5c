---------------------------- MODULE ReviewGraph ----------------------------
(***************************************************************************)
(* ReviewGraph: the review workflow and the events it makes.  Its nodes    *)
(* load_hotel_context, analysis and generate_reply write custom events     *)
(* through NodeEventEmitter; ProjectionMapper turns them and the graph's   *)
(* states into events of the eleven classes of models.py, and what is      *)
(* stored of an event is parsed again when it is replayed.                 *)
(*                                                                         *)
(* A text is the sequence of the chunks, none of them empty, that it is    *)
(* made of.  How events are numbered, stored and announced is WorkflowRun's *)
(* matter.                                                                 *)
(***************************************************************************)
EXTENDS Naturals, Sequences, SequencesExt

CONSTANTS
  Reviews,   \* the runs
  MaxChunks, \* bound on the chunks of the reply, for each run
  Null       \* None

\* None is not a text.
ASSUME NullAssumption == Null \notin Seq([run : Reviews, n : Nat])

VARIABLES
  node,    \* where the graph of each run is
  replied, \* reply_content of generate_reply_node
  emitted  \* the events the run has made

graphVars == <<node, replied, emitted>>

GraphInit ==
  /\ node = [r \in Reviews |-> "none"]
  /\ replied = [r \in Reviews |-> <<>>]
  /\ emitted = [r \in Reviews |-> <<>>]
-----------------------------------------------------------------------------
(* Events *)

\* What each class adds to the fields that all have.
OwnFields ==
  [workflow_started |-> {}, workflow_completed |-> {"result"}, workflow_failed |-> {"error"},
   workflow_cancelled |-> {},
   node_started |-> {"node_name"}, node_completed |-> {"node_name"},
   node_failed |-> {"node_name", "error"},
   token_delta |-> {"delta"}, tool_call |-> {"tool_name", "tool_input"},
   state_updated |-> {"state"}, custom_event |-> {"event_type", "data"}]

\* None, or what stands for it where the class declares no other default.
DefaultOf(field) == IF field = "delta" THEN <<>> ELSE Null

Create(kind, given) ==
  [kind |-> kind,
   own  |-> [f \in OwnFields[kind] |-> IF f \in DOMAIN given THEN given[f] ELSE DefaultOf(f)]]

NoFields == [f \in {} |-> Null]

\* The payload of an event's row leaves out what is None.
Dumped(e) ==
  [kind |-> e.kind,
   own  |-> [f \in {g \in DOMAIN e.own : e.own[g] # Null} |-> e.own[f]]]

ClassOf(kind) == IF kind \in DOMAIN OwnFields THEN kind ELSE "custom_event"

\* The class goes by the row's kind.  It forbids fields it does not declare, which no
\* row has, since rows are dumped from the same classes.
Parsed(row) == Create(ClassOf(row.kind), row.own)

NodeEvent(kind, name) == Create(kind, [node_name |-> name])

NodeFailed(name) == Create("node_failed", [node_name |-> name, error |-> "text"])

StateUpdated(reply) == Create("state_updated", [state |-> [reply_content |-> reply]])

TokenDelta(token) == Create("token_delta", [delta |-> <<token>>])

\* The result is the last state that the stream of the graph gave.
WorkflowCompleted(events) ==
  LET last == SelectLastInSeq(events, LAMBDA e : e.kind = "state_updated")
  IN  Create("workflow_completed", [result |-> events[last].own["state"]])

WorkflowFailed == Create("workflow_failed", [error |-> "text"])
-----------------------------------------------------------------------------
(* The graph *)

Emits(r, events) == emitted' = [emitted EXCEPT ![r] = @ \o events]

Goes(r, from, to) == node[r] = from /\ node' = [node EXCEPT ![r] = to]

CreateWorkflow(r) ==
  /\ Goes(r, "none", "created")
  /\ UNCHANGED <<replied, emitted>>

StartWorkflow(r) ==
  /\ Goes(r, "created", "load_hotel_context")
  /\ Emits(r, <<Create("workflow_started", NoFields)>>)
  /\ UNCHANGED replied

\* The state as the graph is given it, and as the first node leaves it.  What the
\* frontend says of the hotel takes precedence, and the API never gives only an id.
LoadHotelContext(r) ==
  /\ Goes(r, "load_hotel_context", "analysis")
  /\ Emits(r, <<StateUpdated(Null), StateUpdated(Null)>>)
  /\ UNCHANGED replied

\* The exception leaves the graph, and the mapper makes the failed event of it.
FailNode(r, from, reports) ==
  /\ Goes(r, from, "over")
  /\ \E report \in reports : Emits(r, Append(report, WorkflowFailed))
  /\ UNCHANGED replied

\* What the frontend said cannot be read, for which the node has no event.
ContextReports == {<<StateUpdated(Null)>>}

AnalysisStarted == NodeEvent("node_started", "analysis")

\* The chunks of the analysis are not events.
Analyse(r) ==
  /\ Goes(r, "analysis", "generate_reply")
  /\ Emits(r, <<AnalysisStarted, NodeEvent("node_completed", "analysis"), StateUpdated(Null)>>)
  /\ UNCHANGED replied

\* The node tells of an agent that fails when the stream does, and once more when
\* that is raised; of an answer that is not the JSON asked for, only then.
AnalysisReports ==
  {<<AnalysisStarted, NodeFailed("analysis")>>,
   <<AnalysisStarted, NodeFailed("analysis"), NodeFailed("analysis")>>}

BeginGeneration(r) ==
  /\ Goes(r, "generate_reply", "generating")
  /\ Emits(r, <<NodeEvent("node_started", "generation")>>)
  /\ UNCHANGED replied

\* Before the agent's stream there is nothing else that tells of the failure.
GenerationReports(r) ==
  {<<NodeFailed("generation"), NodeFailed("generation")>>} \cup
  (IF replied[r] = <<>> THEN {<<NodeFailed("generation")>>} ELSE {})

GenerateChunk(r) ==
  /\ Goes(r, "generating", "generating")
  /\ Len(replied[r]) < MaxChunks[r]
  /\ LET token == [run |-> r, n |-> Len(replied[r]) + 1]
     IN /\ replied' = [replied EXCEPT ![r] = Append(@, token)]
        /\ Emits(r, <<TokenDelta(token)>>)

StateWithoutReply(r) == StateUpdated(Null)

\* What generate_reply returns goes into the state, and the state is emitted.
StateAtEnd(r) == StateUpdated(replied[r])

EndGeneration(r) ==
  /\ Goes(r, "generating", "over")
  /\ LET last == <<NodeEvent("node_completed", "generation"), StateAtEnd(r)>>
     IN Emits(r, Append(last, WorkflowCompleted(emitted[r] \o last)))
  /\ UNCHANGED replied

\* By the cancel endpoint; the runner sees it before it hands on another event.
CancelWorkflow(r) ==
  /\ node[r] \notin {"none", "created", "over", "cancelled"}
  /\ node' = [node EXCEPT ![r] = "cancelled"]
  /\ Emits(r, <<Create("workflow_cancelled", NoFields)>>)
  /\ UNCHANGED replied

GraphStep(r) ==
  \/ StartWorkflow(r) \/ LoadHotelContext(r)
  \/ FailNode(r, "load_hotel_context", ContextReports)
  \/ Analyse(r) \/ FailNode(r, "analysis", AnalysisReports)
  \/ BeginGeneration(r) \/ GenerateChunk(r) \/ EndGeneration(r)
  \/ FailNode(r, "generating", GenerationReports(r))
============================================================================
