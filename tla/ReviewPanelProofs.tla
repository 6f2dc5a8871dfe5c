------------------------- MODULE ReviewPanelProofs -------------------------
(***************************************************************************)
(* What the panel shows, for every number of runs, chunks and gestures,    *)
(* and whatever goes wrong on the way.                                     *)
(***************************************************************************)
EXTENDS ReviewPanel, TLAPS

-----------------------------------------------------------------------------
(* What the graphs make *)

Nodes ==
  {"none", "created", "load_hotel_context", "analysis", "generate_reply", "generating", "over",
   "cancelled"}

CompletedWith(reply) == Create("workflow_completed", [result |-> [reply_content |-> reply]])

\* The events that are neither tokens nor tell the reply.
Tellings ==
  {Create("workflow_started", NoFields), Create("workflow_cancelled", NoFields), WorkflowFailed,
   StateUpdated(Null), AnalysisStarted, NodeEvent("node_completed", "analysis"),
   NodeFailed("analysis"), NodeEvent("node_started", "generation"), NodeFailed("generation"),
   NodeEvent("node_completed", "generation")}

TokenEvents(r) == {TokenDelta(token) : token \in ToSet(replied[r])}

ReplyEvents(r) ==
  IF node[r] = "over" THEN {StateUpdated(replied[r]), CompletedWith(replied[r])} ELSE {}

\* Only the tokens of the reply are made, and the reply is told only when it is whole.
Makes(r) == Tellings \cup TokenEvents(r) \cup ReplyEvents(r)

GraphInv ==
  /\ node \in [Reviews -> Nodes]
  /\ replied = [r \in Reviews |-> replied[r]]
  /\ \A r \in Reviews : replied[r] \in Seq([run : {r}, n : Nat])
  /\ emitted = [r \in Reviews |-> emitted[r]]
  /\ \A r \in Reviews : emitted[r] \in Seq(Makes(r))
-----------------------------------------------------------------------------
(* What the panel makes of it *)

Calls == {"unused", "page", "invite", "post", "created", "done"}

Links == {"none", "open", "resumed", "lost", "stored", "closed"}

\* What a text is made of: tokens of the runs, or what the user wrote.
Pieces == [run : Reviews, n : Nat] \cup [run : {Null}, n : {0}]

TabTypeOK ==
  /\ call \in [Reviews -> Calls]
  /\ view \in Views /\ shown \in Views \ {"none"} /\ idles \in Nat
  /\ review \in BOOLEAN
  /\ text \in Seq(Pieces)
  /\ link \in [Reviews -> Links]
  /\ place \in [Reviews -> Nat]
  /\ mishaps \in Nat /\ gestures \in Nat
  /\ latest \in Reviews \cup {Null}
  /\ edited \in BOOLEAN /\ hasty \in BOOLEAN /\ overlapped \in BOOLEAN
  /\ revived \in BOOLEAN /\ ignored \in BOOLEAN

\* A stream is opened when its call is answered, or after the worker died.
CallInv == \A r \in Reviews : link[r] # "none" => call[r] = "done"

\* No stream is ahead of its run.
PlaceInv == \A r \in Reviews : place[r] <= Len(emitted[r])

\* Whoever waits leaves the panel "running" until the run is over: no second click
\* is possible before, unless a new worker opens a stream again.
CalmInv ==
  ~hasty /\ ~revived =>
    /\ ~overlapped
    /\ \A r, s \in Reviews : Preparing(r) => ~UnderWay(s) /\ (Preparing(s) => s = r)
    /\ \A r \in Reviews : UnderWay(r) => view = "running" /\ shown = "running"
    /\ \A r \in Reviews : UnderWay(r) \/ Preparing(r) => view # "none" /\ idles = 0

\* The panel says that there is a text to edit, or has the buttons for it.
Offered == view \in {"completed", "editing"} \/ shown \in {"completed", "editing"}

\* Unless runs overlapped, only the latest one can change the text, and a text is
\* offered, or written, only when the panel was told how that run ended.
LoneInv ==
  ~overlapped =>
    /\ \A r \in Reviews : UnderWay(r) => r = latest /\ ~edited /\ ~Offered
    /\ edited \/ Offered => latest \in Reviews /\ Over(latest)

\* Buttons that are not those of the view are about to be replaced.
ViewInv == view # "none" /\ shown \in {"completed", "editing"} => view = shown \/ idles > 0

\* The text is the user's or made of tokens of the latest run.
TextInv ==
  ~overlapped =>
    /\ edited => text = UsersText
    /\ ~edited => \A i \in DOMAIN text : latest \in Reviews /\ text[i] \in ToSet(replied[latest])

\* The text that is offered is the whole reply of a run that goes on no more, or was
\* taken away by a panel that starts over.
ReplyInv ==
  ~overlapped /\ Offered =>
    /\ latest \in Reviews /\ node[latest] = "over"
    /\ \/ edited \/ text = replied[latest]
       \/ text = <<>> /\ (hasty \/ view \notin {"completed", "editing"})

PanelInv ==
  /\ GraphInv /\ TabTypeOK /\ CallInv /\ PlaceInv
  /\ CalmInv /\ LoneInv /\ ViewInv /\ TextInv /\ ReplyInv
-----------------------------------------------------------------------------
(* Events *)

\* The class and the own fields of the events that the panel looks into.
LEMMA TokenFields ==
  ASSUME NEW token
  PROVE  /\ TokenDelta(token).kind = "token_delta"
         /\ TokenDelta(token).own = [f \in {"delta"} |-> <<token>>]
BY DEF TokenDelta, Create, OwnFields

\* The result is the only field of a completed event.
LEMMA CompletedFields ==
  ASSUME NEW reply
  PROVE  /\ CompletedWith(reply).kind = "workflow_completed"
         /\ CompletedWith(reply).own = [f \in {"result"} |-> [reply_content |-> reply]]
BY DEF CompletedWith, Create, OwnFields

\* States are told in events of their own.
LEMMA StateFields ==
  ASSUME NEW reply
  PROVE  /\ StateUpdated(reply).kind = "state_updated"
         /\ StateUpdated(reply).own["state"] = [reply_content |-> reply]
BY DEF StateUpdated, Create, OwnFields

\* The class of an event tells whether it is a token, tells the reply, or neither.
LEMMA KindsMade ==
  ASSUME NEW r \in Reviews, NEW e \in Makes(r)
  PROVE  /\ e.kind \in DOMAIN OwnFields
         /\ e.kind = "token_delta" => e \in TokenEvents(r)
         /\ e.kind = "workflow_completed" => node[r] = "over" /\ e = CompletedWith(replied[r])
<1>1. CASE e \in Tellings
  BY <1>1 DEF Tellings, Create, WorkflowFailed, StateUpdated, AnalysisStarted, NodeEvent, NodeFailed,
              OwnFields
<1>2. CASE e \in TokenEvents(r)
  BY <1>2, TokenFields DEF TokenEvents, OwnFields
<1>3. CASE e \in ReplyEvents(r)
  <2>1. node[r] = "over" /\ e \in {StateUpdated(replied[r]), CompletedWith(replied[r])}
    BY <1>3 DEF ReplyEvents
  <2>2. CASE e = StateUpdated(replied[r])
    <3>1. e.kind = "state_updated"
      BY <2>2, StateFields
    <3> QED
      BY <3>1 DEF OwnFields
  <2>3. CASE e = CompletedWith(replied[r])
    <3>1. e.kind = "workflow_completed"
      BY <2>3, CompletedFields
    <3> QED
      BY <2>1, <2>3, <3>1 DEF OwnFields
  <2> QED
    BY <2>1, <2>2, <2>3
<1> QED
  BY <1>1, <1>2, <1>3 DEF Makes

\* Storing an event and parsing its row keeps the class.
LEMMA ParsedKind ==
  ASSUME NEW e, e.kind \in DOMAIN OwnFields
  PROVE  Parsed(Dumped(e)).kind = e.kind
BY DEF Parsed, Dumped, ClassOf, Create

\* It keeps a token, or would leave it out.
LEMMA ParsedToken ==
  ASSUME NEW token, NEW e, e.kind = "token_delta", e.own = [f \in {"delta"} |-> <<token>>]
  PROVE  Parsed(Dumped(e)).own["delta"] \in {<<token>>, <<>>}
<1> DEFINE row == Dumped(e)
<1>1. row.kind = "token_delta" /\ row.own = [f \in {g \in {"delta"} : e.own[g] # Null} |-> e.own[f]]
  BY DEF Dumped
<1> HIDE DEF row
<1>2. Parsed(row).own["delta"] = IF "delta" \in DOMAIN row.own THEN row.own["delta"] ELSE <<>>
  BY <1>1 DEF Parsed, ClassOf, Create, OwnFields, DefaultOf
<1>3. "delta" \in DOMAIN row.own => row.own["delta"] = <<token>>
  BY <1>1
<1> QED
  BY <1>2, <1>3 DEF row

\* It keeps a result.
LEMMA ParsedResult ==
  ASSUME NEW result, NEW e, e.kind = "workflow_completed", e.own = [f \in {"result"} |-> result]
  PROVE  Parsed(Dumped(e)).own["result"] = result
<1> DEFINE row == Dumped(e)
<1>1. /\ row.kind = "workflow_completed"
      /\ row.own = [f \in {g \in {"result"} : e.own[g] # Null} |-> e.own[f]]
  BY DEF Dumped
<1> HIDE DEF row
<1>2. Parsed(row).own["result"] = IF "result" \in DOMAIN row.own THEN row.own["result"] ELSE Null
  BY <1>1 DEF Parsed, ClassOf, Create, OwnFields, DefaultOf
<1>3. "result" \in DOMAIN row.own => row.own["result"] = result
  BY <1>1
<1>4. "result" \notin DOMAIN row.own => result = Null
  BY <1>1
<1> QED
  BY <1>2, <1>3, <1>4 DEF row

\* The result of a run is its last state.
LEMMA ResultIsLastState ==
  ASSUME NEW S, NEW events \in Seq(S), NEW e, NEW reply, e.kind # "state_updated"
  PROVE  WorkflowCompleted(events \o <<e, StateUpdated(reply)>>) = CompletedWith(reply)
<1> DEFINE all  == events \o <<e, StateUpdated(reply)>>
           n    == Len(events)
           I    == {i \in 1..Len(all) : all[i].kind = "state_updated"}
           last == SelectLastInSeq(all, LAMBDA x : x.kind = "state_updated")
<1>1. n \in Nat /\ Len(all) = n + 2 /\ all[n + 2] = StateUpdated(reply)
  OBVIOUS
<1>2. last = IF I # {} THEN Max(I) ELSE 0
  BY DEF SelectLastInSeq
<1> HIDE DEF n, all
<1>3. n + 2 \in I /\ \A i \in I : i \in Nat /\ n + 2 >= i
  <2>1. StateUpdated(reply).kind = "state_updated"
    BY StateFields
  <2>2. n + 2 \in 1..Len(all) /\ \A i \in 1..Len(all) : i \in Nat /\ n + 2 >= i
    BY <1>1
  <2> QED
    BY <1>1, <2>1, <2>2
<1>4. Max(I) = n + 2
  <2>1. \A x \in I : (\A y \in I : x >= y) => x = n + 2
    BY <1>1, <1>3
  <2> HIDE DEF I
  <2> QED
    BY <1>3, <2>1 DEF Max
<1>5. last = n + 2
  BY <1>2, <1>3, <1>4
<1>6. all[last].own["state"] = [reply_content |-> reply]
  BY <1>1, <1>5, StateFields
<1>7. WorkflowCompleted(all) = Create("workflow_completed", [result |-> all[last].own["state"]])
  BY DEF WorkflowCompleted
<1> QED
  BY <1>6, <1>7 DEF all, CompletedWith
-----------------------------------------------------------------------------
(* The graphs *)

\* A graph goes on: no token and no event is taken back, and a run that is over stays
\* as it is.
GraphsGoOn ==
  /\ \A r \in Reviews :
       /\ Len(emitted[r]) <= Len(emitted'[r])
       /\ \A i \in 1..Len(emitted[r]) : emitted'[r][i] = emitted[r][i]
  /\ \A r \in Reviews : ToSet(replied[r]) \subseteq ToSet(replied'[r])
  /\ \A r \in Reviews : node[r] = "over" => node'[r] = "over" /\ replied'[r] = replied[r]

\* A sequence over a set is one over a greater set.
LEMMA SeqGrows ==
  ASSUME NEW A, NEW B, A \subseteq B, NEW s \in Seq(A)
  PROVE  s \in Seq(B)
OBVIOUS

\* What a sequence holds is of the set it is over.
LEMMA ElementOfSequence ==
  ASSUME NEW A, NEW s \in Seq(A), NEW x \in ToSet(s)
  PROVE  x \in A
<1>1. PICK i \in DOMAIN s : x = s[i]
  BY DEF ToSet
<1> QED
  BY <1>1

\* What a graph may make, it may make when it has gone on.
LEMMA MakesMore ==
  ASSUME GraphsGoOn, NEW r \in Reviews
  PROVE  Makes(r) \subseteq Makes(r)'
<1>1. TokenEvents(r) \subseteq TokenEvents(r)'
  BY DEF GraphsGoOn, TokenEvents, TokenDelta, Create
<1>2. ReplyEvents(r) \subseteq ReplyEvents(r)'
  BY DEF GraphsGoOn, ReplyEvents, CompletedWith, StateUpdated, Create
<1>3. Tellings = Tellings'
  BY DEF Tellings, Create, WorkflowFailed, StateUpdated, AnalysisStarted, NodeEvent, NodeFailed
<1> QED
  BY <1>1, <1>2, <1>3 DEF Makes

\* A step of one graph keeps all that is known of the graphs, if it makes what it may.
LEMMA GraphMoves ==
  ASSUME GraphInv, NEW r \in Reviews,
         NEW from, from # "over", NEW to \in Nodes, Goes(r, from, to),
         NEW reply \in Seq([run : {r}, n : Nat]), replied' = [replied EXCEPT ![r] = reply],
         ToSet(replied[r]) \subseteq ToSet(reply),
         NEW events \in Seq(Makes(r)'), Emits(r, events)
  PROVE  GraphInv' /\ GraphsGoOn
<1>1. /\ node' \in [Reviews -> Nodes] /\ node[r] = from
      /\ \A s \in Reviews \ {r} : node'[s] = node[s]
  BY DEF Goes, GraphInv
<1>2. /\ replied' = [s \in Reviews |-> replied'[s]] /\ replied'[r] = reply
      /\ \A s \in Reviews \ {r} : replied'[s] = replied[s]
  BY DEF GraphInv
<1>3. GraphsGoOn
  <2>1. ASSUME NEW s \in Reviews
        PROVE  /\ Len(emitted[s]) <= Len(emitted'[s])
               /\ \A i \in 1..Len(emitted[s]) : emitted'[s][i] = emitted[s][i]
    <3>1. emitted[s] \in Seq(Makes(s))
      BY DEF GraphInv
    <3>2. CASE s = r
      <4>1. emitted'[s] = emitted[s] \o events
        BY <3>2 DEF Emits, GraphInv
      <4> QED
        BY <3>1, <4>1
    <3>3. CASE s # r
      <4>1. emitted'[s] = emitted[s]
        BY <3>3 DEF Emits, GraphInv
      <4> QED
        BY <3>1, <4>1
    <3> QED
      BY <3>2, <3>3
  <2> QED
    BY <1>1, <1>2, <2>1 DEF GraphsGoOn
<1>4. \A s \in Reviews : emitted[s] \in Seq(Makes(s)')
  BY <1>3, MakesMore, SeqGrows DEF GraphInv
<1>5. /\ emitted' = [s \in Reviews |-> emitted'[s]] /\ emitted'[r] = emitted[r] \o events
      /\ \A s \in Reviews \ {r} : emitted'[s] = emitted[s]
  BY DEF GraphInv, Emits
<1>6. emitted'[r] \in Seq(Makes(r)')
  BY <1>4, <1>5
<1>7. \A s \in Reviews : emitted'[s] \in Seq(Makes(s)')
  BY <1>4, <1>5, <1>6
<1>8. \A s \in Reviews : replied'[s] \in Seq([run : {s}, n : Nat])
  BY <1>2 DEF GraphInv
<1> QED
  BY <1>1, <1>2, <1>3, <1>5, <1>7, <1>8 DEF GraphInv

\* So does one that adds nothing to the reply and tells nothing of it.
LEMMA GraphTells ==
  ASSUME GraphInv, NEW r \in Reviews,
         NEW from, from # "over", NEW to \in Nodes, Goes(r, from, to), UNCHANGED replied,
         NEW events \in Seq(Tellings), Emits(r, events)
  PROVE  GraphInv' /\ GraphsGoOn
<1>1. replied[r] \in Seq([run : {r}, n : Nat]) /\ replied' = [replied EXCEPT ![r] = replied[r]]
  BY DEF GraphInv
<1>2. Tellings \subseteq Makes(r)'
  BY DEF Makes, Tellings, Create, WorkflowFailed, StateUpdated, AnalysisStarted, NodeEvent, NodeFailed
<1>3. events \in Seq(Makes(r)')
  BY <1>2, SeqGrows
<1> QED
  BY <1>1, <1>3, GraphMoves

\* The event of every chunk is a token of the reply.
LEMMA ChunkKept ==
  ASSUME GraphInv, NEW r \in Reviews, GenerateChunk(r)
  PROVE  GraphInv' /\ GraphsGoOn
<1> DEFINE token == [run |-> r, n |-> Len(replied[r]) + 1]
           reply == Append(replied[r], token)
<1>1. /\ Goes(r, "generating", "generating") /\ replied' = [replied EXCEPT ![r] = reply]
      /\ Emits(r, <<TokenDelta(token)>>)
  BY DEF GenerateChunk
<1>2. replied[r] \in Seq([run : {r}, n : Nat])
  BY DEF GraphInv
<1>3. token \in [run : {r}, n : Nat]
  BY <1>2
<1> HIDE DEF token
<1>4. reply \in Seq([run : {r}, n : Nat]) /\ ToSet(replied[r]) \subseteq ToSet(reply)
      /\ token \in ToSet(reply)
  <2>1. /\ reply \in Seq([run : {r}, n : Nat]) /\ Len(reply) = Len(replied[r]) + 1
        /\ reply[Len(replied[r]) + 1] = token
        /\ \A i \in 1..Len(replied[r]) : reply[i] = replied[r][i]
    BY <1>2, <1>3
  <2> HIDE DEF reply
  <2>2. Len(replied[r]) \in Nat /\ DOMAIN replied[r] = 1..Len(replied[r]) /\ DOMAIN reply = 1..Len(reply)
    BY <1>2, <2>1
  <2>3. token \in ToSet(reply)
    <3>1. Len(replied[r]) + 1 \in DOMAIN reply
      BY <2>1, <2>2
    <3> QED
      BY <2>1, <3>1 DEF ToSet
  <2>4. ASSUME NEW x \in ToSet(replied[r])
        PROVE  x \in ToSet(reply)
    <3>1. PICK i \in DOMAIN replied[r] : x = replied[r][i]
      BY DEF ToSet
    <3>2. i \in DOMAIN reply /\ reply[i] = x
      BY <2>1, <2>2, <3>1
    <3> QED
      BY <3>2 DEF ToSet
  <2> QED
    BY <2>1, <2>3, <2>4
<1> HIDE DEF reply
<1>5. replied'[r] = reply
  BY <1>1 DEF GraphInv
<1>6. TokenDelta(token) \in TokenEvents(r)'
  BY <1>4, <1>5 DEF TokenEvents, TokenDelta, Create
<1>7. <<TokenDelta(token)>> \in Seq(Makes(r)')
  BY <1>6 DEF Makes
<1> QED
  BY <1>1, <1>4, <1>7, GraphMoves DEF Nodes

\* The whole reply is the result.
LEMMA EndKept ==
  ASSUME GraphInv, NEW r \in Reviews, EndGeneration(r)
  PROVE  GraphInv' /\ GraphsGoOn
<1> DEFINE done   == NodeEvent("node_completed", "generation")
           last   == <<done, StateUpdated(replied[r])>>
           events == Append(last, CompletedWith(replied[r]))
<1>1. done.kind # "state_updated"
  BY DEF NodeEvent, Create
<1>2. emitted[r] \in Seq(Makes(r))
  BY DEF GraphInv
<1>3. WorkflowCompleted(emitted[r] \o last) = CompletedWith(replied[r])
  BY <1>1, <1>2, ResultIsLastState
<1>4. Goes(r, "generating", "over") /\ Emits(r, events) /\ UNCHANGED replied
  BY <1>3 DEF EndGeneration, StateAtEnd
<1>5. replied[r] \in Seq([run : {r}, n : Nat]) /\ replied' = [replied EXCEPT ![r] = replied[r]]
  BY <1>4 DEF GraphInv
<1>6. node'[r] = "over"
  BY <1>4 DEF Goes, GraphInv
<1>7. {StateUpdated(replied[r]), CompletedWith(replied[r])} \subseteq Makes(r)'
  BY <1>4, <1>6 DEF Makes, ReplyEvents, StateUpdated, CompletedWith, Create
<1>8. done \in Makes(r)'
  BY DEF Makes, Tellings, NodeEvent, Create
<1>9. events \in Seq(Makes(r)')
  BY <1>7, <1>8
<1> QED
  BY <1>4, <1>5, <1>9, GraphMoves DEF Nodes

\* No node that fails tells of the reply.
LEMMA FailureKept ==
  ASSUME GraphInv, NEW r \in Reviews, NEW from, from # "over",
         NEW reports, reports \subseteq Seq(Tellings), FailNode(r, from, reports)
  PROVE  GraphInv' /\ GraphsGoOn
<1>1. Goes(r, from, "over") /\ UNCHANGED replied
  BY DEF FailNode
<1>2. PICK report \in reports : Emits(r, Append(report, WorkflowFailed))
  BY DEF FailNode
<1>3. WorkflowFailed \in Tellings
  BY DEF Tellings
<1>4. Append(report, WorkflowFailed) \in Seq(Tellings)
  BY <1>2, <1>3
<1> QED
  BY <1>1, <1>2, <1>4, GraphTells DEF Nodes

\* Every step of a graph keeps what is known of the graphs.
LEMMA GraphStepKept ==
  ASSUME GraphInv, NEW r \in Reviews, GraphStep(r)
  PROVE  GraphInv' /\ GraphsGoOn
<1> DEFINE started == Create("workflow_started", NoFields)
           given   == StateUpdated(Null)
           ended   == NodeEvent("node_completed", "analysis")
           failed  == NodeFailed("analysis")
           begun   == NodeEvent("node_started", "generation")
           broken  == NodeFailed("generation")
<1>1. {started, given, AnalysisStarted, ended, failed, begun, broken} \subseteq Tellings
  BY DEF Tellings
<1> HIDE DEF started, given, ended, failed, begun, broken
<1>2. CASE StartWorkflow(r)
  <2>1. Goes(r, "created", "load_hotel_context") /\ Emits(r, <<started>>) /\ UNCHANGED replied
    BY <1>2 DEF StartWorkflow, started
  <2>2. <<started>> \in Seq(Tellings)
    BY <1>1
  <2> QED
    BY <2>1, <2>2, GraphTells DEF Nodes
<1>3. CASE LoadHotelContext(r)
  <2>1. Goes(r, "load_hotel_context", "analysis") /\ Emits(r, <<given, given>>) /\ UNCHANGED replied
    BY <1>3 DEF LoadHotelContext, given
  <2>2. <<given, given>> \in Seq(Tellings)
    BY <1>1
  <2> QED
    BY <2>1, <2>2, GraphTells DEF Nodes
<1>4. CASE Analyse(r)
  <2>1. /\ Goes(r, "analysis", "generate_reply") /\ Emits(r, <<AnalysisStarted, ended, given>>)
        /\ UNCHANGED replied
    BY <1>4 DEF Analyse, given, ended
  <2>2. <<AnalysisStarted, ended, given>> \in Seq(Tellings)
    BY <1>1
  <2> QED
    BY <2>1, <2>2, GraphTells DEF Nodes
<1>5. CASE FailNode(r, "analysis", AnalysisReports)
  <2>1. AnalysisReports = {<<AnalysisStarted, failed>>, <<AnalysisStarted, failed, failed>>}
    BY DEF AnalysisReports, failed
  <2>2. AnalysisReports \subseteq Seq(Tellings)
    BY <1>1, <2>1
  <2> QED
    BY <1>5, <2>2, FailureKept
<1>6. CASE BeginGeneration(r)
  <2>1. Goes(r, "generate_reply", "generating") /\ Emits(r, <<begun>>) /\ UNCHANGED replied
    BY <1>6 DEF BeginGeneration, begun
  <2>2. <<begun>> \in Seq(Tellings)
    BY <1>1
  <2> QED
    BY <2>1, <2>2, GraphTells DEF Nodes
<1>7. CASE FailNode(r, "generating", GenerationReports(r))
  <2>1. GenerationReports(r) \subseteq {<<broken>>, <<broken, broken>>}
    BY DEF GenerationReports, broken
  <2>2. {<<broken>>, <<broken, broken>>} \subseteq Seq(Tellings)
    BY <1>1
  <2>3. GenerationReports(r) \subseteq Seq(Tellings)
    BY <2>1, <2>2
  <2> QED
    BY <1>7, <2>3, FailureKept
<1>8. CASE FailNode(r, "load_hotel_context", ContextReports)
  <2>1. ContextReports = {<<given>>}
    BY DEF ContextReports, given
  <2>2. ContextReports \subseteq Seq(Tellings)
    BY <1>1, <2>1
  <2> QED
    BY <1>8, <2>2, FailureKept
<1> QED
  BY <1>2, <1>3, <1>4, <1>5, <1>6, <1>7, <1>8, ChunkKept, EndKept DEF GraphStep

\* A run that is cancelled was not over.
LEMMA CancelKept ==
  ASSUME GraphInv, NEW r \in Reviews, CancelWorkflow(r)
  PROVE  GraphInv' /\ GraphsGoOn
<1> DEFINE event == Create("workflow_cancelled", NoFields)
<1>1. /\ Goes(r, node[r], "cancelled") /\ node[r] # "over" /\ Emits(r, <<event>>)
      /\ UNCHANGED replied
  BY DEF CancelWorkflow, Goes
<1>2. event \in Tellings
  BY DEF Tellings
<1> HIDE DEF event
<1>3. <<event>> \in Seq(Tellings)
  BY <1>2
<1> QED
  BY <1>1, <1>3, GraphTells DEF Nodes

\* One that is created has made nothing new.
LEMMA CreationKept ==
  ASSUME GraphInv, NEW r \in Reviews, CreateWorkflow(r)
  PROVE  GraphInv' /\ GraphsGoOn
<1>1. Goes(r, "none", "created") /\ UNCHANGED replied
  BY DEF CreateWorkflow
<1>2. Emits(r, <<>>)
  <2>1. emitted = [s \in Reviews |-> emitted[s]] /\ emitted[r] \in Seq(Makes(r))
    BY DEF GraphInv
  <2>2. emitted[r] \o <<>> = emitted[r]
    BY <2>1
  <2> QED
    BY <2>1, <2>2 DEF CreateWorkflow, Emits
<1>3. <<>> \in Seq(Tellings)
  OBVIOUS
<1> QED
  BY <1>1, <1>2, <1>3, GraphTells DEF Nodes

\* Whoever does something else leaves the graphs alone.
LEMMA GraphsStand ==
  ASSUME GraphInv, UNCHANGED graphVars
  PROVE  GraphInv' /\ GraphsGoOn
<1>1. UNCHANGED <<node, replied, emitted>>
  BY DEF graphVars
<1>2. GraphsGoOn
  <2>1. \A r \in Reviews : emitted[r] \in Seq(Makes(r))
    BY DEF GraphInv
  <2>2. \A r \in Reviews : Len(emitted[r]) \in Nat
    BY <2>1
  <2> QED
    BY <1>1, <2>2 DEF GraphsGoOn
<1>3. \A r \in Reviews : Makes(r)' = Makes(r)
  BY <1>1 DEF Makes, Tellings, TokenEvents, ReplyEvents, CompletedWith, TokenDelta, StateUpdated,
              Create, WorkflowFailed, AnalysisStarted, NodeEvent, NodeFailed
<1>4. \A r \in Reviews : emitted'[r] \in Seq(Makes(r)')
  BY <1>1, <1>3 DEF GraphInv
<1> QED
  BY <1>1, <1>2, <1>4 DEF GraphInv
-----------------------------------------------------------------------------
(* The tab *)

\* The answers that calls and streams get may end what is under way, and begin nothing.
OnlyEnds ==
  /\ call' \in [Reviews -> Calls] /\ link' \in [Reviews -> Links]
  /\ CallInv' /\ PlaceInv'
  /\ \A r \in Reviews : UnderWay(r)' => UnderWay(r)
  /\ \A r \in Reviews : Preparing(r)' => Preparing(r)
  /\ \A r \in Reviews : Over(r) => Over(r)' \/ UnderWay(r)

\* Bookkeeping that no invariant depends on.
OtherTypes ==
  /\ place' \in [Reviews -> Nat]
  /\ review' \in BOOLEAN
  /\ mishaps' \in Nat /\ gestures' \in Nat
  /\ ignored' \in BOOLEAN

\* What the panel was told stays as it was told.
LEMMA OverStays ==
  ASSUME GraphsGoOn, TabTypeOK, PlaceInv, NEW r \in Reviews, place'[r] = place[r]
  PROVE  (Over(r)' <=> Over(r)) /\ place'[r] <= Len(emitted'[r])
<1>1. place[r] \in Nat /\ place[r] <= Len(emitted[r]) /\ Len(emitted[r]) <= Len(emitted'[r])
  BY DEF TabTypeOK, PlaceInv, GraphsGoOn
<1>2. place[r] > 0 => emitted'[r][place[r]] = emitted[r][place[r]]
  BY <1>1 DEF GraphsGoOn
<1>3. place'[r] <= Len(emitted'[r])
  BY <1>1
<1> QED
  BY <1>2, <1>3 DEF Over

\* A text that is not touched stays what it is, whatever the graphs do.
LEMMA TextStays ==
  ASSUME PanelInv, GraphsGoOn, UNCHANGED <<view, shown, idles, text, latest, edited, hasty>>,
         overlapped => overlapped'
  PROVE  ViewInv' /\ TextInv' /\ ReplyInv'
<1>1. ViewInv /\ TextInv /\ ReplyInv
  BY DEF PanelInv
<1>2. ViewInv'
  BY <1>1 DEF ViewInv
<1>3. TextInv'
  BY <1>1 DEF TextInv, GraphsGoOn, UsersText
<1>4. ReplyInv'
  BY <1>1 DEF ReplyInv, GraphsGoOn, Offered
<1> QED
  BY <1>2, <1>3, <1>4

\* Nor is anything lost when the panel is not told.
LEMMA NothingShown ==
  ASSUME PanelInv, GraphInv', GraphsGoOn, OnlyEnds, OtherTypes,
         UNCHANGED <<view, shown, idles, text, latest, edited, hasty, overlapped, revived>>
  PROVE  PanelInv'
<1>1. TabTypeOK /\ CalmInv /\ LoneInv
  BY DEF PanelInv
<1>2. TabTypeOK'
  BY <1>1 DEF TabTypeOK, OnlyEnds, OtherTypes, Pieces
<1>3. CalmInv'
  BY <1>1 DEF CalmInv, OnlyEnds
<1>4. LoneInv'
  BY <1>1 DEF LoneInv, OnlyEnds, Offered
<1> QED
  BY <1>2, <1>3, <1>4, TextStays DEF PanelInv, OnlyEnds

\* A panel that shows an error has nothing under way, or was not waited for.
LEMMA ErrorShown ==
  ASSUME PanelInv, UNCHANGED graphVars, OnlyEnds, OtherTypes, ShowError,
         UNCHANGED <<text, latest, edited, hasty, overlapped, revived>>,
         ~hasty /\ ~revived => \A r \in Reviews : ~UnderWay(r)'
  PROVE  PanelInv'
<1>1. TabTypeOK /\ CalmInv /\ LoneInv /\ TextInv /\ GraphInv
  BY DEF PanelInv
<1>2. view' = "error" /\ shown' = "error" /\ UNCHANGED idles
  BY DEF ShowError, SetView
<1>3. TabTypeOK'
  BY <1>1, <1>2 DEF TabTypeOK, OnlyEnds, OtherTypes, Pieces, Views
<1>4. CalmInv'
  BY <1>1, <1>2 DEF CalmInv, OnlyEnds
<1>5. LoneInv'
  BY <1>1, <1>2 DEF LoneInv, OnlyEnds, Offered
<1>6. TextInv'
  BY <1>1 DEF TextInv, UsersText, graphVars
<1>7. ViewInv' /\ ReplyInv'
  BY <1>2 DEF ViewInv, ReplyInv, Offered
<1> QED
  BY <1>1, <1>3, <1>4, <1>5, <1>6, <1>7, GraphsStand DEF PanelInv, OnlyEnds

\* What a call answered becomes of what is under way.
LEMMA Answered ==
  ASSUME PanelInv, GraphsGoOn, NEW r \in Reviews,
         NEW from \in {"page", "invite", "post", "created"},
         NEW to \in {"invite", "created", "done"},
         to = "invite" => from = "page", to = "created" => from = "post",
         Asked(r, from, to), UNCHANGED <<link, place>>
  PROVE  /\ OnlyEnds
         /\ IF from \in {"page", "invite"} THEN Preparing(r) ELSE UnderWay(r)
         /\ to = "done" => ~UnderWay(r)' /\ ~Preparing(r)'
<1>1. TabTypeOK /\ CallInv /\ PlaceInv
  BY DEF PanelInv
<1>2. /\ call[r] = from /\ call'[r] = to /\ call' \in [Reviews -> Calls]
      /\ \A s \in Reviews \ {r} : call'[s] = call[s]
  BY <1>1 DEF Asked, TabTypeOK, Calls
<1>3. link[r] = "none"
  BY <1>1, <1>2 DEF CallInv, TabTypeOK
<1>4. CallInv'
  BY <1>1, <1>2, <1>3 DEF CallInv
<1>5. /\ \A s \in Reviews : UnderWay(s)' => UnderWay(s)
      /\ \A s \in Reviews : Preparing(s)' => Preparing(s)
  BY <1>2, <1>3 DEF UnderWay, Streaming, Preparing
<1>6. IF from \in {"page", "invite"} THEN Preparing(r) ELSE UnderWay(r)
  BY <1>2 DEF UnderWay, Preparing
<1>7. to = "done" => ~UnderWay(r)' /\ ~Preparing(r)'
  BY <1>2, <1>3 DEF UnderWay, Streaming, Preparing
<1>8. PlaceInv' /\ \A s \in Reviews : Over(s) => Over(s)'
  BY <1>1, OverStays DEF PlaceInv
<1> QED
  BY <1>1, <1>2, <1>4, <1>5, <1>6, <1>7, <1>8 DEF OnlyEnds, TabTypeOK

\* Of a user who waits one run is under way at most.
LEMMA LastEnds ==
  ASSUME PanelInv, NEW r \in Reviews, UnderWay(r) \/ Preparing(r), ~UnderWay(r)', OnlyEnds
  PROVE  ~hasty /\ ~revived => \A s \in Reviews : ~UnderWay(s)'
BY DEF PanelInv, CalmInv, LoneInv, OnlyEnds

\* None of these steps changes what the type invariant says of the rest.
LEMMA OthersTyped ==
  ASSUME PanelInv, UNCHANGED <<place, review, gestures>>,
         UNCHANGED mishaps \/ Mishap, ignored' = ignored \/ ignored' = TRUE
  PROVE  OtherTypes
<1>1. TabTypeOK
  BY DEF PanelInv
<1>2. mishaps' \in Nat /\ gestures' \in Nat
  BY <1>1 DEF TabTypeOK, Mishap
<1>3. place' \in [Reviews -> Nat] /\ review' \in BOOLEAN /\ ignored' \in BOOLEAN
  BY <1>1 DEF TabTypeOK
<1> QED
  BY <1>2, <1>3 DEF OtherTypes
-----------------------------------------------------------------------------
(* The answers *)

\* The question whether there is an invite code is not shown.
LEMMA FindReviewKept ==
  ASSUME PanelInv, NEW r \in Reviews, FindReview(r)
  PROVE  PanelInv'
<1>1. TabTypeOK /\ GraphInv
  BY DEF PanelInv
<1>2. /\ UNCHANGED <<graphVars, view, shown, idles, text, link, place, mishaps, gestures>>
      /\ UNCHANGED <<latest, edited, hasty, overlapped, revived, ignored>>
      /\ review' = TRUE /\ Asked(r, "page", "invite")
  BY DEF FindReview, pastVars
<1>3. GraphInv' /\ GraphsGoOn
  BY <1>1, <1>2, GraphsStand
<1>4. OnlyEnds
  BY <1>2, <1>3, Answered
<1>5. OtherTypes
  BY <1>1, <1>2 DEF OtherTypes, TabTypeOK
<1> QED
  BY <1>2, <1>3, <1>4, <1>5, NothingShown

\* Without a review the panel starts over, with the old buttons for a while.
LEMMA NoReviewKept ==
  ASSUME PanelInv, NEW r \in Reviews, NoReview(r)
  PROVE  PanelInv'
<1>1. TabTypeOK /\ GraphInv /\ CalmInv /\ LoneInv /\ TextInv /\ ReplyInv
  BY DEF PanelInv
<1>2. /\ UNCHANGED <<graphVars, shown, review, text, link, place, mishaps, gestures>>
      /\ UNCHANGED <<latest, edited, hasty, overlapped, revived, ignored>>
      /\ view' = "idle" /\ idles' = idles + 1 /\ Asked(r, "page", "done")
  BY DEF NoReview, SetIdle, pastVars
<1>3. GraphInv' /\ GraphsGoOn
  BY <1>1, <1>2, GraphsStand
<1>4. OnlyEnds /\ Preparing(r) /\ ~UnderWay(r)' /\ ~Preparing(r)'
  BY <1>2, <1>3, Answered
<1>5. idles' \in Nat /\ idles' > 0
  BY <1>1, <1>2 DEF TabTypeOK
<1>6. TabTypeOK'
  BY <1>1, <1>2, <1>4, <1>5 DEF TabTypeOK, OnlyEnds, Views
<1>7. CalmInv'
  <2> SUFFICES ASSUME ~hasty, ~revived
               PROVE  CalmInv'
    BY <1>2 DEF CalmInv
  <2>1. \A s \in Reviews : ~UnderWay(s)' /\ ~Preparing(s)'
    BY <1>1, <1>4 DEF CalmInv, OnlyEnds
  <2> QED
    BY <1>1, <1>2, <2>1 DEF CalmInv
<1>8. Offered' => Offered
  BY <1>2 DEF Offered
<1>9. LoneInv'
  BY <1>1, <1>2, <1>4, <1>8 DEF LoneInv, OnlyEnds
<1>10. ViewInv'
  BY <1>5 DEF ViewInv
<1>11. UNCHANGED <<node, replied>>
  BY <1>2 DEF graphVars
<1>12. TextInv'
  BY <1>1, <1>2, <1>11 DEF TextInv, UsersText
<1>13. ReplyInv'
  BY <1>1, <1>2, <1>8, <1>11 DEF ReplyInv
<1> QED
  BY <1>3, <1>4, <1>6, <1>7, <1>9, <1>10, <1>12, <1>13 DEF PanelInv, OnlyEnds

\* An answer that says that there will be no run shows an error.
LEMMA RefusalKept ==
  ASSUME PanelInv, NEW r \in Reviews, NoCodeStored(r) \/ Refuse(r)
  PROVE  PanelInv'
<1>1. PICK from \in {"invite", "post"} : Asked(r, from, "done")
  BY DEF NoCodeStored, Refuse
<1>2. /\ UNCHANGED <<graphVars, review, text, link, place, mishaps, gestures, pastVars>>
      /\ ShowError
  BY DEF NoCodeStored, Refuse, ShowError
<1>3. /\ UNCHANGED <<review, link, place, mishaps, gestures>>
      /\ UNCHANGED <<latest, edited, hasty, overlapped, revived, ignored>>
  BY <1>2 DEF pastVars
<1>4. OtherTypes
  BY <1>2, <1>3, OthersTyped
<1>5. GraphsGoOn
  BY <1>2, GraphsStand DEF PanelInv
<1>6. OnlyEnds /\ (UnderWay(r) \/ Preparing(r)) /\ ~UnderWay(r)'
  BY <1>1, <1>3, <1>5, Answered
<1>7. ~hasty /\ ~revived => \A s \in Reviews : ~UnderWay(s)'
  BY <1>6, LastEnds
<1> QED
  BY <1>2, <1>3, <1>4, <1>6, <1>7, ErrorShown

\* The panel is not told of a run that is created, or of an answer that is lost.
LEMMA CreateRunKept ==
  ASSUME PanelInv, NEW r \in Reviews, CreateRun(r) \/ LoseRequest(r)
  PROVE  PanelInv'
<1>1. PICK from \in {"post", "created"}, to \in {"created", "done"} :
        Asked(r, from, to) /\ (to = "created" => from = "post")
  BY DEF CreateRun, LoseRequest
<1>2. /\ UNCHANGED <<view, shown, idles, review, text, link, place, gestures>>
      /\ UNCHANGED <<latest, edited, hasty, overlapped, revived>>
      /\ UNCHANGED mishaps \/ Mishap
      /\ ignored' = ignored \/ ignored' = TRUE
  BY DEF CreateRun, LoseRequest, panelVars, pastVars
<1>3. GraphInv' /\ GraphsGoOn
  BY CreationKept, GraphsStand DEF CreateRun, LoseRequest, PanelInv
<1>4. OtherTypes
  BY <1>2, OthersTyped
<1>5. OnlyEnds
  BY <1>1, <1>2, <1>3, Answered
<1> QED
  BY <1>2, <1>3, <1>4, <1>5, NothingShown

\* Nor of a stream that is opened, of a run that is under way already.
LEMMA ConnectKept ==
  ASSUME PanelInv, NEW r \in Reviews, Connect(r)
  PROVE  PanelInv'
<1>1. TabTypeOK /\ CallInv /\ PlaceInv /\ GraphInv
  BY DEF PanelInv
<1>2. /\ call[r] = "created" /\ call'[r] = "done" /\ call' \in [Reviews -> Calls]
      /\ \A s \in Reviews \ {r} : call'[s] = call[s]
  BY <1>1 DEF Connect, Asked, TabTypeOK, Calls
<1>3. /\ link' \in [Reviews -> Links]
      /\ \A s \in Reviews \ {r} : link'[s] = link[s]
  BY <1>1 DEF Connect, TabTypeOK, Links
<1>4. /\ UNCHANGED <<view, shown, idles, review, text, mishaps, gestures>>
      /\ UNCHANGED <<latest, edited, hasty, overlapped, revived, ignored>>
  BY DEF Connect, panelVars, pastVars
<1>5. CallInv'
  BY <1>1, <1>2, <1>3 DEF CallInv
<1>6. GraphInv' /\ GraphsGoOn
  BY <1>1, GraphsStand DEF Connect
<1>7. /\ UNCHANGED emitted /\ emitted[r] \in Seq(Makes(r))
      /\ place' \in [Reviews -> Nat] /\ place'[r] = FirstPlace(r)
      /\ \A s \in Reviews \ {r} : place'[s] = place[s]
  BY <1>1 DEF Connect, TabTypeOK, FirstPlace, GraphInv, graphVars
<1>8. place'[r] <= Len(emitted'[r])
  <2>1. emitted[r] # <<>> => 1 <= Len(emitted[r])
    BY <1>7
  <2> QED
    BY <1>7, <2>1 DEF FirstPlace
<1>9. \A s \in Reviews \ {r} : (Over(s)' <=> Over(s)) /\ place'[s] <= Len(emitted'[s])
  BY <1>1, <1>6, <1>7, OverStays
<1>10. UnderWay(r)
  BY <1>2 DEF UnderWay
<1>11. /\ \A s \in Reviews : UnderWay(s)' => UnderWay(s)
       /\ \A s \in Reviews : Preparing(s)' => Preparing(s)
  BY <1>2, <1>3, <1>10 DEF UnderWay, Streaming, Preparing
<1>12. OnlyEnds
  BY <1>2, <1>3, <1>5, <1>8, <1>9, <1>10, <1>11 DEF OnlyEnds, PlaceInv
<1>13. OtherTypes
  BY <1>1, <1>4, <1>7 DEF OtherTypes, TabTypeOK
<1> QED
  BY <1>4, <1>6, <1>12, <1>13, NothingShown

\* A start beside another run, or while another click waits, is counted as one.
LEMMA StartRunKept ==
  ASSUME PanelInv, NEW r \in Reviews, StartRun(r)
  PROVE  PanelInv'
<1>1. TabTypeOK /\ CallInv /\ GraphInv /\ CalmInv /\ LoneInv /\ PlaceInv
  BY DEF PanelInv
<1>2. PICK to \in {"post", "done"} : Asked(r, "invite", to)
  BY DEF StartRun
<1>3. /\ call[r] = "invite" /\ call'[r] = to /\ call' \in [Reviews -> Calls]
      /\ \A s \in Reviews \ {r} : call'[s] = call[s]
  BY <1>1, <1>2 DEF Asked, TabTypeOK, Calls
<1>4. /\ UNCHANGED <<graphVars, review, link, place, mishaps, gestures, hasty, revived, ignored>>
      /\ text' = <<>> /\ latest' = r /\ edited' = FALSE
      /\ overlapped' = (overlapped \/ \E s \in Reviews : UnderWay(s))
  BY DEF StartRun, Emptied
<1>5. /\ view' = shown' /\ shown' \in {"running", "error"} /\ UNCHANGED idles
      /\ call'[r] = "post" => shown' = "running"
  <2>1. CASE Asked(r, "invite", "post") /\ ViewRunning
    BY <2>1 DEF ViewRunning, SetView
  <2>2. CASE Asked(r, "invite", "done") /\ SetView("error")
    BY <1>1, <2>2 DEF SetView, Asked, TabTypeOK
  <2> QED
    BY <2>1, <2>2 DEF StartRun
<1>6. link[r] = "none" /\ CallInv'
  BY <1>1, <1>3, <1>4 DEF CallInv, TabTypeOK
<1>7. /\ \A s \in Reviews \ {r} : UnderWay(s)' <=> UnderWay(s)
      /\ \A s \in Reviews \ {r} : Preparing(s)' <=> Preparing(s)
      /\ UnderWay(r)' => call'[r] = "post"
      /\ ~Preparing(r)' /\ Preparing(r)
  BY <1>2, <1>3, <1>4, <1>6 DEF UnderWay, Streaming, Preparing
<1>8. TabTypeOK'
  <2>1. overlapped' \in BOOLEAN
    BY <1>4
  <2>2. text' \in Seq(Pieces) /\ view' \in Views /\ shown' \in Views \ {"none"}
    BY <1>4, <1>5 DEF Views
  <2> QED
    BY <1>1, <1>3, <1>4, <1>5, <2>1, <2>2 DEF TabTypeOK
<1>9. CalmInv'
  <2> SUFFICES ASSUME ~hasty, ~revived
               PROVE  CalmInv'
    BY <1>4 DEF CalmInv
  <2>1. \A s \in Reviews : ~UnderWay(s) /\ (Preparing(s) => s = r)
    BY <1>1, <1>7 DEF CalmInv
  <2>2. idles = 0 /\ ~overlapped
    BY <1>1, <1>7 DEF CalmInv
  <2>3. \A s \in Reviews : ~Preparing(s)' /\ (UnderWay(s)' => s = r)
    BY <1>7, <2>1
  <2>4. ~overlapped' /\ idles' = 0 /\ view' # "none"
    BY <1>4, <1>5, <2>1, <2>2
  <2> QED
    BY <1>5, <1>7, <2>3, <2>4 DEF CalmInv
<1>10. ~Offered'
  BY <1>5 DEF Offered
<1>11. LoneInv'
  BY <1>4, <1>7, <1>10 DEF LoneInv
<1>12. ViewInv' /\ TextInv' /\ ReplyInv'
  BY <1>4, <1>5, <1>10 DEF ViewInv, TextInv, ReplyInv
<1>13. PlaceInv' /\ GraphInv'
  BY <1>1, <1>4, GraphsStand, OverStays DEF PlaceInv
<1> QED
  BY <1>6, <1>8, <1>9, <1>11, <1>12, <1>13 DEF PanelInv
-----------------------------------------------------------------------------
(* The user *)

\* What the user does with a panel neither begins nor ends a run.
LEMMA GestureStands ==
  ASSUME PanelInv, Gesture, UNCHANGED <<review, latest, overlapped, revived, ignored>>
  PROVE  /\ GraphInv' /\ CallInv' /\ PlaceInv' /\ UNCHANGED <<node, replied>>
         /\ \A r \in Reviews : UnderWay(r)' <=> UnderWay(r)
         /\ \A r \in Reviews : Preparing(r)' <=> Preparing(r)
         /\ \A r \in Reviews : Over(r)' <=> Over(r)
         /\ OtherTypes
<1>1. TabTypeOK /\ CallInv /\ PlaceInv /\ GraphInv
  BY DEF PanelInv
<1>2. UNCHANGED <<graphVars, call, link, place, mishaps>> /\ gestures' = gestures + 1
  BY DEF Gesture
<1>3. UNCHANGED <<node, replied, emitted>>
  BY <1>2 DEF graphVars
<1>4. GraphInv'
  BY <1>1, <1>2, GraphsStand
<1>5. CallInv' /\ PlaceInv'
  BY <1>1, <1>2, <1>3 DEF CallInv, PlaceInv
<1>6. \A r \in Reviews : (UnderWay(r)' <=> UnderWay(r)) /\ (Preparing(r)' <=> Preparing(r))
  BY <1>2 DEF UnderWay, Streaming, Preparing
<1>7. \A r \in Reviews : Over(r)' <=> Over(r)
  BY <1>2, <1>3 DEF Over
<1>8. OtherTypes
  BY <1>1, <1>2 DEF OtherTypes, TabTypeOK
<1> QED
  BY <1>3, <1>4, <1>5, <1>6, <1>7, <1>8

\* A panel that was closed starts over.
LEMMA OpenKept ==
  ASSUME PanelInv, OpenPanel
  PROVE  PanelInv'
<1>1. TabTypeOK /\ CalmInv /\ LoneInv /\ ReplyInv
  BY DEF PanelInv
<1>2. /\ view = "none" /\ view' = "idle" /\ idles' = idles + 1 /\ UNCHANGED <<shown, call, link>>
      /\ text' = <<>> /\ edited' = FALSE
      /\ Gesture /\ UNCHANGED <<review, latest, overlapped, revived, ignored>> /\ UNCHANGED hasty
  BY DEF OpenPanel, SetIdle, Gesture
<1>3. /\ GraphInv' /\ CallInv' /\ PlaceInv' /\ UNCHANGED <<node, replied>> /\ OtherTypes
      /\ \A r \in Reviews : UnderWay(r)' <=> UnderWay(r)
      /\ \A r \in Reviews : Preparing(r)' <=> Preparing(r)
      /\ \A r \in Reviews : Over(r)' <=> Over(r)
  BY <1>2, GestureStands
<1>4. idles' \in Nat /\ idles' > 0
  BY <1>1, <1>2 DEF TabTypeOK
<1>5. TabTypeOK'
  <2>1. text' \in Seq(Pieces) /\ view' \in Views
    BY <1>2 DEF Views
  <2> QED
    BY <1>1, <1>2, <1>3, <1>4, <2>1 DEF TabTypeOK, OtherTypes
<1>6. CalmInv'
  <2> SUFFICES ASSUME ~hasty, ~revived
               PROVE  CalmInv'
    BY <1>2 DEF CalmInv
  <2>1. ~overlapped /\ \A r \in Reviews : ~UnderWay(r) /\ ~Preparing(r)
    BY <1>1, <1>2 DEF CalmInv
  <2> QED
    BY <1>2, <1>3, <2>1 DEF CalmInv
<1>7. Offered' => Offered
  BY <1>2 DEF Offered
<1>8. LoneInv'
  BY <1>1, <1>2, <1>3, <1>7 DEF LoneInv
<1>9. ViewInv' /\ TextInv'
  BY <1>2, <1>4 DEF ViewInv, TextInv
<1>10. ReplyInv'
  BY <1>1, <1>2, <1>3, <1>7 DEF ReplyInv
<1> QED
  BY <1>3, <1>5, <1>6, <1>8, <1>9, <1>10 DEF PanelInv

\* A button that edits the text is there when the text is offered.  Who presses it
\* while it is about to be replaced does not wait.
LEMMA EditKept ==
  ASSUME PanelInv, Edit \/ CancelEdit \/ ConfirmEdit
  PROVE  PanelInv'
<1>1. TabTypeOK /\ CalmInv /\ LoneInv /\ ViewInv /\ TextInv /\ ReplyInv
  BY DEF PanelInv
<1>2. /\ view # "none" /\ shown \in {"completed", "editing"}
      /\ hasty' = (hasty \/ idles > 0)
      /\ Gesture /\ UNCHANGED <<review, latest, overlapped, revived, ignored>> /\ UNCHANGED idles
  BY DEF Edit, CancelEdit, ConfirmEdit, Press, SetView
<1>3. /\ GraphInv' /\ CallInv' /\ PlaceInv' /\ UNCHANGED <<node, replied>> /\ OtherTypes
      /\ \A r \in Reviews : UnderWay(r)' <=> UnderWay(r)
      /\ \A r \in Reviews : Preparing(r)' <=> Preparing(r)
      /\ \A r \in Reviews : Over(r)' <=> Over(r)
  BY <1>2, GestureStands
<1>4. \/ view' = shown' /\ shown' \in {"completed", "editing"}
      \/ UNCHANGED <<view, shown>>
  BY DEF Edit, CancelEdit, ConfirmEdit, SetView
<1>5. \/ UNCHANGED <<text, edited>>
      \/ text' = UsersText /\ edited' = TRUE
  BY DEF Edit, CancelEdit, ConfirmEdit
<1>6. UNCHANGED <<call, link>>
  BY <1>2 DEF Gesture
<1>7. TabTypeOK'
  <2>1. UsersText \in Seq(Pieces)
    <3>1. [run |-> Null, n |-> 0] \in Pieces
      BY DEF Pieces
    <3> QED
      BY <3>1 DEF UsersText
  <2>2. text \in Seq(Pieces) /\ edited \in BOOLEAN
    BY <1>1 DEF TabTypeOK
  <2>3. text' = text \/ text' = UsersText
    BY <1>5, Zenon
  <2>4. text' \in Seq(Pieces)
    BY <2>1, <2>2, <2>3
  <2>5. edited' \in BOOLEAN
    BY <1>5, <2>2
  <2>6. view' \in Views /\ shown' \in Views \ {"none"}
    BY <1>1, <1>4 DEF TabTypeOK, Views
  <2>7. hasty' \in BOOLEAN
    BY <1>2
  <2> QED
    BY <1>1, <1>2, <1>3, <1>6, <2>4, <2>5, <2>6, <2>7 DEF TabTypeOK, OtherTypes
<1>8. CalmInv'
  <2> SUFFICES ASSUME ~hasty, ~revived
               PROVE  CalmInv'
    BY <1>2 DEF CalmInv
  <2>1. ~overlapped /\ \A r \in Reviews : ~UnderWay(r)
    BY <1>1, <1>2 DEF CalmInv
  <2>2. view' # "none" /\ UNCHANGED idles
    BY <1>2, <1>4
  <2> QED
    BY <1>1, <1>2, <1>3, <2>1, <2>2 DEF CalmInv
<1>9. Offered /\ Offered'
  BY <1>2, <1>4 DEF Offered
<1>10. LoneInv'
  BY <1>1, <1>2, <1>3, <1>9 DEF LoneInv
<1>11. ViewInv'
  BY <1>1, <1>2, <1>4 DEF ViewInv
<1>12. TextInv'
  BY <1>1, <1>2, <1>3, <1>5 DEF TextInv, UsersText
<1>13. ReplyInv'
  <2> SUFFICES ASSUME ~overlapped
               PROVE  ReplyInv'
    BY <1>2 DEF ReplyInv
  <2>1. /\ latest \in Reviews /\ node[latest] = "over"
        /\ \/ edited \/ text = replied[latest]
           \/ text = <<>> /\ (hasty \/ view \notin {"completed", "editing"})
    BY <1>1, <1>9 DEF ReplyInv
  <2>2. hasty \/ view \notin {"completed", "editing"} => hasty'
    <3>1. view = shown \/ idles > 0
      BY <1>1, <1>2 DEF ViewInv
    <3> QED
      BY <1>2, <3>1
  <2>3. \/ edited' \/ text' = replied[latest]
        \/ text' = <<>> /\ hasty'
    BY <1>5, <2>1, <2>2
  <2> QED
    BY <1>2, <1>3, <2>1, <2>3 DEF ReplyInv
<1> QED
  BY <1>3, <1>7, <1>8, <1>10, <1>11, <1>12, <1>13 DEF PanelInv

\* A panel that is closed keeps no text, and whoever closes it while something is
\* under way does not wait.
LEMMA DismissKept ==
  ASSUME PanelInv, DismissPanel
  PROVE  PanelInv'
<1>1. TabTypeOK /\ CalmInv /\ LoneInv /\ ReplyInv
  BY DEF PanelInv
<1>2. /\ view' = "none" /\ text' = <<>> /\ edited' = FALSE
      /\ hasty' = (hasty \/ \E r \in Reviews : UnderWay(r) \/ Preparing(r))
      /\ Gesture /\ UNCHANGED <<review, latest, overlapped, revived, ignored>>
      /\ UNCHANGED <<shown, idles>>
  BY DEF DismissPanel
<1>3. /\ GraphInv' /\ CallInv' /\ PlaceInv' /\ UNCHANGED <<node, replied>> /\ OtherTypes
      /\ \A r \in Reviews : UnderWay(r)' <=> UnderWay(r)
      /\ \A r \in Reviews : Preparing(r)' <=> Preparing(r)
      /\ \A r \in Reviews : Over(r)' <=> Over(r)
  BY <1>2, GestureStands
<1>4. UNCHANGED <<call, link>>
  BY <1>2 DEF Gesture
<1>5. TabTypeOK'
  <2>1. hasty' \in BOOLEAN
    BY <1>2
  <2>2. text' \in Seq(Pieces) /\ view' \in Views
    BY <1>2 DEF Views
  <2> QED
    BY <1>1, <1>2, <1>3, <1>4, <2>1, <2>2 DEF TabTypeOK, OtherTypes
<1>6. CalmInv'
  <2> SUFFICES ASSUME ~hasty, ~revived, \A r \in Reviews : ~UnderWay(r) /\ ~Preparing(r)
               PROVE  CalmInv'
    BY <1>2 DEF CalmInv
  <2>1. ~overlapped
    BY <1>1 DEF CalmInv
  <2> QED
    BY <1>2, <1>3, <2>1 DEF CalmInv
<1>7. Offered' => Offered
  BY <1>2 DEF Offered
<1>8. LoneInv'
  BY <1>1, <1>2, <1>3, <1>7 DEF LoneInv
<1>9. ViewInv' /\ TextInv'
  BY <1>2 DEF ViewInv, TextInv
<1>10. ReplyInv'
  BY <1>1, <1>2, <1>3, <1>7 DEF ReplyInv
<1> QED
  BY <1>3, <1>5, <1>6, <1>8, <1>9, <1>10 DEF PanelInv

\* A click waits for the page, or for the answer on the invite code.
LEMMA ClickKept ==
  ASSUME PanelInv, NEW r \in Reviews, Click(r)
  PROVE  PanelInv'
<1>1. TabTypeOK /\ CallInv /\ PlaceInv /\ GraphInv /\ CalmInv /\ LoneInv
  BY DEF PanelInv
<1>2. ViewInv /\ TextInv /\ ReplyInv
  BY DEF PanelInv
<1>3. PICK to \in {"page", "invite"} : Asked(r, "unused", to)
  BY DEF Click
<1>4. /\ call[r] = "unused" /\ call'[r] = to /\ call' \in [Reviews -> Calls]
      /\ \A s \in Reviews \ {r} : call'[s] = call[s]
  BY <1>1, <1>3 DEF Asked, TabTypeOK, Calls
<1>5. /\ UNCHANGED <<graphVars, view, shown, idles, review, text, link, place, mishaps, gestures>>
      /\ UNCHANGED <<latest, edited, overlapped, revived, ignored>>
      /\ hasty' = (hasty \/ idles > 0 \/ \E s \in Reviews : Preparing(s))
      /\ shown \in {"idle", "completed", "error"} /\ view # "none"
  BY DEF Click, panelVars
<1>6. link[r] = "none" /\ CallInv'
  BY <1>1, <1>4, <1>5 DEF CallInv, TabTypeOK
<1>7. /\ \A s \in Reviews : UnderWay(s)' <=> UnderWay(s)
      /\ \A s \in Reviews \ {r} : Preparing(s)' <=> Preparing(s)
  BY <1>3, <1>4, <1>5, <1>6 DEF UnderWay, Streaming, Preparing
<1>8. UNCHANGED <<node, replied, emitted>>
  BY <1>5 DEF graphVars
<1>9. TabTypeOK'
  <2>1. hasty' \in BOOLEAN
    BY <1>5
  <2> QED
    BY <1>1, <1>4, <1>5, <2>1 DEF TabTypeOK
<1>10. CalmInv'
  <2> SUFFICES ASSUME ~hasty, ~revived, ~(idles > 0), \A s \in Reviews : ~Preparing(s)
               PROVE  CalmInv'
    BY <1>5 DEF CalmInv
  <2>1. ~overlapped /\ \A s \in Reviews : ~UnderWay(s)
    BY <1>1, <1>5 DEF CalmInv
  <2>2. \A s \in Reviews \ {r} : ~Preparing(s)'
    BY <1>7
  <2>3. idles' = 0
    BY <1>1, <1>5 DEF TabTypeOK
  <2>4. \A s \in Reviews : ~UnderWay(s)'
    BY <1>7, <2>1
  <2> QED
    BY <1>5, <2>1, <2>2, <2>3, <2>4 DEF CalmInv
<1>11. /\ Offered' <=> Offered
       /\ \A s \in Reviews : Over(s)' <=> Over(s)
  BY <1>5, <1>8 DEF Offered, Over
<1>12. LoneInv'
  BY <1>1, <1>5, <1>7, <1>11 DEF LoneInv
<1>13. ViewInv' /\ PlaceInv'
  BY <1>1, <1>2, <1>5, <1>8 DEF ViewInv, PlaceInv
<1>14. TextInv'
  BY <1>2, <1>5, <1>8 DEF TextInv, UsersText
<1>15. ReplyInv'
  <2>1. hasty => hasty'
    BY <1>5
  <2> QED
    BY <1>2, <1>5, <1>8, <1>11, <2>1 DEF ReplyInv
<1> QED
  BY <1>1, <1>5, <1>6, <1>9, <1>10, <1>12, <1>13, <1>14, <1>15, GraphsStand DEF PanelInv

\* A rendering that comes late hides buttons, and never those of a run that was waited for.
LEMMA RenderKept ==
  ASSUME PanelInv, RenderIdle
  PROVE  PanelInv'
<1>1. TabTypeOK /\ CallInv /\ PlaceInv /\ GraphInv /\ CalmInv /\ LoneInv /\ TextInv /\ ReplyInv
  BY DEF PanelInv
<1>2. /\ UNCHANGED <<graphVars, view, review, text, call, link, place, mishaps, gestures>>
      /\ UNCHANGED <<latest, edited, hasty, overlapped, revived, ignored>>
      /\ idles > 0 /\ idles' = idles - 1 /\ shown' = "idle"
  BY DEF RenderIdle, pastVars
<1>3. UNCHANGED <<node, replied, emitted>>
  BY <1>2 DEF graphVars
<1>4. CallInv' /\ PlaceInv'
  BY <1>1, <1>2, <1>3 DEF CallInv, PlaceInv
<1>5. TabTypeOK'
  <2>1. idles' \in Nat
    BY <1>1, <1>2 DEF TabTypeOK
  <2> QED
    BY <1>1, <1>2, <2>1 DEF TabTypeOK, Views
<1>6. \A s \in Reviews :
        (UnderWay(s)' <=> UnderWay(s)) /\ (Preparing(s)' <=> Preparing(s)) /\ (Over(s)' <=> Over(s))
  BY <1>2, <1>3 DEF UnderWay, Streaming, Preparing, Over
<1>7. CalmInv'
  <2> SUFFICES ASSUME ~hasty, ~revived
               PROVE  CalmInv'
    BY <1>2 DEF CalmInv
  <2>1. ~overlapped /\ \A s \in Reviews : ~UnderWay(s) /\ ~Preparing(s)
    BY <1>1, <1>2 DEF CalmInv, TabTypeOK
  <2> QED
    BY <1>2, <1>6, <2>1 DEF CalmInv
<1>8. Offered' => Offered
  BY <1>2 DEF Offered
<1>9. LoneInv'
  BY <1>1, <1>2, <1>6, <1>8 DEF LoneInv
<1>10. ViewInv' /\ TextInv'
  BY <1>1, <1>2, <1>3 DEF ViewInv, TextInv, UsersText
<1>11. ReplyInv'
  BY <1>1, <1>2, <1>3, <1>8 DEF ReplyInv
<1> QED
  BY <1>1, <1>2, <1>4, <1>5, <1>7, <1>9, <1>10, <1>11, GraphsStand DEF PanelInv
-----------------------------------------------------------------------------
(* The messages *)

\* Who sent a message goes on as before.
Untouched ==
  /\ UNCHANGED <<graphVars, call, review>>
  /\ UNCHANGED <<latest, hasty, overlapped, revived>>
  /\ OtherTypes

\* A started event shows the running view, or opens a panel that was closed.
LEMMA StartedShown ==
  ASSUME PanelInv, NEW r \in Reviews, UnderWay(r), Untouched, OnlyEnds, UNCHANGED link, HandleStarted
  PROVE  PanelInv'
<1>1. TabTypeOK /\ GraphInv /\ CalmInv /\ LoneInv /\ TextInv
  BY DEF PanelInv
<1>2. /\ UNCHANGED <<graphVars, call, link, review, latest, hasty, overlapped, revived, edited>>
      /\ view' = "running" /\ shown' = "running"
      /\ text' = <<>> \/ UNCHANGED text
      /\ view # "none" => UNCHANGED idles
      /\ idles' = idles \/ idles' = idles + 1
  BY DEF Untouched, HandleStarted
<1>3. TabTypeOK'
  <2>1. <<>> \in Seq(Pieces) /\ text \in Seq(Pieces)
    BY <1>1 DEF TabTypeOK
  <2>2. text' \in Seq(Pieces)
    BY <1>2, <2>1
  <2>3. view' \in Views /\ shown' \in Views \ {"none"}
    BY <1>2 DEF Views
  <2>4. idles' \in Nat
    BY <1>1, <1>2 DEF TabTypeOK
  <2> QED
    BY <1>1, <1>2, <2>2, <2>3, <2>4 DEF TabTypeOK, Untouched, OtherTypes
<1>4. CalmInv'
  <2> SUFFICES ASSUME ~hasty, ~revived
               PROVE  CalmInv'
    BY <1>2 DEF CalmInv
  <2>1. view # "none" /\ idles = 0 /\ ~overlapped
    BY <1>1 DEF CalmInv
  <2>2. idles' = 0 /\ view' # "none"
    BY <1>2, <2>1
  <2> QED
    BY <1>1, <1>2, <2>1, <2>2 DEF CalmInv, OnlyEnds
<1>5. ~Offered'
  BY <1>2 DEF Offered
<1>6. ~overlapped => ~edited /\ r = latest
  BY <1>1 DEF LoneInv
<1>7. LoneInv'
  BY <1>1, <1>2, <1>5, <1>6 DEF LoneInv, OnlyEnds
<1>8. ViewInv' /\ ReplyInv'
  BY <1>2, <1>5 DEF ViewInv, ReplyInv
<1>9. TextInv'
  <2>1. UNCHANGED replied
    BY <1>2 DEF graphVars
  <2> QED
    BY <1>1, <1>2, <1>6, <2>1 DEF TextInv
<1> QED
  BY <1>1, <1>2, <1>3, <1>4, <1>7, <1>8, <1>9, GraphsStand DEF PanelInv, OnlyEnds

\* A token is added to the text of its run.
LEMMA TokenShown ==
  ASSUME PanelInv, NEW r \in Reviews, UnderWay(r), Untouched, OnlyEnds, UNCHANGED link,
         NEW token \in ToSet(replied[r]),
         NEW e, e.own["delta"] \in {<<token>>, <<>>}, HandleTokenDelta(e)
  PROVE  PanelInv'
<1>1. TabTypeOK /\ GraphInv /\ CalmInv /\ LoneInv /\ ViewInv /\ TextInv /\ ReplyInv
  BY DEF PanelInv
<1>2. /\ UNCHANGED <<graphVars, call, link, review, latest, hasty, overlapped, revived>>
      /\ UNCHANGED <<edited, view, shown, idles>>
  BY DEF Untouched, HandleTokenDelta
<1>3. text \in Seq(Pieces) /\ token \in Pieces
  <2>1. replied[r] \in Seq([run : {r}, n : Nat])
    BY <1>1 DEF GraphInv
  <2>2. token \in [run : {r}, n : Nat]
    BY <2>1, ElementOfSequence
  <2> QED
    BY <1>1, <2>2 DEF Pieces, TabTypeOK
<1>4. /\ text' \in Seq(Pieces)
      /\ \A i \in DOMAIN text' : text'[i] = token \/ (i \in DOMAIN text /\ text'[i] = text[i])
  <2>1. text' = text \o <<token>> \/ text' = text \o <<>>
    BY DEF HandleTokenDelta
  <2>2. CASE text' = text \o <<token>>
    BY <1>3, <2>2
  <2>3. CASE text' = text \o <<>>
    <3>1. text' = text
      BY <1>3, <2>3
    <3> QED
      BY <1>3, <3>1
  <2> QED
    BY <2>1, <2>2, <2>3
<1>5. TabTypeOK'
  BY <1>1, <1>2, <1>4 DEF TabTypeOK, Untouched, OtherTypes
<1>6. CalmInv' /\ ViewInv'
  BY <1>1, <1>2 DEF CalmInv, ViewInv, OnlyEnds
<1>7. ~overlapped => r = latest /\ ~edited /\ ~Offered
  BY <1>1 DEF LoneInv
<1>8. Offered' <=> Offered
  BY <1>2 DEF Offered
<1>9. LoneInv'
  BY <1>1, <1>2, <1>7, <1>8 DEF LoneInv, OnlyEnds
<1>10. TextInv'
  <2>1. UNCHANGED replied
    BY <1>2 DEF graphVars
  <2> QED
    BY <1>1, <1>2, <1>4, <1>7, <2>1 DEF TextInv
<1>11. ReplyInv'
  BY <1>2, <1>7, <1>8 DEF ReplyInv
<1> QED
  BY <1>1, <1>2, <1>5, <1>6, <1>9, <1>10, <1>11, GraphsStand DEF PanelInv, OnlyEnds

\* The result takes the place of the tokens, and nothing is left when both are none.
LEMMA ResultShown ==
  ASSUME PanelInv, NEW r \in Reviews, UnderWay(r), Untouched, OnlyEnds, ~UnderWay(r)', Over(r)',
         node[r] = "over",
         NEW e, e.own["result"] = [reply_content |-> replied[r]], HandleCompleted(e)
  PROVE  PanelInv'
<1>1. TabTypeOK /\ GraphInv /\ CalmInv /\ LoneInv /\ TextInv
  BY DEF PanelInv
<1> DEFINE reply == replied[r]
<1>2. /\ UNCHANGED <<graphVars, call, review, latest, hasty, overlapped, revived>>
      /\ view' = "completed" /\ shown' = "completed" /\ UNCHANGED idles
      /\ IF reply \in {Null, <<>>} THEN UNCHANGED <<text, edited>>
         ELSE text' = reply /\ edited' = FALSE
  BY DEF Untouched, HandleCompleted, SetView
<1>3. reply \in Seq([run : {r}, n : Nat])
  BY <1>1 DEF GraphInv
<1>4. reply \in Seq(Pieces) /\ reply \in Seq([run : Reviews, n : Nat])
  <2> DEFINE own == [run : {r}, n : Nat]
             all == [run : Reviews, n : Nat]
  <2>1. own \subseteq all /\ own \subseteq Pieces
    BY DEF Pieces
  <2>2. reply \in Seq(own)
    BY <1>3
  <2> HIDE DEF own, all, reply
  <2>3. reply \in Seq(all) /\ reply \in Seq(Pieces)
    BY <2>1, <2>2, SeqGrows
  <2> QED
    BY <2>3 DEF all
<1>5. reply # Null
  BY <1>4, NullAssumption
<1>6. ~overlapped => ~edited /\ r = latest
  BY <1>1 DEF LoneInv
<1>7. reply = <<>> /\ ~overlapped => text = <<>>
  <2> SUFFICES ASSUME reply = <<>>, ~overlapped
               PROVE  text = <<>>
    OBVIOUS
  <2>1. \A i \in DOMAIN text : text[i] \in ToSet(reply)
    BY <1>1, <1>6 DEF TextInv
  <2>2. ToSet(reply) = {}
    BY DEF ToSet
  <2>3. DOMAIN text = {} /\ text \in Seq(Pieces)
    BY <1>1, <2>1, <2>2 DEF TabTypeOK
  <2> QED
    BY <2>3
<1>8. ~overlapped => text' = reply /\ ~edited'
  BY <1>2, <1>5, <1>6, <1>7
<1>9. TabTypeOK'
  <2>1. text \in Seq(Pieces) /\ edited \in BOOLEAN
    BY <1>1 DEF TabTypeOK
  <2>2. text' \in Seq(Pieces)
    BY <1>2, <1>4, <2>1
  <2>3. edited' \in BOOLEAN
    BY <1>2, <2>1
  <2>4. view' \in Views /\ shown' \in Views \ {"none"}
    BY <1>2 DEF Views
  <2> QED
    BY <1>1, <1>2, <2>2, <2>3, <2>4 DEF TabTypeOK, OnlyEnds, Untouched, OtherTypes
<1>10. \A s \in Reviews : ~overlapped => ~UnderWay(s)'
  BY <1>1, <1>6 DEF LoneInv, OnlyEnds
<1>11. CalmInv'
  <2> SUFFICES ASSUME ~hasty, ~revived
               PROVE  CalmInv'
    BY <1>2 DEF CalmInv
  <2>1. ~overlapped /\ \A s \in Reviews : ~Preparing(s)'
    BY <1>1 DEF CalmInv, OnlyEnds
  <2> QED
    BY <1>2, <1>10, <2>1 DEF CalmInv
<1>12. LoneInv'
  BY <1>2, <1>6, <1>10 DEF LoneInv
<1>13. ViewInv'
  BY <1>2 DEF ViewInv
<1>14. UNCHANGED <<node, replied>>
  BY <1>2 DEF graphVars
<1>15. TextInv'
  <2>1. \A i \in DOMAIN reply : reply[i] \in ToSet(reply)
    BY DEF ToSet
  <2> QED
    BY <1>2, <1>6, <1>8, <1>14, <2>1 DEF TextInv
<1>16. ReplyInv'
  BY <1>2, <1>6, <1>8, <1>14 DEF ReplyInv
<1> QED
  BY <1>1, <1>2, <1>9, <1>11, <1>12, <1>13, <1>15, <1>16, GraphsStand DEF PanelInv, OnlyEnds

\* Every message of a run keeps the invariant, as it was emitted or as it was stored.
LEMMA DeliverKept ==
  ASSUME PanelInv, NEW r \in Reviews, Deliver(r)
  PROVE  PanelInv'
<1>1. TabTypeOK /\ CallInv /\ PlaceInv /\ GraphInv
  BY DEF PanelInv
<1>2. PICK i \in DOMAIN emitted[r] :
        /\ Comes(r, i)
        /\ \E e \in {emitted[r][i], Parsed(Dumped(emitted[r][i]))} : Handle(e)
        /\ place' = [place EXCEPT ![r] = i]
        /\ link' = [link EXCEPT ![r] = IF emitted[r][i].kind \in Final THEN "closed" ELSE @]
  BY DEF Deliver
<1> DEFINE event == emitted[r][i]
<1>3. PICK e \in {event, Parsed(Dumped(event))} : Handle(e)
  BY <1>2
<1>4. /\ emitted[r] \in Seq(Makes(r)) /\ event \in Makes(r)
      /\ i \in Nat /\ 0 < i /\ i <= Len(emitted[r])
  BY <1>1 DEF GraphInv
<1>5. /\ event.kind \in DOMAIN OwnFields
      /\ event.kind = "token_delta" => event \in TokenEvents(r)
      /\ event.kind = "workflow_completed" => node[r] = "over" /\ event = CompletedWith(replied[r])
  BY <1>4, KindsMade
<1>6. e.kind = event.kind /\ event.kind \in Routed
  BY <1>2, <1>3, <1>5, ParsedKind DEF Comes
<1>7. Streaming(r) /\ UnderWay(r) /\ call[r] = "done" /\ ~Preparing(r)
  BY <1>1 DEF Deliver, UnderWay, Streaming, CallInv, Preparing
<1>8. UNCHANGED <<graphVars, call, node, replied, emitted>>
  BY DEF Deliver, graphVars
<1>9. /\ place' \in [Reviews -> Nat] /\ place'[r] = i
      /\ \A s \in Reviews \ {r} : place'[s] = place[s]
  BY <1>1, <1>2, <1>4 DEF TabTypeOK
<1>10. Untouched
  <2>1. /\ UNCHANGED <<graphVars, call, review, mishaps, gestures>>
        /\ UNCHANGED <<latest, hasty, overlapped, revived, ignored>>
    BY DEF Deliver
  <2> QED
    BY <1>1, <1>9, <2>1 DEF Untouched, OtherTypes, TabTypeOK
<1>11. Over(r)' <=> event.kind \in Final
  BY <1>4, <1>8, <1>9 DEF Over
<1> HIDE DEF event
<1>12. /\ link' \in [Reviews -> Links]
       /\ link'[r] = IF event.kind \in Final THEN "closed" ELSE link[r]
       /\ \A s \in Reviews \ {r} : link'[s] = link[s]
  BY <1>1, <1>2 DEF TabTypeOK, event, Links
<1>13. OnlyEnds
  <2>1. CallInv'
    BY <1>1, <1>7, <1>8, <1>12 DEF CallInv
  <2>2. PlaceInv'
    BY <1>1, <1>4, <1>8, <1>9 DEF PlaceInv
  <2>3. \A s \in Reviews \ {r} : Over(s)' <=> Over(s)
    BY <1>8, <1>9 DEF Over
  <2>4. /\ \A s \in Reviews : UnderWay(s)' => UnderWay(s)
        /\ \A s \in Reviews : Preparing(s)' => Preparing(s)
    BY <1>7, <1>8, <1>12 DEF UnderWay, Streaming, Preparing
  <2> QED
    BY <1>1, <1>7, <1>8, <1>12, <2>1, <2>2, <2>3, <2>4 DEF OnlyEnds, TabTypeOK
<1>14. CASE event.kind \notin Final
  <2>1. UNCHANGED link
    BY <1>1, <1>12, <1>14 DEF TabTypeOK
  <2>2. CASE event.kind = "workflow_started"
    <3>1. HandleStarted
      BY <1>3, <1>6, <2>2 DEF Handle
    <3> QED
      BY <1>7, <1>10, <1>13, <2>1, <3>1, StartedShown
  <2>3. CASE event.kind = "token_delta"
    <3>1. HandleTokenDelta(e)
      BY <1>3, <1>6, <2>3 DEF Handle
    <3>2. PICK token \in ToSet(replied[r]) : event = TokenDelta(token)
      BY <1>5, <2>3 DEF TokenEvents
    <3>3. event.own = [f \in {"delta"} |-> <<token>>]
      BY <3>2, TokenFields
    <3>4. e.own["delta"] \in {<<token>>, <<>>}
      BY <1>3, <2>3, <3>3, ParsedToken
    <3> QED
      BY <1>7, <1>10, <1>13, <2>1, <3>1, <3>4, TokenShown
  <2> QED
    BY <1>6, <1>14, <2>2, <2>3 DEF Routed
<1>15. CASE event.kind \in Final
  <2>1. ~UnderWay(r)' /\ Over(r)'
    BY <1>7, <1>8, <1>11, <1>12, <1>15 DEF UnderWay, Streaming
  <2>2. CASE event.kind = "workflow_completed"
    <3>1. HandleCompleted(e)
      BY <1>3, <1>6, <2>2 DEF Handle
    <3>2. node[r] = "over"
      BY <1>5, <2>2
    <3>3. e.own["result"] = [reply_content |-> replied[r]]
      <4> DEFINE result == [reply_content |-> replied[r]]
      <4>1. event.own = [f \in {"result"} |-> result]
        BY <1>5, <2>2, CompletedFields
      <4> HIDE DEF result
      <4>2. event.own["result"] = result
        BY <4>1
      <4>3. Parsed(Dumped(event)).own["result"] = result
        BY <2>2, <4>1, ParsedResult
      <4> QED
        BY <1>3, <4>2, <4>3 DEF result
    <3> QED
      BY <1>7, <1>10, <1>13, <2>1, <3>1, <3>2, <3>3, ResultShown
  <2>3. CASE event.kind \in {"workflow_failed", "workflow_cancelled"}
    <3>1. ShowError /\ UNCHANGED <<text, edited>>
      BY <1>3, <1>6, <2>3 DEF Handle, HandleFailed
    <3>2. ~hasty /\ ~revived => \A s \in Reviews : ~UnderWay(s)'
      BY <1>7, <1>13, <2>1, LastEnds
    <3>3. OtherTypes /\ UNCHANGED graphVars /\ UNCHANGED <<latest, hasty, overlapped, revived>>
      BY <1>10 DEF Untouched
    <3> QED
      BY <1>13, <3>1, <3>2, <3>3, ErrorShown
  <2> QED
    BY <1>15, <2>2, <2>3 DEF Final
<1> QED
  BY <1>14, <1>15

\* A stream that breaks goes on.
LEMMA BreakKept ==
  ASSUME PanelInv, NEW r \in Reviews, BreakConnection(r)
  PROVE  PanelInv'
<1>1. TabTypeOK /\ CallInv /\ PlaceInv /\ GraphInv
  BY DEF PanelInv
<1>2. /\ UNCHANGED <<graphVars, view, shown, idles, review, text, call, link, gestures>>
      /\ UNCHANGED <<latest, edited, hasty, overlapped, revived, ignored>>
      /\ UNCHANGED emitted /\ UnderWay(r)
  BY DEF BreakConnection, panelVars, pastVars, graphVars, UnderWay
<1>3. PICK i \in DOMAIN emitted[r] : place' = [place EXCEPT ![r] = IF i <= place[r] THEN i - 1 ELSE i]
  BY DEF BreakConnection
<1>4. i \in Nat /\ i - 1 \in Nat /\ i <= Len(emitted[r]) /\ i - 1 <= Len(emitted[r])
  <2>1. emitted[r] \in Seq(Makes(r))
    BY <1>1 DEF GraphInv
  <2> QED
    BY <2>1
<1>5. /\ place' \in [Reviews -> Nat] /\ place'[r] <= Len(emitted[r])
      /\ \A s \in Reviews \ {r} : place'[s] = place[s]
  BY <1>1, <1>3, <1>4 DEF TabTypeOK
<1>6. OtherTypes
  BY <1>1, <1>2, <1>5 DEF OtherTypes, TabTypeOK, BreakConnection, Mishap
<1>7. PlaceInv' /\ CallInv'
  BY <1>1, <1>2, <1>5 DEF PlaceInv, CallInv
<1>8. \A s \in Reviews \ {r} : Over(s)' <=> Over(s)
  BY <1>2, <1>5 DEF Over
<1>9. \A s \in Reviews : (UnderWay(s)' => UnderWay(s)) /\ (Preparing(s)' => Preparing(s))
  BY <1>2 DEF UnderWay, Streaming, Preparing
<1>10. OnlyEnds
  BY <1>1, <1>2, <1>7, <1>8, <1>9 DEF OnlyEnds, TabTypeOK
<1> QED
  BY <1>1, <1>2, <1>6, <1>10, GraphsStand, NothingShown

\* Or it ends with an error.
LEMMA LossKept ==
  ASSUME PanelInv, NEW r \in Reviews, LoseConnection(r)
  PROVE  PanelInv'
<1>1. TabTypeOK /\ CallInv /\ PlaceInv /\ GraphInv
  BY DEF PanelInv
<1>2. /\ UNCHANGED <<graphVars, review, call, place, gestures>>
      /\ UNCHANGED <<text, edited, latest, hasty, overlapped, revived, ignored>>
      /\ UNCHANGED mishaps \/ Mishap
      /\ ShowError
  BY DEF LoseConnection, HandleFailed
<1>3. /\ Streaming(r) /\ link'[r] = "closed" /\ link' \in [Reviews -> Links]
      /\ \A s \in Reviews \ {r} : link'[s] = link[s]
  BY <1>1 DEF LoseConnection, TabTypeOK, Streaming, Links
<1>4. call[r] = "done" /\ UnderWay(r) /\ ~UnderWay(r)'
  BY <1>1, <1>2, <1>3 DEF CallInv, UnderWay, Streaming
<1>5. GraphsGoOn
  BY <1>1, <1>2, GraphsStand
<1>6. CallInv' /\ PlaceInv' /\ \A s \in Reviews : Over(s)' <=> Over(s)
  BY <1>1, <1>2, <1>3, <1>4, <1>5, OverStays DEF CallInv, PlaceInv
<1>7. \A s \in Reviews : (UnderWay(s)' => UnderWay(s)) /\ (Preparing(s)' => Preparing(s))
  BY <1>2, <1>3, <1>4 DEF UnderWay, Streaming, Preparing
<1>8. OnlyEnds
  BY <1>1, <1>2, <1>3, <1>6, <1>7 DEF OnlyEnds, TabTypeOK
<1>9. ~hasty /\ ~revived => \A s \in Reviews : ~UnderWay(s)'
  BY <1>4, <1>8, LastEnds
<1>10. OtherTypes
  BY <1>2, OthersTyped
<1> QED
  BY <1>2, <1>8, <1>9, <1>10, ErrorShown
-----------------------------------------------------------------------------
(* The life of the worker *)

\* With the worker everything ends that was under way.
LEMMA KillKept ==
  ASSUME PanelInv, KillWorker
  PROVE  PanelInv'
<1>1. TabTypeOK /\ CallInv /\ PlaceInv /\ GraphInv
  BY DEF PanelInv
<1>2. /\ UNCHANGED <<graphVars, review, text, place, gestures>>
      /\ UNCHANGED <<latest, edited, hasty, overlapped, revived, ignored>>
      /\ Mishap
      /\ ShowError \/ UNCHANGED <<view, shown, idles>>
  BY DEF KillWorker, pastVars
<1>3. call' = [r \in Reviews |-> IF call[r] \in {"post", "created"} THEN "done" ELSE call[r]]
  BY DEF KillWorker
<1>4. PICK unsaved \in SUBSET {r \in Reviews : link[r] = "closed"} :
        link' = [r \in Reviews |->
                   CASE Streaming(r)                           -> "lost"
                     [] call[r] = "created" \/ r \in unsaved -> "stored"
                     [] OTHER                                  -> link[r]]
  BY DEF KillWorker
<1>5. call' \in [Reviews -> Calls]
  BY <1>1, <1>3 DEF TabTypeOK, Calls
<1>6. ASSUME NEW r \in Reviews
      PROVE  /\ link'[r] \in Links /\ ~Streaming(r)'
             /\ link'[r] # "none" => link[r] # "none" \/ call[r] = "created"
  <2>1. CASE Streaming(r)
    <3>1. call[r] # "created" /\ r \notin unsaved
      BY <1>1, <2>1 DEF CallInv, Streaming
    <3>2. link'[r] = "lost"
      BY <1>4, <2>1, <3>1
    <3> QED
      BY <2>1, <3>2 DEF Streaming, Links
  <2>2. CASE ~Streaming(r) /\ (call[r] = "created" \/ r \in unsaved)
    <3>1. link'[r] = "stored"
      BY <1>4, <2>2
    <3> QED
      BY <2>2, <3>1 DEF Streaming, Links
  <2>3. CASE ~Streaming(r) /\ ~(call[r] = "created" \/ r \in unsaved)
    <3>1. link'[r] = link[r]
      BY <1>4, <2>3
    <3> QED
      BY <1>1, <2>3, <3>1 DEF Streaming, Links, TabTypeOK
  <2> QED
    BY <2>1, <2>2, <2>3
<1>7. link' \in [Reviews -> Links]
  BY <1>4, <1>6
<1>8. CallInv'
  BY <1>1, <1>3, <1>6 DEF CallInv
<1>9. \A r \in Reviews : ~UnderWay(r)' /\ (Preparing(r)' => Preparing(r))
  BY <1>3, <1>6 DEF UnderWay, Preparing
<1>10. GraphInv' /\ GraphsGoOn
  BY <1>1, <1>2, GraphsStand
<1>11. PlaceInv' /\ \A r \in Reviews : Over(r)' <=> Over(r)
  BY <1>1, <1>2, <1>10, OverStays DEF PlaceInv
<1>12. OnlyEnds
  BY <1>5, <1>7, <1>8, <1>9, <1>11 DEF OnlyEnds
<1>13. OtherTypes
  BY <1>2, OthersTyped
<1>14. CASE ShowError
  BY <1>2, <1>9, <1>12, <1>13, <1>14, ErrorShown
<1>15. CASE UNCHANGED <<view, shown, idles>>
  BY <1>2, <1>10, <1>12, <1>13, <1>15, NothingShown
<1> QED
  BY <1>2, <1>14, <1>15

\* A stream that a new worker opens again is of the latest run, which is not over, or
\* is counted as one beside it.
LEMMA ResumeKept ==
  ASSUME PanelInv, NEW r \in Reviews, Resume(r)
  PROVE  PanelInv'
<1>1. TabTypeOK /\ CallInv /\ PlaceInv /\ GraphInv /\ LoneInv
  BY DEF PanelInv
<1>2. /\ UNCHANGED <<graphVars, view, shown, idles, review, text, call, gestures>>
      /\ UNCHANGED <<latest, edited, hasty, ignored>>
      /\ UNCHANGED mishaps \/ Mishap
      /\ revived' = TRUE /\ overlapped' = (overlapped \/ r # latest \/ Over(r))
  BY DEF Resume, panelVars
<1>3. UNCHANGED <<node, replied, emitted>>
  BY <1>2 DEF graphVars
<1>4. /\ link[r] # "none" /\ link' \in [Reviews -> Links]
      /\ \A s \in Reviews \ {r} : link'[s] = link[s]
  BY <1>1 DEF Resume, TabTypeOK, Links
<1>5. CallInv'
  BY <1>1, <1>2, <1>4 DEF CallInv
<1>6. PICK n \in FirstPlace(r)..Len(emitted[r]) : place' = [place EXCEPT ![r] = n]
  BY DEF Resume
<1>7. /\ place' \in [Reviews -> Nat] /\ place'[r] <= Len(emitted[r])
      /\ \A s \in Reviews \ {r} : place'[s] = place[s]
  <2>1. emitted[r] \in Seq(Makes(r))
    BY <1>1 DEF GraphInv
  <2>2. n \in Nat /\ n <= Len(emitted[r])
    BY <1>6, <2>1 DEF FirstPlace
  <2> QED
    BY <1>1, <1>6, <2>2 DEF TabTypeOK
<1>8. PlaceInv'
  BY <1>1, <1>3, <1>7 DEF PlaceInv
<1>9. TabTypeOK'
  <2>1. mishaps' \in Nat /\ overlapped' \in BOOLEAN /\ revived' \in BOOLEAN
    BY <1>1, <1>2 DEF TabTypeOK, Mishap
  <2> QED
    BY <1>1, <1>2, <1>4, <1>7, <2>1 DEF TabTypeOK
<1>10. CalmInv'
  BY <1>2 DEF CalmInv
<1>11. GraphInv' /\ GraphsGoOn
  BY <1>1, <1>2, GraphsStand
<1>12. LoneInv'
  <2> SUFFICES ASSUME ~overlapped, r = latest, ~Over(r)
               PROVE  LoneInv'
    BY <1>2 DEF LoneInv
  <2>1. ~edited /\ ~Offered
    BY <1>1 DEF LoneInv
  <2>2. ~edited' /\ ~Offered'
    BY <1>2, <2>1 DEF Offered
  <2>3. \A s \in Reviews : UnderWay(s)' => s = latest'
    BY <1>1, <1>2, <1>4 DEF LoneInv, UnderWay, Streaming
  <2> QED
    BY <2>2, <2>3 DEF LoneInv
<1>13. overlapped => overlapped'
  BY <1>2
<1> QED
  BY <1>2, <1>5, <1>8, <1>9, <1>10, <1>11, <1>12, <1>13, TextStays DEF PanelInv
-----------------------------------------------------------------------------
(* The theorems *)

\* The panel has been opened and nothing asked.
LEMMA PanelInitial == PanelInit => PanelInv
<1> SUFFICES ASSUME PanelInit
             PROVE  PanelInv
  OBVIOUS
<1>1. GraphInv
  BY DEF PanelInit, GraphInit, GraphInv, Nodes
<1>2. TabTypeOK
  <2>1. <<>> \in Seq(Pieces) /\ 0 \in Nat
    OBVIOUS
  <2>2. view \in Views /\ shown \in Views \ {"none"}
    BY DEF PanelInit, Views
  <2> QED
    BY <2>1, <2>2 DEF PanelInit, TabTypeOK, Calls, Links
<1>3. CallInv /\ \A r \in Reviews : ~UnderWay(r) /\ ~Preparing(r)
  BY DEF PanelInit, CallInv, UnderWay, Streaming, Preparing
<1>4. PlaceInv
  BY DEF PanelInit, GraphInit, PlaceInv
<1>5. CalmInv /\ LoneInv
  BY <1>3 DEF PanelInit, CalmInv, LoneInv, Offered
<1>6. ViewInv /\ TextInv /\ ReplyInv
  BY DEF PanelInit, ViewInv, TextInv, ReplyInv, Offered
<1> QED
  BY <1>1, <1>2, <1>3, <1>4, <1>5, <1>6 DEF PanelInv

\* What the graphs do, or the cancel endpoint does to them, the panel is not told at once.
LEMMA GraphActsKept ==
  ASSUME PanelInv, GraphActs \/ CancelActs \/ UNCHANGED allVars
  PROVE  PanelInv'
<1>1. TabTypeOK /\ CallInv /\ PlaceInv /\ GraphInv
  BY DEF PanelInv
<1>2. /\ UNCHANGED <<view, shown, idles, review, text, call, link, place, gestures>>
      /\ UNCHANGED <<latest, edited, hasty, overlapped, revived, ignored>>
      /\ UNCHANGED mishaps \/ Mishap
  BY DEF GraphActs, CancelActs, allVars, tabVars, panelVars, pastVars
<1>3. GraphInv' /\ GraphsGoOn
  BY <1>1, GraphStepKept, CancelKept, GraphsStand DEF GraphActs, CancelActs, allVars
<1>4. OtherTypes
  BY <1>2, OthersTyped
<1>5. CallInv' /\ PlaceInv' /\ \A r \in Reviews : Over(r)' <=> Over(r)
  BY <1>1, <1>2, <1>3, OverStays DEF CallInv, PlaceInv
<1>6. OnlyEnds
  BY <1>1, <1>2, <1>5 DEF OnlyEnds, TabTypeOK, UnderWay, Streaming, Preparing
<1> QED
  BY <1>2, <1>3, <1>4, <1>6, NothingShown

\* Every step keeps the invariant.
LEMMA PanelStep ==
  ASSUME PanelInv, [PanelNext]_allVars
  PROVE  PanelInv'
<1>1. CASE UserActs
  BY <1>1, OpenKept, EditKept, DismissKept, ClickKept DEF UserActs
<1>2. CASE AnswerActs
  BY <1>2, FindReviewKept, NoReviewKept, RefusalKept, CreateRunKept, ConnectKept, StartRunKept
     DEF AnswerActs, AnswerCall
<1>3. CASE ConnectionActs
  BY <1>3, BreakKept, LossKept DEF ConnectionActs
<1>4. CASE WorkerActs
  BY <1>4, KillKept, ResumeKept DEF WorkerActs
<1>5. CASE DeliverActs
  BY <1>5, DeliverKept DEF DeliverActs
<1> QED
  BY <1>1, <1>2, <1>3, <1>4, <1>5, GraphActsKept, RenderKept DEF PanelNext

\* The invariant that the properties of the panel rest on.
THEOREM PanelInvariant == PanelSpec => []PanelInv
BY PanelInitial, PanelStep, PTL DEF PanelSpec

\* Runs overlap only if the user clicks again, closes the panel or uses buttons of
\* the old view without waiting, or a new worker takes up a stream that another one
\* left, for any number of runs and mishaps.
THEOREM OverlapIsExplainedHolds == PanelSpec => []OverlapIsExplained
<1>1. PanelInv => OverlapIsExplained
  BY DEF PanelInv, CalmInv, OverlapIsExplained
<1> QED
  BY <1>1, PanelInvariant, PTL

\* No text mixes the tokens of two runs that did not overlap.
THEOREM OneRunsTextHolds == PanelSpec => []OneRunsText
<1>1. PanelInv => OneRunsText
  <2> SUFFICES ASSUME PanelInv, ~overlapped, NEW i \in DOMAIN text, NEW j \in DOMAIN text
               PROVE  text[i].run = text[j].run
    BY DEF OneRunsText
  <2>1. TextInv /\ GraphInv
    BY DEF PanelInv
  <2>2. CASE edited
    <3>1. text = UsersText
      BY <2>1, <2>2 DEF TextInv
    <3>2. i = 1 /\ j = 1
      BY <3>1 DEF UsersText
    <3> QED
      BY <3>2
  <2>3. CASE ~edited
    <3>1. /\ latest \in Reviews
          /\ text[i] \in ToSet(replied[latest]) /\ text[j] \in ToSet(replied[latest])
      BY <2>1, <2>3 DEF TextInv
    <3>2. replied[latest] \in Seq([run : {latest}, n : Nat])
      BY <2>1, <3>1 DEF GraphInv
    <3>3. \A x \in ToSet(replied[latest]) : x \in [run : {latest}, n : Nat]
      BY <3>2, ElementOfSequence
    <3> QED
      BY <3>1, <3>3
  <2> QED
    BY <2>2, <2>3
<1> QED
  BY <1>1, PanelInvariant, PTL

\* The reply that is offered is the graph's, however its events were repeated,
\* missed or replayed, by this worker or the next, and however many runs there were
\* before.
THEOREM ReplyIsTheGraphsHolds == PanelSpec => []ReplyIsTheGraphs
<1>1. PanelInv => ReplyIsTheGraphs
  BY DEF PanelInv, ReplyInv, Offered, ReplyIsTheGraphs
<1> QED
  BY <1>1, PanelInvariant, PTL
-----------------------------------------------------------------------------
(* Whoever is told "running" is told more.  This is what is left of PanelSettles     *)
(* when fairness is left out: there is always something the panel may wait for.      *)

Stopped(r) == node[r] \in {"over", "cancelled"}

\* The first event of a run says that it started, the last one how it ended.
TellingInv ==
  \A r \in Reviews :
    /\ node[r] \in {"none", "created"} <=> Len(emitted[r]) = 0
    /\ Len(emitted[r]) > 0 => emitted[r][1].kind = "workflow_started"
    /\ Stopped(r) => emitted[r][Len(emitted[r])].kind \in Final
    /\ \A i \in 1..Len(emitted[r]) :
         emitted[r][i].kind \in Final => i = Len(emitted[r]) /\ Stopped(r)

\* A run that the panel has yet to hear of, from this worker or the next.
Pending(r) ==
  \/ call[r] \in {"post", "created"}
  \/ link[r] \in {"open", "resumed", "lost"} /\ ~Over(r)

\* The panel says that it is running only as long as there is more to hear of some run.
RunningInv == view = "running" /\ ~ignored => \E r \in Reviews : Pending(r)

\* What a panel that is running waits for: the answer to a call, a graph that still
\* works, or the final event of a stream.
Awaited(r) ==
  \/ call[r] \in {"post", "created"}
  \/ Streaming(r) /\ ~Stopped(r)
  \/ Streaming(r) /\ \E i \in (place[r] + 1)..Len(emitted[r]) : emitted[r][i].kind \in Final

RunningIsAwaited ==
  view = "running" /\ ~ignored /\ ~(\E r \in Reviews : Forsaken(r)) => \E r \in Reviews : Awaited(r)

\* What a graph tells of a step: how it ended comes last, if it ended.
Ends(to) == to \in {"over", "cancelled"}

ToldInOrder(events, from, to) ==
  /\ Len(events) > 0
  /\ from = "created" => events[1].kind = "workflow_started"
  /\ Ends(to) => events[Len(events)].kind \in Final
  /\ \A i \in 1..Len(events) : events[i].kind \in Final => i = Len(events) /\ Ends(to)

\* A graph that goes on tells first that it started, and last how it ended.
LEMMA GraphTellsInOrder ==
  ASSUME GraphInv, TellingInv, NEW r \in Reviews,
         NEW from \in Nodes \ {"none", "over", "cancelled"}, NEW to \in Nodes \ {"none", "created"},
         Goes(r, from, to),
         NEW S, NEW events \in Seq(S), Emits(r, events), ToldInOrder(events, from, to)
  PROVE  TellingInv'
<1>1. /\ node[r] = from /\ node'[r] = to
      /\ \A s \in Reviews \ {r} : node'[s] = node[s]
  BY DEF Goes, GraphInv
<1>2. /\ emitted'[r] = emitted[r] \o events
      /\ \A s \in Reviews \ {r} : emitted'[s] = emitted[s]
  BY DEF GraphInv, Emits
<1> DEFINE before == emitted[r]
           after  == emitted'[r]
           m      == Len(before)
           k      == Len(events)
<1>3. /\ m \in Nat /\ k \in Nat /\ Len(after) = m + k
      /\ \A i \in 1..m : after[i] = before[i]
      /\ \A i \in 1..k : after[m + i] = events[i]
  <2>1. before \in Seq(Makes(r)) /\ after = before \o events
    BY <1>2 DEF GraphInv
  <2> HIDE DEF before, after
  <2> QED
    BY <2>1
<1>4. /\ from = "created" <=> m = 0
      /\ m > 0 => before[1].kind = "workflow_started"
      /\ \A i \in 1..m : before[i].kind \notin Final
  <2>1. ~Stopped(r)
    BY <1>1 DEF Stopped
  <2> QED
    BY <1>1, <2>1 DEF TellingInv
<1>5. \A s \in Reviews \ {r} : Stopped(s)' <=> Stopped(s)
  BY <1>1 DEF Stopped
<1>6. Stopped(r)' <=> Ends(to)
  BY <1>1 DEF Stopped, Ends
<1> HIDE DEF before, after, m, k
<1>7. /\ k > 0
      /\ from = "created" => events[1].kind = "workflow_started"
      /\ Ends(to) => events[k].kind \in Final
      /\ \A i \in 1..k : events[i].kind \in Final => i = k /\ Ends(to)
  BY DEF ToldInOrder, k
<1>8. Len(after) > 0 /\ after[1].kind = "workflow_started"
  <2>1. CASE m = 0
    BY <1>3, <1>4, <1>7, <2>1
  <2>2. CASE m > 0
    BY <1>3, <1>4, <2>2
  <2> QED
    BY <1>3, <2>1, <2>2
<1>9. Ends(to) => after[Len(after)].kind \in Final
  BY <1>3, <1>7
<1>10. \A i \in 1..Len(after) : after[i].kind \in Final => i = Len(after) /\ Ends(to)
  <2> SUFFICES ASSUME NEW i \in 1..Len(after), after[i].kind \in Final
               PROVE  i = Len(after) /\ Ends(to)
    OBVIOUS
  <2>1. i \notin 1..m
    BY <1>3, <1>4
  <2>2. i - m \in 1..k /\ m + (i - m) = i
    BY <1>3, <2>1
  <2>3. events[i - m].kind \in Final
    BY <1>3, <2>2
  <2> QED
    BY <1>3, <1>7, <2>2, <2>3
<1>11. /\ node'[r] \in {"none", "created"} <=> Len(after) = 0
       /\ Len(after) > 0 => after[1].kind = "workflow_started"
       /\ Stopped(r)' => after[Len(after)].kind \in Final
       /\ \A i \in 1..Len(after) : after[i].kind \in Final => i = Len(after) /\ Stopped(r)'
  BY <1>1, <1>6, <1>8, <1>9, <1>10
<1>12. ASSUME NEW s \in Reviews \ {r}
       PROVE  /\ node'[s] \in {"none", "created"} <=> Len(emitted'[s]) = 0
              /\ Len(emitted'[s]) > 0 => emitted'[s][1].kind = "workflow_started"
              /\ Stopped(s)' => emitted'[s][Len(emitted'[s])].kind \in Final
              /\ \A i \in 1..Len(emitted'[s]) :
                   emitted'[s][i].kind \in Final => i = Len(emitted'[s]) /\ Stopped(s)'
  <2>1. node'[s] = node[s] /\ emitted'[s] = emitted[s] /\ (Stopped(s)' <=> Stopped(s))
    BY <1>1, <1>2, <1>5
  <2> QED
    BY <2>1 DEF TellingInv
<1> QED
  BY <1>11, <1>12 DEF TellingInv, after

\* A step that only tells of events that are not final.
LEMMA NothingFinal ==
  ASSUME NEW S, \A e \in S : e.kind \notin Final, NEW events \in Seq(S), Len(events) > 0,
         NEW from, from # "created", NEW to, ~Ends(to)
  PROVE  ToldInOrder(events, from, to)
BY DEF ToldInOrder

\* One that ends with a final event.
LEMMA FinalLast ==
  ASSUME NEW S, \A e \in S : e.kind \notin Final, NEW told \in Seq(S),
         NEW last, last.kind \in Final, NEW from, from # "created", NEW to, Ends(to)
  PROVE  /\ Append(told, last) \in Seq(S \cup {last})
         /\ ToldInOrder(Append(told, last), from, to)
<1> DEFINE events == Append(told, last)
           n      == Len(told)
<1>1. told \in Seq(S \cup {last})
  BY SeqGrows
<1>2. /\ events \in Seq(S \cup {last}) /\ n \in Nat /\ Len(events) = n + 1 /\ events[n + 1] = last
      /\ \A i \in 1..n : events[i] = told[i] /\ told[i] \in S
  BY <1>1
<1> HIDE DEF events, n
<1>3. \A i \in 1..Len(events) : events[i].kind \in Final => i = Len(events)
  <2> SUFFICES ASSUME NEW i \in 1..Len(events), events[i].kind \in Final
               PROVE  i = Len(events)
    OBVIOUS
  <2>1. i \notin 1..n
    BY <1>2
  <2> QED
    BY <1>2, <2>1
<1> QED
  BY <1>2, <1>3 DEF ToldInOrder, events

\* The classes of the events a graph tells its course with.
LEMMA CourseKinds ==
  /\ Create("workflow_started", NoFields).kind = "workflow_started"
  /\ Create("workflow_cancelled", NoFields).kind \in Final
  /\ WorkflowFailed.kind \in Final
  /\ \A events : WorkflowCompleted(events).kind \in Final
  /\ "workflow_started" \notin Final
BY DEF Create, WorkflowFailed, WorkflowCompleted, Final

\* None of the rest is final.
LEMMA OtherKinds ==
  /\ \A reply : StateUpdated(reply).kind \notin Final
  /\ \A token : TokenDelta(token).kind \notin Final
  /\ \A name : NodeEvent("node_started", name).kind \notin Final
  /\ \A name : NodeEvent("node_completed", name).kind \notin Final
  /\ \A name : NodeFailed(name).kind \notin Final
  /\ AnalysisStarted.kind \notin Final
BY DEF Create, StateUpdated, TokenDelta, NodeEvent, NodeFailed, AnalysisStarted, Final

\* A failing node reports it last.
LEMMA FailureTold ==
  ASSUME GraphInv, TellingInv, NEW r \in Reviews,
         NEW from \in {"load_hotel_context", "analysis", "generating"},
         NEW S, \A e \in S : e.kind \notin Final, NEW reports, reports \subseteq Seq(S),
         FailNode(r, from, reports)
  PROVE  TellingInv'
<1>1. PICK report \in reports : Emits(r, Append(report, WorkflowFailed))
  BY DEF FailNode
<1>2. Goes(r, from, "over") /\ Ends("over")
  BY DEF FailNode, Ends
<1>3. report \in Seq(S) /\ WorkflowFailed.kind \in Final
  BY CourseKinds
<1>4. /\ Append(report, WorkflowFailed) \in Seq(S \cup {WorkflowFailed})
      /\ ToldInOrder(Append(report, WorkflowFailed), from, "over")
  BY <1>2, <1>3, FinalLast
<1> QED
  BY <1>1, <1>2, <1>4, GraphTellsInOrder DEF Nodes

\* So does every step of a graph keep the order of what is told.
LEMMA GraphStepTold ==
  ASSUME GraphInv, TellingInv, NEW r \in Reviews,
         GraphStep(r) \/ CancelWorkflow(r)
  PROVE  TellingInv'
<1> DEFINE Plain == {StateUpdated(Null), AnalysisStarted, NodeEvent("node_completed", "analysis"),
                     NodeFailed("analysis"), NodeEvent("node_started", "generation"),
                     NodeFailed("generation")}
<1>0. \A e \in Plain : e.kind \notin Final
  BY OtherKinds
<1>1. CASE StartWorkflow(r)
  <2> DEFINE event  == Create("workflow_started", NoFields)
             events == <<event>>
  <2>1. Goes(r, "created", "load_hotel_context") /\ Emits(r, events)
    BY <1>1 DEF StartWorkflow
  <2>2. event.kind = "workflow_started" /\ event.kind \notin Final
    BY CourseKinds
  <2> HIDE DEF event
  <2>3. events \in Seq({event}) /\ Len(events) = 1 /\ events[1] = event
    OBVIOUS
  <2> HIDE DEF events
  <2>4. ToldInOrder(events, "created", "load_hotel_context")
    BY <2>2, <2>3 DEF ToldInOrder, Ends
  <2> QED
    BY <2>1, <2>3, <2>4, GraphTellsInOrder DEF Nodes
<1>2. CASE LoadHotelContext(r)
  <2> DEFINE events == <<StateUpdated(Null), StateUpdated(Null)>>
  <2>1. Goes(r, "load_hotel_context", "analysis") /\ Emits(r, events)
    BY <1>2 DEF LoadHotelContext
  <2>2. events \in Seq(Plain) /\ Len(events) > 0
    OBVIOUS
  <2> HIDE DEF events, Plain
  <2>3. ToldInOrder(events, "load_hotel_context", "analysis")
    BY <1>0, <2>2, NothingFinal DEF Ends
  <2> QED
    BY <2>1, <2>2, <2>3, GraphTellsInOrder DEF Nodes
<1>3. CASE Analyse(r)
  <2> DEFINE events == <<AnalysisStarted, NodeEvent("node_completed", "analysis"), StateUpdated(Null)>>
  <2>1. Goes(r, "analysis", "generate_reply") /\ Emits(r, events)
    BY <1>3 DEF Analyse
  <2>2. events \in Seq(Plain) /\ Len(events) > 0
    OBVIOUS
  <2> HIDE DEF events, Plain
  <2>3. ToldInOrder(events, "analysis", "generate_reply")
    BY <1>0, <2>2, NothingFinal DEF Ends
  <2> QED
    BY <2>1, <2>2, <2>3, GraphTellsInOrder DEF Nodes
<1>4. CASE FailNode(r, "analysis", AnalysisReports)
  <2>1. AnalysisReports \subseteq Seq(Plain)
    BY DEF AnalysisReports
  <2> HIDE DEF Plain
  <2> QED
    BY <1>0, <1>4, <2>1, FailureTold
<1>5. CASE BeginGeneration(r)
  <2> DEFINE events == <<NodeEvent("node_started", "generation")>>
  <2>1. Goes(r, "generate_reply", "generating") /\ Emits(r, events)
    BY <1>5 DEF BeginGeneration
  <2>2. events \in Seq(Plain) /\ Len(events) > 0
    OBVIOUS
  <2> HIDE DEF events, Plain
  <2>3. ToldInOrder(events, "generate_reply", "generating")
    BY <1>0, <2>2, NothingFinal DEF Ends
  <2> QED
    BY <2>1, <2>2, <2>3, GraphTellsInOrder DEF Nodes
<1>6. CASE GenerateChunk(r)
  <2> DEFINE event  == TokenDelta([run |-> r, n |-> Len(replied[r]) + 1])
             events == <<event>>
  <2>1. Goes(r, "generating", "generating") /\ Emits(r, events)
    BY <1>6 DEF GenerateChunk
  <2>2. \A e \in {event} : e.kind \notin Final
    BY OtherKinds
  <2> HIDE DEF event
  <2>3. events \in Seq({event}) /\ Len(events) > 0
    OBVIOUS
  <2> HIDE DEF events
  <2>4. ToldInOrder(events, "generating", "generating")
    BY <2>2, <2>3, NothingFinal DEF Ends
  <2> QED
    BY <2>1, <2>3, <2>4, GraphTellsInOrder DEF Nodes
<1>7. CASE FailNode(r, "generating", GenerationReports(r))
  <2> DEFINE broken == NodeFailed("generation")
  <2>1. GenerationReports(r) \subseteq {<<broken>>, <<broken, broken>>}
    BY DEF GenerationReports
  <2>2. {<<broken>>, <<broken, broken>>} \subseteq Seq(Plain)
    OBVIOUS
  <2> HIDE DEF Plain, broken
  <2>3. GenerationReports(r) \subseteq Seq(Plain)
    BY <2>1, <2>2
  <2> QED
    BY <1>0, <1>7, <2>3, FailureTold
<1>8. CASE EndGeneration(r)
  <2> DEFINE done   == NodeEvent("node_completed", "generation")
             state  == StateAtEnd(r)
             last   == <<done, state>>
             result == WorkflowCompleted(emitted[r] \o last)
             events == Append(last, result)
  <2>1. Goes(r, "generating", "over") /\ Emits(r, events)
    BY <1>8 DEF EndGeneration
  <2>2. result.kind \in Final /\ \A e \in {done, state} : e.kind \notin Final
    BY CourseKinds, OtherKinds DEF StateAtEnd
  <2> HIDE DEF result, done, state
  <2>3. last \in Seq({done, state})
    OBVIOUS
  <2> HIDE DEF last
  <2>4. events \in Seq({done, state} \cup {result}) /\ ToldInOrder(events, "generating", "over")
    BY <2>2, <2>3, FinalLast DEF Ends
  <2> HIDE DEF events
  <2> QED
    BY <2>1, <2>4, GraphTellsInOrder DEF Nodes
<1>9. CASE CancelWorkflow(r)
  <2> DEFINE event  == Create("workflow_cancelled", NoFields)
             events == <<event>>
  <2>1. /\ node[r] \in Nodes \ {"none", "created", "over", "cancelled"}
        /\ Goes(r, node[r], "cancelled") /\ Emits(r, events)
    BY <1>9 DEF CancelWorkflow, Goes, GraphInv
  <2>2. event.kind \in Final
    BY CourseKinds
  <2> HIDE DEF event
  <2>3. events \in Seq({event}) /\ Len(events) = 1 /\ events[1] = event
    OBVIOUS
  <2> HIDE DEF events
  <2>4. ToldInOrder(events, node[r], "cancelled")
    BY <2>1, <2>2, <2>3 DEF ToldInOrder, Ends
  <2> QED
    BY <2>1, <2>3, <2>4, GraphTellsInOrder DEF Nodes
<1>10. CASE FailNode(r, "load_hotel_context", ContextReports)
  <2>1. ContextReports \subseteq Seq(Plain)
    BY DEF ContextReports
  <2> HIDE DEF Plain
  <2> QED
    BY <1>0, <1>10, <2>1, FailureTold
<1> QED
  BY <1>1, <1>2, <1>3, <1>4, <1>5, <1>6, <1>7, <1>8, <1>9, <1>10 DEF GraphStep

\* Who does not touch the graphs leaves what they told.
LEMMA ToldStays ==
  ASSUME TellingInv, UNCHANGED graphVars
  PROVE  TellingInv'
BY DEF TellingInv, Stopped, graphVars

\* Only steps of the graphs touch them.
LEMMA GraphsOwn ==
  ASSUME [PanelNext]_allVars,
         ~GraphActs, ~CancelActs, \A r \in Reviews : ~CreateRun(r)
  PROVE  UNCHANGED graphVars
<1>1. CASE UserActs
  BY <1>1 DEF UserActs, OpenPanel, DismissPanel, Edit, CancelEdit, ConfirmEdit, Click, Gesture
<1>2. CASE RenderIdle
  BY <1>2 DEF RenderIdle
<1>3. CASE WorkerActs
  BY <1>3 DEF WorkerActs, KillWorker, Resume
<1>4. CASE ConnectionActs
  BY <1>4 DEF ConnectionActs, BreakConnection, LoseConnection
<1>5. CASE DeliverActs
  BY <1>5 DEF DeliverActs, Deliver
<1>6. CASE AnswerActs
  <2>1. PICK r \in Reviews : AnswerCall(r)
    BY <1>6 DEF AnswerActs
  <2> QED
    BY <2>1 DEF AnswerCall, FindReview, NoReview, NoCodeStored, StartRun, Refuse, Connect, LoseRequest
<1>7. CASE UNCHANGED allVars
  BY <1>7 DEF allVars
<1> QED
  BY <1>1, <1>2, <1>3, <1>4, <1>5, <1>6, <1>7 DEF PanelNext

\* Every step keeps the order of what is told.
LEMMA TellingStep ==
  ASSUME PanelInv, TellingInv, [PanelNext]_allVars
  PROVE  TellingInv'
<1>1. GraphInv
  BY DEF PanelInv
<1>2. CASE GraphActs \/ CancelActs
  <2>1. PICK r \in Reviews : GraphStep(r) \/ CancelWorkflow(r)
    BY <1>2 DEF GraphActs, CancelActs
  <2> QED
    BY <1>1, <2>1, GraphStepTold
<1>3. ASSUME NEW r \in Reviews, CreateRun(r)
      PROVE  TellingInv'
  <2>1. /\ node[r] = "none" /\ node'[r] = "created"
        /\ \A s \in Reviews \ {r} : node'[s] = node[s]
        /\ UNCHANGED emitted
    BY <1>1, <1>3 DEF CreateRun, CreateWorkflow, Goes, GraphInv
  <2>2. \A s \in Reviews : Stopped(s)' <=> Stopped(s)
    BY <2>1 DEF Stopped
  <2>3. \A s \in Reviews : node'[s] \in {"none", "created"} <=> node[s] \in {"none", "created"}
    BY <2>1
  <2> QED
    BY <2>1, <2>2, <2>3 DEF TellingInv
<1> QED
  BY <1>2, <1>3, GraphsOwn, ToldStays

\* Whatever ends what is pending shows something else, or was not looked at.
LEMMA PendingStays ==
  ASSUME RunningInv, UNCHANGED <<view, ignored>>, \A r \in Reviews : Pending(r) => Pending(r)'
  PROVE  RunningInv'
BY DEF RunningInv

\* An event that is not the last one does not tell how the run ended.
LEMMA NotOver ==
  ASSUME GraphInv, TellingInv, UNCHANGED emitted, NEW r \in Reviews, ~Over(r),
         place[r] \in Nat, place[r] <= Len(emitted[r]),
         place'[r] \in Nat, place'[r] <= Len(emitted[r]),
         place'[r] <= place[r] \/ place'[r] = FirstPlace(r)
  PROVE  ~Over(r)'
<1> SUFFICES ASSUME Over(r)'
             PROVE  FALSE
  OBVIOUS
<1> DEFINE n == Len(emitted[r])
<1>1. n \in Nat
  BY DEF GraphInv
<1>2. place'[r] > 0 /\ emitted[r][place'[r]].kind \in Final
  BY DEF Over
<1>3. place'[r] = n /\ n > 0
  BY <1>1, <1>2 DEF TellingInv
<1>4. CASE place'[r] <= place[r]
  <2>1. place[r] = n
    BY <1>1, <1>3, <1>4
  <2> QED
    BY <1>2, <1>3, <2>1 DEF Over
<1>5. CASE place'[r] = FirstPlace(r)
  <2>1. place'[r] = 1 /\ emitted[r][1].kind = "workflow_started"
    BY <1>2, <1>3, <1>5 DEF FirstPlace, TellingInv
  <2> QED
    BY <1>2, <2>1 DEF Final
<1> QED
  BY <1>4, <1>5

\* What a panel that is running waits for does not vanish without its being told.
LEMMA RunningStep ==
  ASSUME PanelInv, TellingInv, RunningInv, [PanelNext]_allVars
  PROVE  RunningInv'
<1>1. TabTypeOK /\ CallInv /\ PlaceInv /\ GraphInv
  BY DEF PanelInv
<1>2. ASSUME view' # "running"
      PROVE  RunningInv'
  BY <1>2 DEF RunningInv
<1>3. ASSUME UNCHANGED <<call, link, place>>, GraphsGoOn, NEW r \in Reviews, Pending(r)
      PROVE  Pending(r)'
  BY <1>1, <1>3, OverStays DEF Pending
<1>4. ASSUME NEW s \in Reviews, UNCHANGED emitted, call'[s] = call[s], link'[s] = link[s],
             place'[s] = place[s], Pending(s)
      PROVE  Pending(s)'
  BY <1>4 DEF Pending, Over
<1>5. CASE UserActs
  <2>1. CASE \E r \in Reviews : Click(r)
    <3>1. PICK r \in Reviews : Click(r)
      BY <2>1
    <3>2. UNCHANGED <<view, link, place, ignored, emitted>>
      BY <3>1 DEF Click, panelVars, graphVars
    <3>3. \A s \in Reviews : Pending(s) => Pending(s)'
      BY <1>1, <3>1, <3>2 DEF Click, Asked, Pending, Over, TabTypeOK
    <3> QED
      BY <3>2, <3>3, PendingStays
  <2>2. CASE OpenPanel \/ DismissPanel \/ Edit \/ CancelEdit \/ ConfirmEdit
    <3>1. UNCHANGED <<call, link, place, ignored>> /\ GraphsGoOn
      BY <1>1, <2>2, GraphsStand DEF OpenPanel, DismissPanel, Edit, CancelEdit, ConfirmEdit, Gesture, Press
    <3>2. UNCHANGED view \/ view' # "running"
      BY <2>2 DEF OpenPanel, DismissPanel, Edit, CancelEdit, ConfirmEdit, SetView, SetIdle
    <3>3. \A s \in Reviews : Pending(s) => Pending(s)'
      BY <1>3, <3>1
    <3> QED
      BY <1>2, <3>1, <3>2, <3>3, PendingStays
  <2> QED
    BY <1>5, <2>1, <2>2 DEF UserActs
<1>6. CASE RenderIdle \/ GraphActs \/ CancelActs \/ UNCHANGED allVars
  <2>1. UNCHANGED <<call, link, place, view, ignored>>
    BY <1>6 DEF RenderIdle, GraphActs, CancelActs, allVars, tabVars, panelVars, pastVars
  <2>2. GraphsGoOn
    BY <1>1, <1>6, GraphStepKept, CancelKept, GraphsStand DEF RenderIdle, GraphActs, CancelActs, allVars
  <2>3. \A s \in Reviews : Pending(s) => Pending(s)'
    BY <1>3, <2>1, <2>2
  <2> QED
    BY <2>1, <2>3, PendingStays
<1>7. ASSUME NEW r \in Reviews, AnswerCall(r)
      PROVE  RunningInv'
  <2>1. CASE NoReview(r) \/ NoCodeStored(r) \/ Refuse(r)
    <3>1. view' # "running"
      BY <2>1 DEF NoReview, NoCodeStored, Refuse, ShowError, SetView, SetIdle
    <3> QED
      BY <1>2, <3>1
  <2>2. CASE LoseRequest(r)
    BY <2>2 DEF LoseRequest, RunningInv
  <2>3. CASE StartRun(r)
    <3>1. CASE Asked(r, "invite", "post")
      <4>1. call'[r] = "post"
        BY <1>1, <3>1 DEF Asked, TabTypeOK
      <4> QED
        BY <4>1 DEF RunningInv, Pending
    <3>2. CASE SetView("error")
      BY <1>2, <3>2 DEF SetView
    <3> QED
      BY <2>3, <3>1, <3>2 DEF StartRun
  <2>4. CASE FindReview(r) \/ CreateRun(r)
    <3>1. UNCHANGED <<view, ignored, link, place, emitted>>
      BY <2>4 DEF FindReview, CreateRun, CreateWorkflow, panelVars, pastVars, graphVars
    <3>2. \A s \in Reviews : Pending(s) => Pending(s)'
      BY <1>1, <2>4, <3>1 DEF FindReview, CreateRun, Asked, Pending, Over, TabTypeOK
    <3> QED
      BY <3>1, <3>2, PendingStays
  <2>5. CASE Connect(r)
    <3>1. /\ UNCHANGED <<view, ignored, emitted>>
          /\ link'[r] = "open" /\ place'[r] = FirstPlace(r)
          /\ \A s \in Reviews \ {r} : call'[s] = call[s] /\ link'[s] = link[s] /\ place'[s] = place[s]
      BY <1>1, <2>5 DEF Connect, Asked, panelVars, pastVars, graphVars, TabTypeOK
    <3>2. ~Over(r)'
      <4>1. emitted[r] # <<>> => emitted[r][1].kind = "workflow_started"
        BY <1>1 DEF TellingInv, GraphInv
      <4> QED
        BY <3>1, <4>1 DEF FirstPlace, Over, Final
    <3>3. \A s \in Reviews : Pending(s) => Pending(s)'
      <4>1. Pending(r)'
        BY <3>1, <3>2 DEF Pending
      <4> QED
        BY <1>4, <3>1, <4>1
    <3> QED
      BY <3>1, <3>3, PendingStays
  <2> QED
    BY <1>7, <2>1, <2>2, <2>3, <2>4, <2>5 DEF AnswerCall
<1>8. CASE KillWorker
  <2>1. CASE \E r \in Reviews : call[r] \in {"post", "created"}
    <3>1. view' # "running"
      BY <1>8, <2>1 DEF KillWorker, ShowError, SetView
    <3> QED
      BY <1>2, <3>1
  <2>2. CASE ~ \E r \in Reviews : call[r] \in {"post", "created"}
    <3>1. UNCHANGED <<view, ignored, place, emitted>>
      BY <1>8, <2>2 DEF KillWorker, pastVars, graphVars
    <3>2. PICK unsaved \in SUBSET {r \in Reviews : link[r] = "closed"} :
            link' = [r \in Reviews |->
                       CASE Streaming(r)                           -> "lost"
                         [] call[r] = "created" \/ r \in unsaved -> "stored"
                         [] OTHER                                  -> link[r]]
      BY <1>8 DEF KillWorker
    <3>3. ASSUME NEW s \in Reviews, Pending(s)
          PROVE  Pending(s)'
      <4>1. link[s] \in {"open", "resumed", "lost"} /\ ~Over(s)
        BY <2>2, <3>3 DEF Pending
      <4>2. call[s] # "created" /\ s \notin unsaved
        BY <2>2, <4>1
      <4>3. link'[s] = "lost"
        <5>1. CASE Streaming(s)
          BY <3>2, <4>2, <5>1
        <5>2. CASE ~Streaming(s)
          <6>1. link[s] = "lost"
            BY <4>1, <5>2 DEF Streaming
          <6> QED
            BY <3>2, <4>2, <5>2, <6>1
        <5> QED
          BY <5>1, <5>2
      <4> QED
        BY <3>1, <4>1, <4>3 DEF Pending, Over
    <3> QED
      BY <3>1, <3>3, PendingStays
  <2> QED
    BY <2>1, <2>2
<1>9. ASSUME NEW r \in Reviews, Resume(r)
      PROVE  RunningInv'
  <2>1. UNCHANGED <<view, ignored, call, emitted>>
    BY <1>9 DEF Resume, panelVars, graphVars
  <2>2. PICK n \in FirstPlace(r)..Len(emitted[r]) :
          /\ n <= place[r] \/ n = FirstPlace(r)
          /\ place' = [place EXCEPT ![r] = n]
    BY <1>9 DEF Resume
  <2>3. n \in Nat /\ n <= Len(emitted[r])
    <3>1. Len(emitted[r]) \in Nat
      BY <1>1 DEF GraphInv
    <3> QED
      BY <3>1 DEF FirstPlace
  <2>4. /\ link'[r] = "resumed" /\ place'[r] = n
        /\ \A s \in Reviews \ {r} : link'[s] = link[s] /\ place'[s] = place[s]
    BY <1>1, <1>9, <2>2 DEF Resume, TabTypeOK
  <2>5. Pending(r) => Pending(r)'
    <3>1. CASE call[r] \in {"post", "created"}
      BY <2>1, <3>1 DEF Pending
    <3>2. CASE ~Over(r)
      <4>1. ~Over(r)'
        BY <1>1, <2>1, <2>2, <2>3, <2>4, <3>2, NotOver DEF TabTypeOK, PlaceInv
      <4> QED
        BY <2>4, <4>1 DEF Pending
    <3> QED
      BY <3>1, <3>2 DEF Pending
  <2>6. \A s \in Reviews : Pending(s) => Pending(s)'
    BY <1>4, <2>1, <2>4, <2>5
  <2> QED
    BY <2>1, <2>6, PendingStays
<1>10. ASSUME NEW r \in Reviews, BreakConnection(r)
       PROVE  RunningInv'
  <2>1. UNCHANGED <<call, link, view, ignored, emitted>>
    BY <1>10 DEF BreakConnection, panelVars, pastVars, graphVars
  <2>2. PICK i \in DOMAIN emitted[r] :
          /\ emitted[r][i].kind = "token_delta"
          /\ place' = [place EXCEPT ![r] = IF i <= place[r] THEN i - 1 ELSE i]
    BY <1>10 DEF BreakConnection
  <2>3. \A s \in Reviews \ {r} : place'[s] = place[s]
    BY <1>1, <2>2 DEF TabTypeOK
  <2>4. ~Over(r)'
    <3>1. place'[r] = i - 1 \/ place'[r] = i
      BY <1>1, <2>2 DEF TabTypeOK
    <3>2. i \in Nat /\ 1 <= i /\ i <= Len(emitted[r]) /\ Len(emitted[r]) \in Nat
      BY <1>1, <2>2 DEF GraphInv
    <3>3. emitted[r][i].kind \notin Final
      BY <2>2 DEF Final
    <3>4. \A k \in 1..Len(emitted[r]) : emitted[r][k].kind \in Final => k = Len(emitted[r])
      BY DEF TellingInv
    <3>5. i - 1 > 0 => emitted[r][i - 1].kind \notin Final
      <4>1. i - 1 > 0 => i - 1 \in 1..Len(emitted[r]) /\ i - 1 # Len(emitted[r])
        BY <3>2
      <4> QED
        BY <3>4, <4>1
    <3>6. CASE place'[r] = i - 1
      BY <2>1, <3>5, <3>6 DEF Over
    <3>7. CASE place'[r] = i
      BY <2>1, <3>3, <3>7 DEF Over
    <3> QED
      BY <3>1, <3>6, <3>7
  <2>5. Pending(r) => Pending(r)'
    BY <2>1, <2>4 DEF Pending
  <2>6. \A s \in Reviews : Pending(s) => Pending(s)'
    BY <1>4, <2>1, <2>3, <2>5
  <2> QED
    BY <2>1, <2>6, PendingStays
<1>11. ASSUME NEW r \in Reviews, LoseConnection(r)
       PROVE  RunningInv'
  BY <1>2, <1>11 DEF LoseConnection, HandleFailed, ShowError, SetView
<1>12. ASSUME NEW r \in Reviews, Deliver(r)
       PROVE  RunningInv'
  <2>1. PICK i \in DOMAIN emitted[r] :
          /\ Comes(r, i)
          /\ \E e \in {emitted[r][i], Parsed(Dumped(emitted[r][i]))} : Handle(e)
          /\ place' = [place EXCEPT ![r] = i]
          /\ link' = [link EXCEPT ![r] = IF emitted[r][i].kind \in Final THEN "closed" ELSE @]
    BY <1>12 DEF Deliver
  <2> DEFINE event == emitted[r][i]
  <2>2. event.kind \in DOMAIN OwnFields
    <3>1. emitted[r] \in Seq(Makes(r))
      BY <1>1 DEF GraphInv
    <3>2. event \in Makes(r)
      BY <3>1
    <3> QED
      BY <3>2, KindsMade
  <2>3. PICK e : Handle(e) /\ e.kind = event.kind
    BY <2>1, <2>2, ParsedKind
  <2>4. CASE event.kind \in Final
    <3>1. HandleCompleted(e) \/ HandleFailed
      BY <2>3, <2>4 DEF Handle, Final
    <3>2. view' # "running"
      BY <3>1 DEF HandleCompleted, HandleFailed, ShowError, SetView
    <3> QED
      BY <1>2, <3>2
  <2>5. CASE event.kind \notin Final
    <3>1. Streaming(r) /\ link'[r] = link[r] /\ place'[r] = i /\ UNCHANGED emitted
      BY <1>1, <1>12, <2>1, <2>5 DEF Deliver, TabTypeOK, graphVars
    <3>2. Pending(r)'
      BY <2>5, <3>1 DEF Pending, Over, Streaming
    <3> QED
      BY <3>2 DEF RunningInv
  <2> QED
    BY <2>4, <2>5
<1>13. CASE AnswerActs \/ ConnectionActs \/ WorkerActs \/ DeliverActs
  BY <1>7, <1>8, <1>9, <1>10, <1>11, <1>12, <1>13 DEF AnswerActs, ConnectionActs, WorkerActs, DeliverActs
<1> QED
  BY <1>5, <1>6, <1>13 DEF PanelNext

\* A panel that says "running" always has something to wait for, unless an answer was
\* not looked at or the worker died: no sequence of lost calls, broken streams and
\* cancellations leaves a run whose final event is behind its open stream.
THEOREM RunningIsAwaitedHolds == PanelSpec => []RunningIsAwaited
<1> DEFINE Inv == PanelInv /\ TellingInv /\ RunningInv
<1>1. PanelInit => TellingInv /\ RunningInv
  BY DEF PanelInit, GraphInit, TellingInv, RunningInv, Stopped
<1>2. ASSUME Inv, [PanelNext]_allVars
      PROVE  Inv'
  BY <1>2, PanelStep, TellingStep, RunningStep
<1>3. ASSUME PanelInv, TellingInv, RunningInv
      PROVE  RunningIsAwaited
  <2> SUFFICES ASSUME NEW r \in Reviews, Pending(r), ~Forsaken(r)
               PROVE  Awaited(r)
    BY <1>3 DEF RunningIsAwaited, RunningInv
  <2>1. CASE call[r] \in {"post", "created"}
    BY <2>1 DEF Awaited
  <2>2. CASE Streaming(r) /\ ~Over(r) /\ Stopped(r)
    <3> DEFINE n == Len(emitted[r])
    <3>1. n \in Nat /\ place[r] \in Nat /\ place[r] <= n
      BY <1>3 DEF PanelInv, GraphInv, TabTypeOK, PlaceInv
    <3>2. n # 0 /\ emitted[r][n].kind \in Final
      BY <1>3, <2>2 DEF TellingInv, Stopped
    <3>3. place[r] # n
      BY <2>2, <3>1, <3>2 DEF Over
    <3>4. n \in (place[r] + 1)..n
      BY <3>1, <3>3
    <3> QED
      BY <2>2, <3>2, <3>4 DEF Awaited
  <2>3. CASE Streaming(r) /\ ~Stopped(r)
    BY <2>3 DEF Awaited
  <2> QED
    BY <2>1, <2>2, <2>3 DEF Pending, Forsaken, Streaming
<1> QED
  BY <1>1, <1>2, <1>3, PanelInitial, PTL DEF PanelSpec

\* No step takes a token out of a reply or an event back, or changes a reply that was
\* told to be whole: what the panel offers is not overtaken by its graph.
THEOREM RepliesOnlyGrow == PanelSpec => [][GraphsGoOn]_graphVars
<1>1. ASSUME PanelInv, [PanelNext]_allVars
      PROVE  [GraphsGoOn]_graphVars
  <2>1. GraphInv
    BY <1>1 DEF PanelInv
  <2>2. CASE GraphActs \/ CancelActs
    BY <2>1, <2>2, GraphStepKept, CancelKept DEF GraphActs, CancelActs
  <2>3. ASSUME NEW r \in Reviews, CreateRun(r)
        PROVE  GraphsGoOn
    BY <2>1, <2>3, CreationKept DEF CreateRun
  <2> QED
    BY <1>1, <2>2, <2>3, GraphsOwn
<1> QED
  BY <1>1, PanelInvariant, PTL DEF PanelSpec
=============================================================================
