---------------------------- MODULE ReviewPanel ----------------------------
(***************************************************************************)
(* ReviewPanel: the panel of one tab and its store, the worker's calls and *)
(* messages that it answers to, and the runs it asks for.  A click on      *)
(* "generate" is an invocation of onGenerate that waits for the page and   *)
(* for the answers to CHECK_INVITE and GENERATE_REPLY, while buttons stay  *)
(* what they are and messages of earlier runs go on to come.               *)
(*                                                                         *)
(* The stream of a run is abstracted to what EventStream and SessionClient *)
(* say of it: its events come in order, a connection that breaks may       *)
(* repeat one or skip some before the last, and it ends with the final     *)
(* event or with an error; a worker that is killed takes its streams with  *)
(* it, and the next one may open them again for the sessions in storage.   *)
(*                                                                         *)
(* content-script/index.ts, state/workflow-store.ts,                       *)
(* background/event-router.ts, background/service-worker.ts.               *)
(***************************************************************************)
EXTENDS ReviewGraph

CONSTANTS
  MaxMishaps, \* bound on what goes wrong: lost calls, broken streams, dead workers, cancellations
  MaxGestures \* bound on what the user does with the panel except for generating

VARIABLES
  call,      \* the invocation of onGenerate that asks for each run
  view,      \* panel.dataset.view
  shown,     \* the view that the panel's HTML was rendered for
  idles,     \* renderings of the idle view that wait for the page's adapter
  review,    \* whether _currentReview holds a review
  text,      \* replyContent of the store
  link,      \* the worker's stream of each run, or what a dead worker has left of it
  place,     \* how many of its events have come
  mishaps,
  gestures,
  \* history variables, read by the properties only
  latest,     \* the invocation that last started a run in the store
  edited,     \* whether the user wrote the text
  hasty,      \* whether the user clicked again, closed or used the panel without waiting
  overlapped, \* whether messages of two runs could come at a time, or again after the end
  revived,    \* whether a new worker opened a stream again
  ignored     \* whether the worker gave an answer that the panel does not look at

panelVars == <<view, shown, idles, review, text>>
tabVars   == <<panelVars, call, link, place, mishaps, gestures>>
pastVars  == <<latest, edited, hasty, overlapped, revived, ignored>>
allVars   == <<graphVars, tabVars, pastVars>>

Views == {"none", "idle", "running", "completed", "error", "editing"}

\* The panel has been opened for the first time.
PanelInit ==
  /\ GraphInit
  /\ call = [r \in Reviews |-> "unused"]
  /\ view = "idle" /\ shown = "idle" /\ idles = 0
  /\ review = FALSE
  /\ text = <<>>
  /\ link = [r \in Reviews |-> "none"]
  /\ place = [r \in Reviews |-> 0]
  /\ mishaps = 0 /\ gestures = 0
  /\ latest = Null
  /\ edited = FALSE /\ hasty = FALSE /\ overlapped = FALSE /\ revived = FALSE /\ ignored = FALSE

\* The worker listens to the run for this tab.
Streaming(r) == link[r] \in {"open", "resumed"}

\* A run is under way in the tab from the moment its view is shown until the
\* worker has nothing more to say of it.
UnderWay(r) == call[r] \in {"post", "created"} \/ Streaming(r)

\* A click that has not led to a run yet.
Preparing(r) == call[r] \in {"page", "invite"}

Asked(r, from, to) == call[r] = from /\ call' = [call EXCEPT ![r] = to]

Mishap == mishaps < MaxMishaps /\ mishaps' = mishaps + 1

\* setPanelView; all renderings but that of the idle view are done at once.
SetView(v) == view' = v /\ shown' = v /\ UNCHANGED idles

\* renderIdle asks the page's adapter first.  Until then the buttons are the old ones.
SetIdle == view' = "idle" /\ idles' = idles + 1 /\ UNCHANGED shown

\* The adapter has answered: the idle view comes over whatever is shown by now.
RenderIdle ==
  /\ idles > 0 /\ idles' = idles - 1
  /\ shown' = "idle"
  /\ UNCHANGED <<graphVars, view, review, text, call, link, place, mishaps, gestures, pastVars>>
-----------------------------------------------------------------------------
(* The user *)

Gesture ==
  /\ gestures < MaxGestures /\ gestures' = gestures + 1
  /\ UNCHANGED <<graphVars, call, link, place, mishaps>>

\* showPanel after dismissPanel: a panel without a view starts over.  One that is
\* only hidden comes back as it was, so that hiding it is no step.
OpenPanel ==
  /\ Gesture
  /\ view = "none"
  /\ SetIdle /\ text' = <<>> /\ edited' = FALSE
  /\ UNCHANGED <<review, latest, hasty, overlapped, revived, ignored>>

DismissPanel ==
  /\ Gesture
  /\ view # "none"
  /\ view' = "none" /\ text' = <<>> /\ edited' = FALSE
  /\ hasty' = (hasty \/ \E r \in Reviews : UnderWay(r) \/ Preparing(r))
  /\ UNCHANGED <<shown, idles, review, latest, overlapped, revived, ignored>>

\* A button of the panel, which may be one that is about to be replaced.
Press(button) ==
  /\ view # "none" /\ shown = button
  /\ hasty' = (hasty \/ idles > 0)
  /\ UNCHANGED <<review, latest, overlapped, revived, ignored>>

Edit ==
  /\ Gesture
  /\ Press("completed")
  /\ SetView("editing")
  /\ UNCHANGED <<text, edited>>

CancelEdit ==
  /\ Gesture
  /\ Press("editing")
  /\ SetView("completed")
  /\ UNCHANGED <<text, edited>>

UsersText == <<[run |-> Null, n |-> 0]>>

\* The publish button stores the text as well, and then calls a function that the
\* script does not define: the panel stays on the editor.
ConfirmEdit ==
  /\ Gesture
  /\ Press("editing")
  /\ SetView("completed") \/ UNCHANGED <<view, shown, idles>>
  /\ text' = UsersText /\ edited' = TRUE
-----------------------------------------------------------------------------
(* onGenerate *)

\* With a review kept from an earlier click the page is not asked for one.
Click(r) ==
  /\ view # "none" /\ shown \in {"idle", "completed", "error"}
  /\ \A s \in Reviews : s < r => call[s] # "unused"
  /\ Asked(r, "unused", IF review THEN "invite" ELSE "page")
  /\ hasty' = (hasty \/ idles > 0 \/ \E s \in Reviews : Preparing(s))
  /\ UNCHANGED <<graphVars, panelVars, link, place, mishaps, gestures,
                 latest, edited, overlapped, revived, ignored>>

\* The page has a review, selected or found, which is kept for later, and the
\* question is whether there is an invite code.
FindReview(r) ==
  /\ Asked(r, "page", "invite")
  /\ review' = TRUE
  /\ UNCHANGED <<graphVars, view, shown, idles, text, link, place, mishaps, gestures, pastVars>>

NoReview(r) ==
  /\ Asked(r, "page", "done")
  /\ SetIdle
  /\ UNCHANGED <<graphVars, review, text, link, place, mishaps, gestures, pastVars>>

\* The answer is no, or there was none.
NoCodeStored(r) ==
  /\ Asked(r, "invite", "done")
  /\ SetView("error")
  /\ UNCHANGED <<graphVars, review, text, link, place, mishaps, gestures, pastVars>>

Kept(s) == text

Emptied(s) == <<>>

ViewLeft == UNCHANGED <<view, shown, idles>>

ViewRunning == SetView("running")

\* store.startRun and the message GENERATE_REPLY, unless the extension was reloaded
\* under the page and there is nobody to send it to.
StartRun(r) ==
  /\ \/ Asked(r, "invite", "post") /\ ViewRunning
     \/ Asked(r, "invite", "done") /\ SetView("error")
  /\ text' = Emptied(r)
  /\ latest' = r /\ edited' = FALSE
  /\ overlapped' = (overlapped \/ \E s \in Reviews : UnderWay(s))
  /\ UNCHANGED <<graphVars, review, link, place, mishaps, gestures, hasty, revived, ignored>>

\* handleGenerateReply posts to the API, which creates the run before it answers.
CreateRun(r) ==
  /\ Asked(r, "post", "created")
  /\ CreateWorkflow(r)
  /\ UNCHANGED <<panelVars, link, place, mishaps, gestures, pastVars>>

ShowNothing == UNCHANGED <<view, shown, idles>>

\* setError and setPanelView("error").
ShowError == SetView("error")

\* The API answers "failed"; what the worker answers in turn is not looked at, but it
\* has sent the panel a WORKFLOW_ERROR.
Refuse(r) ==
  /\ Asked(r, "post", "done")
  /\ ShowError
  /\ UNCHANGED <<graphVars, review, text, link, place, mishaps, gestures, pastVars>>

\* What was emitted without a number before, the started event, is not replayed.
FirstPlace(r) == IF emitted[r] = <<>> THEN 0 ELSE 1

\* The answer of the API has come: the worker makes a session and connects.
Connect(r) ==
  /\ Asked(r, "created", "done")
  /\ link' = [link EXCEPT ![r] = "open"]
  /\ place' = [place EXCEPT ![r] = FirstPlace(r)]
  /\ UNCHANGED <<graphVars, panelVars, mishaps, gestures, pastVars>>

\* The request or its answer is lost on the way to the API: the worker answers
\* {error}, and the panel does not look at the answer.
LoseRequest(r) ==
  /\ Mishap
  /\ Asked(r, "post", "done") \/ Asked(r, "created", "done")
  /\ ignored' = TRUE
  /\ UNCHANGED <<graphVars, panelVars, link, place, gestures, latest, edited, hasty, overlapped, revived>>
-----------------------------------------------------------------------------
(* The life of the worker *)

Final == {"workflow_completed", "workflow_failed", "workflow_cancelled"}

\* The browser kills the worker: calls that wait for GENERATE_REPLY are rejected (one
\* for CHECK_INVITE counts as a no), while a panel whose call was answered hears
\* nothing any more.  A session may be in storage before its call is answered; that one
\* is over may not have got there.
KillWorker ==
  /\ Mishap
  /\ IF \E r \in Reviews : call[r] \in {"post", "created"} THEN ShowError
     ELSE UNCHANGED <<view, shown, idles>>
  /\ call' = [r \in Reviews |-> IF call[r] \in {"post", "created"} THEN "done" ELSE call[r]]
  /\ \E unsaved \in SUBSET {r \in Reviews : link[r] = "closed"} :
       link' = [r \in Reviews |->
                  CASE Streaming(r)                           -> "lost"
                    [] call[r] = "created" \/ r \in unsaved -> "stored"
                    [] OTHER                                  -> link[r]]
  /\ UNCHANGED <<graphVars, review, text, place, gestures, pastVars>>

\* The panel has been told how the run ended.
Over(r) == place[r] > 0 /\ emitted[r][place[r]].kind \in Final

\* reconnectSession, in a worker that something has started: the stream is opened for
\* the same tab, after the last number that got to storage, whatever the panel shows.
\* Where no session got there, this does not come.  A new worker that is slow to
\* restore may find the session it made itself meanwhile, and replace its stream.
Resume(r) ==
  /\ \/ link[r] \in {"lost", "stored"} /\ UNCHANGED mishaps
     \/ link[r] = "open" /\ Mishap
  /\ link' = [link EXCEPT ![r] = "resumed"]
  /\ \E n \in FirstPlace(r)..Len(emitted[r]) :
       /\ n <= place[r] \/ n = FirstPlace(r)
       /\ place' = [place EXCEPT ![r] = n]
  /\ revived' = TRUE
  /\ overlapped' = (overlapped \/ r # latest \/ Over(r))
  /\ UNCHANGED <<graphVars, panelVars, call, gestures, latest, edited, hasty, ignored>>
-----------------------------------------------------------------------------
(* The messages of the worker.  The rest only changes the line of the status.  *)

Routed == {"workflow_started", "token_delta"} \cup Final

\* A panel without a view is set to idle first; that is rendered later, and so over
\* the running view.
HandleStarted ==
  /\ view' = "running" /\ shown' = "running"
  /\ IF view = "none" THEN idles' = idles + 1 /\ text' = <<>> ELSE UNCHANGED <<idles, text>>
  /\ UNCHANGED edited

HandleTokenDelta(e) ==
  /\ text' = text \o e.own["delta"]
  /\ UNCHANGED <<view, shown, idles, edited>>

\* The result of the run takes the place of the text put together so far, unless it
\* is empty.
HandleCompleted(e) ==
  /\ IF e.own["result"].reply_content \in {Null, <<>>} THEN UNCHANGED <<text, edited>>
     ELSE text' = e.own["result"].reply_content /\ edited' = FALSE
  /\ SetView("completed")

\* For a cancelled run as for a failed one the SSE manager calls onError, which routes
\* a workflow_failed; WORKFLOW_CANCELLED itself is a message without a handler.  (A
\* cancelled event that came before the stream is not replayed: there it is the
\* retries, used up on a run that is over, that end in the same call.)
HandleFailed == ShowError /\ UNCHANGED <<text, edited>>

Handle(e) ==
  CASE e.kind = "workflow_started"   -> HandleStarted
    [] e.kind = "token_delta"        -> HandleTokenDelta(e)
    [] e.kind = "workflow_completed" -> HandleCompleted(e)
    [] e.kind \in {"workflow_failed", "workflow_cancelled"} -> HandleFailed

Comes(r, i) ==
  /\ i > place[r] /\ i <= Len(emitted[r]) /\ emitted[r][i].kind \in Routed
  /\ \A j \in (place[r] + 1)..(i - 1) : emitted[r][j].kind \notin Routed

\* The next event, as it was emitted or as it was stored.
Deliver(r) ==
  /\ Streaming(r)
  /\ \E i \in DOMAIN emitted[r] :
       /\ Comes(r, i)
       /\ \E e \in {emitted[r][i], Parsed(Dumped(emitted[r][i]))} : Handle(e)
       /\ place' = [place EXCEPT ![r] = i]
       /\ link' = [link EXCEPT ![r] = IF emitted[r][i].kind \in Final THEN "closed" ELSE @]
  /\ UNCHANGED <<graphVars, call, review, mishaps, gestures,
                 latest, hasty, overlapped, revived, ignored>>

\* The stream breaks and is opened again, which resumed ones are not: a token may come
\* twice.  With either, those may be missed that fall between history and subscription.
BreakConnection(r) ==
  /\ Mishap
  /\ Streaming(r)
  /\ \E i \in DOMAIN emitted[r] :
       /\ emitted[r][i].kind = "token_delta"
       /\ i <= place[r] => link[r] = "open"
       /\ place' = [place EXCEPT ![r] = IF i <= place[r] THEN i - 1 ELSE i]
  /\ UNCHANGED <<graphVars, panelVars, call, link, gestures, pastVars>>

\* The retries are used up, of which a resumed stream has none: onError routes a
\* workflow_failed.
LoseConnection(r) ==
  /\ \/ link[r] = "open" /\ Mishap
     \/ link[r] = "resumed" /\ UNCHANGED mishaps
  /\ link' = [link EXCEPT ![r] = "closed"]
  /\ HandleFailed
  /\ UNCHANGED <<graphVars, review, call, place, gestures, latest, hasty, overlapped, revived, ignored>>
-----------------------------------------------------------------------------
UserActs ==
  \/ OpenPanel \/ DismissPanel
  \/ Edit \/ CancelEdit \/ ConfirmEdit
  \/ \E r \in Reviews : Click(r)

GraphActs == (\E r \in Reviews : GraphStep(r)) /\ UNCHANGED <<tabVars, pastVars>>

CancelActs ==
  /\ Mishap
  /\ \E r \in Reviews : CancelWorkflow(r)
  /\ UNCHANGED <<panelVars, call, link, place, gestures, pastVars>>

AnswerCall(r) ==
  \/ FindReview(r) \/ NoReview(r)
  \/ NoCodeStored(r) \/ StartRun(r)
  \/ CreateRun(r) \/ Refuse(r) \/ Connect(r)
  \/ LoseRequest(r)

WorkerActs == KillWorker \/ \E r \in Reviews : Resume(r)

ConnectionActs == \E r \in Reviews : BreakConnection(r) \/ LoseConnection(r)

AnswerActs == \E r \in Reviews : AnswerCall(r)

DeliverActs == \E r \in Reviews : Deliver(r)

PanelNext ==
  \/ UserActs \/ RenderIdle
  \/ GraphActs \/ CancelActs
  \/ WorkerActs \/ ConnectionActs \/ AnswerActs \/ DeliverActs

\* The graphs end.  While the worker lives, it answers calls and brings to a tab that
\* stays open what its streams bring; nothing obliges the browser to let it live or
\* to start another one, and the user need not do anything.
PanelFairness == WF_allVars(GraphActs) /\ WF_allVars(AnswerActs) /\ WF_allVars(DeliverActs)

PanelSpec == PanelInit /\ [][PanelNext]_allVars /\ PanelFairness
-----------------------------------------------------------------------------
(* Properties *)

\* The reply offered for copying and editing is what the graph generated, to the
\* last chunk, although tokens come twice or not at all when a connection breaks or
\* a new worker takes it up: the result that takes the place of the tokens repairs
\* it.  A user who presses a button of the old HTML while the panel starts over may
\* be offered nothing, but not a part.
ReplyIsTheGraphs ==
  view = "completed" /\ ~edited /\ ~overlapped =>
    text = replied[latest] \/ (hasty /\ text = <<>>)

\* Tokens of different runs get into one text only when runs overlapped.
OneRunsText ==
  ~overlapped => \A i, j \in DOMAIN text : text[i].run = text[j].run

\* Nobody gets messages of two runs, or those of one twice, who waits for the panel, as
\* long as no worker takes up what another one left: the panel offers no button that
\* starts a run, from the start of one until the last it hears of it.
OverlapIsExplained == overlapped => hasty \/ revived

\* A run whose worker died before the panel heard how it ended.
Forsaken(r) == link[r] = "lost" /\ ~Over(r)

\* The panel does not go on to say "running" for ever, however the run ends, unless
\* the worker answered with an error that was not looked at, or died and no other one
\* has taken up its stream: nothing in the panel wakes it.
PanelSettles ==
  view = "running" ~> view # "running" \/ ignored \/ \E r \in Reviews : Forsaken(r)
============================================================================
