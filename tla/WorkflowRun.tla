----------------------------- MODULE WorkflowRun -----------------------------
(***************************************************************************)
(* One workflow run of the review API, from POST /review/run to the        *)
(* __CLOSE__ signal: the workflow_runs row, the workflow_events table, the *)
(* Redis channel of the run, the background task with its runner and its   *)
(* event mapper, the task that polls for cancellation, and the cancel      *)
(* endpoint.  Every await of the code is a point where another actor can   *)
(* step in, so every database or Redis call is an action of its own.       *)
(*                                                                         *)
(* api/sse.py, shared/workflow_events/event_store.py,                      *)
(* shared/workflow_events/mapper.py, shared/streaming/runner.py.           *)
(***************************************************************************)
EXTENDS Naturals, Sequences

CONSTANTS
  Cancellers,     \* the requests POST /review/run/{id}/cancel
  UniqueSequence, \* TRUE: the table of storage/schema.sql, whose primary key
                  \* is (workflow_id, sequence); FALSE: the table init_db
                  \* creates, whose primary key is the event id
  MaxRaw,         \* bound: raw events the graph emits
  MaxFaults       \* bound: calls to PostgreSQL or Redis that fail

ASSUME RunAssumption ==
  /\ UniqueSequence \in BOOLEAN
  /\ MaxRaw \in Nat
  /\ MaxFaults \in Nat

VARIABLES
  \* PostgreSQL
  status,     \* workflow_runs.status, "none" before the row exists
  canceled,   \* workflow_runs.canceled = "1"
  log,        \* workflow_events, in commit order
  \* Redis
  channel,    \* everything published on workflow:events:{id}, oldest first
  \* the background task
  pc,         \* what it does next
  current,    \* the event save_and_publish works on
  after,      \* where it goes on once that event is published
  counter,    \* ProjectionMapper._sequence
  v3seq,      \* the seq of the last native event of the graph
  maxSeq,     \* max_sequence of map_stream
  cancelled,  \* WorkflowRunner._cancelled
  checker,    \* the task that runs _cancel_checker
  \* the cancel endpoint
  canceller,  \* where each request is
  \* the environment
  faults      \* calls that have failed so far

row    == <<status, canceled>>
mapper == <<counter, v3seq, maxSeq>>
vars   == <<status, canceled, log, channel, pc, current, after, counter, v3seq,
            maxSeq, cancelled, checker, canceller, faults>>

Terminal == {"completed", "failed", "cancelled"}
Status   == {"none", "pending", "running"} \cup Terminal

\* "state" is a values event, "token" a message delta, "node" a business event
\* with a sequence, "custom" the pass-through event, which gets none.
GraphKind == {"state", "token", "node", "custom"}
Kind      == {"started"} \cup GraphKind \cup Terminal

\* The id of an event is a uuid; the number of the row it is to become
\* distinguishes events just as well.
Event == [id : Nat \ {0}, seq : Nat, kind : Kind]
Close == [id |-> 0, seq |-> 0, kind |-> "__CLOSE__"]

NewEvent(kind, seq) == [id |-> Len(log) + 1, seq |-> seq, kind |-> kind]

Init ==
  /\ status = "none"
  /\ canceled = FALSE
  /\ log = <<>>
  /\ channel = <<>>
  /\ pc = "idle"
  /\ current = [id |-> 1, seq |-> 0, kind |-> "started"]
  /\ after = "run"
  /\ counter = 0
  /\ v3seq = 0
  /\ maxSeq = 0
  /\ cancelled = FALSE
  /\ checker = "stopped"
  /\ canceller = [c \in Cancellers |-> "idle"]
  /\ faults = 0

\* One call to PostgreSQL or Redis raises, or the server dies.
Fault ==
  /\ faults < MaxFaults
  /\ faults' = faults + 1

UpdateUncommitted(s) == UNCHANGED row

UpdateRunStatus(s) ==
  /\ status' = s
  /\ UNCHANGED canceled

Larger(m, n) == IF m < n THEN n ELSE m
-----------------------------------------------------------------------------
(* POST /review/run *)

\* The invite code is valid and the row is inserted.
CreateRunRecord ==
  /\ pc = "idle"
  /\ status' = "pending"
  /\ pc' = "prepare"
  /\ UNCHANGED <<canceled, log, channel, current, after, mapper, cancelled,
                 checker, canceller, faults>>

\* input_mapper raises on a hotel_context without hotel_id: the request fails
\* and no task ever works on the row.
PrepareInput ==
  /\ pc = "prepare"
  /\ pc' \in {"start", "abandoned"}
  /\ UNCHANGED <<row, log, channel, current, after, mapper, cancelled, checker,
                 canceller, faults>>
-----------------------------------------------------------------------------
(* save_and_publish: an exception leaves for the except clause, or, when it is
   raised there, for the statement behind the inner try. *)

EmitUnsaved(event, next) ==
  /\ current' = event
  /\ after' = next
  /\ pc' = "publish"

EmitNumberedOnly(event, next) ==
  /\ current' = event
  /\ after' = next
  /\ pc' = IF event.seq = 0 THEN next ELSE "save"

Emit(event, next) ==
  /\ current' = event
  /\ after' = next
  /\ pc' = "save"

Raised == IF after = "mark_failed" THEN "mark_failed" ELSE "raised"

Collides ==
  /\ UniqueSequence
  /\ \E i \in 1..Len(log) : log[i].seq = current.seq

SaveEvent ==
  /\ pc = "save"
  /\ \/ /\ ~ Collides
        /\ log' = Append(log, current)
        /\ pc' = "publish"
        /\ UNCHANGED faults
     \/ /\ Collides
        /\ pc' = Raised
        /\ UNCHANGED <<log, faults>>
     \/ /\ Fault
        /\ pc' = Raised
        /\ UNCHANGED log
  /\ UNCHANGED <<row, channel, current, after, mapper, cancelled, checker,
                 canceller>>

PublishEvent ==
  /\ pc = "publish"
  /\ \/ /\ channel' = Append(channel, current)
        /\ pc' = after
        /\ UNCHANGED faults
     \/ /\ Fault
        /\ pc' = Raised
        /\ UNCHANGED channel
  /\ UNCHANGED <<row, log, current, after, mapper, cancelled, checker, canceller>>
-----------------------------------------------------------------------------
(* The background task up to the event loop *)

\* The UPDATE has no condition on the old status.
MarkRunning ==
  /\ pc = "start"
  /\ \/ /\ UpdateRunStatus("running")
        /\ Emit(NewEvent("started", 0), "run")
        /\ UNCHANGED faults
     \/ /\ Fault
        /\ pc' = "raised"
        /\ UNCHANGED <<row, current, after>>
  /\ UNCHANGED <<log, channel, mapper, cancelled, checker, canceller>>

StartRunner ==
  /\ pc = "run"
  /\ pc' = "stream"
  /\ checker' = "polling"
  /\ UNCHANGED <<row, log, channel, current, after, mapper, cancelled, canceller,
                 faults>>
-----------------------------------------------------------------------------
(* The event loop: graph, mapper and runner *)

\* Native events carry the seq of the v3 stream, custom ones carry 0.  A raw
\* event of kind "none" is one transform filters out.
RawEvent ==
  {[native |-> TRUE, kind |-> k] : k \in {"state", "token", "none"}} \cup
  {[native |-> FALSE, kind |-> k] : k \in {"node", "custom", "none"}}

NextSequence(raw) == IF raw.native THEN v3seq + 1 ELSE counter + 1

\* Message deltas and pass-through events are created without a sequence.
EventSequence(raw) ==
  IF raw.kind \in {"token", "custom"} THEN 0 ELSE NextSequence(raw)

TakeSequence(raw) ==
  IF raw.native
  THEN v3seq' = NextSequence(raw) /\ UNCHANGED counter
  ELSE counter' = NextSequence(raw) /\ UNCHANGED v3seq

YieldOrContinue(event, next) ==
  \/ /\ ~ cancelled
     /\ Emit(event, next)
  \/ /\ cancelled
     /\ UNCHANGED <<pc, current, after>>

\* The runner looks at its flag before it hands an event on: a cancelled run
\* drops the event and leaves the loop.
Yield(event, next) ==
  \/ /\ ~ cancelled
     /\ Emit(event, next)
  \/ /\ cancelled
     /\ pc' = "finish"
     /\ UNCHANGED <<current, after>>

MapRawEvent(raw) ==
  /\ pc = "stream"
  /\ v3seq + counter < MaxRaw
  /\ TakeSequence(raw)
  /\ \/ /\ raw.kind = "none"
        /\ UNCHANGED <<pc, current, after, maxSeq>>
     \/ /\ raw.kind # "none"
        /\ maxSeq' = Larger(maxSeq, EventSequence(raw))
        /\ Yield(NewEvent(raw.kind, EventSequence(raw)), "stream")
  /\ UNCHANGED <<row, log, channel, cancelled, checker, canceller, faults>>

OutcomeSequenceFromCounter == counter + 1

OutcomeSequence == maxSeq + 1

\* The graph is through, or raised: either way map_stream yields one event and
\* ends without an exception.
EndStream(outcome) ==
  /\ pc = "stream"
  /\ Yield(NewEvent(outcome, OutcomeSequence), "finish")
  /\ UNCHANGED <<row, log, channel, mapper, cancelled, checker, canceller, faults>>

IsWorkflowCancelledInverted == ~ canceled

IsWorkflowCancelled == canceled

\* _cancel_checker wakes up, or its query raises and the task dies with it.
PollCancel ==
  /\ checker = "polling"
  /\ \/ /\ IsWorkflowCancelled
        /\ cancelled' = TRUE
        /\ checker' = "stopped"
        /\ UNCHANGED faults
     \/ /\ Fault
        /\ checker' = "broken"
        /\ UNCHANGED cancelled
  /\ UNCHANGED <<row, log, channel, pc, current, after, mapper, canceller>>

\* The finally clause of the runner awaits the checker and so rethrows what
\* killed it; then the task asks whether the run was cancelled.
FinishRunner ==
  /\ pc = "finish"
  /\ checker' = "stopped"
  /\ \/ /\ checker = "broken"
        /\ pc' = "raised"
        /\ UNCHANGED <<current, after>>
     \/ /\ checker # "broken"
        /\ cancelled
        /\ Emit(NewEvent("cancelled", 0), "mark_cancelled")
     \/ /\ checker # "broken"
        /\ ~ cancelled
        /\ pc' = "mark_completed"
        /\ UNCHANGED <<current, after>>
  /\ UNCHANGED <<row, log, channel, mapper, cancelled, canceller, faults>>
-----------------------------------------------------------------------------
(* The end of the background task *)

FinalStatusMisspelt == IF pc = "mark_cancelled" THEN "canceled" ELSE "completed"

FinalStatusUnasked == "completed"

FinalStatus == IF pc = "mark_cancelled" THEN "cancelled" ELSE "completed"

MarkEnded ==
  /\ pc \in {"mark_cancelled", "mark_completed"}
  /\ \/ /\ UpdateRunStatus(FinalStatus)
        /\ pc' = "close"
        /\ UNCHANGED faults
     \/ /\ Fault
        /\ pc' = "raised"
        /\ UNCHANGED row
  /\ UNCHANGED <<log, channel, current, after, mapper, cancelled, checker,
                 canceller>>

HandleException ==
  /\ pc = "raised"
  /\ Emit(NewEvent("failed", 0), "mark_failed")
  /\ checker' = "stopped"
  /\ UNCHANGED <<row, log, channel, mapper, cancelled, canceller, faults>>

MarkFailed ==
  /\ pc = "mark_failed"
  /\ pc' = "close"
  /\ \/ /\ UpdateRunStatus("failed")
        /\ UNCHANGED faults
     \/ /\ Fault
        /\ UNCHANGED row
  /\ UNCHANGED <<log, channel, current, after, mapper, cancelled, checker,
                 canceller>>

CloseChannel ==
  /\ pc = "close"
  /\ pc' = "done"
  /\ \/ /\ channel' = Append(channel, Close)
        /\ UNCHANGED faults
     \/ /\ Fault
        /\ UNCHANGED channel
  /\ UNCHANGED <<row, log, current, after, mapper, cancelled, checker, canceller>>
-----------------------------------------------------------------------------
(* POST /review/run/{id}/cancel: the status is read in one session and the row
   is written in another. *)

ReadForCancel(c) ==
  /\ canceller[c] = "idle"
  /\ status # "none"
  /\ canceller' = [canceller EXCEPT
                     ![c] = IF status \in Terminal THEN "refused" ELSE "checked"]
  /\ UNCHANGED <<row, log, channel, pc, current, after, mapper, cancelled, checker,
                 faults>>

CancelWorkflowRun(c) ==
  /\ canceller[c] = "checked"
  /\ \/ /\ status' = "cancelled"
        /\ canceled' = TRUE
        /\ canceller' = [canceller EXCEPT ![c] = "accepted"]
        /\ UNCHANGED faults
     \/ /\ Fault
        /\ canceller' = [canceller EXCEPT ![c] = "lost"]
        /\ UNCHANGED row
  /\ UNCHANGED <<log, channel, pc, current, after, mapper, cancelled, checker>>
-----------------------------------------------------------------------------
(* The server dies or is shut down: its tasks and requests are gone, PostgreSQL
   and Redis stay.  The next process looks at no unfinished run. *)

Working == pc \notin {"idle", "done", "crashed", "abandoned"}

\* An event loop that is shut down cancels the task, which only the finally clause
\* of the task notices: CancelledError is no Exception.
ClosesAtShutdown ==
  /\ pc # "prepare"
  /\ channel' = Append(channel, Close)

Crash ==
  /\ Working
  /\ Fault
  /\ pc' = "crashed"
  /\ checker' = "stopped"
  /\ canceller' = [c \in Cancellers |->
                     IF canceller[c] = "checked" THEN "lost" ELSE canceller[c]]
  /\ ClosesAtShutdown \/ UNCHANGED channel
  /\ UNCHANGED <<row, log, current, after, mapper, cancelled>>
-----------------------------------------------------------------------------
Task ==
  \/ CreateRunRecord
  \/ PrepareInput
  \/ MarkRunning
  \/ StartRunner
  \/ \E raw \in RawEvent : MapRawEvent(raw)
  \/ \E outcome \in {"completed", "failed"} : EndStream(outcome)
  \/ SaveEvent
  \/ PublishEvent
  \/ FinishRunner
  \/ MarkEnded
  \/ HandleException
  \/ MarkFailed
  \/ CloseChannel

Next ==
  \/ Task
  \/ PollCancel
  \/ \E c \in Cancellers : ReadForCancel(c)
  \/ \E c \in Cancellers : CancelWorkflowRun(c)
  \/ Crash

Spec == Init /\ [][Next]_vars

\* asyncio resumes the task after every await, and the graph ends.  Nothing
\* obliges a user to cancel, the poller to be on time or a call to fail.
FairSpec == Spec /\ WF_vars(Task)
-----------------------------------------------------------------------------
(* Properties *)

PC == {"idle", "prepare", "start", "run", "stream", "save", "publish", "finish",
       "mark_cancelled", "mark_completed", "raised", "mark_failed", "close",
       "done", "crashed", "abandoned"}

\* Every variable holds a value of its kind; statuses are spelled as the clients
\* of the API compare them.
TypeOK ==
  /\ status \in Status
  /\ canceled \in BOOLEAN
  /\ log \in Seq(Event)
  /\ channel \in Seq(Event \cup {Close})
  /\ pc \in PC
  /\ current \in Event
  /\ after \in {"run", "stream", "finish", "mark_cancelled", "mark_failed"}
  /\ counter \in Nat
  /\ v3seq \in Nat
  /\ maxSeq \in Nat
  /\ cancelled \in BOOLEAN
  /\ checker \in {"polling", "broken", "stopped"}
  /\ canceller \in [Cancellers -> {"idle", "refused", "checked", "accepted", "lost"}]
  /\ faults \in Nat

Stored(kind) == \E i \in 1..Len(log) : log[i].kind = kind

ClosePublished == \E i \in 1..Len(channel) : channel[i] = Close

\* A run shows up as cancelled, in its row or in its events, only if a cancel
\* request wrote the flag: no failure, lost query or late event makes one up.
CancelledOnlyOnRequest ==
  status = "cancelled" \/ Stored("cancelled") => canceled

\* A row says completed only if the graph's stream was consumed to its end, so
\* the outcome event is in the table, and the run never announced that it was
\* cancelled, however late the flag was seen.
CompletedHasOutcome ==
  status = "completed" =>
    /\ Stored("completed") \/ Stored("failed")
    /\ ~ Stored("cancelled")

\* Whoever waits for __CLOSE__ and then reads the row finds a final status: the
\* close signal never overtakes the last status update.
SettledWhenClosed ==
  ClosePublished /\ faults = 0 => status \in Terminal

\* Nobody listening from the start sees the channel close without having been
\* told how the run ended, if every call succeeded and rows have distinct keys.
OutcomeBeforeClose ==
  ClosePublished /\ faults = 0 /\ ~ UniqueSequence =>
    \E i \in 1..Len(channel) : channel[i].kind \in Terminal

\* Replay sorts rows by sequence, and still delivers the outcome of the graph
\* after all the others, although native and custom events number themselves
\* independently and the outcome gets its number from a third counter.
OutcomeSortsLast ==
  \A i, j \in 1..Len(log) :
    log[i].kind \in {"completed", "failed"} /\ log[i].seq > 0 /\ j # i =>
      log[j].seq < log[i].seq

Feed == INSTANCE EventFeed WITH stored <- log, feed <- channel

\* The run implements EventFeed: what is published was stored just before, no
\* row is published twice or out of order, nothing is stored or published once
\* the channel is closed, and it is closed at most once.
FeedSpec == Feed!Spec

Lifecycle ==
  INSTANCE RunLifecycle WITH
    run <- [status   |-> status,
            canceled |-> canceled,
            stored   |-> {[seq |-> log[i].seq, kind |-> log[i].kind] : i \in 1..Len(log)},
            over     |-> pc \in {"close", "done", "crashed", "abandoned"}],
    Numbers <- 0..(MaxRaw + 1),
    GraphKinds <- GraphKind

\* The run implements RunLifecycle, the run as the history service reads it: a
\* row becomes final only together with the events that bear it out, whatever
\* failed, collided, was dropped or came late on the way.
LifecycleSpec == Lifecycle!Spec

\* Once the background task exists, the run comes to rest for good, with the
\* channel closed and a final status, unless a call failed: neither a cancel
\* request in a bad moment nor a dropped event leaves it half way.
RunSettles ==
  pc = "start" ~> [](faults > 0 \/ (ClosePublished /\ status \in Terminal))

\* What POST /review/run/{id}/cancel answers, "Workflow cancelled", would have to
\* mean: a run whose cancellation was accepted is a cancelled run in the end.
\* The code does not keep it (README, findings).
AcceptedCancelHolds ==
  pc = "done" => \A c \in Cancellers : canceller[c] = "accepted" => status = "cancelled"

\* What save_and_publish says of itself, "persist and publish (atomic operation)":
\* outside of it, a live task has published every row there is.  The code does not
\* keep it (README, findings).
SaveAndPublishIsAtomic ==
  pc \notin {"save", "publish", "crashed"} =>
    \A i \in 1..Len(log) : \E k \in 1..Len(channel) : channel[k] = log[i]
==============================================================================
