---------------------------- MODULE SessionClient ----------------------------
(***************************************************************************)
(* The background service worker of the Chrome extension: it starts runs,  *)
(* keeps a session per run in memory and in chrome.storage.session, holds  *)
(* an EventSource per run with a bounded number of retries, routes events  *)
(* to the tab, cancels, and picks its sessions up again after the browser  *)
(* has killed it.  Every await is a point where another handler can run.   *)
(* The backend is as much of WorkflowRun and EventStream as a client sees. *)
(*                                                                         *)
(* chrome-extension/src/background: service-worker.ts, sse-manager.ts,     *)
(* session-manager.ts, event-router.ts.                                    *)
(***************************************************************************)
EXTENDS Naturals

CONSTANTS
  Runs,        \* the runs users ask for, one GENERATE_REPLY each
  MaxRetry,    \* maxRetry of a generated run's connection (3 in the code)
  MaxSeq,      \* bound: numbers the backend gives to events
  MaxMessages, \* bound: events that do not end their run
  MaxRestarts, \* bound: deaths of the service worker
  MaxLost      \* bound: writes to chrome.storage.session that are lost

ASSUME ClientAssumption ==
  /\ MaxRetry \in Nat
  /\ MaxSeq \in Nat
  /\ MaxMessages \in Nat
  /\ MaxRestarts \in Nat
  /\ MaxLost \in Nat

VARIABLES
  \* the backend
  run,      \* what has become of each run
  \* chrome.storage.session
  disk,     \* the sessions in it
  \* the service worker
  boot,     \* where onServiceWorkerStart is
  read,     \* the table _restore has read and not yet taken over
  mem,      \* _sessions of the session manager
  resume,   \* sessions whose delayed reconnect is due
  conn,     \* _connections of the SSE manager
  request,  \* where handleGenerateReply is for each run
  cancel,   \* where handleCancel is
  \* the environment
  messages, \* events delivered so far that did not end their run
  restarts, \* deaths of the worker so far
  lost,     \* writes to storage lost so far
  \* history variables, read by the properties only
  told,     \* how the tab was told that the run completed or failed
  seen      \* the greatest event number routed to the tab

storage == <<disk, lost>>
worker  == <<boot, read, resume>>
bounds  == <<messages, restarts>>
vars    == <<run, storage, worker, mem, conn, request, cancel, bounds, told, seen>>

Outcome == {"completed", "failed", "cancelled"}
Active  == {"pending", "running"}

\* ended: completedAt or failedAt is set, and stays so when the status changes.
NoSession    == [status |-> "absent", seq |-> 0, ended |-> FALSE]
NoConnection == [status |-> "none", sockets |-> 0, timers |-> 0, retries |-> 0,
                 seq |-> 0, restored |-> FALSE]
NoCancel     == [pc |-> "idle", queue |-> {}, at |-> {}]

\* A worker that has found no sessions at its first start.
Init ==
  /\ run = [r \in Runs |-> "none"]
  /\ disk = [r \in Runs |-> NoSession]
  /\ lost = 0
  /\ boot = "up"
  /\ read = disk
  /\ mem = disk
  /\ resume = {}
  /\ conn = [r \in Runs |-> NoConnection]
  /\ request = [r \in Runs |-> "idle"]
  /\ cancel = NoCancel
  /\ messages = 0
  /\ restarts = 0
  /\ told = [r \in Runs |-> {}]
  /\ seen = [r \in Runs |-> 0]
-----------------------------------------------------------------------------
(* The session manager *)

Larger(m, n) == IF m < n THEN n ELSE m

\* A write that fails is only logged, and one that nobody awaits may come too late
\* for a worker that dies: either way the storage keeps the table it had.
Persist ==
  \/ /\ disk' = mem'
     /\ UNCHANGED lost
  \/ /\ lost < MaxLost
     /\ lost' = lost + 1
     /\ UNCHANGED disk

Save(sessions) ==
  /\ mem' = sessions
  /\ Persist

\* A session that is not there is not brought back.
WithStatus(r, status) ==
  IF mem[r] = NoSession
  THEN mem
  ELSE [mem EXCEPT ![r] = [status |-> status,
                           seq    |-> @.seq,
                           ended  |-> @.ended \/ status \in {"completed", "failed"}]]

WithSequenceNext(sessions, r, seq) ==
  IF sessions[r] = NoSession
  THEN sessions
  ELSE [sessions EXCEPT ![r].seq = Larger(@, seq + 1)]

WithSequence(sessions, r, seq) ==
  IF sessions[r] = NoSession
  THEN sessions
  ELSE [sessions EXCEPT ![r].seq = Larger(@, seq)]

\* reconnectCount and the index by tab are not modelled: no decision reads them.
\* Nothing is written when there is nothing to update.
SaveIfPresent(r, sessions) ==
  IF mem[r] = NoSession THEN UNCHANGED <<mem, storage>> ELSE Save(sessions)

RunningSessions == {r \in Runs : mem[r].status \in Active}
-----------------------------------------------------------------------------
(* The SSE manager.  An EventSource or a timer it no longer refers to is not
   closed or cleared, so both are counted.  Of the status of a connection only
   "disconnected" is ever read; the others are "active" here, and onopen, which
   does nothing else, is left out. *)

LessUnchecked(n) == n - 1

Less(n) == IF n = 0 THEN 0 ELSE n - 1

DisconnectedTimerLeft(c) ==
  IF c.status = "none" THEN c
  ELSE [c EXCEPT !.status = "disconnected", !.sockets = Less(@)]

Disconnected(c) ==
  IF c.status = "none" THEN c
  ELSE [c EXCEPT !.status = "disconnected", !.sockets = Less(@), !.timers = Less(@)]

DoConnect(c) == [c EXCEPT !.status = "active", !.sockets = @ + 1]

\* A connection that exists is closed first.
Connect(r, since, restored) ==
  LET old == Disconnected(conn[r])
  IN  conn' = [conn EXCEPT
                 ![r] = DoConnect([NoConnection EXCEPT
                                     !.sockets = old.sockets,
                                     !.timers = old.timers,
                                     !.seq = since,
                                     !.restored = restored])]

RetryLimitOffByOne(c) == IF c.restored THEN 0 ELSE Less(MaxRetry)

\* The connections of restored sessions are made with maxRetry 0.
RetryLimit(c) == IF c.restored THEN 0 ELSE MaxRetry

\* Closes the EventSource and sets a timer for the next attempt.
RetryUncounted(c) == [c EXCEPT !.sockets = Less(@), !.timers = @ + 1]

Retry(c) ==
  [c EXCEPT !.sockets = Less(@), !.timers = @ + 1, !.retries = @ + 1]

\* What the stream of EventStream can send: any numbered or unnumbered event,
\* and the event that tells of the end once the run has ended.
Message(r) ==
  IF run[r] = "none" THEN {} ELSE
  {m \in [kind : Outcome \cup {"progress"}, seq : 0..MaxSeq] :
     /\ m.kind \in {"progress", run[r]}
     /\ m.kind = "completed" => m.seq > 0
     /\ m.kind = "cancelled" => m.seq = 0}

Heard(r, m) ==
  [conn[r] EXCEPT !.retries = 0,
                  !.seq = IF m.seq > 0 THEN m.seq ELSE @]

\* The status a session gets from an event.
StatusAfterAnyOutcome(r, m) ==
  IF m.kind = "progress" THEN mem ELSE WithStatus(r, "completed")

StatusAfter(r, m) ==
  CASE m.kind = "progress"              -> mem
    [] m.kind = "completed"             -> WithStatus(r, "completed")
    [] m.kind \in {"failed", "cancelled"} -> WithStatus(r, "failed")

\* What the tab is told of an event: a cancelled run is announced as such, to
\* which the content script does not listen, and then, by onError, as failed.
Told(m) ==
  CASE m.kind = "progress"              -> {}
    [] m.kind = "completed"             -> {"completed"}
    [] m.kind \in {"failed", "cancelled"} -> {"error"}

OnMessage(r) ==
  /\ conn[r].sockets > 0
  /\ \E m \in Message(r) :
       /\ IF m.kind = "progress"
          THEN /\ messages < MaxMessages
               /\ messages' = messages + 1
               /\ conn' = [conn EXCEPT ![r] = Heard(r, m)]
          ELSE /\ UNCHANGED messages
               /\ conn' = [conn EXCEPT ![r] = Disconnected(Heard(r, m))]
       /\ SaveIfPresent(r, WithSequence(StatusAfter(r, m), r, m.seq))
       /\ told' = [told EXCEPT ![r] = @ \cup Told(m)]
       /\ seen' = [seen EXCEPT ![r] = Larger(@, m.seq)]
  /\ UNCHANGED <<run, worker, request, cancel, restarts>>

\* The stream ended or broke.  When the retries are used up onError reports the
\* run as failed; only the one handleGenerateReply passed marks the session.
OnError(r) ==
  /\ conn[r].sockets > 0
  /\ conn[r].status # "disconnected"
  /\ \/ /\ conn[r].retries < RetryLimit(conn[r])
        /\ conn' = [conn EXCEPT ![r] = Retry(@)]
        /\ UNCHANGED <<mem, storage, told>>
     \/ /\ conn[r].retries >= RetryLimit(conn[r])
        /\ conn' = [conn EXCEPT ![r] = Disconnected(@)]
        /\ told' = [told EXCEPT ![r] = @ \cup {"error"}]
        /\ IF conn[r].restored
           THEN UNCHANGED <<mem, storage>>
           ELSE SaveIfPresent(r, WithStatus(r, "failed"))
  /\ UNCHANGED <<run, worker, request, cancel, bounds, seen>>

Reopen(c) == DoConnect([c EXCEPT !.timers = Less(@)])

RetryTimer(r) ==
  /\ conn[r].timers > 0
  /\ conn' = [conn EXCEPT ![r] = Reopen(@)]
  /\ UNCHANGED <<run, storage, worker, mem, request, cancel, bounds, told, seen>>
-----------------------------------------------------------------------------
(* handleGenerateReply *)

Nameless == \E r \in Runs : run[r] = "none" /\ request[r] \in {"create", "update", "connect", "done"}

\* POST /review/run is answered with a run, or refuses it (invite code) and the
\* tab is told so, or the call raises, which the tab is not told.  A JSON answer
\* with neither a run nor the code "failed" is taken for a run without an id: it
\* gets a session and a stream, and the backend knows no such run.  There is one
\* key for all of these, so one request at most gets such an answer here.
PostRun(r) ==
  /\ request[r] = "idle"
  /\ \/ /\ \/ run' = [run EXCEPT ![r] = "running"]
           \/ ~ Nameless /\ UNCHANGED run
        /\ request' = [request EXCEPT ![r] = "create"]
        /\ UNCHANGED told
     \/ /\ request' = [request EXCEPT ![r] = "rejected"]
        /\ told' = [told EXCEPT ![r] = @ \cup {"error"}]
        /\ UNCHANGED run
     \/ /\ request' = [request EXCEPT ![r] = "raised"]
        /\ UNCHANGED <<run, told>>
  /\ UNCHANGED <<storage, worker, mem, conn, cancel, bounds, seen>>

CreateSession(r) ==
  /\ request[r] = "create"
  /\ Save([mem EXCEPT ![r] = [NoSession EXCEPT !.status = "pending"]])
  /\ request' = [request EXCEPT ![r] = "update"]
  /\ UNCHANGED <<run, worker, conn, cancel, bounds, told, seen>>

UpdateStatus(r) ==
  /\ request[r] = "update"
  /\ SaveIfPresent(r, WithStatus(r, "running"))
  /\ request' = [request EXCEPT ![r] = "connect"]
  /\ UNCHANGED <<run, worker, conn, cancel, bounds, told, seen>>

ConnectRun(r) ==
  /\ request[r] = "connect"
  /\ Connect(r, 0, FALSE)
  /\ request' = [request EXCEPT ![r] = "done"]
  /\ UNCHANGED <<run, storage, worker, mem, cancel, bounds, told, seen>>
-----------------------------------------------------------------------------
(* handleCancel: one session after the other, with an await on the backend in
   the middle of each. *)

CancelArrives ==
  /\ cancel.pc = "idle"
  /\ cancel' = [cancel EXCEPT !.pc = "list"]
  /\ UNCHANGED <<run, storage, worker, mem, conn, request, bounds, told, seen>>

ListRunning ==
  /\ cancel.pc = "list"
  /\ cancel' = [NoCancel EXCEPT !.pc = "next", !.queue = RunningSessions]
  /\ UNCHANGED <<run, storage, worker, mem, conn, request, bounds, told, seen>>

CancelNext ==
  /\ cancel.pc = "next"
  /\ \/ /\ cancel.queue = {}
        /\ cancel' = NoCancel
        /\ UNCHANGED conn
     \/ \E r \in cancel.queue :
          /\ conn' = [conn EXCEPT ![r] = Disconnected(@)]
          /\ cancel' = [pc |-> "post", queue |-> cancel.queue \ {r}, at |-> {r}]
  /\ UNCHANGED <<run, storage, worker, mem, request, bounds, told, seen>>

\* The call to the cancel endpoint was answered; an error is only logged.
\* closeSession does not look at the status the session has by now.
CloseSession ==
  /\ cancel.pc = "post"
  /\ \E r \in cancel.at : SaveIfPresent(r, WithStatus(r, "cancelled"))
  /\ cancel' = [cancel EXCEPT !.pc = "next", !.at = {}]
  /\ UNCHANGED <<run, worker, conn, request, bounds, told, seen>>
-----------------------------------------------------------------------------
(* The life of the worker *)

\* The browser kills the worker; the next message or timer loads the module
\* again.  What it was doing is gone, chrome.storage.session is not.
Restart ==
  /\ restarts < MaxRestarts
  /\ restarts' = restarts + 1
  /\ boot' = "restore"
  /\ mem' = [r \in Runs |-> NoSession]
  /\ read' = mem'
  /\ resume' = {}
  /\ conn' = [r \in Runs |-> NoConnection]
  /\ request' = [r \in Runs |->
                   IF request[r] \in {"create", "update", "connect"}
                   THEN "lost" ELSE request[r]]
  /\ cancel' = NoCancel
  /\ UNCHANGED <<run, storage, messages, told, seen>>

\* Handlers do not wait for this: a message that arrives meanwhile sees the
\* empty table, and what it saves replaces what was stored.
RestoreSessions ==
  /\ boot = "restore"
  /\ read' = disk
  /\ boot' = "assign"
  /\ UNCHANGED <<run, storage, resume, mem, conn, request, cancel, bounds, told, seen>>

\* What was read replaces what has been created meanwhile.  A read that failed, or
\* that found nothing ever stored, leaves the table as it is.
AssignSessions ==
  /\ boot = "assign"
  /\ mem' \in {read, mem}
  /\ read' = [r \in Runs |-> NoSession]
  /\ boot' = "cleanup"
  /\ UNCHANGED <<run, storage, resume, conn, request, cancel, bounds, told, seen>>

\* Sessions that completed or failed more than a day ago are dropped, also where
\* the user cancelled them later.
Cleanup ==
  /\ boot = "cleanup"
  /\ \E old \in SUBSET {r \in Runs : mem[r].ended} :
       Save([r \in Runs |-> IF r \in old THEN NoSession ELSE mem[r]])
  /\ boot' = "schedule"
  /\ UNCHANGED <<run, read, resume, conn, request, cancel, bounds, told, seen>>

ScheduleReconnects ==
  /\ boot = "schedule"
  /\ resume' = RunningSessions
  /\ boot' = "up"
  /\ UNCHANGED <<run, storage, read, mem, conn, request, cancel, bounds, told, seen>>

\* The delayed reconnect does not ask what has happened to the session since.  It
\* goes to the default address; a stream that finds no backend there only errs.
ReconnectSession(r) ==
  /\ r \in resume
  /\ resume' = resume \ {r}
  /\ Connect(r, mem[r].seq, TRUE)
  /\ UNCHANGED <<run, storage, boot, read, mem, request, cancel, bounds, told, seen>>

\* WorkflowRun announces its end; any client may have had it cancelled.
RunEnds(r) ==
  /\ run[r] = "running"
  /\ \E outcome \in Outcome : run' = [run EXCEPT ![r] = outcome]
  /\ UNCHANGED <<storage, worker, mem, conn, request, cancel, bounds, told, seen>>
-----------------------------------------------------------------------------
SocketStep(r) ==
  \/ OnMessage(r)
  \/ OnError(r)

GenerateStep(r) ==
  \/ CreateSession(r)
  \/ UpdateStatus(r)
  \/ ConnectRun(r)

CancelStep ==
  \/ ListRunning
  \/ CancelNext
  \/ CloseSession

Next ==
  \/ \E r \in Runs : PostRun(r)
  \/ \E r \in Runs : GenerateStep(r)
  \/ \E r \in Runs : SocketStep(r)
  \/ \E r \in Runs : RetryTimer(r)
  \/ \E r \in Runs : ReconnectSession(r)
  \/ \E r \in Runs : RunEnds(r)
  \/ CancelArrives
  \/ CancelStep
  \/ RestoreSessions
  \/ AssignSessions
  \/ Cleanup
  \/ ScheduleReconnects
  \/ Restart

Spec == Init /\ [][Next]_vars

\* The event loop runs every continuation and timer, fetch answers or fails, and
\* every stream ends (StreamsEnd of EventStream).  Nothing obliges a user to ask
\* or to cancel, or the browser to kill the worker.
FairSpec ==
  /\ Spec
  /\ WF_vars(CancelStep)
  /\ \A r \in Runs :
       WF_vars(GenerateStep(r)) /\ WF_vars(SocketStep(r)) /\ WF_vars(RetryTimer(r))
-----------------------------------------------------------------------------
(* Properties *)

Session    == [status : {"absent"} \cup Active \cup Outcome, seq : Nat, ended : BOOLEAN]
Connection == [status : {"none", "active", "disconnected"},
               sockets : Nat, timers : Nat, retries : Nat, seq : Nat,
               restored : BOOLEAN]

\* Every variable holds a value of its kind.
TypeOK ==
  /\ run \in [Runs -> {"none", "running"} \cup Outcome]
  /\ disk \in [Runs -> Session]
  /\ lost \in Nat
  /\ boot \in {"restore", "assign", "cleanup", "schedule", "up"}
  /\ read \in [Runs -> Session]
  /\ mem \in [Runs -> Session]
  /\ resume \in SUBSET Runs
  /\ conn \in [Runs -> Connection]
  /\ request \in [Runs -> {"idle", "create", "update", "connect", "done",
                           "rejected", "raised", "lost"}]
  /\ cancel \in [pc : {"idle", "list", "next", "post"},
                 queue : SUBSET Runs, at : SUBSET Runs]
  /\ messages \in Nat
  /\ restarts \in Nat
  /\ told \in [Runs -> SUBSET {"completed", "error"}]
  /\ seen \in [Runs -> Nat]

\* A run never has two streams or a stream and a pending attempt, which would
\* show every event twice, and a connection that was closed on purpose stays
\* closed: no timer of it is left to open it again.
OneStream ==
  \A r \in Runs :
    /\ conn[r].sockets + conn[r].timers <= 1
    /\ conn[r].status = "disconnected" => conn[r].sockets + conn[r].timers = 0

\* A stream that is opened again leaves out nothing the tab has not been shown,
\* wherever the worker died, whichever write was lost on the way and however late
\* the table that was read came to be taken over: it can only repeat events.
NothingSkipped == \A r \in Runs : disk[r].seq <= seen[r] /\ conn[r].seq <= seen[r]

\* A session that is stored as completed belongs to a run that did complete, and
\* its tab was told, whatever restarts and cancel requests came in between.
CompletedIsTrue ==
  \A r \in Runs : disk[r].status = "completed" =>
    run[r] = "completed" /\ "completed" \in told[r]

\* As long as the worker lives, a tab is told that a run failed only if it did
\* (or was cancelled, or refused), or if MaxRetry attempts in a row brought not a
\* single event.
FailureIsEarned ==
  \A r \in Runs : restarts = 0 /\ "error" \in told[r] =>
    \/ run[r] \in {"failed", "cancelled"}
    \/ request[r] = "rejected"
    \/ conn[r].retries = MaxRetry

\* If the worker lives, a session that was started is over at some point and
\* stays so: retries run out, and neither a cancel request in the middle of
\* handleGenerateReply nor a stream without a final event leaves it running.
GeneratedSettles ==
  \A r \in Runs :
    request[r] = "done" ~> [](restarts > 0 \/ mem[r].status \notin Active)

\* What the comments of onerror say: an error with retryCount 0 comes from a
\* stream that works and is ignored, or leads to a reconnect; only errors in a row
\* are reported to the tab of a run that goes on.  The code does not keep it
\* (README, findings).
FirstErrorReconnects ==
  [][\A r \in Runs :
       run[r] = "running" /\ told'[r] # told[r] => conn[r].retries > 0]_vars
==============================================================================
