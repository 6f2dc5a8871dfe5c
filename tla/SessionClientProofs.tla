------------------------- MODULE SessionClientProofs -------------------------
(***************************************************************************)
(* What holds of SessionClient for any set of runs, any retry limit and    *)
(* any number of events and of deaths of the worker.                       *)
(***************************************************************************)
EXTENDS SessionClient, TLAPS

\* A connection with other values of the fields the manager writes.
LEMMA ConnectionWith ==
  ASSUME NEW c \in Connection, NEW status \in {"active", "disconnected"},
         NEW sockets \in Nat, NEW timers \in Nat, NEW retries \in Nat, NEW seq \in Nat
  PROVE  /\ [c EXCEPT !.status = status, !.sockets = sockets, !.timers = timers] \in Connection
         /\ [c EXCEPT !.status = status, !.sockets = sockets] \in Connection
         /\ [c EXCEPT !.sockets = sockets, !.timers = timers, !.retries = retries] \in Connection
         /\ [c EXCEPT !.timers = timers] \in Connection
         /\ [c EXCEPT !.retries = retries, !.seq = seq] \in Connection
BY Zenon DEF Connection

\* The counts of a connection, and what is left of them.
LEMMA CountType ==
  ASSUME NEW c \in Connection
  PROVE  /\ c.sockets \in Nat /\ c.sockets + 1 \in Nat /\ Less(c.sockets) \in Nat
         /\ c.timers \in Nat /\ c.timers + 1 \in Nat /\ Less(c.timers) \in Nat
         /\ c.retries + 1 \in Nat
         /\ c.seq \in Nat
BY DEF Connection, Less

\* What the manager does to one connection leaves a connection.
LEMMA ConnectionType ==
  ASSUME NEW c \in Connection
  PROVE  /\ Disconnected(c) \in Connection
         /\ DoConnect(c) \in Connection
         /\ Retry(c) \in Connection
         /\ Reopen(c) \in Connection
<1>1. Disconnected(c) \in Connection /\ DoConnect(c) \in Connection /\ Retry(c) \in Connection
  BY CountType, ConnectionWith, Zenon DEF Disconnected, DoConnect, Retry
<1>2. [c EXCEPT !.timers = Less(@)] \in Connection
  BY CountType, ConnectionWith, Zenon
<1>3. Reopen(c) \in Connection
  BY <1>2, CountType, ConnectionWith, Zenon DEF Reopen, DoConnect
<1> QED
  BY <1>1, <1>3

\* The connection Connect makes is one.
LEMMA FreshConnectionType ==
  ASSUME NEW c \in Connection, NEW since \in Nat, NEW restored \in BOOLEAN
  PROVE  DoConnect([NoConnection EXCEPT !.sockets = c.sockets, !.timers = c.timers,
                                        !.seq = since, !.restored = restored])
           \in Connection
<1>1. NoConnection \in Connection
  <2>1. 0 \in Nat
    OBVIOUS
  <2> QED
    BY <2>1, Zenon DEF NoConnection, Connection
<1>2. c.sockets \in Nat /\ c.timers \in Nat
  BY CountType
<1>3. [NoConnection EXCEPT !.sockets = c.sockets, !.timers = c.timers,
                           !.seq = since, !.restored = restored] \in Connection
  BY <1>1, <1>2, Zenon DEF Connection
<1> QED
  BY <1>3, ConnectionType

\* The state of the run's connection after Connect, whatever there was before.
LEMMA ConnectType ==
  ASSUME TypeOK, NEW r \in Runs, NEW since \in Nat, NEW restored \in BOOLEAN,
         Connect(r, since, restored)
  PROVE  conn' \in [Runs -> Connection]
<1>1. Disconnected(conn[r]) \in Connection
  BY ConnectionType DEF TypeOK
<1> QED
  BY <1>1, FreshConnectionType DEF Connect, TypeOK

\* A table of sessions after a status or a number was written to one of them.
LEMMA SessionsType ==
  ASSUME NEW r \in Runs, TypeOK,
         NEW status \in Active \cup Outcome
  PROVE  WithStatus(r, status) \in [Runs -> Session]
<1>1. mem[r] \in Session /\ mem[r].ended \in BOOLEAN /\ (status \in {"completed", "failed"}) \in BOOLEAN
  BY DEF TypeOK, Session
<1>2. (mem[r].ended \/ status \in {"completed", "failed"}) \in BOOLEAN
  BY <1>1
<1>3. [status |-> status, seq |-> mem[r].seq,
                            ended |-> mem[r].ended \/ status \in {"completed", "failed"}] \in Session
  BY <1>1, <1>2, Zenon DEF Session
<1>4. mem \in [Runs -> Session]
  BY DEF TypeOK
<1>5. \/ WithStatus(r, status) = mem
      \/ WithStatus(r, status) =
           [mem EXCEPT ![r] = [status |-> status, seq |-> mem[r].seq,
                            ended |-> mem[r].ended \/ status \in {"completed", "failed"}]]
  BY Zenon DEF WithStatus
<1>6. ASSUME NEW s \in Session PROVE [mem EXCEPT ![r] = s] \in [Runs -> Session]
  BY <1>4
<1> QED
  BY <1>3, <1>4, <1>5, <1>6, Zenon

\* Writing a number to a session of a table leaves a table.
LEMMA SequenceType ==
  ASSUME NEW r \in Runs, NEW sessions \in [Runs -> Session], NEW seq \in Nat
  PROVE  WithSequence(sessions, r, seq) \in [Runs -> Session]
BY DEF WithSequence, Session, Larger

\* What an event makes of the sessions.
LEMMA OnMessageSessions ==
  ASSUME TypeOK, NEW r \in Runs, NEW m \in Message(r)
  PROVE  WithSequence(StatusAfter(r, m), r, m.seq) \in [Runs -> Session]
<1>1. m.seq \in Nat /\ m.kind \in Outcome \cup {"progress"}
  BY ClientAssumption DEF Message
<1>2. StatusAfter(r, m) \in [Runs -> Session]
  BY <1>1, SessionsType DEF StatusAfter, TypeOK, Outcome
<1> QED
  BY <1>1, <1>2, SequenceType

\* A connection that has heard an event is one.
LEMMA HeardType ==
  ASSUME TypeOK, NEW r \in Runs, NEW m \in Message(r)
  PROVE  Heard(r, m) \in Connection
<1>1. m.seq \in Nat /\ 0 \in Nat
  BY ClientAssumption DEF Message
<1>2. conn[r] \in Connection /\ conn[r].seq \in Nat
  BY CountType DEF TypeOK
<1>3. (IF m.seq > 0 THEN m.seq ELSE conn[r].seq) \in Nat
  BY <1>1, <1>2
<1> QED
  BY <1>1, <1>2, <1>3, ConnectionWith, Zenon DEF Heard

\* Replacing one connection by another.
LEMMA TableType ==
  ASSUME TypeOK, NEW r \in Runs, NEW c \in Connection, conn' = [conn EXCEPT ![r] = c]
  PROVE  conn' \in [Runs -> Connection]
BY DEF TypeOK

\* What OnMessage does, with the event named and the cases put together.
LEMMA OnMessageParts ==
  ASSUME TypeOK, NEW r \in Runs, OnMessage(r)
  PROVE  \E m \in Message(r) :
           /\ messages' \in Nat
           /\ conn' = [conn EXCEPT ![r] = IF m.kind = "progress"
                                          THEN Heard(r, m) ELSE Disconnected(Heard(r, m))]
           /\ SaveIfPresent(r, WithSequence(StatusAfter(r, m), r, m.seq))
           /\ told' = [told EXCEPT ![r] = @ \cup Told(m)]
           /\ seen' = [seen EXCEPT ![r] = Larger(@, m.seq)]
<1>1. PICK m \in Message(r) :
        /\ IF m.kind = "progress"
           THEN messages' = messages + 1 /\ conn' = [conn EXCEPT ![r] = Heard(r, m)]
           ELSE /\ messages' = messages
                /\ conn' = [conn EXCEPT ![r] = Disconnected(Heard(r, m))]
        /\ SaveIfPresent(r, WithSequence(StatusAfter(r, m), r, m.seq))
        /\ told' = [told EXCEPT ![r] = @ \cup Told(m)]
        /\ seen' = [seen EXCEPT ![r] = Larger(@, m.seq)]
  BY Zenon DEF OnMessage
<1>2. messages' \in Nat
  BY <1>1 DEF TypeOK
<1>3. conn' = [conn EXCEPT ![r] = IF m.kind = "progress"
                                  THEN Heard(r, m) ELSE Disconnected(Heard(r, m))]
  BY <1>1, Zenon
<1> QED
  BY <1>1, <1>2, <1>3, Zenon

\* Saving a well-formed table, or finding nothing to save.
LEMMA SaveIfPresentType ==
  ASSUME TypeOK, NEW r \in Runs, NEW sessions \in [Runs -> Session],
         SaveIfPresent(r, sessions)
  PROVE  mem' \in [Runs -> Session] /\ disk' \in [Runs -> Session] /\ lost' \in Nat
BY DEF TypeOK, SaveIfPresent, Save, Persist, storage

\* Every variable of the worker keeps to its type, whatever is lost and killed.
THEOREM TypeCorrect == Spec => []TypeOK
<1>1. Init => TypeOK
  BY ClientAssumption DEF Init, TypeOK, NoSession, NoConnection, NoCancel, Session, Connection
<1>2. ASSUME TypeOK, [Next]_vars PROVE TypeOK'
  <2> USE <1>2
  <2>1. ASSUME NEW r \in Runs, PostRun(r) PROVE TypeOK'
    BY <2>1 DEF TypeOK, PostRun, storage, worker, bounds
  <2>2. ASSUME NEW r \in Runs, CreateSession(r) PROVE TypeOK'
    <3>1. [NoSession EXCEPT !.status = "pending"] \in Session
      BY DEF NoSession, Session, Active
    <3>2. mem' \in [Runs -> Session]
      BY <2>2, <3>1 DEF TypeOK, CreateSession, Save
    <3> QED
      BY <2>2, <3>2 DEF TypeOK, CreateSession, Save, Persist, worker, bounds
  <2>3. ASSUME NEW r \in Runs, UpdateStatus(r) PROVE TypeOK'
    <3>1. mem' \in [Runs -> Session] /\ disk' \in [Runs -> Session] /\ lost' \in Nat
      BY <2>3, SessionsType, SaveIfPresentType DEF UpdateStatus, Active
    <3> QED
      BY <2>3, <3>1 DEF TypeOK, UpdateStatus, storage, worker, bounds
  <2>4. ASSUME NEW r \in Runs, ConnectRun(r) PROVE TypeOK'
    <3>1. conn' \in [Runs -> Connection]
      BY <2>4, ConnectType DEF ConnectRun
    <3> QED
      BY <2>4, <3>1 DEF TypeOK, ConnectRun, storage, worker, bounds
  <2>5. ASSUME NEW r \in Runs, OnMessage(r) PROVE TypeOK'
    <3>1. PICK m \in Message(r) :
            /\ messages' \in Nat
            /\ conn' = [conn EXCEPT ![r] =
                          IF m.kind = "progress"
                          THEN Heard(r, m) ELSE Disconnected(Heard(r, m))]
            /\ SaveIfPresent(r, WithSequence(StatusAfter(r, m), r, m.seq))
            /\ told' = [told EXCEPT ![r] = @ \cup Told(m)]
            /\ seen' = [seen EXCEPT ![r] = Larger(@, m.seq)]
      BY <2>5, OnMessageParts, Zenon
    <3>2. mem' \in [Runs -> Session] /\ disk' \in [Runs -> Session] /\ lost' \in Nat
      BY <3>1, OnMessageSessions, SaveIfPresentType
    <3>3. conn' \in [Runs -> Connection]
      <4>1. Heard(r, m) \in Connection /\ Disconnected(Heard(r, m)) \in Connection
        BY HeardType, ConnectionType
      <4>2. (IF m.kind = "progress" THEN Heard(r, m) ELSE Disconnected(Heard(r, m)))
              \in Connection
        BY <4>1, Zenon
      <4> QED
        BY <3>1, <4>2, TableType, Zenon
    <3>4. m.seq \in Nat /\ m.kind \in Outcome \cup {"progress"}
      BY ClientAssumption DEF Message
    <3>5. told' \in [Runs -> SUBSET {"completed", "error"}] /\ seen' \in [Runs -> Nat]
      BY <3>1, <3>4 DEF TypeOK, Told, Larger, Outcome
    <3> QED
      BY <2>5, <3>1, <3>2, <3>3, <3>5 DEF TypeOK, OnMessage, worker
  <2>6. ASSUME NEW r \in Runs, OnError(r) PROVE TypeOK'
    <3>1. conn' \in [Runs -> Connection]
      <4>1. conn[r] \in Connection
        BY DEF TypeOK
      <4>2. Retry(conn[r]) \in Connection /\ Disconnected(conn[r]) \in Connection
        BY <4>1, ConnectionType
      <4>3. \/ conn' = [conn EXCEPT ![r] = Retry(conn[r])]
            \/ conn' = [conn EXCEPT ![r] = Disconnected(conn[r])]
        BY <2>6, Zenon DEF OnError
      <4> QED
        BY <4>2, <4>3, TableType, Zenon
    <3>2. mem' \in [Runs -> Session] /\ disk' \in [Runs -> Session] /\ lost' \in Nat
      BY <2>6, SessionsType, SaveIfPresentType DEF OnError, TypeOK, Outcome, storage
    <3> QED
      BY <2>6, <3>1, <3>2 DEF TypeOK, OnError, storage, worker, bounds
  <2>7. ASSUME NEW r \in Runs, RetryTimer(r) PROVE TypeOK'
    <3>1. conn' \in [Runs -> Connection]
      <4>1. conn[r] \in Connection
        BY DEF TypeOK
      <4>2. Reopen(conn[r]) \in Connection
        BY <4>1, ConnectionType
      <4>3. conn' = [conn EXCEPT ![r] = Reopen(conn[r])]
        BY <2>7, Zenon DEF RetryTimer
      <4> QED
        BY <4>2, <4>3, TableType, Zenon
    <3> QED
      BY <2>7, <3>1 DEF TypeOK, RetryTimer, storage, worker, bounds
  <2>8. ASSUME NEW r \in Runs, ReconnectSession(r) PROVE TypeOK'
    <3>1. mem[r].seq \in Nat
      BY DEF TypeOK, Session
    <3>2. conn' \in [Runs -> Connection]
      BY <2>8, <3>1, ConnectType DEF ReconnectSession
    <3> QED
      BY <2>8, <3>2 DEF TypeOK, ReconnectSession, storage, bounds
  <2>9. ASSUME NEW r \in Runs, RunEnds(r) PROVE TypeOK'
    BY <2>9 DEF TypeOK, RunEnds, storage, worker, bounds
  <2>10. CASE CancelArrives
    BY <2>10 DEF TypeOK, CancelArrives, storage, worker, bounds
  <2>11. CASE ListRunning
    BY <2>11 DEF TypeOK, ListRunning, RunningSessions, NoCancel, storage, worker, bounds
  <2>12. CASE CancelNext
    <3>1. conn' \in [Runs -> Connection]
      <4>1. CASE conn' = conn
        BY <4>1 DEF TypeOK
      <4>2. ASSUME NEW r \in cancel.queue, conn' = [conn EXCEPT ![r] = Disconnected(@)]
            PROVE  conn' \in [Runs -> Connection]
        <5>1. r \in Runs /\ conn[r] \in Connection
          BY DEF TypeOK
        <5> QED
          BY <4>2, <5>1, ConnectionType, TableType
      <4> QED
        BY <2>12, <4>1, <4>2 DEF CancelNext
    <3> QED
      BY <2>12, <3>1 DEF TypeOK, CancelNext, NoCancel, storage, worker, bounds
  <2>13. CASE CloseSession
    <3>1. mem' \in [Runs -> Session] /\ disk' \in [Runs -> Session] /\ lost' \in Nat
      BY <2>13, SessionsType, SaveIfPresentType DEF TypeOK, CloseSession, Outcome
    <3> QED
      BY <2>13, <3>1 DEF TypeOK, CloseSession, storage, worker, bounds
  <2>14. CASE RestoreSessions
    BY <2>14 DEF TypeOK, RestoreSessions, storage, bounds
  <2>19. CASE AssignSessions
    BY <2>19 DEF TypeOK, AssignSessions, NoSession, Session, storage, bounds
  <2>15. CASE Cleanup
    <3>1. mem' \in [Runs -> Session] /\ disk' \in [Runs -> Session] /\ lost' \in Nat
      <4>1. NoSession \in Session
        BY DEF NoSession, Session
      <4>2. mem' \in [Runs -> Session]
        BY <2>15, <4>1 DEF TypeOK, Cleanup, Save
      <4> QED
        BY <2>15, <4>2 DEF TypeOK, Cleanup, Save, Persist
    <3> QED
      BY <2>15, <3>1 DEF TypeOK, Cleanup, storage, bounds
  <2>16. CASE ScheduleReconnects
    BY <2>16 DEF TypeOK, ScheduleReconnects, RunningSessions, storage, bounds
  <2>17. CASE Restart
    BY <2>17, ClientAssumption
    DEF TypeOK, Restart, storage, NoSession, NoConnection, NoCancel, Session, Connection
  <2>18. CASE UNCHANGED vars
    BY <2>18 DEF TypeOK, vars, storage, worker, bounds
  <2> QED
    BY <2>1, <2>2, <2>3, <2>4, <2>5, <2>6, <2>7, <2>8, <2>9, <2>10, <2>11, <2>12,
       <2>13, <2>14, <2>15, <2>16, <2>17, <2>18, <2>19
    DEF Next, GenerateStep, SocketStep, CancelStep
<1> QED
  BY <1>1, <1>2, PTL DEF Spec
-----------------------------------------------------------------------------
(* Why the safety properties hold *)

\* What the retry logic keeps of one connection: only an active one has an
\* EventSource or a timer, and only one of them.
Lone(c) ==
  /\ c.sockets + c.timers <= 1
  /\ c.status # "active" => c.sockets = 0 /\ c.timers = 0

LoneStreams == \A r \in Runs : Lone(conn[r])


\* Closing a connection leaves neither an EventSource nor a timer.
LEMMA DisconnectedIsClosed ==
  ASSUME NEW c \in Connection, Lone(c)
  PROVE  /\ Disconnected(c).sockets = 0
         /\ Disconnected(c).timers = 0
         /\ Disconnected(c).retries = c.retries
         /\ Disconnected(c).restored = c.restored
         /\ Disconnected(c).status # "active"
         /\ c.status = "none" => Disconnected(c).status = "none"
<1>1. CASE c.status = "none"
  BY <1>1 DEF Disconnected, Lone
<1>2. CASE c.status # "none"
  <2>1. Disconnected(c) = [c EXCEPT !.status = "disconnected", !.sockets = Less(@),
                                    !.timers = Less(@)]
    BY <1>2, Zenon DEF Disconnected
  <2>2. Less(c.sockets) = 0 /\ Less(c.timers) = 0
    BY CountType DEF Lone, Less
  <2> QED
    BY <1>2, <2>1, <2>2, Zenon DEF Connection
<1> QED
  BY <1>1, <1>2

\* An attempt to connect again: a timer takes the place of the EventSource.
LEMMA RetryIsLone ==
  ASSUME NEW c \in Connection, Lone(c), c.sockets > 0
  PROVE  /\ Lone(Retry(c))
         /\ Retry(c).sockets = 0 /\ Retry(c).timers = 1
         /\ Retry(c).retries = c.retries + 1
         /\ Retry(c).restored = c.restored
         /\ Retry(c).status = "active"
<1>1. Less(c.sockets) = 0 /\ c.timers + 1 = 1 /\ c.status = "active"
  BY CountType DEF Lone, Less
<1>2. /\ Retry(c).sockets = Less(c.sockets) /\ Retry(c).timers = c.timers + 1
      /\ Retry(c).retries = c.retries + 1
      /\ Retry(c).restored = c.restored
      /\ Retry(c).status = c.status
  BY Zenon DEF Retry, Connection
<1> QED
  BY <1>1, <1>2 DEF Lone

\* The timer fires: an EventSource takes its place.
LEMMA ReopenIsLone ==
  ASSUME NEW c \in Connection, Lone(c), c.timers > 0
  PROVE  /\ Lone(Reopen(c))
         /\ Reopen(c).retries = c.retries
         /\ Reopen(c).restored = c.restored
         /\ Reopen(c).status = "active"
<1>1. Less(c.timers) = 0 /\ c.sockets + 1 = 1
  BY CountType DEF Lone, Less
<1>2. /\ Reopen(c).sockets = c.sockets + 1 /\ Reopen(c).timers = Less(c.timers)
      /\ Reopen(c).retries = c.retries
      /\ Reopen(c).restored = c.restored
      /\ Reopen(c).status = "active"
  BY Zenon DEF Reopen, DoConnect, Connection
<1> QED
  BY <1>1, <1>2 DEF Lone

\* An event changes the counts of no connection.
LEMMA HeardIsLone ==
  ASSUME TypeOK, NEW r \in Runs, NEW m \in Message(r), Lone(conn[r])
  PROVE  /\ Lone(Heard(r, m))
         /\ Heard(r, m).retries = 0
         /\ Heard(r, m).restored = conn[r].restored
         /\ Heard(r, m).status = conn[r].status
<1>1. /\ Heard(r, m).sockets = conn[r].sockets /\ Heard(r, m).timers = conn[r].timers
      /\ Heard(r, m).retries = 0
      /\ Heard(r, m).restored = conn[r].restored
      /\ Heard(r, m).status = conn[r].status
  <2>1. conn[r] \in Connection
    BY DEF TypeOK
  <2> QED
    BY <2>1, Zenon DEF Heard, Connection
<1> QED
  BY <1>1 DEF Lone

\* A connection is closed before the new one of its run is made.
LEMMA ConnectIsLone ==
  ASSUME TypeOK, NEW r \in Runs, Lone(conn[r]),
         NEW since \in Nat, NEW restored \in BOOLEAN, Connect(r, since, restored)
  PROVE  /\ Lone(conn'[r])
         /\ conn'[r].retries = 0
         /\ conn'[r].restored = restored
         /\ \A q \in Runs \ {r} : conn'[q] = conn[q]
<1> DEFINE old == Disconnected(conn[r])
           fresh == [NoConnection EXCEPT !.sockets = old.sockets, !.timers = old.timers,
                                         !.seq = since, !.restored = restored]
<1>1. conn' = [conn EXCEPT ![r] = DoConnect(fresh)]
  BY Zenon DEF Connect
<1>2. conn'[r] = DoConnect(fresh) /\ \A q \in Runs \ {r} : conn'[q] = conn[q]
  BY <1>1 DEF TypeOK
<1>3. old.sockets = 0 /\ old.timers = 0
  BY DisconnectedIsClosed DEF TypeOK
<1>4. /\ DoConnect(fresh).sockets = old.sockets + 1
      /\ DoConnect(fresh).timers = old.timers
      /\ DoConnect(fresh).retries = 0
      /\ DoConnect(fresh).restored = restored
      /\ DoConnect(fresh).status = "active"
  BY Zenon DEF DoConnect, NoConnection
<1> QED
  BY <1>2, <1>3, <1>4 DEF Lone

\* No step opens a second stream of a run.
LEMMA LoneStep ==
  ASSUME TypeOK, LoneStreams, [Next]_vars
  PROVE  LoneStreams'
<1> SUFFICES ASSUME NEW q \in Runs PROVE Lone(conn'[q])
  BY DEF LoneStreams, Lone
<1>0. conn[q] \in Connection /\ Lone(conn[q])
  BY DEF TypeOK, LoneStreams
<1>1. ASSUME NEW r \in Runs, ConnectRun(r) PROVE Lone(conn'[q])
  BY <1>0, <1>1, ConnectIsLone DEF ConnectRun, LoneStreams
<1>2. ASSUME NEW r \in Runs, ReconnectSession(r) PROVE Lone(conn'[q])
  <2>1. mem[r].seq \in Nat
    BY DEF TypeOK, Session
  <2> QED
    BY <1>0, <1>2, <2>1, ConnectIsLone DEF ReconnectSession, LoneStreams
<1>3. ASSUME NEW r \in Runs, OnMessage(r) PROVE Lone(conn'[q])
  <2>1. PICK m \in Message(r) :
          conn' = [conn EXCEPT ![r] = IF m.kind = "progress"
                                      THEN Heard(r, m) ELSE Disconnected(Heard(r, m))]
    BY <1>3, OnMessageParts, Zenon
  <2>2. Heard(r, m) \in Connection /\ Lone(Heard(r, m))
    BY HeardType, HeardIsLone DEF LoneStreams
  <2>3. Lone(Disconnected(Heard(r, m)))
    BY <2>2, DisconnectedIsClosed DEF Lone
  <2> QED
    BY <1>0, <2>1, <2>2, <2>3 DEF TypeOK
<1>4. ASSUME NEW r \in Runs, OnError(r) PROVE Lone(conn'[q])
  <2>1. /\ conn[r].sockets > 0
        /\ \/ conn' = [conn EXCEPT ![r] = Retry(conn[r])]
           \/ conn' = [conn EXCEPT ![r] = Disconnected(conn[r])]
    BY <1>4, Zenon DEF OnError
  <2>2. conn[r] \in Connection /\ Lone(conn[r])
    BY DEF TypeOK, LoneStreams
  <2>3. Lone(Retry(conn[r])) /\ Lone(Disconnected(conn[r]))
    BY <2>1, <2>2, RetryIsLone, DisconnectedIsClosed DEF Lone
  <2> QED
    BY <1>0, <2>1, <2>3 DEF TypeOK
<1>5. ASSUME NEW r \in Runs, RetryTimer(r) PROVE Lone(conn'[q])
  <2>1. conn[r].timers > 0 /\ conn' = [conn EXCEPT ![r] = Reopen(conn[r])]
    BY <1>5, Zenon DEF RetryTimer
  <2>2. Lone(Reopen(conn[r]))
    BY <2>1, ReopenIsLone DEF TypeOK, LoneStreams
  <2> QED
    BY <1>0, <2>1, <2>2 DEF TypeOK
<1>6. CASE CancelNext
  <2>1. \/ conn' = conn
        \/ \E r \in cancel.queue : conn' = [conn EXCEPT ![r] = Disconnected(conn[r])]
    BY <1>6 DEF CancelNext
  <2>2. cancel.queue \subseteq Runs
    BY DEF TypeOK
  <2>3. \A r \in Runs : Lone(Disconnected(conn[r]))
    BY DisconnectedIsClosed DEF TypeOK, LoneStreams, Lone
  <2> QED
    BY <1>0, <2>1, <2>2, <2>3 DEF TypeOK
<1>7. CASE Restart
  BY <1>7 DEF Restart, NoConnection, Lone
<1>8. CASE UNCHANGED conn
  BY <1>0, <1>8
<1> QED
  BY <1>1, <1>2, <1>3, <1>4, <1>5, <1>6, <1>7, <1>8
  DEF Next, GenerateStep, SocketStep, CancelStep, PostRun, CreateSession, UpdateStatus,
      RunEnds, CancelArrives, ListRunning, CloseSession, RestoreSessions, AssignSessions, Cleanup,
      ScheduleReconnects, vars

\* A worker starts without connections.
LEMMA LoneInit == Init => LoneStreams
<1>1. NoConnection.sockets = 0 /\ NoConnection.timers = 0
  BY Zenon DEF NoConnection
<1>2. Lone(NoConnection)
  BY <1>1 DEF Lone
<1>3. ASSUME Init, NEW r \in Runs PROVE conn[r] = NoConnection
  BY <1>3, Zenon DEF Init
<1> QED
  BY <1>2, <1>3, Zenon DEF LoneStreams

\* No run ever has two streams, or a stream or a timer after it was closed.
THEOREM StreamsAreLone == Spec => []OneStream
<1>1. ASSUME LoneStreams, NEW r \in Runs
      PROVE  /\ conn[r].sockets + conn[r].timers <= 1
             /\ conn[r].status = "disconnected" => conn[r].sockets + conn[r].timers = 0
  BY <1>1 DEF LoneStreams, Lone
<1>2. LoneStreams => OneStream
  BY <1>1 DEF OneStream
<1> QED
  BY <1>2, TypeCorrect, LoneInit, LoneStep, PTL DEF Spec

\* Nothing can bring the run an event.
Quiet(r) == conn[r].sockets = 0 /\ conn[r].timers = 0

\* What a session says of its run is borne out by what the tab was shown and told.
Backed(s, r) ==
  /\ s.seq <= seen[r]
  /\ s.status = "completed" => run[r] = "completed" /\ "completed" \in told[r]

\* So is every copy there is of it, however old: the one in memory, the stored one
\* and the one that was read and is about to be taken over.
SessionInv(r) ==
  /\ Backed(mem[r], r)
  /\ Backed(disk[r], r)
  /\ Backed(read[r], r)
  /\ conn[r].seq <= seen[r]
  /\ request[r] = "idle" => run[r] = "none"

Sessions == \A r \in Runs : SessionInv(r)

\* What it is to have no session.
LEMMA NoSessionFields ==
  NoSession.status = "absent" /\ NoSession.seq = 0 /\ NoSession.ended = FALSE
BY DEF NoSession

\* A step of the streams, timers and sessions of other runs, or of none.
LEMMA ConnUnchangedIsQuiet ==
  ASSUME NEW q \in Runs, conn'[q] = conn[q]
  PROVE  Quiet(q) => Quiet(q)'
BY DEF Quiet

\* A connection may be closed, which leaves a quiet one quiet.
LEMMA DisconnectedIsQuiet ==
  ASSUME TypeOK, LoneStreams, NEW r \in Runs, NEW q \in Runs,
         conn' = [conn EXCEPT ![r] = Disconnected(@)]
  PROVE  Quiet(q) => Quiet(q)'
<1>1. CASE q = r
  <2>1. conn'[r] = Disconnected(conn[r])
    BY DEF TypeOK
  <2>2. Disconnected(conn[r]).sockets = 0 /\ Disconnected(conn[r]).timers = 0
    BY DisconnectedIsClosed DEF TypeOK, LoneStreams
  <2> QED
    BY <1>1, <2>1, <2>2 DEF Quiet
<1>2. CASE q # r
  BY <1>2, ConnUnchangedIsQuiet DEF TypeOK
<1> QED
  BY <1>1, <1>2

\* What is shown of a run never gets less.
LEMMA SeenGrows ==
  ASSUME TypeOK, [Next]_vars, NEW r \in Runs
  PROVE  seen'[r] \in Nat /\ seen[r] <= seen'[r]
<1>0. seen[r] \in Nat
  BY DEF TypeOK
<1>1. ASSUME NEW q \in Runs, OnMessage(q) PROVE seen'[r] \in Nat /\ seen[r] <= seen'[r]
  <2>1. PICK m \in Message(q) : seen' = [seen EXCEPT ![q] = Larger(@, m.seq)]
    BY <1>1, OnMessageParts, Zenon
  <2>2. m.seq \in Nat
    BY ClientAssumption DEF Message
  <2> QED
    BY <1>0, <2>1, <2>2 DEF Larger, TypeOK
<1>2. CASE seen' = seen
  BY <1>0, <1>2
<1> QED
  BY <1>1, <1>2
  DEF Next, GenerateStep, SocketStep, CancelStep, PostRun, CreateSession, UpdateStatus,
      ConnectRun, OnError, RetryTimer, ReconnectSession, RunEnds, CancelArrives,
      ListRunning, CancelNext, CloseSession, RestoreSessions, AssignSessions, Cleanup,
      ScheduleReconnects, Restart, vars

\* Nor is a run that completed taken back, or what the tab was told.
LEMMA OutcomeStays ==
  ASSUME TypeOK, Sessions, [Next]_vars, NEW r \in Runs
  PROVE  /\ run[r] = "completed" => run'[r] = "completed"
         /\ told[r] \subseteq told'[r]
         /\ request'[r] = "idle" => request[r] = "idle" /\ run'[r] = run[r]
<1> USE DEF TypeOK
<1>0. request[r] = "idle" => run[r] = "none"
  BY DEF Sessions, SessionInv
<1>1. ASSUME NEW q \in Runs, PostRun(q)
      PROVE  /\ run[r] = "completed" => run'[r] = "completed"
             /\ told[r] \subseteq told'[r]
             /\ request'[r] = "idle" => request[r] = "idle" /\ run'[r] = run[r]
  BY <1>0, <1>1 DEF PostRun
<1>2. ASSUME NEW q \in Runs, RunEnds(q)
      PROVE  /\ run[r] = "completed" => run'[r] = "completed"
             /\ told[r] \subseteq told'[r]
             /\ request'[r] = "idle" => request[r] = "idle" /\ run'[r] = run[r]
  BY <1>0, <1>2 DEF RunEnds
<1>3. ASSUME NEW q \in Runs, OnMessage(q) \/ OnError(q)
      PROVE  told[r] \subseteq told'[r] /\ run' = run /\ request' = request
  BY <1>3 DEF OnMessage, OnError
<1>4. ASSUME NEW q \in Runs, CreateSession(q) \/ UpdateStatus(q) \/ ConnectRun(q)
      PROVE  told' = told /\ run' = run /\ (request'[r] = "idle" => request[r] = "idle")
  BY <1>4 DEF CreateSession, UpdateStatus, ConnectRun
<1>5. CASE Restart
  BY <1>5 DEF Restart
<1>6. CASE UNCHANGED <<told, run, request>>
  BY <1>6
<1> QED
  BY <1>1, <1>2, <1>3, <1>4, <1>5, <1>6
  DEF Next, GenerateStep, SocketStep, CancelStep, RetryTimer, ReconnectSession, CancelArrives,
      ListRunning, CancelNext, CloseSession, RestoreSessions, AssignSessions, Cleanup,
      ScheduleReconnects, vars

\* So a session that was borne out remains so, whatever the step.
LEMMA StaysBacked ==
  ASSUME TypeOK, Sessions, [Next]_vars, NEW r \in Runs, NEW s \in Session, Backed(s, r)
  PROVE  Backed(s, r)'
<1>1. s.seq \in Nat /\ seen[r] \in Nat /\ seen'[r] \in Nat /\ seen[r] <= seen'[r]
  BY SeenGrows DEF TypeOK, Session
<1>2. s.seq <= seen'[r]
  BY <1>1 DEF Backed
<1> QED
  BY <1>2, OutcomeStays DEF Backed

\* No session says nothing.
LEMMA NoSessionBacked ==
  ASSUME TypeOK, NEW r \in Runs
  PROVE  NoSession \in Session /\ Backed(NoSession, r)
<1>1. NoSession \in Session
  BY DEF NoSession, Session
<1>2. seen[r] \in Nat
  BY DEF TypeOK
<1> QED
  BY <1>1, <1>2, NoSessionFields DEF Backed

\* A change of status that is not to completed adds nothing to be borne out.
LEMMA StatusBacked ==
  ASSUME TypeOK, Sessions, NEW r \in Runs, NEW q \in Runs,
         NEW status \in {"running", "failed", "cancelled"}
  PROVE  /\ WithStatus(r, status)[q] \in Session
         /\ Backed(WithStatus(r, status)[q], q)
<1>1. WithStatus(r, status) \in [Runs -> Session]
  BY SessionsType DEF Active, Outcome
<1>2. Backed(mem[q], q)
  BY DEF Sessions, SessionInv
<1>3. CASE q # r \/ mem[r] = NoSession
  <2>1. WithStatus(r, status)[q] = mem[q]
    BY <1>3 DEF WithStatus, TypeOK
  <2> QED
    BY <1>1, <1>2, <2>1
<1>4. CASE q = r /\ mem[r] # NoSession
  <2>1. /\ WithStatus(r, status)[r].seq = mem[r].seq
        /\ WithStatus(r, status)[r].status = status
    BY <1>4 DEF WithStatus, TypeOK, Session
  <2> QED
    BY <1>1, <1>2, <1>4, <2>1 DEF Backed
<1> QED
  BY <1>3, <1>4

\* The session after an event holds the larger number at most, and has completed
\* only if it had or the event says so.
LEMMA SessionsHeard ==
  ASSUME TypeOK, NEW r \in Runs, NEW m \in Message(r),
         NEW sessions, sessions = WithSequence(StatusAfter(r, m), r, m.seq)
  PROVE  /\ sessions[r].seq <= Larger(mem[r].seq, m.seq)
         /\ sessions[r].status = "completed" =>
              mem[r].status = "completed" \/ m.kind = "completed"
         /\ \A q \in Runs \ {r} : sessions[q] = mem[q]
<1>1. m.seq \in Nat /\ m.kind \in Outcome \cup {"progress"}
  BY ClientAssumption DEF Message
<1>2. mem \in [Runs -> Session] /\ mem[r].seq \in Nat
  BY DEF TypeOK, Session
<1> DEFINE after == StatusAfter(r, m)
<1>3. /\ after \in [Runs -> Session]
      /\ after[r].seq = mem[r].seq
      /\ after[r].status = "completed" => mem[r].status = "completed" \/ m.kind = "completed"
      /\ \A q \in Runs \ {r} : after[q] = mem[q]
  <2>1. after \in [Runs -> Session]
    BY <1>1, <1>2, SessionsType DEF StatusAfter, Outcome
  <2>2. CASE m.kind = "progress" \/ mem[r] = NoSession
    <3>1. after = mem
      BY <1>1, <2>2 DEF StatusAfter, WithStatus, Outcome
    <3> QED
      BY <2>1, <3>1
  <2>3. CASE m.kind # "progress" /\ mem[r] # NoSession
    <3> DEFINE next == IF m.kind = "completed" THEN "completed" ELSE "failed"
    <3>1. after = [mem EXCEPT ![r] = [status |-> next, seq |-> mem[r].seq,
                         ended |-> mem[r].ended \/ next \in {"completed", "failed"}]]
      BY <1>1, <2>3 DEF StatusAfter, WithStatus, Outcome
    <3>2. after[r].seq = mem[r].seq /\ after[r].status = next
      BY <1>2, <3>1 DEF Session
    <3>3. \A q \in Runs \ {r} : after[q] = mem[q]
      BY <1>2, <3>1
    <3> QED
      BY <2>1, <3>2, <3>3
  <2> QED
    BY <2>2, <2>3
<1> HIDE DEF after
<1>4. sessions = after \/ sessions = [after EXCEPT ![r].seq = Larger(@, m.seq)]
  BY DEF WithSequence, after
<1>5. CASE sessions = after
  BY <1>1, <1>2, <1>3, <1>5 DEF Larger
<1>6. CASE sessions = [after EXCEPT ![r].seq = Larger(@, m.seq)]
  <2>1. /\ sessions[r].seq = Larger(mem[r].seq, m.seq)
        /\ sessions[r].status = after[r].status
        /\ \A q \in Runs \ {r} : sessions[q] = mem[q]
    BY <1>3, <1>6 DEF Session
  <2> QED
    BY <1>1, <1>2, <1>3, <2>1 DEF Larger
<1> QED
  BY <1>4, <1>5, <1>6

\* An event is shown before it is stored, and told before it is believed.
LEMMA OnMessageBacked ==
  ASSUME TypeOK, TypeOK', Sessions, [Next]_vars, NEW r \in Runs, OnMessage(r), NEW q \in Runs
  PROVE  Backed(mem[q], q)' /\ conn'[q].seq <= seen'[q]
<1>1. PICK m \in Message(r) :
        /\ conn' = [conn EXCEPT ![r] = IF m.kind = "progress"
                                       THEN Heard(r, m) ELSE Disconnected(Heard(r, m))]
        /\ SaveIfPresent(r, WithSequence(StatusAfter(r, m), r, m.seq))
        /\ told' = [told EXCEPT ![r] = @ \cup Told(m)]
        /\ seen' = [seen EXCEPT ![r] = Larger(@, m.seq)]
  BY OnMessageParts, Zenon
<1>2. m.seq \in Nat /\ seen[r] \in Nat /\ mem[r].seq \in Nat /\ mem[q] \in Session
  BY ClientAssumption DEF Message, TypeOK, Session
<1>3. Backed(mem[q], q) /\ conn[q].seq <= seen[q]
  BY DEF Sessions, SessionInv
<1>4. Backed(mem[q], q) => Backed(mem[q], q) /\ mem[q].seq <= seen'[q]
  BY <1>2, SeenGrows DEF Backed, TypeOK, Session
<1>5. \A s \in Session : Backed(s, q) => Backed(s, q)'
  BY StaysBacked
<1>6. CASE q # r
  <2>1. conn'[q] = conn[q] /\ seen'[q] = seen[q]
    BY <1>1, <1>6 DEF TypeOK
  <2>2. mem'[q] = mem[q]
    BY <1>1, <1>6, SessionsHeard DEF SaveIfPresent, Save
  <2>3. told'[q] = told[q] /\ run' = run
    BY <1>1, <1>6 DEF TypeOK, OnMessage
  <2> QED
    BY <1>3, <2>1, <2>2, <2>3 DEF Backed
<1>7. CASE q = r
  <2>1. seen'[r] = Larger(seen[r], m.seq)
    BY <1>1 DEF TypeOK
  <2>2. conn'[r].seq <= seen'[r]
    <3>1. conn'[r].seq = Heard(r, m).seq
      <4>1. Disconnected(Heard(r, m)).seq = Heard(r, m).seq
        BY HeardType, Zenon DEF Disconnected, Connection
      <4> QED
        BY <1>1, <4>1 DEF TypeOK
    <3>2. Heard(r, m).seq = IF m.seq > 0 THEN m.seq ELSE conn[r].seq
      <4>1. conn[r] \in Connection
        BY DEF TypeOK
      <4> QED
        BY <4>1, Zenon DEF Heard, Connection
    <3>3. conn[r].seq \in Nat /\ conn[r].seq <= seen[r]
      BY <1>3, <1>7, CountType DEF TypeOK
    <3> QED
      BY <1>2, <2>1, <3>1, <3>2, <3>3 DEF Larger
  <2>3. /\ mem'[r].seq <= Larger(mem[r].seq, m.seq)
        /\ mem'[r].status = "completed" =>
             mem[r].status = "completed" \/ m.kind = "completed"
    <3>1. CASE mem[r] = NoSession
      BY <1>1, <1>2, <3>1 DEF SaveIfPresent, Larger
    <3>2. CASE mem[r] # NoSession
      BY <1>1, <3>2, SessionsHeard DEF SaveIfPresent, Save
    <3> QED
      BY <3>1, <3>2
  <2>4. mem'[r].seq <= seen'[r]
    <3>1. mem'[r].seq \in Nat /\ mem[r].seq <= seen[r]
      BY <1>3, <1>7 DEF TypeOK, Session, Backed
    <3> QED
      BY <1>2, <2>1, <2>3, <3>1 DEF Larger
  <2>5. run' = run
    BY DEF OnMessage
  <2>6. m.kind = "completed" => run[r] = "completed" /\ "completed" \in told'[r]
    BY <1>1 DEF TypeOK, Message, Told
  <2>7. mem[r].status = "completed" => run[r] = "completed" /\ "completed" \in told'[r]
    BY <1>1, <1>3, <1>7 DEF TypeOK, Backed
  <2> QED
    BY <1>7, <2>2, <2>3, <2>4, <2>5, <2>6, <2>7 DEF Backed
<1> QED
  BY <1>6, <1>7

\* What a connection asks for was stored of a session, or is nothing.
LEMMA ConnectionBacked ==
  ASSUME TypeOK, TypeOK', Sessions, [Next]_vars, NEW q \in Runs
  PROVE  conn'[q].seq <= seen'[q]
<1>0. /\ conn[q] \in Connection /\ conn[q].seq \in Nat /\ mem[q].seq \in Nat
      /\ seen[q] \in Nat /\ seen'[q] \in Nat /\ seen[q] <= seen'[q]
  BY SeenGrows, CountType DEF TypeOK, Session
<1>1. conn[q].seq <= seen[q] /\ mem[q].seq <= seen[q]
  BY DEF Sessions, SessionInv, Backed
<1>2. CASE conn'[q].seq \in {conn[q].seq, mem[q].seq, 0}
  BY <1>0, <1>1, <1>2
<1>3. ASSUME NEW r \in Runs, OnMessage(r) PROVE conn'[q].seq <= seen'[q]
  BY <1>3, OnMessageBacked
<1>4. ASSUME NEW r \in Runs, NEW c \in Connection, c.seq = conn[r].seq,
             conn' = [conn EXCEPT ![r] = c]
      PROVE  conn'[q].seq = conn[q].seq
  BY <1>4 DEF TypeOK
<1>5. \A c \in Connection : Disconnected(c).seq = c.seq /\ Retry(c).seq = c.seq /\ Reopen(c).seq = c.seq
  BY Zenon DEF Disconnected, Retry, Reopen, DoConnect, Connection
<1>6. ASSUME NEW r \in Runs, OnError(r) PROVE conn'[q].seq = conn[q].seq
  <2>1. conn[r] \in Connection /\ Retry(conn[r]) \in Connection /\ Disconnected(conn[r]) \in Connection
    BY ConnectionType DEF TypeOK
  <2>2. conn' = [conn EXCEPT ![r] = Retry(conn[r])] \/ conn' = [conn EXCEPT ![r] = Disconnected(conn[r])]
    BY <1>6, Zenon DEF OnError
  <2> QED
    BY <1>4, <1>5, <2>1, <2>2
<1>7. ASSUME NEW r \in Runs, RetryTimer(r) PROVE conn'[q].seq = conn[q].seq
  <2>1. conn[r] \in Connection /\ Reopen(conn[r]) \in Connection
    BY ConnectionType DEF TypeOK
  <2>2. conn' = [conn EXCEPT ![r] = Reopen(conn[r])]
    BY <1>7, Zenon DEF RetryTimer
  <2> QED
    BY <1>4, <1>5, <2>1, <2>2
<1>8. ASSUME NEW r \in Runs, NEW since \in Nat, NEW restored \in BOOLEAN, Connect(r, since, restored)
      PROVE  conn'[q].seq \in {conn[q].seq, since} /\ (q # r => conn'[q].seq = conn[q].seq)
  <2> DEFINE fresh == [NoConnection EXCEPT !.sockets = Disconnected(conn[r]).sockets,
                          !.timers = Disconnected(conn[r]).timers, !.seq = since, !.restored = restored]
  <2>1. DoConnect(fresh).seq = since
    BY Zenon DEF DoConnect, NoConnection
  <2>2. conn' = [conn EXCEPT ![r] = DoConnect(fresh)]
    BY <1>8 DEF Connect
  <2> HIDE DEF fresh
  <2> QED
    BY <2>1, <2>2 DEF TypeOK
<1>9. ASSUME NEW r \in Runs, ConnectRun(r) PROVE conn'[q].seq \in {conn[q].seq, 0}
  BY <1>8, <1>9 DEF ConnectRun
<1>10. ASSUME NEW r \in Runs, ReconnectSession(r) PROVE conn'[q].seq \in {conn[q].seq, mem[q].seq}
  <2>1. mem[r].seq \in Nat
    BY DEF TypeOK, Session
  <2> QED
    BY <1>8, <1>10, <2>1 DEF ReconnectSession
<1>11. CASE CancelNext
  <2>1. CASE conn' = conn
    BY <1>2, <2>1
  <2>2. ASSUME NEW r \in cancel.queue, conn' = [conn EXCEPT ![r] = Disconnected(conn[r])]
        PROVE  conn'[q].seq <= seen'[q]
    <3>1. r \in Runs /\ conn[r] \in Connection /\ Disconnected(conn[r]) \in Connection
      BY ConnectionType DEF TypeOK
    <3>2. conn'[q].seq = conn[q].seq
      BY <1>4, <1>5, <2>2, <3>1
    <3> QED
      BY <1>2, <3>2
  <2> QED
    BY <1>11, <2>1, <2>2 DEF CancelNext
<1>12. CASE Restart
  <2>1. conn'[q].seq = 0
    <3>1. conn'[q] = NoConnection
      BY <1>12 DEF Restart
    <3>2. NoConnection.seq = 0
      BY Zenon DEF NoConnection
    <3> QED
      BY <3>1, <3>2
  <2> QED
    BY <1>2, <2>1
<1>13. CASE conn' = conn
  BY <1>2, <1>13
<1> QED
  BY <1>2, <1>3, <1>6, <1>7, <1>9, <1>10, <1>11, <1>12, <1>13
  DEF Next, GenerateStep, SocketStep, CancelStep, PostRun, CreateSession, UpdateStatus,
      RunEnds, CancelArrives, ListRunning, CloseSession, RestoreSessions, AssignSessions,
      Cleanup, ScheduleReconnects, vars

\* What is in memory is what was there, or was read, or has just been borne out.
LEMMA MemoryBacked ==
  ASSUME TypeOK, TypeOK', Sessions, [Next]_vars, NEW q \in Runs
  PROVE  Backed(mem[q], q)'
<1>0. /\ mem[q] \in Session /\ disk[q] \in Session /\ read[q] \in Session /\ NoSession \in Session
      /\ Backed(mem[q], q) /\ Backed(read[q], q) /\ Backed(NoSession, q)
  BY NoSessionBacked DEF TypeOK, Sessions, SessionInv
<1>1. ASSUME NEW s \in Session, Backed(s, q), mem'[q] = s PROVE Backed(mem[q], q)'
  <2>1. Backed(s, q)'
    BY <1>1, StaysBacked
  <2> QED
    BY <1>1, <2>1 DEF Backed
<1>2. CASE mem'[q] \in {mem[q], read[q], NoSession}
  BY <1>0, <1>1, <1>2
<1>3. ASSUME NEW r \in Runs, NEW status \in {"running", "failed", "cancelled"},
             SaveIfPresent(r, WithStatus(r, status))
      PROVE  Backed(mem[q], q)'
  <2>1. mem' = mem \/ mem' = WithStatus(r, status)
    BY <1>3 DEF SaveIfPresent, Save
  <2>2. CASE mem' = mem
    BY <1>2, <2>2
  <2>3. CASE mem' = WithStatus(r, status)
    BY <1>1, <2>3, StatusBacked
  <2> QED
    BY <2>1, <2>2, <2>3
<1>4. ASSUME NEW r \in Runs, OnMessage(r) PROVE Backed(mem[q], q)'
  BY <1>4, OnMessageBacked
<1>5. ASSUME NEW r \in Runs, OnError(r) PROVE Backed(mem[q], q)'
  BY <1>2, <1>3, <1>5 DEF OnError
<1>6. ASSUME NEW r \in Runs, UpdateStatus(r) PROVE Backed(mem[q], q)'
  BY <1>3, <1>6 DEF UpdateStatus
<1>7. CASE CloseSession
  <2>1. PICK r \in Runs : SaveIfPresent(r, WithStatus(r, "cancelled"))
    BY <1>7 DEF CloseSession, TypeOK
  <2> QED
    BY <1>3, <2>1
<1>8. ASSUME NEW r \in Runs, CreateSession(r) PROVE Backed(mem[q], q)'
  <2> DEFINE s == [NoSession EXCEPT !.status = "pending"]
  <2>1. s \in Session /\ s.seq = 0 /\ s.status = "pending"
    BY DEF NoSession, Session, Active
  <2>2. seen[q] \in Nat
    BY DEF TypeOK
  <2>3. Backed(s, q)
    BY <2>1, <2>2 DEF Backed
  <2>4. mem'[q] = s \/ mem'[q] = mem[q]
    BY <1>8 DEF CreateSession, Save, TypeOK
  <2> HIDE DEF s
  <2> QED
    BY <1>0, <1>1, <2>1, <2>3, <2>4
<1>9. CASE AssignSessions
  BY <1>2, <1>9 DEF AssignSessions
<1>10. CASE Cleanup
  BY <1>2, <1>10 DEF Cleanup, Save
<1>11. CASE Restart
  BY <1>2, <1>11 DEF Restart
<1>12. CASE mem' = mem
  BY <1>2, <1>12
<1> QED
  BY <1>4, <1>5, <1>6, <1>7, <1>8, <1>9, <1>10, <1>11, <1>12
  DEF Next, GenerateStep, SocketStep, CancelStep, PostRun, ConnectRun, RetryTimer, ReconnectSession,
      RunEnds, CancelArrives, ListRunning, CancelNext, RestoreSessions, ScheduleReconnects, vars

\* Storage is what it was or what memory has become; what is read was stored.
LEMMA CopiesFollow ==
  ASSUME [Next]_vars
  PROVE  disk' \in {disk, mem'} /\ read' \in {read, disk, [r \in Runs |-> NoSession]}
<1>1. CASE Restart
  BY <1>1 DEF Restart, storage
<1>2. CASE Cleanup \/ CloseSession
  BY <1>2 DEF Cleanup, CloseSession, SaveIfPresent, Save, Persist, storage, worker
<1>3. ASSUME NEW r \in Runs, CreateSession(r) \/ UpdateStatus(r) \/ OnMessage(r) \/ OnError(r)
      PROVE  disk' \in {disk, mem'} /\ read' = read
  BY <1>3 DEF CreateSession, UpdateStatus, OnMessage, OnError, SaveIfPresent, Save, Persist, storage, worker
<1>4. CASE RestoreSessions \/ AssignSessions \/ ScheduleReconnects
  BY <1>4 DEF RestoreSessions, AssignSessions, ScheduleReconnects, storage
<1>5. CASE UNCHANGED <<disk, read>>
  BY <1>5
<1> QED
  BY <1>1, <1>2, <1>3, <1>4, <1>5
  DEF Next, GenerateStep, SocketStep, CancelStep, PostRun, ConnectRun, RetryTimer, ReconnectSession,
      RunEnds, CancelArrives, ListRunning, CancelNext, vars, storage, worker

\* No step of any handler, no lost write and no death of the worker leaves a session
\* that says what is not so.
LEMMA SessionStep ==
  ASSUME TypeOK, TypeOK', Sessions, [Next]_vars
  PROVE  Sessions'
<1> SUFFICES ASSUME NEW q \in Runs PROVE SessionInv(q)'
  BY DEF Sessions
<1>1. /\ disk[q] \in Session /\ read[q] \in Session /\ NoSession \in Session
      /\ Backed(disk[q], q) /\ Backed(read[q], q) /\ Backed(NoSession, q)
  BY NoSessionBacked DEF TypeOK, Sessions, SessionInv
<1>2. \A s \in Session : Backed(s, q) => Backed(s, q)'
  BY StaysBacked
<1>3. Backed(disk[q], q)'
  <2>1. CASE disk' = mem'
    <3>1. Backed(mem[q], q)'
      BY MemoryBacked
    <3> QED
      BY <2>1, <3>1 DEF Backed
  <2>2. CASE disk' = disk
    <3>1. PICK s \in Session : s = disk[q] /\ Backed(s, q)'
      BY <1>1, <1>2
    <3> QED
      BY <2>2, <3>1 DEF Backed
  <2> QED
    BY <2>1, <2>2, CopiesFollow
<1>4. Backed(read[q], q)'
  <2>1. read'[q] \in {read[q], disk[q], NoSession}
    BY CopiesFollow
  <2>2. PICK s \in Session : s = read'[q] /\ Backed(s, q)'
    BY <1>1, <1>2, <2>1
  <2> QED
    BY <2>2 DEF Backed
<1>5. request'[q] = "idle" => run'[q] = "none"
  BY OutcomeStays DEF Sessions, SessionInv
<1> QED
  BY <1>3, <1>4, <1>5, MemoryBacked, ConnectionBacked DEF SessionInv

\* Nothing is stored before the first run.
LEMMA SessionInit == Init => Sessions
<1> SUFFICES ASSUME Init, NEW q \in Runs PROVE SessionInv(q)
  BY DEF Sessions
<1>1. /\ mem[q] = NoSession /\ disk[q] = NoSession /\ read[q] = NoSession /\ seen[q] = 0
      /\ run[q] = "none" /\ conn[q] = NoConnection
  BY DEF Init
<1>2. NoConnection.seq = 0
  BY Zenon DEF NoConnection
<1> QED
  BY <1>1, <1>2, NoSessionFields DEF SessionInv, Backed

\* The sessions are borne out in every state of the worker's lives.
LEMMA SessionsAreConsistent == Spec => []Sessions
BY TypeCorrect, SessionInit, SessionStep, PTL DEF Spec

\* Whenever the worker dies, the next one asks for no event later than the first one
\* the tab has not been shown, whatever was lost of what it wrote.
THEOREM NothingSkippedHolds == Spec => []NothingSkipped
<1>1. Sessions => NothingSkipped
  BY DEF Sessions, SessionInv, Backed, NothingSkipped
<1> QED
  BY <1>1, SessionsAreConsistent, PTL

\* Only a run that completed, and whose tab was told, is stored as completed.
THEOREM CompletedSessionsAreTrue == Spec => []CompletedIsTrue
<1>1. Sessions => CompletedIsTrue
  BY DEF Sessions, SessionInv, Backed, CompletedIsTrue
<1> QED
  BY <1>1, SessionsAreConsistent, PTL

\* As long as the worker lives it has restored nothing, a connection is one that
\* handleGenerateReply made, and after the last retry nothing is left of it.
LifeInv(r) ==
  /\ conn[r].retries <= MaxRetry
  /\ restarts = 0 =>
       /\ boot = "up" /\ resume = {} /\ conn[r].restored = FALSE
       /\ conn[r].status # "none" => request[r] = "done"
       /\ "error" \in told[r] =>
            \/ run[r] \in {"failed", "cancelled"}
            \/ request[r] = "rejected"
            \/ conn[r].retries = MaxRetry /\ request[r] = "done" /\ Quiet(r)

FirstLife == \A r \in Runs : LifeInv(r)

\* A step that neither uses the connection up nor tells of a failure.
LEMMA LifeKept ==
  ASSUME NEW q \in Runs, LifeInv(q),
         conn'[q].retries = conn[q].retries,
         conn'[q].restored = conn[q].restored,
         conn[q].status = "none" => conn'[q].status = "none",
         Quiet(q) => Quiet(q)',
         restarts' = restarts, boot' = boot, resume = {} => resume' = {},
         request'[q] = request[q] \/ request[q] \notin {"done", "rejected"},
         run'[q] = run[q] \/ run[q] \notin {"failed", "cancelled"},
         "error" \in told'[q] => "error" \in told[q]
  PROVE  LifeInv(q)'
BY DEF LifeInv

\* After a death nothing is promised but the bound on the retries.
LEMMA LaterLife ==
  ASSUME NEW q \in Runs, restarts' # 0, conn'[q].retries <= MaxRetry
  PROVE  LifeInv(q)'
BY DEF LifeInv

\* An event restarts the count of retries, and the failure it may tell of is one.
LEMMA OnMessageKeepsLife ==
  ASSUME TypeOK, LoneStreams, FirstLife, NEW r \in Runs, OnMessage(r), NEW q \in Runs
  PROVE  LifeInv(q)'
<1>1. PICK m \in Message(r) :
        /\ conn' = [conn EXCEPT ![r] = IF m.kind = "progress"
                                       THEN Heard(r, m) ELSE Disconnected(Heard(r, m))]
        /\ told' = [told EXCEPT ![r] = @ \cup Told(m)]
  BY OnMessageParts, Zenon
<1>2. /\ ~ Quiet(r) /\ conn[r].status = "active"
      /\ run' = run /\ boot' = boot /\ resume' = resume /\ request' = request
      /\ restarts' = restarts
  BY DEF OnMessage, Quiet, worker, TypeOK, LoneStreams, Lone, Connection
<1>3. LifeInv(q)
  BY DEF FirstLife
<1>4. CASE q # r
  <2>1. conn'[q] = conn[q] /\ told'[q] = told[q]
    BY <1>1, <1>4 DEF TypeOK
  <2> QED
    BY <1>2, <1>3, <2>1, ConnUnchangedIsQuiet, LifeKept
<1>5. CASE q = r
  <2>1. Heard(r, m) \in Connection /\ Lone(Heard(r, m))
    BY HeardType, HeardIsLone DEF LoneStreams
  <2>2. conn'[r] \in {Heard(r, m), Disconnected(Heard(r, m))}
    BY <1>1 DEF TypeOK
  <2>3. conn'[r].retries = 0 /\ conn'[r].restored = conn[r].restored
    BY <2>1, <2>2, HeardIsLone, DisconnectedIsClosed DEF LoneStreams
  <2>4. "error" \in told'[r] =>
          "error" \in told[r] \/ run[r] \in {"failed", "cancelled"}
    BY <1>1 DEF TypeOK, Told, Message, Outcome
  <2> QED
    BY <1>2, <1>3, <1>5, <2>3, <2>4, ClientAssumption DEF LifeInv
<1> QED
  BY <1>4, <1>5

\* An error is retried within the limit or reported at it.
LEMMA OnErrorKeepsLife ==
  ASSUME TypeOK, LoneStreams, FirstLife, NEW r \in Runs, OnError(r), NEW q \in Runs
  PROVE  LifeInv(q)'
<1>1. /\ run' = run /\ boot' = boot /\ resume' = resume /\ request' = request
      /\ restarts' = restarts
      /\ conn[r].sockets > 0
  BY DEF OnError, storage, worker, bounds
<1>2. LifeInv(q) /\ conn[r] \in Connection /\ Lone(conn[r])
  BY DEF FirstLife, LoneStreams, TypeOK
<1>3. ~ Quiet(r) /\ conn[r].status = "active"
  BY <1>1, <1>2, CountType DEF Quiet, Lone
<1>4. CASE q # r
  <2>1. conn'[q] = conn[q] /\ told'[q] = told[q]
    BY <1>4 DEF OnError, TypeOK
  <2> QED
    BY <1>1, <1>2, <2>1, ConnUnchangedIsQuiet, LifeKept
<1>5. CASE /\ q = r
           /\ conn[r].retries < RetryLimit(conn[r])
           /\ conn' = [conn EXCEPT ![r] = Retry(@)]
           /\ told' = told
  <2>1. conn'[r] = Retry(conn[r])
    BY <1>5 DEF TypeOK
  <2>2. conn'[r].retries = conn[r].retries + 1 /\ conn'[r].restored = conn[r].restored
    BY <1>1, <1>2, <2>1, RetryIsLone
  <2>3. conn[r].retries \in Nat /\ RetryLimit(conn[r]) <= MaxRetry
    BY <1>2, ClientAssumption DEF Connection, RetryLimit
  <2>4. conn'[r].retries <= MaxRetry
    BY <1>5, <2>2, <2>3, ClientAssumption DEF RetryLimit
  <2> QED
    BY <1>1, <1>2, <1>3, <1>5, <2>2, <2>4 DEF LifeInv
<1>6. CASE /\ q = r
           /\ conn[r].retries >= RetryLimit(conn[r])
           /\ conn' = [conn EXCEPT ![r] = Disconnected(@)]
  <2>1. conn'[r] = Disconnected(conn[r])
    BY <1>6 DEF TypeOK
  <2>2. /\ conn'[r].sockets = 0 /\ conn'[r].timers = 0
        /\ conn'[r].retries = conn[r].retries
        /\ conn'[r].restored = conn[r].restored
    BY <1>2, <2>1, DisconnectedIsClosed
  <2>3. restarts = 0 => conn[r].retries = MaxRetry /\ request[r] = "done"
    <3>1. conn[r].retries \in Nat
      BY <1>2 DEF Connection
    <3> QED
      BY <1>2, <1>3, <1>6, <3>1, ClientAssumption DEF LifeInv, RetryLimit
  <2>4. Quiet(r)'
    BY <2>2 DEF Quiet
  <2> QED
    BY <1>1, <1>2, <1>6, <2>2, <2>3, <2>4 DEF LifeInv
<1>7. \/ /\ conn[r].retries < RetryLimit(conn[r])
         /\ conn' = [conn EXCEPT ![r] = Retry(@)]
         /\ told' = told
      \/ /\ conn[r].retries >= RetryLimit(conn[r])
         /\ conn' = [conn EXCEPT ![r] = Disconnected(@)]
  BY Zenon DEF OnError
<1> QED
  BY <1>4, <1>5, <1>6, <1>7

\* No step reports what is no failure while the worker lives.
LEMMA LifeStep ==
  ASSUME TypeOK, LoneStreams, Sessions, FirstLife, [Next]_vars
  PROVE  FirstLife'
<1> SUFFICES ASSUME NEW q \in Runs PROVE LifeInv(q)'
  BY DEF FirstLife
<1>0. LifeInv(q) /\ restarts \in Nat
  BY DEF FirstLife, TypeOK
<1>1. ASSUME NEW r \in Runs, PostRun(r) PROVE LifeInv(q)'
  <2>1. boot' = boot /\ resume' = resume /\ conn' = conn /\ restarts' = restarts
    BY <1>1 DEF PostRun, storage, worker, bounds
  <2>2. CASE q # r
    <3>1. run'[q] = run[q] /\ request'[q] = request[q] /\ told'[q] = told[q]
      BY <1>1, <2>2 DEF PostRun, TypeOK
    <3> QED
      BY <1>0, <2>1, <3>1, ConnUnchangedIsQuiet, LifeKept
  <2>3. CASE q = r
    <3>1. request[q] = "idle" /\ run[q] = "none"
      BY <1>1, <2>3 DEF PostRun, Sessions, SessionInv
    <3>2. request'[q] = "rejected" \/ told'[q] = told[q]
      BY <1>1, <2>3 DEF PostRun, TypeOK
    <3> QED
      BY <1>0, <2>1, <3>1, <3>2 DEF LifeInv
  <2> QED
    BY <2>2, <2>3
<1>2. ASSUME NEW r \in Runs, CreateSession(r) \/ UpdateStatus(r) PROVE LifeInv(q)'
  <2>1. /\ boot' = boot /\ resume' = resume /\ conn' = conn /\ restarts' = restarts
        /\ run' = run /\ told' = told
    BY <1>2 DEF CreateSession, UpdateStatus, storage, worker, bounds
  <2>2. request'[q] = request[q] \/ request[q] \notin {"done", "rejected"}
    BY <1>2 DEF CreateSession, UpdateStatus, TypeOK
  <2> QED
    BY <1>0, <2>1, <2>2, ConnUnchangedIsQuiet, LifeKept
<1>3. ASSUME NEW r \in Runs, ConnectRun(r) PROVE LifeInv(q)'
  <2>1. /\ boot' = boot /\ resume' = resume /\ restarts' = restarts
        /\ run' = run /\ told' = told
        /\ request[r] = "connect" /\ request' = [request EXCEPT ![r] = "done"]
        /\ Connect(r, 0, FALSE)
    BY <1>3 DEF ConnectRun, storage, worker, bounds
  <2>2. /\ conn'[r].retries = 0 /\ conn'[r].restored = FALSE
        /\ \A p \in Runs \ {r} : conn'[p] = conn[p]
    BY <2>1, ConnectIsLone DEF LoneStreams
  <2>3. CASE q # r
    <3>1. request'[q] = request[q]
      BY <2>1, <2>3 DEF TypeOK
    <3> QED
      BY <1>0, <2>1, <2>2, <2>3, <3>1, ConnUnchangedIsQuiet, LifeKept
  <2>4. CASE q = r
    <3>1. request[q] = "connect" /\ request'[q] = "done"
      BY <2>1, <2>4 DEF TypeOK
    <3> QED
      BY <1>0, <2>1, <2>2, <2>4, <3>1, ClientAssumption DEF LifeInv
  <2> QED
    BY <2>3, <2>4
<1>4. ASSUME NEW r \in Runs, ReconnectSession(r) PROVE LifeInv(q)'
  <2>1. r \in resume /\ restarts' = restarts /\ Connect(r, mem[r].seq, TRUE)
    BY <1>4 DEF ReconnectSession, bounds
  <2>2. restarts' # 0
    BY <1>0, <2>1 DEF LifeInv
  <2>3. mem[r].seq \in Nat
    BY DEF TypeOK, Session
  <2>4. conn'[r].retries = 0 /\ \A p \in Runs \ {r} : conn'[p] = conn[p]
    BY <2>1, <2>3, ConnectIsLone DEF LoneStreams
  <2>5. conn'[q].retries <= MaxRetry
    BY <1>0, <2>4, ClientAssumption DEF LifeInv
  <2> QED
    BY <2>2, <2>5, LaterLife
<1>5. ASSUME NEW r \in Runs, RetryTimer(r) PROVE LifeInv(q)'
  <2>1. /\ boot' = boot /\ resume' = resume /\ restarts' = restarts
        /\ run' = run /\ told' = told /\ request' = request
        /\ conn[r].timers > 0
        /\ conn' = [conn EXCEPT ![r] = Reopen(@)]
    BY <1>5 DEF RetryTimer, storage, worker, bounds
  <2>2. CASE q # r
    BY <1>0, <2>1, <2>2, ConnUnchangedIsQuiet, LifeKept DEF TypeOK
  <2>3. CASE q = r
    <3>1. conn'[q] = Reopen(conn[q]) /\ conn[q] \in Connection /\ Lone(conn[q])
      BY <2>1, <2>3 DEF TypeOK, LoneStreams
    <3>2. conn'[q].retries = conn[q].retries /\ conn'[q].restored = conn[q].restored
      BY <2>1, <2>3, <3>1, ReopenIsLone
    <3>3. conn[q].status # "none" /\ ~ Quiet(q)
      BY <2>1, <2>3, <3>1 DEF Lone, Quiet
    <3> QED
      BY <1>0, <2>1, <3>2, <3>3, LifeKept
  <2> QED
    BY <2>2, <2>3
<1>6. ASSUME NEW r \in Runs, RunEnds(r) PROVE LifeInv(q)'
  <2>1. /\ boot' = boot /\ resume' = resume /\ restarts' = restarts
        /\ conn' = conn /\ told' = told /\ request' = request
    BY <1>6 DEF RunEnds, storage, worker, bounds
  <2>2. run'[q] = run[q] \/ run[q] \notin {"failed", "cancelled"}
    BY <1>6 DEF RunEnds, TypeOK
  <2> QED
    BY <1>0, <2>1, <2>2, ConnUnchangedIsQuiet, LifeKept
<1>7. CASE CancelNext
  <2>1. /\ boot' = boot /\ resume' = resume /\ restarts' = restarts
        /\ run' = run /\ told' = told /\ request' = request
    BY <1>7 DEF CancelNext, storage, worker, bounds
  <2>2. CASE conn' = conn
    BY <1>0, <2>1, <2>2, ConnUnchangedIsQuiet, LifeKept
  <2>3. ASSUME NEW r \in cancel.queue, conn' = [conn EXCEPT ![r] = Disconnected(@)]
        PROVE  LifeInv(q)'
    <3>1. r \in Runs
      BY DEF TypeOK
    <3>2. Quiet(q) => Quiet(q)'
      BY <2>3, <3>1, DisconnectedIsQuiet
    <3>3. conn[q] \in Connection /\ Lone(conn[q]) /\ conn'[q] \in {conn[q], Disconnected(conn[q])}
      BY <2>3 DEF TypeOK, LoneStreams
    <3>4. /\ conn'[q].retries = conn[q].retries /\ conn'[q].restored = conn[q].restored
          /\ conn[q].status = "none" => conn'[q].status = "none"
      BY <3>3, DisconnectedIsClosed
    <3> QED
      BY <1>0, <2>1, <3>2, <3>4, LifeKept
  <2> QED
    BY <1>7, <2>2, <2>3 DEF CancelNext
<1>8. CASE RestoreSessions \/ AssignSessions \/ Cleanup \/ ScheduleReconnects
  <2>1. boot # "up" /\ conn' = conn /\ restarts' = restarts
    BY <1>8 DEF RestoreSessions, AssignSessions, Cleanup, ScheduleReconnects, bounds
  <2> QED
    BY <1>0, <2>1, LaterLife DEF LifeInv
<1>9. CASE Restart
  <2>1. restarts' # 0 /\ conn'[q] = NoConnection
    BY <1>0, <1>9 DEF Restart
  <2>2. NoConnection.retries = 0
    BY Zenon DEF NoConnection
  <2> QED
    BY <2>1, <2>2, LaterLife, ClientAssumption
<1>10. CASE UNCHANGED <<run, boot, resume, conn, request, restarts, told>>
  BY <1>0, <1>10, ConnUnchangedIsQuiet, LifeKept
<1> QED
  BY <1>1, <1>2, <1>3, <1>4, <1>5, <1>6, <1>7, <1>8, <1>9, <1>10,
     OnMessageKeepsLife, OnErrorKeepsLife
  DEF Next, GenerateStep, SocketStep, CancelStep, CancelArrives, ListRunning, CloseSession,
      vars, storage, worker, bounds

\* A worker that has just started has told nothing.
LEMMA LifeInit == Init => FirstLife
<1> SUFFICES ASSUME Init, NEW q \in Runs PROVE LifeInv(q)
  BY DEF FirstLife
<1>1. boot = "up" /\ resume = {} /\ told[q] = {} /\ conn[q] = NoConnection
  BY DEF Init
<1>2. /\ NoConnection.retries = 0 /\ NoConnection.restored = FALSE
      /\ NoConnection.status = "none"
  BY Zenon DEF NoConnection
<1> QED
  BY <1>1, <1>2, ClientAssumption DEF LifeInv

\* While the worker lives, the tab is told of a failure only if there was one or
\* all retries were used up.
THEOREM ReportedFailuresAreEarned == Spec => []FailureIsEarned
<1>1. FirstLife => FailureIsEarned
  BY DEF FirstLife, LifeInv, FailureIsEarned
<1> QED
  BY <1>1, TypeCorrect, LoneInit, LoneStep, SessionInit, SessionStep, LifeInit, LifeStep,
     PTL DEF Spec

\* A run somebody still sees to: its request is being handled, its stream is open
\* or will be again, or handleCancel is about to close its session.
Attended(r) ==
  \/ request[r] \in {"update", "connect"}
  \/ ~ Quiet(r)
  \/ cancel.pc = "post" /\ r \in cancel.at

AttendedInv(r) == restarts = 0 /\ mem[r].status \in Active => Attended(r)

\* The safety half of GeneratedSettles: as long as the worker lives, a session that
\* is pending or running is one that somebody still sees to.
NoneForgotten == \A r \in Runs : AttendedInv(r)

\* handleCancel closes one session at a time.
OneAtATime == \A p, q \in cancel.at : p = q

\* It takes a session from its queue when it is done with the last.
LEMMA OneAtATimeStep ==
  ASSUME TypeOK, OneAtATime, [Next]_vars
  PROVE  OneAtATime'
<1>1. CASE cancel' = cancel
  BY <1>1 DEF OneAtATime
<1>2. CASE CancelArrives \/ CloseSession
  <2>1. cancel'.at \in {cancel.at, {}}
    BY <1>2 DEF CancelArrives, CloseSession, TypeOK
  <2> QED
    BY <2>1 DEF OneAtATime
<1>3. CASE ListRunning \/ Restart
  <2>1. NoCancel.at = {}
    BY DEF NoCancel
  <2>2. CASE ListRunning
    <3>1. cancel' = [NoCancel EXCEPT !.pc = "next", !.queue = RunningSessions]
      BY <2>2 DEF ListRunning
    <3>2. [NoCancel EXCEPT !.pc = "next", !.queue = RunningSessions].at = {}
      BY Zenon DEF NoCancel
    <3> QED
      BY <3>1, <3>2 DEF OneAtATime
  <2>3. CASE Restart
    BY <2>1, <2>3 DEF Restart, OneAtATime
  <2> QED
    BY <1>3, <2>2, <2>3
<1>4. CASE CancelNext
  <2>1. CASE cancel' = NoCancel
    BY <2>1 DEF OneAtATime, NoCancel
  <2>2. ASSUME NEW r \in cancel.queue,
               cancel' = [pc |-> "post", queue |-> cancel.queue \ {r}, at |-> {r}]
        PROVE  OneAtATime'
    BY <2>2 DEF OneAtATime
  <2> QED
    BY <1>4, <2>1, <2>2 DEF CancelNext
<1> QED
  BY <1>1, <1>2, <1>3, <1>4
  DEF Next, GenerateStep, SocketStep, CancelStep, PostRun, CreateSession, UpdateStatus,
      ConnectRun, OnMessage, OnError, RetryTimer, ReconnectSession, RunEnds,
      RestoreSessions, AssignSessions, Cleanup, ScheduleReconnects, vars

\* A step that makes no session active and leaves nobody alone.
LEMMA AttendedKept ==
  ASSUME NEW q \in Runs, AttendedInv(q), restarts' = restarts,
         mem'[q].status \in Active => mem[q].status \in Active,
         Attended(q) => Attended(q)'
  PROVE  AttendedInv(q)'
BY DEF AttendedInv

\* A session with its status written.
LEMMA StatusIsWritten ==
  ASSUME TypeOK, NEW r \in Runs, NEW q \in Runs, NEW status \in Active \cup Outcome
  PROVE  /\ q # r => WithStatus(r, status)[q] = mem[q]
         /\ WithStatus(r, status)[r].status \in {"absent", status}
<1>1. CASE mem[r] = NoSession
  BY <1>1, NoSessionFields DEF WithStatus
<1>2. CASE mem[r] # NoSession
  <2>1. WithStatus(r, status) =
          [mem EXCEPT ![r] = [status |-> status, seq |-> mem[r].seq,
                            ended |-> mem[r].ended \/ status \in {"completed", "failed"}]]
    BY <1>2, Zenon DEF WithStatus
  <2> QED
    BY <2>1 DEF TypeOK
<1> QED
  BY <1>1, <1>2

\* What is saved of a session, if there is one.
LEMMA SavedStatus ==
  ASSUME TypeOK, NEW r \in Runs, NEW q \in Runs, NEW status \in Active \cup Outcome,
         SaveIfPresent(r, WithStatus(r, status))
  PROVE  /\ q # r => mem'[q] = mem[q]
         /\ mem'[r].status \in {"absent", status}
<1>1. CASE mem[r] = NoSession
  BY <1>1, NoSessionFields DEF SaveIfPresent
<1>2. CASE mem[r] # NoSession
  <2>1. mem' = WithStatus(r, status)
    BY <1>2 DEF SaveIfPresent, Save
  <2> QED
    BY <2>1, StatusIsWritten
<1> QED
  BY <1>1, <1>2

\* The number written to a session does not change its status.
LEMMA SequenceKeepsStatus ==
  ASSUME NEW r \in Runs, NEW q \in Runs, NEW sessions \in [Runs -> Session], NEW seq \in Nat
  PROVE  WithSequence(sessions, r, seq)[q].status = sessions[q].status
BY DEF WithSequence, Session

\* What an event leaves of the status of the sessions.
LEMMA HeardStatus ==
  ASSUME TypeOK, NEW r \in Runs, NEW q \in Runs, NEW m \in Message(r),
         SaveIfPresent(r, WithSequence(StatusAfter(r, m), r, m.seq))
  PROVE  /\ m.kind = "progress" \/ q # r => mem'[q].status = mem[q].status
         /\ m.kind # "progress" => mem'[r].status \notin Active
<1>1. CASE mem[r] = NoSession
  BY <1>1, NoSessionFields DEF SaveIfPresent, Active
<1>2. CASE mem[r] # NoSession
  <2> DEFINE status == IF m.kind = "completed" THEN "completed" ELSE "failed"
  <2>1. m.seq \in Nat /\ m.kind \in Outcome \cup {"progress"}
    BY ClientAssumption DEF Message
  <2>2. /\ m.kind = "progress" => StatusAfter(r, m) = mem
        /\ m.kind # "progress" => StatusAfter(r, m) = WithStatus(r, status)
    BY <2>1 DEF StatusAfter, Outcome
  <2>3. status \in Active \cup Outcome /\ status \notin Active /\ "absent" \notin Active
    BY DEF Active, Outcome
  <2>4. StatusAfter(r, m) \in [Runs -> Session]
    <3>1. CASE m.kind = "progress"
      BY <2>2, <3>1 DEF TypeOK
    <3>2. CASE m.kind # "progress"
      BY <2>2, <2>3, <3>2, SessionsType
    <3> QED
      BY <3>1, <3>2
  <2>5. mem' = WithSequence(StatusAfter(r, m), r, m.seq)
    BY <1>2 DEF SaveIfPresent, Save
  <2>6. \A p \in Runs : mem'[p].status = StatusAfter(r, m)[p].status
    BY <2>1, <2>4, <2>5, SequenceKeepsStatus
  <2> HIDE DEF status
  <2> QED
    BY <2>2, <2>3, <2>6, StatusIsWritten
<1> QED
  BY <1>1, <1>2

\* An event is heard on a stream, which it leaves open unless it ends the session.
LEMMA OnMessageAttends ==
  ASSUME TypeOK, NoneForgotten, NEW r \in Runs, OnMessage(r), NEW q \in Runs
  PROVE  AttendedInv(q)'
<1>1. PICK m \in Message(r) :
        /\ conn' = [conn EXCEPT ![r] = IF m.kind = "progress"
                                       THEN Heard(r, m) ELSE Disconnected(Heard(r, m))]
        /\ SaveIfPresent(r, WithSequence(StatusAfter(r, m), r, m.seq))
  BY OnMessageParts, Zenon
<1>2. /\ conn[r].sockets > 0
      /\ request' = request /\ cancel' = cancel /\ restarts' = restarts
  BY DEF OnMessage
<1>3. AttendedInv(q)
  BY DEF NoneForgotten
<1>4. CASE q # r
  <2>1. conn'[q] = conn[q]
    BY <1>1, <1>4 DEF TypeOK
  <2>2. mem'[q].status = mem[q].status
    BY <1>1, <1>4, HeardStatus
  <2> QED
    BY <1>2, <1>3, <2>1, <2>2, AttendedKept DEF Attended, Quiet
<1>5. CASE q = r /\ m.kind = "progress"
  <2>1. conn'[q] = Heard(q, m)
    BY <1>1, <1>5 DEF TypeOK
  <2>2. conn'[q].sockets = conn[q].sockets
    BY <2>1 DEF Heard, TypeOK, Connection
  <2>3. conn[q].sockets # 0
    BY <1>2, <1>5
  <2> QED
    BY <2>2, <2>3 DEF AttendedInv, Attended, Quiet
<1>6. CASE q = r /\ m.kind # "progress"
  BY <1>1, <1>6, HeardStatus DEF AttendedInv
<1> QED
  BY <1>4, <1>5, <1>6

\* An error sets a timer or ends the session.
LEMMA OnErrorAttends ==
  ASSUME TypeOK, LoneStreams, FirstLife, NoneForgotten,
         NEW r \in Runs, OnError(r), NEW q \in Runs
  PROVE  AttendedInv(q)'
<1>1. /\ conn[r].sockets > 0
      /\ request' = request /\ cancel' = cancel /\ restarts' = restarts
  BY DEF OnError, bounds
<1>2. AttendedInv(q) /\ LifeInv(r) /\ conn[r] \in Connection /\ Lone(conn[r])
  BY DEF NoneForgotten, FirstLife, LoneStreams, TypeOK
<1>3. "failed" \in Active \cup Outcome /\ "failed" \notin Active /\ "absent" \notin Active
  BY DEF Active, Outcome
<1>4. CASE conn' = [conn EXCEPT ![r] = Retry(@)] /\ mem' = mem
  <2>1. CASE q # r
    <3>1. conn'[q] = conn[q]
      BY <1>4, <2>1 DEF TypeOK
    <3> QED
      BY <1>1, <1>2, <1>4, <3>1, AttendedKept DEF Attended, Quiet
  <2>2. CASE q = r
    <3>1. conn'[q] = Retry(conn[q])
      BY <1>4, <2>2 DEF TypeOK
    <3>2. conn'[q].timers = 1
      BY <1>1, <1>2, <2>2, <3>1, RetryIsLone
    <3> QED
      BY <3>2 DEF AttendedInv, Attended, Quiet
  <2> QED
    BY <2>1, <2>2
<1>5. CASE /\ conn' = [conn EXCEPT ![r] = Disconnected(@)]
           /\ IF conn[r].restored
              THEN UNCHANGED <<mem, storage>>
              ELSE SaveIfPresent(r, WithStatus(r, "failed"))
  <2>1. CASE restarts # 0
    BY <1>1, <2>1 DEF AttendedInv
  <2>2. CASE restarts = 0
    <3>1. SaveIfPresent(r, WithStatus(r, "failed"))
      BY <1>2, <1>5, <2>2 DEF LifeInv
    <3>2. /\ q # r => mem'[q] = mem[q]
          /\ mem'[r].status \notin Active
      BY <1>3, <3>1, SavedStatus
    <3>3. q # r => conn'[q] = conn[q]
      BY <1>5 DEF TypeOK
    <3>4. CASE q = r
      BY <3>2, <3>4 DEF AttendedInv
    <3>5. CASE q # r
      BY <1>1, <1>2, <3>2, <3>3, <3>5, AttendedKept DEF Attended, Quiet
    <3> QED
      BY <3>4, <3>5
  <2> QED
    BY <2>1, <2>2
<1>6. \/ conn' = [conn EXCEPT ![r] = Retry(@)] /\ mem' = mem
      \/ /\ conn' = [conn EXCEPT ![r] = Disconnected(@)]
         /\ IF conn[r].restored
            THEN UNCHANGED <<mem, storage>>
            ELSE SaveIfPresent(r, WithStatus(r, "failed"))
  BY Zenon DEF OnError
<1> QED
  BY <1>4, <1>5, <1>6

\* Connect leaves the run with an open stream.
LEMMA ConnectOpens ==
  ASSUME TypeOK, NEW r \in Runs,
         NEW since \in Nat, NEW restored \in BOOLEAN, Connect(r, since, restored)
  PROVE  /\ conn'[r].sockets # 0
         /\ \A p \in Runs \ {r} : conn'[p] = conn[p]
<1> DEFINE old == Disconnected(conn[r])
           fresh == [NoConnection EXCEPT !.sockets = old.sockets, !.timers = old.timers,
                                         !.seq = since, !.restored = restored]
<1>1. conn' = [conn EXCEPT ![r] = DoConnect(fresh)]
  BY DEF Connect
<1>2. conn'[r] = DoConnect(fresh) /\ \A p \in Runs \ {r} : conn'[p] = conn[p]
  BY <1>1 DEF TypeOK
<1>3. old.sockets \in Nat
  BY ConnectionType, CountType DEF TypeOK
<1>4. DoConnect(fresh).sockets = old.sockets + 1
  <2> HIDE DEF old
  <2> QED
    BY DEF DoConnect, NoConnection
<1> HIDE DEF old, fresh
<1> QED
  BY <1>2, <1>3, <1>4

\* No step leaves a session that goes on to itself.
LEMMA AttendedStep ==
  ASSUME TypeOK, LoneStreams, FirstLife, OneAtATime, NoneForgotten, [Next]_vars
  PROVE  NoneForgotten'
<1> SUFFICES ASSUME NEW q \in Runs PROVE AttendedInv(q)'
  BY DEF NoneForgotten
<1>0. AttendedInv(q) /\ LifeInv(q) /\ restarts \in Nat /\ conn[q] \in Connection
  BY DEF NoneForgotten, FirstLife, TypeOK
<1>1. ASSUME NEW r \in Runs, PostRun(r) PROVE AttendedInv(q)'
  <2>1. /\ mem' = mem /\ conn' = conn /\ cancel' = cancel /\ restarts' = restarts
        /\ request[r] = "idle"
    BY <1>1 DEF PostRun, bounds
  <2>2. request'[q] = request[q] \/ request[q] = "idle"
    BY <1>1 DEF PostRun, TypeOK
  <2> QED
    BY <1>0, <2>1, <2>2, AttendedKept DEF Attended, Quiet
<1>2. ASSUME NEW r \in Runs, CreateSession(r) PROVE AttendedInv(q)'
  <2>1. conn' = conn /\ cancel' = cancel /\ restarts' = restarts
    BY <1>2 DEF CreateSession, bounds
  <2>2. q # r => mem'[q] = mem[q] /\ request'[q] = request[q]
    BY <1>2 DEF CreateSession, Save, TypeOK
  <2>3. q = r => request'[q] = "update"
    BY <1>2 DEF CreateSession, TypeOK
  <2>4. CASE q = r
    BY <2>3, <2>4 DEF AttendedInv, Attended
  <2>5. CASE q # r
    BY <1>0, <2>1, <2>2, <2>5, AttendedKept DEF Attended, Quiet
  <2> QED
    BY <2>4, <2>5
<1>3. ASSUME NEW r \in Runs, UpdateStatus(r) PROVE AttendedInv(q)'
  <2>1. /\ conn' = conn /\ cancel' = cancel /\ restarts' = restarts
        /\ SaveIfPresent(r, WithStatus(r, "running"))
    BY <1>3 DEF UpdateStatus, bounds
  <2>2. q # r => mem'[q] = mem[q] /\ request'[q] = request[q]
    BY <1>3, <2>1, SavedStatus DEF UpdateStatus, TypeOK, Active
  <2>3. q = r => request'[q] = "connect"
    BY <1>3 DEF UpdateStatus, TypeOK
  <2>4. CASE q = r
    BY <2>3, <2>4 DEF AttendedInv, Attended
  <2>5. CASE q # r
    BY <1>0, <2>1, <2>2, <2>5, AttendedKept DEF Attended, Quiet
  <2> QED
    BY <2>4, <2>5
<1>4. ASSUME NEW r \in Runs, ConnectRun(r) PROVE AttendedInv(q)'
  <2>1. /\ mem' = mem /\ cancel' = cancel /\ restarts' = restarts
        /\ request' = [request EXCEPT ![r] = "done"] /\ Connect(r, 0, FALSE)
    BY <1>4 DEF ConnectRun, bounds
  <2>2. /\ conn'[r].sockets # 0
        /\ \A p \in Runs \ {r} : conn'[p] = conn[p]
    BY <2>1, ConnectOpens
  <2>3. CASE q = r
    BY <2>2, <2>3 DEF AttendedInv, Attended, Quiet
  <2>4. CASE q # r
    <3>1. request'[q] = request[q] /\ conn'[q] = conn[q]
      BY <2>1, <2>2, <2>4 DEF TypeOK
    <3> QED
      BY <1>0, <2>1, <3>1, AttendedKept DEF Attended, Quiet
  <2> QED
    BY <2>3, <2>4
<1>5. ASSUME NEW r \in Runs, ReconnectSession(r) PROVE AttendedInv(q)'
  <2>1. r \in resume /\ restarts' = restarts
    BY <1>5 DEF ReconnectSession, bounds
  <2>2. restarts' # 0
    BY <1>0, <2>1 DEF LifeInv
  <2> QED
    BY <2>2 DEF AttendedInv
<1>6. ASSUME NEW r \in Runs, RetryTimer(r) PROVE AttendedInv(q)'
  <2>1. /\ mem' = mem /\ cancel' = cancel /\ restarts' = restarts /\ request' = request
        /\ conn' = [conn EXCEPT ![r] = Reopen(@)]
    BY <1>6 DEF RetryTimer, bounds
  <2>2. CASE q # r
    <3>1. conn'[q] = conn[q]
      BY <2>1, <2>2 DEF TypeOK
    <3> QED
      BY <1>0, <2>1, <3>1, AttendedKept DEF Attended, Quiet
  <2>3. CASE q = r
    <3>1. conn'[q] = Reopen(conn[q]) /\ conn[q].sockets \in Nat
      BY <1>0, <2>1, <2>3, CountType DEF TypeOK
    <3>2. conn'[q].sockets = conn[q].sockets + 1
      BY <1>0, <3>1 DEF Reopen, DoConnect, Connection
    <3>3. conn'[q].sockets # 0
      BY <3>1, <3>2
    <3> QED
      BY <3>3 DEF AttendedInv, Attended, Quiet
  <2> QED
    BY <2>2, <2>3
<1>7. CASE CancelNext
  <2>1. /\ mem' = mem /\ restarts' = restarts /\ request' = request
        /\ cancel.pc = "next"
    BY <1>7 DEF CancelNext, bounds
  <2>2. CASE conn' = conn
    BY <1>0, <2>1, <2>2, AttendedKept DEF Attended, Quiet
  <2>3. ASSUME NEW r \in cancel.queue, conn' = [conn EXCEPT ![r] = Disconnected(@)],
               cancel' = [pc |-> "post", queue |-> cancel.queue \ {r}, at |-> {r}]
        PROVE  AttendedInv(q)'
    <3>1. cancel'.pc = "post" /\ cancel'.at = {r}
      BY <2>3
    <3>2. q # r => conn'[q] = conn[q]
      BY <2>3 DEF TypeOK
    <3>3. CASE q = r
      BY <3>1, <3>3 DEF AttendedInv, Attended
    <3>4. CASE q # r
      BY <1>0, <2>1, <3>2, <3>4, AttendedKept DEF Attended, Quiet
    <3> QED
      BY <3>3, <3>4
  <2> QED
    BY <1>7, <2>2, <2>3 DEF CancelNext
<1>8. CASE CloseSession
  <2>1. conn' = conn /\ restarts' = restarts /\ request' = request
    BY <1>8 DEF CloseSession, bounds
  <2>2. "cancelled" \in Active \cup Outcome /\ "cancelled" \notin Active
        /\ "absent" \notin Active
    BY DEF Active, Outcome
  <2>3. PICK r \in cancel.at : SaveIfPresent(r, WithStatus(r, "cancelled"))
    BY <1>8 DEF CloseSession
  <2>4. r \in Runs
    BY DEF TypeOK
  <2>5. CASE q = r
    <3>1. mem'[q].status \notin Active
      BY <2>2, <2>3, <2>4, <2>5, SavedStatus
    <3> QED
      BY <3>1 DEF AttendedInv
  <2>6. CASE q # r
    <3>1. mem'[q] = mem[q] /\ q \notin cancel.at
      BY <2>2, <2>3, <2>4, <2>6, SavedStatus DEF OneAtATime
    <3> QED
      BY <1>0, <2>1, <3>1, AttendedKept DEF Attended, Quiet
  <2> QED
    BY <2>5, <2>6
<1>9. CASE RestoreSessions \/ AssignSessions \/ Cleanup \/ ScheduleReconnects
  <2>1. boot # "up" /\ restarts' = restarts
    BY <1>9 DEF RestoreSessions, AssignSessions, Cleanup, ScheduleReconnects, bounds
  <2> QED
    BY <1>0, <2>1 DEF LifeInv, AttendedInv
<1>10. CASE Restart
  BY <1>0, <1>10 DEF Restart, AttendedInv
<1>11. CASE CancelArrives \/ ListRunning
  <2>1. /\ mem' = mem /\ conn' = conn /\ request' = request /\ restarts' = restarts
        /\ cancel.pc # "post"
    BY <1>11 DEF CancelArrives, ListRunning, bounds
  <2> QED
    BY <1>0, <2>1, AttendedKept DEF Attended, Quiet
<1>12. CASE UNCHANGED <<mem, conn, request, cancel, restarts>>
  BY <1>0, <1>12, AttendedKept DEF Attended, Quiet
<1> QED
  BY <1>1, <1>2, <1>3, <1>4, <1>5, <1>6, <1>7, <1>8, <1>9, <1>10, <1>11, <1>12,
     OnMessageAttends, OnErrorAttends
  DEF Next, GenerateStep, SocketStep, CancelStep, RunEnds, vars, storage, worker, bounds

\* No session goes on before the first one is made.
LEMMA AttendedInit == Init => OneAtATime /\ NoneForgotten
BY NoSessionFields DEF Init, OneAtATime, NoCancel, NoneForgotten, AttendedInv, Active

\* As long as the worker lives, a session that is pending or running is one whose
\* request is being handled, whose stream is open or about to be opened again, or
\* which handleCancel is about to close.
THEOREM NoneForgottenHolds == Spec => []NoneForgotten
BY TypeCorrect, LoneInit, LoneStep, SessionInit, SessionStep, LifeInit, LifeStep,
   OneAtATimeStep, AttendedInit, AttendedStep, PTL DEF Spec
=============================================================================
