----------------------------- MODULE EventStream -----------------------------
(***************************************************************************)
(* The readers of a workflow run: GET /review/stream/{id} replays the      *)
(* stored events, looks at the run's status, subscribes to the run's Redis *)
(* channel and hands on what is published there.  Composed with            *)
(* WorkflowRun, whose steps fall between any two of a stream's awaits.     *)
(*                                                                         *)
(* api/sse.py, shared/workflow_events/event_store.py.                      *)
(***************************************************************************)
EXTENDS WorkflowRun, FiniteSets

CONSTANTS
  Streams, \* the requests GET /review/stream/{id}
  Resume   \* the values of the query parameter last_sequence

ASSUME StreamAssumption == Resume \subseteq Nat

VARIABLES
  phase,   \* where the generator of each stream is
  since,   \* its last_sequence
  pending, \* history rows it has fetched and not yet sent
  cursor,  \* how much of the channel has passed its subscription
  got,     \* what it has sent to the client
  \* history variables, read by the properties only
  base,    \* rows in the table when the stream fetched its history
  joined   \* messages on the channel when it subscribed

runVars    == vars
streamVars == <<phase, since, pending, cursor, got, base, joined>>

Ended  == {"finished", "closed", "timedOut", "broken"}
Phase  == {"idle", "query", "replay", "subscribe", "listen"} \cup Ended
Active == Phase \ ({"idle"} \cup Ended)

StreamInit ==
  /\ Init
  /\ phase = [s \in Streams |-> "idle"]
  /\ since = [s \in Streams |-> 0]
  /\ pending = [s \in Streams |-> {}]
  /\ cursor = [s \in Streams |-> 0]
  /\ got = [s \in Streams |-> <<>>]
  /\ base = [s \in Streams |-> 0]
  /\ joined = [s \in Streams |-> 0]

Move(s, next) == phase' = [phase EXCEPT ![s] = next]

\* What the stream awaits raises, and the response breaks off.
Break(s) == Fault /\ Move(s, "broken")

\* All the variables of a run that a stream reads but, apart from the fault
\* count, never writes.
ReadsRun == UNCHANGED <<row, log, channel, pc, current, after, mapper, cancelled,
                        checker, canceller>>
-----------------------------------------------------------------------------
\* Answers 404 while there is no row.
OpenStream(s, last) ==
  /\ phase[s] = "idle"
  /\ status # "none"
  /\ Move(s, "query")
  /\ since' = [since EXCEPT ![s] = last]
  /\ ReadsRun
  /\ UNCHANGED <<faults, pending, cursor, got, base, joined>>

EventsAfterNext(last) == {log[i] : i \in {j \in 1..Len(log) : log[j].seq > last + 1}}

EventsAfter(last) == {log[i] : i \in {j \in 1..Len(log) : log[j].seq > last}}

FetchHistory(s) ==
  /\ phase[s] = "query"
  /\ \/ /\ Move(s, "replay")
        /\ pending' = [pending EXCEPT ![s] = EventsAfter(since[s])]
        /\ base' = [base EXCEPT ![s] = Len(log)]
        /\ UNCHANGED faults
     \/ /\ Break(s)
        /\ UNCHANGED <<pending, base>>
  /\ ReadsRun
  /\ UNCHANGED <<since, cursor, got, joined>>

FirstDescending(rows, e) == \A f \in rows : f.seq <= e.seq

\* Rows come in the order of their sequence; the database orders rows with equal
\* sequences as it likes.
First(rows, e) == \A f \in rows : e.seq <= f.seq

SendHistory(s) ==
  /\ phase[s] = "replay"
  /\ \E e \in pending[s] :
       /\ First(pending[s], e)
       /\ got' = [got EXCEPT ![s] = Append(@, e)]
       /\ pending' = [pending EXCEPT ![s] = @ \ {e}]
  /\ ReadsRun
  /\ UNCHANGED <<faults, phase, since, cursor, base, joined>>

CheckStatus(s) ==
  /\ phase[s] = "replay"
  /\ pending[s] = {}
  /\ \/ /\ Move(s, IF status \in Terminal THEN "finished" ELSE "subscribe")
        /\ UNCHANGED faults
     \/ Break(s)
  /\ ReadsRun
  /\ UNCHANGED <<since, pending, cursor, got, base, joined>>

JoinAtBacklog == 0

\* Redis delivers what is published from now on and nothing older.
JoinPoint == Len(channel)

Subscribe(s) ==
  /\ phase[s] = "subscribe"
  /\ \/ /\ Move(s, "listen")
        /\ cursor' = [cursor EXCEPT ![s] = JoinPoint]
        /\ joined' = [joined EXCEPT ![s] = Len(channel)]
        /\ UNCHANGED faults
     \/ /\ Break(s)
        /\ UNCHANGED <<cursor, joined>>
  /\ ReadsRun
  /\ UNCHANGED <<since, pending, got, base>>

Receive(s) ==
  /\ phase[s] = "listen"
  /\ cursor[s] < Len(channel)
  /\ cursor' = [cursor EXCEPT ![s] = @ + 1]
  /\ LET message == channel[cursor[s] + 1]
     IN  \/ /\ message = Close
            /\ Move(s, "closed")
            /\ UNCHANGED got
         \/ /\ message # Close
            /\ got' = [got EXCEPT ![s] = Append(@, message)]
            /\ UNCHANGED phase
  /\ ReadsRun
  /\ UNCHANGED <<faults, since, pending, base, joined>>

\* While it listens, the connection to Redis breaks or a message cannot be parsed.
LoseSubscription(s) ==
  /\ phase[s] = "listen"
  /\ Break(s)
  /\ ReadsRun
  /\ UNCHANGED <<since, pending, cursor, got, base, joined>>

\* Nothing can be sent before the database or Redis answers.
Waiting(s) ==
  \/ phase[s] \in {"query", "subscribe"}
  \/ phase[s] = "replay" /\ pending[s] = {}
  \/ phase[s] = "listen" /\ cursor[s] = Len(channel)

AfterHeartbeatUnknown(s) == "heartbeat"

AfterHeartbeatAgain(s) == phase[s]

\* wait_for gives up after 15 seconds and cancels the generator it waits for: a
\* heartbeat is sent, and the next __anext__ finds the generator finished.
AfterHeartbeat(s) == "timedOut"

Heartbeat(s) ==
  /\ Waiting(s)
  /\ Move(s, AfterHeartbeat(s))
  /\ ReadsRun
  /\ UNCHANGED <<faults, since, pending, cursor, got, base, joined>>
-----------------------------------------------------------------------------
\* The server dies and takes the open responses along; one that is shut down ends
\* them before its event loop cancels the task.
CrashAll ==
  /\ Crash
  /\ phase' = [s \in Streams |-> IF phase[s] \in Active THEN "broken" ELSE phase[s]]
  /\ UNCHANGED <<since, pending, cursor, got, base, joined>>

RunStep ==
  /\ \/ Task
     \/ PollCancel
     \/ \E c \in Cancellers : ReadForCancel(c)
     \/ \E c \in Cancellers : CancelWorkflowRun(c)
  /\ UNCHANGED streamVars

StreamStep(s) ==
  \/ FetchHistory(s)
  \/ SendHistory(s)
  \/ CheckStatus(s)
  \/ Subscribe(s)
  \/ Receive(s)
  \/ LoseSubscription(s)
  \/ Heartbeat(s)

StreamNext ==
  \/ RunStep
  \/ CrashAll
  \/ \E s \in Streams, last \in Resume : OpenStream(s, last)
  \/ \E s \in Streams : StreamStep(s)

StreamSpec == StreamInit /\ [][StreamNext]_<<runVars, streamVars>>

\* asyncio runs the task and the generators, and wait_for's timer expires.  A
\* client that goes away only stops its stream, which safety allows anyway.
FairStreamSpec ==
  /\ StreamSpec
  /\ WF_<<runVars, streamVars>>(Task /\ UNCHANGED streamVars)
  /\ \A s \in Streams : WF_<<runVars, streamVars>>(StreamStep(s))
-----------------------------------------------------------------------------
(* Properties *)

Delivered(s) == {got[s][i] : i \in 1..Len(got[s])}

StreamTypeOK ==
  /\ phase \in [Streams -> Phase]
  /\ since \in [Streams -> Nat]
  /\ pending \in [Streams -> SUBSET Event]
  /\ cursor \in [Streams -> Nat]
  /\ got \in [Streams -> Seq(Event)]
  /\ base \in [Streams -> Nat]
  /\ joined \in [Streams -> Nat]

\* History and subscription overlap by one event at most: the one that was
\* stored before the history was fetched and published after the subscription.
\* So a client that drops one repeated id is safe.
AtMostOneDuplicate ==
  \A s \in Streams :
    Cardinality({p \in (DOMAIN got[s]) \X (DOMAIN got[s]) :
                   p[1] < p[2] /\ got[s][p[1]] = got[s][p[2]]}) <= 1

\* A stream that was told that the channel closed can lack a published event
\* only if that was published before it subscribed and either was not stored yet
\* when the history was fetched or is not newer than last_sequence.
LostOnlyInTheGap ==
  \A s \in Streams : phase[s] = "closed" =>
    \A k \in 1..Len(channel) :
      \/ channel[k] \in Delivered(s) \cup {Close}
      \/ /\ k <= joined[s]
         /\ channel[k].id > base[s] \/ channel[k].seq <= since[s]

\* A stream opened after the last row was stored, which finds the run finished,
\* ends with the outcome of the graph if its number is beyond last_sequence:
\* nothing a client could mistake for progress follows it.
ReplayEndsWithOutcome ==
  \A s \in Streams :
    phase[s] = "finished" /\ base[s] = Len(log) =>
      \A e \in EventsAfter(since[s]) : e.kind \in {"completed", "failed"} =>
        got[s] # <<>> /\ got[s][Len(got[s])] = e

\* No stream stays open for ever: one that subscribed too late for __CLOSE__ is
\* ended by the heartbeat.
StreamsEnd ==
  \A s \in Streams : phase[s] = "query" ~> phase[s] \in Ended

\* What stream_review_run says of itself, "history first, then new events": a
\* stream from the beginning that ended of itself has sent every numbered event
\* that was published.  The code does not keep it (README, findings).
ResumeIsLossless ==
  \A s \in Streams : phase[s] \in {"finished", "closed"} /\ since[s] = 0 =>
    \A k \in 1..Len(channel) : channel[k].seq > 0 => channel[k] \in Delivered(s)
==============================================================================
