-------------------------- MODULE EventStreamProofs --------------------------
(***************************************************************************)
(* What clients of GET /review/stream receive, for every number of streams *)
(* and cancel requests, graphs of any length and any failures.             *)
(***************************************************************************)
EXTENDS EventStream, WorkflowRunProofs, FiniteSetTheorems

-----------------------------------------------------------------------------
(* The run beside the streams *)

\* What is published is a row, in the order of the rows, and nothing follows Close.
ChannelInv ==
  /\ \A k \in 1..Len(channel) : channel[k] # Close =>
       channel[k].id \in 1..Len(log) /\ log[channel[k].id] = channel[k]
  /\ \A j, k \in 1..Len(channel) : j < k =>
       /\ channel[j] # Close
       /\ channel[k] # Close => channel[j].id < channel[k].id

RunInv == TypeOK /\ FeedInv /\ NumberInv /\ ChannelInv

\* A run that has not begun satisfies what the streams need of it.
LEMMA RunInitial == Init => RunInv
<1>1. Init => ChannelInv
  BY DEF Init, ChannelInv
<1> QED
  BY <1>1, TypeInit, FeedInit, NumberInit DEF RunInv

\* The table and the channel only grow, at their ends.
Grows(s) == s' = s \/ \E e : s' = Append(s, e)

\* A run only ever adds rows to the table and messages to its channel.
LEMMA RunGrows ==
  ASSUME [Next]_vars
  PROVE  Grows(log) /\ Grows(channel)
BY DEF Grows, Next, Task, vars, CreateRunRecord, PrepareInput, MarkRunning, StartRunner,
       MapRawEvent, EndStream, SaveEvent, PublishEvent, FinishRunner, MarkEnded,
       HandleException, MarkFailed, CloseChannel, PollCancel, ReadForCancel,
       CancelWorkflowRun, Crash, ClosesAtShutdown

\* Only PublishEvent publishes events, and only a task that has not ended publishes
\* the close signal.
LEMMA WhoPublishes ==
  ASSUME [Next]_vars
  PROVE  \/ UNCHANGED channel
         \/ pc = "publish" /\ channel' = Append(channel, current) /\ UNCHANGED log
         \/ /\ pc \notin {"done", "crashed"}
            /\ channel' = Append(channel, Close)
            /\ UNCHANGED log
<1>1. CASE Crash
  BY <1>1 DEF Crash, ClosesAtShutdown, Working
<1>2. CASE CloseChannel
  BY <1>2 DEF CloseChannel
<1>3. CASE ~ Crash /\ ~ CloseChannel
  BY <1>3 DEF Next, Task, vars, CreateRunRecord, PrepareInput, MarkRunning, StartRunner,
       MapRawEvent, EndStream, SaveEvent, PublishEvent, FinishRunner, MarkEnded,
       HandleException, MarkFailed, PollCancel, ReadForCancel, CancelWorkflowRun
<1> QED
  BY <1>1, <1>2, <1>3

\* What is in the table stays where it is.
LEMMA OldRowsStay ==
  ASSUME TypeOK, TypeOK', Grows(log)
  PROVE  /\ Len(log) \in Nat /\ Len(log') \in Nat /\ Len(log) <= Len(log')
         /\ \A i \in 1..Len(log) : i \in 1..Len(log') /\ log'[i] = log[i]
<1>1. Len(log) \in Nat
  BY LogRows
<1>2. CASE log' = log
  BY <1>1, <1>2
<1>3. CASE \E e : log' = Append(log, e)
  <2>1. PICK e : log' = Append(log, e)
    BY <1>3
  <2>2. log \in Seq(Event \cup {e})
    BY SeqMonotonic DEF TypeOK
  <2> QED
    BY <1>1, <2>1, <2>2, AppendEntry
<1> QED
  BY <1>2, <1>3 DEF Grows

\* So does what is on the channel.
LEMMA OldMessagesStay ==
  ASSUME TypeOK, TypeOK', Grows(channel)
  PROVE  /\ Len(channel) \in Nat /\ Len(channel') \in Nat /\ Len(channel) <= Len(channel')
         /\ \A i \in 1..Len(channel) : i \in 1..Len(channel') /\ channel'[i] = channel[i]
<1>1. Len(channel) \in Nat
  BY ChannelMessages
<1>2. CASE channel' = channel
  BY <1>1, <1>2
<1>3. CASE \E e : channel' = Append(channel, e)
  <2>1. PICK e : channel' = Append(channel, e)
    BY <1>3
  <2>2. channel \in Seq((Event \cup {Close}) \cup {e})
    BY SeqMonotonic DEF TypeOK
  <2> QED
    BY <1>1, <2>1, <2>2, AppendEntry
<1> QED
  BY <1>2, <1>3 DEF Grows

\* A step of the run keeps the order of the channel.
LEMMA ChannelStep ==
  ASSUME RunInv, TypeOK', [Next]_vars
  PROVE  ChannelInv'
<1> USE DEF RunInv
<1>1. /\ Len(log) \in Nat /\ Len(log') \in Nat /\ Len(log) <= Len(log')
      /\ \A i \in 1..Len(log) : i \in 1..Len(log') /\ log'[i] = log[i]
  BY RunGrows, OldRowsStay
<1>2. CASE UNCHANGED channel
  BY <1>1, <1>2 DEF ChannelInv
<1>3. \A k \in 1..Len(channel) : channel[k] = Close => pc \in {"done", "crashed"}
  BY DEF FeedInv, ClosePublished
<1>4. ASSUME NEW m \in Event \cup {Close}, channel' = Append(channel, m), UNCHANGED log,
             pc \notin {"done", "crashed"},
             m # Close => /\ m.id \in 1..Len(log) /\ log[m.id] = m
                          /\ \A k \in 1..Len(channel) : channel[k].id < m.id
      PROVE  ChannelInv'
  <2>1. /\ Len(channel) \in Nat /\ Len(channel') = Len(channel) + 1
        /\ \A i \in 1..Len(channel) : channel'[i] = channel[i]
        /\ channel'[Len(channel) + 1] = m
        /\ \A i \in 1..Len(channel') : i \in 1..Len(channel) \/ i = Len(channel) + 1
    BY <1>4, PublishedMessage
  <2>2. \A k \in 1..Len(channel) : channel[k] # Close
    BY <1>3, <1>4
  <2>3. \A k \in 1..Len(channel') : channel'[k] # Close =>
          channel'[k].id \in 1..Len(log) /\ log[channel'[k].id] = channel'[k]
    BY <1>4, <2>1 DEF ChannelInv
  <2>4. ASSUME NEW j \in 1..Len(channel'), NEW k \in 1..Len(channel'), j < k
        PROVE  channel'[j] # Close /\ (channel'[k] # Close => channel'[j].id < channel'[k].id)
    <3>1. j \in 1..Len(channel)
      BY <2>1, <2>4
    <3>2. CASE k \in 1..Len(channel)
      BY <2>1, <2>4, <3>1, <3>2 DEF ChannelInv
    <3>3. CASE k = Len(channel) + 1
      BY <1>4, <2>1, <2>2, <3>1, <3>3
    <3> QED
      BY <2>1, <3>2, <3>3
  <2> QED
    BY <1>4, <2>3, <2>4 DEF ChannelInv
<1>5. CASE pc = "publish" /\ channel' = Append(channel, current) /\ UNCHANGED log
  <2>1. /\ current \in Event /\ log # <<>> /\ log[Len(log)] = current
        /\ \A k \in 1..Len(channel) : channel[k] # current /\ channel[k].id <= Len(log)
    BY <1>5 DEF TypeOK, FeedInv
  <2>2. Len(log) \in 1..Len(log)
    BY <1>1, <2>1, EmptySeq DEF TypeOK
  <2>3. current.id = Len(log)
    BY <2>1, <2>2 DEF FeedInv
  <2>4. \A k \in 1..Len(channel) : channel[k].id < current.id
    <3> SUFFICES ASSUME NEW k \in 1..Len(channel) PROVE channel[k].id < Len(log)
      BY <2>3
    <3>1. channel[k] # Close /\ channel[k].id \in Nat
      BY <1>1, <1>3, <1>5 DEF ChannelInv
    <3>2. log[channel[k].id] = channel[k]
      BY <3>1 DEF ChannelInv
    <3> QED
      BY <1>1, <2>1, <3>1, <3>2
  <2> QED
    BY <1>4, <1>5, <2>1, <2>2, <2>3, <2>4
<1>6. CASE /\ pc \notin {"done", "crashed"}
           /\ channel' = Append(channel, Close)
           /\ UNCHANGED log
  BY <1>4, <1>6
<1> QED
  BY <1>2, <1>5, <1>6, WhoPublishes

\* The invariant of the run is kept by its steps.
LEMMA RunStays ==
  ASSUME RunInv, [Next]_vars
  PROVE  RunInv'
<1>1. TypeOK' /\ FeedInv' /\ NumberInv'
  BY TypeStep, FeedStep, NumberStep DEF RunInv
<1> QED
  BY <1>1, ChannelStep DEF RunInv

\* A stream whose call fails touches the count of faults, and nothing else.
LEMMA RunOnlyRead ==
  ASSUME RunInv, ReadsRun, faults' \in Nat
  PROVE  RunInv'
<1>1. TypeOK'
  BY DEF RunInv, ReadsRun, TypeOK, row, mapper
<1>2. FeedInv' /\ ChannelInv'
  BY DEF RunInv, ReadsRun, FeedInv, ChannelInv, ClosePublished, row, mapper
<1>3. NumberInv'
  BY DEF RunInv, ReadsRun, NumberInv, PastStream, IsOutcome, row, mapper
<1> QED
  BY <1>1, <1>2, <1>3 DEF RunInv
-----------------------------------------------------------------------------
(* One stream *)

\* What the stream has found in the table.
Rows(s) == {log[i] : i \in {j \in 1..base[s] : log[j].seq > since[s]}}

Unfetched == {"idle", "query"}

Replaying == {"idle", "query", "replay", "subscribe", "finished"}

\* The first h events came from the table, sorted and each one once; the rest from
\* the channel, each one once, and no older than the newest row of the replay.
SplitAt(s, h) ==
  /\ h \in 0..Len(got[s])
  /\ \A i \in 1..h : got[s][i] \in Rows(s) /\ got[s][i] \notin pending[s]
  /\ \A i, j \in 1..h : i < j => got[s][i].seq <= got[s][j].seq /\ got[s][i] # got[s][j]
  /\ \A i \in 1..h : \A e \in pending[s] : got[s][i].seq <= e.seq
  /\ \A i \in (h + 1)..Len(got[s]) : got[s][i].id >= base[s]
  /\ \A i, j \in (h + 1)..Len(got[s]) : i < j => got[s][i].id < got[s][j].id
  /\ phase[s] \in Replaying => h = Len(got[s])
  /\ phase[s] = "listen" => \A i \in (h + 1)..Len(got[s]) :
       \E m \in 1..cursor[s] : channel[m] = got[s][i]

\* How far the stream has come, and that it has skipped nothing on its way.
Progress(s) ==
  /\ phase[s] \in Unfetched => got[s] = <<>> /\ pending[s] = {} /\ base[s] = 0
  /\ phase[s] \in Replaying => cursor[s] = 0 /\ joined[s] = 0
  /\ base[s] <= Len(log) /\ joined[s] <= cursor[s] /\ cursor[s] <= Len(channel)
  /\ pending[s] \subseteq Rows(s)
  /\ Rows(s) \subseteq Delivered(s) \cup pending[s]
  /\ phase[s] \in {"subscribe", "listen", "finished", "closed"} => pending[s] = {}
  /\ \A k \in (joined[s] + 1)..cursor[s] : channel[k] \in Delivered(s) \cup {Close}
  /\ phase[s] = "listen" =>
       \A k \in (joined[s] + 1)..Len(channel) : channel[k] # Close => channel[k].id >= base[s]
  /\ phase[s] = "closed" => cursor[s] \in 1..Len(channel) /\ channel[cursor[s]] = Close

StreamInv(s) == Progress(s) /\ \E h \in Nat : SplitAt(s, h)

StreamsInv == RunInv /\ StreamTypeOK /\ \A s \in Streams : StreamInv(s)

\* No stream is open at first.
LEMMA StreamsInitial == StreamInit => StreamsInv
<1> SUFFICES ASSUME StreamInit PROVE StreamsInv
  OBVIOUS
<1>1. RunInv
  BY RunInitial DEF StreamInit
<1>2. StreamTypeOK
  <2>1. <<>> \in Seq(Event) /\ {} \in SUBSET Event
    BY EmptySeq
  <2> QED
    BY <2>1 DEF StreamInit, StreamTypeOK, Phase
<1>3. ASSUME NEW s \in Streams PROVE StreamInv(s)
  <2>1. /\ phase[s] = "idle" /\ since[s] = 0 /\ pending[s] = {} /\ cursor[s] = 0
        /\ got[s] = <<>> /\ base[s] = 0 /\ joined[s] = 0 /\ Len(log) = 0 /\ Len(channel) = 0
    BY DEF StreamInit, Init
  <2>2. Rows(s) = {}
    BY <2>1 DEF Rows
  <2>3. Progress(s)
    BY <2>1, <2>2 DEF Progress, Unfetched, Replaying
  <2>4. SplitAt(s, 0)
    BY <2>1, <2>2 DEF SplitAt
  <2> QED
    BY <2>3, <2>4 DEF StreamInv
<1> QED
  BY <1>1, <1>2, <1>3 DEF StreamsInv

\* The values of one stream, without its place.
Kept(s) ==
  /\ since'[s] = since[s] /\ pending'[s] = pending[s] /\ cursor'[s] = cursor[s]
  /\ got'[s] = got[s] /\ base'[s] = base[s] /\ joined'[s] = joined[s]

\* Rows that were fetched stay what they are while the table grows.
LEMMA RowsStay ==
  ASSUME RunInv, RunInv', Grows(log), StreamTypeOK, NEW s \in Streams,
         base'[s] = base[s], since'[s] = since[s], base[s] <= Len(log)
  PROVE  Rows(s)' = Rows(s)
<1>1. /\ Len(log) \in Nat /\ Len(log') \in Nat /\ Len(log) <= Len(log')
      /\ \A i \in 1..Len(log) : i \in 1..Len(log') /\ log'[i] = log[i]
  BY OldRowsStay DEF RunInv
<1>2. base[s] \in Nat
  BY DEF StreamTypeOK
<1>3. \A i \in 1..base[s] : log'[i] = log[i]
  BY <1>1, <1>2
<1> QED
  BY <1>3 DEF Rows

\* A stream that is sent nothing keeps the split of what it was sent.
LEMMA SplitStays ==
  ASSUME NEW s \in Streams, NEW h \in Nat, SplitAt(s, h), Rows(s)' = Rows(s),
         got'[s] = got[s], pending'[s] = pending[s], base'[s] = base[s],
         phase'[s] \in Replaying => h = Len(got[s]),
         phase'[s] = "listen" => \A i \in (h + 1)..Len(got[s]) :
           \E m \in 1..cursor'[s] : channel'[m] = got[s][i]
  PROVE  SplitAt(s, h)'
BY DEF SplitAt, Replaying

\* A stream that stands still, or breaks off, keeps what it has while the run goes on.
LEMMA StandingStill ==
  ASSUME RunInv, RunInv', StreamTypeOK, NEW s \in Streams, StreamInv(s), Kept(s),
         phase'[s] = phase[s] \/ phase'[s] \in {"broken", "timedOut"},
         Grows(log), Grows(channel),
         \/ UNCHANGED channel
         \/ pc = "publish" /\ channel' = Append(channel, current) /\ UNCHANGED log
         \/ /\ pc \notin {"done", "crashed"}
            /\ channel' = Append(channel, Close)
            /\ UNCHANGED log
  PROVE  StreamInv(s)'
<1> USE DEF Kept
<1>0. /\ base[s] \in Nat /\ joined[s] \in Nat /\ cursor[s] \in Nat
      /\ Progress(s) /\ base[s] <= Len(log) /\ cursor[s] <= Len(channel) /\ joined[s] <= cursor[s]
  BY DEF StreamTypeOK, StreamInv, Progress
<1>1. /\ Len(log) \in Nat /\ Len(log') \in Nat /\ Len(log) <= Len(log')
      /\ \A i \in 1..Len(log) : i \in 1..Len(log') /\ log'[i] = log[i]
  BY OldRowsStay DEF RunInv
<1>2. /\ Len(channel) \in Nat /\ Len(channel') \in Nat /\ Len(channel) <= Len(channel')
      /\ \A i \in 1..Len(channel) : i \in 1..Len(channel') /\ channel'[i] = channel[i]
  BY OldMessagesStay DEF RunInv
<1>3. Rows(s)' = Rows(s) /\ Delivered(s)' = Delivered(s)
  BY <1>0, RowsStay DEF Delivered
<1>4. phase'[s] \in {"broken", "timedOut"} \/ phase'[s] = phase[s]
  OBVIOUS
<1>5. \A k \in 1..cursor[s] : channel'[k] = channel[k]
  BY <1>0, <1>2
<1>6. phase'[s] = "listen" =>
        \A k \in (joined[s] + 1)..Len(channel') : channel'[k] # Close => channel'[k].id >= base[s]
  <2> SUFFICES ASSUME phase[s] = "listen", NEW k \in (joined[s] + 1)..Len(channel'), channel'[k] # Close
               PROVE  channel'[k].id >= base[s]
    BY <1>4
  <2>1. CASE k \in 1..Len(channel)
    <3>1. k \in (joined[s] + 1)..Len(channel) /\ channel'[k] = channel[k]
      BY <1>0, <1>2, <2>1
    <3>2. channel[k].id >= base[s]
      BY <1>0, <3>1 DEF Progress
    <3> QED
      BY <3>1, <3>2
  <2>2. CASE k \notin 1..Len(channel)
    <3>1. ~UNCHANGED channel /\ k > Len(channel)
      BY <1>0, <1>2, <2>2
    <3>2. PICK m \in {current, Close} : channel' = Append(channel, m) /\ (m = current => pc = "publish" /\ UNCHANGED log) 
      BY <3>1
    <3>3. m \in Event \cup {Close}
      BY DEF RunInv, TypeOK
    <3>4. k = Len(channel) + 1 /\ channel'[k] = m
      BY <1>2, <3>1, <3>2, <3>3, PublishedMessage DEF RunInv
    <3>5. m = current /\ pc = "publish" /\ log # <<>> /\ log[Len(log)] = current
      BY <3>2, <3>4 DEF RunInv, FeedInv
    <3>6. Len(log) \in 1..Len(log)
      BY <1>1, <3>5, EmptySeq DEF RunInv, TypeOK
    <3>7. current.id = Len(log)
      BY <3>5, <3>6 DEF RunInv, FeedInv
    <3> QED
      BY <1>0, <1>1, <3>4, <3>5, <3>7
  <2> QED
    BY <2>1, <2>2
<1>7. Progress(s)'
  <2>1. /\ phase'[s] \in Unfetched => got'[s] = <<>> /\ pending'[s] = {} /\ base'[s] = 0
        /\ phase'[s] \in Replaying => cursor'[s] = 0 /\ joined'[s] = 0
        /\ phase'[s] \in {"subscribe", "listen", "finished", "closed"} => pending'[s] = {}
    BY <1>0, <1>4 DEF Progress, Unfetched, Replaying
  <2>2. base'[s] <= Len(log') /\ joined'[s] <= cursor'[s] /\ cursor'[s] <= Len(channel')
    BY <1>0, <1>1, <1>2
  <2>3. /\ pending'[s] \subseteq Rows(s)'
        /\ Rows(s)' \subseteq Delivered(s)' \cup pending'[s]
    BY <1>0, <1>3 DEF Progress
  <2>4. \A k \in (joined[s] + 1)..cursor[s] : channel'[k] \in Delivered(s)' \cup {Close}
    BY <1>0, <1>3, <1>5 DEF Progress
  <2>5. phase'[s] = "closed" => cursor[s] \in 1..Len(channel') /\ channel'[cursor[s]] = Close
    BY <1>0, <1>2, <1>4, <1>5 DEF Progress
  <2> QED
    BY <1>6, <2>1, <2>2, <2>3, <2>4, <2>5 DEF Progress
<1>8. PICK h \in Nat : SplitAt(s, h)
  BY DEF StreamInv
<1>9. SplitAt(s, h)'
  <2>1. phase'[s] \in Replaying => h = Len(got[s])
    BY <1>4, <1>8 DEF SplitAt, Replaying
  <2>2. phase'[s] = "listen" => \A i \in (h + 1)..Len(got[s]) :
          \E m \in 1..cursor'[s] : channel'[m] = got[s][i]
    BY <1>4, <1>5, <1>8 DEF SplitAt
  <2> QED
    BY <1>3, <1>8, <2>1, <2>2, SplitStays
<1> QED
  BY <1>7, <1>9 DEF StreamInv

\* Opening a stream fetches nothing yet.
LEMMA OpenKept ==
  ASSUME StreamsInv, NEW s \in Streams, NEW last \in Resume, OpenStream(s, last)
  PROVE  StreamInv(s)'
<1>0. StreamTypeOK /\ RunInv /\ StreamInv(s)
  BY DEF StreamsInv
<1> USE DEF OpenStream
<1>1. UNCHANGED <<log, channel, pending, cursor, got, base, joined>>
  BY DEF ReadsRun
<1>2. phase[s] = "idle" /\ phase'[s] = "query"
  BY <1>0 DEF StreamTypeOK, Move
<1>3. /\ got[s] = <<>> /\ pending[s] = {} /\ base[s] = 0 /\ cursor[s] = 0 /\ joined[s] = 0
      /\ Progress(s)
  BY <1>0, <1>2 DEF StreamInv, Progress, Unfetched, Replaying
<1>4. Rows(s)' = {}
  BY <1>1, <1>3 DEF Rows
<1>5. Progress(s)'
  BY <1>1, <1>2, <1>3, <1>4 DEF Progress, Unfetched, Replaying
<1>6. SplitAt(s, 0)'
  BY <1>1, <1>2, <1>3, <1>4 DEF SplitAt
<1> QED
  BY <1>5, <1>6 DEF StreamInv

\* What is fetched is pending, and nothing was sent before.
LEMMA FetchKept ==
  ASSUME StreamsInv, NEW s \in Streams, FetchHistory(s), phase'[s] = "replay"
  PROVE  StreamInv(s)'
<1>0. StreamTypeOK /\ RunInv /\ StreamInv(s)
  BY DEF StreamsInv
<1>1. UNCHANGED <<log, channel, since, cursor, got, joined>>
  BY DEF FetchHistory, ReadsRun
<1>2. /\ phase[s] = "query" /\ pending'[s] = EventsAfter(since[s]) /\ base'[s] = Len(log)
  BY <1>0 DEF FetchHistory, StreamTypeOK, Break, Move
<1>3. /\ got[s] = <<>> /\ cursor[s] = 0 /\ joined[s] = 0 /\ Progress(s)
  BY <1>0, <1>2 DEF StreamInv, Progress, Unfetched, Replaying
<1>4. Rows(s)' = pending'[s]
  BY <1>1, <1>2 DEF Rows, EventsAfter
<1>5. Len(log) \in Nat
  BY <1>0, LogRows DEF RunInv
<1>6. Progress(s)'
  BY <1>1, <1>2, <1>3, <1>4, <1>5 DEF Progress, Unfetched, Replaying
<1>7. SplitAt(s, 0)'
  BY <1>1, <1>3 DEF SplitAt
<1> QED
  BY <1>6, <1>7 DEF StreamInv

\* Whoever sends the first of what is pending keeps the replay sorted.
LEMMA SendKept ==
  ASSUME StreamsInv, NEW s \in Streams, SendHistory(s)
  PROVE  StreamInv(s)'
<1>0. StreamTypeOK /\ RunInv /\ StreamInv(s)
  BY DEF StreamsInv
<1>1. UNCHANGED <<log, channel, phase, since, cursor, base, joined>>
  BY DEF SendHistory, ReadsRun
<1>2. PICK e \in pending[s] :
        /\ First(pending[s], e)
        /\ got' = [got EXCEPT ![s] = Append(got[s], e)]
        /\ pending' = [pending EXCEPT ![s] = pending[s] \ {e}]
  BY DEF SendHistory
<1>3. phase[s] = "replay" /\ Progress(s)
  BY <1>0 DEF SendHistory, StreamInv
<1>4. got'[s] = Append(got[s], e) /\ pending'[s] = pending[s] \ {e}
  BY <1>0, <1>2 DEF StreamTypeOK
<1>5. e \in Event /\ got[s] \in Seq(Event) /\ e \in Rows(s)
  BY <1>0, <1>2, <1>3 DEF StreamTypeOK, Progress
<1>6. /\ Len(got[s]) \in Nat /\ Len(got'[s]) = Len(got[s]) + 1
      /\ \A i \in 1..Len(got[s]) : got'[s][i] = got[s][i]
      /\ got'[s][Len(got[s]) + 1] = e
  BY <1>4, <1>5, AppendEntry, LenProperties
<1>7. Rows(s)' = Rows(s) /\ Delivered(s)' = Delivered(s) \cup {e}
  <2>1. Rows(s)' = Rows(s)
    BY <1>1 DEF Rows
  <2>2. 1..Len(got'[s]) = (1..Len(got[s])) \cup {Len(got[s]) + 1}
    BY <1>6
  <2>3. ASSUME NEW x PROVE x \in Delivered(s)' <=> x \in Delivered(s) \/ x = e
    BY <1>6, <2>2 DEF Delivered
  <2> QED
    BY <2>1, <2>3
<1>8. Progress(s)'
  BY <1>1, <1>3, <1>4, <1>7 DEF Progress, Unfetched, Replaying
<1>9. PICK h \in Nat : SplitAt(s, h)
  BY <1>0 DEF StreamInv
<1>10. h = Len(got[s])
  BY <1>3, <1>9 DEF SplitAt, Replaying
<1>11. \A i \in 1..h : /\ got[s][i] \in Rows(s) /\ got[s][i] \notin pending[s]
                       /\ got[s][i].seq <= e.seq /\ got[s][i] # e
  BY <1>2, <1>9 DEF SplitAt
<1>12. \A f \in pending[s] : e.seq <= f.seq
  BY <1>2 DEF First
<1>13. SplitAt(s, h + 1)'
  <2>1. h + 1 = Len(got'[s])
    BY <1>6, <1>10
  <2>2. \A i \in 1..(h + 1) : (i \in 1..h /\ got'[s][i] = got[s][i]) \/ (i = h + 1 /\ got'[s][i] = e)
    BY <1>6, <1>10
  <2>3. \A i \in 1..(h + 1) : got'[s][i] \in Rows(s) /\ got'[s][i] \notin pending'[s]
    BY <1>4, <1>5, <1>11, <2>2
  <2>4. ASSUME NEW i \in 1..(h + 1), NEW j \in 1..(h + 1), i < j
        PROVE  got'[s][i].seq <= got'[s][j].seq /\ got'[s][i] # got'[s][j]
    <3>1. i \in 1..h /\ got'[s][i] = got[s][i]
      BY <1>6, <1>10, <2>4
    <3>2. CASE j = h + 1
      BY <1>11, <2>2, <3>1, <3>2
    <3>3. CASE j \in 1..h
      BY <1>9, <2>2, <2>4, <3>1, <3>3 DEF SplitAt
    <3> QED
      BY <3>2, <3>3
  <2>5. \A i \in 1..(h + 1) : \A f \in pending'[s] : got'[s][i].seq <= f.seq
    BY <1>4, <1>9, <1>12, <2>2 DEF SplitAt
  <2>6. (h + 2)..Len(got'[s]) = {} /\ ((h + 1) + 1)..Len(got'[s]) = {}
    BY <2>1
  <2> QED
    BY <1>1, <1>3, <1>7, <2>1, <2>3, <2>4, <2>5, <2>6 DEF SplitAt, Replaying
<1>14. h + 1 \in Nat
  OBVIOUS
<1> QED
  BY <1>8, <1>13, <1>14 DEF StreamInv

\* The replay ends only when nothing is pending.
LEMMA CheckKept ==
  ASSUME StreamsInv, NEW s \in Streams, CheckStatus(s), phase'[s] \in {"finished", "subscribe"}
  PROVE  StreamInv(s)'
<1>0. StreamTypeOK /\ RunInv /\ StreamInv(s)
  BY DEF StreamsInv
<1>1. UNCHANGED <<log, channel, since, pending, cursor, got, base, joined>>
  BY DEF CheckStatus, ReadsRun
<1>2. phase[s] = "replay" /\ pending[s] = {} /\ Progress(s)
  BY <1>0 DEF CheckStatus, StreamInv
<1>3. Rows(s)' = Rows(s) /\ Delivered(s)' = Delivered(s)
  BY <1>1 DEF Rows, Delivered
<1>4. Progress(s)'
  BY <1>1, <1>2, <1>3 DEF Progress, Unfetched, Replaying
<1>5. PICK h \in Nat : SplitAt(s, h)
  BY <1>0 DEF StreamInv
<1>6. h = Len(got[s])
  BY <1>2, <1>5 DEF SplitAt, Replaying
<1>7. SplitAt(s, h)'
  BY <1>1, <1>3, <1>5, <1>6, SplitStays
<1> QED
  BY <1>4, <1>7 DEF StreamInv

\* Subscribing joins the channel at its end.
LEMMA SubscribeKept ==
  ASSUME StreamsInv, NEW s \in Streams, Subscribe(s), phase'[s] = "listen"
  PROVE  StreamInv(s)'
<1>0. StreamTypeOK /\ RunInv /\ StreamInv(s)
  BY DEF StreamsInv
<1>1. UNCHANGED <<log, channel, since, pending, got, base>>
  BY DEF Subscribe, ReadsRun
<1>2. /\ phase[s] = "subscribe" /\ Progress(s)
      /\ cursor'[s] = Len(channel) /\ joined'[s] = Len(channel)
  BY <1>0 DEF Subscribe, StreamTypeOK, StreamInv, JoinPoint, Break, Move
<1>3. Rows(s)' = Rows(s) /\ Delivered(s)' = Delivered(s) /\ Len(channel) \in Nat
  BY <1>0, <1>1, ChannelMessages DEF Rows, Delivered, RunInv
<1>4. (Len(channel) + 1)..Len(channel) = {}
  BY <1>3
<1>5. Progress(s)'
  BY <1>1, <1>2, <1>3, <1>4 DEF Progress, Unfetched, Replaying
<1>6. PICK h \in Nat : SplitAt(s, h)
  BY <1>0 DEF StreamInv
<1>7. h = Len(got[s]) /\ (h + 1)..Len(got[s]) = {}
  BY <1>2, <1>6 DEF SplitAt, Replaying
<1>8. SplitAt(s, h)'
  BY <1>1, <1>3, <1>6, <1>7, SplitStays
<1> QED
  BY <1>5, <1>8 DEF StreamInv

\* The parts of the split of a stream that has received a message.
LEMMA SplitReceived ==
  ASSUME NEW s \in Streams, NEW h \in Nat, Rows(s)' = Rows(s),
         pending'[s] = pending[s], base'[s] = base[s], phase'[s] = "listen",
         h \in 0..Len(got'[s]),
         \A i \in 1..h : got'[s][i] \in Rows(s) /\ got'[s][i] \notin pending[s],
         \A i, j \in 1..h : i < j => got'[s][i].seq <= got'[s][j].seq /\ got'[s][i] # got'[s][j],
         \A i \in 1..h : \A e \in pending[s] : got'[s][i].seq <= e.seq,
         \A i \in (h + 1)..Len(got'[s]) : got'[s][i].id >= base[s],
         \A i, j \in (h + 1)..Len(got'[s]) : i < j => got'[s][i].id < got'[s][j].id,
         \A i \in (h + 1)..Len(got'[s]) : \E m \in 1..cursor'[s] : channel'[m] = got'[s][i]
  PROVE  SplitAt(s, h)'
BY DEF SplitAt, Replaying

\* Receiving goes on in the channel by one message.
LEMMA ReceiveKept ==
  ASSUME StreamsInv, NEW s \in Streams, Receive(s)
  PROVE  StreamInv(s)'
<1>0. StreamTypeOK /\ RunInv /\ StreamInv(s)
  BY DEF StreamsInv
<1>1. UNCHANGED <<log, channel, since, pending, base, joined>>
  BY DEF Receive, ReadsRun
<1> DEFINE next == cursor[s] + 1
<1> DEFINE message == channel[next]
<1>2. /\ phase[s] = "listen" /\ Progress(s) /\ cursor[s] \in Nat /\ joined[s] \in Nat
      /\ cursor'[s] = next /\ next \in 1..Len(channel) /\ Len(channel) \in Nat
      /\ next = cursor[s] + 1 /\ message = channel[next]
  BY <1>0, ChannelMessages DEF Receive, StreamTypeOK, StreamInv, RunInv
<1> HIDE DEF next, message
<1>3. joined[s] <= cursor[s]
  BY <1>2 DEF Progress
<1>4. PICK h \in Nat : SplitAt(s, h)
  BY <1>0 DEF StreamInv
<1>5. Rows(s)' = Rows(s)
  BY <1>1 DEF Rows
<1>6. CASE message = Close
  <2>1. phase'[s] = "closed" /\ UNCHANGED got
    BY <1>0, <1>6, CloseIsNoEvent DEF Receive, StreamTypeOK, Move, next, message
  <2>2. Delivered(s)' = Delivered(s)
    BY <2>1 DEF Delivered
  <2>3. \A k \in (joined[s] + 1)..next : channel[k] \in Delivered(s) \cup {Close}
    <3>1. \A k \in (joined[s] + 1)..next : k \in (joined[s] + 1)..cursor[s] \/ k = next
      BY <1>2
    <3>2. \A k \in (joined[s] + 1)..cursor[s] : channel[k] \in Delivered(s) \cup {Close}
      BY <1>2 DEF Progress
    <3>3. channel[next] = Close
      BY <1>2, <1>6
    <3> QED
      BY <3>1, <3>2, <3>3
  <2>4. Progress(s)'
    BY <1>1, <1>2, <1>3, <1>5, <1>6, <2>1, <2>2, <2>3 DEF Progress, Unfetched, Replaying
  <2>5. SplitAt(s, h)'
    BY <1>1, <1>4, <1>5, <2>1, SplitStays DEF Replaying
  <2> QED
    BY <2>4, <2>5 DEF StreamInv
<1>7. CASE message # Close
  <2>1. /\ phase'[s] = "listen"
        /\ got' = [got EXCEPT ![s] = Append(got[s], message)]
    BY <1>2, <1>7 DEF Receive, next, message
  <2>2. got'[s] = Append(got[s], message) /\ got[s] \in Seq(Event) /\ message \in Event
    BY <1>0, <1>2, <1>7, <2>1, ChannelMessages DEF StreamTypeOK, RunInv
  <2>3. /\ Len(got[s]) \in Nat /\ Len(got'[s]) = Len(got[s]) + 1
        /\ \A i \in 1..Len(got[s]) : got'[s][i] = got[s][i]
        /\ got'[s][Len(got[s]) + 1] = message
    BY <2>2, AppendEntry, LenProperties
  <2>4. Delivered(s)' = Delivered(s) \cup {message}
    <3>1. 1..Len(got'[s]) = (1..Len(got[s])) \cup {Len(got[s]) + 1}
      BY <2>3
    <3>2. ASSUME NEW x PROVE x \in Delivered(s)' <=> x \in Delivered(s) \/ x = message
      BY <2>3, <3>1 DEF Delivered
    <3> QED
      BY <3>2
  <2>5. \A k \in (joined[s] + 1)..next : channel[k] \in Delivered(s)' \cup {Close}
    BY <1>2, <1>3, <2>4 DEF Progress
  <2>6. Progress(s)'
    BY <1>1, <1>2, <1>3, <1>5, <2>1, <2>4, <2>5 DEF Progress, Unfetched, Replaying
  <2>7. message.id >= base[s]
    BY <1>2, <1>3, <1>7 DEF Progress
  <2>8. \A m \in 1..cursor[s] : channel[m] # Close /\ channel[m].id < message.id
    <3>1. \A m \in 1..cursor[s] : m \in 1..Len(channel) /\ m < next
      BY <1>2
    <3>2. ChannelInv
      BY <1>0 DEF RunInv
    <3> QED
      BY <1>2, <1>7, <3>1, <3>2 DEF ChannelInv
  <2>9. h \in 0..Len(got[s])
    BY <1>4 DEF SplitAt
  <2>10. \A i \in (h + 1)..Len(got'[s]) :
           (i \in (h + 1)..Len(got[s]) /\ got'[s][i] = got[s][i]) \/ (i = Len(got[s]) + 1 /\ got'[s][i] = message)
    <3> SUFFICES ASSUME NEW i \in (h + 1)..Len(got'[s]), i # Len(got[s]) + 1
                 PROVE  i \in (h + 1)..Len(got[s]) /\ got'[s][i] = got[s][i]
      BY <2>3
    <3>1. i \in (h + 1)..Len(got[s]) /\ i \in 1..Len(got[s])
      BY <2>3, <2>9
    <3> QED
      BY <2>3, <3>1
  <2>11. \A i \in (h + 1)..Len(got[s]) :
           /\ got[s][i].id >= base[s]
           /\ \E m \in 1..cursor[s] : channel[m] = got[s][i]
    BY <1>2, <1>4 DEF SplitAt
  <2>12. \A i, j \in (h + 1)..Len(got[s]) : i < j => got[s][i].id < got[s][j].id
    BY <1>4 DEF SplitAt
  <2>13. \A i \in (h + 1)..Len(got[s]) : got[s][i].id < message.id
    BY <2>8, <2>11
  <2>14. ASSUME NEW i \in (h + 1)..Len(got'[s]), NEW j \in (h + 1)..Len(got'[s]), i < j
         PROVE  got'[s][i].id < got'[s][j].id
    <3>1. i \in (h + 1)..Len(got[s]) /\ got'[s][i] = got[s][i]
      <4>1. i # Len(got[s]) + 1
        BY <2>3, <2>14
      <4> QED
        BY <2>10, <4>1
    <3>2. CASE j = Len(got[s]) + 1
      BY <2>3, <2>13, <3>1, <3>2
    <3>3. CASE j \in (h + 1)..Len(got[s]) /\ got'[s][j] = got[s][j]
      BY <2>14, <2>12, <3>1, <3>3
    <3> QED
      BY <2>10, <3>2, <3>3
  <2>15. ASSUME NEW i \in (h + 1)..Len(got'[s])
         PROVE  \E m \in 1..next : channel[m] = got'[s][i]
    <3>1. CASE i = Len(got[s]) + 1
      <4>1. channel[next] = got'[s][i] /\ next \in 1..next
        BY <1>2, <2>3, <3>1
      <4> QED
        BY <4>1
    <3>2. CASE i \in (h + 1)..Len(got[s]) /\ got'[s][i] = got[s][i]
      <4>1. PICK m \in 1..cursor[s] : channel[m] = got[s][i]
        BY <2>11, <3>2
      <4>2. m \in 1..next
        BY <1>2
      <4> QED
        BY <3>2, <4>1, <4>2
    <3> QED
      BY <2>10, <3>1, <3>2
  <2>16. \A i \in (h + 1)..Len(got'[s]) : got'[s][i].id >= base[s]
    BY <2>7, <2>10, <2>11
  <2>17. \A i \in 1..h : got'[s][i] = got[s][i]
    BY <2>3, <2>9
  <2>18. h \in 0..Len(got'[s])
    BY <2>3, <2>9
  <2>19. /\ \A i \in 1..h : got'[s][i] \in Rows(s) /\ got'[s][i] \notin pending[s]
         /\ \A i \in 1..h : \A e \in pending[s] : got'[s][i].seq <= e.seq
    BY <1>4, <2>17 DEF SplitAt
  <2>20. \A i, j \in 1..h : i < j => got'[s][i].seq <= got'[s][j].seq /\ got'[s][i] # got'[s][j]
    BY <1>4, <2>17 DEF SplitAt
  <2>21. SplitAt(s, h)'
    <3>1. \A i, j \in (h + 1)..Len(got'[s]) : i < j => got'[s][i].id < got'[s][j].id
      BY <2>14
    <3>2. \A i \in (h + 1)..Len(got'[s]) : \E m \in 1..cursor'[s] : channel'[m] = got'[s][i]
      BY <1>1, <1>2, <2>15
    <3> QED
      BY <1>1, <1>5, <2>1, <2>16, <2>18, <2>19, <2>20, <3>1, <3>2, SplitReceived
  <2> QED
    BY <2>6, <2>21 DEF StreamInv
<1> QED
  BY <1>6, <1>7
-----------------------------------------------------------------------------
(* All streams *)

\* Every step keeps the types.
LEMMA StreamTypeStep ==
  ASSUME StreamsInv, [StreamNext]_<<runVars, streamVars>>
  PROVE  StreamTypeOK'
<1> USE DEF StreamsInv, StreamTypeOK
<1>0. /\ {"query", "replay", "subscribe", "listen", "finished", "closed", "timedOut", "broken"} \subseteq Phase
      /\ Len(log) \in Nat /\ Len(channel) \in Nat
  BY LogRows, ChannelMessages DEF Phase, Ended, RunInv
<1>1. CASE UNCHANGED streamVars
  BY <1>1 DEF streamVars
<1>2. CASE CrashAll
  BY <1>0, <1>2 DEF CrashAll
<1>3. ASSUME NEW s \in Streams, NEW last \in Resume, OpenStream(s, last) PROVE StreamTypeOK'
  BY <1>0, <1>3, StreamAssumption DEF OpenStream, Move
<1>4. ASSUME NEW s \in Streams, FetchHistory(s) PROVE StreamTypeOK'
  <2>1. EventsAfter(since[s]) \in SUBSET Event
    BY LogRows DEF EventsAfter, RunInv
  <2>2. pending' \in [Streams -> SUBSET Event] /\ base' \in [Streams -> Nat]
    BY <1>0, <1>4, <2>1 DEF FetchHistory
  <2>3. phase' \in [Streams -> Phase]
    BY <1>0, <1>4 DEF FetchHistory, Move, Break
  <2> QED
    BY <1>4, <2>2, <2>3 DEF FetchHistory
<1>5. ASSUME NEW s \in Streams, SendHistory(s) PROVE StreamTypeOK'
  <2>1. PICK e \in pending[s] :
          /\ got' = [got EXCEPT ![s] = Append(got[s], e)]
          /\ pending' = [pending EXCEPT ![s] = pending[s] \ {e}]
    BY <1>5 DEF SendHistory
  <2>2. Append(got[s], e) \in Seq(Event)
    BY AppendEntry
  <2>3. got' \in [Streams -> Seq(Event)] /\ pending' \in [Streams -> SUBSET Event]
    BY <2>1, <2>2
  <2> QED
    BY <1>5, <2>3 DEF SendHistory
<1>6. ASSUME NEW s \in Streams, CheckStatus(s) PROVE StreamTypeOK'
  BY <1>0, <1>6 DEF CheckStatus, Move, Break
<1>7. ASSUME NEW s \in Streams, Subscribe(s) PROVE StreamTypeOK'
  <2>1. cursor' \in [Streams -> Nat] /\ joined' \in [Streams -> Nat]
    BY <1>0, <1>7 DEF Subscribe, JoinPoint
  <2>2. phase' \in [Streams -> Phase]
    BY <1>0, <1>7 DEF Subscribe, Move, Break
  <2> QED
    BY <1>7, <2>1, <2>2 DEF Subscribe
<1>8. ASSUME NEW s \in Streams, Receive(s) PROVE StreamTypeOK'
  <2> DEFINE message == channel[cursor[s] + 1]
  <2>1. cursor' = [cursor EXCEPT ![s] = cursor[s] + 1] /\ cursor[s] + 1 \in 1..Len(channel)
    BY <1>0, <1>8 DEF Receive
  <2>2. cursor' \in [Streams -> Nat]
    BY <2>1
  <2>3. message \in Event \cup {Close}
    BY <2>1, ChannelMessages DEF RunInv
  <2>4. got' \in [Streams -> Seq(Event)]
    <3>1. CASE UNCHANGED got
      BY <3>1
    <3>2. CASE message # Close /\ got' = [got EXCEPT ![s] = Append(got[s], message)]
      <4>1. Append(got[s], message) \in Seq(Event)
        BY <2>3, <3>2, AppendEntry
      <4> QED
        BY <3>2, <4>1
    <3> QED
      BY <1>8, <3>1, <3>2 DEF Receive
  <2>5. phase' \in [Streams -> Phase]
    BY <1>0, <1>8 DEF Receive, Move
  <2> QED
    BY <1>8, <2>2, <2>4, <2>5 DEF Receive
<1>9. ASSUME NEW s \in Streams, Heartbeat(s) PROVE StreamTypeOK'
  BY <1>0, <1>9 DEF Heartbeat, AfterHeartbeat, Move
<1>10. ASSUME NEW s \in Streams, LoseSubscription(s) PROVE StreamTypeOK'
  BY <1>0, <1>10 DEF LoseSubscription, Break, Move
<1> QED
  BY <1>1, <1>2, <1>3, <1>4, <1>5, <1>6, <1>7, <1>8, <1>9, <1>10 DEF StreamNext, RunStep, StreamStep

\* The steps of the streams change nothing of the run but the count of faults.
LEMMA StreamOnlyReads ==
  ASSUME RunInv,
         \/ \E s \in Streams, last \in Resume : OpenStream(s, last)
         \/ \E s \in Streams : StreamStep(s)
  PROVE  ReadsRun /\ faults' \in Nat
BY DEF OpenStream, StreamStep, FetchHistory, SendHistory, CheckStatus, Subscribe, Receive, Heartbeat,
       LoseSubscription, Break, Fault, RunInv, TypeOK

\* A step of one stream leaves the others alone.
LEMMA OthersKept ==
  ASSUME StreamTypeOK, NEW s \in Streams, NEW t \in Streams, t # s,
         StreamStep(s) \/ \E last \in Resume : OpenStream(s, last)
  PROVE  Kept(t) /\ phase'[t] = phase[t]
BY DEF StreamTypeOK, Kept, StreamStep, OpenStream, FetchHistory, SendHistory, CheckStatus, Subscribe,
       Receive, LoseSubscription, Heartbeat, Break, Move

\* Where a stream's step does not take it further, it breaks off.
LEMMA OnwardOrOff ==
  ASSUME StreamTypeOK, NEW s \in Streams,
         FetchHistory(s) \/ CheckStatus(s) \/ Subscribe(s) \/ Heartbeat(s) \/ LoseSubscription(s)
  PROVE  \/ Kept(s) /\ phase'[s] \in {"broken", "timedOut"}
         \/ FetchHistory(s) /\ phase'[s] = "replay"
         \/ CheckStatus(s) /\ phase'[s] \in {"finished", "subscribe"}
         \/ Subscribe(s) /\ phase'[s] = "listen"
BY DEF StreamTypeOK, Kept, FetchHistory, CheckStatus, Subscribe, Heartbeat, AfterHeartbeat,
       LoseSubscription, Break, Move

\* Every step keeps the invariant, the run beside the streams included.
LEMMA StreamsStep ==
  ASSUME StreamsInv, [StreamNext]_<<runVars, streamVars>>
  PROVE  StreamsInv'
<1> USE DEF StreamsInv
<1>1. StreamTypeOK'
  BY StreamTypeStep
<1>2. ASSUME [Next]_vars,
             \A s \in Streams : Kept(s) /\ (phase'[s] = phase[s] \/ phase'[s] = "broken")
      PROVE  StreamsInv'
  <2>1. RunInv'
    BY <1>2, RunStays
  <2>2. \A s \in Streams : StreamInv(s)'
    BY <1>2, <2>1, RunGrows, WhoPublishes, StandingStill
  <2> QED
    BY <1>1, <2>1, <2>2
<1>3. ASSUME NEW s \in Streams, StreamStep(s) \/ \E last \in Resume : OpenStream(s, last)
      PROVE  StreamsInv'
  <2>1. ReadsRun /\ faults' \in Nat
    BY <1>3, StreamOnlyReads
  <2>2. RunInv'
    BY <2>1, RunOnlyRead
  <2>3. UNCHANGED <<log, channel>> /\ Grows(log) /\ Grows(channel)
    BY <2>1 DEF ReadsRun, Grows
  <2>4. ASSUME NEW t \in Streams, t # s PROVE StreamInv(t)'
    BY <1>3, <2>2, <2>3, <2>4, OthersKept, StandingStill
  <2>5. StreamInv(s)'
    <3>1. CASE Kept(s) /\ phase'[s] \in {"broken", "timedOut"}
      BY <2>2, <2>3, <3>1, StandingStill
    <3>2. CASE \E last \in Resume : OpenStream(s, last)
      BY <3>2, OpenKept
    <3>3. CASE SendHistory(s) \/ Receive(s)
      BY <3>3, SendKept, ReceiveKept
    <3>4. CASE \/ FetchHistory(s) \/ CheckStatus(s) \/ Subscribe(s) \/ Heartbeat(s)
               \/ LoseSubscription(s)
      BY <3>1, <3>4, OnwardOrOff, FetchKept, CheckKept, SubscribeKept
    <3> QED
      BY <1>3, <3>2, <3>3, <3>4 DEF StreamStep
  <2> QED
    BY <1>1, <2>2, <2>4, <2>5
<1>4. CASE RunStep \/ UNCHANGED <<runVars, streamVars>>
  <2>1. [Next]_vars /\ UNCHANGED streamVars
    BY <1>4 DEF RunStep, Next, runVars
  <2> QED
    BY <1>2, <2>1 DEF streamVars, Kept
<1>5. CASE CrashAll
  <2>1. [Next]_vars /\ UNCHANGED <<since, pending, cursor, got, base, joined>>
    BY <1>5 DEF CrashAll, Next
  <2>2. \A s \in Streams : phase'[s] = phase[s] \/ phase'[s] = "broken"
    BY <1>5 DEF CrashAll
  <2> QED
    BY <1>2, <2>1, <2>2 DEF Kept
<1> QED
  BY <1>3, <1>4, <1>5 DEF StreamNext

\* The invariant of the run and of every stream beside it.
THEOREM StreamInvariant == StreamSpec => []StreamsInv
BY StreamsInitial, StreamsStep, PTL DEF StreamSpec

\* Whatever a stream has sent, is about to send and has passed in the channel is
\* of its type.
THEOREM StreamTypeCorrect == StreamSpec => []StreamTypeOK
<1>1. StreamsInv => StreamTypeOK
  BY DEF StreamsInv
<1> QED
  BY <1>1, StreamInvariant, PTL

\* What the invariant says of a closed stream leaves no other loss.
LEMMA InvLosesLittle == StreamsInv => LostOnlyInTheGap
<1> SUFFICES ASSUME StreamsInv, NEW s \in Streams, phase[s] = "closed", NEW k \in 1..Len(channel),
                    channel[k] \notin Delivered(s) \cup {Close}
             PROVE  k <= joined[s] /\ (channel[k].id > base[s] \/ channel[k].seq <= since[s])
  BY DEF LostOnlyInTheGap
<1>1. /\ Progress(s) /\ Len(channel) \in Nat /\ joined[s] \in Nat /\ base[s] \in Nat /\ since[s] \in Nat
  BY ChannelMessages DEF StreamsInv, StreamInv, RunInv, StreamTypeOK
<1>2. cursor[s] \in 1..Len(channel) /\ channel[cursor[s]] = Close /\ pending[s] = {}
  BY <1>1 DEF Progress
<1>3. k <= cursor[s]
  BY <1>2 DEF StreamsInv, RunInv, ChannelInv
<1>4. k <= joined[s]
  BY <1>1, <1>2, <1>3 DEF Progress
<1>5. channel[k].id \in 1..Len(log) /\ log[channel[k].id] = channel[k] /\ channel[k].seq \in Nat
  BY ChannelMessages DEF StreamsInv, RunInv, ChannelInv, Event
<1>6. channel[k].id <= base[s] /\ channel[k].seq > since[s] => channel[k] \in Rows(s)
  BY <1>1, <1>5 DEF Rows
<1>7. Len(log) \in Nat
  BY LogRows DEF StreamsInv, RunInv
<1> QED
  BY <1>1, <1>2, <1>4, <1>5, <1>6, <1>7 DEF Progress

\* A stream that was told of the end lacks nothing but what fell between history and
\* subscription, or was not asked for.
THEOREM LostOnlyInTheGapHolds == StreamSpec => []LostOnlyInTheGap
BY InvLosesLittle, StreamInvariant, PTL

\* A sorted replay that holds the outcome ends with it.
LEMMA InvReplaysOutcome == StreamsInv => ReplayEndsWithOutcome
<1> SUFFICES ASSUME StreamsInv, NEW s \in Streams, phase[s] = "finished", base[s] = Len(log),
                    NEW e \in EventsAfter(since[s]), e.kind \in {"completed", "failed"}
             PROVE  got[s] # <<>> /\ got[s][Len(got[s])] = e
  BY DEF ReplayEndsWithOutcome
<1>1. /\ Progress(s) /\ since[s] \in Nat /\ Len(log) \in Nat /\ got[s] \in Seq(Event)
      /\ Len(got[s]) \in Nat
  BY LogRows, LenProperties DEF StreamsInv, StreamInv, RunInv, StreamTypeOK
<1>2. pending[s] = {} /\ e \in Delivered(s)
  BY <1>1 DEF Progress, Rows, EventsAfter
<1>3. PICK h \in Nat : SplitAt(s, h)
  BY DEF StreamsInv, StreamInv
<1>4. h = Len(got[s])
  BY <1>3 DEF SplitAt, Replaying
<1>5. PICK i \in 1..Len(got[s]) : got[s][i] = e
  BY <1>2 DEF Delivered
<1> DEFINE last == got[s][Len(got[s])]
<1>6. Len(got[s]) \in 1..h /\ i \in 1..h /\ last \in Rows(s) /\ (i < Len(got[s]) => e.seq <= last.seq)
  BY <1>1, <1>3, <1>4, <1>5 DEF SplitAt
<1>7. PICK x \in 1..Len(log) : log[x] = e /\ e.seq > since[s]
  BY DEF EventsAfter
<1>8. PICK y \in 1..Len(log) : log[y] = last
  BY <1>6 DEF Rows
<1> HIDE DEF last
<1>9. last.seq \in Nat /\ e.seq \in Nat
  <2>1. \A z \in 1..Len(log) : log[z].seq \in Nat
    BY LogRows DEF StreamsInv, RunInv
  <2> QED
    BY <1>7, <1>8, <2>1
<1>10. last # e => last.seq < e.seq
  <2>1. OutcomeSortsLast
    BY NumbersSort DEF StreamsInv, RunInv
  <2>2. x \in 1..Len(log) /\ log[x].kind \in {"completed", "failed"} /\ log[x].seq > 0
    BY <1>1, <1>7, <1>9
  <2>3. ASSUME last # e PROVE log[y].seq < log[x].seq
    BY <1>7, <1>8, <2>1, <2>2, <2>3 DEF OutcomeSortsLast
  <2> QED
    BY <1>7, <1>8, <2>3
<1>11. last = e
  <2>1. CASE i < Len(got[s])
    BY <1>6, <1>9, <1>10, <2>1
  <2>2. CASE i = Len(got[s])
    BY <1>5, <2>2 DEF last
  <2> QED
    BY <1>1, <2>1, <2>2
<1>12. got[s] # <<>>
  BY <1>1, <1>6, EmptySeq
<1> QED
  BY <1>11, <1>12 DEF last

\* A replay that sees the whole table ends with the outcome of the graph.
THEOREM ReplayEndsWithOutcomeHolds == StreamSpec => []ReplayEndsWithOutcome
BY InvReplaysOutcome, StreamInvariant, PTL

\* The members of a pair, for the provers.
LEMMA PairOf ==
  ASSUME NEW D, NEW p \in D \X D
  PROVE  p[1] \in D /\ p[2] \in D /\ p = <<p[1], p[2]>>
OBVIOUS

\* Two duplicates would be two messages from before the subscription.
LEMMA InvDuplicatesOnce == StreamsInv => AtMostOneDuplicate
<1> SUFFICES ASSUME StreamsInv, NEW s \in Streams
             PROVE  Cardinality({p \in (DOMAIN got[s]) \X (DOMAIN got[s]) :
                                   p[1] < p[2] /\ got[s][p[1]] = got[s][p[2]]}) <= 1
  BY DEF AtMostOneDuplicate
<1> DEFINE Pairs == {p \in (DOMAIN got[s]) \X (DOMAIN got[s]) :
                       p[1] < p[2] /\ got[s][p[1]] = got[s][p[2]]}
<1> DEFINE n == Len(got[s])
<1>1. got[s] \in Seq(Event) /\ n \in Nat /\ DOMAIN got[s] = 1..n
  BY LenProperties DEF StreamsInv, StreamTypeOK
<1>2. /\ \A i \in 1..n : got[s][i].id \in Nat
      /\ base[s] \in Nat /\ Len(log) \in Nat /\ base[s] <= Len(log)
  <2>1. \A i \in 1..n : got[s][i] \in Event
    BY <1>1, ElementOfSeq
  <2> QED
    BY <2>1, LogRows DEF StreamsInv, RunInv, StreamTypeOK, StreamInv, Progress, Event
<1>3. PICK h \in Nat : SplitAt(s, h)
  BY DEF StreamsInv, StreamInv
<1>4. /\ h \in 0..n
      /\ \A i, j \in 1..h : i < j => got[s][i] # got[s][j]
      /\ \A i \in (h + 1)..n : got[s][i].id >= base[s]
      /\ \A i, j \in (h + 1)..n : i < j => got[s][i].id < got[s][j].id
  BY <1>3 DEF SplitAt
<1>5. \A i \in 1..h : got[s][i].id <= base[s] /\ got[s][i] = log[got[s][i].id]
  <2> SUFFICES ASSUME NEW i \in 1..h
               PROVE  got[s][i].id <= base[s] /\ got[s][i] = log[got[s][i].id]
    OBVIOUS
  <2>1. PICK x \in 1..base[s] : got[s][i] = log[x]
    BY <1>3 DEF SplitAt, Rows
  <2>2. log[x].id = x
    BY <1>2 DEF StreamsInv, RunInv, FeedInv
  <2> QED
    BY <1>2, <2>1, <2>2
<1> HIDE DEF Pairs
\* One of a pair is the newest replayed row, and the other the same row from the
\* channel.
<1>6. ASSUME NEW p \in Pairs
      PROVE  /\ p = <<p[1], p[2]>>
             /\ p[1] \in 1..h /\ p[2] \in (h + 1)..n
             /\ got[s][p[1]].id = base[s] /\ got[s][p[2]].id = base[s]
  <2>1. p \in (DOMAIN got[s]) \X (DOMAIN got[s]) /\ p[1] < p[2] /\ got[s][p[1]] = got[s][p[2]]
    BY <1>6, Zenon DEF Pairs
  <2> DEFINE i == p[1]
             j == p[2]
  <2>2. i \in 1..n /\ j \in 1..n /\ p = <<i, j>>
    <3>1. i \in DOMAIN got[s] /\ j \in DOMAIN got[s] /\ p = <<i, j>>
      BY <2>1, PairOf
    <3> QED
      BY <1>1, <3>1
  <2>3. i < j /\ got[s][i] = got[s][j]
    BY <2>1
  <2> HIDE DEF i, j
  <2>4. i \in 1..h
    BY <1>2, <1>4, <2>2, <2>3
  <2>5. j \in (h + 1)..n
    BY <1>1, <1>4, <2>2, <2>3, <2>4
  <2>6. got[s][i].id = base[s] /\ got[s][j].id = base[s]
    BY <1>2, <1>4, <1>5, <2>2, <2>3, <2>4, <2>5
  <2> QED
    BY <2>2, <2>4, <2>5, <2>6 DEF i, j
<1>7. \A i, j \in 1..h : got[s][i].id = base[s] /\ got[s][j].id = base[s] => i = j
  <2> SUFFICES ASSUME NEW i \in 1..h, NEW j \in 1..h, got[s][i].id = base[s], got[s][j].id = base[s]
               PROVE  i = j
    OBVIOUS
  <2>1. got[s][i] = got[s][j]
    BY <1>5
  <2> QED
    BY <1>4, <2>1
<1>8. \A i, j \in (h + 1)..n : got[s][i].id = base[s] /\ got[s][j].id = base[s] => i = j
  BY <1>2, <1>4
<1>9. ASSUME NEW p \in Pairs, NEW q \in Pairs PROVE p = q
  <2>1. p[1] = q[1]
    BY <1>6, <1>7
  <2>2. p[2] = q[2]
    BY <1>6, <1>8
  <2>3. p = <<p[1], p[2]>> /\ q = <<q[1], q[2]>>
    BY <1>6
  <2> QED
    BY <2>1, <2>2, <2>3
<1>10. Cardinality(Pairs) <= 1
  <2>1. CASE Pairs = {}
    BY <2>1, FS_EmptySet
  <2>2. CASE Pairs # {}
    <3>1. PICK p \in Pairs : TRUE
      BY <2>2
    <3>2. Pairs = {p}
      BY <1>9, <3>1
    <3>3. Cardinality(Pairs) = 1
      BY <3>2, FS_Singleton, Zenon
    <3> QED
      BY <3>3
  <2> QED
    BY <2>1, <2>2
<1> QED
  BY <1>10 DEF Pairs

\* History and subscription overlap by one event at most.
THEOREM AtMostOneDuplicateHolds == StreamSpec => []AtMostOneDuplicate
BY InvDuplicatesOnce, StreamInvariant, PTL
==============================================================================
