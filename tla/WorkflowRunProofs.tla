-------------------------- MODULE WorkflowRunProofs --------------------------
(***************************************************************************)
(* What holds of WorkflowRun for every number of cancel requests, raw      *)
(* events and failing calls, and for both event tables; and that it        *)
(* implements RunLifecycle.                                                *)
(***************************************************************************)
EXTENDS WorkflowRun, SequenceTheorems, TLAPS

\* A finite table or channel with one more entry.
LEMMA AppendEntry ==
  ASSUME NEW S, NEW s \in Seq(S), NEW e \in S
  PROVE  /\ Append(s, e) \in Seq(S)
         /\ Len(Append(s, e)) = Len(s) + 1
         /\ \A i \in 1..Len(s) : Append(s, e)[i] = s[i]
         /\ Append(s, e)[Len(s) + 1] = e
BY AppendProperties

\* The closing mark cannot be taken for an event.
LEMMA CloseIsNoEvent == Close \notin Event
BY DEF Close, Event

\* Emitting puts a well-formed event in front of save_and_publish.
LEMMA NewEventType ==
  ASSUME TypeOK, NEW kind \in Kind, NEW seq \in Nat
  PROVE  NewEvent(kind, seq) \in Event
BY DEF TypeOK, NewEvent, Event

\* The types at first.
LEMMA TypeInit == Init => TypeOK
<1>1. ASSUME Init
      PROVE  /\ current \in Event
             /\ canceller \in [Cancellers -> {"idle", "refused", "checked", "accepted", "lost"}]
  BY <1>1 DEF Init, Event, Kind
<1>2. ASSUME Init PROVE canceled \in BOOLEAN /\ cancelled \in BOOLEAN
  BY <1>2 DEF Init
<1>3. ASSUME Init PROVE log \in Seq(Event) /\ channel \in Seq(Event \cup {Close})
  BY <1>3 DEF Init
<1>4. ASSUME Init PROVE status \in Status /\ pc \in PC /\ faults \in Nat
  BY <1>4 DEF Init, Status, PC
<1>5. ASSUME Init PROVE counter \in Nat /\ v3seq \in Nat /\ maxSeq \in Nat
  BY <1>5 DEF Init
<1>6. ASSUME Init
      PROVE  /\ after \in {"run", "stream", "finish", "mark_cancelled", "mark_failed"}
             /\ checker \in {"polling", "broken", "stopped"}
  BY <1>6 DEF Init
<1> QED
  BY <1>1, <1>2, <1>3, <1>4, <1>5, <1>6 DEF TypeOK

\* No step takes a variable out of its type.
LEMMA TypeStep ==
  ASSUME TypeOK, [Next]_vars
  PROVE  TypeOK'
<1> USE DEF TypeOK
<1>1. CASE CreateRunRecord
  BY <1>1 DEF CreateRunRecord, mapper, Status, PC
<1>2. CASE PrepareInput
  BY <1>2 DEF PrepareInput, row, mapper, PC
<1>3. CASE MarkRunning
  <2>1. NewEvent("started", 0) \in Event
    BY NewEventType DEF Kind
  <2> QED
    BY <1>3, <2>1 DEF MarkRunning, UpdateRunStatus, Emit, Fault, row, mapper, Status, PC
<1>4. CASE StartRunner
  BY <1>4 DEF StartRunner, row, mapper, PC
<1>5. ASSUME NEW raw \in RawEvent, MapRawEvent(raw) PROVE TypeOK'
  <2>1. EventSequence(raw) \in Nat /\ NextSequence(raw) \in Nat
    BY DEF EventSequence, NextSequence
  <2>2. counter' \in Nat /\ v3seq' \in Nat
    BY <1>5, <2>1 DEF MapRawEvent, TakeSequence
  <2>3. maxSeq' \in Nat
    BY <1>5, <2>1 DEF MapRawEvent, Larger
  <2>4. raw.kind # "none" => NewEvent(raw.kind, EventSequence(raw)) \in Event
    BY <1>5, <2>1, NewEventType DEF RawEvent, Kind, GraphKind
  <2> QED
    BY <1>5, <2>2, <2>3, <2>4 DEF MapRawEvent, Yield, Emit, row, PC
<1>6. ASSUME NEW outcome \in {"completed", "failed"}, EndStream(outcome) PROVE TypeOK'
  <2>1. NewEvent(outcome, OutcomeSequence) \in Event
    BY <1>6, NewEventType DEF Kind, Terminal, OutcomeSequence
  <2> QED
    BY <1>6, <2>1 DEF EndStream, Yield, Emit, row, mapper, PC
<1>7. CASE SaveEvent
  <2>1. Append(log, current) \in Seq(Event)
    BY AppendEntry
  <2>2. log' \in Seq(Event)
    BY <1>7, <2>1 DEF SaveEvent
  <2>3. pc' \in PC /\ faults' \in Nat
    BY <1>7 DEF SaveEvent, Raised, Fault, PC
  <2> QED
    BY <1>7, <2>2, <2>3 DEF SaveEvent, row, mapper
<1>8. CASE PublishEvent
  <2>1. Append(channel, current) \in Seq(Event \cup {Close})
    BY AppendEntry
  <2>2. channel' \in Seq(Event \cup {Close})
    BY <1>8, <2>1 DEF PublishEvent
  <2>3. pc' \in PC /\ faults' \in Nat
    BY <1>8 DEF PublishEvent, Raised, Fault, PC
  <2> QED
    BY <1>8, <2>2, <2>3 DEF PublishEvent, row, mapper
<1>9. CASE FinishRunner
  <2>1. NewEvent("cancelled", 0) \in Event
    BY NewEventType DEF Kind, Terminal
  <2> QED
    BY <1>9, <2>1 DEF FinishRunner, Emit, row, mapper, PC
<1>10. CASE MarkEnded
  BY <1>10 DEF MarkEnded, UpdateRunStatus, FinalStatus, Fault, row, mapper, Status, Terminal, PC
<1>11. CASE HandleException
  <2>1. NewEvent("failed", 0) \in Event
    BY NewEventType DEF Kind, Terminal
  <2> QED
    BY <1>11, <2>1 DEF HandleException, Emit, row, mapper, PC
<1>12. CASE MarkFailed
  BY <1>12 DEF MarkFailed, UpdateRunStatus, Fault, row, mapper, Status, Terminal, PC
<1>13. CASE CloseChannel
  <2>1. Append(channel, Close) \in Seq(Event \cup {Close})
    BY AppendEntry
  <2>2. channel' \in Seq(Event \cup {Close})
    BY <1>13, <2>1 DEF CloseChannel
  <2>3. pc' \in PC /\ faults' \in Nat
    BY <1>13 DEF CloseChannel, Fault, PC
  <2> QED
    BY <1>13, <2>2, <2>3 DEF CloseChannel, row, mapper
<1>14. CASE PollCancel
  <2>1. cancelled' \in BOOLEAN
    BY <1>14 DEF PollCancel
  <2>2. checker' \in {"polling", "broken", "stopped"} /\ faults' \in Nat
    BY <1>14 DEF PollCancel, Fault
  <2> QED
    BY <1>14, <2>1, <2>2 DEF PollCancel, row, mapper
<1>15. ASSUME NEW c \in Cancellers, ReadForCancel(c) PROVE TypeOK'
  BY <1>15 DEF ReadForCancel, row, mapper
<1>16. ASSUME NEW c \in Cancellers, CancelWorkflowRun(c) PROVE TypeOK'
  <2>1. canceled' \in BOOLEAN
    BY <1>16 DEF CancelWorkflowRun, row
  <2>2. status' \in Status /\ faults' \in Nat
    BY <1>16 DEF CancelWorkflowRun, Fault, row, Status, Terminal
  <2>3. canceller' \in [Cancellers -> {"idle", "refused", "checked", "accepted", "lost"}]
    BY <1>16 DEF CancelWorkflowRun
  <2> QED
    BY <1>16, <2>1, <2>2, <2>3 DEF CancelWorkflowRun, mapper
<1>17. CASE Crash
  <2>1. Append(channel, Close) \in Seq(Event \cup {Close})
    BY AppendEntry
  <2>2. channel' \in Seq(Event \cup {Close})
    BY <1>17, <2>1 DEF Crash, ClosesAtShutdown
  <2>3. pc' \in PC /\ faults' \in Nat
    BY <1>17 DEF Crash, Fault, PC
  <2> QED
    BY <1>17, <2>2, <2>3 DEF Crash, row, mapper
<1>18. CASE UNCHANGED vars
  BY <1>18 DEF vars
<1> QED
  BY <1>1, <1>2, <1>3, <1>4, <1>5, <1>6, <1>7, <1>8, <1>9, <1>10, <1>11,
     <1>12, <1>13, <1>14, <1>15, <1>16, <1>17, <1>18 DEF Next, Task

\* The rows, the channel and the program counters keep to their types whatever
\* fails and whoever cancels.
THEOREM TypeCorrect == Spec => []TypeOK
BY TypeInit, TypeStep, PTL DEF Spec
-----------------------------------------------------------------------------
(* Cancellation: the flag in the row is what the poller's flag, the cancelled
   event and the cancelled status all go back to. *)

CancelInv ==
  /\ cancelled => canceled
  /\ pc = "mark_cancelled" \/ after = "mark_cancelled" => cancelled
  /\ current.kind = "cancelled" => cancelled
  /\ Stored("cancelled") => cancelled
  /\ status = "cancelled" => canceled

\* A row that was not just written holds its kind; a new one brings its own.
LEMMA StoredAfterSave ==
  ASSUME TypeOK, NEW kind, log' = Append(log, current)
  PROVE  Stored(kind)' <=> Stored(kind) \/ current.kind = kind
<1>1. /\ Len(log') = Len(log) + 1
      /\ \A i \in 1..Len(log) : log'[i] = log[i]
      /\ log'[Len(log) + 1] = current
  BY AppendEntry DEF TypeOK
<1>2. Len(log) \in Nat
  BY LenProperties DEF TypeOK
<1> QED
  BY <1>1, <1>2 DEF Stored

\* The flag of the runner, the cancelled event on its way and the cancelled status
\* all go back to the canceled column, which nothing but a request writes.
LEMMA CancelInvariant == Spec => []CancelInv
<1>1. Init => CancelInv
  BY DEF Init, CancelInv, Stored
<1>2. ASSUME TypeOK, CancelInv, [Next]_vars PROVE CancelInv'
  <2> USE <1>2 DEF CancelInv
  <2>1. CASE CreateRunRecord
    BY <2>1 DEF CreateRunRecord, mapper, Stored
  <2>2. CASE PrepareInput
    BY <2>2 DEF PrepareInput, row, mapper, Stored
  <2>3. CASE MarkRunning
    BY <2>3 DEF MarkRunning, UpdateRunStatus, Emit, NewEvent, row, mapper, Stored
  <2>4. CASE StartRunner
    BY <2>4 DEF StartRunner, row, mapper, Stored
  <2>5. ASSUME NEW raw \in RawEvent, MapRawEvent(raw) PROVE CancelInv'
    <3>1. raw.kind # "cancelled"
      BY <2>5 DEF RawEvent
    <3> QED
      BY <2>5, <3>1 DEF MapRawEvent, Yield, Emit, NewEvent, row, Stored
  <2>6. ASSUME NEW outcome \in {"completed", "failed"}, EndStream(outcome) PROVE CancelInv'
    BY <2>6 DEF EndStream, Yield, Emit, NewEvent, row, mapper, Stored
  <2>7. CASE SaveEvent
    <3>1. Stored("cancelled")' => Stored("cancelled") \/ current.kind = "cancelled"
      BY <2>7, StoredAfterSave DEF SaveEvent, Stored
    <3> QED
      BY <2>7, <3>1 DEF SaveEvent, Raised, row, mapper
  <2>8. CASE PublishEvent
    BY <2>8 DEF PublishEvent, Raised, row, mapper, Stored
  <2>9. CASE FinishRunner
    BY <2>9 DEF FinishRunner, Emit, NewEvent, row, mapper, Stored
  <2>10. CASE MarkEnded
    BY <2>10 DEF MarkEnded, UpdateRunStatus, FinalStatus, row, mapper, Stored
  <2>11. CASE HandleException
    BY <2>11 DEF HandleException, Emit, NewEvent, row, mapper, Stored
  <2>12. CASE MarkFailed
    BY <2>12 DEF MarkFailed, UpdateRunStatus, row, mapper, Stored
  <2>13. CASE CloseChannel
    BY <2>13 DEF CloseChannel, row, mapper, Stored
  <2>14. CASE PollCancel
    BY <2>14 DEF PollCancel, IsWorkflowCancelled, row, mapper, Stored
  <2>15. ASSUME NEW c \in Cancellers, ReadForCancel(c) PROVE CancelInv'
    BY <2>15 DEF ReadForCancel, row, mapper, Stored
  <2>16. ASSUME NEW c \in Cancellers, CancelWorkflowRun(c) PROVE CancelInv'
    BY <2>16 DEF CancelWorkflowRun, row, mapper, Stored
  <2>17. CASE Crash
    BY <2>17 DEF Crash, row, mapper, Stored
  <2>18. CASE UNCHANGED vars
    BY <2>18 DEF vars, Stored
  <2> QED
    BY <1>2, <2>1, <2>2, <2>3, <2>4, <2>5, <2>6, <2>7, <2>8, <2>9, <2>10, <2>11,
       <2>12, <2>13, <2>14, <2>15, <2>16, <2>17, <2>18 DEF Next, Task
<1> QED
  BY <1>1, <1>2, TypeCorrect, PTL DEF Spec

\* Nobody but a cancel request makes a run look cancelled.
THEOREM CancelSound == Spec => []CancelledOnlyOnRequest
<1>1. CancelInv => CancelledOnlyOnRequest
  BY DEF CancelInv, CancelledOnlyOnRequest
<1> QED
  BY <1>1, CancelInvariant, PTL
-----------------------------------------------------------------------------
(* Numbering: rows stay at or below max_sequence until the one outcome event,
   which is one above it; after it only unnumbered rows follow. *)

IsOutcome(e) == e.kind \in {"completed", "failed"} /\ e.seq > 0

\* The stream is through: what is still to be saved carries no number.
PastStream ==
  \/ pc \in {"finish", "mark_cancelled", "mark_completed", "raised", "mark_failed",
             "close", "done", "crashed"}
  \/ pc = "publish" /\ after = "finish"
  \/ pc \in {"save", "publish"} /\ after \in {"mark_cancelled", "mark_failed"}

NumberInv ==
  /\ after \in {"run", "stream"} => ~ IsOutcome(current)
  /\ after \in {"mark_cancelled", "mark_failed"} => current.seq = 0
  /\ pc \in {"save", "publish"} /\ ~ IsOutcome(current) => current.seq <= maxSeq
  /\ pc \in {"save", "publish"} /\ IsOutcome(current) => current.seq = maxSeq + 1
  /\ \A i \in 1..Len(log) : ~ IsOutcome(log[i]) => log[i].seq <= maxSeq
  /\ \A i \in 1..Len(log) : IsOutcome(log[i]) => log[i].seq = maxSeq + 1 /\ PastStream
  /\ \A i, j \in 1..Len(log) : IsOutcome(log[i]) /\ IsOutcome(log[j]) => i = j

\* The event table is a finite sequence whose rows are events.
LEMMA LogRows ==
  ASSUME TypeOK
  PROVE  Len(log) \in Nat /\ \A i \in 1..Len(log) : log[i] \in Event /\ log[i].seq \in Nat
<1>1. Len(log) \in Nat /\ \A i \in 1..Len(log) : log[i] \in Event
  BY LenProperties, ElementOfSeq DEF TypeOK
<1> QED
  BY <1>1 DEF Event

\* No row has a number at first.
LEMMA NumberInit == Init => NumberInv
BY DEF Init, NumberInv, IsOutcome

\* No step stores a row at or above the outcome.
LEMMA NumberStep ==
  ASSUME TypeOK, NumberInv, [Next]_vars
  PROVE  NumberInv'
<1> USE DEF NumberInv, IsOutcome, PastStream
<1>1. CASE CreateRunRecord
  BY <1>1 DEF CreateRunRecord, mapper
<1>2. CASE PrepareInput
  BY <1>2 DEF PrepareInput, row, mapper
<1>3. CASE MarkRunning
  BY <1>3 DEF TypeOK, MarkRunning, UpdateRunStatus, Emit, NewEvent, row, mapper
<1>4. CASE StartRunner
  BY <1>4 DEF StartRunner, row, mapper
<1>5. ASSUME NEW raw \in RawEvent, MapRawEvent(raw) PROVE NumberInv'
  <2>1. \A i \in 1..Len(log) : ~ IsOutcome(log[i]) /\ log[i].seq <= maxSeq
    BY <1>5 DEF MapRawEvent
  <2>2. EventSequence(raw) \in Nat /\ maxSeq \in Nat
    BY DEF EventSequence, NextSequence, TypeOK
  <2>3. maxSeq' \in Nat /\ maxSeq <= maxSeq' /\ (raw.kind # "none" => EventSequence(raw) <= maxSeq')
    BY <1>5, <2>2 DEF MapRawEvent, Larger
  <2>4. \A i \in 1..Len(log) : log[i].seq <= maxSeq'
    BY <2>1, <2>2, <2>3, LogRows
  <2>5. raw.kind \notin {"completed", "failed"}
    BY <1>5 DEF RawEvent
  <2>6. log' = log
    BY <1>5 DEF MapRawEvent
  <2>7. \/ pc' = pc /\ current' = current /\ after' = after
        \/ pc' = "finish" /\ current' = current /\ after' = after
        \/ /\ pc' = "save" /\ after' = "stream"
           /\ current' = [id |-> Len(log) + 1, seq |-> EventSequence(raw), kind |-> raw.kind]
           /\ raw.kind # "none"
    BY <1>5 DEF MapRawEvent, Yield, Emit, NewEvent
  <2>8. pc = "stream"
    BY <1>5 DEF MapRawEvent
  <2> QED
    BY <2>1, <2>3, <2>4, <2>5, <2>6, <2>7, <2>8
<1>6. ASSUME NEW outcome \in {"completed", "failed"}, EndStream(outcome) PROVE NumberInv'
  BY <1>6 DEF EndStream, Yield, Emit, NewEvent, OutcomeSequence, row, mapper, TypeOK
<1>7. CASE SaveEvent
  <2>1. CASE log' = log
    BY <1>7, <2>1 DEF SaveEvent, Raised, row, mapper, TypeOK
  <2>2. CASE log' = Append(log, current) /\ pc' = "publish"
    <3>1. /\ Len(log') = Len(log) + 1
          /\ \A i \in 1..Len(log) : log'[i] = log[i]
          /\ log'[Len(log) + 1] = current
      BY <2>2, AppendEntry DEF TypeOK
    <3>2. Len(log) \in Nat
      BY LogRows
    <3>3. pc = "save" /\ UNCHANGED <<current, after, maxSeq>>
      BY <1>7 DEF SaveEvent, mapper
    <3>4. \A i \in 1..Len(log') : i \in 1..Len(log) \/ i = Len(log) + 1
      BY <3>1, <3>2
    <3>5. IsOutcome(current) => after = "finish" /\ \A i \in 1..Len(log) : ~ IsOutcome(log[i])
      BY <3>3 DEF TypeOK
    <3>6. (\E i \in 1..Len(log') : IsOutcome(log'[i])) => PastStream'
      BY <2>2, <3>1, <3>3, <3>4, <3>5
    <3> QED
      BY <2>2, <3>1, <3>2, <3>3, <3>4, <3>5, <3>6
  <2> QED
    BY <1>7, <2>1, <2>2 DEF SaveEvent
<1>8. CASE PublishEvent
  BY <1>8 DEF PublishEvent, Raised, row, mapper, TypeOK
<1>9. CASE FinishRunner
  BY <1>9 DEF FinishRunner, Emit, NewEvent, row, mapper, TypeOK
<1>10. CASE MarkEnded
  BY <1>10 DEF MarkEnded, row, mapper
<1>11. CASE HandleException
  BY <1>11 DEF HandleException, Emit, NewEvent, row, mapper, TypeOK
<1>12. CASE MarkFailed
  BY <1>12 DEF MarkFailed, row, mapper
<1>13. CASE CloseChannel
  BY <1>13 DEF CloseChannel, row, mapper
<1>14. CASE PollCancel
  BY <1>14 DEF PollCancel, row, mapper
<1>15. ASSUME NEW c \in Cancellers, ReadForCancel(c) PROVE NumberInv'
  BY <1>15 DEF ReadForCancel, row, mapper
<1>16. ASSUME NEW c \in Cancellers, CancelWorkflowRun(c) PROVE NumberInv'
  BY <1>16 DEF CancelWorkflowRun, row, mapper
<1>17. CASE Crash
  BY <1>17 DEF Crash, row, mapper
<1>18. CASE UNCHANGED vars
  BY <1>18 DEF vars
<1> QED
  BY <1>1, <1>2, <1>3, <1>4, <1>5, <1>6, <1>7, <1>8, <1>9, <1>10, <1>11,
     <1>12, <1>13, <1>14, <1>15, <1>16, <1>17, <1>18 DEF Next, Task

\* The numbers of the rows put the outcome last.
LEMMA NumbersSort == TypeOK /\ NumberInv => OutcomeSortsLast
BY LogRows DEF NumberInv, IsOutcome, OutcomeSortsLast, TypeOK

\* The outcome of the graph outranks every other row, whatever native and custom
\* events the graph emitted and whatever is stored after it.
THEOREM OutcomeNumbered == Spec => []OutcomeSortsLast
BY NumberInit, NumberStep, NumbersSort, TypeCorrect, PTL DEF Spec
-----------------------------------------------------------------------------
(* The last rows and the final status. *)

OutcomeStored == Stored("completed") \/ Stored("failed")

CompletedInv ==
  /\ after = "finish" => current.kind \in {"completed", "failed"}
  /\ pc = "publish" => Stored(current.kind)
  /\ pc = "finish" /\ ~ cancelled => OutcomeStored
  /\ pc = "mark_completed" => OutcomeStored /\ ~ Stored("cancelled")
  /\ status = "completed" =>
       pc \in {"close", "done", "crashed"} /\ OutcomeStored /\ ~ Stored("cancelled")

\* A completed row goes with a stored outcome and without a cancelled event.
THEOREM CompletedSound == Spec => []CompletedHasOutcome
<1>1. Init => CompletedInv /\ CancelInv
  BY DEF Init, CompletedInv, CancelInv, Stored
<1>2. ASSUME TypeOK, CancelInv, CompletedInv, [Next]_vars PROVE CompletedInv'
  <2> USE <1>2 DEF CompletedInv, OutcomeStored
  <2>1. CASE CreateRunRecord
    BY <2>1 DEF CreateRunRecord, mapper, Stored
  <2>2. CASE PrepareInput
    BY <2>2 DEF PrepareInput, row, mapper, Stored
  <2>3. CASE MarkRunning
    BY <2>3 DEF MarkRunning, UpdateRunStatus, Emit, NewEvent, row, mapper, Stored
  <2>4. CASE StartRunner
    BY <2>4 DEF StartRunner, row, mapper, Stored
  <2>5. ASSUME NEW raw \in RawEvent, MapRawEvent(raw) PROVE CompletedInv'
    BY <2>5 DEF MapRawEvent, Yield, Emit, NewEvent, row, Stored
  <2>6. ASSUME NEW outcome \in {"completed", "failed"}, EndStream(outcome) PROVE CompletedInv'
    BY <2>6 DEF EndStream, Yield, Emit, NewEvent, row, mapper, Stored
  <2>7. CASE SaveEvent
    <3>1. CASE log' = Append(log, current) /\ pc' = "publish"
      <4>1. \E i \in 1..Len(log') : log'[i].kind = current.kind
        <5>1. Len(log) \in Nat /\ Len(log') = Len(log) + 1 /\ log'[Len(log) + 1] = current
          BY <3>1, AppendEntry, LogRows DEF TypeOK
        <5> QED
          BY <5>1
      <4>2. current' = current /\ after' = after /\ status' = status /\ pc = "save"
        BY <2>7 DEF SaveEvent, row
      <4> QED
        BY <3>1, <4>1, <4>2 DEF Stored
    <3>2. CASE log' = log /\ pc' \in {"raised", "mark_failed"}
      BY <2>7, <3>2 DEF SaveEvent, row, Stored
    <3> QED
      BY <2>7, <3>1, <3>2 DEF SaveEvent, Raised
  <2>8. CASE PublishEvent
    BY <2>8 DEF PublishEvent, Raised, row, mapper, Stored, TypeOK
  <2>9. CASE FinishRunner
    BY <2>9 DEF FinishRunner, Emit, NewEvent, row, mapper, Stored, CancelInv
  <2>10. CASE MarkEnded
    BY <2>10 DEF MarkEnded, UpdateRunStatus, FinalStatus, row, mapper, Stored
  <2>11. CASE HandleException
    BY <2>11 DEF HandleException, Emit, NewEvent, row, mapper, Stored
  <2>12. CASE MarkFailed
    BY <2>12 DEF MarkFailed, UpdateRunStatus, row, mapper, Stored
  <2>13. CASE CloseChannel
    BY <2>13 DEF CloseChannel, row, mapper, Stored
  <2>14. CASE PollCancel
    BY <2>14 DEF PollCancel, row, mapper, Stored
  <2>15. ASSUME NEW c \in Cancellers, ReadForCancel(c) PROVE CompletedInv'
    BY <2>15 DEF ReadForCancel, row, mapper, Stored
  <2>16. ASSUME NEW c \in Cancellers, CancelWorkflowRun(c) PROVE CompletedInv'
    BY <2>16 DEF CancelWorkflowRun, row, mapper, Stored
  <2>17. CASE Crash
    BY <2>17 DEF Crash, row, mapper, Stored
  <2>18. CASE UNCHANGED vars
    BY <2>18 DEF vars, Stored
  <2> QED
    BY <1>2, <2>1, <2>2, <2>3, <2>4, <2>5, <2>6, <2>7, <2>8, <2>9, <2>10, <2>11,
       <2>12, <2>13, <2>14, <2>15, <2>16, <2>17, <2>18 DEF Next, Task
<1>3. CompletedInv => CompletedHasOutcome
  BY DEF CompletedInv, CompletedHasOutcome, OutcomeStored
<1> QED
  BY <1>1, <1>2, <1>3, CancelInvariant, TypeCorrect, PTL DEF Spec
-----------------------------------------------------------------------------
(* The close signal. *)

\* The channel is a finite sequence of events and closing marks.
LEMMA ChannelMessages ==
  ASSUME TypeOK
  PROVE  Len(channel) \in Nat /\ \A i \in 1..Len(channel) : channel[i] \in Event \cup {Close}
BY LenProperties, ElementOfSeq DEF TypeOK

\* Publishing leaves the earlier messages alone and puts the new one last.
LEMMA PublishedMessage ==
  ASSUME TypeOK, NEW m \in Event \cup {Close}, channel' = Append(channel, m)
  PROVE  /\ Len(channel) \in Nat
         /\ Len(channel') = Len(channel) + 1
         /\ \A i \in 1..Len(channel) : channel'[i] = channel[i]
         /\ channel'[Len(channel) + 1] = m
         /\ \A i \in 1..Len(channel') : i \in 1..Len(channel) \/ i = Len(channel) + 1
BY AppendEntry, ChannelMessages DEF TypeOK

SettleInv ==
  /\ ClosePublished => pc \in {"done", "crashed"}
  /\ pc = "crashed" => faults > 0
  /\ faults = 0 /\ pc \in {"close", "done"} => status \in Terminal

\* The close signal and the statuses around it.
LEMMA SettleInvariant == Spec => []SettleInv
<1>1. Init => SettleInv
  BY DEF Init, SettleInv, ClosePublished
<1>2. ASSUME TypeOK, SettleInv, [Next]_vars PROVE SettleInv'
  <2> USE <1>2 DEF SettleInv
  <2>1. CASE CreateRunRecord
    BY <2>1 DEF CreateRunRecord, mapper, ClosePublished
  <2>2. CASE PrepareInput
    BY <2>2 DEF PrepareInput, row, mapper, ClosePublished
  <2>3. CASE MarkRunning
    BY <2>3 DEF MarkRunning, UpdateRunStatus, Emit, NewEvent, row, mapper, ClosePublished
  <2>4. CASE StartRunner
    BY <2>4 DEF StartRunner, row, mapper, ClosePublished
  <2>5. ASSUME NEW raw \in RawEvent, MapRawEvent(raw) PROVE SettleInv'
    BY <2>5 DEF MapRawEvent, Yield, Emit, NewEvent, row, ClosePublished
  <2>6. ASSUME NEW outcome \in {"completed", "failed"}, EndStream(outcome) PROVE SettleInv'
    BY <2>6 DEF EndStream, Yield, Emit, NewEvent, row, mapper, ClosePublished
  <2>7. CASE SaveEvent
    BY <2>7 DEF SaveEvent, Raised, row, mapper, ClosePublished
  <2>8. CASE PublishEvent
    <3>1. ClosePublished' => ClosePublished
      <4>1. current # Close
        BY CloseIsNoEvent DEF TypeOK
      <4>2. CASE channel' = Append(channel, current)
        BY <4>1, <4>2, PublishedMessage DEF ClosePublished, TypeOK
      <4> QED
        BY <2>8, <4>2 DEF PublishEvent, ClosePublished
    <3> QED
      BY <2>8, <3>1 DEF PublishEvent, Raised, row, TypeOK, Fault
  <2>9. CASE FinishRunner
    BY <2>9 DEF FinishRunner, Emit, NewEvent, row, mapper, ClosePublished
  <2>10. CASE MarkEnded
    BY <2>10 DEF MarkEnded, UpdateRunStatus, FinalStatus, Terminal, ClosePublished, Fault, TypeOK
  <2>11. CASE HandleException
    BY <2>11 DEF HandleException, Emit, NewEvent, row, mapper, ClosePublished
  <2>12. CASE MarkFailed
    BY <2>12 DEF MarkFailed, UpdateRunStatus, Terminal, ClosePublished, Fault, TypeOK
  <2>13. CASE CloseChannel
    BY <2>13 DEF CloseChannel, row, Fault, TypeOK
  <2>14. CASE PollCancel
    BY <2>14 DEF PollCancel, Fault, TypeOK, row, ClosePublished
  <2>15. ASSUME NEW c \in Cancellers, ReadForCancel(c) PROVE SettleInv'
    BY <2>15 DEF ReadForCancel, row, mapper, ClosePublished
  <2>16. ASSUME NEW c \in Cancellers, CancelWorkflowRun(c) PROVE SettleInv'
    BY <2>16 DEF CancelWorkflowRun, Terminal, ClosePublished, Fault, TypeOK
  <2>17. CASE Crash
    BY <2>17 DEF Crash, Fault, TypeOK
  <2>18. CASE UNCHANGED vars
    BY <2>18 DEF vars, ClosePublished
  <2> QED
    BY <1>2, <2>1, <2>2, <2>3, <2>4, <2>5, <2>6, <2>7, <2>8, <2>9, <2>10, <2>11,
       <2>12, <2>13, <2>14, <2>15, <2>16, <2>17, <2>18 DEF Next, Task
<1> QED
  BY <1>1, <1>2, TypeCorrect, PTL DEF Spec

\* After __CLOSE__ the row is final, unless a call failed.
THEOREM CloseSettled == Spec => []SettledWhenClosed
<1>1. SettleInv => SettledWhenClosed
  BY DEF SettleInv, SettledWhenClosed
<1> QED
  BY <1>1, SettleInvariant, PTL

Told == \E i \in 1..Len(channel) : channel[i].kind \in Terminal

ToldInv ==
  faults = 0 /\ ~ UniqueSequence =>
    /\ pc \notin {"raised", "mark_failed"}
    /\ after # "mark_failed"
    /\ checker # "broken"
    /\ after \in {"finish", "mark_cancelled"} => current.kind \in Terminal
    /\ pc = "finish" /\ ~ cancelled => Told
    /\ pc \in {"mark_cancelled", "mark_completed", "close", "done"} => Told

\* A channel never closes before an outcome was published, unless a call failed
\* or the table refuses equal numbers.
THEOREM OutcomeAnnounced == Spec => []OutcomeBeforeClose
<1>1. Init => ToldInv
  BY DEF Init, ToldInv
<1>2. ASSUME TypeOK, ToldInv, [Next]_vars PROVE ToldInv'
  <2> USE <1>2 DEF ToldInv
  <2>1. CASE CreateRunRecord
    BY <2>1 DEF CreateRunRecord, mapper, Told, Fault, TypeOK
  <2>2. CASE PrepareInput
    BY <2>2 DEF PrepareInput, row, mapper, Told, Fault, TypeOK
  <2>3. CASE MarkRunning
    BY <2>3 DEF MarkRunning, UpdateRunStatus, Emit, NewEvent, row, mapper, Told, Fault, TypeOK
  <2>4. CASE StartRunner
    BY <2>4 DEF StartRunner, row, mapper, Told, Fault, TypeOK
  <2>5. ASSUME NEW raw \in RawEvent, MapRawEvent(raw) PROVE ToldInv'
    BY <2>5 DEF MapRawEvent, Yield, Emit, NewEvent, row, Told, Fault, TypeOK
  <2>6. ASSUME NEW outcome \in {"completed", "failed"}, EndStream(outcome) PROVE ToldInv'
    BY <2>6 DEF EndStream, Yield, Emit, NewEvent, Told, Terminal, row
  <2>7. CASE SaveEvent
    <3>1. CASE Fault
      BY <2>7, <3>1 DEF Fault, TypeOK
    <3>2. CASE ~ Fault
      BY <2>7, <3>2 DEF SaveEvent, Collides, Told, row
    <3> QED
      BY <3>1, <3>2
  <2>8. CASE PublishEvent
    <3>1. CASE channel' = Append(channel, current) /\ pc' = after
      <4>1. Told => Told'
        BY <3>1, PublishedMessage DEF Told, TypeOK
      <4>2. current.kind \in Terminal => Told'
        BY <3>1, PublishedMessage DEF Told, TypeOK
      <4> QED
        BY <2>8, <3>1, <4>1, <4>2 DEF PublishEvent, TypeOK
    <3>2. CASE Fault
      BY <2>8, <3>2 DEF Fault, TypeOK
    <3> QED
      BY <2>8, <3>1, <3>2 DEF PublishEvent
  <2>9. CASE FinishRunner
    BY <2>9 DEF FinishRunner, Emit, NewEvent, Told, Terminal, row
  <2>10. CASE MarkEnded
    BY <2>10 DEF MarkEnded, UpdateRunStatus, FinalStatus, row, mapper, Told, Fault, TypeOK
  <2>11. CASE HandleException
    BY <2>11 DEF HandleException, Emit, NewEvent, row, mapper, Told, Fault, TypeOK
  <2>12. CASE MarkFailed
    BY <2>12 DEF MarkFailed, UpdateRunStatus, row, mapper, Told, Fault, TypeOK
  <2>13. CASE CloseChannel
    <3>1. Told => Told'
      <4>1. CASE channel' = Append(channel, Close)
        BY <4>1, PublishedMessage DEF Told
      <4> QED
        BY <2>13, <4>1 DEF CloseChannel, Told
    <3> QED
      BY <2>13, <3>1 DEF CloseChannel, row, Fault, TypeOK
  <2>14. CASE PollCancel
    BY <2>14 DEF PollCancel, row, mapper, Told, Fault, TypeOK
  <2>15. ASSUME NEW c \in Cancellers, ReadForCancel(c) PROVE ToldInv'
    BY <2>15 DEF ReadForCancel, row, mapper, Told, Fault, TypeOK
  <2>16. ASSUME NEW c \in Cancellers, CancelWorkflowRun(c) PROVE ToldInv'
    BY <2>16 DEF CancelWorkflowRun, row, mapper, Told, Fault, TypeOK
  <2>17. CASE Crash
    BY <2>17 DEF Crash, row, mapper, Told, Fault, TypeOK
  <2>18. CASE UNCHANGED vars
    BY <2>18 DEF vars, Told, Fault, TypeOK
  <2> QED
    BY <1>2, <2>1, <2>2, <2>3, <2>4, <2>5, <2>6, <2>7, <2>8, <2>9, <2>10, <2>11,
       <2>12, <2>13, <2>14, <2>15, <2>16, <2>17, <2>18 DEF Next, Task
<1>3. ToldInv /\ SettleInv => OutcomeBeforeClose
  BY DEF ToldInv, SettleInv, OutcomeBeforeClose, Told
<1> QED
  BY <1>1, <1>2, <1>3, SettleInvariant, TypeCorrect, PTL DEF Spec
-----------------------------------------------------------------------------
(* The refinement: log and channel are the table and the feed of EventFeed. *)

FeedInv ==
  /\ \A i \in 1..Len(log) : log[i].id = i
  /\ \A k \in 1..Len(channel) : channel[k].id <= Len(log)
  /\ ClosePublished => pc \in {"done", "crashed"}
  /\ pc = "save" => current.id = Len(log) + 1
  /\ pc = "publish" =>
       /\ log # <<>>
       /\ log[Len(log)] = current
       /\ \A k \in 1..Len(channel) : channel[k] # current

\* The feed begins empty.
LEMMA FeedInit == Init => FeedInv
BY DEF Init, FeedInv, ClosePublished

\* No step publishes what is not the newest row.
LEMMA FeedStep ==
  ASSUME TypeOK, FeedInv, [Next]_vars
  PROVE  FeedInv'
<1> USE DEF FeedInv
<1>1. CASE CreateRunRecord
  BY <1>1 DEF CreateRunRecord, mapper, ClosePublished
<1>2. CASE PrepareInput
  BY <1>2 DEF PrepareInput, row, mapper, ClosePublished
<1>3. CASE MarkRunning
  BY <1>3 DEF MarkRunning, UpdateRunStatus, Emit, NewEvent, row, mapper, ClosePublished
<1>4. CASE StartRunner
  BY <1>4 DEF StartRunner, row, mapper, ClosePublished
<1>5. ASSUME NEW raw \in RawEvent, MapRawEvent(raw) PROVE FeedInv'
  BY <1>5 DEF MapRawEvent, Yield, Emit, NewEvent, row, ClosePublished
<1>6. ASSUME NEW outcome \in {"completed", "failed"}, EndStream(outcome) PROVE FeedInv'
  BY <1>6 DEF EndStream, Yield, Emit, NewEvent, row, mapper, ClosePublished
<1>7. CASE SaveEvent
  <2>1. CASE log' = Append(log, current) /\ pc' = "publish"
    <3>1. /\ Len(log) \in Nat
          /\ Len(log') = Len(log) + 1
          /\ \A i \in 1..Len(log) : log'[i] = log[i]
          /\ log'[Len(log) + 1] = current
      BY <2>1, AppendEntry, LogRows DEF TypeOK
    <3>2. /\ pc = "save" /\ current' = current /\ channel' = channel
          /\ current.id = Len(log) + 1
      BY <1>7 DEF SaveEvent
    <3>3. \A k \in 1..Len(channel) : channel[k].id \in Nat /\ channel[k] # current
      BY <3>1, <3>2, ChannelMessages DEF Event, Close
    <3>4. log' # <<>>
      BY <3>1
    <3>5. \A i \in 1..Len(log') : i \in 1..Len(log) \/ i = Len(log) + 1
      BY <3>1
    <3> QED
      BY <2>1, <3>1, <3>2, <3>3, <3>4, <3>5 DEF ClosePublished
  <2>2. CASE log' = log /\ pc' \in {"raised", "mark_failed"}
    BY <1>7, <2>2 DEF SaveEvent, ClosePublished
  <2> QED
    BY <1>7, <2>1, <2>2 DEF SaveEvent, Raised
<1>8. CASE PublishEvent
  <2>1. CASE channel' = Append(channel, current) /\ pc' = after
    <3>1. ~ ClosePublished
      BY <1>8 DEF PublishEvent
    <3>2. current # Close
      BY CloseIsNoEvent DEF TypeOK
    <3>3. ~ ClosePublished'
      BY <2>1, <3>1, <3>2, PublishedMessage DEF ClosePublished, TypeOK
    <3>4. current.id <= Len(log)
      BY <1>8, LogRows DEF PublishEvent
    <3> QED
      BY <1>8, <2>1, <3>3, <3>4, PublishedMessage DEF PublishEvent, TypeOK
  <2>2. CASE channel' = channel /\ pc' \in {"raised", "mark_failed"}
    BY <1>8, <2>2 DEF PublishEvent, ClosePublished
  <2> QED
    BY <1>8, <2>1, <2>2 DEF PublishEvent, Raised
<1>9. CASE FinishRunner
  BY <1>9 DEF FinishRunner, Emit, NewEvent, row, mapper, ClosePublished
<1>10. CASE MarkEnded
  BY <1>10 DEF MarkEnded, UpdateRunStatus, FinalStatus, row, mapper, ClosePublished
<1>11. CASE HandleException
  BY <1>11 DEF HandleException, Emit, NewEvent, row, mapper, ClosePublished
<1>12. CASE MarkFailed
  BY <1>12 DEF MarkFailed, UpdateRunStatus, row, mapper, ClosePublished
<1>13. CASE CloseChannel
  <2>1. CASE channel' = Append(channel, Close)
    BY <1>13, <2>1, PublishedMessage, LogRows DEF CloseChannel, Close
  <2> QED
    BY <1>13, <2>1 DEF CloseChannel
<1>14. CASE PollCancel
  BY <1>14 DEF PollCancel, row, mapper, ClosePublished
<1>15. ASSUME NEW c \in Cancellers, ReadForCancel(c) PROVE FeedInv'
  BY <1>15 DEF ReadForCancel, row, mapper, ClosePublished
<1>16. ASSUME NEW c \in Cancellers, CancelWorkflowRun(c) PROVE FeedInv'
  BY <1>16 DEF CancelWorkflowRun, row, mapper, ClosePublished
<1>17. CASE Crash
  <2>1. CASE channel' = Append(channel, Close)
    BY <1>17, <2>1, PublishedMessage, LogRows DEF Crash, Close
  <2>2. CASE channel' = channel
    BY <1>17, <2>2 DEF Crash, Working, ClosePublished
  <2> QED
    BY <1>17, <2>1, <2>2 DEF Crash, ClosesAtShutdown
<1>18. CASE UNCHANGED vars
  BY <1>18 DEF vars, ClosePublished
<1> QED
  BY <1>1, <1>2, <1>3, <1>4, <1>5, <1>6, <1>7, <1>8, <1>9, <1>10, <1>11,
     <1>12, <1>13, <1>14, <1>15, <1>16, <1>17, <1>18 DEF Next, Task

\* Ids number the rows, and the event about to be published is the newest row
\* and has not been published.
LEMMA FeedInvariant == Spec => []FeedInv
BY FeedInit, FeedStep, TypeCorrect, PTL DEF Spec

\* Every step of a run is a step of EventFeed or leaves table and feed alone.
THEOREM RunImplementsFeed == Spec => FeedSpec
<1>1. Init => Feed!Init
  BY DEF Init, Feed!Init
<1>2. ASSUME TypeOK, FeedInv, [Next]_vars
      PROVE  [Feed!Next]_<<log, channel>>
  <2> USE <1>2
  <2>1. CASE SaveEvent /\ log' # log
    <3>1. log' = Append(log, current) /\ channel' = channel /\ pc = "save"
      BY <2>1 DEF SaveEvent
    <3>2. /\ Len(log) \in Nat
          /\ Len(log') = Len(log) + 1
          /\ log'[Len(log')] = current
          /\ log' # <<>>
      BY <3>1, AppendEntry, LogRows DEF TypeOK
    <3>3. current \in Event /\ current.id = Len(log) + 1
      BY <3>1 DEF FeedInv, TypeOK
    <3>4. \A i \in 1..Len(log) : log[i] # current
      BY <3>2, <3>3 DEF FeedInv
    <3>5. ~ Feed!Closed
      BY <3>1 DEF FeedInv, ClosePublished, Feed!Closed
    <3> QED
      BY <3>1, <3>2, <3>3, <3>4, <3>5 DEF Feed!Next, Feed!Store
  <2>2. CASE PublishEvent /\ channel' # channel
    <3>1. channel' = Append(channel, current) /\ log' = log /\ pc = "publish"
      BY <2>2 DEF PublishEvent
    <3>2. ~ Feed!Closed
      BY <3>1 DEF FeedInv, ClosePublished, Feed!Closed
    <3> QED
      BY <3>1, <3>2 DEF FeedInv, Feed!Next, Feed!Announce, Feed!Announced
  <2>3. CASE CloseChannel /\ channel' # channel
    <3>1. channel' = Append(channel, Close) /\ log' = log /\ pc = "close"
      BY <2>3 DEF CloseChannel
    <3>2. ~ Feed!Closed
      BY <3>1 DEF FeedInv, ClosePublished, Feed!Closed
    <3> QED
      BY <3>1, <3>2 DEF Feed!Next, Feed!Shut
  <2>8. CASE Crash /\ channel' # channel
    <3>1. channel' = Append(channel, Close) /\ log' = log /\ pc \notin {"done", "crashed"}
      BY <2>8 DEF Crash, ClosesAtShutdown, Working
    <3>2. ~ Feed!Closed
      BY <3>1 DEF FeedInv, ClosePublished, Feed!Closed
    <3> QED
      BY <3>1, <3>2 DEF Feed!Next, Feed!Shut
  <2>4. ASSUME UNCHANGED <<log, channel>> PROVE [Feed!Next]_<<log, channel>>
    BY <2>4
  <2>5. (SaveEvent => channel' = channel) /\ (PublishEvent => log' = log)
    BY DEF SaveEvent, PublishEvent
  <2>6. (CloseChannel => log' = log) /\ (Crash => log' = log)
    BY DEF CloseChannel, Crash
  <2>7. \/ SaveEvent \/ PublishEvent \/ CloseChannel \/ Crash
        \/ UNCHANGED <<log, channel>>
    BY DEF Next, Task, vars, CreateRunRecord, PrepareInput, MarkRunning, StartRunner,
           MapRawEvent, EndStream, FinishRunner, MarkEnded, HandleException,
           MarkFailed, PollCancel, ReadForCancel, CancelWorkflowRun
  <2> QED
    BY <2>1, <2>2, <2>3, <2>4, <2>5, <2>6, <2>7, <2>8
<1> QED
  BY <1>1, <1>2, TypeCorrect, FeedInvariant, PTL DEF Spec, FeedSpec, Feed!Spec
-----------------------------------------------------------------------------
(* The run implements RunLifecycle: what the history service may assume of *)
(* the rows is true of every run.                                            *)

Numbered == \E i \in 1..Len(log) : IsOutcome(log[i])

InTransit == pc \in {"save", "publish"}

\* Nothing is stored before the started event.
Unstarted == pc \in {"idle", "prepare", "start"} \/ (pc = "save" /\ after = "run")

\* The graph's events come before the event that says that the run was cancelled.
Uncancelled ==
  \/ pc \in {"run", "stream", "finish", "mark_completed"}
  \/ InTransit /\ after \in {"run", "stream", "finish"}

\* Where the task goes on tells what the event on its way is.
TransitInv ==
  InTransit =>
    /\ after = "run" => current.kind = "started" /\ current.seq = 0
    /\ after = "stream" => current.kind \in GraphKind
    /\ after = "finish" => IsOutcome(current)
    /\ after = "mark_cancelled" => current.kind = "cancelled" /\ current.seq = 0
    /\ after = "mark_failed" => current.kind = "failed" /\ current.seq = 0

BoundsInv ==
  /\ v3seq + counter <= MaxRaw
  /\ maxSeq <= MaxRaw

RowInv ==
  /\ status = "none" <=> pc = "idle"
  /\ \A c \in Cancellers : canceller[c] = "checked" => status # "none"

RecordInv ==
  /\ Unstarted => log = <<>>
  /\ Uncancelled => ~ Stored("cancelled")
  /\ (pc = "publish" /\ after = "finish") \/ (pc = "finish" /\ ~ cancelled)
       \/ pc = "mark_completed" => Numbered
  /\ (pc = "publish" /\ after = "mark_cancelled") \/ pc = "mark_cancelled" => Stored("cancelled")

LifeInv == TypeOK /\ NumberInv /\ CancelInv /\ TransitInv /\ BoundsInv /\ RowInv /\ RecordInv

-----------------------------------------------------------------------------
\* The numbers stay within the raw events of the graph.
LEMMA BoundsStep ==
  ASSUME TypeOK, BoundsInv, [Next]_vars
  PROVE  BoundsInv'
<1>1. ASSUME NEW raw \in RawEvent, MapRawEvent(raw) PROVE BoundsInv'
  <2>1. /\ counter \in Nat /\ v3seq \in Nat /\ maxSeq \in Nat /\ MaxRaw \in Nat
        /\ v3seq + counter < MaxRaw
    BY <1>1, RunAssumption DEF TypeOK, MapRawEvent
  <2>2. /\ NextSequence(raw) <= MaxRaw /\ EventSequence(raw) <= MaxRaw
    BY <2>1 DEF NextSequence, EventSequence
  <2>3. v3seq' + counter' <= MaxRaw
    BY <1>1, <2>1 DEF MapRawEvent, TakeSequence, NextSequence
  <2>4. maxSeq' = maxSeq \/ maxSeq' = Larger(maxSeq, EventSequence(raw))
    BY <1>1 DEF MapRawEvent
  <2> QED
    BY <2>1, <2>2, <2>3, <2>4 DEF BoundsInv, Larger
<1>2. CASE UNCHANGED mapper
  BY <1>2 DEF mapper, BoundsInv
<1>3. UNCHANGED mapper \/ \E raw \in RawEvent : MapRawEvent(raw)
  BY DEF Next, Task, vars, CreateRunRecord, PrepareInput, MarkRunning, StartRunner, EndStream,
         SaveEvent, PublishEvent, FinishRunner, MarkEnded, HandleException, MarkFailed,
         CloseChannel, PollCancel, ReadForCancel, CancelWorkflowRun, Crash, mapper
<1> QED
  BY <1>1, <1>2, <1>3

\* The row exists from the POST on, and a request that found it can cancel it.
LEMMA RowStep ==
  ASSUME TypeOK, RowInv, [Next]_vars
  PROVE  RowInv'
<1> USE DEF RowInv
<1>1. CASE CreateRunRecord
  BY <1>1 DEF CreateRunRecord
<1>2. CASE PrepareInput
  BY <1>2 DEF PrepareInput, row
<1>3. CASE MarkRunning
  BY <1>3 DEF MarkRunning, UpdateRunStatus, Emit, NewEvent, row
<1>4. CASE StartRunner
  BY <1>4 DEF StartRunner, row
<1>5. ASSUME NEW raw \in RawEvent, MapRawEvent(raw) PROVE RowInv'
  BY <1>5 DEF MapRawEvent, Yield, Emit, row
<1>6. ASSUME NEW outcome \in {"completed", "failed"}, EndStream(outcome) PROVE RowInv'
  BY <1>6 DEF EndStream, Yield, Emit, row
<1>7. CASE SaveEvent
  BY <1>7 DEF SaveEvent, Raised, row
<1>8. CASE PublishEvent
  BY <1>8 DEF PublishEvent, Raised, row, TypeOK
<1>9. CASE FinishRunner
  BY <1>9 DEF FinishRunner, Emit, row
<1>10. CASE MarkEnded
  BY <1>10 DEF MarkEnded, UpdateRunStatus, FinalStatus, row
<1>11. CASE HandleException
  BY <1>11 DEF HandleException, Emit, row
<1>12. CASE MarkFailed
  BY <1>12 DEF MarkFailed, UpdateRunStatus, row
<1>13. CASE CloseChannel
  BY <1>13 DEF CloseChannel, row
<1>14. CASE PollCancel
  BY <1>14 DEF PollCancel, row
<1>15. ASSUME NEW c \in Cancellers, ReadForCancel(c) PROVE RowInv'
  BY <1>15 DEF ReadForCancel, row, TypeOK
<1>16. ASSUME NEW c \in Cancellers, CancelWorkflowRun(c) PROVE RowInv'
  BY <1>16 DEF CancelWorkflowRun, row, TypeOK
<1>17. CASE Crash
  BY <1>17 DEF Crash, Working, row
<1>18. CASE UNCHANGED vars
  BY <1>18 DEF vars
<1> QED
  BY <1>1, <1>2, <1>3, <1>4, <1>5, <1>6, <1>7, <1>8, <1>9, <1>10, <1>11,
     <1>12, <1>13, <1>14, <1>15, <1>16, <1>17, <1>18 DEF Next, Task

\* Every event is emitted for the place the task goes on from.
LEMMA TransitStep ==
  ASSUME TypeOK, NumberInv, TransitInv, [Next]_vars
  PROVE  TransitInv'
<1> USE DEF TransitInv, InTransit, IsOutcome
<1>1. CASE CreateRunRecord
  BY <1>1 DEF CreateRunRecord
<1>2. CASE PrepareInput
  BY <1>2 DEF PrepareInput
<1>3. CASE MarkRunning
  BY <1>3 DEF MarkRunning, Emit, NewEvent
<1>4. CASE StartRunner
  BY <1>4 DEF StartRunner
<1>5. ASSUME NEW raw \in RawEvent, MapRawEvent(raw) PROVE TransitInv'
  <2>1. raw.kind # "none" => raw.kind \in GraphKind
    BY DEF RawEvent, GraphKind
  <2> QED
    BY <1>5, <2>1 DEF MapRawEvent, Yield, Emit, NewEvent
<1>6. ASSUME NEW outcome \in {"completed", "failed"}, EndStream(outcome) PROVE TransitInv'
  <2>1. OutcomeSequence > 0
    BY DEF OutcomeSequence, TypeOK
  <2> QED
    BY <1>6, <2>1 DEF EndStream, Yield, Emit, NewEvent
<1>7. CASE SaveEvent
  BY <1>7 DEF SaveEvent, Raised
<1>8. CASE PublishEvent
  BY <1>8 DEF PublishEvent, Raised, TypeOK
<1>9. CASE FinishRunner
  BY <1>9 DEF FinishRunner, Emit, NewEvent
<1>10. CASE MarkEnded
  BY <1>10 DEF MarkEnded
<1>11. CASE HandleException
  BY <1>11 DEF HandleException, Emit, NewEvent
<1>12. CASE MarkFailed
  BY <1>12 DEF MarkFailed
<1>13. CASE CloseChannel
  BY <1>13 DEF CloseChannel
<1>14. CASE PollCancel
  BY <1>14 DEF PollCancel
<1>15. ASSUME NEW c \in Cancellers, ReadForCancel(c) PROVE TransitInv'
  BY <1>15 DEF ReadForCancel
<1>16. ASSUME NEW c \in Cancellers, CancelWorkflowRun(c) PROVE TransitInv'
  BY <1>16 DEF CancelWorkflowRun
<1>17. CASE Crash
  BY <1>17 DEF Crash
<1>18. CASE UNCHANGED vars
  BY <1>18 DEF vars
<1> QED
  BY <1>1, <1>2, <1>3, <1>4, <1>5, <1>6, <1>7, <1>8, <1>9, <1>10, <1>11,
     <1>12, <1>13, <1>14, <1>15, <1>16, <1>17, <1>18 DEF Next, Task

\* A new row adds itself to what is stored.
LEMMA NewRow ==
  ASSUME TypeOK, log' = Append(log, current)
  PROVE  /\ Numbered' <=> Numbered \/ IsOutcome(current)
         /\ \A kind : Stored(kind)' <=> Stored(kind) \/ current.kind = kind
<1>1. /\ Len(log) \in Nat /\ Len(log') = Len(log) + 1
      /\ \A i \in 1..Len(log) : log'[i] = log[i]
      /\ log'[Len(log) + 1] = current
  BY AppendEntry, LogRows DEF TypeOK
<1>2. \A i \in 1..Len(log') : i \in 1..Len(log) \/ i = Len(log) + 1
  BY <1>1
<1>3. Len(log) + 1 \in 1..Len(log') /\ \A i \in 1..Len(log) : i \in 1..Len(log')
  BY <1>1
<1> QED
  BY <1>1, <1>2, <1>3 DEF Numbered, Stored, IsOutcome

\* What is stored when: nothing before the start, no cancelled event before the
\* runner is through, and the outcome or that event before the final status.
LEMMA RecordStep ==
  ASSUME TypeOK, NumberInv, CancelInv, TransitInv, RecordInv, [Next]_vars
  PROVE  RecordInv'
<1> USE DEF RecordInv, Unstarted, Uncancelled, InTransit
<1>0. log' = log => (Numbered' <=> Numbered) /\ (Stored("cancelled")' <=> Stored("cancelled"))
  BY DEF Numbered, Stored, IsOutcome
<1>1. CASE CreateRunRecord
  BY <1>0, <1>1 DEF CreateRunRecord
<1>2. CASE PrepareInput
  BY <1>0, <1>2 DEF PrepareInput
<1>3. CASE MarkRunning
  <2>1. log = <<>> => ~ Stored("cancelled")
    BY DEF Stored
  <2> QED
    BY <1>0, <1>3, <2>1 DEF MarkRunning, Emit
<1>4. CASE StartRunner
  BY <1>0, <1>4 DEF StartRunner
<1>5. ASSUME NEW raw \in RawEvent, MapRawEvent(raw) PROVE RecordInv'
  BY <1>0, <1>5 DEF MapRawEvent, Yield, Emit
<1>6. ASSUME NEW outcome \in {"completed", "failed"}, EndStream(outcome) PROVE RecordInv'
  BY <1>0, <1>6 DEF EndStream, Yield, Emit
<1>7. CASE SaveEvent
  <2>1. CASE log' = Append(log, current) /\ pc' = "publish"
    <3>1. Stored("cancelled")' <=> Stored("cancelled") \/ current.kind = "cancelled"
      BY <2>1, NewRow
    <3>2. Numbered' <=> Numbered \/ IsOutcome(current)
      BY <2>1, NewRow
    <3>3. after \in {"run", "stream", "finish"} => current.kind # "cancelled"
      BY <1>7 DEF SaveEvent, TransitInv, IsOutcome, GraphKind
    <3>4. pc = "save" /\ after' = after /\ current' = current
      BY <1>7 DEF SaveEvent
    <3> QED
      BY <2>1, <3>1, <3>2, <3>3, <3>4 DEF TransitInv
  <2>2. CASE log' = log /\ pc' \in {"raised", "mark_failed"}
    BY <1>0, <1>7, <2>2
  <2> QED
    BY <1>7, <2>1, <2>2 DEF SaveEvent, Raised
<1>8. CASE PublishEvent
  BY <1>0, <1>8 DEF PublishEvent, Raised, TypeOK
<1>9. CASE FinishRunner
  BY <1>0, <1>9 DEF FinishRunner, Emit, CancelInv
<1>10. CASE MarkEnded
  BY <1>0, <1>10 DEF MarkEnded
<1>11. CASE HandleException
  BY <1>0, <1>11 DEF HandleException, Emit
<1>12. CASE MarkFailed
  BY <1>0, <1>12 DEF MarkFailed
<1>13. CASE CloseChannel
  BY <1>0, <1>13 DEF CloseChannel
<1>14. CASE PollCancel
  BY <1>0, <1>14 DEF PollCancel
<1>15. ASSUME NEW c \in Cancellers, ReadForCancel(c) PROVE RecordInv'
  BY <1>0, <1>15 DEF ReadForCancel
<1>16. ASSUME NEW c \in Cancellers, CancelWorkflowRun(c) PROVE RecordInv'
  BY <1>0, <1>16 DEF CancelWorkflowRun
<1>17. CASE Crash
  BY <1>0, <1>17 DEF Crash
<1>18. CASE UNCHANGED vars
  BY <1>0, <1>18 DEF vars
<1> QED
  BY <1>1, <1>2, <1>3, <1>4, <1>5, <1>6, <1>7, <1>8, <1>9, <1>10, <1>11,
     <1>12, <1>13, <1>14, <1>15, <1>16, <1>17, <1>18 DEF Next, Task

\* What the rows and the position of the task say of each other.
LEMMA LifeInvariant == Spec => []LifeInv
<1>1. Spec => []NumberInv
  BY NumberInit, NumberStep, TypeCorrect, PTL DEF Spec
<1>2. Init => TransitInv /\ BoundsInv /\ RowInv /\ RecordInv
  <2>1. Init => BoundsInv
    BY RunAssumption DEF Init, BoundsInv
  <2> QED
    BY <2>1 DEF Init, TransitInv, InTransit, RowInv, RecordInv, Unstarted, Uncancelled, Stored
<1> QED
  BY <1>1, <1>2, TypeCorrect, CancelInvariant, TransitStep, BoundsStep, RowStep, RecordStep, PTL
  DEF Spec, LifeInv
-----------------------------------------------------------------------------
(* The refinement *)

ShownRows == {[seq |-> log[i].seq, kind |-> log[i].kind] : i \in 1..Len(log)}

Over == pc \in {"close", "done", "crashed", "abandoned"}

Shown == [status |-> status, canceled |-> canceled, stored |-> ShownRows, over |-> Over]

\* What RunLifecycle reads of the stored events, in terms of the table.
LEMMA ReadRows ==
  ASSUME TypeOK
  PROVE  /\ log = <<>> => Shown.stored = {}
         /\ Lifecycle!Outcomes # {} <=> Numbered
         /\ Lifecycle!OfKind({"cancelled"}) # {} <=> Stored("cancelled")
         /\ \A n : (\A i \in 1..Len(log) : log[i].seq < n) => Lifecycle!Beyond(n)
<1>1. \A e : e \in ShownRows <=> \E i \in 1..Len(log) : e = [seq |-> log[i].seq, kind |-> log[i].kind]
  BY DEF ShownRows
<1>2. log = <<>> => Shown.stored = {}
  BY <1>1 DEF Shown
<1>3. \A e : e \in Lifecycle!OfKind({"cancelled"}) <=> e \in ShownRows /\ e.kind = "cancelled"
  BY DEF Lifecycle!OfKind, ShownRows
<1>4. Lifecycle!OfKind({"cancelled"}) # {} <=> Stored("cancelled")
  <2>1. Lifecycle!OfKind({"cancelled"}) # {} <=> \E e : e \in ShownRows /\ e.kind = "cancelled"
    BY <1>3
  <2>2. ASSUME NEW e \in ShownRows, e.kind = "cancelled" PROVE Stored("cancelled")
    BY <1>1, <2>2 DEF Stored
  <2>3. ASSUME NEW i \in 1..Len(log), log[i].kind = "cancelled"
        PROVE  \E e : e \in ShownRows /\ e.kind = "cancelled"
    <3>1. [seq |-> log[i].seq, kind |-> log[i].kind] \in ShownRows
      BY DEF ShownRows
    <3> QED
      BY <2>3, <3>1
  <2> QED
    BY <2>1, <2>2, <2>3 DEF Stored
<1>5. \A e : e \in Lifecycle!Outcomes <=> e \in ShownRows /\ IsOutcome(e)
  BY DEF Lifecycle!Outcomes, Lifecycle!OfKind, ShownRows, IsOutcome
<1>6. Lifecycle!Outcomes # {} <=> Numbered
  <2>1. Lifecycle!Outcomes # {} <=> \E e : e \in ShownRows /\ IsOutcome(e)
    BY <1>5
  <2>2. ASSUME NEW e \in ShownRows, IsOutcome(e) PROVE Numbered
    BY <1>1, <2>2 DEF Numbered, IsOutcome
  <2>3. ASSUME NEW i \in 1..Len(log), IsOutcome(log[i])
        PROVE  \E e : e \in ShownRows /\ IsOutcome(e)
    <3>1. [seq |-> log[i].seq, kind |-> log[i].kind] \in ShownRows
      BY DEF ShownRows
    <3> QED
      BY <2>3, <3>1 DEF IsOutcome
  <2> QED
    BY <2>1, <2>2, <2>3 DEF Numbered
<1>7. \A n : Lifecycle!Beyond(n) <=> \A e \in ShownRows : e.seq < n
  BY DEF Lifecycle!Beyond, ShownRows
<1>8. \A n : (\A i \in 1..Len(log) : log[i].seq < n) => Lifecycle!Beyond(n)
  BY <1>1, <1>7
<1> QED
  BY <1>2, <1>4, <1>6, <1>8

\* The table's rows are shown as long as it does not change.
LEMMA RowsShown == UNCHANGED log => ShownRows' = ShownRows
BY DEF ShownRows

\* Storing the event on its way is one of the steps of the task.
LEMMA SaveLives ==
  ASSUME LifeInv, SaveEvent
  PROVE  Shown' \in Lifecycle!Works \/ UNCHANGED Shown
<1> USE DEF LifeInv
<1>1. CASE log' = Append(log, current) /\ pc' = "publish"
  <2> DEFINE new == [seq |-> current.seq, kind |-> current.kind]
  <2>1. pc = "save" /\ UNCHANGED <<status, canceled, current, maxSeq>>
    BY <1>1 DEF SaveEvent, row, mapper
  <2>2. /\ Len(log) \in Nat /\ Len(log') = Len(log) + 1
        /\ \A i \in 1..Len(log) : log'[i] = log[i]
        /\ log'[Len(log) + 1] = current
    BY <1>1, AppendEntry, LogRows DEF TypeOK
  <2>3. ShownRows' = ShownRows \cup {new}
    <3>1. 1..Len(log') = (1..Len(log)) \cup {Len(log) + 1}
      BY <2>2
    <3>2. ASSUME NEW x PROVE x \in ShownRows' <=> x \in ShownRows \/ x = new
      BY <2>2, <3>1 DEF ShownRows
    <3> QED
      BY <3>2
  <2>4. /\ current.seq \in 0..(MaxRaw + 1) /\ current.kind \in Kind
        /\ maxSeq \in Nat /\ MaxRaw \in Nat
    BY <2>1, RunAssumption DEF TypeOK, Event, NumberInv, BoundsInv
  <2>5. new \in Lifecycle!Events
    BY <2>4 DEF Lifecycle!Events, Lifecycle!Terminal, Kind, Terminal, GraphKind
  <2>6. ~ Numbered \/ after \in {"mark_cancelled", "mark_failed"}
    BY <2>1 DEF NumberInv, Numbered, PastStream
  <2>7. IsOutcome(current) => \A i \in 1..Len(log) : log[i].seq < current.seq
    BY <2>1, <2>4, <2>6, LogRows DEF NumberInv, Numbered, TypeOK
  <2>8. new \in Lifecycle!Storable
    <3>1. CASE after = "run"
      <4>1. new.kind = "started" /\ new.seq = 0 /\ log = <<>>
        BY <2>1, <3>1 DEF TransitInv, RecordInv, InTransit, Unstarted
      <4> QED
        BY <2>5, <4>1, ReadRows DEF Lifecycle!Storable, Shown, ShownRows
    <3>2. CASE after = "stream"
      <4>1. /\ new.kind \in GraphKind
            /\ Lifecycle!Outcomes = {} /\ Lifecycle!OfKind({"cancelled"}) = {}
        BY <2>1, <2>6, <3>2, ReadRows DEF TransitInv, RecordInv, InTransit, Uncancelled
      <4> QED
        BY <2>5, <4>1 DEF Lifecycle!Storable, GraphKind
    <3>3. CASE after = "finish"
      <4>1. /\ new.kind \in {"completed", "failed"} /\ new.seq > 0
            /\ Lifecycle!Outcomes = {} /\ Lifecycle!Beyond(new.seq)
        BY <2>1, <2>6, <2>7, <3>3, ReadRows DEF TransitInv, InTransit, IsOutcome
      <4> QED
        BY <2>5, <4>1 DEF Lifecycle!Storable
    <3>4. CASE after = "mark_cancelled"
      <4>1. new.kind = "cancelled" /\ new.seq = 0 /\ canceled
        BY <2>1, <3>4 DEF TransitInv, CancelInv, InTransit
      <4> QED
        BY <2>5, <4>1 DEF Lifecycle!Storable
    <3>5. CASE after = "mark_failed"
      <4>1. new.kind = "failed" /\ new.seq = 0
        BY <2>1, <3>5 DEF TransitInv, InTransit
      <4> QED
        BY <2>5, <4>1 DEF Lifecycle!Storable
    <3>6. after \in {"run", "stream", "finish", "mark_cancelled", "mark_failed"}
      BY DEF TypeOK
    <3> HIDE DEF new
    <3> QED
      BY <3>1, <3>2, <3>3, <3>4, <3>5, <3>6
  <2>9. Shown' = [Shown EXCEPT !.stored = @ \cup {new}]
    <3>1. Over' = Over
      BY <1>1, <2>1 DEF Over
    <3>2. Shown' = [status |-> status, canceled |-> canceled, stored |-> ShownRows \cup {new}, over |-> Over]
      BY <2>1, <2>3, <3>1 DEF Shown
    <3> HIDE DEF new, Over, ShownRows
    <3> QED
      BY <3>2 DEF Shown
  <2>10. Shown.status # "none" /\ ~ Shown.over
    BY <2>1 DEF Shown, Over, RowInv
  <2> QED
    BY <2>8, <2>9, <2>10 DEF Lifecycle!Works, Shown, ShownRows, Over
<1>2. CASE UNCHANGED log /\ pc' \in {"raised", "mark_failed"}
  BY <1>2, RowsShown DEF SaveEvent, row, Shown, Over
<1> QED
  BY <1>1, <1>2 DEF SaveEvent, Raised

\* The record of a run that ends.
LEMMA RecordEnded ==
  ASSUME NEW x
  PROVE  [Shown EXCEPT !.status = x, !.over = TRUE] = [status |-> x, canceled |-> canceled, stored |-> ShownRows, over |-> TRUE]
<1> DEFINE q == [status |-> x, canceled |-> canceled, stored |-> ShownRows, over |-> Over]
<1>1. [Shown EXCEPT !.status = x, !.over = TRUE] = [[Shown EXCEPT !.status = x] EXCEPT !.over = TRUE]
  OBVIOUS
<1> HIDE DEF ShownRows, Over
<1>2. [Shown EXCEPT !.status = x] = q
  BY DEF Shown
<1>3. [q EXCEPT !.over = TRUE] = [status |-> x, canceled |-> canceled, stored |-> ShownRows, over |-> TRUE]
  <2>1. ASSUME NEW y
        PROVE  [q EXCEPT !.over = y] = [status |-> x, canceled |-> canceled, stored |-> ShownRows, over |-> y]
    OBVIOUS
  <2> HIDE DEF q
  <2> QED
    BY <2>1, Zenon
<1> HIDE DEF q
<1>4. [[Shown EXCEPT !.status = x] EXCEPT !.over = TRUE] = [q EXCEPT !.over = TRUE]
  BY <1>2
<1> QED
  BY <1>1, <1>3, <1>4

\* The record of a run that is cancelled.
LEMMA RecordCancelled ==
  ASSUME NEW x
  PROVE  [Shown EXCEPT !.status = x, !.canceled = TRUE] = [status |-> x, canceled |-> TRUE, stored |-> ShownRows, over |-> Over]
<1> DEFINE q == [status |-> x, canceled |-> canceled, stored |-> ShownRows, over |-> Over]
<1>1. [Shown EXCEPT !.status = x, !.canceled = TRUE] = [[Shown EXCEPT !.status = x] EXCEPT !.canceled = TRUE]
  OBVIOUS
<1> HIDE DEF ShownRows, Over
<1>2. [Shown EXCEPT !.status = x] = q
  BY DEF Shown
<1>3. [q EXCEPT !.canceled = TRUE] = [status |-> x, canceled |-> TRUE, stored |-> ShownRows, over |-> Over]
  <2>1. ASSUME NEW y
        PROVE  [q EXCEPT !.canceled = y] = [status |-> x, canceled |-> y, stored |-> ShownRows, over |-> Over]
    OBVIOUS
  <2> HIDE DEF q
  <2> QED
    BY <2>1, Zenon
<1> HIDE DEF q
<1>4. [[Shown EXCEPT !.status = x] EXCEPT !.canceled = TRUE] = [q EXCEPT !.canceled = TRUE]
  BY <1>2
<1> QED
  BY <1>1, <1>3, <1>4

\* A final status is written only with the events that bear it out.
LEMMA EndLives ==
  ASSUME LifeInv, MarkEnded
  PROVE  Shown' \in Lifecycle!Works \/ UNCHANGED Shown
<1> USE DEF LifeInv
<1>1. CASE UpdateRunStatus(FinalStatus) /\ pc' = "close"
  <2>1. /\ pc \in {"mark_cancelled", "mark_completed"}
        /\ status' = FinalStatus /\ canceled' = canceled /\ log' = log
    BY <1>1 DEF MarkEnded, UpdateRunStatus
  <2>2. FinalStatus \in Lifecycle!Ends
    <3>1. CASE pc = "mark_cancelled"
      BY <3>1, ReadRows DEF FinalStatus, RecordInv, Lifecycle!Ends
    <3>2. CASE pc = "mark_completed"
      BY <3>2, ReadRows DEF FinalStatus, RecordInv, Uncancelled, Lifecycle!Ends
    <3> QED
      BY <2>1, <3>1, <3>2
  <2>3. Shown' = [Shown EXCEPT !.status = FinalStatus, !.over = TRUE]
    <3>1. Over' = TRUE
      BY <1>1 DEF Over
    <3>2. Shown' = [status |-> FinalStatus, canceled |-> canceled, stored |-> ShownRows, over |-> TRUE]
      BY <2>1, <3>1, RowsShown DEF Shown
    <3> HIDE DEF Over, ShownRows
    <3> QED
      BY <3>2, RecordEnded
  <2>4. Shown.status # "none" /\ ~ Shown.over
    BY <2>1 DEF Shown, Over, RowInv
  <2> QED
    BY <2>2, <2>3, <2>4 DEF Lifecycle!Works, Shown, ShownRows, Over
<1>2. CASE UNCHANGED row /\ pc' = "raised"
  BY <1>2, RowsShown DEF MarkEnded, row, Shown, Over
<1> QED
  BY <1>1, <1>2 DEF MarkEnded

\* Giving up: the run stays what it is, whatever that is, or has failed.
LEMMA StopLives ==
  ASSUME LifeInv, NEW s \in {status, "failed"},
         pc # "idle", ~ Over, Over', status' = s, UNCHANGED <<canceled, log>>
  PROVE  Shown' \in Lifecycle!Works
<1> USE DEF LifeInv
<1>1. s \in Lifecycle!Ends \cup {status}
  BY DEF Lifecycle!Ends
<1>2. Shown' = [Shown EXCEPT !.status = s, !.over = TRUE]
  <2>1. Shown' = [status |-> s, canceled |-> canceled, stored |-> ShownRows, over |-> TRUE]
    BY RowsShown DEF Shown, Over
  <2> HIDE DEF Over, ShownRows
  <2> QED
    BY <2>1, RecordEnded
<1>3. Shown.status # "none" /\ ~ Shown.over /\ Shown.status = status
  BY DEF Shown, RowInv
<1>4. Lifecycle!Works =
        {[Shown EXCEPT !.status = "running"] : x \in {Shown.stored} \cap {{}}}
          \cup {[Shown EXCEPT !.stored = @ \cup {e}] : e \in Lifecycle!Storable}
          \cup {[Shown EXCEPT !.status = t, !.over = TRUE] : t \in Lifecycle!Ends \cup {status}}
  BY <1>3 DEF Lifecycle!Works, Shown, ShownRows, Over
<1> QED
  BY <1>1, <1>2, <1>4

\* The cancel endpoint overwrites whatever the status is by now.
LEMMA CancelLives ==
  ASSUME LifeInv, NEW c \in Cancellers, CancelWorkflowRun(c)
  PROVE  Shown' \in Lifecycle!Cancellations \/ UNCHANGED Shown
<1> USE DEF LifeInv
<1>1. CASE status' = "cancelled" /\ canceled' = TRUE
  <2>1. log' = log /\ pc' = pc /\ status # "none"
    BY DEF CancelWorkflowRun, RowInv
  <2>2. Shown' = [Shown EXCEPT !.status = "cancelled", !.canceled = TRUE]
    <3>1. Over' = Over
      BY <2>1 DEF Over
    <3>2. Shown' = [status |-> "cancelled", canceled |-> TRUE, stored |-> ShownRows, over |-> Over]
      BY <1>1, <2>1, <3>1, RowsShown DEF Shown
    <3> HIDE DEF Over, ShownRows
    <3> QED
      BY <3>2, RecordCancelled
  <2>3. Shown.status # "none"
    BY <2>1 DEF Shown
  <2> QED
    BY <2>2, <2>3 DEF Lifecycle!Cancellations, Shown, ShownRows, Over
<1>2. CASE UNCHANGED row
  BY <1>2, RowsShown DEF CancelWorkflowRun, row, Shown, Over
<1> QED
  BY <1>1, <1>2 DEF CancelWorkflowRun

\* A run is created once.
LEMMA CreateLives ==
  ASSUME LifeInv, CreateRunRecord
  PROVE  Shown' \in Lifecycle!Creations
<1>1. /\ pc = "idle" /\ status = "none" /\ status' = "pending"
      /\ UNCHANGED <<canceled, log>> /\ Over' = Over
  BY DEF LifeInv, RowInv, CreateRunRecord, Over
<1>2. Shown' = [status |-> "pending", canceled |-> canceled, stored |-> ShownRows, over |-> Over]
  BY <1>1, RowsShown DEF Shown
<1>3. Shown' = [Shown EXCEPT !.status = "pending"] /\ Shown.status = "none"
  <2> HIDE DEF ShownRows, Over
  <2> QED
    BY <1>1, <1>2 DEF Shown
<1> QED
  BY <1>3 DEF Lifecycle!Creations, Shown, ShownRows, Over

\* It is said to run before anything is stored.
LEMMA RunningLives ==
  ASSUME LifeInv, MarkRunning
  PROVE  Shown' \in Lifecycle!Works \/ UNCHANGED Shown
<1>1. CASE status' = "running" /\ canceled' = canceled /\ pc' = "save"
  <2>1. /\ pc = "start" /\ log' = log /\ Over' = Over
    BY <1>1 DEF MarkRunning, Over
  <2>2. Shown' = [status |-> "running", canceled |-> canceled, stored |-> ShownRows, over |-> Over]
    BY <1>1, <2>1, RowsShown DEF Shown
  <2>3. Shown' = [Shown EXCEPT !.status = "running"]
    <3> HIDE DEF ShownRows, Over
    <3> QED
      BY <2>2 DEF Shown
  <2>4. Shown.status # "none" /\ ~ Shown.over
    BY <2>1 DEF Shown, Over, LifeInv, RowInv
  <2>5. Shown.stored = {}
    BY <2>1, ReadRows DEF LifeInv, RecordInv, Unstarted
  <2> QED
    BY <2>3, <2>4, <2>5 DEF Lifecycle!Works, Shown, ShownRows, Over
<1>2. CASE UNCHANGED row /\ pc' = "raised"
  BY <1>2, RowsShown DEF MarkRunning, row, Shown, Over
<1> QED
  BY <1>1, <1>2 DEF MarkRunning, UpdateRunStatus, Emit

\* Every step of a run is a step of RunLifecycle, or shows the readers nothing.
THEOREM RunImplementsLifecycle == Spec => LifecycleSpec
<1>1. Init => Shown = Lifecycle!New
  <2>1. Init => ShownRows = {}
    BY DEF Init, ShownRows
  <2>2. Init => Over = FALSE
    BY DEF Init, Over
  <2>3. Init => status = "none" /\ canceled = FALSE
    BY DEF Init
  <2>4. Lifecycle!New = [status |-> "none", canceled |-> FALSE, stored |-> {}, over |-> FALSE]
    BY DEF Lifecycle!New
  <2> HIDE DEF Over, ShownRows
  <2> QED
    BY <2>1, <2>2, <2>3, <2>4, Zenon DEF Shown
<1>2. ASSUME LifeInv, [Next]_vars
      PROVE  Shown' \in Lifecycle!Successors \/ UNCHANGED Shown
  <2> USE <1>2
  <2>1. CASE CreateRunRecord
    BY <2>1, CreateLives DEF Lifecycle!Successors
  <2>2. CASE PrepareInput
    <3>1. CASE pc' = "abandoned"
      BY <2>2, <3>1, StopLives DEF PrepareInput, row, Over, Lifecycle!Successors
    <3>2. CASE pc' = "start"
      BY <2>2, <3>2, RowsShown DEF PrepareInput, row, Shown, Over
    <3> QED
      BY <2>2, <3>1, <3>2 DEF PrepareInput
  <2>3. CASE MarkRunning
    BY <2>3, RunningLives DEF Lifecycle!Successors
  <2>4. CASE UNCHANGED <<row, log>> /\ Over' = Over
    BY <2>4, RowsShown DEF row, Shown
  <2>5. CASE SaveEvent
    BY <2>5, SaveLives DEF Lifecycle!Successors
  <2>6. CASE MarkEnded
    BY <2>6, EndLives DEF Lifecycle!Successors
  <2>7. CASE MarkFailed
    BY <2>7, StopLives DEF MarkFailed, UpdateRunStatus, row, Over, Lifecycle!Successors
  <2>8. ASSUME NEW c \in Cancellers, CancelWorkflowRun(c)
        PROVE  Shown' \in Lifecycle!Successors \/ UNCHANGED Shown
    BY <2>8, CancelLives DEF Lifecycle!Successors
  <2>9. CASE Crash /\ ~ Over
    BY <2>9, StopLives DEF Crash, Working, row, Over, Lifecycle!Successors
  <2>10. CASE Crash /\ Over
    BY <2>10, RowsShown DEF Crash, row, Shown, Over
  <2>11. \/ CreateRunRecord \/ PrepareInput \/ MarkRunning \/ SaveEvent \/ MarkEnded \/ MarkFailed
         \/ (\E c \in Cancellers : CancelWorkflowRun(c)) \/ Crash
         \/ UNCHANGED <<row, log>> /\ Over' = Over
    <3>1. StartRunner \/ FinishRunner \/ HandleException \/ CloseChannel \/ PollCancel
            \/ (\E c \in Cancellers : ReadForCancel(c))
          => UNCHANGED <<row, log>> /\ Over' = Over
      BY DEF StartRunner, FinishRunner, HandleException, CloseChannel, PollCancel, ReadForCancel,
             Emit, Over
    <3>2. (\E raw \in RawEvent : MapRawEvent(raw))
            \/ (\E outcome \in {"completed", "failed"} : EndStream(outcome))
          => UNCHANGED <<row, log>> /\ Over' = Over
      BY DEF MapRawEvent, EndStream, Yield, Emit, Over
    <3>3. PublishEvent => UNCHANGED <<row, log>> /\ Over' = Over
      BY DEF PublishEvent, Raised, Over, LifeInv, TypeOK
    <3>4. UNCHANGED vars => UNCHANGED <<row, log>> /\ Over' = Over
      BY DEF vars, row, Over
    <3> QED
      BY <3>1, <3>2, <3>3, <3>4 DEF Next, Task
  <2> QED
    BY <2>1, <2>2, <2>3, <2>4, <2>5, <2>6, <2>7, <2>8, <2>9, <2>10, <2>11
<1> QED
  BY <1>1, <1>2, LifeInvariant, PTL DEF Spec, LifecycleSpec, Lifecycle!Spec, Shown, ShownRows, Over
-----------------------------------------------------------------------------
(* The end of every run.  What RunSettles needs beside fairness: the task comes
   nearer its end with every step, and where it stops the run is settled. *)

\* Where the graph may still yield events.
Streaming == {"idle", "prepare", "start", "run", "stream"}

\* The statement save_and_publish returns to, or the one the task is at.
Heading == IF pc \in {"save", "publish"} THEN after ELSE pc

\* Statements from each one to the end of the task, on the longest way.
Distance(place) ==
  CASE place = "idle"        -> 18
    [] place = "prepare"     -> 17
    [] place = "start"       -> 16
    [] place = "run"         -> 13
    [] place = "stream"      -> 12
    [] place = "finish"      -> 9
    [] place \in {"mark_cancelled", "mark_completed"} -> 6
    [] place = "raised"      -> 5
    [] place = "mark_failed" -> 2
    [] place = "close"       -> 1
    [] OTHER                 -> 0

\* What is left of save_and_publish.
Saving == CASE pc = "save"    -> 2
            [] pc = "publish" -> 1
            [] OTHER          -> 0

\* The raw events the graph may still bring.
Ahead == MaxRaw - (v3seq + counter)

\* Each of them is an iteration of the event loop and a save.
Remaining ==
  Distance(Heading) + Saving + (IF Heading \in Streaming THEN 3 * Ahead ELSE 0)

\* Every step of the task leaves it less to do, and no cancel request, poller or
\* failure gives it more.
TaskAdvances ==
  [][/\ Remaining' <= Remaining
     /\ Task => Remaining' < Remaining]_vars

\* The task stops after the closing mark, or because of a failure.
StopInv ==
  /\ pc = "crashed" => faults > 0
  /\ pc = "done" => ClosePublished \/ faults > 0

\* Where the task has stopped the channel is closed and the status final, or a
\* call failed; a request refused by input_mapper has no task.
StoppedIsSettled ==
  /\ pc = "crashed" => faults > 0
  /\ pc = "done" => faults > 0 \/ (ClosePublished /\ status \in Terminal)

\* A settled run stays so, unless a call fails.
SettledForGood ==
  [][pc = "done" /\ faults' = 0 => ClosePublished' /\ status' \in Terminal]_vars

\* A step that leaves the task and the graph where they are.
LEMMA NothingDone ==
  ASSUME UNCHANGED <<pc, after, mapper>>
  PROVE  Remaining' = Remaining
BY DEF Remaining, Heading, Saving, Ahead, mapper

\* What is left is a number.
LEMMA RemainingType ==
  ASSUME TypeOK, BoundsInv
  PROVE  Ahead \in Nat /\ Remaining \in Nat
<1>1. Ahead \in Nat
  BY RunAssumption DEF TypeOK, BoundsInv, Ahead
<1>2. Distance(Heading) \in Nat /\ Saving \in Nat
  BY DEF Distance, Saving
<1> QED
  BY <1>1, <1>2 DEF Remaining

\* Less of one thing and no more of another is less of both.
LEMMA LessOfBoth ==
  ASSUME NEW m \in Nat, NEW n \in Nat, NEW k \in Nat, NEW l \in Nat, m < n, k <= l
  PROVE  m + k \in Nat /\ m + k < n + l
OBVIOUS

\* A step of the task that asks nothing of the graph.
LEMMA TaskMoves ==
  ASSUME TypeOK, BoundsInv, Task, UNCHANGED mapper
  PROVE  Remaining' \in Nat /\ Remaining' < Remaining
<1> DEFINE far == Distance(Heading) + Saving
           events == IF Heading \in Streaming THEN 3 * Ahead ELSE 0
<1>1. Ahead' = Ahead /\ Ahead \in Nat
  BY RemainingType DEF Ahead, mapper
<1>2. far \in Nat /\ far' \in Nat
  BY DEF Distance, Saving
<1>3. far' < far /\ (Heading' \in Streaming => Heading \in Streaming)
  <2>1. CASE CreateRunRecord
    BY <2>1 DEF CreateRunRecord, Heading, Saving, Distance, Streaming
  <2>2. CASE PrepareInput
    BY <2>2 DEF PrepareInput, Heading, Saving, Distance, Streaming
  <2>3. CASE MarkRunning
    BY <2>3 DEF MarkRunning, Emit, Heading, Saving, Distance, Streaming
  <2>4. CASE StartRunner
    BY <2>4 DEF StartRunner, Heading, Saving, Distance, Streaming
  <2>5. ASSUME NEW raw \in RawEvent, MapRawEvent(raw) PROVE FALSE
    BY <2>5 DEF MapRawEvent, TakeSequence, NextSequence, mapper, TypeOK
  <2>6. ASSUME NEW outcome \in {"completed", "failed"}, EndStream(outcome)
        PROVE far' < far /\ (Heading' \in Streaming => Heading \in Streaming)
    BY <2>6 DEF EndStream, Yield, Emit, Heading, Saving, Distance, Streaming
  <2>7. CASE SaveEvent
    BY <2>7 DEF SaveEvent, Raised, Heading, Saving, Distance, Streaming, TypeOK
  <2>8. CASE PublishEvent
    BY <2>8 DEF PublishEvent, Raised, Heading, Saving, Distance, Streaming, TypeOK
  <2>9. CASE FinishRunner
    BY <2>9 DEF FinishRunner, Emit, Heading, Saving, Distance, Streaming
  <2>10. CASE MarkEnded
    BY <2>10 DEF MarkEnded, Heading, Saving, Distance, Streaming
  <2>11. CASE HandleException
    BY <2>11 DEF HandleException, Emit, Heading, Saving, Distance, Streaming
  <2>12. CASE MarkFailed
    BY <2>12 DEF MarkFailed, Heading, Saving, Distance, Streaming
  <2>13. CASE CloseChannel
    BY <2>13 DEF CloseChannel, Heading, Saving, Distance, Streaming
  <2> QED
    BY <2>1, <2>2, <2>3, <2>4, <2>5, <2>6, <2>7, <2>8, <2>9, <2>10, <2>11, <2>12, <2>13
    DEF Task
<1>4. Remaining = far + events /\ Remaining' = far' + events'
  BY DEF Remaining
<1>5. events \in Nat /\ events' <= events /\ events' \in Nat
  BY <1>1, <1>3
<1>6. far' + events' \in Nat /\ far' + events' < far + events
  <2> HIDE DEF far, events
  <2> QED
    BY <1>2, <1>3, <1>5, LessOfBoth
<1> QED
  BY <1>4, <1>6

\* A raw event uses up one of those ahead, whether it is saved or not.
LEMMA GraphMoves ==
  ASSUME TypeOK, BoundsInv, NEW raw \in RawEvent, MapRawEvent(raw)
  PROVE  Remaining' \in Nat /\ Remaining' < Remaining
<1>1. Ahead \in Nat /\ Ahead' = Ahead - 1 /\ Ahead > 0
  BY RunAssumption DEF MapRawEvent, TakeSequence, NextSequence, Ahead, TypeOK, BoundsInv
<1>2. Remaining = 12 + 3 * Ahead
  BY <1>1 DEF MapRawEvent, Remaining, Heading, Saving, Distance, Streaming
<1>3. \/ pc' = "stream"
      \/ pc' = "save" /\ after' = "stream"
      \/ pc' = "finish"
  BY DEF MapRawEvent, Yield, Emit
<1>4. CASE pc' = "stream"
  <2>1. Remaining' = 12 + 3 * Ahead'
    BY <1>1, <1>4 DEF Remaining, Heading, Saving, Distance, Streaming
  <2> QED
    BY <1>1, <1>2, <2>1
<1>5. CASE pc' = "save" /\ after' = "stream"
  <2>1. Remaining' = 14 + 3 * Ahead'
    BY <1>1, <1>5 DEF Remaining, Heading, Saving, Distance, Streaming
  <2> QED
    BY <1>1, <1>2, <2>1
<1>6. CASE pc' = "finish"
  <2>1. Remaining' = 9
    BY <1>6 DEF Remaining, Heading, Saving, Distance, Streaming
  <2> QED
    BY <1>1, <1>2, <2>1
<1> QED
  BY <1>3, <1>4, <1>5, <1>6

\* Every step of the task leaves it less to do, and nothing else gives it more.
LEMMA TaskAdvancesStep ==
  ASSUME TypeOK, BoundsInv, [Next]_vars
  PROVE  Remaining' <= Remaining /\ (Task => Remaining' < Remaining)
<1>1. Remaining \in Nat
  BY RemainingType
<1>2. CASE Task
  <2>1. UNCHANGED mapper \/ \E raw \in RawEvent : MapRawEvent(raw)
    BY <1>2 DEF Task, CreateRunRecord, PrepareInput, MarkRunning, StartRunner, EndStream,
                SaveEvent, PublishEvent, FinishRunner, MarkEnded, HandleException,
                MarkFailed, CloseChannel, mapper
  <2>2. Remaining' \in Nat /\ Remaining' < Remaining
    BY <1>2, <2>1, TaskMoves, GraphMoves
  <2> QED
    BY <1>1, <2>2
<1>3. CASE UNCHANGED <<pc, after, mapper>> /\ ~ Task
  BY <1>1, <1>3, NothingDone
<1>4. CASE Crash /\ ~ Task
  <2>1. Remaining' = 0
    BY <1>4 DEF Crash, Remaining, Heading, Saving, Distance, Streaming
  <2> QED
    BY <1>1, <1>4, <2>1
<1> QED
  BY <1>2, <1>3, <1>4
  DEF Next, PollCancel, ReadForCancel, CancelWorkflowRun, vars, mapper

\* A run's task comes nearer its end with every step it takes, so that it takes at
\* most 18 + 3 * MaxRaw of them, whatever cancel requests, pollers and failures do.
THEOREM TaskAdvancesHolds == Spec => TaskAdvances
<1>1. TypeOK /\ BoundsInv /\ [Next]_vars =>
        [/\ Remaining' <= Remaining
         /\ Task => Remaining' < Remaining]_vars
  BY TaskAdvancesStep
<1>2. Init => BoundsInv
  BY RunAssumption DEF Init, BoundsInv
<1>3. TypeOK /\ BoundsInv /\ [Next]_vars => BoundsInv'
  BY BoundsStep
<1> QED
  BY <1>1, <1>2, <1>3, TypeCorrect, PTL DEF Spec, TaskAdvances

\* Nothing takes the closing mark off the channel, or a failure back.
LEMMA CloseStays ==
  ASSUME TypeOK, [Next]_vars
  PROVE  /\ ClosePublished => ClosePublished'
         /\ faults' \in {faults, faults + 1}
<1>1. faults' \in {faults, faults + 1}
  BY DEF Next, Task, vars, CreateRunRecord, PrepareInput, MarkRunning, StartRunner, MapRawEvent,
         EndStream, SaveEvent, PublishEvent, FinishRunner, MarkEnded, HandleException,
         MarkFailed, CloseChannel, PollCancel, ReadForCancel, CancelWorkflowRun, Crash, Fault
<1>2. channel' = channel \/ \E m \in Event \cup {Close} : channel' = Append(channel, m)
  BY DEF Next, Task, vars, CreateRunRecord, PrepareInput, MarkRunning, StartRunner, MapRawEvent,
         EndStream, SaveEvent, PublishEvent, FinishRunner, MarkEnded, HandleException,
         MarkFailed, CloseChannel, PollCancel, ReadForCancel, CancelWorkflowRun, Crash,
         ClosesAtShutdown, TypeOK
<1>3. ASSUME NEW m \in Event \cup {Close}, channel' = Append(channel, m), ClosePublished
      PROVE  ClosePublished'
  <2>1. PICK i \in 1..Len(channel) : channel[i] = Close
    BY <1>3 DEF ClosePublished
  <2>2. i \in 1..Len(channel') /\ channel'[i] = Close
    BY <1>3, <2>1, PublishedMessage
  <2> QED
    BY <2>2 DEF ClosePublished
<1>4. CASE channel' = channel
  BY <1>1, <1>4 DEF ClosePublished
<1> QED
  BY <1>1, <1>2, <1>3, <1>4

\* The task stops by closing the channel, by a failure there, or with the server.
LEMMA StopStep ==
  ASSUME TypeOK, StopInv, [Next]_vars
  PROVE  StopInv'
<1>1. faults \in Nat
  BY DEF TypeOK
<1>2. CASE CloseChannel
  <2>1. pc' = "done"
    BY <1>2 DEF CloseChannel
  <2>2. CASE channel' = Append(channel, Close)
    <3>1. /\ Len(channel) \in Nat /\ Len(channel') = Len(channel) + 1
          /\ channel'[Len(channel) + 1] = Close
      BY <2>2, PublishedMessage
    <3>2. ClosePublished'
      BY <3>1 DEF ClosePublished
    <3> QED
      BY <2>1, <3>2 DEF StopInv
  <2>3. CASE Fault
    BY <1>1, <2>1, <2>3 DEF Fault, StopInv
  <2> QED
    BY <1>2, <2>2, <2>3 DEF CloseChannel
<1>3. CASE Crash
  BY <1>1, <1>3 DEF Crash, Fault, StopInv
<1>4. CASE pc' = pc \/ pc' \notin {"done", "crashed"}
  BY <1>1, <1>4, CloseStays DEF StopInv
<1>5. CloseChannel \/ Crash \/ pc' = pc \/ pc' \notin {"done", "crashed"}
  BY DEF Next, Task, vars, CreateRunRecord, PrepareInput, MarkRunning, StartRunner, MapRawEvent,
         EndStream, SaveEvent, PublishEvent, FinishRunner, MarkEnded, HandleException,
         MarkFailed, PollCancel, ReadForCancel, CancelWorkflowRun, TypeOK, Yield, Emit, Raised
<1> QED
  BY <1>2, <1>3, <1>4, <1>5

\* Where the task stops is known in every state.
LEMMA StopInvariant == Spec => []StopInv
<1>1. Init => StopInv
  BY DEF Init, StopInv
<1> QED
  BY <1>1, StopStep, TypeCorrect, PTL DEF Spec

\* Where the task has stopped, the channel is closed and the status final, or a
\* call failed: no cancel request leaves a run half way.
THEOREM StoppedIsSettledHolds == Spec => []StoppedIsSettled
<1>1. TypeOK /\ StopInv /\ SettleInv => StoppedIsSettled
  BY DEF TypeOK, StopInv, SettleInv, StoppedIsSettled
<1> QED
  BY <1>1, TypeCorrect, StopInvariant, SettleInvariant, PTL

\* No step of the task follows its end.
LEMMA DoneStays ==
  ASSUME pc = "done", [Next]_vars
  PROVE  pc' = "done"
BY DEF Next, Task, vars, CreateRunRecord, PrepareInput, MarkRunning, StartRunner, MapRawEvent,
       EndStream, SaveEvent, PublishEvent, FinishRunner, MarkEnded, HandleException,
       MarkFailed, CloseChannel, PollCancel, ReadForCancel, CancelWorkflowRun, Crash, Working

\* A run that is settled stays so, unless a call fails.
THEOREM SettledForGoodHolds == Spec => SettledForGood
<1>1. ASSUME TypeOK, StopInv, SettleInv, SettleInv', [Next]_vars
      PROVE  [pc = "done" /\ faults' = 0 => ClosePublished' /\ status' \in Terminal]_vars
  <2> SUFFICES ASSUME pc = "done", faults' = 0
               PROVE  ClosePublished' /\ status' \in Terminal
    OBVIOUS
  <2>1. faults = 0 /\ pc' = "done"
    BY <1>1, CloseStays, DoneStays DEF TypeOK
  <2>2. ClosePublished'
    BY <1>1, <2>1, CloseStays DEF StopInv
  <2> QED
    BY <1>1, <2>1, <2>2 DEF SettleInv
<1> QED
  BY <1>1, TypeCorrect, StopInvariant, SettleInvariant, PTL DEF Spec, SettledForGood
=============================================================================
