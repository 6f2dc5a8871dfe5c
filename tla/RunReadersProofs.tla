-------------------------- MODULE RunReadersProofs --------------------------
(***************************************************************************)
(* What holds of the observer service for every number of clients, runs    *)
(* and mishaps, and so of RunReaders, whose steps are steps of Observers   *)
(* or none; and what the history service answers, for every number of runs *)
(* and requests.                                                           *)
(***************************************************************************)
EXTENDS RunReaders, FiniteSetTheorems, SequenceTheorems, TLAPS

\* Whoever has joined watches a run.
Watching == \A o \in Clients : place[o] # "outside" => watches[o] \in WatchedRuns

\* What was announced of a client shows in where it is, while nothing went wrong.
Announced ==
  mishaps = 0 =>
    /\ joined = {o \in Clients : place[o] \in {"inside", "leaving", "gone"}}
    /\ left = {o \in Clients : place[o] = "gone"}
    /\ \A o \in Clients : place[o] # "refused"

ObserversInv == ObserversTypeOK /\ Watching /\ NoEmptyEntry /\ NoGhosts /\ Announced

\* Nobody observes at first.
LEMMA ObserversInitial == ObserversInit => ObserversInv
BY DEF ObserversInit, ObserversInv, ObserversTypeOK, Watching, NoEmptyEntry, NoGhosts, Announced,
       Places

\* Only the places of one client change at a time.
LEMMA Moved ==
  ASSUME ObserversTypeOK, NEW o \in Clients, NEW from, NEW to \in Places, Move(o, from, to)
  PROVE  /\ place' \in [Clients -> Places]
         /\ place[o] = from /\ place'[o] = to
         /\ \A x \in Clients \ {o} : place'[x] = place[x]
BY DEF ObserversTypeOK, Move

\* Joining registers one observer.
LEMMA JoinKept ==
  ASSUME ObserversInv, NEW o \in Clients, NEW r \in WatchedRuns, Join(o, r)
  PROVE  ObserversInv'
<1> USE DEF ObserversInv
<1>1. /\ place' \in [Clients -> Places] /\ place[o] = "outside" /\ place'[o] = "joining"
      /\ \A x \in Clients \ {o} : place'[x] = place[x]
  BY Moved DEF Join, Places
<1>2. /\ watches' = [watches EXCEPT ![o] = r] /\ observers' = [observers EXCEPT ![r] = @ \cup {o}]
      /\ entries' = entries \cup {r} /\ UNCHANGED <<joined, left, mishaps>>
  BY DEF Join
<1>3. ObserversTypeOK'
  BY <1>1, <1>2 DEF ObserversTypeOK
<1>4. Watching'
  BY <1>1, <1>2 DEF Watching, ObserversTypeOK
<1>5. NoEmptyEntry'
  BY <1>2 DEF NoEmptyEntry, ObserversTypeOK
<1>6. NoGhosts'
  BY <1>1, <1>2 DEF NoGhosts, ObserversTypeOK
<1>7. Announced'
  BY <1>1, <1>2 DEF Announced
<1> QED
  BY <1>3, <1>4, <1>5, <1>6, <1>7

\* Leaving removes one, and the entry with the last.
LEMMA LeaveKept ==
  ASSUME ObserversInv, NEW o \in Clients, Leave(o)
  PROVE  ObserversInv'
<1> USE DEF ObserversInv
<1> DEFINE r == watches[o]
<1>1. /\ place' \in [Clients -> Places] /\ place[o] = "inside" /\ place'[o] = "leaving"
      /\ \A x \in Clients \ {o} : place'[x] = place[x]
  BY Moved DEF Leave, Places
<1>2. /\ observers' = [observers EXCEPT ![r] = observers[r] \ {o}]
      /\ UNCHANGED <<watches, joined, left, mishaps>>
      /\ entries' = IF observers'[r] = {} THEN entries \ {r} ELSE entries \cup {r}
  BY DEF Leave, Remaining, RunsLeft
<1>3. r \in WatchedRuns
  BY <1>1 DEF Watching
<1>4. ObserversTypeOK'
  BY <1>1, <1>2, <1>3 DEF ObserversTypeOK
<1>5. Watching'
  BY <1>1, <1>2 DEF Watching
<1>6. NoEmptyEntry'
  BY <1>2, <1>3 DEF NoEmptyEntry, ObserversTypeOK
<1>7. NoGhosts'
  BY <1>1, <1>2, <1>3 DEF NoGhosts, ObserversTypeOK
<1>8. Announced'
  BY <1>1, <1>2 DEF Announced
<1> QED
  BY <1>4, <1>5, <1>6, <1>7, <1>8

\* Announcing, or failing to, leaves the memory of the service alone.
LEMMA AnnouncementKept ==
  ASSUME ObserversInv, NEW o \in Clients,
         AnnounceJoin(o) \/ JoinFails(o) \/ AnnounceLeave(o) \/ LeaveFails(o)
  PROVE  ObserversInv'
<1> USE DEF ObserversInv
<1>0. mishaps \in Nat /\ (Mishap => mishaps' \in Nat /\ mishaps' # 0)
  BY DEF ObserversTypeOK, Mishap
<1>1. UNCHANGED <<observers, entries, watches>>
  BY DEF AnnounceJoin, JoinFails, AnnounceLeave, LeaveFails
<1>2. /\ place' \in [Clients -> Places] /\ place[o] # "outside"
      /\ \A x \in Clients \ {o} : place'[x] = place[x]
      /\ AnnounceJoin(o) => place[o] = "joining" /\ place'[o] = "inside"
      /\ AnnounceLeave(o) => place[o] = "leaving" /\ place'[o] = "gone"
  BY Moved DEF AnnounceJoin, JoinFails, AnnounceLeave, LeaveFails, Places
<1>3. /\ joined' \in SUBSET Clients /\ left' \in SUBSET Clients /\ mishaps' \in Nat
  BY <1>0 DEF AnnounceJoin, JoinFails, AnnounceLeave, LeaveFails, ObserversTypeOK
<1>4. ObserversTypeOK' /\ Watching' /\ NoEmptyEntry'
  BY <1>1, <1>2, <1>3 DEF ObserversTypeOK, Watching, NoEmptyEntry
<1>5. CASE mishaps' # 0
  BY <1>4, <1>5 DEF NoGhosts, Announced
<1>6. CASE AnnounceJoin(o)
  <2>1. joined' = joined \cup {o} /\ UNCHANGED <<left, mishaps>>
    BY <1>6 DEF AnnounceJoin
  <2> QED
    BY <1>1, <1>2, <1>4, <1>6, <2>1 DEF NoGhosts, Announced
<1>7. CASE AnnounceLeave(o)
  <2>1. left' = left \cup {o} /\ UNCHANGED <<joined, mishaps>>
    BY <1>7 DEF AnnounceLeave
  <2> QED
    BY <1>1, <1>2, <1>4, <1>7, <2>1 DEF NoGhosts, Announced
<1> QED
  BY <1>0, <1>5, <1>6, <1>7 DEF JoinFails, LeaveFails

\* With the process all observers are forgotten.
LEMMA DeathKept ==
  ASSUME ObserversInv, ServiceDies
  PROVE  ObserversInv'
<1> USE DEF ObserversInv, ServiceDies
<1>1. mishaps' \in Nat /\ mishaps' # 0
  BY DEF ObserversTypeOK, Mishap
<1>2. ObserversTypeOK' /\ Watching'
  BY <1>1 DEF ObserversTypeOK, Watching, Places
<1>3. NoEmptyEntry' /\ NoGhosts' /\ Announced'
  BY <1>1 DEF NoEmptyEntry, NoGhosts, Announced
<1> QED
  BY <1>2, <1>3

\* Every step keeps the invariant.
LEMMA ObserversStep ==
  ASSUME ObserversInv, [ObserversNext]_observerVars
  PROVE  ObserversInv'
<1>1. CASE UNCHANGED observerVars
  BY <1>1 DEF observerVars, ObserversInv, ObserversTypeOK, Watching, NoEmptyEntry, NoGhosts, Announced
<1> QED
  BY <1>1, JoinKept, LeaveKept, AnnouncementKept, DeathKept DEF ObserversNext, Stay

\* The invariant the counts of observers rest on.
THEOREM ObserversInvariant == ObserversSpec => []ObserversInv
BY ObserversInitial, ObserversStep, PTL DEF ObserversSpec

\* With all the announcements made, who was announced and has not been announced to
\* leave is who is registered.
LEMMA InvAnnounces == ObserversInv => AnnouncedIsRegistered
<1> SUFFICES ASSUME ObserversInv, mishaps = 0,
                    \A o \in Clients : place[o] \notin {"joining", "leaving"},
                    NEW r \in WatchedRuns
             PROVE  observers[r] = {o \in joined \ left : watches[o] = r}
  BY DEF AnnouncedIsRegistered
<1>1. observers[r] = {o \in Clients : watches[o] = r /\ place[o] \in {"joining", "inside"}}
  BY DEF ObserversInv, NoGhosts
<1>2. joined \ left = {o \in Clients : place[o] = "inside"}
  BY DEF ObserversInv, Announced
<1> QED
  BY <1>1, <1>2

\* History and observers share the process, but not their steps.
LEMMA ReadersStepObserves == [ReadersNext]_readersVars => [ObserversNext]_observerVars
BY DEF ReadersNext, readersVars, RunGoesOn, Arrives, QueryGoesOn, ObserverGoesOn, ProcessDies,
       ObserversNext

\* So the process implements the observer service, whatever the history service is
\* asked meanwhile.
THEOREM ReadersImplementObservers == ReadersSpec => ObserversSpec
BY ReadersStepObserves, PTL DEF ReadersSpec, ReadersInit, ObserversSpec

\* No run without observers keeps an entry, for any number of clients and runs.
THEOREM NoEmptyEntryHolds == ReadersSpec => []NoEmptyEntry
<1>1. ObserversInv => NoEmptyEntry
  BY DEF ObserversInv
<1> QED
  BY <1>1, ReadersImplementObservers, ObserversInvariant, PTL

\* While nothing goes wrong nobody is counted who does not listen, or is about to.
THEOREM NoGhostsHolds == ReadersSpec => []NoGhosts
<1>1. ObserversInv => NoGhosts
  BY DEF ObserversInv
<1> QED
  BY <1>1, ReadersImplementObservers, ObserversInvariant, PTL

\* Whoever follows the announcements arrives at the count of the service.
THEOREM AnnouncedIsRegisteredHolds == ReadersSpec => []AnnouncedIsRegistered
BY InvAnnounces, ReadersImplementObservers, ObserversInvariant, PTL
-----------------------------------------------------------------------------
(* The history service *)

Row == [status : Statuses \cup {"none"}, canceled : BOOLEAN, over : BOOLEAN,
        stored : SUBSET [seq : 0..MaxNumber,
                         kind : {"started"} \cup GraphKinds \cup {"completed", "failed", "cancelled"}]]

IsOutcome(e) == e.kind \in {"completed", "failed"} /\ e.seq > 0

\* The outcome has the last of all numbers.
OutcomeLast(stored) ==
  \A e \in stored : IsOutcome(e) => \A f \in stored \ {e} : f.seq < e.seq

\* The events of a run that was completed: its outcome, and none that says that it
\* was cancelled.
Completed(stored) ==
  (\E e \in stored : IsOutcome(e)) /\ \A e \in stored : e.kind # "cancelled"

\* What RunLifecycle makes of a run.  Once it is completed nothing is stored any more.
RowInv(row) ==
  /\ row \in Row
  /\ OutcomeLast(row.stored)
  /\ row.status = "completed" => row.over /\ Completed(row.stored)

TableInv ==
  /\ table = [r \in Runs |-> table[r]]
  /\ \A r \in Runs : RowInv(table[r])
  /\ created \in [Runs -> Times \cup {0}]

AskInv(q) ==
  /\ ask[q].what \in DOMAIN Queries
  /\ ask[q].what = "nothing" => ask[q] = Unasked
  /\ ask[q].what \in {"detail", "replay"} => ask[q].run \in Runs
  /\ ask[q].what = "replay" => ask[q].upTo \in Nat /\ ask[q].known \subseteq table[ask[q].run].stored
  /\ ask[q].what = "runs" => ask[q].known \subseteq Existing
  /\ got[q] \in Seq(ToSet(got[q]))
  /\ ask[q].what # "runs" => Len(got[q]) <= Len(Queries[ask[q].what])

\* A row that says "completed" is not overtaken by the events read after it.
DetailInv(q) ==
  /\ \A status \in Told(q, "row") :
       /\ ask[q].what = "detail"
       /\ status = "completed" =>
            table[ask[q].run].over /\ Completed(table[ask[q].run].stored)
  /\ \A status \in Told(q, "row"), stored \in Told(q, "events") :
       status = "completed" => Completed(stored) /\ OutcomeLast(stored)

ReplayInv(q) ==
  /\ \A head \in Told(q, "head") :
       ask[q].what = "replay" /\ {e \in ask[q].known : e.seq <= ask[q].upTo} \subseteq head
  /\ \A tail \in Told(q, "tail") :
       ask[q].what = "replay" /\ {e \in ask[q].known : e.seq > ask[q].upTo} \subseteq tail

Sum(by) == by["completed"] + by["failed"] + by["running"] + by["pending"] + by["cancelled"]

StatisticsInv(q) ==
  /\ \A total \in Told(q, "count") : total \in Nat /\ total <= Cardinality(Existing)
  /\ \A by \in Told(q, "groups") : ask[q].what = "statistics"
  /\ \A total \in Told(q, "count"), by \in Told(q, "groups") : total <= Sum(by)

\* One of the runs created when this one was has been on a page.
Listed(q, r) == \E s \in UNION Told(q, "page") : created[s] = created[r]

\* A run that existed at first, and none of whose time has been on a page yet, is too
\* old to have been on one of those read.
PagesInv(q) ==
  ask[q].what = "runs" =>
    /\ UNION Told(q, "page") \subseteq Existing
    /\ \A r \in ask[q].known :
         Listed(q, r) \/ Cardinality(Younger(r)) >= (Len(got[q]) \div 2) * PageSize
    /\ Complete(q) => \A r \in ask[q].known : Listed(q, r)

RequestInv(q) == AskInv(q) /\ DetailInv(q) /\ ReplayInv(q) /\ StatisticsInv(q) /\ PagesInv(q)

HistoryInv ==
  /\ TableInv
  /\ ask = [q \in Readers |-> ask[q]] /\ got = [q \in Readers |-> got[q]]
  /\ \A q \in Readers : RequestInv(q)
-----------------------------------------------------------------------------
(* The runs *)

\* A run goes on: nothing that is stored is lost, and what is over stays as it is.
GoesOn(row, next) ==
  /\ row.stored \subseteq next.stored
  /\ row.over => next.over /\ next.stored = row.stored
  /\ next.status = "none" => row.status = "none"

\* Writing some fields of a row leaves the others alone.
LEMMA StatusWritten ==
  ASSUME NEW row \in Row, NEW t \in Statuses, NEW s, s = [row EXCEPT !.status = t]
  PROVE  /\ s \in Row /\ s.status = t
         /\ s.canceled = row.canceled /\ s.over = row.over /\ s.stored = row.stored
BY DEF Row

\* So does cancelling it.
LEMMA CancelWritten ==
  ASSUME NEW row \in Row, NEW s, s = [row EXCEPT !.status = "cancelled", !.canceled = TRUE]
  PROVE  /\ s \in Row /\ s.status = "cancelled"
         /\ s.over = row.over /\ s.stored = row.stored
BY DEF Row, Statuses

\* So does the end of its task.
LEMMA TaskOver ==
  ASSUME NEW row \in Row, NEW s, s = [row EXCEPT !.over = TRUE]
  PROVE  /\ s \in Row /\ s.over = TRUE
         /\ s.status = row.status /\ s.canceled = row.canceled /\ s.stored = row.stored
BY DEF Row

\* So does storing an event of it.
LEMMA EventStored ==
  ASSUME NEW row \in Row, NEW r, NEW e \in Life(r)!Events,
         NEW s, s = [row EXCEPT !.stored = row.stored \cup {e}]
  PROVE  /\ s \in Row /\ s.stored = row.stored \cup {e}
         /\ s.status = row.status /\ s.canceled = row.canceled /\ s.over = row.over
BY DEF Row, Life!Events, Life!Terminal

\* What RunLifecycle reads of a run, in terms of its row.
LEMMA RowRead ==
  ASSUME NEW r \in Runs, table[r] \in Row
  PROVE  /\ Life(r)!Outcomes # {} <=> \E e \in table[r].stored : IsOutcome(e)
         /\ Life(r)!OfKind({"cancelled"}) = {} <=> \A e \in table[r].stored : e.kind # "cancelled"
         /\ \A n : Life(r)!Beyond(n) <=> \A e \in table[r].stored : e.seq < n
         /\ Row = [status : Statuses \cup {"none"}, canceled : BOOLEAN, over : BOOLEAN,
                   stored : SUBSET Life(r)!Events]
<1>1. Life(r)!Outcomes = {e \in table[r].stored : IsOutcome(e)}
  BY DEF Life!Outcomes, Life!OfKind, IsOutcome
<1>2. Life(r)!OfKind({"cancelled"}) = {e \in table[r].stored : e.kind = "cancelled"}
  BY DEF Life!OfKind
<1>3. Row = [status : Statuses \cup {"none"}, canceled : BOOLEAN, over : BOOLEAN,
             stored : SUBSET Life(r)!Events]
  BY DEF Row, Life!Events, Life!Terminal
<1> QED
  BY <1>1, <1>2, <1>3 DEF Life!Beyond

\* A run is created once, in the status "pending".
LEMMA CreationKept ==
  ASSUME NEW r \in Runs, RowInv(table[r]), NEW s \in Life(r)!Creations
  PROVE  /\ RowInv(s) /\ GoesOn(table[r], s)
         /\ table[r].status = "none" /\ s.status # "none"
<1>1. s = [table[r] EXCEPT !.status = "pending"] /\ table[r].status = "none"
  BY DEF Life!Creations
<1>2. /\ s \in Row /\ s.status = "pending"
      /\ s.over = table[r].over /\ s.stored = table[r].stored
  <2>1. table[r] \in Row /\ "pending" \in Statuses
    BY DEF RowInv, Statuses
  <2> QED
    BY <1>1, <2>1, StatusWritten
<1> QED
  BY <1>1, <1>2 DEF RowInv, GoesOn

\* A cancellation only writes that there was one.
LEMMA CancellationKept ==
  ASSUME NEW r \in Runs, RowInv(table[r]), NEW s \in Life(r)!Cancellations
  PROVE  RowInv(s) /\ GoesOn(table[r], s) /\ table[r].status # "none" /\ s.status # "none"
<1>1. s = [table[r] EXCEPT !.status = "cancelled", !.canceled = TRUE] /\ table[r].status # "none"
  BY DEF Life!Cancellations
<1>2. /\ s \in Row /\ s.status = "cancelled"
      /\ s.over = table[r].over /\ s.stored = table[r].stored
  BY <1>1, CancelWritten DEF RowInv
<1> QED
  BY <1>1, <1>2 DEF RowInv, GoesOn

\* What can be stored does not get before the outcome.
LEMMA StoringKept ==
  ASSUME NEW r \in Runs, RowInv(table[r]), NEW e \in Life(r)!Storable
  PROVE  OutcomeLast(table[r].stored \cup {e})
<1> DEFINE stored == table[r].stored
<1>1. OutcomeLast(stored) /\ table[r] \in Row
  BY DEF RowInv
<1>2. e \in Life(r)!Events /\ \A f \in stored : f.seq \in Nat
  BY <1>1, HistoryAssumption DEF Life!Storable, Row
<1>3. e.seq \in Nat
  BY <1>2, HistoryAssumption DEF Life!Events
<1>4. CASE IsOutcome(e)
  <2>1. ~ (\E f \in stored : IsOutcome(f)) /\ \A f \in stored : f.seq < e.seq
    BY <1>1, <1>4, RowRead DEF Life!Storable, IsOutcome
  <2> QED
    BY <2>1, <1>2, <1>3 DEF OutcomeLast
<1>5. CASE ~ IsOutcome(e)
  <2>1. (\E f \in stored : IsOutcome(f)) => stored # {} /\ e.seq = 0 
    BY <1>1, <1>3, <1>5, RowRead DEF Life!Storable, IsOutcome
  <2>2. \A f \in stored : IsOutcome(f) => 0 < f.seq
    BY <1>2 DEF IsOutcome
  <2> QED
    BY <1>1, <1>5, <2>1, <2>2 DEF OutcomeLast
<1> QED
  BY <1>4, <1>5

\* What the task makes of the run.
LEMMA WorkKept ==
  ASSUME NEW r \in Runs, RowInv(table[r]), NEW s \in Life(r)!Works
  PROVE  RowInv(s) /\ GoesOn(table[r], s) /\ table[r].status # "none" /\ s.status # "none"
<1> DEFINE row == table[r]
<1>0. row \in Row /\ OutcomeLast(row.stored) /\ (row.status = "completed" => row.over)
  BY DEF RowInv
<1>1. /\ row.status # "none" /\ row.over = FALSE
      /\ \/ s = [row EXCEPT !.status = "running"]
         \/ \E e \in Life(r)!Storable : s = [row EXCEPT !.stored = row.stored \cup {e}]
         \/ \E t \in Life(r)!Ends \cup {row.status} : s = [row EXCEPT !.status = t, !.over = TRUE]
  BY <1>0 DEF Life!Works, Row
<1>2. CASE s = [row EXCEPT !.status = "running"]
  <2>1. s \in Row /\ s.status = "running" /\ s.over = row.over /\ s.stored = row.stored
    <3>1. "running" \in Statuses
      BY DEF Statuses
    <3> QED
      BY <1>0, <1>2, <3>1, StatusWritten
  <2>2. RowInv(s) /\ GoesOn(row, s) /\ s.status # "none"
    <3> HIDE DEF row
    <3> QED
      BY <1>0, <1>1, <2>1 DEF RowInv, GoesOn
  <2> QED
    BY <1>1, <2>2
<1>3. ASSUME NEW e \in Life(r)!Storable, s = [row EXCEPT !.stored = row.stored \cup {e}]
      PROVE  RowInv(s) /\ GoesOn(row, s) /\ s.status # "none"
  <2>1. e \in Life(r)!Events
    BY DEF Life!Storable
  <2>2. s \in Row /\ s.status = row.status /\ s.over = row.over /\ s.stored = row.stored \cup {e}
    BY <1>0, <1>3, <2>1, EventStored
  <2>3. OutcomeLast(row.stored \cup {e})
    BY StoringKept
  <2> HIDE DEF row
  <2> QED
    BY <1>0, <1>1, <2>2, <2>3 DEF RowInv, GoesOn
<1>4. ASSUME NEW t \in Life(r)!Ends \cup {row.status}, s = [row EXCEPT !.status = t, !.over = TRUE]
      PROVE  RowInv(s) /\ GoesOn(row, s) /\ s.status # "none"
  <2>1. t \in Statuses
    BY <1>0, <1>1 DEF Life!Ends, Statuses, Row
  <2>2. s \in Row /\ s.status = t /\ s.over = TRUE /\ s.stored = row.stored
    <3> HIDE DEF row
    <3> QED
      BY <1>0, <1>4, <2>1 DEF Row
  <2>3. t = "completed" => Completed(row.stored)
    BY <1>0, <1>1, RowRead DEF Life!Ends, Completed
  <2>4. t # "none"
    BY <2>1 DEF Statuses
  <2> HIDE DEF row
  <2> QED
    BY <1>0, <1>1, <2>2, <2>3, <2>4 DEF RowInv, GoesOn
<1> QED
  BY <1>1, <1>2, <1>3, <1>4

\* With the process the task is through with the run, whatever became of it.
LEMMA AbandonmentKept ==
  ASSUME NEW row, RowInv(row)
  PROVE  LET s == [row EXCEPT !.over = TRUE]
         IN RowInv(s) /\ GoesOn(row, s) /\ s.status = row.status
<1> DEFINE s == [row EXCEPT !.over = TRUE]
<1>1. s \in Row /\ s.over = TRUE /\ s.status = row.status /\ s.stored = row.stored
  BY TaskOver DEF RowInv
<1> HIDE DEF s
<1>2. RowInv(s) /\ GoesOn(row, s) /\ s.status = row.status
  BY <1>1 DEF RowInv, GoesOn
<1> QED
  BY <1>2 DEF s
-----------------------------------------------------------------------------
(* The table *)

\* What the runs do to the table as a whole: they go on, and none of those that exist
\* is lost or dated anew.
TableGoesOn ==
  /\ \A r \in Runs : GoesOn(table[r], table[r]')
  /\ Existing \subseteq Existing'
  /\ \A r \in Existing : created'[r] = created[r]

\* The runs can be counted.
LEMMA Counted ==
  /\ IsFiniteSet(Existing) /\ Cardinality(Existing) \in Nat
  /\ \A r : IsFiniteSet(Younger(r)) /\ Cardinality(Younger(r)) \in Nat
  /\ \A r : IsFiniteSet(Tied(r)) /\ Cardinality(Tied(r)) \in Nat
<1>1. /\ Existing \subseteq Runs
      /\ \A r : Younger(r) \subseteq Runs /\ Tied(r) \subseteq Runs
  BY DEF Existing, Younger, Tied
<1> QED
  BY <1>1, HistoryAssumption, FS_Subset, FS_CardinalityType

\* No run becomes one of the younger ones.
LEMMA YoungerGrow ==
  ASSUME TableInv, TableInv', TableGoesOn, NEW r \in Existing
  PROVE  Cardinality(Younger(r)) <= Cardinality(Younger(r)')
<1>1. Younger(r) \subseteq Younger(r)'
  BY DEF TableGoesOn, Younger
<1>2. IsFiniteSet(Younger(r)')
  <2>1. Younger(r)' \subseteq Runs
    BY DEF Existing, Younger
  <2> QED
    BY <2>1, HistoryAssumption, FS_Subset
<1> QED
  BY <1>1, <1>2, FS_Subset

\* The number of runs does not fall.
LEMMA NumberGrows ==
  ASSUME TableGoesOn
  PROVE  Cardinality(Existing) <= Cardinality(Existing') /\ Cardinality(Existing') \in Nat
<1>1. IsFiniteSet(Existing')
  <2>1. Existing' \subseteq Runs
    BY DEF Existing
  <2> QED
    BY <2>1, HistoryAssumption, FS_Subset
<1> QED
  BY <1>1, FS_Subset, FS_CardinalityType DEF TableGoesOn

\* The creation of one run.
LEMMA CreateKept ==
  ASSUME TableInv, NEW r \in Runs, CreateRun(r)
  PROVE  TableInv' /\ TableGoesOn
<1>0. /\ table = [x \in Runs |-> table[x]] /\ \A x \in Runs : RowInv(table[x])
      /\ created \in [Runs -> Times \cup {0}]
  BY DEF TableInv
<1>1. PICK s \in Life(r)!Creations : table' = [table EXCEPT ![r] = s]
  BY DEF CreateRun
<1>2. PICK t \in Times : created' = [created EXCEPT ![r] = t]
  BY DEF CreateRun
<1>3. /\ RowInv(s) /\ GoesOn(table[r], s)
      /\ table[r].status = "none" /\ s.status # "none"
  BY <1>0, CreationKept
<1>4. table' = [x \in Runs |-> table'[x]] /\ \A x \in Runs : table'[x] = IF x = r THEN s ELSE table[x]
  BY <1>0, <1>1
<1>5. TableInv'
  <2>1. created' \in [Runs -> Times \cup {0}]
    BY <1>0, <1>2
  <2>2. \A x \in Runs : RowInv(table'[x])
    BY <1>0, <1>3, <1>4
  <2> QED
    BY <1>4, <2>1, <2>2 DEF TableInv
<1>6. \A x \in Runs : GoesOn(table[x], table[x]')
  <2>1. \A x \in Runs : GoesOn(table[x], table[x])
    BY DEF GoesOn
  <2> QED
    BY <1>3, <1>4, <2>1
<1>7. Existing \subseteq Existing' /\ \A x \in Existing : x \in Runs /\ x # r
  BY <1>3, <1>4 DEF Existing
<1>8. \A x \in Existing : created'[x] = created[x]
  BY <1>0, <1>2, <1>7
<1> QED
  BY <1>5, <1>6, <1>7, <1>8 DEF TableGoesOn

\* Rows that are written leave the order of the runs as it is.
LEMMA RowsKept ==
  ASSUME TableInv, UNCHANGED created, table' = [r \in Runs |-> table'[r]],
         \A r \in Runs : /\ RowInv(table'[r]) /\ GoesOn(table[r], table'[r])
                         /\ table'[r].status = "none" <=> table[r].status = "none"
  PROVE  TableInv' /\ TableGoesOn
<1>1. Existing' = Existing
  BY DEF Existing
<1>2. TableInv'
  BY DEF TableInv
<1> QED
  BY <1>1, <1>2 DEF TableGoesOn

\* One run proceeds.
LEMMA ProceedKept ==
  ASSUME TableInv, NEW r \in Runs, RunProceeds(r)
  PROVE  TableInv' /\ TableGoesOn
<1>1. PICK s \in Life(r)!Works \cup Life(r)!Cancellations : table' = [table EXCEPT ![r] = s]
  BY DEF RunProceeds
<1>2. RowInv(s) /\ GoesOn(table[r], s) /\ table[r].status # "none" /\ s.status # "none"
  BY WorkKept, CancellationKept DEF TableInv
<1>3. table' = [x \in Runs |-> table'[x]] /\ \A x \in Runs : table'[x] = IF x = r THEN s ELSE table[x]
  BY <1>1 DEF TableInv
<1>4. \A x \in Runs : RowInv(table[x]) /\ GoesOn(table[x], table[x])
  BY DEF TableInv, GoesOn
<1>5. UNCHANGED created
  BY DEF RunProceeds
<1> QED
  BY <1>2, <1>3, <1>4, <1>5, RowsKept

\* The tasks of all runs end with the process.
LEMMA ProcessDeathKept ==
  ASSUME TableInv, ProcessDies
  PROVE  TableInv' /\ TableGoesOn
<1> DEFINE next(r) == IF table[r].status = "none" THEN table[r] ELSE [table[r] EXCEPT !.over = TRUE]
<1>1. table' = [r \in Runs |-> next(r)] /\ UNCHANGED created
  BY DEF ProcessDies
<1>2. ASSUME NEW r \in Runs
      PROVE  RowInv(next(r)) /\ GoesOn(table[r], next(r)) /\ next(r).status = table[r].status
  <2>1. RowInv(table[r]) /\ GoesOn(table[r], table[r])
    BY DEF TableInv, GoesOn
  <2> QED
    BY <2>1, AbandonmentKept
<1> HIDE DEF next
<1>3. table' = [r \in Runs |-> table'[r]] /\ \A r \in Runs : table'[r] = next(r)
  BY <1>1
<1> QED
  BY <1>1, <1>2, <1>3, RowsKept

\* Nothing happens to the runs.
LEMMA TableStands ==
  ASSUME TableInv, UNCHANGED <<table, created>>
  PROVE  TableInv' /\ TableGoesOn
<1>1. \A r \in Runs : /\ RowInv(table'[r]) /\ GoesOn(table[r], table'[r])
                      /\ table'[r].status = "none" <=> table[r].status = "none"
  BY DEF TableInv, GoesOn
<1> QED
  BY <1>1, RowsKept DEF TableInv

\* Every step of the process leaves the table in order.
LEMMA TableStep ==
  ASSUME TableInv, [ReadersNext]_readersVars
  PROVE  TableInv' /\ TableGoesOn
<1>1. CASE UNCHANGED <<table, created>>
  BY <1>1, TableStands
<1>2. CASE RunGoesOn
  BY <1>2, CreateKept, ProceedKept DEF RunGoesOn
<1>3. CASE ProcessDies
  BY <1>3, ProcessDeathKept
<1>4. Arrives \/ QueryGoesOn \/ ObserverGoesOn \/ UNCHANGED readersVars => UNCHANGED <<table, created>>
  BY DEF Arrives, Ask, QueryGoesOn, Query, ObserverGoesOn, readersVars, historyVars
<1> QED
  BY <1>1, <1>2, <1>3, <1>4 DEF ReadersNext
-----------------------------------------------------------------------------
(* The requests *)

\* A request that has been told nothing keeps what it was asked in order.
LEMMA FreshKept ==
  ASSUME TableInv', NEW q \in Readers, got'[q] = <<>>,
         ask'[q].what \in DOMAIN Queries,
         ask'[q].what = "nothing" => ask'[q] = Unasked,
         ask'[q].what \in {"detail", "replay"} => ask'[q].run \in Runs,
         ask'[q].what = "replay" =>
           ask'[q].upTo \in Nat /\ ask'[q].known \subseteq table'[ask'[q].run].stored,
         ask'[q].what = "runs" => ask'[q].known \subseteq Existing'
  PROVE  RequestInv(q)'
<1>1. ToSet(got'[q]) = {} /\ Len(got'[q]) = 0 /\ got'[q] \in Seq(ToSet(got'[q]))
  BY EmptySeq DEF ToSet
<1>2. \A query : Told(q, query)' = {}
  BY <1>1 DEF Told
<1>3. AskInv(q)'
  <2>1. ask'[q].what # "runs" => 0 <= Len(Queries[ask'[q].what])
    BY DEF Queries
  <2> QED
    BY <1>1, <2>1 DEF AskInv
<1>4. DetailInv(q)' /\ ReplayInv(q)' /\ StatisticsInv(q)'
  BY <1>2 DEF DetailInv, ReplayInv, StatisticsInv
<1>5. PagesInv(q)'
  <2>1. ASSUME ask'[q].what = "runs"
        PROVE  ~ Complete(q)'
    BY <1>1, <2>1 DEF Complete
  <2>2. \A r : Cardinality(Younger(r)') \in Nat
    <3>1. \A r : Younger(r)' \subseteq Runs
      BY DEF Younger, Existing
    <3> QED
      BY <3>1, HistoryAssumption, FS_Subset, FS_CardinalityType
  <2>3. (Len(got'[q]) \div 2) * PageSize = 0
    BY <1>1, HistoryAssumption
  <2>4. \A r : Cardinality(Younger(r)') >= 0
    BY <2>2
  <2>5. (UNION Told(q, "page"))' = {}
    BY <1>2
  <2> QED
    BY <2>1, <2>3, <2>4, <2>5 DEF PagesInv
<1> QED
  BY <1>3, <1>4, <1>5 DEF RequestInv

\* What has been told stays true while the runs go on.
LEMMA RequestStays ==
  ASSUME TableInv, TableInv', TableGoesOn, NEW q \in Readers, RequestInv(q),
         ask'[q] = ask[q], got'[q] = got[q]
  PROVE  RequestInv(q)'
<1>1. (\A query : Told(q, query)' = Told(q, query)) /\ Complete(q)' = Complete(q)
  BY DEF Told, Complete
<1>2. AskInv(q)'
  BY DEF RequestInv, AskInv, TableGoesOn, GoesOn
<1>3. DetailInv(q)'
  BY <1>1 DEF RequestInv, AskInv, DetailInv, TableGoesOn, GoesOn
<1>4. ReplayInv(q)'
  BY <1>1 DEF RequestInv, ReplayInv
<1>5. StatisticsInv(q)'
  <2>1. ASSUME NEW total \in Told(q, "count")
        PROVE  total \in Nat /\ total <= Cardinality(Existing')
    <3>1. total \in Nat /\ total <= Cardinality(Existing)
      BY DEF RequestInv, StatisticsInv
    <3> QED
      BY <3>1, Counted, NumberGrows
  <2> QED
    BY <1>1, <2>1 DEF RequestInv, StatisticsInv
<1>6. PagesInv(q)'
  <2>1. SUFFICES ASSUME ask[q].what = "runs"
                 PROVE  PagesInv(q)'
    BY DEF PagesInv
  <2> DEFINE skipped == (Len(got[q]) \div 2) * PageSize
  <2>2. /\ UNION Told(q, "page") \subseteq Existing /\ ask[q].known \subseteq Existing
        /\ \A r \in ask[q].known : Listed(q, r) \/ Cardinality(Younger(r)) >= skipped
        /\ Complete(q) => \A r \in ask[q].known : Listed(q, r)
    BY <2>1 DEF RequestInv, PagesInv, AskInv
  <2>3. Existing \subseteq Existing'
    BY DEF TableGoesOn
  <2>4. ASSUME NEW r \in ask[q].known, Listed(q, r)
        PROVE  Listed(q, r)'
    <3>1. PICK s \in UNION Told(q, "page") : created[s] = created[r]
      BY <2>4 DEF Listed
    <3>2. created'[s] = created[s] /\ created'[r] = created[r]
      BY <2>2 DEF TableGoesOn
    <3> QED
      BY <1>1, <3>1, <3>2 DEF Listed
  <2>5. skipped \in Int
    <3> DEFINE n == Len(got[q])
               k == n \div 2
    <3>1. n \in Nat
      BY LenProperties DEF RequestInv, AskInv
    <3> HIDE DEF n
    <3>2. k \in Int
      BY <3>1
    <3> HIDE DEF k
    <3>3. k * PageSize \in Int
      BY <3>2, HistoryAssumption
    <3> QED
      BY <3>3 DEF k, n
  <2> HIDE DEF skipped
  <2>6. ASSUME NEW r \in ask[q].known, Cardinality(Younger(r)) >= skipped
        PROVE  Cardinality(Younger(r)') >= skipped
    <3>1. /\ Cardinality(Younger(r)) <= Cardinality(Younger(r)')
          /\ Cardinality(Younger(r)) \in Nat /\ Cardinality(Younger(r)') \in Nat
      <4>1. IsFiniteSet(Younger(r)')
        <5>1. Younger(r)' \subseteq Runs
          BY DEF Existing, Younger
        <5> QED
          BY <5>1, HistoryAssumption, FS_Subset
      <4> QED
        BY <2>2, <4>1, YoungerGrow, Counted, FS_CardinalityType
    <3> QED
      BY <2>5, <2>6, <3>1
  <2>7. (Len(got'[q]) \div 2) * PageSize = skipped
    BY DEF skipped
  <2> QED
    BY <1>1, <2>2, <2>3, <2>4, <2>6, <2>7 DEF PagesInv
<1> QED
  BY <1>2, <1>3, <1>4, <1>5, <1>6 DEF RequestInv

\* What becomes of one request leaves the others alone.
LEMMA OthersStay ==
  ASSUME HistoryInv, TableInv', TableGoesOn, NEW q \in Readers,
         ask' = [x \in Readers |-> ask'[x]], got' = [x \in Readers |-> got'[x]],
         \A x \in Readers \ {q} : ask'[x] = ask[x] /\ got'[x] = got[x],
         RequestInv(q)'
  PROVE  HistoryInv'
<1>1. ASSUME NEW x \in Readers PROVE RequestInv(x)'
  <2>1. CASE x = q
    BY <2>1
  <2>2. CASE x # q
    BY <2>2, RequestStays DEF HistoryInv
  <2> QED
    BY <2>1, <2>2
<1> QED
  BY <1>1 DEF HistoryInv

\* A request that has been told as much as it asks for when it asks for nothing.
LEMMA NothingTold ==
  ASSUME NEW q \in Readers, AskInv(q), ask[q] = Unasked
  PROVE  got[q] = <<>>
<1>1. Len(got[q]) <= 0 /\ got[q] \in Seq(ToSet(got[q]))
  BY DEF AskInv, Unasked, Queries
<1> QED
  BY <1>1, EmptySeq, LenProperties

\* A new request has been told nothing.
LEMMA AskKept ==
  ASSUME HistoryInv, NEW q \in Readers, Ask(q)
  PROVE  HistoryInv'
<1>1. TableInv /\ RequestInv(q) /\ ask[q] = Unasked /\ UNCHANGED <<table, created, got>>
  BY DEF HistoryInv, Ask
<1>2. TableInv' /\ TableGoesOn
  BY <1>1, TableStands
<1>3. got'[q] = <<>>
  BY <1>1, NothingTold DEF RequestInv
<1>4. Existing' = Existing /\ Existing \subseteq Runs
  BY <1>1 DEF Existing
<1>5. PICK new : ask' = [ask EXCEPT ![q] = new]
  BY DEF Ask, GetRunDetail, ReplayEvents, ListRuns, GetStatistics
<1>6. ask' = [x \in Readers |-> ask'[x]] /\ ask'[q] = new /\ \A x \in Readers \ {q} : ask'[x] = ask[x]
  BY <1>5 DEF HistoryInv
<1>7. \/ \E r \in Existing : new = [what |-> "detail", run |-> r]
      \/ \E r \in Existing, n \in 0..MaxNumber :
           new = [what |-> "replay", run |-> r, upTo |-> n, known |-> table[r].stored]
      \/ new = [what |-> "runs", known |-> Existing]
      \/ new = [what |-> "statistics"]
  BY <1>6 DEF Ask, GetRunDetail, ReplayEvents, ListRuns, GetStatistics, HistoryInv
<1>8. RequestInv(q)'
  <2>1. /\ new.what \in DOMAIN Queries /\ new.what # "nothing"
        /\ new.what \in {"detail", "replay"} => new.run \in Runs
        /\ new.what = "replay" => new.upTo \in Nat /\ new.known \subseteq table[new.run].stored
        /\ new.what = "runs" => new.known \subseteq Existing
    BY <1>4, <1>7, HistoryAssumption DEF Queries
  <2> QED
    BY <1>1, <1>2, <1>3, <1>4, <1>6, <2>1, FreshKept
<1>9. got' = [x \in Readers |-> got'[x]] /\ \A x \in Readers \ {q} : got'[x] = got[x]
  BY <1>1 DEF HistoryInv
<1> QED
  BY <1>2, <1>6, <1>8, <1>9, OthersStay

\* With the process, requests that have not been answered are forgotten.
LEMMA RequestsForgotten ==
  ASSUME HistoryInv, ProcessDies
  PROVE  HistoryInv'
<1>1. TableInv' /\ TableGoesOn
  BY ProcessDeathKept DEF HistoryInv
<1>2. /\ ask' = [q \in Readers |-> ask'[q]] /\ got' = [q \in Readers |-> got'[q]]
      /\ \A q \in Readers : \/ ask'[q] = ask[q] /\ got'[q] = got[q]
                            \/ ask'[q] = Unasked /\ got'[q] = <<>>
  BY DEF ProcessDies
<1>3. ASSUME NEW q \in Readers PROVE RequestInv(q)'
  <2>1. CASE ask'[q] = ask[q] /\ got'[q] = got[q]
    BY <1>1, <2>1, RequestStays DEF HistoryInv
  <2>2. CASE ask'[q] = Unasked /\ got'[q] = <<>>
    <3>1. Unasked.what = "nothing" /\ Unasked.what \in DOMAIN Queries
      BY DEF Unasked, Queries
    <3> QED
      BY <1>1, <2>2, <3>1, FreshKept
  <2> QED
    BY <1>2, <2>1, <2>2
<1> QED
  BY <1>1, <1>2, <1>3 DEF HistoryInv
-----------------------------------------------------------------------------
(* The queries *)

\* What is told is added to what was told.
LEMMA ToldMore ==
  ASSUME NEW q \in Readers, got[q] \in Seq(ToSet(got[q])), NEW a, NEW b,
         got'[q] = Append(got[q], [query |-> a, answer |-> b])
  PROVE  /\ got'[q] \in Seq(ToSet(got'[q]))
         /\ Len(got[q]) \in Nat /\ Len(got'[q]) = Len(got[q]) + 1
         /\ got'[q][Len(got[q]) + 1] = [query |-> a, answer |-> b]
         /\ \A x : Told(q, x)' = IF x = a THEN Told(q, x) \cup {b} ELSE Told(q, x)
<1> DEFINE old == got[q]
           new == got'[q]
           told == [query |-> a, answer |-> b]
           all == ToSet(old) \cup {told}
<1>1. old \in Seq(all)
  BY SeqMonotonic
<1>2. /\ new \in Seq(all) /\ Len(old) \in Nat /\ Len(new) = Len(old) + 1
      /\ DOMAIN old = 1..Len(old) /\ DOMAIN new = 1..Len(new)
      /\ \A i \in 1..Len(old) : new[i] = old[i]
      /\ new[Len(old) + 1] = told
  BY <1>1, AppendProperties, LenProperties
<1>3. ToSet(new) = all
  <2>1. DOMAIN new = (DOMAIN old) \cup {Len(old) + 1}
    BY <1>2
  <2> HIDE DEF told
  <2> QED
    BY <1>2, <2>1 DEF ToSet
<1>4. \A x : Told(q, x)' = IF x = a THEN Told(q, x) \cup {b} ELSE Told(q, x)
  <2>1. \A x, v : v \in Told(q, x)' <=> \E y \in all : y.query = x /\ v = y.answer
    BY <1>3 DEF Told
  <2>2. \A x, v : v \in Told(q, x) <=> \E y \in ToSet(old) : y.query = x /\ v = y.answer
    BY DEF Told
  <2>3. told.query = a /\ told.answer = b
    OBVIOUS
  <2>4. \A x, v : v \in Told(q, x)' <=> v \in Told(q, x) \/ (x = a /\ v = b)
    <3> HIDE DEF told
    <3> QED
      BY <2>1, <2>2, <2>3
  <2>5. ASSUME NEW x
        PROVE  Told(q, x)' = IF x = a THEN Told(q, x) \cup {b} ELSE Told(q, x)
    <3>1. CASE x = a
      BY <2>4, <3>1
    <3>2. CASE x # a
      <4>1. \A v : v \in Told(q, x)' <=> v \in Told(q, x)
        BY <2>4, <3>2
      <4>2. Told(q, x)' = Told(q, x)
        BY <4>1
      <4> QED
        BY <3>2, <4>2
    <3> QED
      BY <3>1, <3>2
  <2> QED
    BY <2>5
<1> QED
  BY <1>2, <1>3, <1>4

\* The order in which an answer is put together.
LEMMA QueryOrder ==
  ASSUME NEW q \in Readers, AskInv(q), ~ Complete(q), NEW query,
         query = Queries[ask[q].what][(Len(got[q]) % 2) + 1]
  PROVE  /\ Len(got[q]) \in Nat /\ ask[q].what # "nothing"
         /\ ask[q].what # "runs" => Len(got[q]) \in {0, 1}
         /\ query = "row" <=> ask[q].what = "detail" /\ Len(got[q]) = 0
         /\ query = "events" <=> ask[q].what = "detail" /\ Len(got[q]) = 1
         /\ query = "head" <=> ask[q].what = "replay" /\ Len(got[q]) = 0
         /\ query = "tail" <=> ask[q].what = "replay" /\ Len(got[q]) = 1
         /\ query = "groups" <=> ask[q].what = "statistics" /\ Len(got[q]) = 1
         /\ query = "page" <=> ask[q].what = "runs" /\ Len(got[q]) % 2 = 1
         /\ query = "count" <=> (ask[q].what = "runs" /\ Len(got[q]) % 2 = 0)
                                 \/ (ask[q].what = "statistics" /\ Len(got[q]) = 0)
<1> DEFINE n == Len(got[q])
           what == ask[q].what
<1>0. n \in Nat
  BY LenProperties DEF AskInv
<1>1. what \in {"nothing", "detail", "statistics", "runs", "replay"}
  BY DEF AskInv, Queries
<1>2. what # "runs" => n <= Len(Queries[what]) /\ n # Len(Queries[what])
  BY DEF AskInv, Complete
<1>3. query = Queries[what][(n % 2) + 1]
  OBVIOUS
<1> HIDE DEF n, what
<1>4. n % 2 \in {0, 1} /\ (n = 0 => n % 2 = 0) /\ (n = 1 => n % 2 = 1)
  BY <1>0
<1>5. what # "nothing" /\ (what # "runs" => n \in {0, 1})
  <2>1. Len(Queries["nothing"]) = 0 /\ \A w \in {"detail", "statistics", "replay"} : Len(Queries[w]) = 2
    BY DEF Queries
  <2>2. what \in {"detail", "statistics", "replay"} => n <= 2 /\ n # 2
    BY <1>2, <2>1
  <2>3. what = "nothing" => n <= 0 /\ n # 0
    BY <1>2, <2>1
  <2> QED
    BY <1>0, <1>1, <2>2, <2>3
<1>6. /\ Queries["detail"][1] = "row" /\ Queries["detail"][2] = "events"
      /\ Queries["replay"][1] = "head" /\ Queries["replay"][2] = "tail"
      /\ Queries["runs"][1] = "count" /\ Queries["runs"][2] = "page"
      /\ Queries["statistics"][1] = "count" /\ Queries["statistics"][2] = "groups"
  BY DEF Queries
<1>7. /\ n \in Nat /\ what # "nothing"
      /\ what # "runs" => n \in {0, 1}
      /\ query = "row" <=> what = "detail" /\ n = 0
      /\ query = "events" <=> what = "detail" /\ n = 1
      /\ query = "head" <=> what = "replay" /\ n = 0
      /\ query = "tail" <=> what = "replay" /\ n = 1
      /\ query = "groups" <=> what = "statistics" /\ n = 1
      /\ query = "page" <=> what = "runs" /\ n % 2 = 1
      /\ query = "count" <=> (what = "runs" /\ n % 2 = 0) \/ (what = "statistics" /\ n = 0)
  <2>1. CASE n % 2 = 0
    <3>1. query = Queries[what][1]
      BY <1>3, <2>1
    <3> QED
      BY <1>0, <1>1, <1>4, <1>5, <1>6, <2>1, <3>1
  <2>2. CASE n % 2 = 1
    <3>1. query = Queries[what][2]
      BY <1>3, <2>2
    <3> QED
      BY <1>0, <1>1, <1>4, <1>5, <1>6, <2>2, <3>1
  <2> QED
    BY <1>4, <2>1, <2>2
<1> QED
  BY <1>7 DEF n, what
\* What a query returns, and that it is told to the request.
Returns(q, query, answer) ==
  /\ got' = [got EXCEPT ![q] = Append(got[q], [query |-> query, answer |-> answer])]
  /\ query = Queries[ask[q].what][(Len(got[q]) % 2) + 1]
  /\ query = "row" => answer = table[ask[q].run].status
  /\ query = "events" => answer = table[ask[q].run].stored
  /\ query = "head" => answer = EventsUpTo(ask[q].run, ask[q].upTo)
  /\ query = "tail" => answer = EventsFrom(ask[q].run, ask[q].upTo + 1)
  /\ query = "count" => answer = Cardinality(Existing)
  /\ query = "groups" => answer = ByStatus
  /\ query = "page" => answer \in Pages((Len(got[q]) \div 2) * PageSize)

\* Each query returns what is committed when it runs.
LEMMA QueryAnswer ==
  ASSUME NEW q \in Readers, Query(q)
  PROVE  \E query, answer : Returns(q, query, answer)
<1> DEFINE name == Queries[ask[q].what][(Len(got[q]) % 2) + 1]
<1>1. PICK answer \in Answers(q, name) :
        got' = [got EXCEPT ![q] = Append(got[q], [query |-> name, answer |-> answer])]
  BY DEF Query
<1> HIDE DEF name
<1>2. /\ name = "row" => answer = table[ask[q].run].status
      /\ name = "events" => answer = table[ask[q].run].stored
      /\ name = "head" => answer = EventsUpTo(ask[q].run, ask[q].upTo)
      /\ name = "tail" => answer = EventsFrom(ask[q].run, ask[q].upTo + 1)
      /\ name = "count" => answer = Cardinality(Existing)
      /\ name = "groups" => answer = ByStatus
      /\ name = "page" => answer \in Pages((Len(got[q]) \div 2) * PageSize)
  BY DEF Answers
<1>3. name = Queries[ask[q].what][(Len(got[q]) % 2) + 1]
  BY DEF name
<1>4. PICK query : query = name
  OBVIOUS
<1>5. Returns(q, query, answer)
  BY <1>1, <1>2, <1>3, <1>4 DEF Returns
<1> QED
  BY <1>5

\* The sizes of sets that have nothing in common add up.
LEMMA DisjointSizes ==
  ASSUME NEW S, IsFiniteSet(S), NEW T, IsFiniteSet(T), S \cap T = {}
  PROVE  IsFiniteSet(S \cup T) /\ Cardinality(S \cup T) = Cardinality(S) + Cardinality(T)
<1>1. Cardinality(S) \in Nat /\ Cardinality(T) \in Nat /\ Cardinality(S \cap T) = 0
  BY FS_EmptySet, FS_CardinalityType
<1>2. /\ IsFiniteSet(S \cup T)
      /\ Cardinality(S \cup T) = Cardinality(S) + Cardinality(T) - Cardinality(S \cap T)
  BY FS_Union
<1> QED
  BY <1>1, <1>2

\* The five numbers by status add up to the number of runs.
LEMMA NumbersAddUp ==
  ASSUME TableInv
  PROVE  Sum(ByStatus) = Cardinality(Existing)
<1> DEFINE With(s) == {r \in Existing : table[r].status = s}
<1>1. Existing \subseteq Runs /\ \A r \in Existing : table[r].status # "none"
  BY DEF Existing
<1>2. IsFiniteSet(Existing)
  BY Counted
<1>3. ByStatus["completed"] = Cardinality(With("completed")) /\ ByStatus["failed"] = Cardinality(With("failed"))
      /\ ByStatus["running"] = Cardinality(With("running")) /\ ByStatus["pending"] = Cardinality(With("pending"))
      /\ ByStatus["cancelled"] = Cardinality(With("cancelled"))
  BY DEF ByStatus, Statuses
<1>4. \A s : IsFiniteSet(With(s)) /\ Cardinality(With(s)) \in Nat
  BY <1>2, FS_Subset, FS_CardinalityType
<1>5. Existing = With("completed") \cup With("failed") \cup With("running") \cup With("pending") \cup With("cancelled")
  BY <1>1 DEF TableInv, RowInv, Row, Statuses
<1>6. \A s, t : s # t => With(s) \cap With(t) = {}
  OBVIOUS
<1> DEFINE two == With("completed") \cup With("failed")
           three == two \cup With("running")
           four == three \cup With("pending")
<1>7. /\ two \cap With("running") = {} /\ three \cap With("pending") = {}
      /\ four \cap With("cancelled") = {} /\ With("completed") \cap With("failed") = {}
  BY <1>6
<1> HIDE DEF With
<1>8. /\ IsFiniteSet(two)
      /\ Cardinality(two) = Cardinality(With("completed")) + Cardinality(With("failed"))
  BY <1>4, <1>7, DisjointSizes
<1> HIDE DEF two
<1>9. IsFiniteSet(three) /\ Cardinality(three) = Cardinality(two) + Cardinality(With("running"))
  BY <1>4, <1>7, <1>8, DisjointSizes
<1> HIDE DEF three
<1>10. IsFiniteSet(four) /\ Cardinality(four) = Cardinality(three) + Cardinality(With("pending"))
  BY <1>4, <1>7, <1>9, DisjointSizes
<1>11. Existing = four \cup With("cancelled")
  BY <1>5 DEF two, three
<1> HIDE DEF four
<1>12. Cardinality(Existing) = Cardinality(four) + Cardinality(With("cancelled"))
  BY <1>4, <1>7, <1>10, <1>11, DisjointSizes
<1> QED
  BY <1>3, <1>4, <1>8, <1>9, <1>10, <1>12 DEF Sum
\* The detail: the events are read after the row, of which "completed" is the last word.
LEMMA DetailTold ==
  ASSUME TableInv, NEW q \in Readers, RequestInv(q), ~ Complete(q), ask'[q] = ask[q],
         UNCHANGED table, NEW query, NEW answer, Returns(q, query, answer),
         \A x : Told(q, x)' = IF x = query THEN Told(q, x) \cup {answer} ELSE Told(q, x)
  PROVE  DetailInv(q)'
<1>1. AskInv(q) /\ DetailInv(q)
  BY DEF RequestInv
<1>2. /\ query = "row" => ask[q].what = "detail" /\ Len(got[q]) = 0
      /\ query = "events" => ask[q].what = "detail" /\ Len(got[q]) = 1
  BY <1>1, QueryOrder DEF Returns
<1>3. CASE query = "row"
  <2>1. ask[q].run \in Runs /\ RowInv(table[ask[q].run])
    BY <1>1, <1>2, <1>3 DEF AskInv, TableInv
  <2>2. Told(q, "events") = {}
    <3>1. got[q] = <<>>
      BY <1>1, <1>2, <1>3, EmptySeq, LenProperties DEF AskInv
    <3> QED
      BY <3>1 DEF Told, ToSet
  <2>3. Told(q, "row")' = Told(q, "row") \cup {table[ask[q].run].status} /\ Told(q, "events")' = {}
    BY <1>3, <2>2 DEF Returns
  <2> QED
    BY <1>1, <1>2, <1>3, <2>1, <2>3 DEF DetailInv, RowInv
<1>4. CASE query = "events"
  <2>1. OutcomeLast(table[ask[q].run].stored)
    BY <1>1, <1>2, <1>4 DEF AskInv, TableInv, RowInv
  <2>2. /\ Told(q, "row")' = Told(q, "row")
        /\ Told(q, "events")' = Told(q, "events") \cup {table[ask[q].run].stored}
    BY <1>4 DEF Returns
  <2> QED
    BY <1>1, <2>1, <2>2 DEF DetailInv
<1>5. CASE query \notin {"row", "events"}
  <2>1. Told(q, "row")' = Told(q, "row") /\ Told(q, "events")' = Told(q, "events")
    BY <1>5
  <2> QED
    BY <1>1, <2>1 DEF DetailInv
<1> QED
  BY <1>3, <1>4, <1>5

\* The replay: what was stored at first is in the part its number belongs to.
LEMMA ReplayTold ==
  ASSUME TableInv, NEW q \in Readers, RequestInv(q), ~ Complete(q), ask'[q] = ask[q],
         NEW query, NEW answer, Returns(q, query, answer),
         \A x : Told(q, x)' = IF x = query THEN Told(q, x) \cup {answer} ELSE Told(q, x)
  PROVE  ReplayInv(q)'
<1>1. AskInv(q) /\ ReplayInv(q)
  BY DEF RequestInv
<1>2. query \in {"head", "tail"} => ask[q].what = "replay"
  BY <1>1, QueryOrder DEF Returns
<1>3. query \in {"head", "tail"} =>
        /\ ask[q].upTo \in Nat
        /\ ask[q].known \subseteq table[ask[q].run].stored
        /\ \A e \in ask[q].known : e.seq \in Nat
  <2>1. query \in {"head", "tail"} => ask[q].run \in Runs
    BY <1>1, <1>2 DEF AskInv
  <2>2. \A r \in Runs : \A e \in table[r].stored : e.seq \in Nat
    BY HistoryAssumption DEF TableInv, RowInv, Row
  <2> QED
    BY <1>1, <1>2, <2>1, <2>2 DEF AskInv
<1>4. CASE query = "head"
  <2>1. {e \in ask[q].known : e.seq <= ask[q].upTo} \subseteq answer
    BY <1>3, <1>4 DEF Returns, EventsUpTo
  <2>2. Told(q, "head")' = Told(q, "head") \cup {answer} /\ Told(q, "tail")' = Told(q, "tail")
    BY <1>4
  <2> QED
    BY <1>1, <1>2, <1>4, <2>1, <2>2 DEF ReplayInv
<1>5. CASE query = "tail"
  <2>1. {e \in ask[q].known : e.seq > ask[q].upTo} \subseteq answer
    BY <1>3, <1>5 DEF Returns, EventsFrom
  <2>2. Told(q, "tail")' = Told(q, "tail") \cup {answer} /\ Told(q, "head")' = Told(q, "head")
    BY <1>5
  <2> QED
    BY <1>1, <1>2, <1>5, <2>1, <2>2 DEF ReplayInv
<1>6. CASE query \notin {"head", "tail"}
  <2>1. Told(q, "head")' = Told(q, "head") /\ Told(q, "tail")' = Told(q, "tail")
    BY <1>6
  <2> QED
    BY <1>1, <2>1 DEF ReplayInv
<1> QED
  BY <1>4, <1>5, <1>6

\* The statistics: there are at least as many runs when they are counted by status as
\* there were before.
LEMMA StatisticsTold ==
  ASSUME TableInv, NEW q \in Readers, RequestInv(q), ~ Complete(q), ask'[q] = ask[q],
         UNCHANGED <<table, created>>, NEW query, NEW answer, Returns(q, query, answer),
         \A x : Told(q, x)' = IF x = query THEN Told(q, x) \cup {answer} ELSE Told(q, x)
  PROVE  StatisticsInv(q)'
<1>1. AskInv(q) /\ StatisticsInv(q) /\ Cardinality(Existing) \in Nat
  BY Counted DEF RequestInv
<1>0. Existing' = Existing
  BY DEF Existing
<1>2. /\ query = "groups" => ask[q].what = "statistics"
      /\ query = "count" => ask[q].what = "runs" \/ Len(got[q]) = 0
  BY <1>1, QueryOrder DEF Returns
<1>3. CASE query = "count"
  <2>1. Told(q, "groups") = {}
    <3>1. CASE ask[q].what = "runs"
      BY <1>1, <3>1 DEF StatisticsInv
    <3>2. CASE Len(got[q]) = 0
      <4>1. got[q] = <<>>
        BY <1>1, <3>2, EmptySeq, LenProperties DEF AskInv
      <4> QED
        BY <4>1 DEF Told, ToSet
    <3> QED
      BY <1>2, <1>3, <3>1, <3>2
  <2>2. Told(q, "count")' = Told(q, "count") \cup {Cardinality(Existing)} /\ Told(q, "groups")' = {}
    BY <1>3, <2>1 DEF Returns
  <2> QED
    BY <1>0, <1>1, <2>2 DEF StatisticsInv
<1>4. CASE query = "groups"
  <2>1. answer = ByStatus /\ Sum(answer) = Cardinality(Existing)
    BY <1>4, NumbersAddUp DEF Returns
  <2>2. Told(q, "groups")' = Told(q, "groups") \cup {answer} /\ Told(q, "count")' = Told(q, "count")
    BY <1>4
  <2> QED
    BY <1>0, <1>1, <1>2, <1>4, <2>1, <2>2 DEF StatisticsInv
<1>5. CASE query \notin {"count", "groups"}
  <2>1. Told(q, "groups")' = Told(q, "groups") /\ Told(q, "count")' = Told(q, "count")
    BY <1>5
  <2> QED
    BY <1>0, <1>1, <2>1 DEF StatisticsInv
<1> QED
  BY <1>3, <1>4, <1>5
\* What a page holds of those created at one time, and what an empty one says.
LEMMA PageHolds ==
  ASSUME TableInv, NEW offset \in Nat, NEW page \in Pages(offset)
  PROVE  /\ page \subseteq Existing
         /\ \A r \in Existing :
              Cardinality(Younger(r)) >= offset /\ Cardinality(Younger(r)) < offset + PageSize
                => \E s \in page : created[s] = created[r]
         /\ page = {} => \A r \in Existing : Cardinality(Younger(r)) < offset
<1> DEFINE places == offset..(offset + PageSize - 1)
           number == Cardinality(Existing)
<1>1. /\ page \subseteq Existing
      /\ Cardinality(page) = Cardinality(places \cap 0..(number - 1))
      /\ \A r \in Existing : Cardinality(page \cap Tied(r)) = Cardinality(places \cap Ranks(r))
  BY DEF Pages, PagesOf
<1>2. number \in Nat /\ PageSize \in Nat \ {0} /\ IsFiniteSet(places)
  BY Counted, HistoryAssumption, FS_Interval
<1>3. ASSUME NEW r \in Existing,
             Cardinality(Younger(r)) >= offset, Cardinality(Younger(r)) < offset + PageSize
      PROVE  \E s \in page : created[s] = created[r]
  <2>1. Cardinality(Younger(r)) \in Nat /\ IsFiniteSet(Tied(r)) /\ Cardinality(Tied(r)) \in Nat
    BY Counted
  <2>2. Cardinality(Tied(r)) # 0
    <3>1. r \in Tied(r)
      BY DEF Tied
    <3> QED
      BY <2>1, <3>1, FS_EmptySet
  <2>3. Cardinality(Younger(r)) \in places \cap Ranks(r)
    <3> DEFINE y == Cardinality(Younger(r))
               t == Cardinality(Tied(r))
    <3>1. y >= offset /\ y < offset + PageSize
      BY <1>3
    <3>0. y \in Nat /\ t \in Nat /\ t # 0
      BY <2>1, <2>2
    <3>2. Ranks(r) = y..(y + t - 1)
      BY DEF Ranks
    <3> HIDE DEF y, t
    <3>3. y \in places /\ y \in y..(y + t - 1)
      BY <1>2, <3>0, <3>1
    <3> QED
      BY <3>2, <3>3 DEF y
  <2>4. Cardinality(places \cap Ranks(r)) # 0
    <3>1. IsFiniteSet(places \cap Ranks(r))
      BY <1>2, FS_Intersection
    <3> QED
      BY <2>3, <3>1, FS_EmptySet
  <2>5. page \cap Tied(r) # {}
    BY <1>1, <2>4, FS_EmptySet
  <2> QED
    BY <2>5 DEF Tied
<1>4. ASSUME page = {}, NEW r \in Existing
      PROVE  Cardinality(Younger(r)) < offset
  <2>1. places \cap 0..(number - 1) = {}
    <3>1. IsFiniteSet(places \cap 0..(number - 1))
      BY <1>2, FS_Intersection
    <3> QED
      BY <1>1, <1>4, <3>1, FS_EmptySet
  <2>2. ~ (offset < number)
    <3>1. offset \in places
      BY <1>2
    <3>2. offset < number => offset \in 0..(number - 1)
      BY <1>2
    <3> QED
      BY <2>1, <3>1, <3>2
  <2>3. Cardinality(Younger(r)) < number
    <3>1. Younger(r) \subseteq Existing /\ r \notin Younger(r)
      <4>1. r \in Runs /\ created[r] \in Nat
        BY HistoryAssumption DEF Existing, TableInv
      <4> QED
        BY <4>1 DEF Younger
    <3>2. Cardinality(Younger(r)) <= number /\ Cardinality(Younger(r)) # number
      BY <1>4, <3>1, Counted, FS_Subset
    <3>3. Cardinality(Younger(r)) \in Nat
      BY Counted
    <3> HIDE DEF number
    <3> QED
      BY <1>2, <3>2, <3>3
  <2>4. Cardinality(Younger(r)) \in Nat
    BY Counted
  <2> HIDE DEF number
  <2> QED
    BY <1>2, <2>2, <2>3, <2>4
<1> QED
  BY <1>1, <1>3, <1>4

\* The pages: another page is read, or another total for it.
LEMMA PagesTold ==
  ASSUME TableInv, NEW q \in Readers, RequestInv(q), ~ Complete(q), ask'[q] = ask[q],
         UNCHANGED <<table, created>>, NEW query, NEW answer, Returns(q, query, answer),
         Len(got[q]) \in Nat, Len(got'[q]) = Len(got[q]) + 1,
         got'[q][Len(got[q]) + 1] = [query |-> query, answer |-> answer],
         \A x : Told(q, x)' = IF x = query THEN Told(q, x) \cup {answer} ELSE Told(q, x)
  PROVE  PagesInv(q)'
<1> SUFFICES ASSUME ask[q].what = "runs"
             PROVE  PagesInv(q)'
  BY DEF PagesInv
<1> DEFINE n == Len(got[q])
           known == ask[q].known
           offset == (n \div 2) * PageSize
<1>1. /\ AskInv(q) /\ known \subseteq Existing /\ UNION Told(q, "page") \subseteq Existing
      /\ \A r \in known : Listed(q, r) \/ Cardinality(Younger(r)) >= offset
  BY DEF RequestInv, PagesInv, AskInv
<1>2. (query = "page" /\ n % 2 = 1) \/ (query = "count" /\ n % 2 = 0)
  <2>1. n \in Nat
    OBVIOUS
  <2>2. n % 2 \in {0, 1}
    <3> HIDE DEF n
    <3> QED
      BY <2>1
  <2>3. (query = "page" <=> n % 2 = 1) /\ (query = "count" <=> n % 2 = 0)
    BY <1>1, QueryOrder DEF Returns
  <2> HIDE DEF n
  <2> QED
    BY <2>2, <2>3
<1>3. Existing' = Existing /\ \A r : Younger(r)' = Younger(r)
  BY DEF Existing, Younger
<1>4. /\ n \in Nat /\ PageSize \in Nat \ {0} /\ n \div 2 \in Nat
      /\ n % 2 = 0 => (n + 1) \div 2 = n \div 2
      /\ n % 2 = 1 => (n + 1) \div 2 = (n \div 2) + 1
  <2>1. n \in Nat
    OBVIOUS
  <2> HIDE DEF n
  <2>2. /\ n \div 2 \in Nat
        /\ n % 2 = 0 => (n + 1) \div 2 = n \div 2
        /\ n % 2 = 1 => (n + 1) \div 2 = (n \div 2) + 1
    BY <2>1
  <2> QED
    BY <2>1, <2>2, HistoryAssumption
<1>5. offset \in Nat /\ ((n \div 2) + 1) * PageSize = offset + PageSize
  <2>1. ASSUME NEW k \in Nat, NEW p \in Nat
        PROVE  k * p \in Nat /\ (k + 1) * p = k * p + p
    OBVIOUS
  <2> HIDE DEF n
  <2> QED
    BY <1>4, <2>1
<1>6. Complete(q)' <=> query = "page" /\ answer = {}
  <2>1. Complete(q)' <=> [query |-> query, answer |-> answer] = [query |-> "page", answer |-> {}]
    BY <1>4 DEF Complete
  <2> QED
    BY <2>1
<1>7. CASE query = "count" /\ n % 2 = 0
  <2>1. (Len(got'[q]) \div 2) * PageSize = offset
    BY <1>4, <1>7
  <2>2. Told(q, "page")' = Told(q, "page")
    BY <1>7
  <2>3. ~ Complete(q)'
    BY <1>6, <1>7
  <2>4. \A r : Listed(q, r)' <=> Listed(q, r)
    BY <2>2 DEF Listed
  <2> HIDE DEF offset
  <2> QED
    BY <1>1, <1>3, <2>1, <2>2, <2>3, <2>4 DEF PagesInv, known
<1>8. CASE query = "page" /\ n % 2 = 1
  <2>1. (Len(got'[q]) \div 2) * PageSize = offset + PageSize
    BY <1>4, <1>5, <1>8
  <2>0. /\ answer \in Pages(offset)
        /\ Told(q, "page")' = Told(q, "page") \cup {answer}
    BY <1>8 DEF Returns
  <2>2. \A x : x \in UNION Told(q, "page")' <=> x \in UNION Told(q, "page") \/ x \in answer
    <3> HIDE DEF offset
    <3> QED
      BY <2>0
  <2>3. /\ answer \subseteq Existing
        /\ \A r \in Existing :
             Cardinality(Younger(r)) >= offset /\ Cardinality(Younger(r)) < offset + PageSize
               => \E s \in answer : created[s] = created[r]
        /\ answer = {} => \A r \in Existing : Cardinality(Younger(r)) < offset
    <3> HIDE DEF offset
    <3> QED
      BY <1>5, <2>0, PageHolds
  <2> HIDE DEF n, offset, known
  <2>4. \A r : Listed(q, r)' <=> Listed(q, r) \/ \E s \in answer : created[s] = created[r]
    <3>1. created' = created
      OBVIOUS
    <3>2. \A r : Listed(q, r)' <=> \E s \in UNION Told(q, "page")' : created[s] = created[r]
      BY <3>1 DEF Listed
    <3>3. \A r : Listed(q, r) <=> \E s \in UNION Told(q, "page") : created[s] = created[r]
      BY DEF Listed
    <3> QED
      BY <2>2, <3>2, <3>3, Zenon
  <2>5. ASSUME NEW r \in known
        PROVE  Listed(q, r)' \/ Cardinality(Younger(r)) >= offset + PageSize
    <3>1. Cardinality(Younger(r)) \in Nat /\ r \in Existing
      BY <1>1, Counted
    <3>2. \/ Cardinality(Younger(r)) >= offset + PageSize
          \/ Cardinality(Younger(r)) < offset + PageSize
      BY <1>4, <1>5, <3>1
    <3> QED
      BY <1>1, <2>3, <2>4, <3>1, <3>2
  <2>6. ASSUME answer = {}, NEW r \in known
        PROVE  Listed(q, r)'
    <3>1. Cardinality(Younger(r)) \in Nat /\ Cardinality(Younger(r)) < offset
      BY <1>1, <2>3, <2>6, Counted
    <3>2. ~ (Cardinality(Younger(r)) >= offset)
      BY <1>5, <3>1
    <3> QED
      BY <1>1, <2>4, <3>2
  <2>7. Complete(q)' => \A r \in known : Listed(q, r)'
    BY <1>6, <2>6
  <2>8. UNION Told(q, "page")' \subseteq Existing'
    BY <1>1, <1>3, <2>2, <2>3
  <2>9. \A r \in known :
          \/ Listed(q, r)'
          \/ Cardinality(Younger(r)') >= (Len(got'[q]) \div 2) * PageSize
    BY <1>3, <2>1, <2>5
  <2> QED
    BY <2>7, <2>8, <2>9 DEF PagesInv, known
<1> QED
  BY <1>2, <1>7, <1>8

\* A query is answered from what is committed.
LEMMA QueryKept ==
  ASSUME HistoryInv, NEW q \in Readers, Query(q)
  PROVE  HistoryInv'
<1>1. /\ TableInv /\ RequestInv(q) /\ ~ Complete(q)
      /\ UNCHANGED <<table, created, ask>>
  BY DEF HistoryInv, Query
<1>2. PICK query, answer : Returns(q, query, answer)
  BY QueryAnswer
<1>3. TableInv' /\ TableGoesOn
  BY <1>1, TableStands
<1>4. /\ got' = [x \in Readers |-> got'[x]]
      /\ got'[q] = Append(got[q], [query |-> query, answer |-> answer])
      /\ \A x \in Readers \ {q} : got'[x] = got[x]
  BY <1>2 DEF Returns, HistoryInv
<1>5. /\ got'[q] \in Seq(ToSet(got'[q]))
      /\ Len(got[q]) \in Nat /\ Len(got'[q]) = Len(got[q]) + 1
      /\ got'[q][Len(got[q]) + 1] = [query |-> query, answer |-> answer]
      /\ \A x : Told(q, x)' = IF x = query THEN Told(q, x) \cup {answer} ELSE Told(q, x)
  BY <1>1, <1>4, ToldMore DEF RequestInv, AskInv
<1>6. AskInv(q)'
  <2>1. ask[q].what # "runs" => Len(got[q]) < Len(Queries[ask[q].what])
    <3>1. Len(Queries[ask[q].what]) \in Nat
      BY <1>1 DEF RequestInv, AskInv, Queries
    <3> QED
      BY <1>1, <1>5, <3>1 DEF RequestInv, AskInv, Complete
  <2>2. Existing' = Existing
    BY <1>1 DEF Existing
  <2>3. ask[q].what # "runs" => Len(got'[q]) <= Len(Queries[ask[q].what])
    BY <1>1, <1>5, <2>1 DEF RequestInv, AskInv, Queries
  <2> QED
    BY <1>1, <1>5, <2>2, <2>3 DEF RequestInv, AskInv
<1>7. DetailInv(q)'
  BY <1>1, <1>2, <1>5, DetailTold
<1>8. ReplayInv(q)'
  BY <1>1, <1>2, <1>5, ReplayTold
<1>9. StatisticsInv(q)'
  BY <1>1, <1>2, <1>5, StatisticsTold
<1>10. PagesInv(q)'
  BY <1>1, <1>2, <1>5, PagesTold DEF RequestInv
<1>11. RequestInv(q)'
  BY <1>6, <1>7, <1>8, <1>9, <1>10 DEF RequestInv
<1>12. ask' = [x \in Readers |-> ask'[x]] /\ \A x \in Readers : ask'[x] = ask[x]
  BY <1>1 DEF HistoryInv
<1> QED
  BY <1>3, <1>4, <1>11, <1>12, OthersStay
-----------------------------------------------------------------------------
(* The theorems *)

\* No run exists at first, and nothing is asked.
LEMMA HistoryInitial == ReadersInit => HistoryInv
<1> SUFFICES ASSUME ReadersInit
             PROVE  HistoryInv
  OBVIOUS
<1>1. /\ table = [r \in Runs |-> Life(r)!New] /\ created = [r \in Runs |-> 0]
      /\ ask = [q \in Readers |-> Unasked] /\ got = [q \in Readers |-> <<>>]
  BY DEF ReadersInit, HistoryInit
<1>2. ToSet(<<>>) = {} /\ Len(<<>>) = 0
  BY DEF ToSet
<1>3. TableInv
  <2>1. \A r \in Runs : RowInv(table[r]) /\ table[r].status = "none"
    BY <1>1 DEF Life!New, RowInv, Row, OutcomeLast
  <2> QED
    BY <1>1, <1>2, <2>1 DEF TableInv, Existing
<1>4. ASSUME NEW q \in Readers PROVE RequestInv(q)
  <2>1. ask[q] = Unasked /\ got[q] = <<>> /\ Unasked.what = "nothing"
    BY <1>1 DEF Unasked
  <2>2. \A query : Told(q, query) = {}
    BY <1>2, <2>1 DEF Told
  <2> QED
    BY <1>2, <2>1, <2>2, EmptySeq
    DEF RequestInv, AskInv, DetailInv, ReplayInv, StatisticsInv, PagesInv, Queries
<1> QED
  BY <1>1, <1>3, <1>4 DEF HistoryInv

\* Every step of the process keeps what is in the tables and what was told of it in order.
LEMMA HistoryStep ==
  ASSUME HistoryInv, [ReadersNext]_readersVars
  PROVE  HistoryInv'
<1>1. TableInv' /\ TableGoesOn
  BY TableStep DEF HistoryInv
<1>2. CASE UNCHANGED <<ask, got>>
  <2>1. \A q \in Readers : RequestInv(q)'
    BY <1>1, <1>2, RequestStays DEF HistoryInv
  <2> QED
    BY <1>1, <1>2, <2>1 DEF HistoryInv
<1>3. CASE Arrives
  BY <1>2, <1>3, AskKept DEF Arrives, historyVars
<1>4. CASE QueryGoesOn
  BY <1>4, QueryKept DEF QueryGoesOn
<1>5. CASE ProcessDies
  BY <1>5, RequestsForgotten
<1>6. RunGoesOn \/ ObserverGoesOn \/ UNCHANGED readersVars => UNCHANGED <<ask, got>>
  BY DEF RunGoesOn, CreateRun, RunProceeds, ObserverGoesOn, readersVars, historyVars
<1> QED
  BY <1>2, <1>3, <1>4, <1>5, <1>6 DEF ReadersNext

\* The invariant that the answers of the history service rest on.
THEOREM HistoryInvariant == ReadersSpec => []HistoryInv
BY HistoryInitial, HistoryStep, PTL DEF ReadersSpec

\* The bounds on what arrives and on what the runs do are kept.
LEMMA BoundsKept == ReadersSpec => [](questions \in 0..MaxQuestions /\ steps \in 0..MaxSteps)
<1> DEFINE Bounds == questions \in 0..MaxQuestions /\ steps \in 0..MaxSteps
<1>1. ReadersInit => Bounds
  BY ReadersAssumption DEF ReadersInit
<1>2. ASSUME Bounds, [ReadersNext]_readersVars
      PROVE  Bounds'
  BY <1>2, ReadersAssumption
  DEF ReadersNext, RunGoesOn, Arrives, QueryGoesOn, ObserverGoesOn, ProcessDies, readersVars
<1> QED
  BY <1>1, <1>2, PTL DEF ReadersSpec

\* The invariant types the variables of the history service.
LEMMA InvTypesHistory == HistoryInv => HistoryTypeOK
<1> SUFFICES ASSUME HistoryInv
             PROVE  HistoryTypeOK
  OBVIOUS
<1>1. TableInv /\ \A q \in Readers : AskInv(q)
  BY DEF HistoryInv, RequestInv
<1>2. ASSUME NEW r \in Runs
      PROVE  table[r].status \in Statuses \cup {"none"} /\ table[r].stored \subseteq Life(r)!Events
  BY <1>1 DEF TableInv, RowInv, Row, Life!Events, Life!Terminal
<1>3. created \in [Runs -> Times \cup {0}]
  BY <1>1 DEF TableInv
<1>4. ASSUME NEW q \in Readers, ask[q] = Unasked
      PROVE  ~ (Len(got[q]) > 0)
  <2>1. got[q] = <<>>
    BY <1>1, <1>4, NothingTold
  <2> QED
    BY <2>1
<1> QED
  BY <1>2, <1>3, <1>4 DEF HistoryTypeOK

\* A status is always spelled as the statistics look it up, and all else keeps its
\* type, for any number of runs, requests and clients.
THEOREM ReadersTypeCorrect == ReadersSpec => []ReadersTypeOK
<1>1. ObserversInv => ObserversTypeOK
  BY DEF ObserversInv
<1>2. HistoryTypeOK /\ ObserversTypeOK /\ questions \in 0..MaxQuestions /\ steps \in 0..MaxSteps
        => ReadersTypeOK
  BY DEF ReadersTypeOK
<1> QED
  BY <1>1, <1>2, HistoryInvariant, InvTypesHistory, BoundsKept, ReadersImplementObservers,
     ObserversInvariant, PTL

\* get_run_detail never shows a completed run without the event that says how it
\* ended, however many writes come between its two queries.
THEOREM DetailTellsOutcomeHolds == ReadersSpec => []DetailTellsOutcome
<1>1. HistoryInv => DetailTellsOutcome
  <2> SUFFICES ASSUME HistoryInv, NEW q \in Readers, NEW status \in Told(q, "row"),
                      NEW stored \in Told(q, "events"), status = "completed"
               PROVE  /\ \E e \in stored : /\ e.kind \in {"completed", "failed"}
                                           /\ \A f \in stored \ {e} : f.seq < e.seq
                      /\ \A e \in stored : e.kind # "cancelled"
    BY DEF DetailTellsOutcome
  <2>1. Completed(stored) /\ OutcomeLast(stored)
    BY DEF HistoryInv, RequestInv, DetailInv
  <2> QED
    BY <2>1 DEF Completed, OutcomeLast, IsOutcome
<1> QED
  BY <1>1, HistoryInvariant, PTL

\* Whoever replays in two parts has all that was stored when it began.
THEOREM ReplayMissesNothingHolds == ReadersSpec => []ReplayMissesNothing
<1>1. HistoryInv => ReplayMissesNothing
  <2> SUFFICES ASSUME HistoryInv, NEW q \in Readers, NEW head \in Told(q, "head"),
                      NEW tail \in Told(q, "tail"), NEW e \in ask[q].known
               PROVE  e \in head \cup tail
    BY DEF ReplayMissesNothing
  <2>1. /\ ask[q].what = "replay"
        /\ {f \in ask[q].known : f.seq <= ask[q].upTo} \subseteq head
        /\ {f \in ask[q].known : f.seq > ask[q].upTo} \subseteq tail
    BY DEF HistoryInv, RequestInv, ReplayInv
  <2>2. ask[q].upTo \in Nat /\ ask[q].run \in Runs /\ e \in table[ask[q].run].stored
    BY <2>1 DEF HistoryInv, RequestInv, AskInv
  <2>3. e.seq \in Nat
    BY <2>2, HistoryAssumption DEF HistoryInv, TableInv, RowInv, Row
  <2>4. e.seq <= ask[q].upTo \/ e.seq > ask[q].upTo
    BY <2>2, <2>3
  <2> QED
    BY <2>1, <2>4
<1> QED
  BY <1>1, HistoryInvariant, PTL

\* Whoever pages through list_runs is told of every run that existed at first or of one
\* created at the same time, for every size of the pages, any order among runs of one
\* time, and however many runs are created meanwhile.
THEOREM PagesMissOnlyTiedHolds == ReadersSpec => []PagesMissOnlyTied
<1>1. HistoryInv => PagesMissOnlyTied
  BY DEF PagesMissOnlyTied, HistoryInv, RequestInv, PagesInv, Listed
<1> QED
  BY <1>1, HistoryInvariant, PTL

\* get_statistics leaves out no run of its total, for any number of runs.
THEOREM StatisticsAddUpHolds == ReadersSpec => []StatisticsAddUp
<1>1. HistoryInv => StatisticsAddUp
  BY DEF StatisticsAddUp, HistoryInv, RequestInv, StatisticsInv, Sum
<1> QED
  BY <1>1, HistoryInvariant, PTL

\* No write takes an event away or stores one for a run whose task is through, and
\* no run disappears from the list or is dated anew.
THEOREM HistoryOnlyGrows == ReadersSpec => [][TableGoesOn]_historyVars
<1>1. HistoryInv /\ [ReadersNext]_readersVars => [TableGoesOn]_historyVars
  BY TableStep DEF HistoryInv
<1> QED
  BY <1>1, HistoryInvariant, PTL DEF ReadersSpec
=============================================================================
