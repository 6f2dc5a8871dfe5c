----------------------------- MODULE RunHistory -----------------------------
(***************************************************************************)
(* RunHistory: the history service over a table of runs that go on while   *)
(* it reads.  Each of its answers is put together from two queries, every  *)
(* one of which sees what is committed when it runs: the row of a run and  *)
(* its events, a total and the rows of a page, a total and the numbers by  *)
(* status, or, when a client replays in two parts, the events up to some   *)
(* number and those beyond it.                                             *)
(*                                                                         *)
(* shared/workflow_events/history_service.py.                              *)
(***************************************************************************)
EXTENDS Naturals, FiniteSets, SequencesExt

CONSTANTS
  Runs,
  Readers,    \* the requests for history
  PageSize,   \* limit
  Times,      \* the times at which runs are created
  MaxNumber,  \* bound on the sequence numbers of events
  GraphKinds

\* There are finitely many runs, and a page has room for one (20 unless the caller
\* says otherwise).
ASSUME HistoryAssumption ==
  IsFiniteSet(Runs) /\ PageSize \in Nat \ {0} /\ Times \subseteq Nat /\ MaxNumber \in Nat

VARIABLES
  table,   \* workflow_runs and workflow_events, per run
  created, \* created_at of each run, 0 until it exists
  ask,     \* what each request asks for
  got      \* the queries made for it, and what they returned

historyVars == <<table, created, ask, got>>

Life(r) == INSTANCE RunLifecycle WITH run <- table[r], Numbers <- 0..MaxNumber

Statuses == {"pending", "running", "completed", "failed", "cancelled"}

Unasked == [what |-> "nothing"]

HistoryInit ==
  /\ table = [r \in Runs |-> Life(r)!New]
  /\ created = [r \in Runs |-> 0]
  /\ ask = [q \in Readers |-> Unasked]
  /\ got = [q \in Readers |-> <<>>]
-----------------------------------------------------------------------------
(* The runs *)

\* The database writes created_at.  It is the time at which the transaction began, or
\* that at which the table was made when the default is taken for a literal: runs may
\* have it in common and come into the table in another order.
CreateRun(r) ==
  /\ \E s \in Life(r)!Creations : table' = [table EXCEPT ![r] = s]
  /\ \E t \in Times : created' = [created EXCEPT ![r] = t]
  /\ UNCHANGED <<ask, got>>

RunProceeds(r) ==
  /\ \E s \in Life(r)!Works \cup Life(r)!Cancellations : table' = [table EXCEPT ![r] = s]
  /\ UNCHANGED <<created, ask, got>>
-----------------------------------------------------------------------------
(* The requests.  "known" is what was stored of its subject when it arrived;   *)
(* only the properties read it.                                                *)

Existing == {r \in Runs : table[r].status # "none"}

GetRunDetail(q, r) ==
  ask' = [ask EXCEPT ![q] = [what |-> "detail", run |-> r]]

ListRuns(q) ==
  ask' = [ask EXCEPT ![q] = [what |-> "runs", known |-> Existing]]

GetStatistics(q) ==
  ask' = [ask EXCEPT ![q] = [what |-> "statistics"]]

\* One client that replays a run up to a number and then from the next one on.
ReplayEvents(q, r, n) ==
  ask' = [ask EXCEPT ![q] = [what |-> "replay", run |-> r, upTo |-> n, known |-> table[r].stored]]

Ask(q) ==
  /\ ask[q] = Unasked
  /\ \/ \E r \in Existing : GetRunDetail(q, r) \/ \E n \in 0..MaxNumber : ReplayEvents(q, r, n)
     \/ ListRuns(q)
     \/ GetStatistics(q)
  /\ UNCHANGED <<table, created, got>>
-----------------------------------------------------------------------------
(* Their queries *)

QueriesSwapped ==
  [nothing |-> <<>>,
   detail |-> <<"events", "row">>, statistics |-> <<"groups", "count">>,
   runs |-> <<"count", "page">>, replay |-> <<"head", "tail">>]

\* The order in which an answer is put together.
Queries ==
  [nothing |-> <<>>,
   detail |-> <<"row", "events">>, statistics |-> <<"count", "groups">>,
   runs |-> <<"count", "page">>, replay |-> <<"head", "tail">>]

\* What the queries of this name have returned for a request so far.
Told(q, query) == {x.answer : x \in {y \in ToSet(got[q]) : y.query = query}}

EventsBeyond(r, n) == {e \in table[r].stored : e.seq > n}

\* from_sequence belongs to the range, unlike last_sequence of a stream.
EventsFrom(r, n) == {e \in table[r].stored : e.seq >= n}

EventsUpTo(r, n) == {e \in table[r].stored : e.seq <= n}

Younger(r) == {s \in Existing : created[s] > created[r]}

\* The order says nothing about runs that were created at the same time.
Tied(r) == {s \in Existing : created[s] = created[r]}

\* The places that a run can have in the list, the first of them being 0.
Ranks(r) ==
  Cardinality(Younger(r))..(Cardinality(Younger(r)) + Cardinality(Tied(r)) - 1)

\* What may be on a page that takes these places: as many runs as there are places,
\* and of those created at one time as many as theirs are among them.
PagesOf(ranks) ==
  {page \in SUBSET Existing :
     /\ Cardinality(page) = Cardinality(ranks \cap 0..(Cardinality(Existing) - 1))
     /\ \A r \in Existing : Cardinality(page \cap Tied(r)) = Cardinality(ranks \cap Ranks(r))}

PagesSkipping(offset) == PagesOf((offset + 1)..(offset + PageSize))

\* The youngest runs come first.
Pages(offset) == PagesOf(offset..(offset + PageSize - 1))

ByStatus == [s \in Statuses |-> Cardinality({r \in Existing : table[r].status = s})]

\* A client that lists runs goes on to the next page until one is empty.
Complete(q) ==
  LET n == Len(got[q]) IN
  IF ask[q].what = "runs" THEN n > 0 /\ got[q][n] = [query |-> "page", answer |-> {}]
                          ELSE n = Len(Queries[ask[q].what])

Answers(q, query) ==
  CASE query = "row"    -> {table[ask[q].run].status}
    [] query = "events" -> {table[ask[q].run].stored}
    [] query = "head"   -> {EventsUpTo(ask[q].run, ask[q].upTo)}
    [] query = "tail"   -> {EventsFrom(ask[q].run, ask[q].upTo + 1)}
    [] query = "count"  -> {Cardinality(Existing)}
    [] query = "groups" -> {ByStatus}
    [] query = "page"   -> Pages((Len(got[q]) \div 2) * PageSize)

Query(q) ==
  /\ ~Complete(q)
  /\ LET query == Queries[ask[q].what][(Len(got[q]) % 2) + 1]
     IN \E answer \in Answers(q, query) :
          got' = [got EXCEPT ![q] = Append(@, [query |-> query, answer |-> answer])]
  /\ UNCHANGED <<table, created, ask>>
-----------------------------------------------------------------------------
(* Properties *)

HistoryTypeOK ==
  /\ \A r \in Runs : table[r].status \in Statuses \cup {"none"} /\ table[r].stored \subseteq Life(r)!Events
  /\ created \in [Runs -> Times \cup {0}]
  /\ \A q \in Readers : Len(got[q]) > 0 => ask[q] # Unasked

\* The detail of a run that is said to be completed ends with the event that
\* carries its result and does not say that it was cancelled, although the row is
\* read before the events and both may change in between.
DetailTellsOutcome ==
  \A q \in Readers : \A status \in Told(q, "row"), stored \in Told(q, "events") :
    status = "completed" =>
      /\ \E e \in stored : /\ e.kind \in {"completed", "failed"}
                           /\ \A f \in stored \ {e} : f.seq < e.seq
      /\ \A e \in stored : e.kind # "cancelled"

\* Whoever replays a run in two parts misses nothing that was stored when it began.
ReplayMissesNothing ==
  \A q \in Readers : \A head \in Told(q, "head"), tail \in Told(q, "tail") :
    ask[q].known \subseteq head \cup tail

\* Whoever pages through the runs is told of each that existed when it began, or of
\* another one created at the same time: a run is passed over for such a one only,
\* however many younger runs push it to later pages.
PagesMissOnlyTied ==
  \A q \in Readers : ask[q].what = "runs" /\ Complete(q) =>
    \A r \in ask[q].known : \E s \in UNION Told(q, "page") : created[s] = created[r]

\* The statistics leave out no run that they count: what is missing from the
\* numbers by status they report has been cancelled.
StatisticsAddUp ==
  \A q \in Readers : \A total \in Told(q, "count"), by \in Told(q, "groups") :
    total <= by["completed"] + by["failed"] + by["running"] + by["pending"] + by["cancelled"]
=============================================================================
