----------------------------- MODULE RunReaders -----------------------------
(***************************************************************************)
(* RunReaders: both services that look at runs, in the process whose tasks *)
(* work on them.                                                           *)
(***************************************************************************)
EXTENDS RunHistory, Observers

CONSTANTS
  MaxQuestions, \* bound on the requests and joins
  MaxSteps      \* bound on them and on what the runs do, together

\* Both are numbers.
ASSUME ReadersAssumption == MaxQuestions \in Nat /\ MaxSteps \in Nat

VARIABLES
  questions, \* requests and joins so far
  steps      \* what the runs have done so far

readersVars == <<historyVars, observerVars, questions, steps>>

ReadersInit == HistoryInit /\ ObserversInit /\ questions = 0 /\ steps = 0

RunGoesOn ==
  /\ steps + questions < MaxSteps
  /\ steps' = steps + 1
  /\ \E r \in Runs : CreateRun(r) \/ RunProceeds(r)
  /\ UNCHANGED <<observerVars, questions>>

Arrives ==
  /\ questions < MaxQuestions /\ steps + questions < MaxSteps
  /\ questions' = questions + 1
  /\ \/ (\E q \in Readers : Ask(q)) /\ UNCHANGED observerVars
     \/ (\E o \in Clients, r \in WatchedRuns : Join(o, r)) /\ UNCHANGED historyVars
  /\ UNCHANGED steps

QueryGoesOn == (\E q \in Readers : Query(q)) /\ UNCHANGED <<observerVars, questions, steps>>

ObserverGoesOn ==
  /\ \E o \in Clients : Stay(o)
  /\ UNCHANGED <<historyVars, questions, steps>>

\* The tables stay; the requests under way and the observers are forgotten, and
\* no task goes on with a run.
ProcessDies ==
  /\ ServiceDies
  /\ table' = [r \in Runs |-> IF table[r].status = "none" THEN table[r] ELSE [table[r] EXCEPT !.over = TRUE]]
  /\ ask' = [q \in Readers |-> IF Complete(q) THEN ask[q] ELSE Unasked]
  /\ got' = [q \in Readers |-> IF Complete(q) THEN got[q] ELSE <<>>]
  /\ UNCHANGED <<created, questions, steps>>

ReadersNext == RunGoesOn \/ Arrives \/ QueryGoesOn \/ ObserverGoesOn \/ ProcessDies

ReadersSpec == ReadersInit /\ [][ReadersNext]_readersVars
-----------------------------------------------------------------------------
\* Every variable of the two services keeps its type; a status is spelled as the
\* statistics look it up.
ReadersTypeOK ==
  /\ HistoryTypeOK
  /\ ObserversTypeOK
  /\ questions \in 0..MaxQuestions
  /\ steps \in 0..MaxSteps
=============================================================================
