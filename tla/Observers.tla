----------------------------- MODULE Observers -----------------------------
(***************************************************************************)
(* Observers: who watches which run, kept in memory by the observer        *)
(* service and announced on the run's channel.  A client uses it through   *)
(* ObserverContext: it joins, listens until the channel closes or its own  *)
(* connection breaks, and leaves.                                          *)
(*                                                                         *)
(* The lock of the service is never held across an await, so what it       *)
(* guards is one step; the announcement follows without it.                *)
(*                                                                         *)
(* shared/workflow_events/observer_service.py.                             *)
(***************************************************************************)
EXTENDS Naturals

CONSTANTS
  WatchedRuns,
  Clients,    \* uses of ObserverContext
  MaxMishaps   \* bound on failing announcements, aborted joins and deaths of the server

VARIABLES
  observers, \* _observers: the ids registered for each run
  entries,   \* the runs that have an entry in _observers at all
  place,     \* where each client is
  watches,   \* the run it watches
  joined,    \* clients whose observer_join was published
  left,      \* clients whose observer_leave was published
  mishaps

observerVars == <<observers, entries, place, watches, joined, left, mishaps>>

Places == {"outside", "joining", "inside", "leaving", "gone", "refused"}

ObserversInit ==
  /\ observers = [r \in WatchedRuns |-> {}]
  /\ entries = {}
  /\ place = [o \in Clients |-> "outside"]
  /\ watches = [o \in Clients |-> "none"]
  /\ joined = {}
  /\ left = {}
  /\ mishaps = 0

Mishap == mishaps < MaxMishaps /\ mishaps' = mishaps + 1

Move(o, from, to) == place[o] = from /\ place' = [place EXCEPT ![o] = to]

\* join: the observer is registered, and then announced.
Join(o, r) ==
  /\ Move(o, "outside", "joining")
  /\ watches' = [watches EXCEPT ![o] = r]
  /\ observers' = [observers EXCEPT ![r] = @ \cup {o}]
  /\ entries' = entries \cup {r}
  /\ UNCHANGED <<joined, left, mishaps>>

AnnounceJoin(o) ==
  /\ Move(o, "joining", "inside")
  /\ joined' = joined \cup {o}
  /\ UNCHANGED <<observers, entries, watches, left, mishaps>>

\* __aenter__ raises, so that __aexit__ never runs: the observer stays registered.
JoinFails(o) ==
  /\ Mishap
  /\ Move(o, "joining", "refused")
  /\ \/ UNCHANGED joined
     \/ joined' = joined \cup {o}
  /\ UNCHANGED <<observers, entries, watches, left>>

RemainingKept(r, o) == observers[r]

Remaining(r, o) == observers[r] \ {o}

RunsKept(r) == entries \cup {r}

\* The entry goes with the last observer; looking it up has made it if need be.
RunsLeft(r) ==
  IF observers'[r] = {} THEN entries \ {r} ELSE entries \cup {r}

\* leave, when the body of the context ends or raises.
Leave(o) ==
  /\ Move(o, "inside", "leaving")
  /\ observers' = [observers EXCEPT ![watches[o]] = Remaining(watches[o], o)]
  /\ entries' = RunsLeft(watches[o])
  /\ UNCHANGED <<watches, joined, left, mishaps>>

AnnounceLeave(o) ==
  /\ Move(o, "leaving", "gone")
  /\ left' = left \cup {o}
  /\ UNCHANGED <<observers, entries, watches, joined, mishaps>>

LeaveFails(o) ==
  /\ Mishap
  /\ Move(o, "leaving", "gone")
  /\ UNCHANGED <<observers, entries, watches, joined, left>>

\* The service's memory goes with the process.
ServiceDies ==
  /\ Mishap
  /\ observers' = [r \in WatchedRuns |-> {}]
  /\ entries' = {}
  /\ place' = [o \in Clients |-> IF place[o] = "outside" THEN "outside" ELSE "gone"]
  /\ UNCHANGED <<watches, joined, left>>

Stay(o) ==
  \/ AnnounceJoin(o) \/ JoinFails(o)
  \/ Leave(o) \/ AnnounceLeave(o) \/ LeaveFails(o)

ObserversNext ==
  \/ \E o \in Clients, r \in WatchedRuns : Join(o, r)
  \/ \E o \in Clients : Stay(o)
  \/ ServiceDies

ObserversSpec == ObserversInit /\ [][ObserversNext]_observerVars
-----------------------------------------------------------------------------
(* Properties *)

ObserversTypeOK ==
  /\ observers \in [WatchedRuns -> SUBSET Clients]
  /\ entries \in SUBSET WatchedRuns
  /\ place \in [Clients -> Places]
  /\ watches \in [Clients -> WatchedRuns \cup {"none"}]
  /\ joined \in SUBSET Clients
  /\ left \in SUBSET Clients
  /\ mishaps \in Nat

\* The memory of the service holds no run without observers: whatever the order
\* of joins, leaves and failures, the last one to leave takes the entry along.
NoEmptyEntry == entries = {r \in WatchedRuns : observers[r] # {}}

\* Who is counted as an observer is listening, or about to: only an announcement
\* that failed, or a join that was aborted in it, leaves a ghost behind.
NoGhosts ==
  mishaps = 0 => \A r \in WatchedRuns : observers[r] =
    {o \in Clients : watches[o] = r /\ place[o] \in {"joining", "inside"}}

\* Whoever follows the announcements arrives at the count of the service, as soon
\* as no announcement is under way.
AnnouncedIsRegistered ==
  mishaps = 0 /\ (\A o \in Clients : place[o] \notin {"joining", "leaving"}) =>
    \A r \in WatchedRuns : observers[r] = {o \in joined \ left : watches[o] = r}
=============================================================================
