------------------------------ MODULE EventFeed ------------------------------
(***************************************************************************)
(* What the event store of one workflow run promises to its readers,       *)
(* stated without workers, failures or cancellation: an append-only table  *)
(* of stored events, and a feed that announces each stored event at most   *)
(* once, only while it is the newest one, and that nothing follows once    *)
(* the closing mark has been announced.                                    *)
(*                                                                         *)
(* shared/workflow_events/event_store.py: save_and_publish (405-408),      *)
(* close_channel (395-399).  WorkflowRun implements this module.           *)
(***************************************************************************)
EXTENDS Naturals, Sequences

CONSTANTS
  Event,  \* the events a run can store
  Close   \* the closing mark of the feed, which is not an event

VARIABLES
  stored, \* the event table, oldest row first
  feed    \* everything announced so far, oldest first

Closed == \E i \in 1..Len(feed) : feed[i] = Close

Announced(e) == \E i \in 1..Len(feed) : feed[i] = e

Init ==
  /\ stored = <<>>
  /\ feed = <<>>

\* One new row, for an event that has none yet.
Store ==
  /\ ~ Closed
  /\ stored' # <<>>
  /\ LET e == stored'[Len(stored')]
     IN  /\ e \in Event
         /\ \A i \in 1..Len(stored) : stored[i] # e
         /\ stored' = Append(stored, e)
  /\ UNCHANGED feed

\* Only the newest row can be announced: an older one that was skipped stays
\* unannounced for ever.
Announce ==
  /\ ~ Closed
  /\ stored # <<>>
  /\ ~ Announced(stored[Len(stored)])
  /\ feed' = Append(feed, stored[Len(stored)])
  /\ UNCHANGED stored

Shut ==
  /\ ~ Closed
  /\ feed' = Append(feed, Close)
  /\ UNCHANGED stored

Next ==
  \/ Store
  \/ Announce
  \/ Shut

Spec == Init /\ [][Next]_<<stored, feed>>
==============================================================================
