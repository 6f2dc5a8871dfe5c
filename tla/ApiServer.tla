----------------------------- MODULE ApiServer -----------------------------
(***************************************************************************)
(* ApiServer: the process that serves both the invitations and the hotels. *)
(* There is one event loop.  A request about hotels never gives it back    *)
(* before its answer, so that no other request moves in the meantime; the  *)
(* requests about invitations wait for Redis and PostgreSQL between any    *)
(* two steps.  When the process dies both kinds are cut off together.      *)
(*                                                                         *)
(* api/main.py, docker-compose.yml (one uvicorn worker).                   *)
(***************************************************************************)
EXTENDS Invitations, HotelConfig

CONSTANT MaxRequests \* bound on the requests that arrive, of clients and at the admin site

ASSUME RequestsAssumption == MaxRequests \in Nat

VARIABLE served

apiVars == <<inviteVars, hotelVars, served>>

ApiInit == InviteInit /\ HotelInit /\ served = 0

Blocked == task # "idle"

Request ==
  /\ served < MaxRequests /\ served' = served + 1
  /\ ~Blocked
  /\ \/ Arrive /\ UNCHANGED hotelVars
     \/ Ask /\ UNCHANGED inviteVars

\* The admin site is a process of its own.
AdminSite ==
  /\ served < MaxRequests /\ served' = served + 1
  /\ Administer
  /\ UNCHANGED hotelVars

ServeHotel == Work /\ UNCHANGED <<inviteVars, served>>

ServeInvite == ~Blocked /\ Handle /\ UNCHANGED <<hotelVars, served>>

\* Redis and the clock do not wait for the process.
Outside ==
  /\ \/ Elsewhere /\ UNCHANGED hotelVars
     \/ Tick /\ UNCHANGED inviteVars
  /\ UNCHANGED served

HotelFails == OthersFail /\ Interrupt /\ UNCHANGED served

ServerDies ==
  /\ InviteCrash
  /\ IF Blocked THEN Interrupt ELSE UNCHANGED hotelVars
  /\ UNCHANGED served

ApiNext == Request \/ AdminSite \/ ServeHotel \/ ServeInvite \/ Outside \/ HotelFails \/ ServerDies

KeyExpiry == (\E k \in Keys : KeyExpires(k)) /\ UNCHANGED <<hotelVars, served>>

\* The event loop runs what is ready, and Redis drops the keys whose time is up.
ApiFairness == WF_apiVars(ServeHotel) /\ WF_apiVars(ServeInvite) /\ WF_apiVars(KeyExpiry)

ApiSpec == ApiInit /\ [][ApiNext]_apiVars /\ ApiFairness
-----------------------------------------------------------------------------
\* Every variable of both keeps its type: the answers are those the code gives, and
\* a creation gives up after its last attempt.
ApiTypeOK == InviteTypeOK /\ HotelTypeOK /\ served \in 0..MaxRequests

\* Whoever is refused for coming too often can come back ("please try again in
\* one minute"): every counter goes back to zero, unless something failed.
CountersClear == \A k \in Keys : hits[k] > 0 ~> hits[k] = 0 \/ faults > 0
============================================================================
