--------------------------- MODULE ApiServerProofs ---------------------------
(***************************************************************************)
(* ApiServer composes Invitations and HotelConfig without adding a step to *)
(* either, so that what is proved of each alone holds of the process.      *)
(***************************************************************************)
EXTENDS ApiServer, InvitationsProofs, HotelConfigProofs

\* Every step of the process is a step of Invitations, or none.
LEMMA StepInvites == [ApiNext]_apiVars => [InviteNext]_inviteVars
<1> SUFFICES ASSUME [ApiNext]_apiVars PROVE InviteNext \/ UNCHANGED inviteVars
  OBVIOUS
<1> USE DEF InviteNext
<1>1. CASE Request
  BY <1>1 DEF Request
<1>2. CASE AdminSite
  BY <1>2 DEF AdminSite
<1>3. CASE ServeHotel
  BY <1>3 DEF ServeHotel
<1>4. CASE ServeInvite
  BY <1>4 DEF ServeInvite
<1>5. CASE Outside
  BY <1>5 DEF Outside
<1>6. CASE HotelFails \/ ServerDies
  BY <1>6 DEF HotelFails, ServerDies
<1>7. CASE UNCHANGED apiVars
  BY <1>7 DEF apiVars
<1> QED
  BY <1>1, <1>2, <1>3, <1>4, <1>5, <1>6, <1>7 DEF ApiNext

\* And a step of HotelConfig, or none.
LEMMA StepHotels == [ApiNext]_apiVars => [HotelNext]_hotelVars
<1> SUFFICES ASSUME [ApiNext]_apiVars PROVE HotelNext \/ UNCHANGED hotelVars
  OBVIOUS
<1> USE DEF HotelNext
<1>1. CASE Request
  BY <1>1 DEF Request
<1>2. CASE AdminSite
  BY <1>2 DEF AdminSite
<1>3. CASE ServeHotel
  BY <1>3 DEF ServeHotel
<1>4. CASE ServeInvite
  BY <1>4 DEF ServeInvite
<1>5. CASE Outside
  BY <1>5 DEF Outside
<1>6. CASE HotelFails \/ ServerDies
  BY <1>6 DEF HotelFails, ServerDies
<1>7. CASE UNCHANGED apiVars
  BY <1>7 DEF apiVars
<1> QED
  BY <1>1, <1>2, <1>3, <1>4, <1>5, <1>6, <1>7 DEF ApiNext

\* The process implements its two parts.
THEOREM ServerImplementsParts == ApiSpec => InviteSpec /\ HotelSpec
BY StepInvites, StepHotels, PTL DEF ApiSpec, ApiInit, InviteSpec, HotelSpec

\* One application per number while nothing fails, however requests about hotels
\* and deaths of the process fall in between.
THEOREM ServerOneRowPerPhone == ApiSpec => []OneRowPerPhone
BY ServerImplementsParts, OneRowPerPhoneHolds, PTL

\* A counter of the rate limit has a time to live or is about to get one, for any
\* number of applications.
THEOREM ServerCountersExpire == ApiSpec => []CountersExpire
BY ServerImplementsParts, CountersExpireHolds, PTL

\* create_review_run creates no run for a code that was never usable since the
\* request came, whatever the admin site does to codes in between.
THEOREM ServerRunsHadUsableCode == ApiSpec => []RunsHadUsableCode
BY ServerImplementsParts, RunsHadUsableCodeHolds, PTL

\* The hotels that the list offers load, wherever a creation was cut off,
\* but for those that a PUT to an unknown id made.
THEOREM ServerListedLoads == ApiSpec => []ListedLoads
BY ServerImplementsParts, ListedLoadsHolds, PTL

\* The settings a client was told of are the settings that are read back.
THEOREM ServerPromisesKept == ApiSpec => []PromisesKept
BY ServerImplementsParts, PromisesKeptHolds, PTL

ServedOK == served \in 0..MaxRequests

\* The variables of both parts keep their types under each other's steps.
THEOREM ServerTypeCorrect == ApiSpec => []ApiTypeOK
<1>1. ApiInit => ServedOK
  BY RequestsAssumption DEF ApiInit, ServedOK
<1>2. ServedOK /\ [ApiNext]_apiVars => ServedOK'
  BY RequestsAssumption
  DEF ServedOK, ApiNext, apiVars, Request, AdminSite, ServeHotel, ServeInvite, Outside, HotelFails,
      ServerDies
<1>3. HotelInv /\ InviteTypeOK /\ ServedOK => ApiTypeOK
  BY DEF HotelInv, ServedOK, ApiTypeOK
<1>4. ApiSpec => []ServedOK
  BY <1>1, <1>2, PTL DEF ApiSpec
<1> QED
  BY <1>3, <1>4, ServerImplementsParts, InviteTypeCorrect, HotelInvariant, PTL
==============================================================================
