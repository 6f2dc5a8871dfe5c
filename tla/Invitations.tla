---------------------------- MODULE Invitations ----------------------------
(***************************************************************************)
(* Invitations: the website's applications for a code (rate limit in       *)
(* Redis, rows in PostgreSQL), the codes the admin site keeps, and the     *)
(* check POST /review/run makes of a code before it creates a run.         *)
(*                                                                         *)
(* shared/invite/service.py, admin/app.py, api/sse.py.                     *)
(***************************************************************************)
EXTENDS Naturals

CONSTANTS
  Applicants, \* the requests POST /review/invite/request
  Phones,     \* well-formed telephone numbers
  Addresses,  \* IP addresses of clients
  Unknown,    \* request.client is None
  Malformed,  \* a missing number or name, or a number is_valid_cn_phone refuses
  IpLimit,    \* requests of one address in 60 seconds
  Checks,     \* the requests that bring a code
  Codes,      \* the codes generate_code returns
  NoCode,     \* an empty or missing code
  MaxFaults   \* bound on failing calls and deaths of the server

ASSUME InviteAssumption ==
  /\ IpLimit \in Nat \ {0}
  /\ Phones \cap Addresses = {}
  /\ Unknown \notin Phones \cup Addresses
  /\ Malformed \notin Phones \cup Addresses
  /\ NoCode \notin Codes

VARIABLES
  hits,    \* the counters in Redis, 0 where there is no key
  ttl,     \* the keys that expire
  rows,    \* rows of invite_requests per number
  step,    \* where each application is, or what it was answered
  phone,   \* its number
  ip,      \* and address
  codes,   \* rows of invite_codes: none, or is_active
  expired, \* the codes beyond their expires_at
  stage,   \* where each check of a code is, or what it was answered
  code,    \* the code it brings
  faults,
  \* history variables, read by the properties only
  late,    \* numbers whose key expired while an application of theirs was handled
  usable   \* checks whose code was usable at some time since they arrived

applyVars  == <<hits, ttl, rows, step, phone, ip, late>>
codeVars   == <<codes, expired, stage, code, usable>>
inviteVars == <<applyVars, codeVars, faults>>

Keys == Phones \cup Addresses

Limiting == {"countPhone", "expirePhone", "countIp", "expireIp"}
Handling == Limiting \cup {"find", "insert"}
Step     == {"idle", "success", "duplicate", "error", "refused", "lost"} \cup Handling

Checking == {"validate", "create"}
Stage    == {"idle", "valid", "invalid", "created", "error", "lost"} \cup Checking

InviteInit ==
  /\ hits = [k \in Keys |-> 0]
  /\ ttl = {}
  /\ rows = [p \in Phones |-> 0]
  /\ step = [a \in Applicants |-> "idle"]
  /\ phone = [a \in Applicants |-> Malformed]
  /\ ip = [a \in Applicants |-> Unknown]
  /\ codes = [c \in Codes |-> "none"]
  /\ expired = {}
  /\ stage = [q \in Checks |-> "idle"]
  /\ code = [q \in Checks |-> NoCode]
  /\ faults = 0
  /\ late = {}
  /\ usable = {}

Fails == faults < MaxFaults /\ faults' = faults + 1

Go(a, next) == step' = [step EXCEPT ![a] = next]
-----------------------------------------------------------------------------
(* POST /review/invite/request *)

RequestInvite(a, p, from) ==
  /\ step[a] = "idle"
  /\ phone' = [phone EXCEPT ![a] = p]
  /\ ip' = [ip EXCEPT ![a] = from]
  /\ Go(a, IF p = Malformed THEN "refused" ELSE "countPhone")
  /\ UNCHANGED <<hits, ttl, rows, late, codeVars, faults>>

\* The key whose counter the application is at.
Key(a) == IF step[a] \in {"countPhone", "expirePhone"} THEN phone[a] ELSE ip[a]

LimitTwice(a) == IF step[a] = "countPhone" THEN 2 ELSE IpLimit

Limit(a) == IF step[a] = "countPhone" THEN 1 ELSE IpLimit

\* After the number comes the address, if it is known, and then the table.
Admitted(a) ==
  IF step[a] \in {"countPhone", "expirePhone"} /\ ip[a] # Unknown
  THEN "countIp" ELSE "find"

CountedNoExpiry(a) ==
  IF hits[Key(a)] + 1 > Limit(a) THEN "refused" ELSE Admitted(a)

\* The first hit sets the key's time to live; beyond the limit it is refused.
Counted(a) ==
  IF hits[Key(a)] = 0 THEN IF step[a] = "countPhone" THEN "expirePhone" ELSE "expireIp"
  ELSE IF hits[Key(a)] + 1 > Limit(a) THEN "refused" ELSE Admitted(a)

\* INCR
Count(a) ==
  /\ step[a] \in {"countPhone", "countIp"}
  /\ hits' = [hits EXCEPT ![Key(a)] = @ + 1]
  /\ Go(a, Counted(a))
  /\ UNCHANGED <<ttl, rows, phone, ip, late, codeVars, faults>>

\* EXPIRE
SetExpiry(a) ==
  /\ step[a] \in {"expirePhone", "expireIp"}
  /\ ttl' = ttl \cup {Key(a)}
  /\ Go(a, Admitted(a))
  /\ UNCHANGED <<hits, rows, phone, ip, late, codeVars, faults>>

\* When Redis fails, before or after the call took effect, the application is
\* let through.
LimiterFails(a) ==
  /\ step[a] \in Limiting
  /\ Fails
  /\ Go(a, "find")
  /\ \/ UNCHANGED <<hits, ttl>>
     \/ step[a] \in {"countPhone", "countIp"} /\ hits' = [hits EXCEPT ![Key(a)] = @ + 1] /\ UNCHANGED ttl
     \/ step[a] \in {"expirePhone", "expireIp"} /\ ttl' = ttl \cup {Key(a)} /\ UNCHANGED hits
  /\ UNCHANGED <<rows, phone, ip, late, codeVars>>

Found(p) == IF rows[p] > 0 THEN "duplicate" ELSE "insert"

FindRequest(a) ==
  /\ step[a] = "find"
  /\ Go(a, Found(phone[a]))
  /\ UNCHANGED <<hits, ttl, rows, phone, ip, late, codeVars, faults>>

InsertRequest(a) ==
  /\ step[a] = "insert"
  /\ rows' = [rows EXCEPT ![phone[a]] = @ + 1]
  /\ Go(a, "success")
  /\ UNCHANGED <<hits, ttl, phone, ip, late, codeVars, faults>>

\* A statement fails, or the connection when it is closed after the insert:
\* then the row is there and the client is told to try again.
SaveFails(a) ==
  /\ step[a] \in {"find", "insert"}
  /\ Fails
  /\ Go(a, "error")
  /\ \/ UNCHANGED rows
     \/ step[a] = "insert" /\ rows' = [rows EXCEPT ![phone[a]] = @ + 1]
  /\ UNCHANGED <<hits, ttl, phone, ip, late, codeVars>>

\* Redis drops a key 60 seconds after its EXPIRE.
KeyExpires(k) ==
  /\ k \in ttl
  /\ hits' = [hits EXCEPT ![k] = 0]
  /\ ttl' = ttl \ {k}
  /\ late' = late \cup {p \in {k} : \E a \in Applicants : step[a] \in Handling /\ phone[a] = p}
  /\ UNCHANGED <<rows, step, phone, ip, codeVars, faults>>
-----------------------------------------------------------------------------
(* The admin site, and the clock *)

UsableIn(c, issued, past) == c \in Codes /\ issued[c] = "active" /\ c \notin past

Usable(c) == UsableIn(c, codes, expired)

\* The checks under way whose code is usable in the next state.
WitnessUsable ==
  usable' = usable \cup {q \in Checks : stage[q] \in Checking /\ UsableIn(code[q], codes', expired')}

CodesChange == WitnessUsable /\ UNCHANGED <<applyVars, stage, code, faults>>

\* With days <= 0 the code has expired when it is issued.
Generate(c) ==
  /\ codes[c] = "none"
  /\ codes' = [codes EXCEPT ![c] = "active"]
  /\ expired' \in {expired, expired \cup {c}}

Deactivate(c) ==
  /\ codes[c] \in {"active", "inactive"}
  /\ codes' = [codes EXCEPT ![c] = "inactive"]
  /\ UNCHANGED expired

Activate(c) ==
  /\ codes[c] \in {"active", "inactive"}
  /\ codes' = [codes EXCEPT ![c] = "active"]
  /\ UNCHANGED expired

Delete(c) ==
  /\ codes[c] \in {"active", "inactive"}
  /\ codes' = [codes EXCEPT ![c] = "deleted"]
  /\ UNCHANGED expired

PassesExpiry(c) ==
  /\ codes[c] \in {"active", "inactive"} /\ c \notin expired
  /\ expired' = expired \cup {c}
  /\ UNCHANGED codes
  /\ CodesChange

AdminStep(c) ==
  /\ Generate(c) \/ Deactivate(c) \/ Activate(c) \/ Delete(c)
  /\ CodesChange
-----------------------------------------------------------------------------
(* POST /review/run and POST /review/invite/validate *)

BringCode(q, c) ==
  /\ stage[q] = "idle"
  /\ stage' = [stage EXCEPT ![q] = "validate"]
  /\ code' = [code EXCEPT ![q] = c]
  /\ usable' = usable \cup {x \in {q} : Usable(c)}
  /\ UNCHANGED <<applyVars, codes, expired, faults>>

PassesWhenActive(c) == c \in Codes /\ codes[c] = "active"

\* Empty, unknown, deactivated and expired codes are refused.
Passes(c) == Usable(c)

ValidateInviteCode(q) ==
  /\ stage[q] = "validate"
  /\ \E answer \in {"valid", "create"} :
       stage' = [stage EXCEPT ![q] = IF Passes(code[q]) THEN answer ELSE "invalid"]
  /\ UNCHANGED <<applyVars, codes, expired, code, usable, faults>>

\* A failing database makes a code invalid.
ValidationFails(q) ==
  /\ stage[q] = "validate"
  /\ Fails
  /\ stage' = [stage EXCEPT ![q] = "invalid"]
  /\ UNCHANGED <<applyVars, codes, expired, code, usable>>

CreateReviewRun(q) ==
  /\ stage[q] = "create"
  /\ \/ stage' = [stage EXCEPT ![q] = "created"] /\ UNCHANGED faults
     \/ stage' = [stage EXCEPT ![q] = "error"] /\ Fails
  /\ UNCHANGED <<applyVars, codes, expired, code, usable>>
-----------------------------------------------------------------------------
\* The server dies: nothing of what it was handling is answered.
InviteCrash ==
  /\ Fails
  /\ step' = [a \in Applicants |-> IF step[a] \in Handling THEN "lost" ELSE step[a]]
  /\ stage' = [q \in Checks |-> IF stage[q] \in Checking THEN "lost" ELSE stage[q]]
  /\ UNCHANGED <<hits, ttl, rows, phone, ip, late, codes, expired, code, usable>>

\* A call fails in another part of the server.
OthersFail == Fails /\ UNCHANGED <<applyVars, codeVars>>

Application(a) ==
  Count(a) \/ SetExpiry(a) \/ LimiterFails(a) \/ FindRequest(a) \/ InsertRequest(a) \/ SaveFails(a)

Check(q) == ValidateInviteCode(q) \/ ValidationFails(q) \/ CreateReviewRun(q)

Arrive ==
  \/ \E a \in Applicants, p \in Phones \cup {Malformed}, from \in Addresses \cup {Unknown} :
       RequestInvite(a, p, from)
  \/ \E q \in Checks, c \in Codes \cup {NoCode} : BringCode(q, c)

Handle ==
  \/ \E a \in Applicants : Application(a)
  \/ \E q \in Checks : Check(q)

Elsewhere ==
  \/ \E k \in Keys : KeyExpires(k)
  \/ \E c \in Codes : PassesExpiry(c)

Administer == \E c \in Codes : AdminStep(c)

InviteNext == Arrive \/ Administer \/ Handle \/ Elsewhere \/ InviteCrash \/ OthersFail

InviteSpec == InviteInit /\ [][InviteNext]_inviteVars
-----------------------------------------------------------------------------
(* Properties *)

InviteTypeOK ==
  /\ hits \in [Keys -> Nat]
  /\ ttl \in SUBSET Keys
  /\ rows \in [Phones -> Nat]
  /\ step \in [Applicants -> Step]
  /\ phone \in [Applicants -> Phones \cup {Malformed}]
  /\ ip \in [Applicants -> Addresses \cup {Unknown}]
  /\ codes \in [Codes -> {"none", "active", "inactive", "deleted"}]
  /\ expired \in SUBSET Codes
  /\ stage \in [Checks -> Stage]
  /\ code \in [Checks -> Codes \cup {NoCode}]
  /\ faults \in Nat
  /\ late \in SUBSET Phones
  /\ usable \in SUBSET Checks

\* save_invite_request looks a number up and inserts it in two steps, and the
\* table allows duplicates.  What keeps a number from being saved twice is the
\* rate limit: without a failure, two rows mean that the key of the number
\* expired while one of its applications was still being handled.
OneRowPerPhone ==
  faults = 0 => \A p \in Phones : rows[p] > 1 => p \in late

\* A number or an address that is refused can come back: while nothing fails, a
\* counter without a time to live is about to get one.  (A death of the server
\* between INCR and EXPIRE leaves one for ever.)
CountersExpire ==
  faults = 0 => \A k \in Keys : hits[k] > 0 /\ k \notin ttl =>
    \E a \in Applicants : step[a] \in {"expirePhone", "expireIp"} /\ Key(a) = k

\* A run is created only for a code that was issued, active and not expired at
\* some time since its request arrived, however the admin site changes codes
\* between the check and the creation.
RunsHadUsableCode ==
  \A q \in Checks : stage[q] = "created" => q \in usable
============================================================================
