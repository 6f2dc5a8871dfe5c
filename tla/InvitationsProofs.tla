-------------------------- MODULE InvitationsProofs --------------------------
(***************************************************************************)
(* What holds of Invitations for every number of applications, numbers,    *)
(* addresses and codes, and for every limit per address.                   *)
(***************************************************************************)
EXTENDS Invitations, TLAPS

\* What an application is about when it is handled: a well-formed number, and an
\* address that is known where the address is counted.
Placed ==
  \A a \in Applicants :
    /\ step[a] \in Handling => phone[a] \in Phones
    /\ step[a] \in {"countIp", "expireIp"} => ip[a] \in Addresses

ApplyTypeOK ==
  /\ hits \in [Keys -> Nat]
  /\ ttl \in SUBSET Keys
  /\ rows \in [Phones -> Nat]
  /\ step \in [Applicants -> Step]
  /\ phone \in [Applicants -> Phones \cup {Malformed}]
  /\ ip \in [Applicants -> Addresses \cup {Unknown}]
  /\ late \in SUBSET Phones

CodeTypeOK ==
  /\ codes \in [Codes -> {"none", "active", "inactive", "deleted"}]
  /\ expired \in SUBSET Codes
  /\ stage \in [Checks -> Stage]
  /\ code \in [Checks -> Codes \cup {NoCode}]
  /\ usable \in SUBSET Checks

\* The types of applications and those of codes.
LEMMA TypeHalves == InviteTypeOK <=> ApplyTypeOK /\ CodeTypeOK /\ faults \in Nat
BY DEF InviteTypeOK, ApplyTypeOK, CodeTypeOK

\* The steps that are about codes only.
CodeStep ==
  \/ \E q \in Checks, c \in Codes \cup {NoCode} : BringCode(q, c)
  \/ \E q \in Checks : Check(q)
  \/ \E c \in Codes : PassesExpiry(c)
  \/ Administer

\* A request that arrives, Redis and the applications.
ApplyStep ==
  \/ \E a \in Applicants, p \in Phones \cup {Malformed}, from \in Addresses \cup {Unknown} :
       RequestInvite(a, p, from)
  \/ \E a \in Applicants : Application(a)
  \/ \E k \in Keys : KeyExpires(k)

\* The two kinds of steps, and the failures of both.
LEMMA StepKinds == InviteNext => CodeStep \/ ApplyStep \/ InviteCrash \/ OthersFail
BY DEF InviteNext, CodeStep, ApplyStep, Arrive, Handle, Elsewhere

\* Codes and applications share nothing but the count of faults.
LEMMA CodeStepLeaves ==
  ASSUME CodeStep, faults \in Nat
  PROVE  UNCHANGED applyVars /\ faults' \in Nat /\ (faults' = 0 => faults = 0)
BY DEF CodeStep, BringCode, Check, ValidateInviteCode, ValidationFails, CreateReviewRun,
       PassesExpiry, Administer, AdminStep, CodesChange, Fails, applyVars

\* Applications leave the codes alone.
LEMMA ApplyStepLeaves ==
  ASSUME ApplyStep, faults \in Nat
  PROVE  UNCHANGED codeVars /\ faults' \in Nat /\ (faults' = 0 => faults = 0)
BY DEF ApplyStep, RequestInvite, Application, Count, SetExpiry, LimiterFails, FindRequest,
       InsertRequest, SaveFails, KeyExpires, Fails, codeVars

\* Wherever the limiter lets an application go, it is a place where applications
\* can be, and the address is counted only if it is known.
LEMMA AdmittedType ==
  ASSUME ApplyTypeOK, Placed, NEW a \in Applicants
  PROVE  /\ Admitted(a) \in {"countIp", "find"}
         /\ Admitted(a) = "countIp" => ip[a] \in Addresses
         /\ step[a] \in Limiting => Key(a) \in Keys
         /\ step[a] \in {"countIp", "expireIp"} => Key(a) \in Addresses
         /\ step[a] \in {"countPhone", "expirePhone"} => Key(a) = phone[a]
         /\ step[a] \in {"countPhone", "countIp"} =>
              /\ Counted(a) \in {"expirePhone", "expireIp", "refused", "countIp", "find"}
              /\ Counted(a) \in {"countIp", "expireIp"} => ip[a] \in Addresses
<1>1. Admitted(a) \in {"countIp", "find"} /\ (Admitted(a) = "countIp" => ip[a] \in Addresses)
  BY DEF Admitted, ApplyTypeOK
<1>2. /\ step[a] \in Limiting => Key(a) \in Keys
      /\ step[a] \in {"countIp", "expireIp"} => Key(a) \in Addresses
      /\ step[a] \in {"countPhone", "expirePhone"} => Key(a) = phone[a]
  BY DEF Key, Keys, Limiting, Handling, Placed
<1> QED
  BY <1>1, <1>2 DEF Counted, Placed

\* The places of an application, listed for the provers.
LEMMA StepMembers ==
  /\ Limiting \subseteq Handling /\ Handling \subseteq Step
  /\ {"countIp", "expireIp", "find", "expirePhone", "insert", "countPhone"} \subseteq Handling
  /\ {"find", "insert"} \cap Limiting = {}
  /\ {"idle", "refused", "success", "duplicate", "error", "lost"} \subseteq Step
  /\ {"idle", "refused", "success", "duplicate", "error", "lost"} \cap Handling = {}
BY DEF Step, Handling, Limiting

\* Going on from one place to another keeps an application placed.
LEMMA GoPlaced ==
  ASSUME ApplyTypeOK, Placed, NEW a \in Applicants, NEW next \in Step, Go(a, next),
         UNCHANGED <<phone, ip>>, step[a] \in Handling,
         next \in {"countIp", "expireIp"} => ip[a] \in Addresses
  PROVE  step' \in [Applicants -> Step] /\ Placed'
BY StepMembers DEF ApplyTypeOK, Placed, Go

\* Counting one more keeps a table of counters one.
LEMMA OneMore ==
  ASSUME NEW S, NEW f \in [S -> Nat], NEW k
  PROVE  [f EXCEPT ![k] = @ + 1] \in [S -> Nat]
<1>1. CASE k \in S
  <2>1. f[k] + 1 \in Nat
    BY <1>1
  <2> QED
    BY <2>1
<1>2. CASE k \notin S
  BY <1>2
<1> QED
  BY <1>1, <1>2

\* Applications keep their types.
LEMMA ApplyTyped ==
  ASSUME ApplyTypeOK, Placed, ApplyStep
  PROVE  ApplyTypeOK' /\ Placed'
<1>1. ASSUME NEW a \in Applicants, NEW p \in Phones \cup {Malformed},
             NEW from \in Addresses \cup {Unknown}, RequestInvite(a, p, from)
      PROVE  ApplyTypeOK' /\ Placed'
  <2>1. p = Malformed \/ p \in Phones
    OBVIOUS
  <2> QED
    BY <1>1, <2>1, StepMembers DEF RequestInvite, Go, ApplyTypeOK, Placed
<1>2. ASSUME NEW a \in Applicants, Application(a)
      PROVE  ApplyTypeOK' /\ Placed'
  <2> USE AdmittedType, StepMembers
  <2>1. CASE Count(a)
    <3>1. hits' \in [Keys -> Nat]
      BY <2>1, OneMore DEF Count, ApplyTypeOK
    <3>2. step' \in [Applicants -> Step] /\ Placed'
      BY <2>1, GoPlaced DEF Count
    <3> QED
      BY <2>1, <3>1, <3>2 DEF Count, ApplyTypeOK
  <2>2. CASE SetExpiry(a)
    <3>1. ttl' \in SUBSET Keys
      BY <2>2 DEF SetExpiry, ApplyTypeOK, Limiting
    <3>2. step' \in [Applicants -> Step] /\ Placed'
      BY <2>2, GoPlaced DEF SetExpiry
    <3> QED
      BY <2>2, <3>1, <3>2 DEF SetExpiry, ApplyTypeOK
  <2>3. CASE LimiterFails(a)
    <3>1. hits' \in [Keys -> Nat] /\ ttl' \in SUBSET Keys
      BY <2>3, OneMore DEF LimiterFails, ApplyTypeOK
    <3>2. step' \in [Applicants -> Step] /\ Placed'
      BY <2>3, GoPlaced DEF LimiterFails
    <3> QED
      BY <2>3, <3>1, <3>2 DEF LimiterFails, ApplyTypeOK
  <2>4. CASE FindRequest(a)
    <3>1. step' \in [Applicants -> Step] /\ Placed'
      BY <2>4, GoPlaced DEF FindRequest, Found
    <3> QED
      BY <2>4, <3>1 DEF FindRequest, ApplyTypeOK
  <2>5. CASE InsertRequest(a)
    <3>1. step' \in [Applicants -> Step] /\ Placed'
      BY <2>5, GoPlaced DEF InsertRequest
    <3>2. rows' \in [Phones -> Nat]
      BY <2>5, OneMore DEF InsertRequest, ApplyTypeOK
    <3> QED
      BY <2>5, <3>1, <3>2 DEF InsertRequest, ApplyTypeOK
  <2>6. CASE SaveFails(a)
    <3>1. step' \in [Applicants -> Step] /\ Placed'
      BY <2>6, GoPlaced DEF SaveFails
    <3>2. rows' \in [Phones -> Nat]
      BY <2>6, OneMore DEF SaveFails, ApplyTypeOK
    <3> QED
      BY <2>6, <3>1, <3>2 DEF SaveFails, ApplyTypeOK
  <2> QED
    BY <1>2, <2>1, <2>2, <2>3, <2>4, <2>5, <2>6 DEF Application
<1>3. ASSUME NEW k \in Keys, KeyExpires(k)
      PROVE  ApplyTypeOK' /\ Placed'
  <2>1. late' \in SUBSET Phones
    BY <1>3 DEF KeyExpires, ApplyTypeOK, Placed
  <2>2. hits' \in [Keys -> Nat] /\ ttl' \in SUBSET Keys
    BY <1>3 DEF KeyExpires, ApplyTypeOK
  <2> QED
    BY <1>3, <2>1, <2>2 DEF KeyExpires, ApplyTypeOK, Placed
<1> QED
  BY <1>1, <1>2, <1>3 DEF ApplyStep

\* Codes and their checks keep their types.
LEMMA CodeTyped ==
  ASSUME CodeTypeOK, CodeStep
  PROVE  CodeTypeOK'
<1> USE DEF CodeTypeOK
<1>1. {"idle", "valid", "invalid", "created", "error", "lost", "validate", "create"} \subseteq Stage
  BY DEF Stage, Checking
<1>2. ASSUME NEW q \in Checks, NEW c \in Codes \cup {NoCode}, BringCode(q, c) PROVE CodeTypeOK'
  BY <1>1, <1>2 DEF BringCode
<1>3. ASSUME NEW q \in Checks, Check(q) PROVE CodeTypeOK'
  BY <1>1, <1>3 DEF Check, ValidateInviteCode, ValidationFails, CreateReviewRun
<1>4. ASSUME NEW c \in Codes, PassesExpiry(c) PROVE CodeTypeOK'
  BY <1>4 DEF PassesExpiry, CodesChange, WitnessUsable
<1>5. ASSUME NEW c \in Codes, AdminStep(c) PROVE CodeTypeOK'
  <2>1. usable' \in SUBSET Checks /\ UNCHANGED <<stage, code>>
    BY <1>5 DEF AdminStep, CodesChange, WitnessUsable
  <2>2. codes' \in [Codes -> {"none", "active", "inactive", "deleted"}] /\ expired' \in SUBSET Codes
    BY <1>5 DEF AdminStep, Generate, Deactivate, Activate, Delete
  <2> QED
    BY <2>1, <2>2
<1> QED
  BY <1>2, <1>3, <1>4, <1>5 DEF CodeStep, Administer

\* A death of the server keeps the types.
LEMMA CrashTyped ==
  ASSUME InviteTypeOK, Placed, InviteCrash
  PROVE  InviteTypeOK' /\ Placed'
<1>1. step' \in [Applicants -> Step] /\ stage' \in [Checks -> Stage]
  BY StepMembers DEF InviteCrash, InviteTypeOK, Stage
<1>2. \A a \in Applicants : step'[a] \notin Handling
  BY StepMembers DEF InviteCrash
<1>3. \A a \in Applicants : step'[a] \notin {"countIp", "expireIp"}
  BY <1>2, StepMembers
<1> QED
  BY <1>1, <1>2, <1>3 DEF InviteCrash, InviteTypeOK, Placed, Fails

\* The counters, the rows, the codes and the places of the requests keep their
\* types, and an application that is handled has a number, and an address where
\* that is counted, whatever fails and whatever the admin site does.
LEMMA InviteTypedStep ==
  ASSUME InviteTypeOK, Placed, [InviteNext]_inviteVars
  PROVE  InviteTypeOK' /\ Placed'
<1>1. CASE CodeStep
  <2>1. CodeTypeOK' /\ faults' \in Nat
    BY <1>1, CodeTyped, CodeStepLeaves, TypeHalves
  <2>2. ApplyTypeOK' /\ Placed'
    BY <1>1, CodeStepLeaves, TypeHalves DEF applyVars, ApplyTypeOK, Placed
  <2>3. InviteTypeOK'
    BY <2>1, <2>2 DEF InviteTypeOK, ApplyTypeOK, CodeTypeOK
  <2> QED
    BY <2>2, <2>3
<1>2. CASE ApplyStep
  <2>1. ApplyTypeOK' /\ Placed'
    BY <1>2, ApplyTyped, TypeHalves
  <2>2. CodeTypeOK' /\ faults' \in Nat
    BY <1>2, ApplyStepLeaves, TypeHalves DEF codeVars, CodeTypeOK
  <2>3. InviteTypeOK'
    BY <2>1, <2>2 DEF InviteTypeOK, ApplyTypeOK, CodeTypeOK
  <2> QED
    BY <2>1, <2>3
<1>3. CASE OthersFail
  BY <1>3 DEF OthersFail, Fails, applyVars, codeVars, InviteTypeOK, Placed
<1>4. CASE UNCHANGED inviteVars
  BY <1>4 DEF inviteVars, applyVars, codeVars, InviteTypeOK, Placed
<1> QED
  BY <1>1, <1>2, <1>3, <1>4, CrashTyped, StepKinds

\* The types at first.
LEMMA InviteTypedInit == InviteInit => InviteTypeOK /\ Placed
BY DEF InviteInit, InviteTypeOK, Placed, Keys, Step, Stage, Handling, Limiting, Checking

\* Every variable keeps its type, for all applications, codes and failures.
THEOREM InviteTypeCorrect == InviteSpec => [](InviteTypeOK /\ Placed)
BY InviteTypedInit, InviteTypedStep, PTL DEF InviteSpec
-----------------------------------------------------------------------------
(* One row per number *)

\* Past the counter of the number.
Past == {"expirePhone", "countIp", "expireIp", "find", "insert"}

\* While its key has not expired under an application's feet, only one application
\* of a number is past the counter, which stays above zero for it; the number has
\* at most one row, and none yet when that application is about to insert it.
Serial ==
  \A p \in Phones \ late :
    /\ \A a, b \in Applicants :
         step[a] \in Past /\ step[b] \in Past /\ phone[a] = p /\ phone[b] = p => a = b
    /\ \A a \in Applicants : step[a] \in Past /\ phone[a] = p => hits[p] > 0
    /\ \A a \in Applicants : step[a] = "insert" /\ phone[a] = p => rows[p] = 0
    /\ rows[p] <= 1

\* The places an application can have once its number was counted.
LEMMA PastMembers ==
  /\ Past \subseteq Handling
  /\ {"idle", "countPhone", "refused", "success", "duplicate", "error", "lost"} \cap Past = {}
BY DEF Past, Handling, Limiting

\* The counter of a number admits its first application only.
LEMMA OnlyFirstPasses ==
  ASSUME ApplyTypeOK, Placed, NEW a \in Applicants, step[a] = "countPhone"
  PROVE  /\ phone[a] \in Phones /\ phone[a] \in Keys /\ Key(a) = phone[a]
         /\ hits[phone[a]] \in Nat
         /\ Counted(a) \in Past => hits[phone[a]] = 0
         /\ Counted(a) # "insert"
<1>1. phone[a] \in Phones /\ phone[a] \in Keys /\ Key(a) = phone[a] /\ hits[phone[a]] \in Nat
  BY StepMembers DEF Placed, Key, Keys, ApplyTypeOK
<1>2. Limit(a) = 1
  BY DEF Limit
<1> QED
  BY <1>1, <1>2, PastMembers DEF Counted, Admitted

\* An application that stays on its way without having come past the counter, or
\* to the insertion, in this step changes nothing about the others.
LEMMA SerialStays ==
  ASSUME ApplyTypeOK, Serial, NEW a \in Applicants, step[a] \in Past,
         NEW next, Go(a, next), next # "insert",
         UNCHANGED <<phone, rows, late>>,
         \A p \in Phones : hits'[p] = hits[p]
  PROVE  Serial'
BY DEF ApplyTypeOK, Serial, Go

\* No step of an application lets a second one of its number in.
LEMMA SerialStep ==
  ASSUME ApplyTypeOK, Placed, Serial, ApplyStep, faults \in Nat, faults' = 0
  PROVE  Serial'
<1>0. ~Fails
  BY DEF Fails
<1>1. ASSUME NEW a \in Applicants, NEW p \in Phones \cup {Malformed},
             NEW from \in Addresses \cup {Unknown}, RequestInvite(a, p, from)
      PROVE  Serial'
  <2>1. step' = [step EXCEPT ![a] = IF p = Malformed THEN "refused" ELSE "countPhone"]
    BY <1>1 DEF RequestInvite, Go
  <2>2. step'[a] \notin Past /\ step'[a] # "insert"
    BY <2>1, PastMembers DEF ApplyTypeOK
  <2>3. \A b \in Applicants \ {a} : step'[b] = step[b] /\ phone'[b] = phone[b]
    BY <1>1, <2>1 DEF RequestInvite, ApplyTypeOK
  <2>4. UNCHANGED <<hits, rows, late>>
    BY <1>1 DEF RequestInvite
  <2> QED
    BY <2>2, <2>3, <2>4 DEF Serial
<1>2. ASSUME NEW a \in Applicants, Application(a)
      PROVE  Serial'
  <2>1. CASE Count(a) /\ step[a] = "countPhone"
    <3> DEFINE p == phone[a]
    <3>1. /\ step' = [step EXCEPT ![a] = Counted(a)]
          /\ hits' = [hits EXCEPT ![p] = @ + 1]
          /\ UNCHANGED <<rows, phone, late>>
      BY <2>1, OnlyFirstPasses DEF Count, Go
    <3>2. /\ p \in Phones /\ p \in Keys /\ hits[p] \in Nat /\ Counted(a) # "insert"
          /\ Counted(a) \in Past => hits[p] = 0
      BY <2>1, OnlyFirstPasses
    <3>3. hits'[p] = hits[p] + 1 /\ \A x \in Phones \ {p} : hits'[x] = hits[x]
      BY <3>1, <3>2 DEF ApplyTypeOK, Keys
    <3>4. step'[a] = Counted(a) /\ \A b \in Applicants \ {a} : step'[b] = step[b]
      BY <3>1 DEF ApplyTypeOK
    <3>5. Counted(a) \in Past /\ p \notin late =>
            \A b \in Applicants : step[b] \in Past => phone[b] # p
      BY <3>2 DEF Serial
    <3> QED
      BY <3>1, <3>2, <3>3, <3>4, <3>5 DEF Serial
  <2>2. CASE Count(a) /\ step[a] = "countIp"
    <3>1. Counted(a) # "insert" /\ Key(a) \in Addresses
      BY <2>2, AdmittedType
    <3>2. \A p \in Phones : hits'[p] = hits[p]
      BY <2>2, <3>1, InviteAssumption DEF Count, ApplyTypeOK, Keys
    <3> QED
      BY <2>2, <3>1, <3>2, SerialStays DEF Count, Past
  <2>3. CASE SetExpiry(a)
    <3>1. Admitted(a) # "insert"
      BY AdmittedType
    <3> QED
      BY <2>3, <3>1, SerialStays DEF SetExpiry, Past
  <2>4. CASE FindRequest(a)
    <3>1. step[a] = "find" /\ phone[a] \in Phones /\ rows[phone[a]] \in Nat
      BY <2>4, StepMembers DEF FindRequest, Placed, ApplyTypeOK
    <3>2. CASE Found(phone[a]) = "insert"
      <4>1. rows[phone[a]] = 0
        BY <3>1, <3>2 DEF Found
      <4>2. UNCHANGED <<hits, rows, phone, late>> /\ step' = [step EXCEPT ![a] = "insert"]
        BY <2>4, <3>2 DEF FindRequest, Go
      <4>3. step'[a] = "insert" /\ \A b \in Applicants \ {a} : step'[b] = step[b]
        BY <4>2 DEF ApplyTypeOK
      <4>4. step[a] \in Past /\ \A b \in Applicants : step'[b] \in Past => step[b] \in Past
        BY <3>1, <4>3 DEF Past
      <4> QED
        BY <4>1, <4>2, <4>3, <4>4 DEF Serial
    <3> QED
      BY <2>4, <3>1, <3>2, SerialStays DEF FindRequest, Past, Found
  <2>5. CASE InsertRequest(a)
    <3> DEFINE p == phone[a]
    <3>1. step[a] = "insert" /\ p \in Phones
      BY <2>5, StepMembers DEF InsertRequest, Placed
    <3>2. UNCHANGED <<hits, phone, late>> /\ step' = [step EXCEPT ![a] = "success"]
      BY <2>5 DEF InsertRequest, Go
    <3>3. rows' = [rows EXCEPT ![p] = @ + 1]
      BY <2>5 DEF InsertRequest
    <3>4. step'[a] = "success" /\ \A b \in Applicants \ {a} : step'[b] = step[b]
      BY <3>2 DEF ApplyTypeOK
    <3>5. rows'[p] = rows[p] + 1 /\ \A x \in Phones \ {p} : rows'[x] = rows[x]
      BY <3>1, <3>3 DEF ApplyTypeOK
    <3>6. p \notin late => rows[p] = 0 /\ \A b \in Applicants \ {a} : step[b] \in Past => phone[b] # p
      BY <3>1 DEF Serial, Past
    <3>7. step'[a] \notin Past /\ "insert" \in Past
      BY <3>4, PastMembers DEF Past
    <3> QED
      BY <3>1, <3>2, <3>4, <3>5, <3>6, <3>7 DEF Serial
  <2>6. Count(a) => step[a] \in {"countPhone", "countIp"}
    BY DEF Count
  <2> QED
    BY <1>0, <1>2, <2>1, <2>2, <2>3, <2>4, <2>5, <2>6 DEF Application, LimiterFails, SaveFails
<1>3. ASSUME NEW k \in Keys, KeyExpires(k)
      PROVE  Serial'
  <2>1. /\ UNCHANGED <<rows, step, phone>> /\ hits' = [hits EXCEPT ![k] = 0]
        /\ late' = late \cup {p \in {k} : \E a \in Applicants : step[a] \in Handling /\ phone[a] = p}
    BY <1>3 DEF KeyExpires
  <2>2. late \subseteq late'
    BY <2>1
  <2>3. \A p \in Phones : p # k => hits'[p] = hits[p]
    BY <2>1 DEF ApplyTypeOK, Keys
  <2>4. k \notin late' => \A a \in Applicants : step[a] \in Past => phone[a] # k
    BY <2>1, PastMembers
  <2> QED
    BY <2>1, <2>2, <2>3, <2>4 DEF Serial
<1> QED
  BY <1>1, <1>2, <1>3 DEF ApplyStep

\* Nothing failed yet, and so the numbers are handled one application at a time.
SerialUnlessFailed == faults = 0 => Serial

\* Nor does any other step.
LEMMA SerialKept ==
  ASSUME InviteTypeOK, Placed, SerialUnlessFailed, [InviteNext]_inviteVars
  PROVE  SerialUnlessFailed'
<1> SUFFICES ASSUME faults' = 0 PROVE Serial'
  BY DEF SerialUnlessFailed
<1> USE DEF SerialUnlessFailed
<1>0. faults \in Nat /\ ~Fails
  BY DEF InviteTypeOK, Fails
<1>1. CASE CodeStep
  BY <1>0, <1>1, CodeStepLeaves DEF applyVars, Serial
<1>2. CASE ApplyStep
  BY <1>0, <1>2, ApplyStepLeaves, SerialStep, TypeHalves
<1>3. CASE UNCHANGED inviteVars
  BY <1>3 DEF inviteVars, applyVars, Serial
<1> QED
  BY <1>0, <1>1, <1>2, <1>3, StepKinds DEF InviteCrash, OthersFail

\* Without a failure no number is saved twice, unless its key expired while one of
\* its applications was handled: it is the rate limit, and not the table, that keeps
\* a second application of the number from being looked up before the first is saved.
THEOREM OneRowPerPhoneHolds == InviteSpec => []OneRowPerPhone
<1>1. InviteInit => SerialUnlessFailed
  BY PastMembers DEF InviteInit, Serial, SerialUnlessFailed
<1>2. InviteTypeOK /\ SerialUnlessFailed => OneRowPerPhone
  BY DEF InviteTypeOK, Serial, SerialUnlessFailed, OneRowPerPhone
<1> QED
  BY <1>1, <1>2, SerialKept, InviteTypeCorrect, PTL DEF InviteSpec
-----------------------------------------------------------------------------
(* Counters that expire *)

\* A counter made by an application is given its time to live by it.
LEMMA CountersApplyStep ==
  ASSUME ApplyTypeOK, Placed, faults = 0, CountersExpire, ApplyStep, faults' = 0
  PROVE  CountersExpire'
<1> DEFINE Lasting(k) == hits[k] > 0 /\ k \notin ttl
<1> DEFINE Setting(a) == step[a] \in {"expirePhone", "expireIp"}
<1>0. ~Fails
  BY DEF Fails
<1>1. \A k \in Keys : Lasting(k) => \E a \in Applicants : Setting(a) /\ Key(a) = k
  BY DEF CountersExpire
\* Whoever is about to set an expiry stays so while another application moves.
<1>2. ASSUME NEW a \in Applicants, ~Setting(a), UNCHANGED ttl,
             \A b \in Applicants \ {a} : step'[b] = step[b] /\ phone'[b] = phone[b] /\ ip'[b] = ip[b],
             \A k \in Keys : hits'[k] > 0 => hits[k] > 0 \/ (Setting(a)' /\ Key(a)' = k)
      PROVE  CountersExpire'
  <2> SUFFICES ASSUME NEW k \in Keys, Lasting(k)'
               PROVE  \E b \in Applicants : Setting(b)' /\ Key(b)' = k
    BY DEF CountersExpire
  <2>1. CASE Setting(a)' /\ Key(a)' = k
    BY <2>1
  <2>2. CASE hits[k] > 0
    <3>1. PICK b \in Applicants : Setting(b) /\ Key(b) = k
      BY <1>1, <1>2, <2>2
    <3>2. b # a
      BY <1>2, <3>1
    <3>3. Setting(b)' /\ Key(b)' = k
      BY <1>2, <3>1, <3>2 DEF Key
    <3> QED
      BY <3>3
  <2> QED
    BY <1>2, <2>1, <2>2
<1>3. ASSUME NEW a \in Applicants, NEW p \in Phones \cup {Malformed},
             NEW from \in Addresses \cup {Unknown}, RequestInvite(a, p, from)
      PROVE  CountersExpire'
  <2>1. /\ ~Setting(a) /\ UNCHANGED <<ttl, hits>>
        /\ \A b \in Applicants \ {a} : step'[b] = step[b] /\ phone'[b] = phone[b] /\ ip'[b] = ip[b]
    BY <1>3 DEF RequestInvite, Go, ApplyTypeOK
  <2> QED
    BY <1>2, <2>1
<1>4. ASSUME NEW a \in Applicants, Application(a)
      PROVE  CountersExpire'
  <2>1. \A b \in Applicants \ {a} : step'[b] = step[b] /\ phone'[b] = phone[b] /\ ip'[b] = ip[b]
    BY <1>0, <1>4 DEF Application, Count, SetExpiry, LimiterFails, FindRequest, InsertRequest,
                      SaveFails, Go, ApplyTypeOK
  <2>2. CASE Count(a)
    <3>1. /\ ~Setting(a) /\ UNCHANGED <<ttl, phone, ip>>
          /\ hits' = [hits EXCEPT ![Key(a)] = @ + 1]
          /\ step' = [step EXCEPT ![a] = Counted(a)]
          /\ step[a] \in {"countPhone", "countIp"}
      BY <2>2 DEF Count, Go
    <3>2. \A k \in Keys \ {Key(a)} : hits'[k] = hits[k]
      BY <3>1 DEF ApplyTypeOK
    <3>3. hits[Key(a)] \in Nat /\ Key(a) \in Keys
      BY <3>1, AdmittedType DEF ApplyTypeOK, Limiting
    <3>4. hits[Key(a)] = 0 => Setting(a)' /\ Key(a)' = Key(a)
      BY <3>1 DEF Counted, Key, ApplyTypeOK
    <3>5. \A k \in Keys : hits'[k] > 0 => hits[k] > 0 \/ (Setting(a)' /\ Key(a)' = k)
      BY <3>2, <3>3, <3>4
    <3> QED
      BY <1>2, <2>1, <3>1, <3>5
  <2>3. CASE SetExpiry(a)
    <3>1. UNCHANGED <<hits, phone, ip>> /\ ttl' = ttl \cup {Key(a)}
      BY <2>3 DEF SetExpiry
    <3> SUFFICES ASSUME NEW k \in Keys, Lasting(k)'
                 PROVE  \E b \in Applicants : Setting(b)' /\ Key(b)' = k
      BY DEF CountersExpire
    <3>2. Lasting(k) /\ k # Key(a)
      BY <3>1
    <3>3. PICK b \in Applicants : Setting(b) /\ Key(b) = k
      BY <1>1, <3>2
    <3>4. Setting(b)' /\ Key(b)' = k
      BY <2>1, <3>2, <3>3 DEF Key
    <3> QED
      BY <3>4
  <2>4. CASE FindRequest(a)
    BY <1>2, <2>1, <2>4 DEF FindRequest
  <2>5. CASE InsertRequest(a)
    BY <1>2, <2>1, <2>5 DEF InsertRequest
  <2> QED
    BY <1>0, <1>4, <2>2, <2>3, <2>4, <2>5 DEF Application, LimiterFails, SaveFails
<1>5. ASSUME NEW x \in Keys, KeyExpires(x)
      PROVE  CountersExpire'
  <2>1. UNCHANGED <<step, phone, ip>> /\ hits' = [hits EXCEPT ![x] = 0] /\ ttl' = ttl \ {x}
    BY <1>5 DEF KeyExpires
  <2>2. \A k \in Keys : Lasting(k)' => Lasting(k)
    BY <2>1 DEF ApplyTypeOK
  <2> QED
    BY <1>1, <2>1, <2>2 DEF CountersExpire, Key
<1> QED
  BY <1>3, <1>4, <1>5 DEF ApplyStep

\* Every step keeps this while nothing fails.
LEMMA CountersKept ==
  ASSUME InviteTypeOK, Placed, CountersExpire, [InviteNext]_inviteVars
  PROVE  CountersExpire'
<1>0. CASE faults' # 0
  BY <1>0 DEF CountersExpire
<1> SUFFICES ASSUME faults' = 0 PROVE CountersExpire'
  BY <1>0
<1>1. faults \in Nat /\ ~Fails
  BY DEF InviteTypeOK, Fails
<1>2. CASE CodeStep
  BY <1>1, <1>2, CodeStepLeaves DEF applyVars, CountersExpire, Key
<1>3. CASE ApplyStep
  BY <1>1, <1>3, ApplyStepLeaves, CountersApplyStep, TypeHalves
<1>4. CASE UNCHANGED inviteVars
  BY <1>4 DEF inviteVars, applyVars, CountersExpire, Key
<1> QED
  BY <1>1, <1>2, <1>3, <1>4, StepKinds DEF InviteCrash, OthersFail

\* While nothing fails, a counter in Redis has a time to live or gets one with the
\* next call of the application that made it.
THEOREM CountersExpireHolds == InviteSpec => []CountersExpire
<1>1. InviteInit => CountersExpire
  BY DEF InviteInit, CountersExpire, Keys
<1> QED
  BY <1>1, CountersKept, InviteTypeCorrect, PTL DEF InviteSpec
-----------------------------------------------------------------------------
(* Codes of runs *)

\* A check that is past the validation, or about to pass it, has seen its code usable.
SeenUsable ==
  \A q \in Checks :
    stage[q] \in {"create", "created"} \/ (stage[q] = "validate" /\ Usable(code[q])) => q \in usable

\* A check under way has seen whatever usable code it brings.
LEMMA SeenKept ==
  ASSUME InviteTypeOK, SeenUsable, [InviteNext]_inviteVars
  PROVE  SeenUsable'
<1> USE DEF SeenUsable
<1>1. ASSUME NEW q \in Checks, NEW c \in Codes \cup {NoCode}, BringCode(q, c) PROVE SeenUsable'
  <2>1. /\ stage' = [stage EXCEPT ![q] = "validate"] /\ code' = [code EXCEPT ![q] = c]
        /\ usable' = usable \cup {x \in {q} : Usable(c)}
        /\ UNCHANGED <<codes, expired>>
    BY <1>1 DEF BringCode
  <2>2. \A x : Usable(x)' <=> Usable(x)
    BY <2>1 DEF Usable, UsableIn
  <2>3. \A x \in Checks \ {q} : stage'[x] = stage[x] /\ code'[x] = code[x]
    BY <2>1 DEF InviteTypeOK
  <2>4. stage'[q] = "validate" /\ code'[q] = c
    BY <2>1 DEF InviteTypeOK
  <2> QED
    BY <2>1, <2>2, <2>3, <2>4 DEF Usable
<1>2. ASSUME NEW q \in Checks, Check(q) PROVE SeenUsable'
  <2>1. UNCHANGED <<codes, expired, code, usable>>
    BY <1>2 DEF Check, ValidateInviteCode, ValidationFails, CreateReviewRun
  <2>2. \A x \in Checks \ {q} : stage'[x] = stage[x]
    BY <1>2 DEF Check, ValidateInviteCode, ValidationFails, CreateReviewRun, InviteTypeOK
  <2>3. stage'[q] # "validate" /\ (stage'[q] \in {"create", "created"} => q \in usable)
    BY <1>2 DEF Check, ValidateInviteCode, ValidationFails, CreateReviewRun, Passes, InviteTypeOK
  <2> QED
    BY <2>1, <2>2, <2>3 DEF Usable, UsableIn
<1>3. ASSUME WitnessUsable, UNCHANGED <<stage, code>> PROVE SeenUsable'
  <2>1. \A q \in Checks : stage[q] = "validate" /\ Usable(code[q])' => q \in usable'
    BY <1>3 DEF WitnessUsable, Usable, Checking
  <2>2. usable \subseteq usable'
    BY <1>3 DEF WitnessUsable
  <2> QED
    BY <1>3, <2>1, <2>2
<1>4. ASSUME UNCHANGED codeVars PROVE SeenUsable'
  BY <1>4 DEF codeVars, Usable, UsableIn
<1>5. CASE InviteCrash
  <2>1. /\ UNCHANGED <<codes, expired, code, usable>>
        /\ stage' = [q \in Checks |-> IF stage[q] \in Checking THEN "lost" ELSE stage[q]]
    BY <1>5 DEF InviteCrash
  <2> QED
    BY <2>1 DEF Usable, UsableIn
<1>6. CASE CodeStep
  BY <1>1, <1>2, <1>3, <1>6 DEF CodeStep, PassesExpiry, Administer, AdminStep, CodesChange
<1> QED
  BY <1>4, <1>5, <1>6, ApplyStepLeaves, StepKinds DEF OthersFail, inviteVars, InviteTypeOK

\* A run is created only for a code that was active and not expired at some time
\* since its request came, whatever the admin site did in between.
THEOREM RunsHadUsableCodeHolds == InviteSpec => []RunsHadUsableCode
<1>1. InviteInit => SeenUsable
  BY DEF InviteInit, SeenUsable
<1>2. SeenUsable => RunsHadUsableCode
  BY DEF SeenUsable, RunsHadUsableCode
<1> QED
  BY <1>1, <1>2, SeenKept, InviteTypeCorrect, PTL DEF InviteSpec
==============================================================================
